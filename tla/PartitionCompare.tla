-------------------------- MODULE PartitionCompare --------------------------
(***************************************************************************)
(* What Layer 3 of the MRUP comparator promises, as one atomic step: the   *)
(* two row lists are split by partition key (column 0), every key seen on *)
(* either side is compared, the keys whose row lists differ are reported, *)
(* and the overall result is a match iff there are none.                  *)
(***************************************************************************)
EXTENDS Sequences, FiniteSets

VARIABLES expected, actual, result, reported

vars == <<expected, actual, result, reported>>

Keys(rows) == {rows[i][1] : i \in DOMAIN rows}

RowsOf(rows, p) == SelectSeq(rows, LAMBDA r : r[1] = p)

Differing == {p \in Keys(expected) \cup Keys(actual) :
                RowsOf(expected, p) # RowsOf(actual, p)}

Init == /\ result = "pending"
        /\ reported = {}

Compare == /\ result = "pending"
           /\ reported' = Differing
           /\ result' = IF Differing = {} THEN "match" ELSE "mismatch"
           /\ UNCHANGED <<expected, actual>>

Spec == Init /\ [][Compare]_vars
=============================================================================
