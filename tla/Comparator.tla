----------------------------- MODULE Comparator -----------------------------
(***************************************************************************)
(* The comparison part of generate_detailed_analysis in                    *)
(* src/analyze_mrup_log_detailed.py: Layer 1 (cardinality), Layer 2        *)
(* (normalize_results on both sides), Layer 3 (group_by_partition and the  *)
(* per-partition loop) and the final report.  The inputs are what          *)
(* parse_log_file reads from an oracle log: the expected rows              *)
(* H(t1) ++ H(t2), the actual rows H(t1 UNION ALL t2) in the order the     *)
(* database returned them, the window's ORDER BY, and the logged counts.   *)
(***************************************************************************)
EXTENDS Normalizer, SequencesExt

CONSTANTS
    Depts, Salaries, Ages, Wfs,  \* the tokens each column may hold
    MaxRows,                     \* bound on the rows of one side
    OrderSpecs,                  \* the ORDER BY clauses (order_info) to try
    CountsLogged                 \* whether the log's Layer 1 block parses

Rows == Depts \X Salaries \X Ages \X Wfs

VARIABLES
    hExpected, hActual, order_info, logged,  \* inputs read from the log
    phase,                                   \* where generate_detailed_analysis is
    cardinality_match,                       \* Layer 1 result
    expected_after, actual_after,            \* Layer 2 results
    todo, all_match, mismatched              \* Layer 3 loop state

vars == <<hExpected, hActual, order_info, logged, phase, cardinality_match,
          expected_after, actual_after, todo, all_match, mismatched>>

Phases == {"layer1", "layer2", "layer3", "compare", "verdict", "done", "crashed"}

-----------------------------------------------------------------------------
(* What the database under test may return for H(t1 UNION ALL t2): the     *)
(* expected rows, or a buggy variant of them (one wf_result changed, one   *)
(* row lost, one row added), in any physical order.                       *)

Reorderings(s) == {[i \in DOMAIN s |-> s[f[i]]] : f \in Permutations(DOMAIN s)}

EngineVariants(exp) ==
       {exp}
    \cup {[exp EXCEPT ![i][4] = w] : i \in DOMAIN exp, w \in Wfs}
    \cup {RemoveAt(exp, i) : i \in DOMAIN exp}
    \cup {Append(exp, r) : r \in IF Len(exp) < MaxRows THEN Rows ELSE {}}

EngineResults(exp) == UNION {Reorderings(v) : v \in EngineVariants(exp)}

-----------------------------------------------------------------------------
(* Layer 3 helpers. *)

\* group_by_partition(results)[p]: the rows of partition p in input order.
group_by_partition(results, p) == SelectSeq(results, LAMBDA r : r[1] = p)

PartitionKeys(results) == {results[i][1] : i \in DOMAIN results}

\* all_partitions: keys seen on either side.
AllPartitions(expected, actual) == PartitionKeys(expected) \cup PartitionKeys(actual)

\* match = expected_rows == actual_rows
PartitionMatch(expected_rows, actual_rows) == expected_rows = actual_rows

\* The loop visits sorted(all_partitions) in order.
FirstPartition(S) == CHOOSE p \in S : \A q \in S : StrRank(p) <= StrRank(q)

-----------------------------------------------------------------------------

Init ==
    /\ order_info \in OrderSpecs
    /\ hExpected \in SeqOf(Rows, MaxRows)
    /\ hActual \in EngineResults(hExpected)
    /\ logged \in CountsLogged
    /\ phase = "layer1"
    /\ cardinality_match = FALSE
    /\ expected_after = <<>>
    /\ actual_after = <<>>
    /\ todo = {}
    /\ all_match = TRUE
    /\ mismatched = {}

(* data.get('expected_cardinality', 0) == data.get('actual_cardinality', 0) *)
Layer1 ==
    /\ phase = "layer1"
    /\ cardinality_match' =
           (IF logged THEN Len(hExpected) = Len(hActual) ELSE 0 = 0)
    /\ phase' = "layer2"
    /\ UNCHANGED <<hExpected, hActual, order_info, logged, expected_after,
                   actual_after, todo, all_match, mismatched>>

(* Both sides are normalized, whatever Layer 1 said. *)
Layer2 ==
    /\ phase = "layer2"
    /\ ~NormalizeRaises(hExpected, order_info)
    /\ ~NormalizeRaises(hActual, order_info)
    /\ expected_after' = normalize_results(hExpected, order_info)
    /\ actual_after' = normalize_results(hActual, order_info)
    /\ phase' = "layer3"
    /\ UNCHANGED <<hExpected, hActual, order_info, logged, cardinality_match,
                   todo, all_match, mismatched>>

(* sorted() raises TypeError: the script stops and writes no report. *)
Layer2Raises ==
    /\ phase = "layer2"
    /\ \/ NormalizeRaises(hExpected, order_info)
       \/ NormalizeRaises(hActual, order_info)
    /\ phase' = "crashed"
    /\ UNCHANGED <<hExpected, hActual, order_info, logged, cardinality_match,
                   expected_after, actual_after, todo, all_match, mismatched>>

(* Layer 3 groups data['h_expected'] and data['h_actual']: the rows as    *)
(* read from the log, not expected_after and actual_after.              *)
GroupPartitions ==
    /\ phase = "layer3"
    /\ todo' = AllPartitions(hExpected, hActual)
    /\ all_match' = TRUE
    /\ phase' = IF todo' = {} THEN "verdict" ELSE "compare"
    /\ UNCHANGED <<hExpected, hActual, order_info, logged, cardinality_match,
                   expected_after, actual_after, mismatched>>

(* Mutant of ComparePartition: `all_match = match`, so only the last     *)
(* partition visited decides.                                            *)
ComparePartitionOverwrite ==
    /\ phase = "compare"
    /\ LET p     == FirstPartition(todo)
           match == PartitionMatch(group_by_partition(hExpected, p),
                                   group_by_partition(hActual, p))
       IN  /\ all_match' = match
           /\ mismatched' = IF match THEN mismatched ELSE mismatched \cup {p}
           /\ todo' = todo \ {p}
    /\ phase' = IF todo' = {} THEN "verdict" ELSE "compare"
    /\ UNCHANGED <<hExpected, hActual, order_info, logged, cardinality_match,
                   expected_after, actual_after>>

(* One iteration of `for partition in all_partitions`. *)
ComparePartition ==
    /\ phase = "compare"
    /\ LET p     == FirstPartition(todo)
           match == PartitionMatch(group_by_partition(hExpected, p),
                                   group_by_partition(hActual, p))
       IN  /\ all_match' = (all_match /\ match)
           /\ mismatched' = IF match THEN mismatched ELSE mismatched \cup {p}
           /\ todo' = todo \ {p}
    /\ phase' = IF todo' = {} THEN "verdict" ELSE "compare"
    /\ UNCHANGED <<hExpected, hActual, order_info, logged, cardinality_match,
                   expected_after, actual_after>>

(* The overall line and the final banner (data['passed'], the oracle's   *)
(* own verdict copied from the log) are printed; nothing changes.        *)
Report ==
    /\ phase = "verdict"
    /\ phase' = "done"
    /\ UNCHANGED <<hExpected, hActual, order_info, logged, cardinality_match,
                   expected_after, actual_after, todo, all_match, mismatched>>

Next == Layer1 \/ Layer2 \/ Layer2Raises \/ GroupPartitions \/ ComparePartition \/ Report

Spec == Init /\ [][Next]_vars

-----------------------------------------------------------------------------
(* The order the specification asks normalization to produce (spec 4.2,   *)
(* with the NULL forms of spec 6): partition key ascending, NULL as "";    *)
(* each ORDER BY entry with NULLs placed by NULLS FIRST/LAST whatever the  *)
(* direction and DESC inverting only the non-NULL comparison; wf_result    *)
(* ascending with NULL after every number.  Numbers compare numerically,   *)
(* anything else by its text.                                             *)

NullForms == {"NULL", "<NULL>"}

Cmp(x, y) == IF x < y THEN "lt" ELSE IF x = y THEN "eq" ELSE "gt"

PlainCmp(a, b) ==
    IF a \in DOMAIN NumVal /\ b \in DOMAIN NumVal
    THEN Cmp(NumVal[a], NumVal[b]) ELSE Cmp(StrRank(a), StrRank(b))

Flip(c) == CASE c = "lt" -> "gt" [] c = "gt" -> "lt" [] OTHER -> c

SpecCellCmp(a, b, desc, nulls_first) ==
    CASE a \in NullForms /\ b \in NullForms -> "eq"
      [] a \in NullForms -> IF nulls_first THEN "lt" ELSE "gt"
      [] b \in NullForms -> IF nulls_first THEN "gt" ELSE "lt"
      [] OTHER -> IF desc THEN Flip(PlainCmp(a, b)) ELSE PlainCmp(a, b)

PartitionToken(t) == IF t \in NullForms THEN "" ELSE t

SpecRowCmp(r1, r2, spec) ==
    LET used  == UsedEntries(spec)
        steps == << PlainCmp(PartitionToken(r1[1]), PartitionToken(r2[1])) >>
                 \o [i \in 1..Len(used) |->
                        SpecCellCmp(r1[ColumnIndex[used[i].column]],
                                    r2[ColumnIndex[used[i].column]],
                                    used[i].desc, used[i].nulls_first)]
                 \o << SpecCellCmp(r1[4], r2[4], FALSE, FALSE) >>
        D     == {i \in DOMAIN steps : steps[i] # "eq"}
    IN  IF D = {} THEN "eq"
        ELSE steps[CHOOSE i \in D : \A j \in D : i <= j]

SameRows(s, t) == ToBag(s) = ToBag(t)

Normalized == {"layer3", "compare", "verdict", "done"}

-----------------------------------------------------------------------------
(* Properties *)

RowSeq(s, n) == Len(s) <= n /\ \A i \in DOMAIN s : s[i] \in Rows

TypeOK ==
    /\ RowSeq(hExpected, MaxRows)
    /\ RowSeq(hActual, MaxRows + 1)
    /\ order_info \in OrderSpecs
    /\ logged \in BOOLEAN
    /\ phase \in Phases
    /\ cardinality_match \in BOOLEAN
    /\ RowSeq(expected_after, MaxRows)
    /\ RowSeq(actual_after, MaxRows + 1)
    /\ todo \subseteq Depts
    /\ all_match \in BOOLEAN
    /\ mismatched \subseteq Depts

(* When normalize_results succeeds, both normalized sides are in the order *)
(* the specification defines: sort_key's NULL-to-inf mapping, the DESC     *)
(* negation and the wf_result tie-breaker agree with NULLS FIRST/LAST,     *)
(* direction and NULL-last semantics.                                     *)
NormalizedRespectsOrderSpec ==
    phase \in Normalized =>
        \A s \in {expected_after, actual_after} :
            \A i \in 1..Len(s) - 1 : SpecRowCmp(s[i], s[i+1], order_info) # "gt"

(* The Layer 3 loop over sorted(all_partitions), accumulating all_match    *)
(* and the mismatching keys one partition at a time, implements the       *)
(* atomic comparison of PartitionCompare.                                 *)
Layer3Spec == INSTANCE PartitionCompare WITH
    expected <- hExpected,
    actual   <- hActual,
    result   <- IF phase \in {"verdict", "done"}
                THEN IF all_match THEN "match" ELSE "mismatch"
                ELSE "pending",
    reported <- IF phase \in {"verdict", "done"} THEN mismatched ELSE {}

Layer3Refinement == Layer3Spec!Spec

(* Metamorphic soundness (spec 8): when the database returned exactly the  *)
(* expected rows in some other order, Layer 3 reports that all partitions *)
(* match.                                                                 *)
MetamorphicSoundness ==
    phase = "done" /\ SameRows(hExpected, hActual) => all_match

(* Order independence (spec 8): normalizing two orderings of the same rows *)
(* gives the same sequence.                                               *)
NormalizeOrderIndependent ==
    phase \in Normalized /\ SameRows(hExpected, hActual) =>
        expected_after = actual_after

(* Normalization is total (spec 4.2, 6, 7): on rows whose NULLs arrive in  *)
(* any of their literal forms it never raises.                            *)
NormalizeTotal == phase # "crashed"

(* Layer 1 prints PASS only when H(t1) and H(t2) together have as many rows *)
(* as H(t1 UNION ALL t2).                                                 *)
CardinalityCheckSound ==
    phase # "layer1" /\ cardinality_match => Len(hExpected) = Len(hActual)

=============================================================================
