---------------------------- MODULE MetricsTables ----------------------------
(***************************************************************************)
(* src/parse_table1_constraints.py and src/parse_table2_mutations.py, run *)
(* one after the other over the log directory.  Each loops over the .log  *)
(* files, counting its own METRICS_ lines into two Counters, then prints  *)
(* its LaTeX table rows and an analysis paragraph.                        *)
(*                                                                         *)
(* A Counter is a bag.  A printed rate is the fraction num/den of 100 it  *)
(* formats; names, targets and wording are left out.                      *)
(***************************************************************************)
EXTENDS MutationLog, BagsExt

CONSTANT MaxLogs    \* bound on the number of log files

VARIABLES
    logs,           \* the .log files, in sorted order
    mt_file,        \* the next file the running script opens
    mt_counts,      \* its two Counters: [yes, no] (satisfied/violated, applied/skipped)
    table1,         \* what parse_table1_constraints printed, or <<>>
    table2,         \* what parse_table2_mutations printed, or <<>>
    mt_phase        \* "table1", "table2", "done" or "ZeroDivisionError"

mt_vars == <<mt_file, mt_counts, table1, table2, mt_phase>>

\* constraints = ['C0', ..., 'C5']
Table1Constraints == {"C0", "C1", "C2", "C3", "C4", "C5"}

\* the mutation_types of parse_table2_mutations
MutationTypes == {"WindowSpec", "Identity", "CaseWhen"}

NoCounts == [yes |-> EmptyBag, no |-> EmptyBag]

\* counter[key] of a Counter: 0 for a key never added.
Count(B, k) == IF k \in DOMAIN B THEN B[k] ELSE 0

\* (a / total * 100) if total > 0 else 0
Percent(a, total) == IF total > 0 THEN [num |-> a * 100, den |-> total] ELSE [num |-> 0, den |-> 1]

-----------------------------------------------------------------------------
(* parse_table1_constraints.py *)

\* Mutant of CountConstraintLine: the `elif value == 'false'` branch lost.
CountConstraintLineTrueOnly(cnt, x) ==
    IF x.k # "METRICS_CONSTRAINT" THEN cnt
    ELSE [cnt EXCEPT !.yes = @ (+) SetToBag({c \in DOMAIN x.v : x.v[c] = "true"})]

\* One line of a file: each `Ck:true` part of a METRICS_CONSTRAINT line adds
\* one to satisfied[Ck], each `Ck:false` part one to violated[Ck].
CountConstraintLine(cnt, x) ==
    IF x.k # "METRICS_CONSTRAINT" THEN cnt
    ELSE [yes |-> cnt.yes (+) SetToBag({c \in DOMAIN x.v : x.v[c] = "true"}),
          no  |-> cnt.no  (+) SetToBag({c \in DOMAIN x.v : x.v[c] = "false"})]

\* parse_constraint_logs: one iteration of the loop over the files.
ParseConstraintLog ==
    /\ mt_phase = "table1" /\ mt_file <= Len(logs)
    /\ mt_counts' = FoldLeft(CountConstraintLine, mt_counts, LogLines(logs[mt_file]))
    /\ mt_file' = mt_file + 1
    /\ UNCHANGED <<logs, table1, table2, mt_phase>>

\* generate_latex_table: a row per constraint, the total row, the number of
\* test cases it reports (satisfied['C0']), and which analysis paragraph it
\* prints; then main ends and parse_table2_mutations starts.
GenerateTable1 ==
    /\ mt_phase = "table1" /\ mt_file > Len(logs)
    /\ LET s == mt_counts.yes
           v == mt_counts.no
           sat == MapThenSumSet(LAMBDA c : Count(s, c), Table1Constraints)
           vio == MapThenSumSet(LAMBDA c : Count(v, c), Table1Constraints)
       IN  table1' = [rows  |-> [c \in Table1Constraints |->
                                   [satisfied |-> Count(s, c), violated |-> Count(v, c),
                                    rate |-> Percent(Count(s, c), Count(s, c) + Count(v, c))]],
                      total |-> [satisfied |-> sat, violated |-> vio, rate |-> Percent(sat, sat + vio)],
                      cases |-> Count(s, "C0"),
                      clean |-> vio = 0]
    /\ mt_file' = 1
    /\ mt_counts' = NoCounts
    /\ mt_phase' = "table2"
    /\ UNCHANGED <<logs, table2>>

-----------------------------------------------------------------------------
(* parse_table2_mutations.py *)

\* Mutant of CountMutationLine: every line counted as applied.
CountMutationLineAllApplied(cnt, x) ==
    IF x.k # "METRICS_MUTATION" THEN cnt ELSE [cnt EXCEPT !.yes = BagAdd(@, x.v.type)]

\* Mutant of CountMutationLine: the `elif status == 'skipped'` branch lost.
CountMutationLineNoSkipped(cnt, x) ==
    IF x.k = "METRICS_MUTATION" /\ x.v.status = "applied" THEN [cnt EXCEPT !.yes = BagAdd(@, x.v.type)] ELSE cnt

\* One line of a file: a METRICS_MUTATION line with two parts adds one to
\* applied[type] or skipped[type] as its status says.
CountMutationLine(cnt, x) ==
    CASE x.k # "METRICS_MUTATION"   -> cnt
      [] x.v.status = "applied"     -> [cnt EXCEPT !.yes = BagAdd(@, x.v.type)]
      [] x.v.status = "skipped"     -> [cnt EXCEPT !.no = BagAdd(@, x.v.type)]
      [] OTHER                      -> cnt

\* parse_mutation_logs: one iteration of the loop over the files.
ParseMutationLog ==
    /\ mt_phase = "table2" /\ mt_file <= Len(logs)
    /\ mt_counts' = FoldLeft(CountMutationLine, mt_counts, LogLines(logs[mt_file]))
    /\ mt_file' = mt_file + 1
    /\ UNCHANGED <<logs, table1, table2, mt_phase>>

\* generate_latex_table: the three rows, each rate guarded; then the
\* analysis computes the three rates unguarded, and a type with neither an
\* applied nor a skipped line divides by zero after the rows are printed.
GenerateTable2 ==
    /\ mt_phase = "table2" /\ mt_file > Len(logs)
    /\ LET a == mt_counts.yes
           s == mt_counts.no
           unseen == {t \in MutationTypes : Count(a, t) + Count(s, t) = 0}
       IN  /\ table2' = [rows |-> [t \in MutationTypes |->
                                     [applied |-> Count(a, t), skipped |-> Count(s, t),
                                      rate |-> Percent(Count(a, t), Count(a, t) + Count(s, t))]],
                         analysis |-> unseen = {}]
           /\ mt_phase' = IF unseen = {} THEN "done" ELSE "ZeroDivisionError"
    /\ UNCHANGED <<logs, mt_file, mt_counts, table1>>

MTInit ==
    /\ mt_file = 1
    /\ mt_counts = NoCounts
    /\ table1 = <<>>
    /\ table2 = <<>>
    /\ mt_phase = "table1"

Init == logs \in SeqOf(LogShapes, MaxLogs) /\ MTInit

Next == ParseConstraintLog \/ GenerateTable1 \/ ParseMutationLog \/ GenerateTable2

Spec == Init /\ [][Next]_<<logs, mt_vars>>
=============================================================================
