----------------------------- MODULE RealMetrics -----------------------------
(***************************************************************************)
(* src/extract_real_metrics.py: extract_from_logs reads every log and     *)
(* counts its METRICS_ lines and its constraint check lines into          *)
(* defaultdicts; calculate_chapter4_values turns the counts into the      *)
(* Chapter 4 figures, and main saves them to chapter4_real_data.json.     *)
(*                                                                         *)
(* A defaultdict(int) is a bag: the key `window_spec_` + v is the pair     *)
(* <<"window_spec", v>>, `C0_PASS` is <<"C0", "PASS">>, `layer1_pass` is   *)
(* <<"layer1", "pass">>.  The METRICS_SCHEMA, _QUERY and _TIMING lines,   *)
(* and the percentages built from them alone, are left out.               *)
(***************************************************************************)
EXTENDS MutationLog, BagsExt

CONSTANT MaxLogs    \* bound on the number of log files

VARIABLES
    logs,           \* the log files in the order glob yields them
    rm_next,        \* the next file extract_from_logs reads
    rm_metrics,     \* the metrics dict of extract_from_logs
    rm_values,      \* the saved values, or <<>> before main saves them
    rm_phase        \* "extract" or "done"

rm_vars == <<rm_next, rm_metrics, rm_values, rm_phase>>

MutationKeys == {"window_spec", "identity", "case_when"}

\* range(6) in calculate_chapter4_values.
ConstraintNums == {"C0", "C1", "C2", "C3", "C4", "C5"}

Layers == {"layer1", "layer2", "layer3"}

\* Mutant of NoneIn: the 'None' not in k test dropped.
NoneInNever(v) == FALSE

\* 'None' in k: of the oracle's variant names only "None" contains it.
NoneIn(v) == v = "None"

NoMetrics == [total_tests |-> 0, mutations |-> EmptyBag, constraints |-> EmptyBag, comparator |-> EmptyBag]

-----------------------------------------------------------------------------
(* extract_from_logs *)

\* Mutant of CountLine: only `: ✓ PASS` check lines are recognised.
CountLinePassOnly(m, x) ==
    CASE x.k = "METRICS_MUTATIONS" ->
            [m EXCEPT !.mutations = @ (+) SetToBag({<<s, IF s \in DOMAIN x.v THEN x.v[s] ELSE "None">> :
                                                       s \in MutationKeys})]
      [] x.k = "METRICS_COMPARATOR" ->
            [m EXCEPT !.comparator = @ (+) SetToBag({<<l, IF x.v[l] = "true" THEN "pass" ELSE "fail">> :
                                                       l \in {l \in DOMAIN x.v : x.v[l] \in {"true", "false"}}})]
      [] x.k = "check" /\ x.v.ok = "PASS" -> [m EXCEPT !.constraints = BagAdd(@, <<x.v.id, x.v.ok>>)]
      [] OTHER -> m

\* One line of a log: a METRICS_MUTATIONS line adds one to each stage's
\* variant, None when the stage has no key; a METRICS_COMPARATOR line adds
\* one to key_pass or key_fail for each key that is true or false; any
\* other line that is a `[Ck] ...: ✓ PASS` or `✗ FAIL` check adds one to
\* Ck_PASS or Ck_FAIL.
CountLine(m, x) ==
    CASE x.k = "METRICS_MUTATIONS" ->
            [m EXCEPT !.mutations = @ (+) SetToBag({<<s, IF s \in DOMAIN x.v THEN x.v[s] ELSE "None">> :
                                                       s \in MutationKeys})]
      [] x.k = "METRICS_COMPARATOR" ->
            [m EXCEPT !.comparator = @ (+) SetToBag({<<l, IF x.v[l] = "true" THEN "pass" ELSE "fail">> :
                                                       l \in {l \in DOMAIN x.v : x.v[l] \in {"true", "false"}}})]
      [] x.k = "check" -> [m EXCEPT !.constraints = BagAdd(@, <<x.v.id, x.v.ok>>)]
      [] OTHER -> m

\* Mutant of ExtractLog: the file is not counted in total_tests.
ExtractLogUncounted ==
    /\ rm_phase = "extract" /\ rm_next <= Len(logs)
    /\ rm_metrics' = FoldLeft(CountLine, rm_metrics, LogLines(logs[rm_next]))
    /\ rm_next' = rm_next + 1
    /\ UNCHANGED <<logs, rm_values, rm_phase>>

\* One iteration of the loop over the files: count the file, then its lines.
ExtractLog ==
    /\ rm_phase = "extract" /\ rm_next <= Len(logs)
    /\ rm_metrics' = FoldLeft(CountLine, [rm_metrics EXCEPT !.total_tests = @ + 1], LogLines(logs[rm_next]))
    /\ rm_next' = rm_next + 1
    /\ UNCHANGED <<logs, rm_values, rm_phase>>

-----------------------------------------------------------------------------
(* calculate_chapter4_values *)

\* sum(v for k, v in metrics[...].items() if k in keys)
BagSum(B, keys) == MapThenSumSet(LAMBDA e : B[e], keys)

\* A rate kept as the fraction num/den of 100 it prints, or its default.
Rate(n, total, default) == IF total > 0 THEN [num |-> n * 100, den |-> total] ELSE [num |-> default, den |-> 1]

\* RQ3: every layer is reached by every file; passed is layerN_pass, and
\* all files when no file had that key.
LayerFigures(m) ==
    [l \in Layers |->
        LET passed == IF <<l, "pass">> \in DOMAIN m.comparator THEN m.comparator[<<l, "pass">>] ELSE m.total_tests
        IN  [reached |-> m.total_tests, passed |-> passed, rate |-> Rate(passed, m.total_tests, 0)]]

calculate_chapter4_values(m) ==
    LET total == m.total_tests
        cnt(B, k) == IF k \in DOMAIN B THEN B[k] ELSE 0
        stage(s) ==
            LET all     == BagSum(m.mutations, {e \in DOMAIN m.mutations : e[1] = s})
                applied == BagSum(m.mutations, {e \in DOMAIN m.mutations : e[1] = s /\ ~NoneIn(e[2])})
            IN  [applied |-> applied, skipped |-> all - applied, rate |-> Rate(applied, all, 0)]
        strategies == {e \in DOMAIN m.mutations : e[1] = "case_when" /\ ~NoneIn(e[2])}
    IN  [constraints |-> [c \in ConstraintNums |->
                            LET sat == cnt(m.constraints, <<c, "PASS">>)
                                vio == cnt(m.constraints, <<c, "FAIL">>)
                            IN  [satisfied |-> sat, violated |-> vio, rate |-> Rate(sat, sat + vio, 100)]],
         mutations   |-> [s \in MutationKeys |-> stage(s)],
         case_strategies |-> [v \in {e[2] : e \in strategies} |-> m.mutations[<<"case_when", v>>]],
         layers      |-> LayerFigures(m)]

\* main, once extract_from_logs has returned: calculate and save.
SaveValues ==
    /\ rm_phase = "extract" /\ rm_next > Len(logs)
    /\ rm_values' = calculate_chapter4_values(rm_metrics)
    /\ rm_phase' = "done"
    /\ UNCHANGED <<logs, rm_next, rm_metrics>>

RMInit ==
    /\ rm_next = 1
    /\ rm_metrics = NoMetrics
    /\ rm_values = <<>>
    /\ rm_phase = "extract"

Init == logs \in SeqOf(LogShapes, MaxLogs) /\ RMInit

Next == ExtractLog \/ SaveValues

Spec == Init /\ [][Next]_<<logs, rm_vars>>
=============================================================================
