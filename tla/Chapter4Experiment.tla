------------------------- MODULE Chapter4Experiment -------------------------
(***************************************************************************)
(* src/run_chapter4_experiment.py: main reuses the logs or runs the       *)
(* oracle (run_experiment), parses every log (parse_logs,                 *)
(* _parse_single_log and its four extractors), computes the figures       *)
(* (calculate_metrics) and writes chapter4_metrics.json (save_results).   *)
(*                                                                         *)
(* The extractors search the whole log text; over the lines of MutationLog *)
(* `A.*?B` with DOTALL is Follows(c, A, B) and a substring test is Has.   *)
(* Schema type words, window function names, ORDER BY and frame counts    *)
(* are not part of the log model and are left out of metrics.            *)
(***************************************************************************)
EXTENDS MutationLog

CONSTANTS
    MaxLogs,          \* bound on the number of log files
    ReuseThreshold    \* main reuses the logs when there are at least this many (100)

ConstraintPatterns == << "C0", "C1", "C2", "C3", "C4", "C5" >>

Strategies == << "Constant Condition", "Window Function in WHEN", "Different Window Functions",
                 "Identical Branches", "NULL Handling" >>

\* Mutant of Mentions: a strategy counted only when the text is exactly its name.
MentionsExact(v) == {v}

\* The strategy names a variant's text contains: the fallback variant's
\* name contains "Constant Condition".
Mentions(v) == IF v = "Constant Condition (fallback)" THEN {"Constant Condition"} ELSE {v}

Layers == 1..3

\* defaultdict(lambda: defaultdict(int)): every count starts at 0.
NoMetrics ==
    [constraints    |-> [c \in Range(ConstraintPatterns) |-> [satisfied |-> 0, total |-> 0]],
     mutations      |-> [s \in {"window_spec", "identity", "case_when"} |-> [applied |-> 0, skipped |-> 0]],
     case_strategies |-> [s \in Range(Strategies) |-> 0],
     comparator     |-> [l \in Layers |-> [reached |-> 0, passed |-> 0]]]

-----------------------------------------------------------------------------
(* The extractors, each the metrics after one log. *)

\* r'Ck.*?(\w+)': the first line naming Ck; the match ends at the first
\* word after it, the description's, which holds neither ✓ nor "true".
extract_constraints(m, c) ==
    [m EXCEPT !.constraints =
        [k \in DOMAIN @ |-> IF \E i \in DOMAIN c : c[i].k = "check" /\ c[i].v.id = k
                            THEN [@[k] EXCEPT !.total = @ + 1] ELSE @[k]]]

\* Mutant of Count: two ifs instead of if/elif.
CountBoth(c, header) ==
    [applied |-> IF Follows(c, header, "applied") THEN 1 ELSE 0,
     skipped |-> IF Follows(c, header, "notapplied") THEN 1 ELSE 0]

\* Applied if a `✓ Applied` line follows the header anywhere in the log,
\* else skipped if a `✗ Not Applied` line does.
Count(c, header) ==
    IF Follows(c, header, "applied") THEN [applied |-> 1, skipped |-> 0]
    ELSE IF Follows(c, header, "notapplied") THEN [applied |-> 0, skipped |-> 1]
    ELSE [applied |-> 0, skipped |-> 0]

Add(a, b) == [applied |-> a.applied + b.applied, skipped |-> a.skipped + b.skipped]

\* Mutant of extract_mutations: the CASE WHEN counts search from STAGE 1.
extract_mutations_stage1(m, c) ==
    [m EXCEPT
        !.mutations = [window_spec |-> Add(@.window_spec, Count(c, "PHASE1")),
                       identity    |-> Add(@.identity, Count(c, "STAGE1")),
                       case_when   |-> Add(@.case_when, Count(c, "STAGE1"))],
        !.case_strategies = [s \in DOMAIN @ |->
            @[s] + (IF \E i \in DOMAIN c : c[i].k = "applied" /\ s \in Mentions(c[i].v) THEN 1 ELSE 0)]]

extract_mutations(m, c) ==
    [m EXCEPT
        !.mutations = [window_spec |-> Add(@.window_spec, Count(c, "PHASE1")),
                       identity    |-> Add(@.identity, Count(c, "STAGE1")),
                       case_when   |-> Add(@.case_when, Count(c, "PHASE3"))],
        !.case_strategies = [s \in DOMAIN @ |->
            @[s] + (IF \E i \in DOMAIN c : c[i].k = "applied" /\ s \in Mentions(c[i].v) THEN 1 ELSE 0)]]

\* `.append` on metrics['schema']['num_columns'], an int from the inner
\* defaultdict(int), raises AttributeError when the column count is found.
SchemaRaises(c) == Has(c, "schemacols")

\* A layer counts as passed if 'passed' is anywhere in the lowered text
\* (the PASSED banner) or a ✓ is anywhere (applied mutations, passed checks).
PassMark(c) ==
    \E i \in DOMAIN c : \/ c[i].k = "banner" /\ c[i].v
                        \/ c[i].k = "applied"
                        \/ c[i].k = "check" /\ c[i].v.ok = "PASS"

extract_comparator_behavior(m, c) ==
    [m EXCEPT !.comparator =
        [l \in Layers |-> IF \E i \in DOMAIN c : c[i].k = "layer" /\ c[i].v = l
                          THEN [reached |-> @[l].reached + 1,
                                passed  |-> @[l].passed + (IF PassMark(c) THEN 1 ELSE 0)]
                          ELSE @[l]]]

-----------------------------------------------------------------------------
VARIABLES
    logs,        \* the files in mrup_logs, sorted
    next,        \* the next file parse_logs reads
    metrics,
    phase,       \* "start", "parse", "calculate", "save", "done" or "crashed"
    results,     \* what calculate_metrics returned
    saved        \* chapter4_metrics.json once written

vars == <<logs, next, metrics, phase, results, saved>>

Init ==
    /\ logs \in SeqOf(LogShapes, MaxLogs)
    /\ next = 1
    /\ metrics = NoMetrics
    /\ phase = "start"
    /\ results = <<>>
    /\ saved = <<>>

\* main with enough logs: use them.
UseExistingLogs ==
    /\ phase = "start" /\ Len(logs) >= ReuseThreshold
    /\ phase' = "parse"
    /\ UNCHANGED <<logs, next, metrics, results, saved>>

\* run_experiment: delete the logs and let the oracle write new ones.
run_experiment ==
    /\ phase = "start" /\ Len(logs) < ReuseThreshold
    /\ logs' \in SeqOf(LogShapes, MaxLogs)
    /\ phase' = "parse"
    /\ UNCHANGED <<next, metrics, results, saved>>

\* _parse_single_log: constraints, mutations, schema, comparator, in order.
\* The AttributeError in the schema step ends the script with the first
\* two steps' counts kept.
ParseLog ==
    /\ phase = "parse" /\ next <= Len(logs)
    /\ LET c  == LogLines(logs[next])
           m1 == extract_mutations(extract_constraints(metrics, c), c)
       IN  IF SchemaRaises(c)
           THEN /\ metrics' = m1
                /\ phase' = "crashed"
                /\ UNCHANGED next
           ELSE /\ metrics' = extract_comparator_behavior(m1, c)
                /\ next' = next + 1
                /\ UNCHANGED phase
    /\ UNCHANGED <<logs, results, saved>>

\* parse_logs after its last file.
ParseDone ==
    /\ phase = "parse" /\ next > Len(logs)
    /\ phase' = "calculate"
    /\ UNCHANGED <<logs, next, metrics, results, saved>>

\* The counts calculate_metrics reports (each rate is applied/total, or 0
\* for a zero total); the CASE WHEN distribution has the strategies seen.
calculate_metrics ==
    /\ phase = "calculate"
    /\ results' =
         [rq1_constraints     |-> [k \in DOMAIN metrics.constraints |->
                                     [satisfied |-> metrics.constraints[k].satisfied,
                                      violated  |-> metrics.constraints[k].total - metrics.constraints[k].satisfied]],
          rq2_mutation_rates  |-> metrics.mutations,
          rq2_case_distribution |-> [s \in {s \in DOMAIN metrics.case_strategies : metrics.case_strategies[s] > 0}
                                       |-> metrics.case_strategies[s]],
          rq3_comparator      |-> metrics.comparator]
    /\ phase' = "save"
    /\ UNCHANGED <<logs, next, metrics, saved>>

save_results ==
    /\ phase = "save"
    /\ saved' = results
    /\ phase' = "done"
    /\ UNCHANGED <<logs, next, metrics, results>>

Next == UseExistingLogs \/ run_experiment \/ ParseLog \/ ParseDone \/ calculate_metrics \/ save_results

\* The script is one sequential loop: a step that is enabled is taken.
Spec == Init /\ [][Next]_vars /\ WF_vars(Next)

-----------------------------------------------------------------------------
TypeOK ==
    /\ next \in 1..Len(logs) + 1
    /\ phase \in {"start", "parse", "calculate", "save", "done", "crashed"}
    /\ \A s \in DOMAIN metrics.mutations :
          metrics.mutations[s].applied + metrics.mutations[s].skipped
              <= next - (IF phase = "crashed" THEN 0 ELSE 1)

\* The logs whose stage applied a mutation / logged `✗ Not Applied`.
Truth(field) ==
    [applied |-> Cardinality({i \in DOMAIN logs : logs[i].piped /\ logs[i][field] \notin {"absent", "skipped"}}),
     skipped |-> Cardinality({i \in DOMAIN logs : logs[i].piped /\ logs[i][field] = "skipped"})]

(* The saved CASE WHEN figures are the true ones: applied counts the logs *)
(* whose CASE WHEN phase applied a mutation and skipped those that logged *)
(* `✗ Not Applied`.  The search runs from PHASE 3 to the end of the whole *)
(* log, so this holds only because PHASE 3 is the last mutation stage.   *)
CaseCountsFaithful ==
    saved # <<>> => saved.rq2_mutation_rates.case_when = Truth("cw")

(* The saved window spec figures are the true ones.                       *)
WindowCountsFaithful ==
    saved # <<>> => saved.rq2_mutation_rates.window_spec = Truth("ws")

\* The logs that reached layer l and passed it: Layer 1 fails only with
\* FAIL_CARDINALITY, Layer 2 does not fail, Layer 3 passes only for PASS.
PassedLayer(log, l) ==
    CASE l = 1 -> log.verdict # "FAIL_CARDINALITY"
      [] l = 2 -> log.verdict # "FAIL_CARDINALITY"
      [] OTHER -> log.verdict = "PASS"

(* For every layer, the saved pass count is the number of tests that      *)
(* passed that layer.                                                     *)
LayerPassFaithful ==
    saved # <<>> =>
        \A l \in Layers :
            saved.rq3_comparator[l].passed = Cardinality({i \in DOMAIN logs : logs[i].piped /\ PassedLayer(logs[i], l)})

\* The strategy a CASE WHEN variant belongs to: the fallback is a
\* Constant Condition.
StrategyOf(v) == IF v = "Constant Condition (fallback)" THEN "Constant Condition" ELSE v

\* The logs whose CASE WHEN phase applied a variant.
CaseApplied == {i \in DOMAIN logs : logs[i].piped /\ logs[i].cw \notin {"absent", "skipped"}}

(* The saved CASE WHEN distribution names exactly the strategies some     *)
(* test applied, each with the number of tests that applied it: the       *)
(* substring search over the whole log, the defaultdict that creates a    *)
(* key only when a search hits, and calculate_metrics' filter together    *)
(* count the fallback as Constant Condition and nothing twice.            *)
CaseDistributionFaithful ==
    saved # <<>> =>
        saved.rq2_case_distribution =
            [s \in {StrategyOf(logs[i].cw) : i \in CaseApplied} |->
                Cardinality({i \in CaseApplied : StrategyOf(logs[i].cw) = s})]

(* Whatever logs the oracle wrote, the script eventually saves            *)
(* chapter4_metrics.json.                                                 *)
ResultsEventuallySaved == <>(phase = "done")

=============================================================================
