---------------------------- MODULE MutationStats ----------------------------
(***************************************************************************)
(* src/analyze_mutations.py: MutationAnalyzer reads every log, extracts   *)
(* the variant each mutation stage applied (parse_log_file), counts them  *)
(* (analyze_all_logs), writes a markdown dashboard (print_dashboard) and  *)
(* saves it (save_to_file).                                               *)
(*                                                                         *)
(* A Counter is a sequence of [key, n] in insertion order, as a Python    *)
(* dict keeps it.  The dashboard is a sequence of lines [k, v] holding    *)
(* what later readers match; wording, percentages and bars are left out. *)
(***************************************************************************)
EXTENDS MutationLog

CONSTANT MaxLogs    \* bound on the number of log files

\* The variant lists print_dashboard passes to _print_stage_stats.
WindowVariants == << "None", "Order-Preserving Transform", "Redundant PARTITION BY",
                     "NULLS FIRST/LAST Toggle" >>
IdentityVariants == << "None", "Arithmetic Identity (+ 0)", "Arithmetic Identity (- 0)",
    "Arithmetic Identity (* 1)", "Arithmetic Identity (/ 1)", "Arithmetic Identity (0 +)",
    "Arithmetic Identity (1 *)", "Type Cast Identity (INTEGER)", "Type Cast Identity (REAL)",
    "Rounding Identity", "NULL-Safe Identity (COALESCE)", "NULL-Safe Identity (IFNULL)",
    "Parentheses Wrapping (single)", "Parentheses Wrapping (double)",
    "Chained Identity (+ 0 - 0)", "Chained Identity (* 1 * 1)" >>
CaseVariants == << "Constant Condition", "Window Function in WHEN", "Different Window Functions",
                   "Identical Branches", "NULL Handling", "Constant Condition (fallback)" >>

Stages == {"window_spec", "identity", "case_when"}

-----------------------------------------------------------------------------
(* Counter as an insertion-ordered sequence of [key, n]. *)
CounterGet(ctr, key) ==
    LET i == SelectInSeq(ctr, LAMBDA e : e.key = key) IN IF i = 0 THEN 0 ELSE ctr[i].n

\* Mutant of CounterAdd: a new key starts at 0.
CounterAddZero(ctr, key) ==
    LET i == SelectInSeq(ctr, LAMBDA e : e.key = key)
    IN  IF i = 0 THEN Append(ctr, [key |-> key, n |-> 0]) ELSE [ctr EXCEPT ![i].n = @ + 1]

CounterAdd(ctr, key) ==
    LET i == SelectInSeq(ctr, LAMBDA e : e.key = key)
    IN  IF i = 0 THEN Append(ctr, [key |-> key, n |-> 1]) ELSE [ctr EXCEPT ![i].n = @ + 1]

\* list.sort(key=count, reverse=True) and Counter.most_common: by count,
\* largest first, equal counts kept in their order (both are stable).
ByCountDesc(rows) ==
    LET pos(i) == 1 + Cardinality({j \in DOMAIN rows : \/ rows[j].n > rows[i].n
                                                       \/ rows[j].n = rows[i].n /\ j < i})
    IN  [p \in DOMAIN rows |-> rows[CHOOSE i \in DOMAIN rows : pos(i) = p]]

-----------------------------------------------------------------------------
(* parse_log_file *)

NoPipeline == [found |-> FALSE, window_spec |-> "None", identity |-> "None", case_when |-> "None"]

\* Mutant of parse_log_file: the window spec check looks for `✓ Applied:`
\* anywhere in the pipeline, not only between PHASE 1 and STAGE 1.
parse_log_file_unscoped(c) ==
    LET p      == SectionFrom(c, "STEP3", {"STEP4", "STEP3B"})
        window == IF Has(p, "PHASE1") /\ Follows(p, "PHASE1", "applied")
                  THEN FirstAfter(p, "PHASE1", "applied").v ELSE "None"
        ident  == IF Has(p, "STAGE1") /\ Has(Between(p, "STAGE1", "PHASE3"), "applied")
                  THEN FirstAfter(p, "STAGE1", "applied").v ELSE "None"
        case   == IF Has(p, "PHASE3") /\ Follows(p, "PHASE3", "applied")
                  THEN FirstAfter(p, "PHASE3", "applied").v ELSE "None"
    IN  IF ~Has(c, "STEP3") THEN NoPipeline
        ELSE [found |-> TRUE, window_spec |-> window, identity |-> ident, case_when |-> case]

\* None when the log has no pipeline section (found = FALSE); that section
\* runs from STEP 3 to STEP 4, STEP 3B or the end.
\* Window spec and identity need `✓ Applied:` inside their own section;
\* the variant is then the first `✓ Applied:` after the stage header.
parse_log_file(c) ==
    LET p      == SectionFrom(c, "STEP3", {"STEP4", "STEP3B"})
        window == IF Has(p, "PHASE1") /\ Has(Between(p, "PHASE1", "STAGE1"), "applied")
                  THEN FirstAfter(p, "PHASE1", "applied").v ELSE "None"
        ident  == IF Has(p, "STAGE1") /\ Has(Between(p, "STAGE1", "PHASE3"), "applied")
                  THEN FirstAfter(p, "STAGE1", "applied").v ELSE "None"
        case   == IF Has(p, "PHASE3") /\ Follows(p, "PHASE3", "applied")
                  THEN FirstAfter(p, "PHASE3", "applied").v ELSE "None"
    IN  IF ~Has(c, "STEP3") THEN NoPipeline
        ELSE [found |-> TRUE, window_spec |-> window, identity |-> ident, case_when |-> case]

-----------------------------------------------------------------------------
(* print_dashboard *)

\* Mutant of StageRows: only the variants the counter has seen.
StageRowsSeen(counter, expected) == ByCountDesc(counter)

\* _print_stage_stats: the expected variants (count 0 if unseen), then the
\* counter's other keys in insertion order, sorted by count descending.
StageRows(counter, expected) ==
    ByCountDesc([i \in DOMAIN expected |-> [key |-> expected[i], n |-> CounterGet(counter, expected[i])]]
                \o SelectSeq(counter, LAMBDA e : e.key \notin Range(expected)))

\* The section: its heading, the table header with its |---| rule, one
\* row per variant, the closing ---.
StageTable(name, counter, expected) ==
    LET rows == StageRows(counter, expected)
    IN  << L("stage", name), L("tablesep", "") >> \o [i \in DOMAIN rows |-> L("row", rows[i])] \o << L("sep", "") >>

\* The coverage scores: identity and window count their non-None keys,
\* CASE WHEN counts every key against a total of 5.
Coverage(stats) ==
    [identity  |-> Cardinality({k \in {e.key : e \in Range(stats.identity)} : k # "None"}),
     case_when |-> Cardinality({e.key : e \in Range(stats.case_when)}),
     window    |-> Cardinality({k \in {e.key : e \in Range(stats.window_spec)} : k # "None"})]

\* avg_coverage = (id/15 + case/5 + window/3) / 3 * 100, graded at 90 and 70.
Grade(cov) ==
    LET scaled == (cov.identity + 3 * cov.case_when + 5 * cov.window) * 100
    IN  IF scaled > 90 * 45 THEN "excellent" ELSE IF scaled > 70 * 45 THEN "good" ELSE "limited"

\* Mutant of Dashboard: the header and tables are printed even with no query.
DashboardAlwaysTotal(stats, total_queries) ==
    << L("title", ""), L("total", total_queries), L("sep", "") >>
    \o StageTable("PHASE1", stats.window_spec, WindowVariants)
    \o StageTable("STAGE1", stats.identity, IdentityVariants)
    \o StageTable("PHASE3", stats.case_when, CaseVariants)

Dashboard(stats, total_queries) ==
    IF total_queries = 0 THEN << L("noqueries", "") >>
    ELSE << L("title", ""), L("total", total_queries), L("sep", "") >>
         \o StageTable("PHASE1", stats.window_spec, WindowVariants)
         \o StageTable("STAGE1", stats.identity, IdentityVariants)
         \o StageTable("PHASE3", stats.case_when, CaseVariants)
         \o << L("top", "") >>
         \o [i \in 1..Min({10, Len(stats.combinations)}) |-> L("combo", ByCountDesc(stats.combinations)[i])]
         \o << L("sep", ""), L("coverage", Coverage(stats)), L("grade", Grade(Coverage(stats))), L("sep", "") >>

-----------------------------------------------------------------------------
VARIABLES
    logs,           \* the log files in the order glob yields them
    next,           \* the next file analyze_all_logs reads
    stats,          \* the four Counters
    total_queries,
    output_lines,
    phase,          \* "analyze", "dashboard", "save" or "done"
    saved           \* the content of mutation_analysis.md once written

vars == <<logs, next, stats, total_queries, output_lines, phase, saved>>

NoStats == [window_spec |-> <<>>, identity |-> <<>>, case_when |-> <<>>, combinations |-> <<>>]

Init ==
    /\ logs \in SeqOf(LogShapes, MaxLogs)
    /\ next = 1
    /\ stats = NoStats
    /\ total_queries = 0
    /\ output_lines = <<>>
    /\ phase = "analyze"
    /\ saved = <<>>

\* analyze_all_logs with no files: the message, and no counting.
NoLogFiles ==
    /\ phase = "analyze" /\ logs = <<>>
    /\ output_lines' = Append(output_lines, L("nofiles", ""))
    /\ phase' = "dashboard"
    /\ UNCHANGED <<logs, next, stats, total_queries, saved>>

\* One iteration of the loop: parse the file; count it if it had a pipeline.
AnalyzeLog ==
    /\ phase = "analyze" /\ next <= Len(logs)
    /\ LET r == parse_log_file(LogLines(logs[next]))
       IN  IF ~r.found THEN UNCHANGED <<stats, total_queries>>
           ELSE /\ total_queries' = total_queries + 1
                /\ stats' = [window_spec  |-> CounterAdd(stats.window_spec, r.window_spec),
                             identity     |-> CounterAdd(stats.identity, r.identity),
                             case_when    |-> CounterAdd(stats.case_when, r.case_when),
                             combinations |-> CounterAdd(stats.combinations,
                                                             <<r.window_spec, r.identity, r.case_when>>)]
    /\ next' = next + 1
    /\ phase' = IF next = Len(logs) THEN "dashboard" ELSE "analyze"
    /\ UNCHANGED <<logs, output_lines, saved>>

print_dashboard ==
    /\ phase = "dashboard"
    /\ output_lines' = output_lines \o Dashboard(stats, total_queries)
    /\ phase' = "save"
    /\ UNCHANGED <<logs, next, stats, total_queries, saved>>

save_to_file ==
    /\ phase = "save"
    /\ saved' = output_lines
    /\ phase' = "done"
    /\ UNCHANGED <<logs, next, stats, total_queries, output_lines>>

Next == NoLogFiles \/ AnalyzeLog \/ print_dashboard \/ save_to_file

Spec == Init /\ [][Next]_vars

-----------------------------------------------------------------------------
TypeOK ==
    /\ next \in 1..Len(logs) + 1
    /\ total_queries \in 0..next - 1
    /\ phase \in {"analyze", "dashboard", "save", "done"}
    /\ \A s \in Stages : \A e \in Range(stats[s]) : e.n \in 1..total_queries

\* The variant a log's stage really applied, as the statistics name it.
Applied(log, stage) ==
    LET o == [window_spec |-> log.ws, identity |-> log.id, case_when |-> log.cw][stage]
    IN  IF o \in {"absent", "skipped"} THEN "None" ELSE o

Occurrences(seq, stage, v) ==
    Cardinality({i \in DOMAIN seq : seq[i].piped /\ Applied(seq[i], stage) = v})

(* After every file of the loop, each stage's Counter holds, for every    *)
(* variant, exactly the number of files read so far whose stage applied   *)
(* it (None when the stage was skipped or absent), and total_queries is   *)
(* the number of those files that had a pipeline: parse_log_file does not *)
(* attribute one stage's `✓ Applied:` line to another stage.             *)
StatsFaithful ==
    LET read == SubSeq(logs, 1, next - 1)
    IN  /\ total_queries = Cardinality({i \in DOMAIN read : read[i].piped})
        /\ \A s \in Stages : \A i \in DOMAIN read :
              read[i].piped => CounterGet(stats[s], Applied(read[i], s)) = Occurrences(read, s, Applied(read[i], s))

(* The saved dashboard's CASE WHEN coverage is the number of the five    *)
(* non-fallback CASE WHEN variants that some query applied, as the        *)
(* "(excluding fallback)" total of _print_recommendations says.           *)
CaseCoverageSound ==
    \A i \in DOMAIN saved :
        saved[i].k = "coverage" =>
            saved[i].v.case_when = Cardinality({j \in 1..5 : CounterGet(stats.case_when, CaseVariants[j]) > 0})
=============================================================================
