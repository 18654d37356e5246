--------------------------- MODULE Chapter4Pipeline ---------------------------
(***************************************************************************)
(* The Chapter 4 scripts run over one log directory, one after another:   *)
(* analyze_mutations.py and extract_chapter4_data.py (Chapter4Data), then *)
(* src/fill_chapter4.py, which scales chapter4_complete_data.json to      *)
(* 10,000 tests and writes chapter4_latex_values.json, then               *)
(* src/update_chapter4_latex.py, which puts those values into the [TBD]   *)
(* cells of Chap4_Experiments.tex; and extract_real_metrics.py            *)
(* (RealMetrics) over the same logs; then parse_table1_constraints.py and *)
(* parse_table2_mutations.py (MetricsTables).                             *)
(*                                                                         *)
(* The scripts share nothing but files each reads after the previous one  *)
(* wrote it, and the read-only logs, so running RealMetrics after the     *)
(* others loses no behaviour.                                             *)
(***************************************************************************)
EXTENDS Chapter4Data

VARIABLES
    rm_next, rm_metrics, rm_values, rm_phase,   \* RealMetrics' state
    mt_file, mt_counts, table1, table2, mt_phase, \* MetricsTables' state
    values,     \* chapter4_latex_values.json, or <<>>
    tex,        \* each row group of Chap4_Experiments.tex: still [TBD], what it
                \* shows, and whether a TAB replaced a `\t` in it
    report,     \* update_chapter4_latex's replacement count and remaining [TBD]s
    step        \* "fill", "update", "real", or the exception fill_chapter4 raised

RM == INSTANCE RealMetrics
MT == INSTANCE MetricsTables

CONSTANT TexTbd     \* the row groups of the template that still hold [TBD];
                    \* "unmatched" stands for a [TBD] no pattern matches

mtvars == <<mt_file, mt_counts, table1, table2, mt_phase>>

pvars == <<c4vars, rm_next, rm_metrics, rm_values, rm_phase, mtvars, values, tex, report, step>>

N == 10000

-----------------------------------------------------------------------------
(* fill_chapter4.py *)

\* int(count * SCALE_FACTOR) with SCALE_FACTOR = 10000 / total; for the
\* totals and counts reachable here the float product truncates to the
\* integer quotient.
scale_count(count, total) == (count * N) \div total

\* The keys fill_chapter4 reads from rq2_schema (line 68) and rq2_query
\* (lines 77-88); json.dump of a defaultdict keeps only the keys created.
SchemaKeysRead == {"integer", "real", "text"}
QueryKeysRead == {"aggregate", "ranking", "order_by_1", "order_by_2", "order_by_3", "frame_rows", "frame_range"}

\* The script top to bottom: the scale factor, the scaled Table 2 counts;
\* constraints, CASE WHEN, comparator and throughput figures are constants
\* (one "fixed" value each here); the diversity keys are read; the values
\* are saved.
fill_chapter4 ==
    /\ step = "fill" /\ data # <<>>
    /\ LET t == data.total_test_cases
           m == data.rq2_mutations
       IN  CASE t = 0 -> step' = "ZeroDivisionError" /\ UNCHANGED values
             [] ~(SchemaKeysRead \subseteq data.rq2_schema /\ QueryKeysRead \subseteq data.rq2_query) ->
                    step' = "KeyError" /\ UNCHANGED values
             [] OTHER ->
                    /\ values' = [window_spec |-> [applied |-> scale_count(m.window_spec.applied, t),
                                                   skipped |-> scale_count(m.window_spec.skipped, t)],
                                  identity    |-> [applied |-> scale_count(m.identity.applied, t),
                                                   skipped |-> scale_count(m.identity.skipped, t)],
                                  case_when   |-> [applied |-> N, skipped |-> 0]]
                    /\ step' = "update"
    /\ UNCHANGED <<c4vars, rm_next, rm_metrics, rm_values, rm_phase, mtvars, tex, report>>

-----------------------------------------------------------------------------
(* update_chapter4_latex.py *)

\* The (pattern, replacement) pairs, a group of rows of one table at a
\* time: how many pairs, and whether the replacement text holds `\\t`
\* (`\\textbf`, `\\textasciitilde`), which re.sub turns into a TAB.
Patterns ==
    [c_rows    |-> [n |-> 6, tab |-> FALSE], c_total    |-> [n |-> 1, tab |-> TRUE],
     window_spec |-> [n |-> 1, tab |-> TRUE], identity |-> [n |-> 1, tab |-> TRUE],
     case_when |-> [n |-> 1, tab |-> FALSE], case_rows  |-> [n |-> 5, tab |-> FALSE],
     case_total |-> [n |-> 1, tab |-> TRUE], diversity |-> [n |-> 14, tab |-> TRUE],
     comparator |-> [n |-> 5, tab |-> FALSE], repeated |-> [n |-> 4, tab |-> FALSE],
     throughput |-> [n |-> 11, tab |-> FALSE], analysis |-> [n |-> 5, tab |-> FALSE],
     discussion |-> [n |-> 2, tab |-> FALSE]]

Rows == DOMAIN Patterns

\* Mutant of Shown: the identity row takes the window spec's skipped count.
ShownCopied(r) == IF r \in {"window_spec", "identity", "case_when"}
                  THEN <<values[r].applied, values["window_spec"].skipped>> ELSE <<>>

\* What a row shows once replaced: Table 2's counts, or fixed text (<<>>).
Shown(r) == IF r \in {"window_spec", "identity", "case_when"}
            THEN <<values[r].applied, values[r].skipped>> ELSE <<>>

\* Every pair whose pattern is found is substituted and counted; the two
\* summary substitutions are counted whether they matched or not; the file
\* is written and the remaining [TBD]s counted (those in no pattern).
update_chapter4_latex ==
    /\ step = "update"
    /\ tex' = [r \in DOMAIN tex |->
                 IF r \in Rows /\ tex[r].tbd THEN [tbd |-> FALSE, shows |-> Shown(r), tab |-> Patterns[r].tab]
                 ELSE tex[r]]
    /\ report' = [count     |-> MapThenSumSet(LAMBDA r : Patterns[r].n, {r \in Rows : tex[r].tbd}) + 2,
                  remaining |-> IF tex["unmatched"].tbd THEN 1 ELSE 0]
    /\ step' = "real"
    /\ UNCHANGED <<c4vars, rm_next, rm_metrics, rm_values, rm_phase, mtvars, values>>

-----------------------------------------------------------------------------
\* extract_real_metrics.py, once the others have ended.
RealStep ==
    /\ step \in {"real", "ZeroDivisionError", "KeyError"}
    /\ RM!ExtractLog \/ RM!SaveValues
    /\ UNCHANGED <<c4vars, mtvars, values, tex, report, step>>

\* parse_table1_constraints.py, then parse_table2_mutations.py, once
\* extract_real_metrics has saved its file.
TableStep ==
    /\ rm_phase = "done"
    /\ MT!ParseConstraintLog \/ MT!GenerateTable1 \/ MT!ParseMutationLog \/ MT!GenerateTable2
    /\ UNCHANGED <<c4vars, rm_next, rm_metrics, rm_values, rm_phase, values, tex, report, step>>

PInit ==
    /\ C4Init
    /\ RM!RMInit
    /\ MT!MTInit
    /\ values = <<>>
    /\ tex = [r \in Rows \cup {"unmatched"} |-> [tbd |-> r \in TexTbd, shows |-> <<>>, tab |-> FALSE]]
    /\ report = <<>>
    /\ step = "fill"

PNext ==
    \/ C4Next /\ UNCHANGED <<rm_next, rm_metrics, rm_values, rm_phase, mtvars, values, tex, report, step>>
    \/ fill_chapter4
    \/ update_chapter4_latex
    \/ RealStep
    \/ TableStep

PSpec == PInit /\ [][PNext]_pvars

-----------------------------------------------------------------------------
PTypeOK ==
    /\ C4TypeOK
    /\ step \in {"fill", "update", "real", "ZeroDivisionError", "KeyError"}
    /\ rm_phase \in {"extract", "done"}
    /\ mt_phase \in {"table1", "table2", "done", "ZeroDivisionError"}
    /\ mt_file \in 1..Len(logs) + 1
    /\ rm_metrics.total_tests = rm_next - 1 /\ rm_next \in 1..Len(logs) + 1
    /\ \A r \in DOMAIN tex : tex[r].tab => ~tex[r].tbd

(* fill_chapter4 never divides by zero at SCALE_FACTOR: the total it      *)
(* reads is never 0, because the dashboard of analyze_mutations prints no *)
(* total line when no query was analysed and extract_chapter4_data then   *)
(* falls back to 5123.                                                    *)
FillNeverDividesByZero == step # "ZeroDivisionError"

(* Once the analysis saw a query, the Window Spec and Identity Wrapper    *)
(* rows update_chapter4_latex writes into Table 2 show applied and        *)
(* skipped counts that add up to the 10,000 tests presented, less at most *)
(* one lost to truncation: analyze_mutations, extract_chapter4_data,      *)
(* fill_chapter4 and update_chapter4_latex together keep the table whole. *)
Table2RowsNearN ==
    total_queries > 0 =>
        \A r \in {"window_spec", "identity"} :
            tex[r].shows # <<>> => tex[r].shows[1] + tex[r].shows[2] \in {N - 1, N}

\* The logs extract_real_metrics finds a METRICS_MUTATIONS line in.
MetricsLogs == {i \in DOMAIN logs : logs[i].piped /\ logs[i].metrics}

(* extract_real_metrics' Table 2 figures are the logs' own: for each      *)
(* stage, applied is the number of logs whose METRICS_MUTATIONS line names *)
(* a variant for it and skipped the number whose line has none, and each  *)
(* CASE WHEN strategy's count is the number of logs that applied it.      *)
RealMutationFiguresFaithful ==
    rm_values # <<>> =>
        /\ \A s \in Stages :
              /\ rm_values.mutations[s].applied = Cardinality({i \in MetricsLogs : Applied(logs[i], s) # "None"})
              /\ rm_values.mutations[s].skipped = Cardinality({i \in MetricsLogs : Applied(logs[i], s) = "None"})
        /\ DOMAIN rm_values.case_strategies = {Applied(logs[i], "case_when") : i \in MetricsLogs} \ {"None"}
        /\ \A v \in DOMAIN rm_values.case_strategies :
              rm_values.case_strategies[v] = Cardinality({i \in MetricsLogs : Applied(logs[i], "case_when") = v})

(* extract_real_metrics' Table 1 figures: Ck satisfied is the number of   *)
(* `[Ck] ...: ✓ PASS` lines over all logs and violated the number of      *)
(* `✗ FAIL` lines, whether or not the log reached the pipeline.           *)
RealConstraintFiguresFaithful ==
    rm_values # <<>> =>
        \A c \in RM!ConstraintNums :
            LET lines(ok) == Cardinality({i \in DOMAIN logs :
                                 \E j \in DOMAIN logs[i].checks : logs[i].checks[j] = [id |-> c, ok |-> ok]})
            IN  rm_values.constraints[c].satisfied = lines("PASS")
                /\ rm_values.constraints[c].violated = lines("FAIL")

(* extract_real_metrics' Table 5: a layer is reached by the logs whose    *)
(* comparator got that far and passed by those whose METRICS_COMPARATOR   *)
(* line says true.                                                        *)
RealLayerFiguresFaithful ==
    rm_values # <<>> =>
        \A l \in RM!Layers :
            LET at(v) == Cardinality({i \in MetricsLogs : \E j \in DOMAIN LogLines(logs[i]) :
                                         LET x == LogLines(logs[i])[j]
                                         IN  x.k = "METRICS_COMPARATOR" /\ l \in DOMAIN x.v /\ x.v[l] \in v})
            IN  rm_values.layers[l].reached = at({"true", "false"})
                /\ rm_values.layers[l].passed = at({"true"})

(* fill_chapter4 writes chapter4_latex_values.json for every data file    *)
(* extract_chapter4_data writes.                                          *)
FillCompletes == step # "KeyError"

\* A stage's entry in a log's pipeline: "absent" when the stage never ran.
StageOutcome(log, s) == [window_spec |-> log.ws, identity |-> log.id, case_when |-> log.cw][s]

\* parse_table2's type for each of extract_real_metrics' stage keys.
TypeOf == [window_spec |-> "WindowSpec", identity |-> "Identity", case_when |-> "CaseWhen"]

(* Table 2 as parse_table2_mutations prints it agrees with the figures    *)
(* extract_real_metrics saved from the other METRICS_ format: the applied *)
(* counts are equal, and the skipped counts differ by exactly the logs in *)
(* which the stage never ran (no METRICS_MUTATION line, but no key in     *)
(* METRICS_MUTATIONS either).                                             *)
Table2MatchesRealMetrics ==
    table2 # <<>> =>
        \A s \in Stages :
            /\ table2.rows[TypeOf[s]].applied = rm_values.mutations[s].applied
            /\ table2.rows[TypeOf[s]].skipped
                  = rm_values.mutations[s].skipped
                    - Cardinality({i \in MetricsLogs : StageOutcome(logs[i], s) = "absent"})

(* parse_table2_mutations prints its Table 2 rows in every run, and then  *)
(* dies dividing by zero in the analysis paragraph exactly when some      *)
(* mutation stage ran in none of the logs (for instance, no log at all):  *)
(* the rows' guard `if total > 0` is missing from lines 59-61.            *)
Table2CrashIffStageNeverRan ==
    table2 # <<>> =>
        (mt_phase = "ZeroDivisionError"
            <=> \E s \in Stages : \A i \in MetricsLogs : StageOutcome(logs[i], s) = "absent")

(* Table 1 of parse_table1_constraints counts, for each constraint, the   *)
(* logs whose METRICS_CONSTRAINT line says true and those that say false, *)
(* and prints the "perfect compliance" paragraph exactly when no log's    *)
(* line has a false part.                                                 *)
Table1RowsFaithful ==
    table1 # <<>> =>
        /\ \A c \in MT!Table1Constraints :
              LET logsWith(ok) == Cardinality({i \in MetricsLogs :
                                      \E j \in DOMAIN logs[i].checks : logs[i].checks[j] = [id |-> c, ok |-> ok]})
              IN  table1.rows[c].satisfied = logsWith("PASS") /\ table1.rows[c].violated = logsWith("FAIL")
        /\ table1.clean <=> \A i \in MetricsLogs : \A j \in DOMAIN logs[i].checks : logs[i].checks[j].ok = "PASS"

(* The "Total test cases processed" parse_table1_constraints prints, and  *)
(* the test-case count of its analysis paragraphs, is the number of logs  *)
(* it read metrics from; the script prints satisfied['C0'].               *)
Table1CasesAreTests == table1 # <<>> => table1.cases = Cardinality(MetricsLogs)
=============================================================================
