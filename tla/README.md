# TLA+ models of the MRUP log comparator

MRUP is a metamorphic oracle for window functions in SQLite. It picks two
tables t1 and t2 and a window function W, and requires
`H(t1 UNION ALL t2) = H(t1) ∪ H(t2)`, partition by partition. The Java
oracle runs the queries and writes a log. The Python scripts under `src/`
read those logs:

| part | source | what it does |
|---|---|---|
| comparator | `src/analyze_mrup_log_detailed.py` | re-runs the oracle's three comparison layers on a log and writes a detailed analysis |
| log parsing | same file, `parse_log_file`, `extract_table_data`, `extract_results` | regex extraction of tables, ORDER BY, counts and result rows |
| SQL reproducer | `src/log_to_sql.py` | turns a log into a standalone SQL script (`format_value` decides NULL, number or string) |
| statistics | `src/analyze_mutations.py`, `src/parse_table1_constraints.py`, `src/parse_table2_mutations.py` | counters over many logs, printed as a markdown dashboard and as LaTeX tables |
| chapter 4 metrics | `src/extract_chapter4_data.py`, `src/extract_real_metrics.py`, `src/run_chapter4_experiment.py` | regex counting into JSON |
| LaTeX filling | `src/fill_chapter4.py`, `src/update_chapter4_latex.py` | template substitution |

The scripts share the log format, and one pipeline passes a file between
two of them: `analyze_mutations.py` writes `mutation_analysis.md`, which
`extract_chapter4_data.py` reads back with regular expressions. Everything is
single-threaded and sequential. The interesting behaviour is therefore each
script's algorithm, applied to every log the oracle can write, and the
agreement between what one script writes and what the next one reads, rather
than any interleaving.

## Inventory of the comparator

`generate_detailed_analysis(data)` runs the following steps in order.

* **Layer 1** (lines 245-254): `cardinality_match = data.get('expected_cardinality', 0) == data.get('actual_cardinality', 0)`.
* **Layer 2** (lines 296-409):
  * `order_info` is parsed from the ORDER BY clause (`desc`, `nulls_first`).
  * `normalize_results` sorts each side with `sorted(results, key=sort_key)`.
  * The key is `[(dept or ''), per ORDER BY entry on salary/age: ±inf for 'NULL' by NULLS FIRST, else float negated for DESC, else the str; wf_result as float, 'NULL' as inf, else the str]`.
  * Python compares the keys list-wise. A float against a str raises TypeError.
* **Layer 3** (lines 469-512):
  * `group_by_partition` is applied to the raw `data['h_expected']` and `data['h_actual']`.
  * A loop runs over `sorted(all_partitions)`: `match = expected_rows == actual_rows`, then `all_match = all_match and match`.
* **Report** (lines 514-529): prints the overall line, then a banner taken from `data['passed']`.

## Modules

| module | models | state / actions |
|---|---|---|
| `Normalizer` | `normalize_results`, `sort_key`, Python's `sorted` | pure operators. `sort_key` builds the key as records `[ty: float/str, v]`. `KeyCmp` is Python list comparison with `"err"` for TypeError. `SortedBy` is a stable sort given by each row's position. `NormalizeRaises` is true iff two keys are incomparable. |
| `Comparator` | `generate_detailed_analysis` from Layer 1 to the report | variables: the log inputs `hExpected`, `hActual`, `order_info`, `logged`; `phase`; `cardinality_match`; `expected_after`, `actual_after`; the loop state `todo`, `all_match`, `mismatched`. Actions: `Layer1`, `Layer2`, `Layer2Raises`, `GroupPartitions`, `ComparePartition` (one loop iteration), `Report`. |
| `PartitionCompare` | the abstract promise of Layer 3 | a single atomic `Compare` step that sets `result` and `reported` to the partitions whose row lists differ |
| `LogToSql` | `src/log_to_sql.py` | variables: the tables `t1` and `t2` the oracle logged, their printouts `log1`/`log2`, `schemaLogged`, `written`, `script`. One action `main`, which runs straight through: schema default, `extract_table_data` on both tables, `format_value` on every token, the INSERT lists. The printout (`PrintedTable`) and sqlite3's reading of literals with column affinity (`SqlCell`, `Replayed`) come from outside `src/`. |
| `MutationLog` | the oracle's per-test log, as the statistics scripts read it | a log is a record (each mutation stage's outcome, the verdict, whether the schema's column count and the pipeline are present, the constraint check lines, whether it ends with the `METRICS_` summary lines, and the set of SQL features its printed schema and query show); `LogLines` lays it out as a sequence of lines `[k, v]`. The layout is spec-modelled (the Java oracle is not in `src/`). `Has`, `Follows` (a DOTALL `A.*?B`), `FirstAfter`, `Between` (`split(A)[1].split(B)[0]`) and `SectionFrom` (a lookahead section) are the scripts' regex idioms over lines. |
| `MutationStats` | `src/analyze_mutations.py` | variables `logs`, `next`, `stats` (four Counters as insertion-ordered `[key, n]` sequences), `total_queries`, `output_lines`, `phase`, `saved`. Actions `NoLogFiles`, `AnalyzeLog` (one iteration: `parse_log_file`, then the counts), `print_dashboard` (the three stage tables, top combinations, coverage, grade), `save_to_file`. |
| `Chapter4Data` | `src/extract_chapter4_data.py`, run after `MutationStats` | extends `MutationStats` with `data`; the action `main` fires once the dashboard is saved and reads it back (`extract_from_mutation_analysis`) together with the logs (`extract_constraints_from_logs`). |
| `RealMetrics` | `src/extract_real_metrics.py` | variables `logs`, `rm_next`, `rm_metrics` (the defaultdicts as bags: `window_spec_` + v is the pair `<<"window_spec", v>>`), `rm_values`, `rm_phase`. Actions `ExtractLog` (one file: count it, then fold `CountLine` over its lines) and `SaveValues` (`calculate_chapter4_values`, then main's save). |
| `Chapter4Pipeline` | `src/fill_chapter4.py`, `src/update_chapter4_latex.py`, composed with `Chapter4Data` and `RealMetrics` | extends `Chapter4Data` (whose `main` now also records the keys `extract_schema_query_diversity` creates) and takes `RealMetrics` as `RM == INSTANCE RealMetrics` over the same `logs`. Variables `values`, `tex` (per row group of the template: still [TBD], the counts shown, whether a TAB replaced a `\t`), `report`, `step`. Actions `fill_chapter4` (ZeroDivisionError, KeyError, or the scaled values), `update_chapter4_latex`, `RealStep` (an `RM` step) and `TableStep` (a step of `MT == INSTANCE MetricsTables`, once `RM` has saved). |
| `MetricsTables` | `src/parse_table1_constraints.py`, then `src/parse_table2_mutations.py` | variables `logs`, `mt_file` (the file loop), `mt_counts` (the script's two Counters as bags), `table1`, `table2` (the printed rows, Table 1's test-case count and which analysis paragraph was printed), `mt_phase`. Actions `ParseConstraintLog` and `ParseMutationLog` (one file each: fold `CountConstraintLine` / `CountMutationLine` over its lines), `GenerateTable1` and `GenerateTable2` (rows with guarded rates, then Table 2's unguarded analysis rates, which end the script with ZeroDivisionError when a type has no line). The lines they read, `METRICS_CONSTRAINT|C0:true|...` and `METRICS_MUTATION|Type|status`, are laid out by `MutationLog`'s `TableMetricsLines` (spec-modelled) after the `METRICS_MUTATIONS`/`_COMPARATOR` pair; `extract_real_metrics.py` ignores them, since its `parse_metrics_line` types `CONSTRAINT` and `MUTATION` match no branch. |
| `Chapter4Experiment` | `src/run_chapter4_experiment.py` | variables `logs`, `next`, `metrics` (the nested defaultdict), `phase`, `results`, `saved`. Actions `UseExistingLogs` / `run_experiment` (main's branch on the log count), `ParseLog` (`_parse_single_log`: constraints, mutations, schema, comparator; the schema step may raise), `ParseDone`, `calculate_metrics`, `save_results`. |
| `MC_Comparator` | model values | `StrOrder` (Python's code-point order of the tokens), `NumVal` (what `float()` accepts), and the ORDER BY clauses |

`Comparator` instantiates `PartitionCompare` with the refinement mapping:

* `result` is `pending` until the loop ends, then `match` or `mismatch` according to `all_match`.
* `reported` is `mismatched`.

It checks `Layer3Refinement`, the abstract `Spec`, as a PROPERTY.

Cells are string tokens, as `extract_results` yields them. The numeric ones
are interpreted through `NumVal`, and every other token keeps its string rank.
The engine is modelled from the oracle's description (`EngineResults`,
spec-modelled). It returns the expected rows, or a variant with one wf_result
changed, one row lost or one row added, in any physical order.

## Runs

| run | cfg | expect | shows |
|---|---|---|---|
| comparator_pass | `MC_Comparator.cfg` | pass | `TypeOK`; `NormalizedRespectsOrderSpec`: when sorting succeeds, both sides are in the order the specification defines (NULLS FIRST/LAST independent of direction, DESC inverting only non-NULL values, NULL wf last); `Layer3Refinement`: the accumulating loop equals the atomic per-partition comparison |
| metamorphic_soundness | `MC_MetamorphicSoundness.cfg` | violation | Layer 3 compares raw rows: the same rows of one partition in another order give FAIL |
| null_token_crash | `MC_NullToken.cfg` | violation | a `<NULL>` wf_result becomes a str key, and `sorted` raises TypeError |
| cardinality_default | `MC_CardinalityDefault.cfg` | violation | without a parsable Layer 1 block, both counts are 0 and Layer 1 passes on different sizes |
| logtosql_pass | `MC_LogToSql.cfg` | pass | `ReproducesTables`: for the oracle's table shapes (identifier dept, integer salary/age, NULL printed as `NULL` or `<NULL>`, schema line present or not), the script recreates t1 and t2 exactly |
| float_text_literal | `MC_FloatText.cfg` | violation | a text `nan` passes `float()`, is written unquoted, and sqlite3 rejects the row |

| text_desc_order | `MC_TextDesc.cfg` | violation | with text salaries under `ORDER BY salary DESC`, `sort_key` keeps the str and the rows come out ascending |
| chapter4_pipeline_pass | `MC_Chapter4Pipeline.cfg` | pass | `PTypeOK`; `FillNeverDividesByZero`: the total `fill_chapter4` divides by is never 0, because the dashboard omits the total line when no query was analysed and the reader falls back to 5123; `Table2RowsNearN`: once a query was analysed, the Window Spec and Identity rows written into the LaTeX file add up to 10,000 less at most one; `RealMutationFiguresFaithful` and `RealConstraintFiguresFaithful`: `extract_real_metrics.py`'s applied/skipped counts, CASE WHEN strategy counts and Ck PASS/FAIL counts are the logs' own; `StatsFaithful`: after every file, each stage's Counter of `analyze_mutations.py` holds, per variant, the number of files read whose stage applied it, and `total_queries` counts the files with a pipeline; `WindowFiguresFaithful`: the window spec figures read back from the saved dashboard are the true ones (the None row of the PHASE 1 table is printed even at count 0 and is the first None row); `Table2MatchesRealMetrics`: `parse_table2_mutations.py`'s applied counts equal `extract_real_metrics.py`'s, and its skipped counts are smaller by exactly the logs in which the stage never ran; `Table2CrashIffStageNeverRan`: `parse_table2_mutations.py` always prints its rows and then dies dividing by zero exactly when some stage ran in no log (an empty directory, or CASE WHEN absent everywhere); `Table1RowsFaithful`: Table 1's satisfied/violated counts per constraint are the logs' and the "perfect compliance" paragraph is printed exactly when no check failed |
| case_strategies | `MC_CaseStrategiesFaithful.cfg` | violation | the CASE WHEN section regex stops at the table's `|---|` rule, so no strategy is extracted |
| chapter4_experiment_pass | `MC_Chapter4Experiment.cfg` | pass | `CaseCountsFaithful`: the CASE WHEN applied/skipped counts are right (PHASE 3 is the last stage, so searching to the end of the log is harmless there); `CaseDistributionFaithful`: the saved CASE WHEN distribution names exactly the strategies some test applied, with the number of tests for each; the whole-log substring search counts the fallback variant as Constant Condition and nothing twice |
| window_counts | `MC_WindowCountsFaithful.cfg` | violation | `PHASE 1.*?✓ Applied` matches a later stage's ✓, so a skipped window spec phase counts as applied |
| schema_crash | `MC_SchemaCrash.cfg` | violation | `ResultsEventuallySaved`: a log with a column count makes `.append` on an int raise, and `chapter4_metrics.json` is never written |

The eight violations are recorded as findings in `PROJECT.json`.

### Further counterexamples

Nine more properties in the modules are violated by the code. Each is
checked by a copy of the named cfg with its INVARIANT lines replaced by the
one property and the constants changed as shown. They are not among the
listed runs, and their hazards in `PROJECT.json` point here.

| property | base cfg | constants | what TLC shows |
|---|---|---|---|
| `NormalizeOrderIndependent` (Comparator) | `MC_Comparator.cfg` | Depts `{"eng"}`, Salaries `{"1"}`, Ages `{"1","2"}`, Wfs `{"1"}`, OrderSpecs `MCOrderSalary`, CountsLogged `{TRUE}` | `sort_key` ignores non-key columns, so two orders of tied rows normalize differently |
| `ReproducesTables` (LogToSql) | `MC_LogToSql.cfg` | TextVals `MCSpacedText`, SchemaLogged `{TRUE}` | a text with a space is split into two tokens; the row is cut and the columns shift |
| `CaseCoverageSound` (MutationStats) | `MC_Chapter4Pipeline.cfg` | WsOutcomes/IdOutcomes `{"skipped"}`, CwOutcomes `{"absent","Constant Condition (fallback)"}`, Piped `{TRUE}`, MaxLogs 1 | CASE WHEN coverage counts the None and fallback keys: no strategy applied, one reported active |
| `IdentityFiguresFaithful` (Chapter4Data) | `MC_Chapter4Pipeline.cfg` | unchanged | identity skipped is read from the identity table's last row, not its None row |
| `RealLayerFiguresFaithful` (Chapter4Pipeline) | `MC_Chapter4Pipeline.cfg` | unchanged | every layer is "reached" by every file, and `passed` defaults to all files when no file passed the layer |
| `FillCompletes` (Chapter4Pipeline) | `MC_Chapter4Pipeline.cfg` | unchanged | a sample whose logs show no ranking function (or no 3-column ORDER BY, no RANGE) leaves the key out of `rq2_query` and `fill_chapter4` stops with KeyError |
| `Table2RowsNearN` without its `total_queries > 0` guard | `MC_Chapter4Pipeline.cfg` | unchanged | with no query analysed the fallbacks 5123/262/210 fill Table 2 with 0/511 and 9590/409 |
| `Table1CasesAreTests` (Chapter4Pipeline) | `MC_Chapter4Pipeline.cfg` | unchanged | the "Total test cases processed" of `parse_table1_constraints.py` is `satisfied['C0']`: a log with no C0 part, or a false one, is not counted |
| `LayerPassFaithful` (Chapter4Experiment) | `MC_Chapter4Experiment.cfg` | Verdicts `MCVerdicts`, ColsLine `{FALSE}` | any ✓ or 'passed' in the log counts as a pass of every layer reached, even after a Layer 1 failure |

## Bounds

In the pass run:

* there are two partitions (`eng`, `sales`);
* salaries are `1`, `2` and `NULL`; ages are `1` and `NULL`; wf values are `1`, `NULL` and `<NULL>`;
* each side holds up to 2 rows, and the actual side may hold 3 when the engine adds one;
* the ORDER BY clauses are `salary ASC`, `salary DESC NULLS FIRST` and `salary DESC, age ASC NULLS FIRST`;
* the cardinality block is either present or missing.

`MC_LogToSql` uses one row per table. Rows are processed one by one and
never reordered, so a second row adds no new case. Each column holds one
value or NULL, and NULL is printed in either spelling, which gives 3136 states.

The comparator bounds cover the cases the properties distinguish:

* a NULL against a number in each direction and NULL placement;
* ties broken by a second key or by wf;
* TypeError from a `<NULL>` token;
* partitions present on one side only;
* an early mismatch followed by a later match in the loop.

The run reaches about 675k distinct states in one to two minutes. Each violation
cfg narrows the domains to the smallest that shows its counterexample.

The statistics runs enumerate every sequence of up to `MaxLogs` logs
(2) over two or three
outcomes per stage: absent, `✗ Not Applied`, or one named variant. Two logs
are enough for every cross-log effect the properties look at (a Counter key
seen a second time, two combinations to sort, a later stage's ✓ after an earlier ✗, a None row at a
non-zero count). A
variant containing another's name (`Constant Condition (fallback)`) is used
where the strategy search matters. The pipeline run adds two SQL feature
sets, one showing every feature `fill_chapter4` reads and one showing only an
aggregate and a one-column ORDER BY, so both the KeyError exit and the
written values are reached, and every log carries its `METRICS_` lines.
CASE WHEN may be absent and the other stages skipped, so both exits of
`parse_table2_mutations.py` (a type with no line, every type seen) and
a type seen only as skipped are reached; the run reaches about 156k states
in under a minute.
With at most two logs the analysed totals are 1 or 2 (or the fallback 5123),
for which `int(count * (10000 / total))` equals the integer quotient that
`scale_count` uses; this was checked in Python for every reachable count.
The template's rows are grouped by table (`Patterns`), each group filled or
left alone as a whole; all groups start with [TBD]. A group's TAB flag is
set when any of its replacements holds `\\t` (`\\textbf`, or
`\\textasciitilde` as in the diversity rows of lines 75-89). `ReuseThreshold` stands for main's 100 and
is 1, so both of main's branches are taken.

## Fairness and deadlock

The comparator and `log_to_sql.py` are straight-line programs that end, so
no liveness is claimed for them and no fairness is assumed. They stop in
`done`, or in `crashed` when `sorted` raises. For that reason the cfgs set
`CHECK_DEADLOCK FALSE`.

`Chapter4Experiment`'s `Spec` has `WF_vars(Next)`: the script is one
sequential loop with no waiting and no input, so a step that is enabled is
taken. Termination alone is not checked: every action advances the bounded
file index or the phase, so it would hold by the shape of the model. What
is checked is `ResultsEventuallySaved`, which fails because the `crashed`
state is final.
`MutationStats`, `Chapter4Data`, `RealMetrics`, `MetricsTables` and
`Chapter4Pipeline` check safety only and assume no fairness. The pipeline runs the scripts one
after another, `RealMetrics` and then `MetricsTables` last: they share only files each reads after
the previous one wrote it, and the read-only logs, so no interleaving of
their steps could change an output.

## The log_to_sql round trip

* The oracle prints a table as a header line, a separator, and one line per row.
* A NULL is printed as `NULL` or `<NULL>`; other cells print as their words.
* `main` counts the schema's columns (defaulting to three), and
  `extract_table_data` skips the header and separator lines.
* It then splits each row on whitespace, drops a row with fewer tokens than
  columns, and truncates a row with more.
* `format_value` returns NULL for the three NULL spellings. It leaves
  anything `int()` or `float()` accepts bare, and quotes the rest.
* sqlite3 then reads each literal into the column's type. A bare word that
  is not a numeric literal is an unknown column, so its INSERT fails and the
  script goes on.
* Words are model values. `PyInt`, `PyFloat` and `SqlNumeric` say which
  words Python and SQLite take as numbers.

## Not modelled

* **Regex parsing of the log.** The model starts from the parsed tokens.
  Comma splitting in `extract_results` is a known hazard.
* **Display text, truncation to 20 rows, and file writing.**
* **`compare_value`.** It is dead code and never called.
* **`log_to_sql.py`'s** table names, queries and guide text. Only the
  tables' round trip is modelled.
* **Wording, percentages, bars and the recommendations text** of the
  dashboard and the JSON rates. A dashboard line keeps only what a later
  reader matches (its kind, the variant and the count).
* **Schema and query diversity counts** in `run_chapter4_experiment.py`
  and `extract_chapter4_data.py`: counts of type words, function names,
  ORDER BY commas and frame keywords in the raw text. A log holds only the
  set of features it shows, which decides which keys exist (what
  `fill_chapter4` needs); the counts and percentages are left out. In
  `run_chapter4_experiment.py` only the column count line is kept, because
  it makes the script raise.
* **`extract_real_metrics.py`'s METRICS_SCHEMA, _QUERY and _TIMING lines.**
  The model logs carry none, so the timing figures take their hardcoded
  fallbacks; the schema and query percentages are formatting of counts.
* **Which METRICS_ format the oracle writes.** `parse_table1_constraints.py`
  and `parse_table2_mutations.py` read a third format besides the one
  `extract_real_metrics.py` parses; the oracle is not in `src/`, so a model
  log with metrics carries both, placed after the comparator lines. A
  `METRICS_CONSTRAINT` part with two colons (a ValueError at line 27) is not
  enumerated: the scripts' own format has none.
* **The LaTeX template text.** `update_chapter4_latex.py` is modelled per
  row group; the wording of the paragraphs, the fixed figures and the
  percentage formatting are not.
* **The constraint check wording.** `_extract_constraints` stops at the
  first word after `Ck`. The model assumes it is the description's word, so
  `satisfied` stays 0; this is a listed hazard, not a checked outcome.

## Plan for later work

1. **Cell parsing and formatting.** A module for `extract_results` tokenisation
   and `log_to_sql.format_value`, with a property that the NULL forms agree
   across the two scripts. A run with text ORDER BY values and an
   unsupported ORDER BY column.
2. **A `MaxRows = 3` run on a reduced domain.** Three-row partitions make
   longer tie chains for the stability argument.
3. **The final verdict.** A module relating the logged `passed` to the recomputed layers.
4. **Where the oracle writes `METRICS_CONSTRAINT`.** Once the oracle's
   source is available, a property relating Table 1 to
   `extract_real_metrics.py`'s constraint figures for logs that stop early.
