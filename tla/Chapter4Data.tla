---------------------------- MODULE Chapter4Data ----------------------------
(***************************************************************************)
(* src/extract_chapter4_data.py run after src/analyze_mutations.py: it    *)
(* reads the saved mutation_analysis.md back with regular expressions     *)
(* (extract_from_mutation_analysis), scans the logs for the constraint     *)
(* check lines (extract_constraints_from_logs) and writes                  *)
(* chapter4_complete_data.json (main).                                    *)
(*                                                                         *)
(* The dashboard lines are those of MutationStats: a "row" line prints as *)
(* `| . | name | pct% | countx | bar |`, a "tablesep" line is the table's *)
(* `|-----|` rule and a "sep" line is `---`.                              *)
(***************************************************************************)
EXTENDS MutationStats

\* The constraint ids main loops over: range(6).
ConstraintIds == << "C0", "C1", "C2", "C3", "C4", "C5" >>

\* The strategies extract_from_mutation_analysis looks up.
Strategies == << "Constant Condition", "Window Function in WHEN", "Different Window Functions",
                 "Identical Branches", "NULL Handling" >>

IsNoneRow(x) == x.k = "row" /\ x.v.key = "None"

\* Lines holding `---`: the sections' closing rule and the tables' rule.
HasDashes(x) == x.k \in {"sep", "tablesep"}

\* re.search(r'None\s+\|\s+([\d.]+)%\s+\|\s+(\d+)x'): the first None row.
FirstNoneRow(c) == SelectInSeq(c, LAMBDA x : IsNoneRow(x))

\* r'None ... (\d+)x.*?PHASE 3' from that row to the PHASE 3 heading; the
\* last `(\d+)x` in it is the count of the last table row before PHASE 3.
IdentitySpanEnd(c) == SelectInSubSeq(c, FirstNoneRow(c) + 1, Len(c), LAMBDA x : x.k = "stage" /\ x.v = "PHASE3")

\* r'PHASE 3: CASE WHEN Mutations.*?---': the heading up to the first line
\* with ---; then the rows `name | pct% | countx` found in it.
CaseSection(c) ==
    LET i == SelectInSeq(c, LAMBDA x : x.k = "stage" /\ x.v = "PHASE3")
        j == SelectInSubSeq(c, i + 1, Len(c), HasDashes)
    IN  IF i = 0 \/ j = 0 THEN <<>> ELSE SubSeq(c, i, j)

extract_from_mutation_analysis(c) ==
    LET ti    == SelectInSeq(c, LAMBDA x : x.k = "total")
        total == IF ti = 0 THEN 5123 ELSE c[ti].v
        wi    == FirstNoneRow(c)
        ie    == IF wi = 0 THEN 0 ELSE IdentitySpanEnd(c)
        last  == SelectLastInSubSeq(c, wi, ie, LAMBDA x : x.k = "row")
        idsk  == IF ie = 0 THEN 210 ELSE c[last].v.n
        cs    == CaseSection(c)
        found == {s \in Range(Strategies) : \E k \in DOMAIN cs : cs[k].k = "row" /\ cs[k].v.key = s}
    IN  [total_queries |-> total,
         window_spec   |-> [applied |-> IF wi = 0 THEN 0 ELSE total - c[wi].v.n,
                            skipped |-> IF wi = 0 THEN 262 ELSE c[wi].v.n],
         identity      |-> [applied |-> total - idsk, skipped |-> idsk],
         case_when     |-> [applied |-> total, skipped |-> 0],
         case_strategies |-> [s \in found |->
                                 cs[CHOOSE k \in DOMAIN cs : cs[k].k = "row" /\ cs[k].v.key = s].v.n]]

\* For the first 1000 logs (all of them here): Ck is satisfied if a line
\* `[Ck] ... ✓ PASS` is present, and violated otherwise.
extract_constraints_from_logs(ls) ==
    [id \in Range(ConstraintIds) |->
        LET sat == {i \in DOMAIN ls : \E j \in DOMAIN ls[i].checks :
                                          ls[i].checks[j] = [id |-> id, ok |-> "PASS"]}
        IN  [satisfied |-> Cardinality(sat), violated |-> Len(ls) - Cardinality(sat)]]

\* The keys of the two defaultdicts it fills, counts left out, over the
\* first 500 logs (all of them here): every file adds to integer, real and
\* text, so those keys exist once a file was read; a query key exists once
\* some log shows the feature (a function call, an ORDER BY of k columns,
\* ROWS or RANGE), and no_frame once a log shows neither frame.
extract_schema_query_diversity(ls) ==
    [schema |-> IF ls = <<>> THEN {} ELSE {"integer", "real", "text"},
     query  |-> UNION {ls[i].sql : i \in DOMAIN ls}
                \cup (IF \E i \in DOMAIN ls : ls[i].sql \cap {"frame_rows", "frame_range"} = {}
                      THEN {"no_frame"} ELSE {})]

-----------------------------------------------------------------------------
VARIABLE data     \* chapter4_complete_data.json, or <<>> before main runs

c4vars == <<vars, data>>

C4Init == Init /\ data = <<>>

\* main: the mutation data, the constraints, the diversity keys, and the
\* comparator figures, which are all set to total_queries.
main ==
    /\ phase = "done" /\ data = <<>>
    /\ LET m == extract_from_mutation_analysis(saved)
           d == extract_schema_query_diversity(logs)
       IN  data' = [total_test_cases |-> m.total_queries,
                    rq2_mutations    |-> m,
                    rq2_schema       |-> d.schema,
                    rq2_query        |-> d.query,
                    rq1_constraints  |-> extract_constraints_from_logs(logs),
                    rq3_comparator   |-> [reached |-> m.total_queries, passed |-> m.total_queries]]
    /\ UNCHANGED vars

C4Next == (Next /\ UNCHANGED data) \/ main

C4Spec == C4Init /\ [][C4Next]_c4vars

-----------------------------------------------------------------------------
C4TypeOK ==
    /\ TypeOK
    /\ data # <<>> => /\ data.total_test_cases \in Nat
                      /\ DOMAIN data.rq1_constraints = Range(ConstraintIds)

\* The number of logs with a pipeline whose stage applied nothing.
NoneCount(stage) == Occurrences(logs, stage, "None")

(* Read back from the dashboard, the window spec figures of               *)
(* chapter4_complete_data.json are the analysed logs' true ones: skipped  *)
(* is the number of logs whose window spec phase applied nothing, applied *)
(* the rest.  This rests on the PHASE 1 table printing its None row even  *)
(* at count 0, and on it being the first None row of the file.            *)
WindowFiguresFaithful ==
    (data # <<>> /\ total_queries > 0) =>
        data.rq2_mutations.window_spec = [applied |-> total_queries - NoneCount("window_spec"),
                                          skipped |-> NoneCount("window_spec")]

(* The identity figures read back are the true ones: skipped is the       *)
(* number of analysed logs whose identity stage applied nothing.          *)
IdentityFiguresFaithful ==
    (data # <<>> /\ total_queries > 0) =>
        data.rq2_mutations.identity.skipped = NoneCount("identity")

(* Every CASE WHEN strategy some analysed log applied is in the extracted *)
(* distribution with its true count.                                      *)
CaseStrategiesFaithful ==
    data # <<>> =>
        \A s \in Range(Strategies) :
            LET n == Occurrences(logs, "case_when", s)
            IN  n > 0 => s \in DOMAIN data.rq2_mutations.case_strategies
                         /\ data.rq2_mutations.case_strategies[s] = n
=============================================================================
