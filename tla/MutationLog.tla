----------------------------- MODULE MutationLog -----------------------------
(***************************************************************************)
(* The MRUP oracle's per-test log file, as far as the statistics scripts   *)
(* read it.  The Java oracle that writes it is not under src/; the shape  *)
(* here is what the scripts' patterns expect, with the verdict sequence of *)
(* spec section 4.4 (Layer 1, then Layers 2 and 3 unless Layer 1 fails).  *)
(*                                                                         *)
(* A log is a sequence of lines; a line is a record [k, v]: its kind (the *)
(* marker the scripts search for) and its payload.  A regex `A.*?B` with  *)
(* DOTALL matches iff a B line follows an A line.                         *)
(***************************************************************************)
EXTENDS Integers, Sequences, SequencesExt

CONSTANTS
    WsOutcomes,     \* what the window spec phase logs: "absent", "skipped" or a variant
    IdOutcomes,     \* the same for the identity wrapper stage
    CwOutcomes,     \* the same for the CASE WHEN phase
    Verdicts,       \* subset of {"PASS", "FAIL_CARDINALITY", "FAIL_PARTITION_MISMATCH"}
    ColsLine,       \* whether a log may state its schema's column count
    Constraints,    \* the constraint ids whose check lines the log prints
    CheckResults,   \* what a constraint check line may say: "PASS" or "FAIL"
    Piped,          \* whether the oracle reached STEP 3 (FALSE: the log stops before it)
    Metrics,        \* whether a log ends with the METRICS_ summary lines
    SqlShapes       \* the sets of SQL features a log's printed schema and query may show

L(k, v) == [k |-> k, v |-> v]

\* One mutation stage: its header, then `✓ Applied: v` or `✗ Not Applied`.
StageLines(header, o) ==
    IF o = "absent" THEN <<>>
    ELSE << L(header, ""), IF o = "skipped" THEN L("notapplied", "") ELSE L("applied", o) >>

\* The comparator's layers in the order of spec 4.4: a Layer 1 failure
\* ends the test; the banner says PASSED only for PASS.
VerdictLines(verdict) ==
    << L("layer", 1) >>
    \o (IF verdict = "FAIL_CARDINALITY" THEN <<>> ELSE << L("layer", 2), L("layer", 3) >>)
    \o << L("banner", verdict = "PASS") >>

\* The METRICS_ lines parse_table1_constraints.py and parse_table2_mutations.py
\* parse, as they expect them: `METRICS_CONSTRAINT|C0:true|...` with one part
\* per constraint checked, and `METRICS_MUTATION|Type|applied` or `|skipped`
\* for each stage that ran, in pipeline order.
TableMetricsLines(log) ==
    LET ran == SelectSeq(<< <<"WindowSpec", log.ws>>, <<"Identity", log.id>>, <<"CaseWhen", log.cw>> >>,
                         LAMBDA t : t[2] # "absent")
    IN  << L("METRICS_CONSTRAINT", [c \in {log.checks[i].id : i \in DOMAIN log.checks} |->
                                       IF \E i \in DOMAIN log.checks : log.checks[i] = [id |-> c, ok |-> "PASS"]
                                       THEN "true" ELSE "false"]) >>
        \o [i \in DOMAIN ran |-> L("METRICS_MUTATION", [type |-> ran[i][1],
                                       status |-> IF ran[i][2] = "skipped" THEN "skipped" ELSE "applied"])]

\* The METRICS_ lines extract_real_metrics.py parses, `METRICS_T|k=v|...|`,
\* as it expects them: the variant of each stage that applied (a stage that
\* applied nothing has no key), and each comparator layer reached, true when
\* it passed.  Payloads are functions from key to value.
MetricsLines(log) ==
    LET applied == {s \in {"window_spec", "identity", "case_when"} :
                       [window_spec |-> log.ws, identity |-> log.id, case_when |-> log.cw][s]
                           \notin {"absent", "skipped"}}
        variant == [window_spec |-> log.ws, identity |-> log.id, case_when |-> log.cw]
        layers  == IF log.verdict = "FAIL_CARDINALITY" THEN {"layer1"} ELSE {"layer1", "layer2", "layer3"}
        passed(l) == CASE l = "layer1" -> log.verdict # "FAIL_CARDINALITY"
                       [] l = "layer2" -> TRUE
                       [] l = "layer3" -> log.verdict = "PASS"
    IN  << L("METRICS_MUTATIONS", [s \in applied |-> variant[s]]),
           L("METRICS_COMPARATOR", [l \in layers |-> IF passed(l) THEN "true" ELSE "false"]) >>
        \o TableMetricsLines(log)

\* One test's log: schema, constraint checks, the mutation pipeline between
\* STEP 3 and STEP 4, then the comparison; a log that stops early has only
\* the first two.
LogLines(log) ==
    (IF log.cols THEN << L("schemacols", "") >> ELSE <<>>)
    \o [i \in 1..Len(log.checks) |-> L("check", log.checks[i])]
    \o IF ~log.piped THEN <<>>
       ELSE << L("STEP3", "") >>
            \o StageLines("PHASE1", log.ws) \o StageLines("STAGE1", log.id) \o StageLines("PHASE3", log.cw)
            \o << L("STEP4", "") >>
            \o VerdictLines(log.verdict)
            \o (IF log.metrics THEN MetricsLines(log) ELSE <<>>)

\* The constraint check lines `[Ck] ...: ✓ PASS` / `✗ FAIL`, one per id.
CheckLines == UNION {[1..n -> [id : Constraints, ok : CheckResults]] : n \in 0..Cardinality(Constraints)}

LogShapes ==
    [ws : WsOutcomes, id : IdOutcomes, cw : CwOutcomes, verdict : Verdicts,
     cols : ColsLine, piped : Piped, metrics : Metrics, sql : SqlShapes, checks : {c \in CheckLines : IsInjective([i \in DOMAIN c |-> c[i].id])}]

-----------------------------------------------------------------------------
(* Regex matching over a log.                                            *)

Has(c, k) == \E i \in DOMAIN c : c[i].k = k

\* re.search(r'A.*?B', content, re.DOTALL)
Follows(c, a, b) == \E i, j \in DOMAIN c : i < j /\ c[i].k = a /\ c[j].k = b

\* The line of the first B after the first A (the regex's lazy match).
FirstAfter(c, a, b) ==
    LET i == SelectInSeq(c, LAMBDA x : x.k = a)
    IN  c[SelectInSubSeq(c, i + 1, Len(c), LAMBDA x : x.k = b)]

\* content.split(A)[1].split(B)[0]: the lines after the first A, up to the
\* next A or B.
Between(c, a, b) ==
    LET i   == SelectInSeq(c, LAMBDA x : x.k = a)
        j   == SelectInSubSeq(c, i + 1, Len(c), LAMBDA x : x.k \in {a, b})
        end == IF j = 0 THEN Len(c) ELSE j - 1
    IN  SubSeq(c, i + 1, end)

\* re.search(r'A.*?(?=B1|B2|$)', content, re.DOTALL): from the first A up
\* to the first B1 or B2 after it, or to the end.
SectionFrom(c, a, stops) ==
    LET i   == SelectInSeq(c, LAMBDA x : x.k = a)
        j   == SelectInSubSeq(c, i, Len(c), LAMBDA x : x.k \in stops)
        end == IF j = 0 THEN Len(c) ELSE j - 1
    IN  SubSeq(c, i, end)
=============================================================================
