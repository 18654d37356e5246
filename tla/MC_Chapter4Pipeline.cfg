CONSTANTS
    WsOutcomes <- MCWsOutcomes
    IdOutcomes <- MCIdOutcomes
    CwOutcomes <- MCCwOutcomes
    Verdicts = {"PASS"}
    ColsLine = {FALSE}
    Constraints = {"C0"}
    CheckResults = {"PASS", "FAIL"}
    Piped = {TRUE, FALSE}
    Metrics = {TRUE}
    SqlShapes <- MCSql
    TexTbd <- MCTexTbd
    MaxLogs = 2

SPECIFICATION PSpec

INVARIANT PTypeOK
INVARIANT StatsFaithful
INVARIANT WindowFiguresFaithful
INVARIANT FillNeverDividesByZero
INVARIANT Table2RowsNearN
INVARIANT RealMutationFiguresFaithful
INVARIANT RealConstraintFiguresFaithful
INVARIANT Table2MatchesRealMetrics
INVARIANT Table2CrashIffStageNeverRan
INVARIANT Table1RowsFaithful

\* The scripts end once the last of them has saved its file.
CHECK_DEADLOCK FALSE
