CONSTANTS
    WsOutcomes <- MCWsOutcomes
    IdOutcomes <- MCIdOutcomes
    CwOutcomes <- MCCwOutcomes
    Verdicts = {"PASS"}
    ColsLine = {FALSE}
    Constraints = {"C0"}
    CheckResults = {"PASS", "FAIL"}
    Piped = {TRUE, FALSE}
    Metrics = {FALSE}
    SqlShapes <- MCNoSql
    MaxLogs = 2

SPECIFICATION C4Spec

INVARIANT CaseStrategiesFaithful

\* The two scripts end once chapter4_complete_data.json is written.
CHECK_DEADLOCK FALSE
