CONSTANTS
    WsOutcomes <- MCWsOutcomes
    IdOutcomes <- MCIdOutcomes
    CwOutcomes <- MCCwOutcomes
    Verdicts <- MCVerdicts
    ColsLine = {FALSE}
    Constraints = {"C0"}
    CheckResults = {"PASS"}
    Piped = {TRUE}
    Metrics = {FALSE}
    SqlShapes <- MCNoSql
    MaxLogs = 2
    ReuseThreshold = 1

SPECIFICATION Spec

INVARIANT WindowCountsFaithful


\* The script ends once chapter4_metrics.json is written.
CHECK_DEADLOCK FALSE
