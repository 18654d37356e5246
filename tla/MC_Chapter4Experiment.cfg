CONSTANTS
    WsOutcomes <- MCWsOutcomes
    IdOutcomes <- MCIdOutcomes
    CwOutcomes <- MCCwOutcomes
    Verdicts <- MCVerdictsL1
    ColsLine = {TRUE, FALSE}
    Constraints = {"C0"}
    CheckResults = {"PASS"}
    Piped = {TRUE}
    Metrics = {FALSE}
    SqlShapes <- MCNoSql
    MaxLogs = 2
    ReuseThreshold = 1

SPECIFICATION Spec

INVARIANT TypeOK
INVARIANT CaseCountsFaithful
INVARIANT CaseDistributionFaithful

\* The script ends once chapter4_metrics.json is written or on the exception.
CHECK_DEADLOCK FALSE
