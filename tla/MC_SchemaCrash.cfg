CONSTANTS
    WsOutcomes = {"skipped"}
    IdOutcomes = {"skipped"}
    CwOutcomes = {"Identical Branches"}
    Verdicts = {"PASS"}
    ColsLine = {TRUE, FALSE}
    Constraints = {}
    CheckResults = {"PASS"}
    Piped = {TRUE}
    Metrics = {FALSE}
    SqlShapes <- MCNoSql
    MaxLogs = 2
    ReuseThreshold = 1

SPECIFICATION Spec

PROPERTY ResultsEventuallySaved

\* The script ends once chapter4_metrics.json is written.
CHECK_DEADLOCK FALSE
