CONSTANTS
    StrOrder <- MCStrOrder
    NumVal <- MCNumVal
    Depts = {"eng", "sales"}
    Salaries = {"1", "2", "NULL"}
    Ages = {"1", "NULL"}
    Wfs = {"1", "NULL", "<NULL>"}
    MaxRows = 2
    OrderSpecs <- MCOrderSpecs
    CountsLogged = {TRUE, FALSE}

SPECIFICATION Spec

INVARIANT TypeOK
INVARIANT NormalizedRespectsOrderSpec

PROPERTY Layer3Refinement

\* The script ends after its report or after sorted() raises.
CHECK_DEADLOCK FALSE
