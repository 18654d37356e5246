CONSTANTS
    StrOrder <- MCStrOrder
    NumVal <- MCNumVal
    Depts = {"eng"}
    Salaries = {"1"}
    Ages = {"1"}
    Wfs = {"1", "<NULL>"}
    MaxRows = 2
    OrderSpecs <- MCOrderSalary
    CountsLogged = {TRUE}

SPECIFICATION Spec

INVARIANT NormalizeTotal

CHECK_DEADLOCK FALSE
