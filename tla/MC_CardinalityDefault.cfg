CONSTANTS
    StrOrder <- MCStrOrder
    NumVal <- MCNumVal
    Depts = {"eng"}
    Salaries = {"1"}
    Ages = {"1"}
    Wfs = {"1"}
    MaxRows = 2
    OrderSpecs <- MCOrderSalary
    CountsLogged = {FALSE}

SPECIFICATION Spec

INVARIANT CardinalityCheckSound

CHECK_DEADLOCK FALSE
