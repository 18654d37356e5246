CONSTANTS
    StrOrder <- MCStrOrderText
    NumVal <- MCNumValText
    Depts = {"eng"}
    Salaries = {"a", "b"}
    Ages = {"1"}
    Wfs = {"1"}
    MaxRows = 2
    OrderSpecs <- MCOrderSalaryDesc
    CountsLogged = {TRUE}

SPECIFICATION Spec

INVARIANT NormalizedRespectsOrderSpec

CHECK_DEADLOCK FALSE
