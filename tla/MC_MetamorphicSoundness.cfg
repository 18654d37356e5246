CONSTANTS
    StrOrder <- MCStrOrder
    NumVal <- MCNumVal
    Depts = {"eng", "sales"}
    Salaries = {"1", "2"}
    Ages = {"1"}
    Wfs = {"1", "2"}
    MaxRows = 2
    OrderSpecs <- MCOrderSalary
    CountsLogged = {TRUE}

SPECIFICATION Spec

INVARIANT MetamorphicSoundness

CHECK_DEADLOCK FALSE
