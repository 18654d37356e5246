\* A text cell that Python's float() accepts but SQLite does not.
CONSTANTS
    Schema <- MCSchema
    SchemaLogged = {TRUE}
    TextVals <- MCFloatText
    IntVals = {"25"}
    NullPrints = {"NULL", "<NULL>"}
    PyInt = {"25"}
    PyFloat = {"25", "nan"}
    SqlNumeric = {"25"}
    MaxRows = 1

SPECIFICATION Spec

INVARIANT ReproducesTables

\* main runs once and the script ends.
CHECK_DEADLOCK FALSE
