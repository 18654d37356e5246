\* Oracle-generated tables: identifier-like dept names, integer columns,
\* NULL printed as NULL or <NULL>.
CONSTANTS
    Schema <- MCSchema
    SchemaLogged = {TRUE, FALSE}
    TextVals <- MCTextVals
    IntVals = {"25"}
    NullPrints = {"NULL", "<NULL>"}
    PyInt = {"25"}
    PyFloat = {"25"}
    SqlNumeric = {"25"}
    MaxRows = 1

SPECIFICATION Spec

INVARIANT TypeOK
INVARIANT ReproducesTables

\* main runs once and the script ends.
CHECK_DEADLOCK FALSE
