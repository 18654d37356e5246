----------------------------- MODULE MC_LogToSql -----------------------------
EXTENDS LogToSql

\* The oracle's tables: dept TEXT, salary INT, age INT.
MCSchema == <<"TEXT", "INT", "INT">>

\* Partition names as the oracle generates them: one identifier each.
MCTextVals == {<<"eng">>}

\* A text value float() parses: 'nan'.
MCFloatText == {<<"nan">>}

\* A text value with a space in it: 'new york'.
MCSpacedText == {<<"new", "york">>}
====
