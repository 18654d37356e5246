------------------------------ MODULE LogToSql ------------------------------
(***************************************************************************)
(* src/log_to_sql.py: a log's table printout is turned back into CREATE   *)
(* TABLE and INSERT statements.  main reads the schema (the number of      *)
(* columns), extract_table_data splits every data line of the table on    *)
(* whitespace, and format_value turns every token into a SQL literal.     *)
(*                                                                         *)
(* A word is a model value for one whitespace-free run of characters; a   *)
(* text cell prints as a sequence of words (none for ''), so the split on *)
(* whitespace is the flattening of the cells' words.                      *)
(***************************************************************************)
EXTENDS Integers, Sequences, SequencesExt

CONSTANTS
    Schema,        \* the column types of t1 and t2, e.g. <<"TEXT","INT","INT">>
    SchemaLogged,  \* whether the log's schema line parses
    TextVals,      \* text cells a TEXT column may hold, as word sequences
    IntVals,       \* words an INT column's numbers print as
    NullPrints,    \* the words the log may print a NULL as
    PyInt,         \* words Python's int() accepts
    PyFloat,       \* words Python's float() accepts
    SqlNumeric,    \* words SQLite parses as a numeric literal
    MaxRows        \* bound on the rows of one table

ASSUME PyInt \subseteq PyFloat /\ SqlNumeric \subseteq PyFloat

\* Mutant of DefaultSchema: the column names kept instead of the types.
DefaultSchemaNames == <<"dept", "salary", "age">>

\* 'dept TEXT, salary INT, age INT', used when the schema line is missing.
DefaultSchema == <<"TEXT", "INT", "INT">>

(* A table cell: NULL, a number (the word it prints as), or a text. *)
NullCell == [ty |-> "null", ws |-> <<>>]
Num(w)   == [ty |-> "num",  ws |-> <<w>>]
Text(ws) == [ty |-> "text", ws |-> ws]

CellsOf(type) ==
    {NullCell} \cup IF type = "INT" THEN {Num(w) : w \in IntVals}
                    ELSE {Text(ws) : ws \in TextVals}

TableRows == {r \in [DOMAIN Schema -> UNION {CellsOf(Schema[i]) : i \in DOMAIN Schema}] :
                \A i \in DOMAIN Schema : r[i] \in CellsOf(Schema[i])}

(* The oracle's printout of one row: the cells' words on one line. *)
PrintedCell(c) == IF c.ty = "null" THEN {<<p>> : p \in NullPrints} ELSE {c.ws}

PrintedRow(r) ==
    {FlattenSeq(ps) : ps \in {p \in [DOMAIN r -> UNION {PrintedCell(r[i]) : i \in DOMAIN r}] :
                                \A i \in DOMAIN r : p[i] \in PrintedCell(r[i])}}

\* The header and separator lines the log prints before the data.
Header == <<"dept", "salary", "age">>
Separator == <<"---">>

PrintedTable(t) ==
    {<<Header, Separator>> \o lines :
        lines \in {l \in [DOMAIN t -> UNION {PrintedRow(t[i]) : i \in DOMAIN t}] :
                     \A i \in DOMAIN t : l[i] \in PrintedRow(t[i])}}

-----------------------------------------------------------------------------
(* The code. *)

\* Lines skipped: empty, a '---' separator, or a line naming dept and salary.
SkippedLine(line) ==
    \/ line = <<>>
    \/ "---" \in Range(line)
    \/ {"dept", "salary"} \subseteq Range(line)

\* `parts = line.split()`; rows shorter than num_columns are dropped and
\* longer ones cut to their first num_columns tokens.
extract_table_data(lines, num_columns) ==
    LET kept == SelectSeq(lines, LAMBDA l : ~SkippedLine(l) /\ Len(l) >= num_columns)
    IN  [i \in DOMAIN kept |-> SubSeq(kept[i], 1, num_columns)]

\* Mutant of NullToken: only the spelling NULL is taken for NULL.
NullTokenExact(val) == val = "NULL"

\* val.upper() == 'NULL' (the words NULL and null), '' or '<NULL>'.
NullToken(val) == val \in {"NULL", "null", "<NULL>"}

\* A SQL literal: NULL, the token unquoted, or the token quoted with its
\* quotes doubled (which SQLite reads back as the token).
format_value(val) ==
    IF NullToken(val) THEN [lit |-> "null", w |-> val]
    ELSE IF val \in PyInt \/ val \in PyFloat THEN [lit |-> "bare", w |-> val]
    ELSE [lit |-> "quoted", w |-> val]

\* The INSERT statements written for one table, in row order.
Inserts(rows) == [i \in DOMAIN rows |-> [j \in DOMAIN rows[i] |-> format_value(rows[i][j])]]

-----------------------------------------------------------------------------
(* How sqlite3 runs one literal into a column of the given type: the    *)
(* column affinity turns a numeric text into a number in an INT column  *)
(* and a number into its text in a TEXT column; an unquoted word that   *)
(* is not a numeric literal is a column name, and the INSERT fails.     *)
SqlError == [ty |-> "error", ws |-> <<>>]

SqlCell(l, type) ==
    CASE l.lit = "null" -> NullCell
      [] l.lit = "bare" /\ l.w \notin SqlNumeric -> SqlError
      [] l.lit = "bare" -> IF type = "INT" THEN Num(l.w) ELSE Text(<<l.w>>)
      [] OTHER -> IF type = "INT" /\ l.w \in SqlNumeric THEN Num(l.w) ELSE Text(<<l.w>>)

\* The table sqlite3 holds after the script: the INSERTs that fail are
\* reported and skipped, the others add their row.
Replayed(inserts, schema) ==
    LET rows == [i \in DOMAIN inserts |->
                   [j \in DOMAIN inserts[i] |-> SqlCell(inserts[i][j], schema[j])]]
    IN  SelectSeq(rows, LAMBDA r : SqlError \notin Range(r))

-----------------------------------------------------------------------------
VARIABLES
    t1, t2,          \* the tables the oracle created and logged
    log1, log2,      \* their printouts in the log
    schemaLogged,    \* whether the schema line is in the log
    written,         \* whether main has written the script
    script           \* the reproduction script: schema and INSERTs per table

vars == <<t1, t2, log1, log2, schemaLogged, written, script>>

Init ==
    /\ t1 \in SeqOf(TableRows, MaxRows)
    /\ t2 \in SeqOf(TableRows, MaxRows)
    /\ log1 \in PrintedTable(t1)
    /\ log2 \in PrintedTable(t2)
    /\ schemaLogged \in SchemaLogged
    /\ written = FALSE
    /\ script = [schema |-> <<>>, t1 |-> <<>>, t2 |-> <<>>]

\* main: the schema (or its default) gives CREATE TABLE and num_columns;
\* both tables are extracted and every row becomes an INSERT.
main ==
    /\ ~written
    /\ written' = TRUE
    /\ LET schema == IF schemaLogged THEN Schema ELSE DefaultSchema
           n      == Len(schema)
       IN  script' = [schema |-> schema,
                      t1 |-> Inserts(extract_table_data(log1, n)),
                      t2 |-> Inserts(extract_table_data(log2, n))]
    /\ UNCHANGED <<t1, t2, log1, log2, schemaLogged>>

Next == main

Spec == Init /\ [][Next]_vars

-----------------------------------------------------------------------------
TypeOK ==
    /\ \A t \in {t1, t2} : Len(t) <= MaxRows /\ Range(t) \subseteq TableRows
    /\ schemaLogged \in BOOLEAN
    /\ written \in BOOLEAN
    /\ Range(script.schema) \subseteq {"TEXT", "INT"}

(* The script reproduces the logged tables: run by sqlite3, it leaves t1 *)
(* and t2 holding exactly the rows, in order and cell for cell, that the  *)
(* log printed, whichever NULL spelling the log used.                    *)
ReproducesTables ==
    written =>
        /\ Replayed(script.t1, script.schema) = t1
        /\ Replayed(script.t2, script.schema) = t2
====
