---------------------------- MODULE MC_Comparator ----------------------------
(* Constants for checking Comparator with TLC. *)
EXTENDS Comparator

\* Every string token below, in Python's code point order.
MCStrOrder == <<"", "1", "2", "<NULL>", "NULL", "eng", "sales">>

\* The tokens float() parses.
MCNumVal == ("1" :> 1) @@ ("2" :> 2)

\* float() on the text-salary tokens.
MCNumValText == ("1" :> 1)

Asc(c)  == [column |-> c, desc |-> FALSE, nulls_first |-> FALSE]
Desc(c) == [column |-> c, desc |-> TRUE,  nulls_first |-> FALSE]
AscNullsFirst(c)  == [column |-> c, desc |-> FALSE, nulls_first |-> TRUE]
DescNullsFirst(c) == [column |-> c, desc |-> TRUE,  nulls_first |-> TRUE]

\* ORDER BY clauses the generator emits over salary and age.
MCOrderSpecs == { << Asc("salary") >>,
                  << DescNullsFirst("salary") >>,
                  << Desc("salary"), AscNullsFirst("age") >> }

\* Text salaries (a TEXT-typed salary, or text stored in an INT column).
MCStrOrderText == <<"", "1", "<NULL>", "NULL", "a", "b", "eng", "sales">>

\* salary DESC alone.
MCOrderSalaryDesc == { << Desc("salary") >> }

\* A single ORDER BY column, as in the spec's scenarios.
MCOrderSalary == { << Asc("salary") >> }
=============================================================================
