----------------------------- MODULE Normalizer -----------------------------
(***************************************************************************)
(* Layer 2 of the MRUP comparator: normalize_results and its sort_key in   *)
(* src/analyze_mrup_log_detailed.py.  Result rows are lists of the string  *)
(* tokens read from the log; a row is <<dept, salary, age, wf_result>>.    *)
(*                                                                         *)
(* The sort key is a Python list of (value, idx) tuples and is ordered by  *)
(* Python's list comparison: the first position whose values differ       *)
(* decides, and there `<` between a float and a str raises TypeError.      *)
(* The idx half of every tuple is the same for all rows at a position, so *)
(* it never decides and is left out.                                      *)
(***************************************************************************)
EXTENDS Integers, Sequences, FiniteSets

CONSTANTS
    StrOrder,   \* every string token the model uses, in Python (code point) order
    NumVal      \* the tokens float() accepts, mapped to their numeric value

Tokens == {StrOrder[i] : i \in DOMAIN StrOrder}

\* float('inf'); larger than any negated or plain numeric token.
Inf == 1000

ASSUME /\ DOMAIN NumVal \subseteq Tokens
       /\ \A t \in DOMAIN NumVal : NumVal[t] \in -Inf+1..Inf-1

StrRank(s) == CHOOSE i \in DOMAIN StrOrder : StrOrder[i] = s

(* A value of the sort key: a Python float or a Python str. *)
Float(n) == [ty |-> "float", v |-> n]
Str(s)   == [ty |-> "str",   v |-> StrRank(s)]

(* Columns the ORDER BY parser resolves; any other column is skipped. *)
ColumnIndex == [c \in {"salary", "age"} |-> IF c = "salary" THEN 2 ELSE 3]

(* The ORDER BY entries of order_info that sort_key uses. *)
UsedEntries(order_info) ==
    SelectSeq(order_info, LAMBDA e : e.column \in DOMAIN ColumnIndex)

(* Mutant of OrderValue: the DESC negation applied to the NULL sentinel   *)
(* as well, as if `if desc: sort_val = -sort_val` followed the try.      *)
OrderValueNegatingNull(row, info) ==
    LET val == row[ColumnIndex[info.column]]
        v   == IF val = "NULL" THEN IF info.nulls_first THEN -Inf ELSE Inf
               ELSE NumVal[val]
    IN  IF val # "NULL" /\ val \notin DOMAIN NumVal THEN Str(val)
        ELSE Float(IF info.desc THEN -v ELSE v)

(* One ORDER BY entry's key value: NULL to -inf/inf by NULLS FIRST, a    *)
(* number (negated for DESC), else the raw token as a str.               *)
OrderValue(row, info) ==
    LET val == row[ColumnIndex[info.column]]
    IN  IF val = "NULL" THEN Float(IF info.nulls_first THEN -Inf ELSE Inf)
        ELSE IF val \in DOMAIN NumVal
             THEN Float(IF info.desc THEN -NumVal[val] ELSE NumVal[val])
             ELSE Str(val)

(* The wf_result tie-breaker: float(wf), NULL as inf, else the str. *)
WfValue(wf) ==
    IF wf = "NULL" THEN Float(Inf)
    ELSE IF wf \in DOMAIN NumVal THEN Float(NumVal[wf]) ELSE Str(wf)

sort_key(row, order_info) ==
    LET used == UsedEntries(order_info)
    IN  << Str(IF row[1] # "NULL" THEN row[1] ELSE "") >>
        \o [i \in 1..Len(used) |-> OrderValue(row, used[i])]
        \o << WfValue(row[Len(row)]) >>

-----------------------------------------------------------------------------
(* Python's ordering of two key values and of two key lists: "lt", "eq",   *)
(* "gt", or "err" where CPython raises TypeError.                           *)

ValueCmp(a, b) ==
    IF a.ty # b.ty THEN "err"
    ELSE IF a.v < b.v THEN "lt" ELSE IF a.v = b.v THEN "eq" ELSE "gt"

KeyCmp(ka, kb) ==
    LET D == {i \in DOMAIN ka : ka[i] # kb[i]}
    IN  IF D = {} THEN "eq"
        ELSE LET i == CHOOSE i \in D : \A j \in D : i <= j
             IN  ValueCmp(ka[i], kb[i])

(* sorted() raises iff two rows' keys are incomparable: such rows share  *)
(* a key prefix, so some pair of them is adjacent in any order and a     *)
(* comparison sort has to compare it directly.                           *)
SortRaises(keys) == \E i, j \in DOMAIN keys : KeyCmp(keys[i], keys[j]) = "err"

(* sorted() is stable: a row goes after every smaller key and after every *)
(* equal key that comes before it in the input.                          *)
StablePos(keys, i) ==
    1 + Cardinality({j \in DOMAIN keys :
                       \/ KeyCmp(keys[j], keys[i]) = "lt"
                       \/ KeyCmp(keys[j], keys[i]) = "eq" /\ j < i})

SortedBy(rows, keys) ==
    [k \in DOMAIN rows |-> rows[CHOOSE i \in DOMAIN rows : StablePos(keys, i) = k]]

RowKeys(results, order_info) ==
    [i \in DOMAIN results |-> sort_key(results[i], order_info)]

(* Mutant of normalize_results: returns the sorted keys, not the rows. *)
normalize_results_keys(results, order_info) ==
    SortedBy(RowKeys(results, order_info), RowKeys(results, order_info))

normalize_results(results, order_info) ==
    SortedBy(results, RowKeys(results, order_info))

NormalizeRaises(results, order_info) ==
    SortRaises(RowKeys(results, order_info))
=============================================================================
