------------------------------ MODULE SqlTool -------------------------------
(***************************************************************************)
(* internal/executor/sql: how SQLToolExecutor turns the query of a tool    *)
(* into a statement and its arguments, and what the database makes of      *)
(* them.  ToolCalls runs it.                                               *)
(*                                                                         *)
(* A query is the sequence of its places: a parameter $n of the template   *)
(* ([kind |-> "param", n |-> n, ...]) or a hole {{input.key}} ([kind |->   *)
(* "hole", key |-> key, ...]).  A place in the middle of a quoted string   *)
(* is inner; a hole that is quoted as a whole loses its quotes and is not. *)
(***************************************************************************)
EXTENDS Integers, Sequences, FiniteSetsExt

Places(query, kind) == {i \in 1..Len(query) : query[i].kind = kind}
Holes(query) == Places(query, "hole")
HolesTo(query, i) == {j \in Holes(query) : j <= i}

\* A $n counts wherever it stands.
maxSQLParamIndex(query) == Max({0} \cup {query[i].n : i \in Places(query, "param")})

\* Mutated: a key that has come before keeps its number.
NumberAt_ByKey(query, i) ==
    IF query[i].kind = "param" THEN query[i].n
    ELSE maxSQLParamIndex(query)
         + Cardinality({query[j].key : j \in HolesTo(query, i)})

\* renderInputTemplate: every hole takes the next number after the highest $n of
\* the template, even when its key has come before.
NumberAt(query, i) ==
    IF query[i].kind = "param" THEN query[i].n
    ELSE maxSQLParamIndex(query) + Cardinality(HolesTo(query, i))

ValueOf(input, key) == IF key \in DOMAIN input THEN input[key] ELSE "NULL"

\* One argument for each hole; a $n of the template gets none.
Args(query, input) ==
    LET place(h) == CHOOSE i \in Holes(query) : Cardinality(HolesTo(query, i)) = h
    IN  [h \in 1..Cardinality(Holes(query)) |-> ValueOf(input, query[place(h)].key)]

\* The parameters the database sees: within a quoted string $n is text.
Parameters(query) == {NumberAt(query, i) : i \in {j \in 1..Len(query) : ~query[j].inner}}

\* pgx refuses a statement whose arguments are not as many as its parameters,
\* and the database one that skips a number.
Bindable(query) == Parameters(query) = 1..Cardinality(Holes(query))

\* The value each place of the statement has for the database.
Bound(query, input) ==
    [i \in 1..Len(query) |->
        IF query[i].inner THEN "text" ELSE Args(query, input)[NumberAt(query, i)]]

\* max_rows, 100 by default.
MaxRows(c) == IF c.max_rows <= 0 THEN 100 ELSE c.max_rows

IsSelect(c) == c.operation \in {"", "SELECT"}
=============================================================================
