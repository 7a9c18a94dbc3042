------------------------------- MODULE EnvTable -------------------------------
(***************************************************************************)
(* What the shell's variables promise: a table from names to values with    *)
(* room for Capacity of them.  Module Environment implements it with an     *)
(* array whose free entries are those with an empty name.                   *)
(***************************************************************************)
EXTENDS Integers, Sequences, FiniteSets

CONSTANTS
    Capacity,            \* variables the table has room for
    KeyLimit, ValLimit   \* the longest name and the longest value it takes

VARIABLES
    table,    \* a function from names to values
    answer    \* the outcome of the last call

tableVars == <<table, answer>>

Assigned(k, v) == [n \in DOMAIN table \cup {k} |-> IF n = k THEN v ELSE table[n]]

TooLong(k, v) == Len(k) > KeyLimit \/ Len(v) > ValLimit
HasRoom       == Cardinality(DOMAIN table) < Capacity

Init == table = << >> /\ answer = [op |-> "none"]

Assign(k, v) ==
    /\ k # << >> /\ ~TooLong(k, v)
    /\ k \in DOMAIN table \/ HasRoom
    /\ table' = Assigned(k, v)
    /\ answer' = [op |-> "set", key |-> k, val |-> v, outcome |-> "ok"]

\* A variable without a name is taken and kept nowhere.
Swallow(k, v) ==
    /\ k = << >> /\ ~TooLong(k, v) /\ HasRoom
    /\ answer' = [op |-> "set", key |-> k, val |-> v, outcome |-> "ok"]
    /\ UNCHANGED table

Refuse(k, v) ==
    /\ \/ TooLong(k, v) /\ answer'.outcome = "too long"
       \/ /\ ~TooLong(k, v) /\ ~HasRoom /\ k \notin DOMAIN table
          /\ answer'.outcome = "too many"
    /\ answer' = [op |-> "set", key |-> k, val |-> v, outcome |-> answer'.outcome]
    /\ UNCHANGED table

Set(k, v) == Assign(k, v) \/ Swallow(k, v) \/ Refuse(k, v)

\* Looking at variables changes none.
Look == UNCHANGED table /\ answer'.op # "set"

Next == Look \/ (answer'.op = "set" /\ Set(answer'.key, answer'.val))

Spec == Init /\ [][Next]_tableVars
=============================================================================
