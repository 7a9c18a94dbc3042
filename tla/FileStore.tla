------------------------------ MODULE FileStore ------------------------------
(***************************************************************************)
(* What the file system calls promise: a table from paths to contents with *)
(* room for Capacity files over a read-only set of base files.  Module Vfs  *)
(* implements it with an array that is searched entry by entry.            *)
(***************************************************************************)
EXTENDS Integers, Sequences, FiniteSets

CONSTANTS
    Names,      \* paths the system calls accept
    Refusals,   \* paths they refuse
    Base,       \* the read-only files: a function from paths to contents
    Payloads,   \* contents passed to write
    Capacity,   \* files the store has room for
    MaxLen,     \* bytes kept of a file
    Buffers     \* capacities of the buffers passed to read

VARIABLES
    store,      \* the written files: a function from paths to contents
    answer      \* the outcome of the last call

storeVars == <<store, answer>>

Clip(d, n) == SubSeq(d, 1, IF n < Len(d) THEN n ELSE Len(d))

Put(f, p, d) == [q \in DOMAIN f \cup {p} |-> IF q = p THEN d ELSE f[q]]

HasRoomFor(p) == p \in DOMAIN store \/ Cardinality(DOMAIN store) < Capacity

Visible(p) == IF p \in DOMAIN Base THEN Base[p] ELSE store[p]

Init == store = << >> /\ answer = [op |-> "none"]

Keep(p, d) ==
    /\ p \in Names
    /\ HasRoomFor(p)
    /\ store' = Put(store, p, Clip(d, MaxLen))
    /\ answer' = [op |-> "write", path |-> p, data |-> d, ok |-> TRUE]

RefuseWrite(p, d) ==
    /\ p \in Refusals \/ ~HasRoomFor(p)
    /\ answer' = [op |-> "write", path |-> p, data |-> d, ok |-> FALSE]
    /\ UNCHANGED store

Fetch(p, n) ==
    /\ p \in Names /\ p \in DOMAIN Base \cup DOMAIN store
    /\ answer' = [op |-> "read", path |-> p, cap |-> n, ok |-> TRUE, data |-> Clip(Visible(p), n)]
    /\ UNCHANGED store

NoSuchFile(p, n) ==
    /\ p \in Refusals \/ p \notin DOMAIN Base \cup DOMAIN store
    /\ answer' = [op |-> "read", path |-> p, cap |-> n, ok |-> FALSE, data |-> << >>]
    /\ UNCHANGED store

\* Listing a directory shows files and changes none.
Look == UNCHANGED store /\ answer'.op = "list"

Next ==
    \/ \E p \in Names \cup Refusals, d \in Payloads : Keep(p, d) \/ RefuseWrite(p, d)
    \/ \E p \in Names \cup Refusals, n \in Buffers : Fetch(p, n) \/ NoSuchFile(p, n)
    \/ Look

Spec == Init /\ [][Next]_storeVars
=============================================================================
