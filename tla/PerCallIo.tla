------------------------------ MODULE PerCallIo ------------------------------
(***************************************************************************)
(* What exec_with_io promises its callers: every call has an input and an  *)
(* output buffer of its own.  Calls nest; reads and writes are those of    *)
(* the innermost call and touch no other; a call's output goes to whoever  *)
(* made it.  kernel/src/process.rs has one IO_STATE for all calls; module  *)
(* ExecRefinement shows that this is nevertheless what it implements.      *)
(***************************************************************************)
EXTENDS Integers, Sequences

CONSTANTS
    Inputs,     \* redirected inputs: records [some, data]
    Outputs,    \* output requests: records [some, cap]
    Chunks,     \* byte strings written at once
    Statuses,   \* exit statuses
    Refused,    \* the status of a call that ran nothing
    MaxHeld     \* bytes of output a call keeps

VARIABLES calls, answer

ioVars == <<calls, answer>>

Innermost == calls[Len(calls)]

FirstOf(s, n) == SubSeq(s, 1, IF n < Len(s) THEN n ELSE Len(s))

Init == calls = << >> /\ answer = [status |-> 0, out |-> << >>]

Enter(in, out) ==
    /\ calls' = Append(calls, [in |-> in, out |-> out, held |-> << >>])
    /\ UNCHANGED answer

Refuse ==
    /\ answer' = [status |-> Refused, out |-> << >>]
    /\ UNCHANGED calls

Consume ==
    /\ calls # << >>
    /\ Innermost.in.data # << >>
    /\ calls' = [calls EXCEPT ![Len(calls)].in.data = Tail(@)]
    /\ UNCHANGED answer

Produce(d) ==
    /\ calls # << >>
    /\ Innermost.out.some
    /\ calls' = [calls EXCEPT ![Len(calls)].held = FirstOf(@ \o d, MaxHeld)]
    /\ UNCHANGED answer

Leave(status) ==
    /\ calls # << >>
    /\ answer' = [status |-> status,
                  out |-> IF Innermost.out.some
                          THEN FirstOf(Innermost.held, Innermost.out.cap)
                          ELSE << >>]
    /\ calls' = SubSeq(calls, 1, Len(calls) - 1)

Next ==
    \/ \E in \in Inputs, out \in Outputs : Enter(in, out)
    \/ Refuse
    \/ Consume
    \/ \E d \in Chunks : Produce(d)
    \/ \E s \in Statuses : Leave(s)

Spec == Init /\ [][Next]_ioVars
=============================================================================
