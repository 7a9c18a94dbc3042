--------------------------- MODULE ExecRefinement ---------------------------
(***************************************************************************)
(* The kernel's one IO_STATE implements the per-call buffers of PerCallIo. *)
(* The innermost call's buffers are read off IO_STATE.  A call that waits   *)
(* for a nested one must find its buffers as it left them: they are what    *)
(* its caller supplied, less what it read, and what it wrote.               *)
(***************************************************************************)
EXTENDS Exec

DropFirst(s, n) == SubSeq(s, n + 1, Len(s))

\* take_stdin_byte and capture_stdout as they would answer now.
LiveBuffers ==
    [in   |-> [some |-> ~StdinUnavailable, data |-> DropFirst(io.stdin, io.stdin_pos)],
     out  |-> [some |-> io.active /\ io.stdout_capture, cap |-> Top.call.out.cap],
     held |-> io.stdout]

WaitingBuffers(f) ==
    [in   |-> [f.call.stdin EXCEPT !.data = DropFirst(@, Len(f.got))],
     out  |-> f.call.out,
     held |-> Truncate(f.wrote, MaxIoStdout)]

BuffersOf(k) == IF k = Depth THEN LiveBuffers ELSE WaitingBuffers(stack[k])

PerCall == INSTANCE PerCallIo WITH
    Inputs   <- {StdinOf(r) : r \in StdinReqs},
    Outputs  <- {StdoutOf(r) : r \in StdoutReqs},
    Chunks   <- Writes,
    Statuses <- ReturnCodes,
    Refused  <- Failed,
    MaxHeld  <- MaxIoStdout,
    calls    <- [k \in 1 .. Depth |-> BuffersOf(k)],
    answer   <- result

\* Each program reads and writes as if its exec had given it buffers of its own.
IoIsPerCall == PerCall!Spec
=============================================================================
