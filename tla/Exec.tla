-------------------------------- MODULE Exec --------------------------------
(***************************************************************************)
(* The kernel's execution core: the process table, the single global I/O  *)
(* redirection state, and the read, write and exec system calls           *)
(* (kernel/src/process.rs, kernel/src/syscall.rs).                        *)
(*                                                                         *)
(* The machine has one core and runs with interrupts off.  exec is a      *)
(* nested function call: the caller stays on the kernel stack, its slot    *)
(* stays in use, and the program it started runs to completion above it.   *)
(* `stack' is that nesting; only its last frame executes.  What a program  *)
(* does between two system calls is its own affair, so programs are        *)
(* nondeterministic here (module Pipeline puts the real ones in).          *)
(*                                                                         *)
(* The bytes of a buffer are a sequence; stdin_len and stdout_len are the  *)
(* lengths of the sequences.                                               *)
(***************************************************************************)
EXTENDS Integers, Sequences

CONSTANTS
    Path,             \* names a caller may pass to exec
    FILES,            \* the paths of the static file table (vfs.rs)
    SlotForPath,      \* slot_for_path: a function on the paths it knows
    Loads,            \* the static files whose ELF image the loader accepts
    InitPath,         \* "/bin/init"
    MaxProcessSlots,  \* MAX_PROCESS_SLOTS
    MaxProcesses,     \* MAX_PROCESSES
    MaxPid,           \* the value at which next_pid saturates (u64::MAX)
    MaxIoStdin,       \* MAX_IO_STDIN
    MaxIoStdout,      \* MAX_IO_STDOUT
    Byte, Newline,    \* the bytes told apart, and the one that ends a line
    \* What programs pass to system calls, and the bound on what one writes.
    Stdins,           \* payloads of a redirected stdin
    Caps,             \* capacities of a capture buffer
    Writes,           \* buffers passed to write
    ReadLens,         \* lengths passed to read
    ReturnCodes,      \* values a program returns
    MaxWritten        \* bytes one program writes in all

Slot   == 0 .. MaxProcessSlots - 1
RecIdx == 0 .. MaxProcesses - 1
Pid    == 0 .. MaxPid

\* Init is the only program that issues exec system calls: exec_from_bin and
\* exec_from_bin_io of the shell are the only callers of the libos wrappers.
Callers == {InitPath}

ASSUME ExecPaths ==
    /\ FILES \subseteq Path
    /\ Loads \subseteq FILES
    /\ DOMAIN SlotForPath \subseteq Path
    /\ \A p \in DOMAIN SlotForPath : SlotForPath[p] \in Slot
    /\ \A p, q \in DOMAIN SlotForPath :
          SlotForPath[p] = SlotForPath[q] => p = q

\* Two processes ever live at once (NestingBounded), so two of everything do.
ASSUME ExecSizes ==
    /\ MaxProcessSlots \in Nat /\ MaxProcesses \in Nat /\ MaxPid \in Nat
    /\ MaxProcesses >= 2 /\ MaxPid >= 2
    /\ MaxIoStdin \in Nat \ {0} /\ MaxIoStdout \in Nat \ {0}

ASSUME ExecInputs ==
    /\ Newline \in Byte /\ InitPath \in Path
    /\ Stdins \subseteq Seq(Byte) /\ Writes \subseteq Seq(Byte)
    /\ Caps \subseteq Nat /\ ReadLens \subseteq Nat \ {0}
    /\ ReturnCodes \subseteq Nat /\ MaxWritten \in Nat

VARIABLES
    phase,   \* kernel_main: before exec("/bin/init"), inside it, or halted
    pm,      \* PROCESS_MANAGER
    io,      \* IO_STATE
    stack,   \* the exec_with_io calls in progress, innermost last
    result   \* what the last exec_with_io call returned to its caller

vars == <<phase, pm, io, stack, result>>

-----------------------------------------------------------------------------
(* Slices and options.                                                     *)

Lesser(m, n) == IF m <= n THEN m ELSE n

\* s[..min(s.len(), n)]: every buffer copy in the kernel is clamped this way.
Truncate(s, n) == SubSeq(s, 1, Lesser(Len(s), n))

NoStdin  == [some |-> FALSE, data |-> << >>]
NoStdout == [some |-> FALSE, cap |-> 0]

StdinArg  == [some : BOOLEAN, data : Seq(Byte)]
StdoutArg == [some : BOOLEAN, cap : Nat]

\* Exit statuses; Failed is u64::MAX, which exec also returns when it refuses.
Failed == -1
Status == Nat \cup {Failed}
Result == [status : Status, out : Seq(Byte)]

-----------------------------------------------------------------------------
(* ProcessManager.                                                         *)

EmptyRecord == [pid |-> 0, slot_idx |-> 0, state |-> "Empty"]
Record == [pid : Pid, slot_idx : Nat, state : {"Empty", "Running"}]

ProcessManager ==
    [next_pid : Pid, slots_in_use : SUBSET Slot, records : [RecIdx -> Record]]

NewProcessManager ==
    [next_pid |-> 1, slots_in_use |-> {},
     records |-> [i \in RecIdx |-> EmptyRecord]]

\* spawn_slot and finish scan the table from the front for an entry.  Nothing
\* shows which of several free entries a process is given, so any will do.
Some(S) == CHOOSE i \in S : TRUE

FreeRecords(m) == {i \in RecIdx : m.records[i].state = "Empty"}

\* Mutation: spawn_slot does not look at slots_in_use.
CanSpawnBusySlot(m, s) == s \in Slot /\ FreeRecords(m) # {}

CanSpawn(m, s) ==
    /\ s \in Slot
    /\ s \notin m.slots_in_use
    /\ FreeRecords(m) # {}

\* Mutations: next_pid grows past its width; it is not advanced.
PidAfterUnsaturated(pid) == pid + 1
PidAfterSame(pid) == pid

PidAfter(pid) == Lesser(pid + 1, MaxPid)

SpawnSlot(m, s) ==
    [next_pid |-> PidAfter(m.next_pid),
     slots_in_use |-> m.slots_in_use \cup {s},
     records |-> [m.records EXCEPT ![Some(FreeRecords(m))] =
                    [pid |-> m.next_pid, slot_idx |-> s, state |-> "Running"]]]

RunningAs(m, pid) ==
    {i \in RecIdx : m.records[i].pid = pid /\ m.records[i].state = "Running"}

\* Mutation: the record is cleared before its slot is read.
ClearRecordEarly(m, i) ==
    [m EXCEPT !.slots_in_use = @ \ {EmptyRecord.slot_idx},
              !.records[i] = EmptyRecord]

ClearRecord(m, i) ==
    [m EXCEPT !.slots_in_use = @ \ {m.records[i].slot_idx},
              !.records[i] = EmptyRecord]

Finish(m, pid) ==
    IF RunningAs(m, pid) = {} THEN m ELSE ClearRecord(m, Some(RunningAs(m, pid)))

-----------------------------------------------------------------------------
(* IoState: one for the whole kernel.                                      *)

IoState ==
    [active : BOOLEAN, stdin_enabled : BOOLEAN, stdin : Seq(Byte),
     stdin_pos : Nat, stdout_capture : BOOLEAN, stdout : Seq(Byte)]

IdleIo ==
    [active |-> FALSE, stdin_enabled |-> FALSE, stdin |-> << >>,
     stdin_pos |-> 0, stdout_capture |-> FALSE, stdout |-> << >>]

IoFor(stdin, out) ==
    [active |-> TRUE, stdin_enabled |-> stdin.some,
     stdin |-> IF stdin.some THEN Truncate(stdin.data, MaxIoStdin) ELSE << >>,
     stdin_pos |-> 0, stdout_capture |-> out.some, stdout |-> << >>]

\* The three answers of take_stdin_byte.
StdinUnavailable == ~io.active \/ ~io.stdin_enabled
\* Mutation: the end-of-file test is off by one.
StdinEofLate == ~StdinUnavailable /\ io.stdin_pos > Len(io.stdin)

StdinEof == ~StdinUnavailable /\ io.stdin_pos >= Len(io.stdin)
StdinReady == ~StdinUnavailable /\ io.stdin_pos < Len(io.stdin)

\* Mutation: the byte is handed out without advancing the position.
AdvanceStdinNot == UNCHANGED io

AdvanceStdin == io' = [io EXCEPT !.stdin_pos = @ + 1]

\* The test of capture_stdout.
Capturing ==
    io.active /\ io.stdout_capture /\ Len(io.stdout) < MaxIoStdout

\* Mutation: each captured write starts again at the front of the buffer.
CapturedFromStart(d) == Truncate(d, MaxIoStdout)

CapturedWith(d) == io.stdout \o Truncate(d, MaxIoStdout - Len(io.stdout))

-----------------------------------------------------------------------------
(* Frames.  `call' holds the arguments of exec_with_io, rd the progress of  *)
(* the read system call (count is its return value once busy is FALSE).     *)
(* The remaining fields are history the properties speak of:                *)
(*   asked  whether the caller passed a non-null stdin pointer              *)
(*   got    the redirected bytes read delivered to the program              *)
(*   tty    whether it was given a byte typed at the terminal               *)
(*   wrote  the bytes a program whose output is captured passed to write    *)
(*   shown  those of them that reached the terminal                         *)

IdleRead == [busy |-> FALSE, len |-> 0, count |-> 0]

Call == [path : Path, stdin : StdinArg, out : StdoutArg, asked : BOOLEAN]

Frame ==
    [call : Call, pid : Pid, rd : [busy : BOOLEAN, len : Nat, count : Nat],
     got : Seq(Byte), tty : BOOLEAN, wrote : Seq(Byte), shown : Seq(Byte)]

NewFrame(call, pid) ==
    [call |-> call, pid |-> pid, rd |-> IdleRead, got |-> << >>,
     tty |-> FALSE, wrote |-> << >>, shown |-> << >>]

Depth == Len(stack)
Top   == stack[Depth]
Below == SubSeq(stack, 1, Depth - 1)

\* The innermost program is about to issue a system call.
InUser == stack # << >> /\ ~Top.rd.busy

UpdateTop(f) == stack' = [stack EXCEPT ![Depth] = f]

Init ==
    /\ phase = "boot"
    /\ pm = NewProcessManager
    /\ io = IdleIo
    /\ stack = << >>
    /\ result = [status |-> 0, out |-> << >>]

-----------------------------------------------------------------------------
(* exec_with_io, up to the jump to the program's entry point.              *)

\* The checks of exec_internal that precede the loader.
Executable(call) ==
    /\ call.path \in FILES
    /\ call.path \in DOMAIN SlotForPath
    /\ CanSpawn(pm, SlotForPath[call.path])

ExecStart(call) ==
    /\ Executable(call)
    /\ call.path \in Loads
    /\ pm' = SpawnSlot(pm, SlotForPath[call.path])
    /\ io' = IoFor(call.stdin, call.out)
    /\ stack' = Append(stack, NewFrame(call, pm.next_pid))
    /\ UNCHANGED result

\* Mutation: the loader's error returns before finish is called.
PmAfterRefusalUnfinished(call) ==
    IF Executable(call) THEN SpawnSlot(pm, SlotForPath[call.path]) ELSE pm

PmAfterRefusal(call) ==
    IF Executable(call)
    THEN Finish(SpawnSlot(pm, SlotForPath[call.path]), pm.next_pid)
    ELSE pm

\* Mutation: IO_STATE keeps its settings after the call.
ReleaseIoNot == UNCHANGED io

ReleaseIo == io' = IdleIo

\* Nothing ran.  When it was the loader that refused, the slot and the record
\* taken for it are given back.
ExecRefuse(call) ==
    /\ ~(Executable(call) /\ call.path \in Loads)
    /\ pm' = PmAfterRefusal(call)
    /\ ReleaseIo
    /\ result' = [status |-> Failed, out |-> << >>]
    /\ UNCHANGED stack

ExecCall(path, stdin, out, asked) ==
    [path |-> path, stdin |-> stdin, out |-> out, asked |-> asked]

\* exec(path, ..): exec_with_io with neither stdin nor an output buffer.
PlainCall(path) == ExecCall(path, NoStdin, NoStdout, FALSE)

Boot ==
    /\ phase = "boot"
    /\ \/ ExecStart(PlainCall(InitPath)) /\ phase' = "user"
       \/ ExecRefuse(PlainCall(InitPath)) /\ phase' = "halted"

\* Mutations: the copy is not clamped to the caller's buffer; it is made after
\* stdout_len has been reset.
CopiedOutUnclamped == IF Top.call.out.some THEN io.stdout ELSE << >>
CopiedOutLate == << >>

CopiedOut ==
    IF Top.call.out.some THEN Truncate(io.stdout, Top.call.out.cap) ELSE << >>

\* The rest of exec_with_io, once the program has returned `code'.
Return(code) ==
    /\ InUser
    /\ pm' = Finish(pm, Top.pid)
    /\ result' = [status |-> code, out |-> CopiedOut]
    /\ ReleaseIo
    /\ stack' = Below
    /\ phase' = IF Depth = 1 THEN "halted" ELSE phase

-----------------------------------------------------------------------------
(* System calls of the innermost program.                                  *)

\* An exec system call, by a program that makes any.
NestedExec(call) ==
    /\ InUser
    /\ Top.call.path \in Callers
    /\ ExecStart(call) \/ ExecRefuse(call)
    /\ UNCHANGED phase

SysExecve(path) == NestedExec(PlainCall(path))

\* The slices ExecIo makes of the request's pointers and lengths: a null
\* pointer (~some) or a zero length gives none.
StdinOf(req) ==
    IF req.some /\ req.data # << >>
    THEN [some |-> TRUE, data |-> Truncate(req.data, MaxIoStdin)]
    ELSE NoStdin

StdoutOf(req) ==
    IF req.some /\ req.cap # 0
    THEN [some |-> TRUE, cap |-> Lesser(req.cap, MaxIoStdout)]
    ELSE NoStdout

SysExecIo(path, in, out) ==
    NestedExec(ExecCall(path, StdinOf(in), StdoutOf(out), in.some))

\* read(0, buf, n): the loop takes one byte per turn (ReadByte, ReadTyped) and
\* leaves at end of file (ReadEof).  With nothing redirected and no key
\* pressed it spins, which changes nothing.
ReadBegin(n) ==
    /\ InUser
    /\ UpdateTop([Top EXCEPT !.rd = [busy |-> TRUE, len |-> n, count |-> 0]])
    /\ UNCHANGED <<phase, pm, io, result>>

Reading == stack # << >> /\ Top.rd.busy

\* Mutation: the loop stops one byte early.
CountedShort(rd, done) ==
    [rd EXCEPT !.count = @ + 1, !.busy = rd.count + 2 < rd.len /\ ~done]

Counted(rd, done) ==
    [rd EXCEPT !.count = @ + 1, !.busy = rd.count + 1 < rd.len /\ ~done]

ReadByte ==
    /\ Reading
    /\ StdinReady
    /\ AdvanceStdin
    /\ UpdateTop([Top EXCEPT !.got = Append(@, io.stdin[io.stdin_pos + 1]),
                             !.rd = Counted(@, FALSE)])
    /\ UNCHANGED <<phase, pm, result>>

ReadEof ==
    /\ Reading
    /\ StdinEof
    /\ UpdateTop([Top EXCEPT !.rd.busy = FALSE])
    /\ UNCHANGED <<phase, pm, io, result>>

ReadTyped(b) ==
    /\ Reading
    /\ StdinUnavailable
    /\ UpdateTop([Top EXCEPT !.tty = TRUE, !.rd = Counted(@, b = Newline)])
    /\ UNCHANGED <<phase, pm, io, result>>

\* write(1, d): the capture buffer takes what fits, or the terminal takes all.
Write(d) ==
    LET history == IF Top.call.out.some THEN d ELSE << >>
    IN  /\ InUser
        /\ \/ /\ Capturing
              /\ io' = [io EXCEPT !.stdout = CapturedWith(d)]
              /\ UpdateTop([Top EXCEPT !.wrote = @ \o history])
           \/ /\ ~Capturing
              /\ UpdateTop([Top EXCEPT !.wrote = @ \o history,
                                       !.shown = @ \o history])
              /\ UNCHANGED io
        /\ UNCHANGED <<phase, pm, result>>

\* kernel_main's last loop.
Halt == phase = "halted" /\ UNCHANGED vars

-----------------------------------------------------------------------------

StdinReqs  == {NoStdin} \cup {[some |-> TRUE, data |-> d] : d \in Stdins}
StdoutReqs == {NoStdout} \cup {[some |-> TRUE, cap |-> c] : c \in Caps}

Next ==
    \/ Boot
    \/ \E p \in Path : SysExecve(p)
    \/ \E p \in Path, in \in StdinReqs, out \in StdoutReqs :
          SysExecIo(p, in, out)
    \/ \E n \in ReadLens : ReadBegin(n)
    \/ ReadByte
    \/ ReadEof
    \/ \E b \in Byte : ReadTyped(b)
    \/ \E d \in Writes :
          InUser /\ Len(Top.wrote) + Len(d) <= MaxWritten /\ Write(d)
    \/ \E c \in ReturnCodes : Return(c)
    \/ Halt

\* The kernel's own code keeps running: boot goes on, and a read that can be
\* served from the redirected input is.  Nobody promises to press a key, and
\* a program may compute for ever between system calls.
Fairness == WF_vars(Boot \/ ReadByte \/ ReadEof)

Spec == Init /\ [][Next]_vars /\ Fairness

-----------------------------------------------------------------------------
(* Properties.                                                             *)

\* Every variable holds a value of the kind the code's declarations give it.
TypeOK ==
    /\ phase \in {"boot", "user", "halted"}
    /\ pm \in ProcessManager
    /\ io \in IoState
    /\ stack \in Seq(Frame)
    /\ result \in Result

\* The slots marked in use are those of the programs on the kernel stack, one
\* program to a slot: no image is loaded over a program that has not returned,
\* and no slot stays taken after its program has (spawn_slot, finish).
SlotsHeldByStack ==
    /\ pm.slots_in_use = {SlotForPath[stack[k].call.path] : k \in 1 .. Depth}
    /\ \A j, k \in 1 .. Depth :
          stack[j].call.path = stack[k].call.path => j = k

\* Each program on the stack has exactly one Running record, found by its pid
\* and naming its own slot, so finish frees what spawn_slot took; pids stay
\* apart even where next_pid has saturated.
RecordsMatchStack ==
    /\ \A k \in 1 .. Depth :
          \E i \in RecIdx :
             /\ RunningAs(pm, stack[k].pid) = {i}
             /\ pm.records[i].slot_idx = SlotForPath[stack[k].call.path]
    /\ \A i \in RecIdx \ FreeRecords(pm) :
          \E k \in 1 .. Depth : stack[k].pid = pm.records[i].pid

\* exec nests at most two deep, init and one program, so kernel stack use is
\* bounded and the record table can't run out.
NestingBounded == Depth <= 2 /\ (Depth > 0 => stack[1].call.path = InitPath)

\* The single IO_STATE is at all times set up the way the running program's own
\* exec asked for: neither the caller's redirection nor that of a program that
\* ran before shows through, although exec_with_io saves and restores nothing.
IoIsTops ==
    IF stack = << >>
    THEN io = IdleIo
    ELSE /\ StdinUnavailable <=> ~Top.call.stdin.some
         /\ Top.call.stdin.some => io.stdin = Top.call.stdin.data
         /\ io.active /\ io.stdout_capture <=> Top.call.out.some

\* What a program has read from a redirected stdin is what its caller supplied,
\* from the start, in order, each byte once; and no typed byte is mixed in.
StdinDeliveredInOrder ==
    stack # << >> /\ Top.call.stdin.some =>
        /\ Top.got = Truncate(Top.call.stdin.data, io.stdin_pos)
        /\ ~Top.tty

\* A read of redirected input returns less than was asked for only at its end:
\* the zero (or short) count that cat, tee and sed stop at is never early.
ShortReadOnlyAtEof ==
    stack # << >> /\ Top.call.stdin.some /\ ~Top.rd.busy /\ Top.rd.count < Top.rd.len
        => StdinEof

\* The capture buffer holds the first MAX_IO_STDOUT bytes the program wrote, and
\* bytes go to the terminal instead only once it is full.
CaptureIsPrefix ==
    stack # << >> /\ Top.call.out.some =>
        /\ io.stdout = Truncate(Top.wrote, MaxIoStdout)
        /\ Top.shown # << >> => Len(io.stdout) = MaxIoStdout

\* A program's return gives its caller the status it returned and, if a buffer
\* was supplied, the start of what that very program wrote.
ReturnsOwnOutput ==
    [][Len(stack') < Depth =>
         result'.out = IF Top.call.out.some
                       THEN Truncate(Top.wrote, Top.call.out.cap)
                       ELSE << >>]_vars

\* Only a program that starts or returns changes what the process table holds:
\* an exec that is refused, even by the loader after spawn_slot, gives back the
\* slot and the record it took.
RefusedExecLeavesNoTrace ==
    [][Len(stack') = Depth =>
         /\ pm'.slots_in_use = pm.slots_in_use
         /\ FreeRecords(pm') = FreeRecords(pm)]_vars

\* A read from redirected input always comes back: at its end it returns instead
\* of spinning as it does for the keyboard.
RedirectedReadReturns ==
    (Reading /\ Top.call.stdin.some) ~> ~Reading

\* What OS_STATE.md says of write while output is captured; violated, since a
\* full buffer makes capture_stdout answer false and write fall through.
CapturedOutputStaysOffTerminal ==
    stack # << >> /\ Top.call.out.some => Top.shown = << >>

\* What OS_STATE.md says of read under redirection; violated for a redirection
\* from an empty source, which ExecIo turns into no redirection at all.
RedirectedStdinNeverTyped ==
    stack # << >> /\ Top.call.asked => ~Top.tty
=============================================================================
