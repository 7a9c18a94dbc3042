----------------------------- MODULE ExecProofs -----------------------------
(***************************************************************************)
(* Theorems about the execution core, for every size of its tables and      *)
(* buffers and every set of programs: first the process table and whose      *)
(* redirection is in force, then the bytes that read and write move through  *)
(* IO_STATE, then that IO_STATE implements the buffers per call of PerCallIo. *)
(***************************************************************************)
EXTENDS ExecRefinement, SequenceTheorems, TLAPS

-----------------------------------------------------------------------------
(* The helpers.                                                            *)

\* A clamped copy is a sequence over the same set, and no longer than the clamp.
LEMMA TruncateProperties ==
    ASSUME NEW S, NEW s \in Seq(S), NEW n \in Nat
    PROVE  /\ Truncate(s, n) \in Seq(S)
           /\ Len(Truncate(s, n)) = Lesser(Len(s), n)
           /\ Len(s) <= n => Truncate(s, n) = s
<1>1. Len(s) \in Nat /\ Lesser(Len(s), n) \in 0 .. Len(s)
  BY LenProperties DEF Lesser
<1>2. \A i \in 1 .. Lesser(Len(s), n) : s[i] \in S
  BY <1>1, ElementOfSeq
<1>3. /\ SubSeq(s, 1, Lesser(Len(s), n)) \in Seq(S)
      /\ Len(SubSeq(s, 1, Lesser(Len(s), n))) = Lesser(Len(s), n)
  BY <1>1, <1>2, SubSeqProperties, Z3
<1>4. ASSUME Len(s) <= n PROVE SubSeq(s, 1, Lesser(Len(s), n)) = s
  BY <1>4, <1>1, SubSeqFull DEF Lesser
<1>5. QED
  BY <1>3, <1>4 DEF Truncate

\* spawn_slot takes one free record and one free slot, under the next pid.
LEMMA SpawnSlotProperties ==
    ASSUME NEW m \in ProcessManager, NEW s, CanSpawn(m, s)
    PROVE  /\ SpawnSlot(m, s) \in ProcessManager
           /\ SpawnSlot(m, s).next_pid = Lesser(m.next_pid + 1, MaxPid)
           /\ SpawnSlot(m, s).slots_in_use = m.slots_in_use \cup {s}
           /\ \E i \in FreeRecords(m) :
                 SpawnSlot(m, s).records =
                   [m.records EXCEPT ![i] =
                      [pid |-> m.next_pid, slot_idx |-> s, state |-> "Running"]]
<1>1. Some(FreeRecords(m)) \in FreeRecords(m)
  BY DEF CanSpawn, Some
<1>2. Some(FreeRecords(m)) \in RecIdx
  BY <1>1 DEF FreeRecords
<1>3. Lesser(m.next_pid + 1, MaxPid) \in Pid
  BY ExecSizes DEF Lesser, Pid, ProcessManager
<1>4. [pid |-> m.next_pid, slot_idx |-> s, state |-> "Running"] \in Record
  BY DEF CanSpawn, Slot, Record, ProcessManager
<1>5. SpawnSlot(m, s) \in ProcessManager
  BY <1>2, <1>3, <1>4 DEF SpawnSlot, ProcessManager, CanSpawn, PidAfter
<1>6. QED
  BY <1>1, <1>5 DEF SpawnSlot, PidAfter

\* finish, of a pid that has exactly one Running record, gives that record and
\* its slot back and touches nothing else.
LEMMA FinishProperties ==
    ASSUME NEW m \in ProcessManager, NEW pid \in Pid, NEW i \in RecIdx,
           RunningAs(m, pid) = {i}
    PROVE  /\ Finish(m, pid) \in ProcessManager
           /\ Finish(m, pid) =
                [next_pid |-> m.next_pid,
                 slots_in_use |-> m.slots_in_use \ {m.records[i].slot_idx},
                 records |-> [m.records EXCEPT ![i] = EmptyRecord]]
<1>1. Some(RunningAs(m, pid)) = i
  BY DEF Some
<1>2. Finish(m, pid) = ClearRecord(m, i)
  BY <1>1 DEF Finish
<1>3. EmptyRecord \in Record
  BY ExecSizes DEF EmptyRecord, Record, Pid
<1>4. ClearRecord(m, i) \in ProcessManager
  BY <1>3 DEF ClearRecord, ProcessManager
<1>5. QED
  BY <1>2, <1>4 DEF ClearRecord, ProcessManager

\* Replacing the innermost frame keeps the nesting and the frames below.
LEMMA UpdateTopProperties ==
    ASSUME stack \in Seq(Frame), stack # << >>, NEW f \in Frame, UpdateTop(f)
    PROVE  /\ stack' \in Seq(Frame) /\ Len(stack') = Depth /\ stack' # << >>
           /\ stack'[Depth] = f
           /\ \A k \in 1 .. Depth : k # Depth => stack'[k] = stack[k]
<1>1. Depth \in Nat /\ Depth >= 1
  BY DEF Depth
<1>2. QED
  BY <1>1 DEF UpdateTop, Depth

\* exec pushes a frame and leaves those below alone.
LEMMA PushProperties ==
    ASSUME stack \in Seq(Frame), NEW f \in Frame, stack' = Append(stack, f)
    PROVE  /\ stack' \in Seq(Frame) /\ Len(stack') = Depth + 1 /\ stack' # << >>
           /\ stack'[Depth + 1] = f
           /\ \A k \in 1 .. Depth : stack'[k] = stack[k]
  BY AppendProperties DEF Depth

\* A return leaves the frames below as they were.
LEMMA PopProperties ==
    ASSUME stack \in Seq(Frame), stack # << >>, stack' = Below
    PROVE  /\ stack' \in Seq(Frame) /\ Len(stack') = Depth - 1
           /\ \A k \in 1 .. Depth - 1 : stack'[k] = stack[k]
<1>1. Depth \in Nat /\ Depth >= 1 /\ \A k \in 1 .. Depth : stack[k] \in Frame
  BY DEF Depth
<1>2. \A k \in 1 .. Depth - 1 : stack[k] \in Frame
  BY <1>1
<1>3. /\ Below \in Seq(Frame)
      /\ Len(Below) = IF 1 <= Depth - 1 THEN Depth - 1 - 1 + 1 ELSE 0
      /\ \A k \in 1 .. (Depth - 1) - 1 + 1 : Below[k] = stack[1 + k - 1]
  BY <1>1, <1>2, SubSeqProperties DEF Below
<1>4. QED
  BY <1>1, <1>3

-----------------------------------------------------------------------------
(* The inductive invariant.  That slots, records and IO_STATE match the     *)
(* stack is preserved only because the stack has one of three shapes: init  *)
(* alone makes exec calls, its own slot is taken so it can't start itself,  *)
(* and it was started without redirection.                                  *)

BootCall == PlainCall(InitPath)

StackShape ==
    /\ Depth <= 2
    /\ phase = "boot" => stack = << >> /\ pm = NewProcessManager
    /\ phase = "halted" => stack = << >>
    /\ phase = "user" => pm.next_pid >= 2
    /\ Depth >= 1 => stack[1].call = BootCall /\ stack[1].pid = 1
    /\ Depth = 2 => stack[2].pid >= 2 /\ stack[2].call.path # InitPath
    /\ \A k \in 1 .. Depth : stack[k].call.path \in DOMAIN SlotForPath

IInv == TypeOK /\ StackShape /\ SlotsHeldByStack /\ RecordsMatchStack /\ IoIsTops

\* Before boot nothing is on the stack and every table entry is free.
LEMMA InitIInv == Init => IInv
<1> SUFFICES ASSUME Init PROVE IInv
  OBVIOUS
<1> USE DEF Init
<1>1. EmptyRecord \in Record /\ 1 \in Pid
  BY ExecSizes DEF EmptyRecord, Record, Pid
<1>2. pm \in ProcessManager
  BY <1>1 DEF NewProcessManager, ProcessManager
<1>3. IdleIo \in IoState /\ [status |-> 0, out |-> << >>] \in Result
  BY DEF IdleIo, IoState, Result, Status
<1>4. TypeOK
  BY <1>2, <1>3 DEF TypeOK
<1>5. Depth = 0
  BY DEF Depth
<1>6. StackShape
  BY <1>5 DEF StackShape
<1>7. SlotsHeldByStack
  BY <1>5 DEF SlotsHeldByStack, NewProcessManager
<1>8. FreeRecords(pm) = RecIdx
  BY DEF FreeRecords, NewProcessManager, EmptyRecord
<1>9. RecordsMatchStack
  BY <1>5, <1>8 DEF RecordsMatchStack
<1>10. QED
  BY <1>4, <1>6, <1>7, <1>9 DEF IInv, IoIsTops

\* A read or a write replaces the innermost frame by one of the same call and
\* pid, and moves only the positions in IO_STATE.
LEMMA UserStepIInv ==
    ASSUME IInv, stack # << >>, NEW f \in Frame, UpdateTop(f),
           f.call = Top.call, f.pid = Top.pid, UNCHANGED <<phase, pm, result>>,
           io' \in IoState, io'.active = io.active,
           io'.stdin_enabled = io.stdin_enabled, io'.stdin = io.stdin,
           io'.stdout_capture = io.stdout_capture
    PROVE  IInv'
<1>1. stack \in Seq(Frame) /\ Depth \in Nat /\ Depth >= 1
  BY DEF IInv, TypeOK, Depth
<1>2. /\ stack' \in Seq(Frame) /\ Depth' = Depth /\ stack' # << >>
      /\ Top' = f
      /\ \A k \in 1 .. Depth : k # Depth => stack'[k] = stack[k]
  BY <1>1, UpdateTopProperties DEF Depth, Top
<1>3. \A k \in 1 .. Depth : stack'[k].call = stack[k].call /\ stack'[k].pid = stack[k].pid
  BY <1>1, <1>2 DEF Top
<1>4. TypeOK'
  BY <1>2 DEF IInv, TypeOK
<1>5. StackShape'
  BY <1>1, <1>2, <1>3 DEF IInv, StackShape
<1>6. SlotsHeldByStack'
  <2>1. {SlotForPath[stack'[k].call.path] : k \in 1 .. Depth'}
            = {SlotForPath[stack[k].call.path] : k \in 1 .. Depth}
    BY <1>2, <1>3
  <2>2. pm' = pm
    OBVIOUS
  <2>3. QED
    BY <1>2, <1>3, <2>1, <2>2, SMTT(30) DEF IInv, SlotsHeldByStack
<1>7. RecordsMatchStack'
  BY <1>2, <1>3 DEF IInv, RecordsMatchStack, RunningAs, FreeRecords
<1>8. IoIsTops'
  BY <1>2 DEF IInv, IoIsTops, StdinUnavailable
<1>9. QED
  BY <1>4, <1>5, <1>6, <1>7, <1>8 DEF IInv

\* A program starts: at boot on the empty stack, later above init.
LEMMA ExecStartIInv ==
    ASSUME IInv, NEW call \in Call, ExecStart(call),
           call.stdin.some => Len(call.stdin.data) <= MaxIoStdin,
           phase' = "user",
           \/ phase = "boot" /\ call = BootCall
           \/ phase = "user" /\ stack # << >> /\ Top.call.path \in Callers
    PROVE  IInv'
<1> DEFINE s == SlotForPath[call.path]
           f == NewFrame(call, pm.next_pid)
<1>1. /\ stack \in Seq(Frame) /\ Depth \in Nat /\ pm \in ProcessManager
      /\ s \in Slot /\ call.path \in DOMAIN SlotForPath /\ CanSpawn(pm, s)
  BY ExecPaths DEF IInv, TypeOK, Depth, ExecStart, Executable
<1>2. f \in Frame
  BY <1>1 DEF NewFrame, Frame, IdleRead, ProcessManager
<1>3. /\ stack' \in Seq(Frame) /\ Depth' = Depth + 1 /\ stack' # << >>
      /\ Top' = f
      /\ stack'[Depth + 1] = f
      /\ \A k \in 1 .. Depth : stack'[k] = stack[k]
  BY <1>1, <1>2, PushProperties DEF ExecStart, Depth, Top
<1>4. f.call = call /\ f.pid = pm.next_pid
  BY DEF NewFrame
<1>5. /\ pm' \in ProcessManager
      /\ pm'.next_pid = Lesser(pm.next_pid + 1, MaxPid)
      /\ pm'.slots_in_use = pm.slots_in_use \cup {s}
  BY <1>1, SpawnSlotProperties DEF ExecStart
<1>6. PICK i \in FreeRecords(pm) :
        pm'.records = [pm.records EXCEPT ![i] =
                         [pid |-> pm.next_pid, slot_idx |-> s, state |-> "Running"]]
  <2>1. pm' = SpawnSlot(pm, s)
    BY DEF ExecStart
  <2>2. \E i \in FreeRecords(pm) :
          SpawnSlot(pm, s).records =
            [pm.records EXCEPT ![i] =
               [pid |-> pm.next_pid, slot_idx |-> s, state |-> "Running"]]
    BY <1>1, SpawnSlotProperties
  <2>3. QED
    BY <2>1, <2>2
<1>7. /\ Depth \in {0, 1}
      /\ Depth = 0 => /\ call = BootCall /\ pm.next_pid = 1
      /\ Depth = 1 => /\ stack[1].call = BootCall /\ stack[1].pid = 1
                      /\ pm.next_pid >= 2
  <2>1. CASE phase = "boot" /\ call = BootCall
    <3>1. stack = << >> /\ pm = NewProcessManager
      BY <2>1 DEF IInv, StackShape
    <3>2. QED
      BY <2>1, <3>1 DEF Depth, NewProcessManager
  <2>2. CASE phase = "user" /\ stack # << >> /\ Top.call.path \in Callers
    <3>1. Depth # 2
      BY <2>2 DEF IInv, StackShape, Callers, Top
    <3>2. Depth # 0
      BY <2>2, <1>1 DEF Depth
    <3>3. QED
      BY <2>2, <3>1, <3>2, <1>1 DEF IInv, StackShape
  <2>3. QED
    BY <2>1, <2>2
<1>8. Depth = 1 => call.path # InitPath
  BY <1>1, <1>7 DEF IInv, SlotsHeldByStack, CanSpawn, BootCall, PlainCall, ExecCall
<1>9. TypeOK'
  <2>1. IoFor(call.stdin, call.out) \in IoState
    <3>1. call.stdin.data \in Seq(Byte) /\ call.stdin.some \in BOOLEAN /\ call.out.some \in BOOLEAN
      BY DEF Call, StdinArg, StdoutArg
    <3>2. MaxIoStdin \in Nat
      BY ExecSizes
    <3>3. Truncate(call.stdin.data, MaxIoStdin) \in Seq(Byte)
      BY <3>1, <3>2, TruncateProperties, Zenon
    <3>4. << >> \in Seq(Byte)
      OBVIOUS
    <3>5. QED
      BY <3>1, <3>3, <3>4 DEF IoFor, IoState
  <2>2. QED
    BY <2>1, <1>3, <1>5 DEF IInv, TypeOK, ExecStart
<1>10. StackShape'
  <2>1. pm'.next_pid >= 2
    BY <1>1, <1>5, <1>7, ExecSizes DEF Lesser, ProcessManager, Pid
  <2>2. QED
    BY <2>1, <1>1, <1>3, <1>4, <1>7, <1>8 DEF IInv, StackShape
<1>11. SlotsHeldByStack'
  <2>1. \A j, k \in 1 .. Depth' : stack'[j].call.path = stack'[k].call.path => j = k
    BY <1>3, <1>4, <1>7, <1>8 DEF BootCall, PlainCall, ExecCall
  <2>2. {SlotForPath[stack'[k].call.path] : k \in 1 .. Depth'}
          = {SlotForPath[stack[k].call.path] : k \in 1 .. Depth} \cup {s}
    <3>1. 1 .. Depth' = (1 .. Depth) \cup {Depth + 1}
      BY <1>1, <1>3
    <3>2. SlotForPath[stack'[Depth + 1].call.path] = s
      BY <1>3, <1>4
    <3>3. \A k \in 1 .. Depth : stack'[k] = stack[k]
      BY <1>3
    <3>4. QED
      BY <3>1, <3>2, <3>3
  <2>3. QED
    BY <2>1, <2>2, <1>5 DEF IInv, SlotsHeldByStack
<1>12. RecordsMatchStack'
  <2>1. i \in RecIdx /\ pm.records[i].state = "Empty" /\ DOMAIN pm.records = RecIdx
    BY <1>1 DEF FreeRecords, ProcessManager
  <2>2. \A k \in 1 .. Depth : stack[k].pid # pm.next_pid
    BY <1>7
  <2>3. \A j \in RecIdx \ FreeRecords(pm) : pm.records[j].pid # pm.next_pid
    BY <2>2 DEF IInv, RecordsMatchStack
  <2>4. RunningAs(pm', pm.next_pid) = {i}
    BY <2>1, <2>3, <1>1, <1>6 DEF RunningAs, FreeRecords, ProcessManager, Record
  <2>5. \A k \in 1 .. Depth : RunningAs(pm', stack[k].pid) = RunningAs(pm, stack[k].pid)
    BY <2>1, <2>2, <1>6 DEF RunningAs
  <2>6. \A k \in 1 .. Depth' :
          \E j \in RecIdx : /\ RunningAs(pm', stack'[k].pid) = {j}
                            /\ pm'.records[j].slot_idx = SlotForPath[stack'[k].call.path]
    <3>1. SUFFICES ASSUME NEW k \in 1 .. Depth'
                   PROVE \E j \in RecIdx :
                           /\ RunningAs(pm', stack'[k].pid) = {j}
                           /\ pm'.records[j].slot_idx = SlotForPath[stack'[k].call.path]
      OBVIOUS
    <3>2. CASE k = Depth + 1
      BY <3>2, <2>1, <2>4, <1>3, <1>4, <1>6
    <3>3. CASE k \in 1 .. Depth
      <4>1. PICK j \in RecIdx : /\ RunningAs(pm, stack[k].pid) = {j}
                                /\ pm.records[j].slot_idx = SlotForPath[stack[k].call.path]
        BY <3>3 DEF IInv, RecordsMatchStack
      <4>2. j # i
        BY <4>1, <2>1 DEF RunningAs
      <4>3. QED
        BY <4>1, <4>2, <3>3, <2>1, <2>5, <1>3, <1>6
    <3>4. QED
      BY <3>2, <3>3, <1>1, <1>3
  <2>7. \A j \in RecIdx \ FreeRecords(pm') : \E k \in 1 .. Depth' : stack'[k].pid = pm'.records[j].pid
    <3>1. SUFFICES ASSUME NEW j \in RecIdx \ FreeRecords(pm')
                   PROVE \E k \in 1 .. Depth' : stack'[k].pid = pm'.records[j].pid
      OBVIOUS
    <3>2. CASE j = i
      BY <3>2, <2>1, <1>1, <1>3, <1>4, <1>6
    <3>3. CASE j # i
      <4>1. j \in RecIdx \ FreeRecords(pm) /\ pm'.records[j] = pm.records[j]
        BY <3>3, <2>1, <1>6 DEF FreeRecords
      <4>2. PICK k \in 1 .. Depth : stack[k].pid = pm.records[j].pid
        BY <4>1 DEF IInv, RecordsMatchStack
      <4>3. QED
        BY <4>1, <4>2, <1>1, <1>3
    <3>4. QED
      BY <3>2, <3>3
  <2>8. QED
    BY <2>6, <2>7 DEF RecordsMatchStack
<1>13. IoIsTops'
  <2>1. call.stdin.some => Truncate(call.stdin.data, MaxIoStdin) = call.stdin.data
    BY TruncateProperties, ExecSizes DEF Call, StdinArg
  <2>2. call.stdin.some \in BOOLEAN /\ call.out.some \in BOOLEAN
    BY DEF Call, StdinArg, StdoutArg
  <2>3. QED
    BY <2>1, <2>2, <1>3, <1>4 DEF IoIsTops, ExecStart, IoFor, StdinUnavailable
<1>14. QED
  BY <1>9, <1>10, <1>11, <1>12, <1>13 DEF IInv

\* What a refused exec finds and leaves: the caller is the boot loader or init,
\* and the slot and the record it took are given back, the pid it used up having
\* belonged to nobody.
LEMMA RefusalProperties ==
    ASSUME IInv, NEW call \in Call, ExecRefuse(call),
           \/ phase = "boot" /\ phase' = "halted"
           \/ /\ phase = "user" /\ phase' = "user"
              /\ stack # << >> /\ Top.call.path \in Callers
    PROVE  /\ /\ Depth \in {0, 1}
              /\ Depth = 0 => stack = << >> /\ pm.next_pid = 1 /\ phase' = "halted"
              /\ Depth = 1 => /\ stack[1].call = BootCall /\ stack[1].pid = 1
                              /\ pm.next_pid >= 2 /\ phase' = "user"
           /\ pm' \in ProcessManager /\ pm'.slots_in_use = pm.slots_in_use
           /\ pm'.next_pid \in {pm.next_pid, Lesser(pm.next_pid + 1, MaxPid)}
           /\ \A j \in RecIdx : \/ pm'.records[j] = pm.records[j]
                                \/ /\ pm'.records[j].state = "Empty"
                                   /\ pm.records[j].state = "Empty"
           /\ FreeRecords(pm') = FreeRecords(pm)
<1> DEFINE s == SlotForPath[call.path]
<1>1. Depth \in Nat /\ pm \in ProcessManager /\ stack \in Seq(Frame)
  BY DEF IInv, TypeOK, Depth
<1>2. /\ Depth \in {0, 1}
      /\ Depth = 0 => stack = << >> /\ pm.next_pid = 1 /\ phase' = "halted"
      /\ Depth = 1 => /\ stack[1].call = BootCall /\ stack[1].pid = 1
                      /\ pm.next_pid >= 2 /\ phase' = "user"
  <2>1. CASE phase = "boot" /\ phase' = "halted"
    <3>1. stack = << >> /\ pm = NewProcessManager
      BY <2>1 DEF IInv, StackShape
    <3>2. QED
      BY <2>1, <3>1 DEF Depth, NewProcessManager
  <2>2. CASE /\ phase = "user" /\ phase' = "user"
             /\ stack # << >> /\ Top.call.path \in Callers
    <3>1. Depth # 2
      BY <2>2 DEF IInv, StackShape, Callers, Top
    <3>2. Depth # 0
      BY <2>2, <1>1 DEF Depth
    <3>3. QED
      BY <2>2, <3>1, <3>2, <1>1 DEF IInv, StackShape
  <2>3. QED
    BY <2>1, <2>2
<1>3. /\ pm' \in ProcessManager /\ pm'.slots_in_use = pm.slots_in_use
      /\ pm'.next_pid \in {pm.next_pid, Lesser(pm.next_pid + 1, MaxPid)}
      /\ \A j \in RecIdx : \/ pm'.records[j] = pm.records[j]
                           \/ /\ pm'.records[j].state = "Empty"
                              /\ pm.records[j].state = "Empty"
  <2>1. CASE ~Executable(call)
    BY <2>1, <1>1 DEF ExecRefuse, PmAfterRefusal
  <2>2. CASE Executable(call)
    <3> DEFINE m == SpawnSlot(pm, s)
    <3>1. CanSpawn(pm, s) /\ pm' = Finish(m, pm.next_pid)
      BY <2>2 DEF Executable, ExecRefuse, PmAfterRefusal
    <3>2. /\ m \in ProcessManager
          /\ m.next_pid = Lesser(pm.next_pid + 1, MaxPid)
          /\ m.slots_in_use = pm.slots_in_use \cup {s}
      BY <1>1, <3>1, SpawnSlotProperties
    <3>3. PICK i \in FreeRecords(pm) :
            m.records = [pm.records EXCEPT ![i] =
                           [pid |-> pm.next_pid, slot_idx |-> s, state |-> "Running"]]
      BY <1>1, <3>1, SpawnSlotProperties
    <3> HIDE DEF m
    <3>4. i \in RecIdx /\ pm.records[i].state = "Empty" /\ DOMAIN pm.records = RecIdx
      BY <1>1 DEF FreeRecords, ProcessManager
    <3>5. \A j \in RecIdx \ FreeRecords(pm) : pm.records[j].pid # pm.next_pid
      BY <1>2 DEF IInv, RecordsMatchStack
    <3>6. RunningAs(m, pm.next_pid) = {i}
      BY <3>3, <3>4, <3>5, <1>1 DEF RunningAs, FreeRecords, ProcessManager, Record
    <3>7. m.records[i].slot_idx = s /\ s \notin pm.slots_in_use
      BY <3>1, <3>3, <3>4 DEF CanSpawn
    <3>8. /\ pm' \in ProcessManager
          /\ pm'.next_pid = m.next_pid
          /\ pm'.slots_in_use = m.slots_in_use \ {m.records[i].slot_idx}
          /\ pm'.records = [m.records EXCEPT ![i] = EmptyRecord]
      <4>1. pm.next_pid \in Pid
        BY <1>1 DEF ProcessManager
      <4>2. Finish(m, pm.next_pid) \in ProcessManager
        BY <3>2, <3>4, <3>6, <4>1, FinishProperties
      <4>3. Finish(m, pm.next_pid) =
              [next_pid |-> m.next_pid,
               slots_in_use |-> m.slots_in_use \ {m.records[i].slot_idx},
               records |-> [m.records EXCEPT ![i] = EmptyRecord]]
        <5>1. m \in ProcessManager /\ i \in RecIdx
          BY <3>2, <3>4
        <5>2. QED
          BY <5>1, <3>6, <4>1, FinishProperties, Zenon
      <4>4. pm' = [next_pid |-> m.next_pid,
                   slots_in_use |-> m.slots_in_use \ {m.records[i].slot_idx},
                   records |-> [m.records EXCEPT ![i] = EmptyRecord]]
        BY <4>3, <3>1, Zenon
      <4>5. pm' \in ProcessManager
        BY <4>2, <3>1, Zenon
      <4>6. QED
        BY <4>4, <4>5
    <3>9. pm'.slots_in_use = pm.slots_in_use
      BY <3>2, <3>7, <3>8
    <3>10. QED
      BY <3>2, <3>3, <3>4, <3>8, <3>9 DEF EmptyRecord
  <2>3. QED
    BY <2>1, <2>2
<1>4. FreeRecords(pm') = FreeRecords(pm)
  BY <1>3 DEF FreeRecords
<1>5. QED
  BY <1>2, <1>3, <1>4

\* A refused exec leaves the Running records, and so everything, as they were.
LEMMA ExecRefuseIInv ==
    ASSUME IInv, NEW call \in Call, ExecRefuse(call),
           \/ phase = "boot" /\ phase' = "halted"
           \/ /\ phase = "user" /\ phase' = "user"
              /\ stack # << >> /\ Top.call.path \in Callers
    PROVE  IInv'
<1>1. /\ stack' = stack /\ Depth' = Depth /\ Depth \in Nat
      /\ pm \in ProcessManager /\ stack \in Seq(Frame) /\ io' = IdleIo
  BY DEF IInv, TypeOK, Depth, ExecRefuse, ReleaseIo
<1>2. /\ Depth \in {0, 1}
      /\ Depth = 0 => stack = << >> /\ pm.next_pid = 1 /\ phase' = "halted"
      /\ Depth = 1 => /\ stack[1].call = BootCall /\ stack[1].pid = 1
                      /\ pm.next_pid >= 2 /\ phase' = "user"
  BY RefusalProperties
<1>3. /\ pm' \in ProcessManager /\ pm'.slots_in_use = pm.slots_in_use
      /\ pm'.next_pid \in {pm.next_pid, Lesser(pm.next_pid + 1, MaxPid)}
      /\ \A j \in RecIdx : \/ pm'.records[j] = pm.records[j]
                           \/ /\ pm'.records[j].state = "Empty"
                              /\ pm.records[j].state = "Empty"
  BY RefusalProperties
<1>4. FreeRecords(pm') = FreeRecords(pm) /\ \A pid : RunningAs(pm', pid) = RunningAs(pm, pid)
  BY <1>3 DEF FreeRecords, RunningAs
<1>5. TypeOK'
  <2>1. IdleIo \in IoState /\ [status |-> Failed, out |-> << >>] \in Result
    BY DEF IdleIo, IoState, Result, Status
  <2>2. QED
    BY <1>1, <1>3, <2>1 DEF IInv, TypeOK, ExecRefuse
<1>6. StackShape'
  <2>1. phase' # "boot" /\ (pm'.next_pid >= 2 \/ Depth = 0)
    BY <1>1, <1>2, <1>3, ExecSizes DEF Lesser, ProcessManager, Pid
  <2>2. QED
    <3>1. (Depth = 1 => phase' = "user") /\ (Depth = 0 => stack = << >>) /\ Depth # 2
      BY <1>2
    <3>2. /\ Depth >= 1 => stack[1].call = BootCall /\ stack[1].pid = 1
          /\ \A k \in 1 .. Depth : stack[k].call.path \in DOMAIN SlotForPath
      BY DEF IInv, StackShape
    <3>3. /\ phase' = "halted" => stack = << >>
          /\ phase' = "user" => pm'.next_pid >= 2
      BY <2>1, <1>2
    <3>4. QED
      BY <3>1, <3>2, <3>3, <2>1, <1>1, <1>2 DEF StackShape
<1>7. SlotsHeldByStack'
  BY <1>1, <1>3 DEF IInv, SlotsHeldByStack
<1>8. RecordsMatchStack'
  <2>1. \A j \in RecIdx \ FreeRecords(pm) : pm'.records[j] = pm.records[j]
    BY <1>3 DEF FreeRecords
  <2>2. \A pid : \A j \in RunningAs(pm, pid) : j \in RecIdx \ FreeRecords(pm)
    BY DEF RunningAs, FreeRecords
  <2>3. \A k \in 1 .. Depth :
          \E i \in RecIdx :
             /\ RunningAs(pm', stack[k].pid) = {i}
             /\ pm'.records[i].slot_idx = SlotForPath[stack[k].call.path]
    <3>1. SUFFICES ASSUME NEW k \in 1 .. Depth
                   PROVE \E i \in RecIdx :
                           /\ RunningAs(pm', stack[k].pid) = {i}
                           /\ pm'.records[i].slot_idx = SlotForPath[stack[k].call.path]
      OBVIOUS
    <3>2. PICK i \in RecIdx : /\ RunningAs(pm, stack[k].pid) = {i}
                              /\ pm.records[i].slot_idx = SlotForPath[stack[k].call.path]
      BY Zenon DEF IInv, RecordsMatchStack
    <3>3. i \in RecIdx \ FreeRecords(pm)
      BY <3>2, <2>2
    <3>4. pm'.records[i] = pm.records[i] /\ RunningAs(pm', stack[k].pid) = {i}
      BY <3>2, <3>3, <2>1, <1>4
    <3>5. QED
      BY <3>2, <3>4
  <2>4. \A i \in RecIdx \ FreeRecords(pm') :
          \E k \in 1 .. Depth : stack[k].pid = pm'.records[i].pid
    BY <2>1, <1>4 DEF IInv, RecordsMatchStack
  <2>5. QED
    BY <2>3, <2>4, <1>1 DEF RecordsMatchStack
<1>9. IoIsTops'
  <2>1. CASE Depth = 0
    BY <2>1, <1>1, <1>2 DEF IoIsTops
  <2>2. CASE Depth = 1
    <3>1. Top' = stack[1] /\ stack' # << >>
      <4>1. stack' = stack /\ Depth' = 1
        BY <2>2, <1>1
      <4>2. stack # << >>
        BY <2>2 DEF Depth
      <4>3. QED
        BY <4>1, <4>2 DEF Top
    <3>2. ~Top'.call.stdin.some /\ ~Top'.call.out.some
      BY <3>1, <2>2, <1>2 DEF BootCall, PlainCall, ExecCall, NoStdin, NoStdout
    <3>3. ~io'.active /\ ~io'.stdin_enabled /\ ~io'.stdout_capture
      BY <1>1 DEF IdleIo
    <3>4. QED
      BY <3>1, <3>2, <3>3 DEF IoIsTops, StdinUnavailable
  <2>3. QED
    BY <2>1, <2>2, <1>2
<1>10. QED
  BY <1>5, <1>6, <1>7, <1>8, <1>9 DEF IInv

\* The innermost program returns: its record and slot are given back, and
\* IO_STATE is idle, which is what init, below it, had.
LEMMA ReturnIInv ==
    ASSUME IInv, NEW code \in Nat, Return(code)
    PROVE  IInv'
<1>1. /\ stack \in Seq(Frame) /\ stack # << >> /\ Depth \in Nat /\ Depth >= 1
      /\ Depth <= 2 /\ pm \in ProcessManager /\ io' = IdleIo /\ stack' = Below
      /\ Top = stack[Depth] /\ Top \in Frame
  BY DEF IInv, TypeOK, StackShape, Depth, Return, InUser, ReleaseIo, Top
<1>2. /\ stack' \in Seq(Frame) /\ Depth' = Depth - 1
      /\ \A k \in 1 .. Depth - 1 : stack'[k] = stack[k]
  BY <1>1, PopProperties DEF Depth
<1>3. PICK i \in RecIdx : /\ RunningAs(pm, Top.pid) = {i}
                          /\ pm.records[i].slot_idx = SlotForPath[Top.call.path]
  <2>1. Depth \in 1 .. Depth
    BY <1>1
  <2>2. QED
    BY <2>1, <1>1, Zenon DEF IInv, RecordsMatchStack
<1>4. /\ pm' \in ProcessManager /\ pm'.next_pid = pm.next_pid
      /\ pm'.slots_in_use = pm.slots_in_use \ {SlotForPath[Top.call.path]}
      /\ pm'.records = [pm.records EXCEPT ![i] = EmptyRecord]
  <2>1. Top.pid \in Pid
    BY <1>1 DEF Frame
  <2>2. Finish(pm, Top.pid) \in ProcessManager
    BY <2>1, <1>1, <1>3, FinishProperties
  <2>3. Finish(pm, Top.pid) =
          [next_pid |-> pm.next_pid,
           slots_in_use |-> pm.slots_in_use \ {pm.records[i].slot_idx},
           records |-> [pm.records EXCEPT ![i] = EmptyRecord]]
    BY <2>1, <1>1, <1>3, FinishProperties
  <2>4. QED
    BY <2>2, <2>3, <1>3 DEF Return
<1>5. /\ phase = "user"
      /\ Depth = 1 => stack' = << >> /\ phase' = "halted"
      /\ Depth = 2 => /\ stack' # << >> /\ phase' = "user" /\ Top' = stack[1]
                      /\ stack[1].call = BootCall /\ stack[1].pid = 1 /\ Top.pid >= 2
  <2>1. phase = "user"
    BY <1>1 DEF IInv, StackShape, TypeOK
  <2>2. Depth = 1 => stack' = << >>
    BY <1>2 DEF Depth
  <2>3. Depth = 2 => stack' # << >> /\ Top' = stack[1]
    <3>1. SUFFICES ASSUME Depth = 2 PROVE stack' # << >> /\ Top' = stack[1]
      OBVIOUS
    <3>2. Depth' = 1 /\ stack'[1] = stack[1]
      BY <3>1, <1>2
    <3>3. stack' # << >>
      BY <3>2 DEF Depth
    <3>4. QED
      BY <3>2, <3>3 DEF Top
  <2>4. QED
    BY <2>1, <2>2, <2>3, <1>1 DEF IInv, StackShape, Return
<1>6. TypeOK'
  <2>1. Truncate(io.stdout, Top.call.out.cap) \in Seq(Byte)
    BY <1>1, TruncateProperties DEF IInv, TypeOK, IoState, Frame, Call, StdoutArg
  <2>2. result' \in Result
    BY <2>1 DEF Return, CopiedOut, Result, Status
  <2>3. io' \in IoState
    BY <1>1 DEF IdleIo, IoState
  <2>4. QED
    BY <2>2, <2>3, <1>1, <1>2, <1>4, <1>5 DEF TypeOK
<1>7. StackShape'
  BY <1>1, <1>2, <1>4, <1>5 DEF IInv, StackShape
<1>8. SlotsHeldByStack'
  <2>1. 1 .. Depth = (1 .. Depth - 1) \cup {Depth}
    BY <1>1
  <2>2. \A k \in 1 .. Depth - 1 : SlotForPath[stack[k].call.path] # SlotForPath[Top.call.path]
    BY <1>1, ExecPaths DEF IInv, StackShape, SlotsHeldByStack
  <2>3. {SlotForPath[stack[k].call.path] : k \in 1 .. Depth} \ {SlotForPath[Top.call.path]}
            = {SlotForPath[stack[k].call.path] : k \in 1 .. Depth - 1}
    BY <2>1, <2>2, <1>1
  <2>4. pm'.slots_in_use = {SlotForPath[stack'[k].call.path] : k \in 1 .. Depth'}
    <3>1. {SlotForPath[stack'[k].call.path] : k \in 1 .. Depth'}
              = {SlotForPath[stack[k].call.path] : k \in 1 .. Depth - 1}
      BY <1>2
    <3>2. pm.slots_in_use = {SlotForPath[stack[k].call.path] : k \in 1 .. Depth}
      BY DEF IInv, SlotsHeldByStack
    <3>3. QED
      BY <3>1, <3>2, <2>3, <1>4
  <2>5. QED
    BY <2>4, <1>1, <1>2 DEF IInv, SlotsHeldByStack
<1>9. RecordsMatchStack'
  <2>1. \A k \in 1 .. Depth - 1 : stack[k].pid # Top.pid
    BY <1>1, <1>5
  <2>2. \A k \in 1 .. Depth - 1 : RunningAs(pm', stack[k].pid) = RunningAs(pm, stack[k].pid)
    BY <2>1, <1>1, <1>3, <1>4 DEF RunningAs, EmptyRecord, ProcessManager
  <2>3. \A k \in 1 .. Depth - 1 :
          \E j \in RecIdx : /\ RunningAs(pm', stack[k].pid) = {j}
                            /\ pm'.records[j].slot_idx = SlotForPath[stack[k].call.path]
    <3>1. SUFFICES ASSUME NEW k \in 1 .. Depth - 1
                   PROVE \E j \in RecIdx :
                           /\ RunningAs(pm', stack[k].pid) = {j}
                           /\ pm'.records[j].slot_idx = SlotForPath[stack[k].call.path]
      OBVIOUS
    <3>2. PICK j \in RecIdx : /\ RunningAs(pm, stack[k].pid) = {j}
                              /\ pm.records[j].slot_idx = SlotForPath[stack[k].call.path]
      <4>1. k \in 1 .. Depth
        BY <1>1
      <4>2. QED
        BY <4>1, Zenon DEF IInv, RecordsMatchStack
    <3>3. j # i
      BY <3>2, <2>1, <1>3 DEF RunningAs
    <3>4. QED
      BY <3>2, <3>3, <2>2, <1>1, <1>4 DEF ProcessManager
  <2>4. \A j \in RecIdx \ FreeRecords(pm') : \E k \in 1 .. Depth - 1 : stack[k].pid = pm'.records[j].pid
    <3>1. SUFFICES ASSUME NEW j \in RecIdx \ FreeRecords(pm')
                   PROVE \E k \in 1 .. Depth - 1 : stack[k].pid = pm'.records[j].pid
      OBVIOUS
    <3>2. j # i /\ pm'.records[j] = pm.records[j] /\ j \in RecIdx \ FreeRecords(pm)
      BY <1>1, <1>4 DEF FreeRecords, EmptyRecord, ProcessManager
    <3>3. PICK k \in 1 .. Depth : stack[k].pid = pm.records[j].pid
      BY <3>2 DEF IInv, RecordsMatchStack
    <3>4. k # Depth
      <4>1. pm.records[j].state = "Running"
        BY <3>2, <1>1 DEF FreeRecords, ProcessManager, Record
      <4>2. QED
        BY <4>1, <3>2, <3>3, <1>1, <1>3 DEF RunningAs
    <3>5. QED
      BY <3>2, <3>3, <3>4, <1>1
  <2>5. /\ Depth' = Depth - 1
        /\ \A k \in 1 .. Depth - 1 : stack'[k] = stack[k]
    BY <1>2
  <2>6. \A k \in 1 .. Depth' :
          \E j \in RecIdx : /\ RunningAs(pm', stack'[k].pid) = {j}
                            /\ pm'.records[j].slot_idx = SlotForPath[stack'[k].call.path]
    BY <2>3, <2>5
  <2>7. \A j \in RecIdx \ FreeRecords(pm') :
          \E k \in 1 .. Depth' : stack'[k].pid = pm'.records[j].pid
    BY <2>4, <2>5
  <2>8. QED
    BY <2>6, <2>7, Zenon DEF RecordsMatchStack
<1>10. IoIsTops'
  <2>1. CASE Depth = 1
    BY <2>1, <1>1, <1>5 DEF IoIsTops
  <2>2. CASE Depth = 2
    <3>1. Top' = stack[1] /\ stack' # << >> /\ stack[1].call = BootCall
      BY <2>2, <1>2, <1>5 DEF Top
    <3>2. ~Top'.call.stdin.some /\ ~Top'.call.out.some
      BY <3>1 DEF BootCall, PlainCall, ExecCall, NoStdin, NoStdout
    <3>3. ~io'.active /\ ~io'.stdin_enabled /\ ~io'.stdout_capture
      BY <1>1 DEF IdleIo
    <3>4. QED
      BY <3>1, <3>2, <3>3 DEF IoIsTops, StdinUnavailable
  <2>3. QED
    BY <2>1, <2>2, <1>1
<1>11. QED
  BY <1>6, <1>7, <1>8, <1>9, <1>10 DEF IInv

-----------------------------------------------------------------------------
(* The step.                                                               *)

\* A call without redirection is a call.
LEMMA PlainCallType ==
    ASSUME NEW path \in Path
    PROVE  PlainCall(path) \in Call /\ ~PlainCall(path).stdin.some
  BY DEF PlainCall, ExecCall, Call, StdinArg, StdoutArg, NoStdin, NoStdout

\* ExecIo clamps what it is given to the kernel's buffers.
LEMMA IoCallType ==
    ASSUME NEW path \in Path, NEW in \in StdinArg, NEW out \in StdoutArg
    PROVE  LET call == ExecCall(path, StdinOf(in), StdoutOf(out), in.some)
           IN  /\ call \in Call
               /\ call.stdin.some => Len(call.stdin.data) <= MaxIoStdin
<1>1. /\ Truncate(in.data, MaxIoStdin) \in Seq(Byte)
      /\ Len(Truncate(in.data, MaxIoStdin)) = Lesser(Len(in.data), MaxIoStdin)
  BY TruncateProperties, ExecSizes DEF StdinArg
<1>2. Len(Truncate(in.data, MaxIoStdin)) <= MaxIoStdin
  BY <1>1, ExecSizes, LenProperties DEF StdinArg, Lesser
<1>3. /\ StdinOf(in) \in StdinArg
      /\ StdinOf(in).some => Len(StdinOf(in).data) <= MaxIoStdin
  BY <1>1, <1>2 DEF StdinOf, StdinArg, NoStdin
<1>4. StdoutOf(out) \in StdoutArg
  BY ExecSizes DEF StdoutOf, StdoutArg, NoStdout, Lesser
<1>5. QED
  BY <1>3, <1>4 DEF ExecCall, Call, StdinArg

\* An exec system call comes from init, so from the stack that holds only init.
LEMMA NestedExecIInv ==
    ASSUME IInv, NEW call \in Call, NestedExec(call),
           call.stdin.some => Len(call.stdin.data) <= MaxIoStdin
    PROVE  IInv'
<1>1. /\ stack # << >> /\ Top.call.path \in Callers
      /\ phase = "user" /\ phase' = "user"
  BY DEF NestedExec, InUser, IInv, TypeOK, StackShape
<1>2. CASE ExecStart(call)
  BY <1>1, <1>2, ExecStartIInv
<1>3. CASE ExecRefuse(call)
  BY <1>1, <1>3, ExecRefuseIInv
<1>4. QED
  BY <1>2, <1>3 DEF NestedExec

\* Counting a byte keeps the shape of the read in progress.
LEMMA CountedType ==
    ASSUME NEW rd \in [busy : BOOLEAN, len : Nat, count : Nat], NEW done \in BOOLEAN
    PROVE  Counted(rd, done) \in [busy : BOOLEAN, len : Nat, count : Nat]
<1> DEFINE more == rd.count + 1 < rd.len /\ ~done
<1>1. more \in BOOLEAN /\ rd.count + 1 \in Nat
  OBVIOUS
<1> HIDE DEF more
<1>2. [rd EXCEPT !.count = @ + 1, !.busy = more] \in [busy : BOOLEAN, len : Nat, count : Nat]
  BY <1>1, Zenon
<1>3. QED
  BY <1>2, Zenon DEF Counted, more

\* A step of the kernel under any programs: Next without the sets that bound the
\* inputs, so that it holds of programs which another module describes as well.
KernelStep ==
    \/ Boot
    \/ \E p \in Path : SysExecve(p)
    \/ \E p \in Path, in \in StdinArg, out \in StdoutArg : SysExecIo(p, in, out)
    \/ \E n \in Nat \ {0} : ReadBegin(n)
    \/ ReadByte
    \/ ReadEof
    \/ \E b \in Byte : ReadTyped(b)
    \/ \E d \in Seq(Byte) : Write(d)
    \/ \E c \in Nat : Return(c)
    \/ UNCHANGED vars

\* What programs are given to pass is of the type the system call takes.
LEMMA RequestTypes == StdinReqs \subseteq StdinArg /\ StdoutReqs \subseteq StdoutArg
<1>1. NoStdin \in StdinArg /\ NoStdout \in StdoutArg
  BY DEF StdinArg, StdoutArg, NoStdin, NoStdout
<1>2. ASSUME NEW d \in Stdins PROVE [some |-> TRUE, data |-> d] \in StdinArg
  BY ExecInputs DEF StdinArg
<1>3. ASSUME NEW c \in Caps PROVE [some |-> TRUE, cap |-> c] \in StdoutArg
  BY ExecInputs DEF StdoutArg
<1>4. QED
  BY <1>1, <1>2, <1>3 DEF StdinReqs, StdoutReqs

LEMMA NextIsKernelStep == [Next]_vars => KernelStep
<1> SUFFICES ASSUME Next PROVE KernelStep
  BY DEF KernelStep
<1>1. Halt => UNCHANGED vars
  BY DEF Halt
<1>2. QED
  BY <1>1, RequestTypes, ExecInputs DEF Next, KernelStep

\* Every step of the kernel preserves the invariant.
LEMMA StepIInv == IInv /\ KernelStep => IInv'
<1> SUFFICES ASSUME IInv, KernelStep PROVE IInv'
  OBVIOUS
<1>1. /\ stack # << >> => Top \in Frame
      /\ io \in IoState /\ stack \in Seq(Frame)
  BY DEF IInv, TypeOK, Top, Depth
<1>2. CASE Boot
  <2>1. PlainCall(InitPath) \in Call /\ ~PlainCall(InitPath).stdin.some
    BY PlainCallType, ExecInputs
  <2>2. CASE ExecStart(PlainCall(InitPath)) /\ phase' = "user"
    BY <1>2, <2>1, <2>2, ExecStartIInv DEF Boot, BootCall
  <2>3. CASE ExecRefuse(PlainCall(InitPath)) /\ phase' = "halted"
    BY <1>2, <2>1, <2>3, ExecRefuseIInv DEF Boot
  <2>4. QED
    BY <1>2, <2>2, <2>3 DEF Boot
<1>3. ASSUME NEW path \in Path, SysExecve(path) PROVE IInv'
  BY <1>3, PlainCallType, NestedExecIInv DEF SysExecve
<1>4. ASSUME NEW path \in Path, NEW in \in StdinArg, NEW out \in StdoutArg,
             SysExecIo(path, in, out)
      PROVE IInv'
  <2> DEFINE call == ExecCall(path, StdinOf(in), StdoutOf(out), in.some)
  <2>1. call \in Call /\ (call.stdin.some => Len(call.stdin.data) <= MaxIoStdin)
    BY IoCallType
  <2>2. NestedExec(call)
    BY <1>4 DEF SysExecIo
  <2> HIDE DEF call
  <2>3. QED
    BY <2>1, <2>2, NestedExecIInv
<1>5. ASSUME NEW n \in Nat \ {0}, ReadBegin(n) PROVE IInv'
  <2> DEFINE f == [Top EXCEPT !.rd = [busy |-> TRUE, len |-> n, count |-> 0]]
  <2>1. stack # << >> /\ UpdateTop(f) /\ UNCHANGED <<phase, pm, io, result>>
    BY <1>5 DEF ReadBegin, InUser
  <2>2. f \in Frame /\ f.call = Top.call /\ f.pid = Top.pid
    BY <1>1, <2>1, ExecInputs DEF Frame
  <2> HIDE DEF f
  <2>3. QED
    BY <1>1, <2>1, <2>2, UserStepIInv
<1>6. ASSUME ReadByte PROVE IInv'
  <2> DEFINE f == [Top EXCEPT !.got = Append(@, io.stdin[io.stdin_pos + 1]),
                             !.rd = Counted(@, FALSE)]
  <2>1. stack # << >> /\ UpdateTop(f) /\ UNCHANGED <<phase, pm, result>>
    BY <1>6 DEF ReadByte, Reading
  <2>2. io.stdin[io.stdin_pos + 1] \in Byte
    BY <1>1, <1>6 DEF ReadByte, StdinReady, IoState
  <2>3. Counted(Top.rd, FALSE) \in [busy : BOOLEAN, len : Nat, count : Nat]
    BY <1>1, <2>1, CountedType DEF Frame
  <2>4. f \in Frame /\ f.call = Top.call /\ f.pid = Top.pid
    BY <1>1, <2>1, <2>2, <2>3, AppendProperties DEF Frame
  <2>5. /\ io' \in IoState /\ io'.active = io.active
        /\ io'.stdin_enabled = io.stdin_enabled /\ io'.stdin = io.stdin
        /\ io'.stdout_capture = io.stdout_capture
    <3>1. io' = [io EXCEPT !.stdin_pos = @ + 1]
      BY <1>6 DEF ReadByte, AdvanceStdin
    <3>2. io \in IoState
      BY <1>1
    <3>3. QED
      BY <3>1, <3>2 DEF IoState
  <2> HIDE DEF f
  <2>6. QED
    BY <2>1, <2>4, <2>5, UserStepIInv, SMTT(30)
<1>7. ASSUME ReadEof PROVE IInv'
  <2> DEFINE f == [Top EXCEPT !.rd.busy = FALSE]
  <2>1. stack # << >> /\ UpdateTop(f) /\ UNCHANGED <<phase, pm, io, result>>
    BY <1>7 DEF ReadEof, Reading
  <2>2. f \in Frame /\ f.call = Top.call /\ f.pid = Top.pid
    BY <1>1, <2>1 DEF Frame
  <2> HIDE DEF f
  <2>3. QED
    BY <1>1, <2>1, <2>2, UserStepIInv
<1>8. ASSUME NEW b \in Byte, ReadTyped(b) PROVE IInv'
  <2> DEFINE f == [Top EXCEPT !.tty = TRUE, !.rd = Counted(@, b = Newline)]
  <2>1. stack # << >> /\ UpdateTop(f) /\ UNCHANGED <<phase, pm, io, result>>
    BY <1>8 DEF ReadTyped, Reading
  <2>2. Counted(Top.rd, b = Newline) \in [busy : BOOLEAN, len : Nat, count : Nat]
    BY <1>1, <2>1, CountedType DEF Frame
  <2>3. f \in Frame /\ f.call = Top.call /\ f.pid = Top.pid
    BY <1>1, <2>1, <2>2 DEF Frame
  <2> HIDE DEF f
  <2>4. QED
    BY <1>1, <2>1, <2>3, UserStepIInv
<1>9. ASSUME NEW d \in Seq(Byte), Write(d) PROVE IInv'
  <2> DEFINE history == IF Top.call.out.some THEN d ELSE << >>
  <2>1. stack # << >> /\ Top \in Frame /\ UNCHANGED <<phase, pm, result>>
    BY <1>1, <1>9 DEF Write, InUser
  <2>2. d \in Seq(Byte) /\ history \in Seq(Byte)
    BY ExecInputs
  <2>3. Top.wrote \o history \in Seq(Byte) /\ Top.shown \o history \in Seq(Byte)
    BY <2>1, <2>2, ConcatProperties DEF Frame
  <2>4. CASE /\ Capturing
             /\ io' = [io EXCEPT !.stdout = CapturedWith(d)]
             /\ UpdateTop([Top EXCEPT !.wrote = @ \o history])
    <3> DEFINE f == [Top EXCEPT !.wrote = @ \o history]
    <3>1. f \in Frame /\ f.call = Top.call /\ f.pid = Top.pid
      BY <2>1, <2>3 DEF Frame
    <3>2. MaxIoStdout - Len(io.stdout) \in Nat /\ io.stdout \in Seq(Byte)
      BY <1>1, <2>4, ExecSizes DEF Capturing, IoState
    <3>3. CapturedWith(d) \in Seq(Byte)
      BY <2>2, <3>2, TruncateProperties, ConcatProperties DEF CapturedWith
    <3>4. /\ io' \in IoState /\ io'.active = io.active
          /\ io'.stdin_enabled = io.stdin_enabled /\ io'.stdin = io.stdin
          /\ io'.stdout_capture = io.stdout_capture
      BY <1>1, <2>4, <3>3 DEF IoState
    <3>5. UpdateTop(f)
      BY <2>4
    <3> HIDE DEF f
    <3>6. QED
      BY <2>1, <3>1, <3>4, <3>5, UserStepIInv
  <2>5. CASE /\ ~Capturing
             /\ UpdateTop([Top EXCEPT !.wrote = @ \o history, !.shown = @ \o history])
             /\ UNCHANGED io
    <3> DEFINE f == [Top EXCEPT !.wrote = @ \o history, !.shown = @ \o history]
    <3>1. f \in Frame /\ f.call = Top.call /\ f.pid = Top.pid
      BY <2>1, <2>3 DEF Frame
    <3>2. UpdateTop(f)
      BY <2>5
    <3> HIDE DEF f
    <3>3. QED
      BY <1>1, <2>1, <2>5, <3>1, <3>2, UserStepIInv
  <2>6. QED
    BY <1>9, <2>4, <2>5 DEF Write
<1>10. ASSUME NEW c \in Nat, Return(c) PROVE IInv'
  BY <1>10, ReturnIInv
<1>11. CASE UNCHANGED vars
  <2>1. /\ phase' = phase /\ pm' = pm /\ io' = io /\ stack' = stack
        /\ result' = result
    BY <1>11 DEF vars
  <2>2. TypeOK'
    BY <2>1 DEF IInv, TypeOK
  <2>3. StackShape'
    BY <2>1 DEF IInv, StackShape, Depth
  <2>4. SlotsHeldByStack'
    BY <2>1 DEF IInv, SlotsHeldByStack, Depth
  <2>5. RecordsMatchStack'
    BY <2>1 DEF IInv, RecordsMatchStack, RunningAs, FreeRecords, Depth
  <2>6. IoIsTops'
    BY <2>1 DEF IInv, IoIsTops, StdinUnavailable, Top, Depth
  <2>7. QED
    BY <2>2, <2>3, <2>4, <2>5, <2>6 DEF IInv
<1>12. QED
  BY <1>2, <1>3, <1>4, <1>5, <1>6, <1>7, <1>8, <1>9, <1>10, <1>11 DEF KernelStep

-----------------------------------------------------------------------------
(* The theorems.                                                           *)

\* Boot, system calls, programs starting, returning and being refused all keep
\* the inductive invariant.
THEOREM Invariance == Spec => []IInv
  BY InitIInv, StepIInv, NextIsKernelStep, PTL DEF Spec

\* Every variable keeps the type the code declares, pids within their width
\* included.
THEOREM TypeCorrectness == Spec => []TypeOK
<1>1. IInv => TypeOK
  BY DEF IInv
<1>2. QED
  BY <1>1, Invariance, PTL

\* No slot is handed to two programs or kept by none, whatever the programs do
\* and however often the loader refuses one.
THEOREM SlotExclusion == Spec => []SlotsHeldByStack
<1>1. IInv => SlotsHeldByStack
  BY DEF IInv
<1>2. QED
  BY <1>1, Invariance, PTL

\* finish always finds the record of the program that returned and no other,
\* for any width of the pid counter that can tell two processes apart.
THEOREM RecordExactness == Spec => []RecordsMatchStack
<1>1. IInv => RecordsMatchStack
  BY DEF IInv
<1>2. QED
  BY <1>1, Invariance, PTL

\* The kernel never nests deeper than init and one program.
THEOREM BoundedNesting == Spec => []NestingBounded
<1>1. IInv => NestingBounded
  <2> SUFFICES ASSUME IInv PROVE NestingBounded
    OBVIOUS
  <2>2. Depth \in Nat
    BY DEF IInv, TypeOK, Depth
  <2>3. Depth > 0 => stack[1].call = BootCall
    BY <2>2 DEF IInv, StackShape
  <2>4. BootCall.path = InitPath
    BY DEF BootCall, PlainCall, ExecCall
  <2>5. Depth <= 2
    BY DEF IInv, StackShape
  <2>6. QED
    BY <2>3, <2>4, <2>5 DEF NestingBounded
<1>2. QED
  BY <1>1, Invariance, PTL

\* One global IO_STATE is enough: it is always set up for the running program.
THEOREM IoIsolation == Spec => []IoIsTops
<1>1. IInv => IoIsTops
  BY DEF IInv
<1>2. QED
  BY <1>1, Invariance, PTL

-----------------------------------------------------------------------------
(* Clamped copies.                                                         *)

\* A clamped copy agrees with its source as far as it goes.
LEMMA TruncateElements ==
    ASSUME NEW S, NEW s \in Seq(S), NEW n \in Nat
    PROVE  \A i \in 1 .. Lesser(Len(s), n) : Truncate(s, n)[i] = s[i]
<1>1. Len(s) \in Nat /\ Lesser(Len(s), n) \in 0 .. Len(s)
  BY LenProperties DEF Lesser
<1>2. \A i \in 1 .. Lesser(Len(s), n) : s[i] \in S
  BY <1>1, ElementOfSeq
<1>3. \A i \in 1 .. Lesser(Len(s), n) - 1 + 1 :
        SubSeq(s, 1, Lesser(Len(s), n))[i] = s[1 + i - 1]
  BY <1>1, <1>2, SubSeqProperties, Z3
<1>4. QED
  BY <1>1, <1>3 DEF Truncate

\* Clamping twice is clamping to the smaller bound.
LEMMA TruncateTwice ==
    ASSUME NEW S, NEW s \in Seq(S), NEW m \in Nat, NEW n \in Nat, n <= m
    PROVE  Truncate(Truncate(s, m), n) = Truncate(s, n)
<1> DEFINE t == Truncate(s, m)
<1>1. t \in Seq(S) /\ Len(t) = Lesser(Len(s), m) /\ Len(s) \in Nat
  BY TruncateProperties, LenProperties
<1>2. \A i \in 1 .. Lesser(Len(s), m) : t[i] = s[i]
  BY TruncateElements
<1> HIDE DEF t
<1>3. Truncate(t, n) \in Seq(S) /\ Len(Truncate(t, n)) = Lesser(Len(t), n)
  BY <1>1, TruncateProperties
<1>4. Truncate(s, n) \in Seq(S) /\ Len(Truncate(s, n)) = Lesser(Len(s), n)
  BY TruncateProperties
<1>5. /\ \A i \in 1 .. Lesser(Len(t), n) : Truncate(t, n)[i] = t[i]
      /\ \A i \in 1 .. Lesser(Len(s), n) : Truncate(s, n)[i] = s[i]
  BY <1>1, TruncateElements
<1>6. Lesser(Len(t), n) = Lesser(Len(s), n)
  BY <1>1 DEF Lesser
<1>7. \A i \in 1 .. Lesser(Len(s), n) : i \in 1 .. Lesser(Len(s), m)
  BY <1>1 DEF Lesser
<1>8. \A i \in 1 .. Len(Truncate(t, n)) : Truncate(t, n)[i] = Truncate(s, n)[i]
  BY <1>2, <1>3, <1>5, <1>6, <1>7
<1>9. QED
  BY <1>3, <1>4, <1>6, <1>8, SeqEqual DEF t

\* A prefix and the byte after it make the next prefix.
LEMMA TruncateNext ==
    ASSUME NEW S, NEW s \in Seq(S), NEW n \in Nat, n < Len(s)
    PROVE  Truncate(s, n + 1) = Append(Truncate(s, n), s[n + 1])
<1> DEFINE a == Truncate(s, n)
           b == Truncate(s, n + 1)
           c == Append(a, s[n + 1])
<1>1. Len(s) \in Nat /\ Lesser(Len(s), n) = n /\ Lesser(Len(s), n + 1) = n + 1
  BY LenProperties DEF Lesser
<1>2. s[n + 1] \in S
  BY <1>1, ElementOfSeq
<1>3. a \in Seq(S) /\ Len(a) = n /\ \A i \in 1 .. n : a[i] = s[i]
  BY <1>1, TruncateProperties, TruncateElements
<1>4. b \in Seq(S) /\ Len(b) = n + 1 /\ \A i \in 1 .. n + 1 : b[i] = s[i]
  BY <1>1, TruncateProperties, TruncateElements, SMTT(30)
<1> HIDE DEF a, b
<1>5. c \in Seq(S) /\ Len(c) = n + 1
  BY <1>2, <1>3, AppendProperties
<1>6. \A i \in 1 .. n : c[i] = a[i]
  BY <1>2, <1>3, AppendProperties
<1>7. c[n + 1] = s[n + 1]
  BY <1>2, <1>3, AppendProperties
<1>8. \A i \in 1 .. Len(b) : b[i] = c[i]
  BY <1>3, <1>4, <1>6, <1>7
<1> HIDE DEF c
<1>9. b = c
  BY <1>4, <1>5, <1>8, SeqEqual
<1>10. QED
  BY <1>9 DEF a, b, c

\* capture_stdout fills the room that is left: the buffer then holds the first
\* bytes of all that was written.
LEMMA TruncateConcat ==
    ASSUME NEW S, NEW s \in Seq(S), NEW d \in Seq(S), NEW n \in Nat
    PROVE  /\ Truncate(s \o d, n)
                  = Truncate(s, n) \o Truncate(d, n - Len(Truncate(s, n)))
           /\ Truncate(Truncate(s, n) \o d, n) = Truncate(s \o d, n)
<1> DEFINE kept == Truncate(s, n)
           room == n - Len(kept)
           all  == s \o d
<1>1. Len(s) \in Nat /\ Len(d) \in Nat
  BY LenProperties
<1>2. kept \in Seq(S) /\ Len(kept) = Lesser(Len(s), n) /\ Len(kept) \in Nat
  BY TruncateProperties, LenProperties
<1>3. \A i \in 1 .. Len(kept) : kept[i] = s[i]
  BY <1>2, TruncateElements
<1>4. /\ all \in Seq(S) /\ Len(all) = Len(s) + Len(d)
      /\ \A i \in 1 .. Len(s) + Len(d) :
            all[i] = IF i <= Len(s) THEN s[i] ELSE d[i - Len(s)]
  BY ConcatProperties
<1> HIDE DEF kept, all
<1>5. /\ Truncate(all, n) \in Seq(S) /\ Len(Truncate(all, n)) = Lesser(Len(all), n)
      /\ \A i \in 1 .. Lesser(Len(all), n) : Truncate(all, n)[i] = all[i]
  BY <1>4, TruncateProperties, TruncateElements
<1>6. room \in Nat
  BY <1>1, <1>2 DEF Lesser
<1>7. Truncate(all, n) = kept \o Truncate(d, room)
  <2> DEFINE more == Truncate(d, room)
             t == kept \o more
  <2>1. /\ more \in Seq(S) /\ Len(more) = Lesser(Len(d), room)
        /\ \A i \in 1 .. Lesser(Len(d), room) : more[i] = d[i]
    BY <1>6, TruncateProperties, TruncateElements
  <2> HIDE DEF more
  <2>2. /\ t \in Seq(S) /\ Len(t) = Len(kept) + Len(more)
        /\ \A i \in 1 .. Len(kept) + Len(more) :
              t[i] = IF i <= Len(kept) THEN kept[i] ELSE more[i - Len(kept)]
    BY <1>2, <2>1, ConcatProperties
  <2> HIDE DEF t
  <2>3. Len(t) = Lesser(Len(all), n)
    <3>1. \A a, b \in Nat :
            Lesser(a, n) + Lesser(b, n - Lesser(a, n)) = Lesser(a + b, n)
      BY DEF Lesser
    <3>2. QED
      BY <3>1, <1>1, <1>2, <1>4, <2>1, <2>2
  <2>4. ASSUME NEW i \in 1 .. Len(t) PROVE t[i] = all[i]
    <3>1. CASE i <= Len(kept)
      <4>1. t[i] = kept[i] /\ kept[i] = s[i]
        BY <3>1, <2>2, <1>2, <1>3
      <4>2. i <= Len(s) /\ i \in 1 .. Len(s) + Len(d)
        BY <3>1, <2>2, <1>1, <1>2 DEF Lesser
      <4>3. QED
        BY <4>1, <4>2, <1>4
    <3>2. CASE i > Len(kept)
      <4>1. Len(more) \in Nat /\ Len(more) # 0
        BY <3>2, <2>1, <2>2, <1>2, LenProperties
      <4>2. Len(kept) = Len(s)
        BY <4>1, <2>1, <1>1, <1>2 DEF Lesser
      <4>3. i - Len(s) \in 1 .. Lesser(Len(d), room)
        BY <3>2, <4>1, <4>2, <2>1, <2>2, <1>1
      <4>4. i \in 1 .. Len(s) + Len(d) /\ ~(i <= Len(s))
        BY <3>2, <4>2, <4>3, <1>1, <1>6 DEF Lesser
      <4>5. t[i] = more[i - Len(s)]
        BY <3>2, <2>2, <4>2
      <4>6. QED
        BY <4>3, <4>4, <4>5, <2>1, <1>4
    <3>3. QED
      BY <3>1, <3>2, <1>2
  <2>5. QED
    BY <1>5, <2>2, <2>3, <2>4, SeqEqual DEF t, more
<1>8. Truncate(kept \o d, n) = Truncate(all, n)
  <2> DEFINE t == kept \o d
  <2>1. /\ t \in Seq(S) /\ Len(t) = Len(kept) + Len(d)
        /\ \A i \in 1 .. Len(kept) + Len(d) :
              t[i] = IF i <= Len(kept) THEN kept[i] ELSE d[i - Len(kept)]
    BY <1>2, ConcatProperties
  <2> HIDE DEF t
  <2>2. /\ Truncate(t, n) \in Seq(S) /\ Len(Truncate(t, n)) = Lesser(Len(t), n)
        /\ \A i \in 1 .. Lesser(Len(t), n) : Truncate(t, n)[i] = t[i]
    BY <2>1, TruncateProperties, TruncateElements
  <2>3. Lesser(Len(t), n) = Lesser(Len(all), n)
    BY <1>1, <1>2, <1>4, <2>1 DEF Lesser
  <2>4. ASSUME NEW i \in 1 .. Lesser(Len(t), n) PROVE t[i] = all[i]
    <3>1. CASE i <= Len(kept)
      <4>1. i \in 1 .. Len(kept) /\ i \in 1 .. Len(kept) + Len(d)
        BY <3>1, <1>1, <1>2
      <4>2. t[i] = s[i]
        BY <4>1, <3>1, <2>1, <1>3
      <4>3. i <= Len(s) /\ i \in 1 .. Len(s) + Len(d)
        BY <4>1, <1>1, <1>2 DEF Lesser
      <4>4. QED
        BY <4>2, <4>3, <1>4
    <3>2. CASE i > Len(kept)
      <4>1. Len(kept) = Len(s) /\ i \in 1 .. Len(s) + Len(d) /\ ~(i <= Len(s))
        BY <3>2, <2>1, <1>1, <1>2 DEF Lesser
      <4>2. QED
        BY <4>1, <2>1, <1>4
    <3>3. QED
      BY <3>1, <3>2, <1>2
  <2>5. QED
    BY <1>5, <2>2, <2>3, <2>4, SeqEqual DEF t
<1>9. QED
  BY <1>7, <1>8 DEF kept, all

-----------------------------------------------------------------------------
(* The invariant.  What IO_STATE holds is tied to the history of the program *)
(* on top; a program that waits for another had no redirection, which is    *)
(* why nothing is lost when the program above it returns.                   *)

\* What a frame without redirection can't have in its history, and the clamp
\* ExecIo puts on its arguments.
FrameFits(f) ==
    /\ ~f.call.stdin.some => f.call.stdin.data = << >> /\ f.got = << >>
    /\ ~f.call.out.some => f.wrote = << >> /\ f.shown = << >>
    /\ f.call.out.some => f.call.out.cap <= MaxIoStdout

\* IO_STATE is where the running program's reads and writes have brought it.
IoFits(f, s) ==
    /\ s.stdin_pos <= Len(s.stdin)
    /\ ~f.call.stdin.some => s.stdin = << >>
    /\ f.got = Truncate(s.stdin, s.stdin_pos)
    /\ f.call.stdin.some => ~f.tty
    /\ f.call.stdin.some /\ ~f.rd.busy /\ f.rd.count < f.rd.len
          => s.stdin_pos = Len(s.stdin)
    /\ s.stdout = Truncate(f.wrote, MaxIoStdout)
    /\ f.shown # << >> => Len(s.stdout) = MaxIoStdout

IoHistory ==
    /\ \A k \in 1 .. Depth : FrameFits(stack[k])
    /\ stack # << >> => IoFits(Top, io)

IoInv == IInv /\ IoHistory

\* Nothing of a sequence is left by a clamp to zero, and nothing is lost from
\* the empty one.
LEMMA TruncateNothing ==
    /\ \A S : \A s \in Seq(S) : Truncate(s, 0) = << >>
    /\ \A n \in Nat : Truncate(<< >>, n) = << >>
<1>1. ASSUME NEW S, NEW s \in Seq(S) PROVE Truncate(s, 0) = << >>
  <2>1. Len(s) \in Nat
    BY LenProperties
  <2>2. Lesser(Len(s), 0) = 0
    BY <2>1 DEF Lesser
  <2>3. QED
    BY <2>2, SubSeqEmpty DEF Truncate
<1>2. ASSUME NEW n \in Nat PROVE Truncate(<< >>, n) = << >>
  <2>1. Lesser(Len(<< >>), n) = 0
    BY DEF Lesser
  <2>2. QED
    BY <2>1, SubSeqEmpty DEF Truncate
<1>3. QED
  BY <1>1, <1>2

\* An idle IO_STATE is what a program without redirection finds at any time.
LEMMA IdleFits ==
    ASSUME NEW f \in Frame, FrameFits(f), ~f.call.stdin.some, ~f.call.out.some
    PROVE  IoFits(f, IdleIo)
<1>1. f.got = << >> /\ f.wrote = << >> /\ f.shown = << >>
  BY DEF FrameFits
<1>2. Truncate(<< >>, 0) = << >> /\ Truncate(<< >>, MaxIoStdout) = << >>
  BY TruncateNothing, ExecSizes
<1>3. QED
  BY <1>1, <1>2 DEF IoFits, IdleIo

\* Nothing has been read or written at boot.
LEMMA InitIoInv == Init => IoInv
<1> SUFFICES ASSUME Init PROVE IoInv
  OBVIOUS
<1>1. IInv
  BY InitIInv
<1>2. stack = << >> /\ Depth = 0
  BY DEF Init, Depth
<1>3. QED
  BY <1>1, <1>2 DEF IoInv, IoHistory

\* A read or a write has to be accounted for in the frame on top only.
LEMMA UserStepIo ==
    ASSUME IoInv, stack # << >>, NEW f \in Frame, UpdateTop(f),
           FrameFits(f), IoFits(f, io')
    PROVE  IoHistory'
<1>1. stack \in Seq(Frame) /\ Depth \in Nat /\ Depth >= 1
  BY DEF IoInv, IInv, TypeOK, Depth
<1>2. /\ Depth' = Depth /\ stack' # << >> /\ Top' = f /\ stack'[Depth] = f
      /\ \A k \in 1 .. Depth : k # Depth => stack'[k] = stack[k]
  BY <1>1, UpdateTopProperties DEF Depth, Top
<1>3. \A k \in 1 .. Depth' : FrameFits(stack'[k])
  BY <1>1, <1>2 DEF IoInv, IoHistory
<1>4. QED
  BY <1>2, <1>3 DEF IoHistory

\* The arguments of exec_with_io are clamped by its callers.
CallFits(call) ==
    /\ ~call.stdin.some => call.stdin.data = << >>
    /\ call.stdin.some => Len(call.stdin.data) <= MaxIoStdin
    /\ call.out.some => call.out.cap <= MaxIoStdout

\* The two ways to call exec_with_io pass arguments that are.
LEMMA CallsFit ==
    /\ \A path \in Path : CallFits(PlainCall(path))
    /\ \A path \in Path, in \in StdinArg, out \in StdoutArg :
          CallFits(ExecCall(path, StdinOf(in), StdoutOf(out), in.some))
<1>1. ASSUME NEW path \in Path PROVE CallFits(PlainCall(path))
  BY DEF PlainCall, ExecCall, CallFits, NoStdin, NoStdout
<1>2. ASSUME NEW path \in Path, NEW in \in StdinArg, NEW out \in StdoutArg
      PROVE CallFits(ExecCall(path, StdinOf(in), StdoutOf(out), in.some))
  <2> DEFINE call == ExecCall(path, StdinOf(in), StdoutOf(out), in.some)
  <2>1. call.stdin.some => Len(call.stdin.data) <= MaxIoStdin
    BY IoCallType
  <2>2. call.stdin = StdinOf(in) /\ call.out = StdoutOf(out)
    BY DEF ExecCall
  <2>3. ~StdinOf(in).some => StdinOf(in).data = << >>
    BY DEF StdinOf, NoStdin
  <2>4. StdoutOf(out).some => StdoutOf(out).cap <= MaxIoStdout
    <3>1. \A c \in Nat : Lesser(c, MaxIoStdout) <= MaxIoStdout
      BY ExecSizes DEF Lesser
    <3>2. out.some => out.cap \in Nat
      BY DEF StdoutArg
    <3>3. QED
      BY <3>1, <3>2 DEF StdoutOf, NoStdout
  <2>5. QED
    BY <2>1, <2>2, <2>3, <2>4 DEF CallFits
<1>3. QED
  BY <1>1, <1>2

\* A program starts with its input unread and nothing captured; its caller now
\* waits with the history it had.
LEMMA ExecStartIo ==
    ASSUME IoInv, NEW call \in Call, CallFits(call), ExecStart(call)
    PROVE  IoHistory'
<1> DEFINE f == NewFrame(call, pm.next_pid)
<1>1. stack \in Seq(Frame) /\ Depth \in Nat /\ pm \in ProcessManager
  BY DEF IoInv, IInv, TypeOK, Depth
<1>2. f \in Frame
  BY <1>1 DEF NewFrame, Frame, IdleRead, ProcessManager
<1>3. /\ Depth' = Depth + 1 /\ stack' # << >> /\ Top' = f /\ stack'[Depth + 1] = f
      /\ \A k \in 1 .. Depth : stack'[k] = stack[k]
  BY <1>1, <1>2, PushProperties DEF ExecStart, Depth, Top
<1>4. FrameFits(f)
  BY DEF NewFrame, FrameFits, CallFits
<1>5. IoFits(f, io')
  <2>1. io' = IoFor(call.stdin, call.out)
    BY DEF ExecStart
  <2>2. io'.stdin \in Seq(Byte)
    <3>1. call.stdin.data \in Seq(Byte)
      BY DEF Call, StdinArg
    <3>2. Truncate(call.stdin.data, MaxIoStdin) \in Seq(Byte)
      BY <3>1, TruncateProperties, ExecSizes
    <3>3. QED
      BY <2>1, <3>2 DEF IoFor
  <2>3. /\ io'.stdin_pos = 0 /\ io'.stdout = << >>
        /\ ~call.stdin.some => io'.stdin = << >>
    BY <2>1 DEF IoFor
  <2>4. Truncate(io'.stdin, 0) = << >> /\ Truncate(<< >>, MaxIoStdout) = << >>
    BY <2>2, TruncateNothing, ExecSizes
  <2>5. 0 <= Len(io'.stdin)
    BY <2>2, LenProperties
  <2>6. /\ f.got = << >> /\ f.wrote = << >> /\ f.shown = << >> /\ f.call = call
        /\ f.tty = FALSE /\ f.rd.count = 0 /\ f.rd.len = 0
    BY DEF NewFrame, IdleRead
  <2> HIDE DEF f
  <2>7. QED
    BY <2>3, <2>4, <2>5, <2>6 DEF IoFits
<1>6. \A k \in 1 .. Depth' : FrameFits(stack'[k])
  BY <1>1, <1>3, <1>4 DEF IoInv, IoHistory
<1>7. QED
  BY <1>3, <1>5, <1>6 DEF IoHistory

\* Init, which makes every exec call and finds IO_STATE idle after it, has no
\* redirection of its own to lose.
LEMMA BootFrame ==
    ASSUME IInv, Depth >= 1
    PROVE  ~stack[1].call.stdin.some /\ ~stack[1].call.out.some
  BY DEF IInv, StackShape, BootCall, PlainCall, ExecCall, NoStdin, NoStdout

\* A refused exec leaves its caller, which has no redirection, on top.
LEMMA ExecRefuseIo ==
    ASSUME IoInv, NEW call \in Call, ExecRefuse(call),
           stack = << >> \/ Top.call.path \in Callers
    PROVE  IoHistory'
<1>1. stack' = stack /\ Depth' = Depth /\ io' = IdleIo
      /\ stack \in Seq(Frame) /\ Depth \in Nat
  BY DEF IoInv, IInv, TypeOK, Depth, ExecRefuse, ReleaseIo
<1>2. CASE stack = << >>
  BY <1>1, <1>2 DEF IoInv, IoHistory
<1>3. CASE stack # << >> /\ Top.call.path \in Callers
  <2>1. Depth = 1
    <3>1. Depth # 0
      BY <1>1, <1>3 DEF Depth
    <3>2. Depth # 2 /\ Depth <= 2
      BY <1>3 DEF IoInv, IInv, StackShape, Callers, Top
    <3>3. QED
      BY <3>1, <3>2, <1>1
  <2>2. /\ Top' = stack[1] /\ stack[1] \in Frame
        /\ FrameFits(stack[1]) /\ ~stack[1].call.stdin.some /\ ~stack[1].call.out.some
    BY <1>1, <2>1, BootFrame DEF IoInv, IoHistory, Top, Depth
  <2>3. IoFits(Top', io')
    BY <2>2, <1>1, IdleFits
  <2>4. QED
    BY <1>1, <2>3 DEF IoInv, IoHistory
<1>4. QED
  BY <1>2, <1>3

\* A return uncovers the caller, likewise.
LEMMA ReturnIo ==
    ASSUME IoInv, NEW code, Return(code)
    PROVE  IoHistory'
<1>1. /\ stack \in Seq(Frame) /\ stack # << >> /\ Depth \in 1 .. 2
      /\ io' = IdleIo /\ stack' = Below
  <2>1. stack \in Seq(Frame) /\ stack # << >> /\ io' = IdleIo /\ stack' = Below
    BY DEF IoInv, IInv, TypeOK, Return, InUser, ReleaseIo
  <2>2. Depth \in Nat /\ Depth # 0
    BY <2>1 DEF Depth
  <2>3. Depth <= 2
    BY DEF IoInv, IInv, StackShape
  <2>4. QED
    BY <2>1, <2>2, <2>3
<1>2. /\ Depth' = Depth - 1 /\ stack' \in Seq(Frame)
      /\ \A k \in 1 .. Depth - 1 : stack'[k] = stack[k]
  BY <1>1, PopProperties DEF Depth
<1>3. \A k \in 1 .. Depth' : FrameFits(stack'[k])
  BY <1>1, <1>2 DEF IoInv, IoHistory
<1>4. ASSUME stack' # << >> PROVE IoFits(Top', io')
  <2>1. Depth = 2
    BY <1>1, <1>2, <1>4 DEF Depth
  <2>2. Top' = stack[1] /\ stack[1] \in Frame /\ FrameFits(stack[1])
    BY <1>1, <1>2, <2>1 DEF Top, Depth, IoInv, IoHistory
  <2>3. ~stack[1].call.stdin.some /\ ~stack[1].call.out.some
    BY <2>1, BootFrame DEF IoInv
  <2>4. QED
    BY <1>1, <2>2, <2>3, IdleFits
<1>5. QED
  BY <1>3, <1>4 DEF IoHistory

-----------------------------------------------------------------------------
(* The system calls of the running program.                                *)

\* What the invariant says of the frame on top.
LEMMA TopFacts ==
    ASSUME IoInv, stack # << >>
    PROVE  /\ Top \in Frame /\ io \in IoState /\ FrameFits(Top) /\ IoFits(Top, io)
           /\ StdinUnavailable <=> ~Top.call.stdin.some
           /\ Top.call.stdin.some => io.stdin = Top.call.stdin.data
           /\ io.active /\ io.stdout_capture <=> Top.call.out.some
<1>1. stack \in Seq(Frame) /\ Depth \in Nat /\ Depth # 0
  BY DEF IoInv, IInv, TypeOK, Depth
<1>2. Depth \in 1 .. Depth
  BY <1>1
<1>3. Top \in Frame /\ FrameFits(Top)
  BY <1>1, <1>2, ElementOfSeq DEF IoInv, IoHistory, Top, Depth
<1>4. QED
  BY <1>3 DEF IoInv, IInv, TypeOK, IoHistory, IoIsTops

\* A read that begins moves nothing.
LEMMA ReadBeginIo ==
    ASSUME IoInv, NEW n \in Nat \ {0}, ReadBegin(n)
    PROVE  IoHistory'
<1> DEFINE f == [Top EXCEPT !.rd = [busy |-> TRUE, len |-> n, count |-> 0]]
<1>1. stack # << >> /\ UpdateTop(f) /\ io' = io
  BY DEF ReadBegin, InUser
<1>2. Top \in Frame /\ FrameFits(Top) /\ IoFits(Top, io)
  BY <1>1, TopFacts
<1>3. /\ f \in Frame /\ f.call = Top.call /\ f.got = Top.got /\ f.tty = Top.tty
      /\ f.wrote = Top.wrote /\ f.shown = Top.shown /\ f.rd.busy = TRUE
  BY <1>2, ExecInputs DEF Frame
<1> HIDE DEF f
<1>4. FrameFits(f) /\ IoFits(f, io')
  BY <1>1, <1>2, <1>3 DEF FrameFits, IoFits
<1>5. QED
  BY <1>1, <1>3, <1>4, UserStepIo

\* A byte taken from the redirected input is the next one its caller supplied,
\* and a read that has its bytes is a full one.
LEMMA ReadByteIo ==
    ASSUME IoInv, ReadByte
    PROVE  IoHistory'
<1> DEFINE b == io.stdin[io.stdin_pos + 1]
           f == [Top EXCEPT !.got = Append(@, b), !.rd = Counted(@, FALSE)]
<1>1. /\ stack # << >> /\ UpdateTop(f) /\ io' = [io EXCEPT !.stdin_pos = @ + 1]
      /\ ~StdinUnavailable /\ io.stdin_pos < Len(io.stdin)
  BY DEF ReadByte, Reading, StdinReady, AdvanceStdin
<1>2. /\ Top \in Frame /\ io \in IoState /\ FrameFits(Top) /\ IoFits(Top, io)
      /\ Top.call.stdin.some
  BY <1>1, TopFacts
<1>3. /\ io.stdin \in Seq(Byte) /\ io.stdin_pos \in Nat /\ Len(io.stdin) \in Nat
      /\ b \in Byte
  BY <1>1, <1>2, ElementOfSeq, LenProperties DEF IoState
<1>4. /\ io'.stdin = io.stdin /\ io'.stdin_pos = io.stdin_pos + 1
      /\ io'.stdout = io.stdout
  BY <1>1, <1>2 DEF IoState
<1>5. /\ Counted(Top.rd, FALSE) \in [busy : BOOLEAN, len : Nat, count : Nat]
      /\ Counted(Top.rd, FALSE).busy <=> Counted(Top.rd, FALSE).count < Counted(Top.rd, FALSE).len
  <2>1. Top.rd \in [busy : BOOLEAN, len : Nat, count : Nat]
    BY <1>2 DEF Frame
  <2>2. /\ Counted(Top.rd, FALSE).count = Top.rd.count + 1
        /\ Counted(Top.rd, FALSE).len = Top.rd.len
        /\ Counted(Top.rd, FALSE).busy <=> Top.rd.count + 1 < Top.rd.len
    BY <2>1 DEF Counted
  <2>3. QED
    BY <2>1, <2>2, CountedType
<1>6. Append(Top.got, b) \in Seq(Byte)
  BY <1>2, <1>3, AppendProperties DEF Frame
<1>7. /\ f \in Frame /\ f.call = Top.call /\ f.got = Append(Top.got, b) /\ f.tty = Top.tty
      /\ f.wrote = Top.wrote /\ f.shown = Top.shown /\ f.rd = Counted(Top.rd, FALSE)
  BY <1>2, <1>5, <1>6 DEF Frame
<1>8. Append(Top.got, b) = Truncate(io.stdin, io.stdin_pos + 1)
  BY <1>1, <1>2, <1>3, TruncateNext DEF IoFits
<1>9. io.stdin_pos + 1 <= Len(io.stdin)
  BY <1>1, <1>3
<1> HIDE DEF f, b
<1>10. FrameFits(f) /\ IoFits(f, io')
  BY <1>2, <1>4, <1>5, <1>7, <1>8, <1>9 DEF FrameFits, IoFits
<1>11. QED
  BY <1>1, <1>7, <1>10, UserStepIo

\* A read cut short is one that found the end of the input.
LEMMA ReadEofIo ==
    ASSUME IoInv, ReadEof
    PROVE  IoHistory'
<1> DEFINE f == [Top EXCEPT !.rd.busy = FALSE]
<1>1. stack # << >> /\ UpdateTop(f) /\ io' = io /\ io.stdin_pos >= Len(io.stdin)
  BY DEF ReadEof, Reading, StdinEof
<1>2. Top \in Frame /\ FrameFits(Top) /\ IoFits(Top, io) /\ io \in IoState
  BY <1>1, TopFacts
<1>3. io.stdin_pos = Len(io.stdin)
  BY <1>1, <1>2, LenProperties DEF IoFits, IoState
<1>4. /\ f \in Frame /\ f.call = Top.call /\ f.got = Top.got /\ f.tty = Top.tty
      /\ f.wrote = Top.wrote /\ f.shown = Top.shown
  BY <1>2 DEF Frame
<1> HIDE DEF f
<1>5. FrameFits(f) /\ IoFits(f, io')
  BY <1>1, <1>2, <1>3, <1>4 DEF FrameFits, IoFits
<1>6. QED
  BY <1>1, <1>4, <1>5, UserStepIo

\* A typed byte goes only to a program whose input is not redirected.
LEMMA ReadTypedIo ==
    ASSUME IoInv, NEW b \in Byte, ReadTyped(b)
    PROVE  IoHistory'
<1> DEFINE f == [Top EXCEPT !.tty = TRUE, !.rd = Counted(@, b = Newline)]
<1>1. stack # << >> /\ UpdateTop(f) /\ io' = io /\ StdinUnavailable
  BY DEF ReadTyped, Reading
<1>2. Top \in Frame /\ FrameFits(Top) /\ IoFits(Top, io) /\ ~Top.call.stdin.some
  BY <1>1, TopFacts
<1>3. Counted(Top.rd, b = Newline) \in [busy : BOOLEAN, len : Nat, count : Nat]
  BY <1>2, CountedType DEF Frame
<1>4. /\ f \in Frame /\ f.call = Top.call /\ f.got = Top.got
      /\ f.wrote = Top.wrote /\ f.shown = Top.shown
  BY <1>2, <1>3 DEF Frame
<1> HIDE DEF f
<1>5. FrameFits(f) /\ IoFits(f, io')
  BY <1>1, <1>2, <1>4 DEF FrameFits, IoFits
<1>6. QED
  BY <1>1, <1>4, <1>5, UserStepIo

\* What fits of a write is captured, and only a full buffer lets one through to
\* the terminal.
LEMMA WriteIo ==
    ASSUME IoInv, NEW d \in Seq(Byte), Write(d)
    PROVE  IoHistory'
<1> DEFINE history == IF Top.call.out.some THEN d ELSE << >>
<1>1. stack # << >>
  BY DEF Write, InUser
<1>2. /\ Top \in Frame /\ io \in IoState /\ FrameFits(Top) /\ IoFits(Top, io)
      /\ io.active /\ io.stdout_capture <=> Top.call.out.some
  BY <1>1, TopFacts
<1>3. /\ Top.wrote \in Seq(Byte) /\ Top.shown \in Seq(Byte) /\ d \in Seq(Byte)
      /\ history \in Seq(Byte) /\ MaxIoStdout \in Nat
  BY <1>2, ExecInputs, ExecSizes DEF Frame
<1>4. /\ io.stdout = Truncate(Top.wrote, MaxIoStdout)
      /\ Len(io.stdout) \in Nat /\ Len(io.stdout) <= MaxIoStdout
  <2>1. io.stdout = Truncate(Top.wrote, MaxIoStdout)
    BY <1>2 DEF IoFits
  <2>2. Len(io.stdout) = Lesser(Len(Top.wrote), MaxIoStdout) /\ Len(Top.wrote) \in Nat
    BY <2>1, <1>3, TruncateProperties, LenProperties
  <2>3. QED
    BY <2>1, <2>2, <1>3 DEF Lesser
<1>5. Truncate(Top.wrote \o d, MaxIoStdout)
         = Truncate(Top.wrote, MaxIoStdout)
              \o Truncate(d, MaxIoStdout - Len(Truncate(Top.wrote, MaxIoStdout)))
  BY <1>3, TruncateConcat, ZenonT(30)
<1>6. CASE /\ Capturing
           /\ io' = [io EXCEPT !.stdout = CapturedWith(d)]
           /\ UpdateTop([Top EXCEPT !.wrote = @ \o history])
  <2> DEFINE f == [Top EXCEPT !.wrote = @ \o history]
  <2>1. Top.call.out.some /\ Len(io.stdout) < MaxIoStdout
    BY <1>2, <1>6 DEF Capturing
  <2>2. CapturedWith(d) = Truncate(Top.wrote \o d, MaxIoStdout)
    BY <1>4, <1>5 DEF CapturedWith
  <2>3. /\ io'.stdin = io.stdin /\ io'.stdin_pos = io.stdin_pos
        /\ io'.stdout = CapturedWith(d)
    BY <1>2, <1>6 DEF IoState
  <2>4. Top.wrote \o d \in Seq(Byte)
    BY <1>3, ConcatProperties
  <2>5. /\ f \in Frame /\ f.call = Top.call /\ f.got = Top.got /\ f.tty = Top.tty
        /\ f.rd = Top.rd /\ f.wrote = Top.wrote \o d /\ f.shown = Top.shown
    BY <1>2, <2>1, <2>4 DEF Frame
  <2>6. Top.shown = << >>
    BY <1>2, <1>4, <2>1 DEF IoFits
  <2> HIDE DEF f
  <2>7. FrameFits(f) /\ IoFits(f, io')
    BY <1>2, <2>1, <2>2, <2>3, <2>5, <2>6 DEF FrameFits, IoFits
  <2>8. UpdateTop(f)
    BY <1>6 DEF f
  <2>9. QED
    BY <1>1, <2>5, <2>7, <2>8, UserStepIo
<1>7. CASE /\ ~Capturing
           /\ UpdateTop([Top EXCEPT !.wrote = @ \o history, !.shown = @ \o history])
           /\ UNCHANGED io
  <2> DEFINE f == [Top EXCEPT !.wrote = @ \o history, !.shown = @ \o history]
  <2>1. Top.wrote \o history \in Seq(Byte) /\ Top.shown \o history \in Seq(Byte)
    BY <1>3, ConcatProperties
  <2>2. /\ f \in Frame /\ f.call = Top.call /\ f.got = Top.got /\ f.tty = Top.tty
        /\ f.rd = Top.rd /\ f.wrote = Top.wrote \o history
        /\ f.shown = Top.shown \o history
    BY <1>2, <2>1 DEF Frame
  <2>3. FrameFits(f) /\ IoFits(f, io')
    <3>1. CASE ~Top.call.out.some
      <4>1. history = << >> /\ Top.wrote = << >> /\ Top.shown = << >>
        BY <3>1, <1>2 DEF FrameFits
      <4>2. f.wrote = << >> /\ f.shown = << >>
        BY <4>1, <2>2, <1>3, ConcatEmptySeq
      <4> HIDE DEF f
      <4>3. QED
        BY <3>1, <4>1, <4>2, <2>2, <1>2, <1>7 DEF FrameFits, IoFits
    <3>2. CASE Top.call.out.some
      <4>1. Len(io.stdout) = MaxIoStdout
        BY <3>2, <1>2, <1>3, <1>4, <1>7 DEF Capturing
      <4>2. Truncate(Top.wrote \o d, MaxIoStdout) = io.stdout \o Truncate(d, 0)
        <5>1. MaxIoStdout - Len(io.stdout) = 0
          BY <4>1, <1>3
        <5>2. QED
          BY <5>1, <1>4, <1>5
      <4>3. io.stdout \o Truncate(d, 0) = io.stdout
        <5>1. Truncate(d, 0) = << >>
          BY <1>3, TruncateNothing
        <5>2. io.stdout \in Seq(Byte)
          BY <1>2 DEF IoState
        <5>3. QED
          BY <5>1, <5>2, ConcatEmptySeq
      <4>4. history = d
        BY <3>2
      <4> HIDE DEF f, history
      <4>5. QED
        BY <3>2, <4>1, <4>2, <4>3, <4>4, <2>2, <1>2, <1>7 DEF FrameFits, IoFits
    <3>3. QED
      BY <3>1, <3>2
  <2> HIDE DEF f
  <2>4. UpdateTop(f)
    BY <1>7 DEF f
  <2>5. QED
    BY <1>1, <2>2, <2>3, <2>4, UserStepIo
<1>8. QED
  BY <1>6, <1>7 DEF Write

\* Every step of the kernel preserves the invariant.
LEMMA StepIoInv == IoInv /\ KernelStep => IoInv'
<1> SUFFICES ASSUME IoInv, KernelStep PROVE IoHistory'
  BY StepIInv DEF IoInv
<1>1. CASE Boot
  <2>1. /\ PlainCall(InitPath) \in Call /\ CallFits(PlainCall(InitPath))
        /\ stack = << >>
    BY <1>1, PlainCallType, CallsFit, ExecInputs DEF Boot, IoInv, IInv, StackShape
  <2>2. QED
    BY <1>1, <2>1, ExecStartIo, ExecRefuseIo DEF Boot
<1>2. ASSUME NEW call \in Call, CallFits(call), NestedExec(call) PROVE IoHistory'
  BY <1>2, ExecStartIo, ExecRefuseIo DEF NestedExec
<1>3. ASSUME NEW path \in Path, SysExecve(path) PROVE IoHistory'
  BY <1>2, <1>3, PlainCallType, CallsFit DEF SysExecve
<1>4. ASSUME NEW path \in Path, NEW in \in StdinArg, NEW out \in StdoutArg,
             SysExecIo(path, in, out)
      PROVE IoHistory'
  <2> DEFINE call == ExecCall(path, StdinOf(in), StdoutOf(out), in.some)
  <2>1. call \in Call /\ CallFits(call)
    BY IoCallType, CallsFit
  <2>2. NestedExec(call)
    BY <1>4 DEF SysExecIo
  <2> HIDE DEF call
  <2>3. QED
    BY <1>2, <2>1, <2>2
<1>5. ASSUME NEW d \in Seq(Byte), Write(d) PROVE IoHistory'
  BY <1>5, WriteIo
<1>6. CASE UNCHANGED vars
  BY <1>6 DEF vars, IoInv, IoHistory, Depth, Top
<1>7. QED
  BY <1>1, <1>3, <1>4, <1>5, <1>6, ReadBeginIo, ReadByteIo, ReadEofIo, ReadTypedIo,
     ReturnIo DEF KernelStep

-----------------------------------------------------------------------------
(* The theorems.                                                           *)

\* IO_STATE and the history of the running program agree at all times.
THEOREM IoInvariance == Spec => []IoInv
  BY InitIoInv, StepIoInv, NextIsKernelStep, PTL DEF Spec

\* A program reads the bytes its caller supplied, from the first on, in order,
\* none twice and no typed one among them, however its reads are cut.
THEOREM InOrderDelivery == Spec => []StdinDeliveredInOrder
<1>1. IoInv => StdinDeliveredInOrder
  <2> SUFFICES ASSUME IoInv, stack # << >>, Top.call.stdin.some
               PROVE  Top.got = Truncate(Top.call.stdin.data, io.stdin_pos) /\ ~Top.tty
    BY DEF StdinDeliveredInOrder
  <2>1. QED
    BY TopFacts DEF IoFits
<1>2. QED
  BY <1>1, IoInvariance, PTL

\* The short count at which cat, tee and sed stop is never an early one.
THEOREM ShortReads == Spec => []ShortReadOnlyAtEof
<1>1. IoInv => ShortReadOnlyAtEof
  <2> SUFFICES ASSUME IoInv, stack # << >>, Top.call.stdin.some, ~Top.rd.busy,
                      Top.rd.count < Top.rd.len
               PROVE  StdinEof
    BY DEF ShortReadOnlyAtEof
  <2>1. ~StdinUnavailable /\ io.stdin_pos = Len(io.stdin) /\ io.stdin_pos \in Nat
    BY TopFacts DEF IoFits, IoState
  <2>2. QED
    BY <2>1 DEF StdinEof
<1>2. QED
  BY <1>1, IoInvariance, PTL

\* The capture buffer holds the first MAX_IO_STDOUT bytes of what the program
\* wrote, for any size of the buffer and of the writes.
THEOREM CaptureExact == Spec => []CaptureIsPrefix
<1>1. IoInv => CaptureIsPrefix
  <2> SUFFICES ASSUME IoInv, stack # << >>
               PROVE  /\ io.stdout = Truncate(Top.wrote, MaxIoStdout)
                      /\ Top.shown # << >> => Len(io.stdout) = MaxIoStdout
    BY DEF CaptureIsPrefix
  <2>1. QED
    BY TopFacts DEF IoFits
<1>2. QED
  BY <1>1, IoInvariance, PTL

-----------------------------------------------------------------------------
(* What a step may do to the stack and the process table.                  *)

\* A step pushes a frame, pops one, is a refused exec, or works for the program
\* on top and leaves the process table alone.
LEMMA StepShapes ==
    ASSUME IInv, KernelStep
    PROVE  \/ Len(stack') = Depth + 1
           \/ Len(stack') = Depth - 1 /\ \E c \in Nat : Return(c)
           \/ /\ Len(stack') = Depth
              /\ pm'.slots_in_use = pm.slots_in_use
              /\ FreeRecords(pm') = FreeRecords(pm)
<1>1. stack \in Seq(Frame) /\ Depth \in Nat /\ pm \in ProcessManager
  BY DEF IInv, TypeOK, Depth
<1>2. ASSUME NEW call \in Call, ExecStart(call) PROVE Len(stack') = Depth + 1
  <2>1. NewFrame(call, pm.next_pid) \in Frame
    BY <1>1 DEF NewFrame, Frame, IdleRead, ProcessManager
  <2>2. QED
    BY <1>1, <1>2, <2>1, PushProperties DEF ExecStart, Depth
<1>3. ASSUME UNCHANGED pm, stack # << >>, \E f : UpdateTop(f)
      PROVE /\ Len(stack') = Depth
            /\ pm'.slots_in_use = pm.slots_in_use
            /\ FreeRecords(pm') = FreeRecords(pm)
  <2>1. PICK f : stack' = [stack EXCEPT ![Depth] = f]
    BY <1>3 DEF UpdateTop
  <2>2. Len(stack') = Depth
    BY <2>1, <1>1 DEF Depth
  <2>3. QED
    BY <2>2, <1>3
<1>4. CASE Boot
  <2>1. PlainCall(InitPath) \in Call
    BY PlainCallType, ExecInputs
  <2>2. CASE ExecStart(PlainCall(InitPath))
    BY <2>1, <2>2, <1>2
  <2>3. CASE ExecRefuse(PlainCall(InitPath)) /\ phase' = "halted"
    BY <1>4, <2>1, <2>3, RefusalProperties DEF Boot, ExecRefuse, Depth
  <2>4. QED
    BY <1>4, <2>2, <2>3 DEF Boot
<1>5. ASSUME NEW call \in Call, NestedExec(call)
      PROVE \/ Len(stack') = Depth + 1
            \/ /\ Len(stack') = Depth
               /\ pm'.slots_in_use = pm.slots_in_use
               /\ FreeRecords(pm') = FreeRecords(pm)
  <2>1. /\ stack # << >> /\ Top.call.path \in Callers
        /\ phase = "user" /\ phase' = "user"
    BY <1>5 DEF NestedExec, InUser, IInv, TypeOK, StackShape
  <2>2. CASE ExecStart(call)
    BY <2>2, <1>2
  <2>3. CASE ExecRefuse(call)
    BY <2>1, <2>3, RefusalProperties DEF ExecRefuse, Depth
  <2>4. QED
    BY <1>5, <2>2, <2>3 DEF NestedExec
<1>6. ASSUME NEW path \in Path, SysExecve(path)
      PROVE \E call \in Call : NestedExec(call)
  BY <1>6, PlainCallType DEF SysExecve
<1>7. ASSUME NEW path \in Path, NEW in \in StdinArg, NEW out \in StdoutArg,
             SysExecIo(path, in, out)
      PROVE \E call \in Call : NestedExec(call)
  BY <1>7, IoCallType DEF SysExecIo
<1>8. CASE (\E n \in Nat \ {0} : ReadBegin(n)) \/ ReadByte \/ ReadEof
             \/ \E b \in Byte : ReadTyped(b)
  BY <1>3, <1>8 DEF ReadBegin, ReadByte, ReadEof, ReadTyped, InUser, Reading
<1>9. ASSUME NEW d \in Seq(Byte), Write(d)
      PROVE /\ Len(stack') = Depth
            /\ pm'.slots_in_use = pm.slots_in_use
            /\ FreeRecords(pm') = FreeRecords(pm)
  BY <1>3, <1>9 DEF Write, InUser
<1>10. ASSUME NEW c \in Nat, Return(c) PROVE Len(stack') = Depth - 1
  BY <1>1, <1>10, PopProperties DEF Return, InUser
<1>11. CASE UNCHANGED vars
  BY <1>11 DEF vars, Depth
<1>12. QED
  BY <1>4, <1>5, <1>6, <1>7, <1>8, <1>9, <1>10, <1>11 DEF KernelStep

-----------------------------------------------------------------------------
(* The action properties.                                                  *)

\* What a step that returns hands to the caller: clamped first to the kernel's
\* buffer and then to the caller's, it is the clamp to the caller's.
LEMMA StepOwnOutput ==
    ASSUME IoInv, KernelStep, Len(stack') < Depth
    PROVE  result'.out = IF Top.call.out.some
                         THEN Truncate(Top.wrote, Top.call.out.cap)
                         ELSE << >>
<1>1. PICK c \in Nat : Return(c)
  <2>1. Depth \in Nat
    BY DEF IoInv, IInv, TypeOK, Depth
  <2>2. QED
    BY <2>1, StepShapes DEF IoInv
<1>2. result'.out = CopiedOut /\ stack # << >>
  BY <1>1 DEF Return, InUser
<1>3. CASE ~Top.call.out.some
  BY <1>2, <1>3 DEF CopiedOut
<1>4. CASE Top.call.out.some
  <2>1. /\ io.stdout = Truncate(Top.wrote, MaxIoStdout)
        /\ Top.call.out.cap <= MaxIoStdout /\ Top \in Frame
    BY <1>2, <1>4, TopFacts DEF IoFits, FrameFits
  <2>2. Top.wrote \in Seq(Byte) /\ Top.call.out.cap \in Nat /\ MaxIoStdout \in Nat
    BY <2>1, ExecSizes DEF Frame, Call, StdoutArg
  <2>3. Truncate(io.stdout, Top.call.out.cap) = Truncate(Top.wrote, Top.call.out.cap)
    BY <2>1, <2>2, TruncateTwice
  <2>4. QED
    BY <1>2, <1>4, <2>3 DEF CopiedOut
<1>5. QED
  BY <1>3, <1>4

\* The caller of exec gets the start of what that very program wrote, since the
\* kernel never lets the caller's buffer be the larger.
THEOREM OwnOutput == Spec => ReturnsOwnOutput
<1>1. IoInv /\ [Next]_vars =>
        [Len(stack') < Depth =>
            result'.out = IF Top.call.out.some
                          THEN Truncate(Top.wrote, Top.call.out.cap)
                          ELSE << >>]_vars
  BY StepOwnOutput, NextIsKernelStep
<1>2. QED
  BY <1>1, IoInvariance, PTL DEF Spec, ReturnsOwnOutput

\* An exec that is refused, by the loader after spawn_slot too, leaves the slots
\* and the records as it found them.
THEOREM RefusalLeavesNoTrace == Spec => RefusedExecLeavesNoTrace
<1>1. IInv /\ [Next]_vars =>
        [Len(stack') = Depth =>
            /\ pm'.slots_in_use = pm.slots_in_use
            /\ FreeRecords(pm') = FreeRecords(pm)]_vars
  <2> SUFFICES ASSUME IInv, KernelStep, Len(stack') = Depth
               PROVE  /\ pm'.slots_in_use = pm.slots_in_use
                      /\ FreeRecords(pm') = FreeRecords(pm)
    BY NextIsKernelStep
  <2>1. Depth \in Nat
    BY DEF IInv, TypeOK, Depth
  <2>2. QED
    BY <2>1, StepShapes
<1>2. QED
  BY <1>1, Invariance, PTL DEF Spec, RefusedExecLeavesNoTrace

-----------------------------------------------------------------------------
(* The refinement.  By the invariant the buffers of a call can be read off   *)
(* its frame, whether it runs or waits; so what a step does to them is what  *)
(* it does to the frames.                                                   *)

CallBuffers == [k \in 1 .. Depth |-> BuffersOf(k)]

Buffers == [in : StdinArg, out : StdoutArg, held : Seq(Byte)]

\* What is left of an input after n bytes.
LEMMA DropFirstProperties ==
    ASSUME NEW S, NEW s \in Seq(S), NEW n \in Nat
    PROVE  /\ DropFirst(s, n) \in Seq(S)
           /\ n = 0 => DropFirst(s, n) = s
           /\ n < Len(s) => /\ DropFirst(s, n) # << >>
                            /\ DropFirst(s, n + 1) = Tail(DropFirst(s, n))
<1>1. Len(s) \in Nat
  BY LenProperties
<1>2. \A i \in n + 1 .. Len(s) : s[i] \in S
  BY <1>1, ElementOfSeq
<1>3. /\ SubSeq(s, n + 1, Len(s)) \in Seq(S)
      /\ Len(SubSeq(s, n + 1, Len(s)))
            = IF n + 1 <= Len(s) THEN Len(s) - (n + 1) + 1 ELSE 0
  BY <1>1, <1>2, SubSeqProperties, Z3
<1>4. ASSUME n = 0 PROVE DropFirst(s, n) = s
  BY <1>4, SubSeqFull DEF DropFirst
<1>5. ASSUME n < Len(s)
      PROVE  /\ DropFirst(s, n) # << >>
             /\ DropFirst(s, n + 1) = Tail(DropFirst(s, n))
  <2>1. n + 1 \in 1 .. Len(s) /\ Len(s) \in n + 1 .. Len(s)
    BY <1>1, <1>5
  <2>2. Tail(SubSeq(s, n + 1, Len(s))) = SubSeq(s, n + 1 + 1, Len(s))
    BY <2>1, HeadTailOfSubSeq
  <2>3. SubSeq(s, n + 1, Len(s)) # << >>
    <3>1. Len(SubSeq(s, n + 1, Len(s))) # 0
      BY <1>1, <1>3, <1>5
    <3>2. Len(<< >>) = 0
      OBVIOUS
    <3>3. QED
      BY <3>1, <3>2, Zenon
  <2>4. QED
    BY <2>2, <2>3, Zenon DEF DropFirst
<1>6. QED
  BY <1>3, <1>4, <1>5 DEF DropFirst

\* The buffers of a frame, waiting or not.
LEMMA BuffersType ==
    ASSUME NEW f \in Frame
    PROVE  /\ WaitingBuffers(f) \in Buffers
           /\ WaitingBuffers(f).in.some = f.call.stdin.some
           /\ WaitingBuffers(f).in.data = DropFirst(f.call.stdin.data, Len(f.got))
           /\ WaitingBuffers(f).out = f.call.out
           /\ WaitingBuffers(f).held = Truncate(f.wrote, MaxIoStdout)
<1>1. /\ f.call.stdin \in StdinArg /\ f.call.out \in StdoutArg
      /\ f.got \in Seq(Byte) /\ f.wrote \in Seq(Byte) /\ MaxIoStdout \in Nat
  BY ExecSizes DEF Frame, Call
<1>2. Truncate(f.wrote, MaxIoStdout) \in Seq(Byte)
  BY <1>1, TruncateProperties
<1>3. DropFirst(f.call.stdin.data, Len(f.got)) \in Seq(Byte)
  BY <1>1, DropFirstProperties, LenProperties DEF StdinArg
<1>4. QED
  BY <1>1, <1>2, <1>3 DEF WaitingBuffers, Buffers, StdinArg

\* What take_stdin_byte and capture_stdout would answer the running program is
\* what its frame says is left for it.
LEMMA BuffersOfFrames ==
    ASSUME IoInv
    PROVE  \A k \in 1 .. Depth : BuffersOf(k) = WaitingBuffers(stack[k])
<1>1. ASSUME stack # << >> PROVE LiveBuffers = WaitingBuffers(Top)
  <2>1. /\ Top \in Frame /\ io \in IoState /\ FrameFits(Top) /\ IoFits(Top, io)
        /\ StdinUnavailable <=> ~Top.call.stdin.some
        /\ Top.call.stdin.some => io.stdin = Top.call.stdin.data
        /\ io.active /\ io.stdout_capture <=> Top.call.out.some
    BY <1>1, TopFacts
  <2>2. /\ Top.call.stdin \in StdinArg /\ Top.call.out \in StdoutArg
        /\ io.stdin \in Seq(Byte) /\ io.stdin_pos \in Nat
    BY <2>1 DEF Frame, Call, IoState
  <2>3. Len(Top.got) = io.stdin_pos
    <3>1. Len(Truncate(io.stdin, io.stdin_pos)) = Lesser(Len(io.stdin), io.stdin_pos)
      BY <2>2, TruncateProperties
    <3>2. io.stdin_pos <= Len(io.stdin) /\ Len(io.stdin) \in Nat
      BY <2>1, <2>2, LenProperties DEF IoFits
    <3>3. Lesser(Len(io.stdin), io.stdin_pos) = io.stdin_pos
      BY <3>2, <2>2 DEF Lesser
    <3>4. QED
      BY <3>1, <3>3, <2>1 DEF IoFits
  <2>4. io.stdin = Top.call.stdin.data
    BY <2>1 DEF FrameFits, IoFits
  <2>5. LiveBuffers.in = WaitingBuffers(Top).in
    <3>1. (~StdinUnavailable) = Top.call.stdin.some
      BY <2>1, <2>2 DEF StdinArg, StdinUnavailable
    <3>2. QED
      BY <3>1, <2>2, <2>3, <2>4 DEF LiveBuffers, WaitingBuffers, StdinArg
  <2>6. LiveBuffers.out = WaitingBuffers(Top).out
    <3>1. (io.active /\ io.stdout_capture) = Top.call.out.some
      BY <2>1, <2>2 DEF StdoutArg, IoState
    <3>2. QED
      BY <3>1, <2>2 DEF LiveBuffers, WaitingBuffers, StdoutArg
  <2>7. LiveBuffers.held = WaitingBuffers(Top).held
    BY <2>1 DEF LiveBuffers, WaitingBuffers, IoFits
  <2>8. QED
    BY <2>5, <2>6, <2>7 DEF LiveBuffers, WaitingBuffers
<1>2. ASSUME NEW k \in 1 .. Depth PROVE stack # << >>
  BY <1>2 DEF Depth
<1>3. QED
  BY <1>1, <1>2 DEF BuffersOf, Top

CallBuffersMatchFrames ==
    /\ CallBuffers \in Seq(Buffers) /\ Len(CallBuffers) = Depth /\ Depth \in Nat
    /\ \A k \in 1 .. Depth : /\ stack[k] \in Frame
                             /\ CallBuffers[k] = WaitingBuffers(stack[k])

\* So the per-call buffers are a sequence with an entry for each frame.
LEMMA CallBuffersProperties == IoInv => CallBuffersMatchFrames
<1> SUFFICES ASSUME IoInv PROVE CallBuffersMatchFrames
  OBVIOUS
<1>1. stack \in Seq(Frame) /\ Depth \in Nat
  BY DEF IoInv, IInv, TypeOK, Depth
<1>2. \A k \in 1 .. Depth : stack[k] \in Frame
  BY <1>1, ElementOfSeq DEF Depth
<1>3. \A k \in 1 .. Depth : CallBuffers[k] = WaitingBuffers(stack[k])
  BY BuffersOfFrames DEF CallBuffers
<1>4. \A k \in 1 .. Depth : BuffersOf(k) \in Buffers
  BY <1>2, BuffersOfFrames, BuffersType
<1>5. CallBuffers \in [1 .. Depth -> Buffers]
  BY <1>4 DEF CallBuffers
<1>6. CallBuffers \in Seq(Buffers) /\ Len(CallBuffers) = Depth
  BY <1>1, <1>5
<1>7. QED
  BY <1>1, <1>2, <1>3, <1>6 DEF CallBuffersMatchFrames

\* A frame pushed, replaced or popped is an entry pushed, replaced or popped.
LEMMA CallBuffersSteps ==
    ASSUME IoInv, IoInv'
    PROVE  /\ \A f \in Frame : stack' = Append(stack, f)
                 => CallBuffers' = Append(CallBuffers, WaitingBuffers(f))
           /\ \A f \in Frame : stack # << >> /\ UpdateTop(f)
                 => CallBuffers' = [CallBuffers EXCEPT ![Depth] = WaitingBuffers(f)]
           /\ stack # << >> /\ stack' = Below
                 => CallBuffers' = SubSeq(CallBuffers, 1, Len(CallBuffers) - 1)
           /\ stack' = stack => CallBuffers' = CallBuffers
<1>1. /\ CallBuffers \in Seq(Buffers) /\ Len(CallBuffers) = Depth /\ Depth \in Nat
      /\ \A k \in 1 .. Depth : CallBuffers[k] = WaitingBuffers(stack[k])
  BY CallBuffersProperties DEF CallBuffersMatchFrames
<1>2. /\ CallBuffers' \in Seq(Buffers) /\ Len(CallBuffers') = Depth'
      /\ \A k \in 1 .. Depth' : CallBuffers'[k] = WaitingBuffers(stack'[k])
  <2>1. CallBuffersMatchFrames'
    BY CallBuffersProperties, PTL
  <2>2. QED
    BY <2>1 DEF CallBuffersMatchFrames
<1>3. stack \in Seq(Frame)
  BY DEF IoInv, IInv, TypeOK
<1> HIDE DEF CallBuffers
<1>4. ASSUME NEW f \in Frame, stack' = Append(stack, f)
      PROVE CallBuffers' = Append(CallBuffers, WaitingBuffers(f))
  <2> DEFINE t == Append(CallBuffers, WaitingBuffers(f))
  <2>1. /\ Depth' = Depth + 1 /\ stack'[Depth + 1] = f
        /\ \A k \in 1 .. Depth : stack'[k] = stack[k]
    BY <1>3, <1>4, PushProperties DEF Depth
  <2>2. WaitingBuffers(f) \in Buffers
    BY BuffersType
  <2>3. /\ t \in Seq(Buffers) /\ Len(t) = Depth + 1 /\ t[Depth + 1] = WaitingBuffers(f)
        /\ \A k \in 1 .. Depth : t[k] = CallBuffers[k]
    BY <1>1, <2>2, AppendProperties
  <2> HIDE DEF t
  <2>4. ASSUME NEW k \in 1 .. Depth + 1 PROVE CallBuffers'[k] = t[k]
    BY <1>1, <1>2, <2>1, <2>3
  <2>5. QED
    BY <1>2, <2>1, <2>3, <2>4, SeqEqual DEF t
<1>5. ASSUME NEW f \in Frame, stack # << >>, UpdateTop(f)
      PROVE CallBuffers' = [CallBuffers EXCEPT ![Depth] = WaitingBuffers(f)]
  <2> DEFINE t == [CallBuffers EXCEPT ![Depth] = WaitingBuffers(f)]
  <2>1. /\ Depth' = Depth /\ stack'[Depth] = f
        /\ \A k \in 1 .. Depth : k # Depth => stack'[k] = stack[k]
    BY <1>3, <1>5, UpdateTopProperties DEF Depth
  <2>2. WaitingBuffers(f) \in Buffers /\ Depth \in 1 .. Len(CallBuffers)
    BY <1>1, <1>5, BuffersType DEF Depth
  <2>3. /\ t \in Seq(Buffers) /\ Len(t) = Depth
        /\ \A k \in 1 .. Depth : t[k] = IF k = Depth THEN WaitingBuffers(f) ELSE CallBuffers[k]
    BY <1>1, <2>2, ExceptSeq
  <2> HIDE DEF t
  <2>4. ASSUME NEW k \in 1 .. Depth PROVE CallBuffers'[k] = t[k]
    BY <1>1, <1>2, <2>1, <2>3
  <2>5. QED
    BY <1>2, <2>1, <2>3, <2>4, SeqEqual DEF t
<1>6. ASSUME stack # << >>, stack' = Below
      PROVE CallBuffers' = SubSeq(CallBuffers, 1, Len(CallBuffers) - 1)
  <2> DEFINE t == SubSeq(CallBuffers, 1, Depth - 1)
  <2>1. Depth' = Depth - 1 /\ \A k \in 1 .. Depth - 1 : stack'[k] = stack[k]
    BY <1>3, <1>6, PopProperties DEF Depth
  <2>2. Depth >= 1
    BY <1>1, <1>3, <1>6 DEF Depth
  <2>3. \A k \in 1 .. Depth - 1 : CallBuffers[k] \in Buffers
    BY <1>1, ElementOfSeq
  <2>4. /\ t \in Seq(Buffers) /\ Len(t) = Depth - 1
        /\ \A k \in 1 .. Depth - 1 : t[k] = CallBuffers[k]
    <3>1. /\ t \in Seq(Buffers)
          /\ Len(t) = IF 1 <= Depth - 1 THEN Depth - 1 - 1 + 1 ELSE 0
          /\ \A k \in 1 .. Depth - 1 - 1 + 1 : t[k] = CallBuffers[1 + k - 1]
      BY <1>1, <2>3, SubSeqProperties
    <3> HIDE DEF t
    <3>2. QED
      BY <3>1, <1>1, <2>2
  <2> HIDE DEF t
  <2>5. ASSUME NEW k \in 1 .. Depth - 1 PROVE CallBuffers'[k] = t[k]
    BY <1>1, <1>2, <2>1, <2>4
  <2>6. CallBuffers' = t
    BY <1>2, <2>1, <2>4, <2>5, SeqEqual
  <2>7. QED
    BY <2>6, <1>1 DEF t
<1>7. ASSUME stack' = stack PROVE CallBuffers' = CallBuffers
  <2>1. Depth' = Depth
    BY <1>7 DEF Depth
  <2>2. \A k \in 1 .. Depth : CallBuffers'[k] = CallBuffers[k]
    BY <1>1, <1>2, <1>7, <2>1
  <2>3. QED
    BY <1>1, <1>2, <2>1, <2>2, SeqEqual
<1>8. QED
  BY <1>4, <1>5, <1>6, <1>7

\* FirstOf is Truncate.
LEMMA FirstOfIsTruncate ==
    ASSUME NEW S, NEW s \in Seq(S), NEW n \in Nat
    PROVE  PerCall!FirstOf(s, n) = Truncate(s, n)
<1>1. Len(s) \in Nat
  BY LenProperties
<1>2. (IF n < Len(s) THEN n ELSE Len(s)) = Lesser(Len(s), n)
  BY <1>1 DEF Lesser
<1>3. QED
  BY <1>2 DEF PerCall!FirstOf, Truncate

\* What the abstract specification sees of the innermost call.
LEMMA InnermostProperties ==
    ASSUME IoInv, stack # << >>
    PROVE  /\ CallBuffers # << >> /\ Len(CallBuffers) = Depth /\ Depth \in 1 .. Depth
           /\ Top \in Frame /\ CallBuffers[Depth] = WaitingBuffers(Top)
           /\ CallBuffers \in Seq(Buffers)
<1>1. CallBuffersMatchFrames
  BY CallBuffersProperties
<1>2. Depth # 0
  BY DEF IoInv, IInv, TypeOK, Depth
<1>3. Depth \in 1 .. Depth
  BY <1>1, <1>2 DEF CallBuffersMatchFrames
<1>4. CallBuffers # << >>
  BY <1>1, <1>2 DEF CallBuffersMatchFrames
<1>5. QED
  BY <1>1, <1>3, <1>4 DEF CallBuffersMatchFrames, Top

\* A program that starts enters the call its caller made, with an unread input
\* and nothing held.
LEMMA StartEnters ==
    ASSUME IoInv, IoInv', NEW call \in Call, ExecStart(call),
           call.stdin \in {StdinOf(r) : r \in StdinReqs},
           call.out \in {StdoutOf(r) : r \in StdoutReqs}
    PROVE  PerCall!Next
<1> DEFINE f == NewFrame(call, pm.next_pid)
<1>1. f \in Frame
  BY DEF NewFrame, Frame, IdleRead, ProcessManager, IoInv, IInv, TypeOK
<1>2. WaitingBuffers(f) = [in |-> call.stdin, out |-> call.out, held |-> << >>]
  <2>1. f.call = call /\ f.got = << >> /\ f.wrote = << >>
    BY DEF NewFrame
  <2>2. call.stdin \in StdinArg /\ call.stdin.data \in Seq(Byte)
    BY DEF Call, StdinArg
  <2>3. DropFirst(call.stdin.data, Len(<< >>)) = call.stdin.data
    <3>1. Len(<< >>) = 0
      OBVIOUS
    <3>2. QED
      BY <3>1, <2>2, DropFirstProperties
  <2>4. Truncate(<< >>, MaxIoStdout) = << >>
    BY TruncateNothing, ExecSizes
  <2> HIDE DEF f
  <2>5. QED
    BY <2>1, <2>2, <2>3, <2>4 DEF WaitingBuffers, StdinArg
<1>3. CallBuffers' = Append(CallBuffers, WaitingBuffers(f)) /\ result' = result
  BY <1>1, CallBuffersSteps DEF ExecStart
<1> HIDE DEF f
<1>4. PerCall!Enter(call.stdin, call.out)
  BY <1>2, <1>3 DEF PerCall!Enter, CallBuffers
<1>5. QED
  BY <1>4 DEF PerCall!Next

\* A refused call is refused, and its caller's buffers are as they were.
LEMMA RefusalRefuses ==
    ASSUME IoInv, IoInv', NEW call, ExecRefuse(call)
    PROVE  PerCall!Next
<1>1. CallBuffers' = CallBuffers /\ result' = [status |-> Failed, out |-> << >>]
  BY CallBuffersSteps DEF ExecRefuse
<1>2. PerCall!Refuse
  BY <1>1 DEF PerCall!Refuse, CallBuffers
<1>3. QED
  BY <1>2 DEF PerCall!Next

\* A byte read is a byte consumed from the running call's input.
LEMMA ReadConsumes ==
    ASSUME IoInv, IoInv', ReadByte
    PROVE  PerCall!Next
<1> DEFINE f == [Top EXCEPT !.got = Append(@, io.stdin[io.stdin_pos + 1]),
                           !.rd = Counted(@, FALSE)]
           B == WaitingBuffers(Top)
<1>1. stack # << >> /\ UpdateTop(f) /\ ~StdinUnavailable /\ io.stdin_pos < Len(io.stdin)
  BY DEF ReadByte, Reading, StdinReady
<1>2. /\ Top \in Frame /\ io \in IoState /\ FrameFits(Top) /\ IoFits(Top, io)
      /\ Top.call.stdin.some /\ io.stdin = Top.call.stdin.data
  BY <1>1, TopFacts
<1>3. /\ io.stdin \in Seq(Byte) /\ io.stdin_pos \in Nat
      /\ io.stdin[io.stdin_pos + 1] \in Byte
  BY <1>1, <1>2, ElementOfSeq, LenProperties DEF IoState
<1>4. Len(Top.got) = io.stdin_pos
  <2>1. Len(Truncate(io.stdin, io.stdin_pos)) = Lesser(Len(io.stdin), io.stdin_pos)
    BY <1>3, TruncateProperties
  <2>2. Lesser(Len(io.stdin), io.stdin_pos) = io.stdin_pos
    BY <1>1, <1>3, LenProperties DEF Lesser
  <2>3. QED
    BY <2>1, <2>2, <1>2 DEF IoFits
<1>5. Counted(Top.rd, FALSE) \in [busy : BOOLEAN, len : Nat, count : Nat]
  BY <1>2, CountedType DEF Frame
<1>6. /\ Append(Top.got, io.stdin[io.stdin_pos + 1]) \in Seq(Byte)
      /\ Len(Append(Top.got, io.stdin[io.stdin_pos + 1])) = io.stdin_pos + 1
  BY <1>2, <1>3, <1>4, AppendProperties DEF Frame
<1>7. /\ f \in Frame /\ f.call = Top.call /\ f.wrote = Top.wrote
      /\ Len(f.got) = io.stdin_pos + 1
  BY <1>2, <1>5, <1>6 DEF Frame
<1> HIDE DEF f
<1>8. /\ DropFirst(io.stdin, io.stdin_pos) # << >>
      /\ DropFirst(io.stdin, io.stdin_pos + 1) = Tail(DropFirst(io.stdin, io.stdin_pos))
  BY <1>1, <1>3, DropFirstProperties
<1>9. WaitingBuffers(f) = [B EXCEPT !.in.data = Tail(@)]
  <2>1. Top.call.stdin \in StdinArg
    BY <1>2 DEF Frame, Call
  <2>2. WaitingBuffers(f).in = [B.in EXCEPT !.data = Tail(@)]
    BY <2>1, <1>2, <1>4, <1>7, <1>8 DEF WaitingBuffers, StdinArg
  <2>3. WaitingBuffers(f).out = B.out /\ WaitingBuffers(f).held = B.held
    BY <1>7 DEF WaitingBuffers
  <2>4. WaitingBuffers(f) \in Buffers /\ B \in Buffers
    BY <1>2, <1>7, BuffersType
  <2> HIDE DEF B
  <2>5. QED
    BY <2>2, <2>3, <2>4 DEF Buffers
<1>10. B.in.data # << >>
  BY <1>2, <1>4, <1>8, BuffersType
<1>11. CallBuffers' = [CallBuffers EXCEPT ![Depth] = WaitingBuffers(f)]
  BY <1>1, <1>7, CallBuffersSteps
<1>12. /\ CallBuffers # << >> /\ Len(CallBuffers) = Depth /\ Depth \in 1 .. Depth
       /\ CallBuffers[Depth] = B /\ CallBuffers \in Seq(Buffers)
  BY <1>1, InnermostProperties
<1> HIDE DEF B
<1>13. CallBuffers' = [CallBuffers EXCEPT ![Len(CallBuffers)].in.data = Tail(@)]
  BY <1>9, <1>11, <1>12
<1>14. result' = result
  BY DEF ReadByte
<1>15. PerCall!Consume
  BY <1>10, <1>12, <1>13, <1>14 DEF PerCall!Consume, PerCall!Innermost, CallBuffers
<1>16. QED
  BY <1>15 DEF PerCall!Next

\* The other steps of a read move no buffer.
LEMMA ReadStutters ==
    ASSUME IoInv, IoInv',
           (\E n \in ReadLens : ReadBegin(n)) \/ ReadEof \/ \E b \in Byte : ReadTyped(b)
    PROVE  UNCHANGED PerCall!ioVars
<1>1. PICK f : /\ stack # << >> /\ UpdateTop(f) /\ f \in Frame /\ f.call = Top.call
               /\ f.got = Top.got /\ f.wrote = Top.wrote /\ result' = result
  <2>1. stack # << >>
    BY DEF ReadBegin, ReadEof, ReadTyped, InUser, Reading
  <2>2. Top \in Frame
    BY <2>1, TopFacts
  <2>3. CASE \E n \in ReadLens : ReadBegin(n)
    <3>1. PICK n \in ReadLens : ReadBegin(n)
      BY <2>3
    <3> DEFINE f == [Top EXCEPT !.rd = [busy |-> TRUE, len |-> n, count |-> 0]]
    <3>2. UpdateTop(f) /\ result' = result
      BY <3>1 DEF ReadBegin
    <3>3. f \in Frame /\ f.call = Top.call /\ f.got = Top.got /\ f.wrote = Top.wrote
      BY <2>2, ExecInputs DEF Frame
    <3>4. QED
      BY <2>1, <3>2, <3>3
  <2>4. CASE ReadEof
    <3> DEFINE f == [Top EXCEPT !.rd.busy = FALSE]
    <3>1. UpdateTop(f) /\ result' = result
      BY <2>4 DEF ReadEof
    <3>2. f \in Frame /\ f.call = Top.call /\ f.got = Top.got /\ f.wrote = Top.wrote
      BY <2>2 DEF Frame
    <3>3. QED
      BY <2>1, <3>1, <3>2
  <2>5. CASE \E b \in Byte : ReadTyped(b)
    <3>1. PICK b \in Byte : ReadTyped(b)
      BY <2>5
    <3> DEFINE f == [Top EXCEPT !.tty = TRUE, !.rd = Counted(@, b = Newline)]
    <3>2. UpdateTop(f) /\ result' = result
      BY <3>1 DEF ReadTyped
    <3>3. Counted(Top.rd, b = Newline) \in [busy : BOOLEAN, len : Nat, count : Nat]
      BY <2>2, CountedType DEF Frame
    <3>4. f \in Frame /\ f.call = Top.call /\ f.got = Top.got /\ f.wrote = Top.wrote
      BY <2>2, <3>3 DEF Frame
    <3>5. QED
      BY <2>1, <3>2, <3>4
  <2>6. QED
    BY <2>3, <2>4, <2>5
<1>2. CallBuffers' = [CallBuffers EXCEPT ![Depth] = WaitingBuffers(f)]
  BY <1>1, CallBuffersSteps
<1>3. WaitingBuffers(f) = WaitingBuffers(Top)
  BY <1>1 DEF WaitingBuffers
<1>4. CallBuffers' = CallBuffers
  <2>1. /\ CallBuffers[Depth] = WaitingBuffers(Top) /\ CallBuffers \in Seq(Buffers)
    BY <1>1, InnermostProperties
  <2>2. [CallBuffers EXCEPT ![Depth] = CallBuffers[Depth]] = CallBuffers
    BY <2>1
  <2>3. QED
    BY <2>1, <2>2, <1>2, <1>3
<1>5. QED
  BY <1>1, <1>4 DEF PerCall!ioVars, CallBuffers

\* A write adds what fits to the output its own call holds; without capture it
\* touches no buffer.
LEMMA WriteProduces ==
    ASSUME IoInv, IoInv', NEW d \in Writes, Write(d)
    PROVE  PerCall!Next \/ UNCHANGED PerCall!ioVars
<1> DEFINE history == IF Top.call.out.some THEN d ELSE << >>
           B == WaitingBuffers(Top)
<1>1. stack # << >> /\ result' = result
  BY DEF Write, InUser
<1>2. Top \in Frame /\ FrameFits(Top)
  BY <1>1, TopFacts
<1>3. /\ Top.wrote \in Seq(Byte) /\ Top.shown \in Seq(Byte) /\ d \in Seq(Byte)
      /\ history \in Seq(Byte) /\ MaxIoStdout \in Nat
  BY <1>2, ExecInputs, ExecSizes DEF Frame
<1>4. Top.wrote \o history \in Seq(Byte) /\ Top.shown \o history \in Seq(Byte)
  BY <1>3, ConcatProperties
<1>5. PICK f \in Frame : /\ UpdateTop(f) /\ f.call = Top.call /\ f.got = Top.got
                         /\ f.wrote = Top.wrote \o history
  <2> DEFINE g == [Top EXCEPT !.wrote = @ \o history]
             h == [Top EXCEPT !.wrote = @ \o history, !.shown = @ \o history]
  <2>1. UpdateTop(g) \/ UpdateTop(h)
    BY DEF Write
  <2>2. /\ g \in Frame /\ g.call = Top.call /\ g.got = Top.got
        /\ g.wrote = Top.wrote \o history
    BY <1>2, <1>4 DEF Frame
  <2>3. /\ h \in Frame /\ h.call = Top.call /\ h.got = Top.got
        /\ h.wrote = Top.wrote \o history
    BY <1>2, <1>4 DEF Frame
  <2> HIDE DEF g, h
  <2>4. QED
    BY <2>1, <2>2, <2>3
<1>6. CallBuffers' = [CallBuffers EXCEPT ![Depth] = WaitingBuffers(f)]
  BY <1>1, <1>5, CallBuffersSteps
<1>7. /\ CallBuffers # << >> /\ Len(CallBuffers) = Depth /\ Depth \in 1 .. Depth
      /\ CallBuffers[Depth] = B /\ CallBuffers \in Seq(Buffers)
  BY <1>1, InnermostProperties
<1>8. CASE ~Top.call.out.some
  <2>1. Top.wrote \o history = Top.wrote
    BY <1>8, <1>3, ConcatEmptySeq
  <2>2. WaitingBuffers(f) = B
    BY <2>1, <1>5 DEF WaitingBuffers
  <2>3. [CallBuffers EXCEPT ![Depth] = CallBuffers[Depth]] = CallBuffers
    BY <1>7
  <2>4. CallBuffers' = CallBuffers
    BY <2>2, <2>3, <1>6, <1>7
  <2>5. QED
    BY <1>1, <2>4 DEF PerCall!ioVars, CallBuffers
<1>9. CASE Top.call.out.some
  <2>1. /\ B \in Buffers /\ B.held = Truncate(Top.wrote, MaxIoStdout)
        /\ B.out = Top.call.out
    BY <1>2, BuffersType
  <2>2. B.held \o d \in Seq(Byte)
    BY <2>1, <1>3, ConcatProperties DEF Buffers
  <2>3. PerCall!FirstOf(B.held \o d, MaxIoStdout) = Truncate(Top.wrote \o d, MaxIoStdout)
    <3>1. PerCall!FirstOf(B.held \o d, MaxIoStdout) = Truncate(B.held \o d, MaxIoStdout)
      BY <2>2, <1>3, FirstOfIsTruncate, Zenon
    <3>2. Truncate(Truncate(Top.wrote, MaxIoStdout) \o d, MaxIoStdout)
            = Truncate(Top.wrote \o d, MaxIoStdout)
      BY <1>3, TruncateConcat, Zenon
    <3>3. QED
      BY <3>1, <3>2, <2>1
  <2>4. history = d
    BY <1>9
  <2>5. WaitingBuffers(f)
          = [B EXCEPT !.held = PerCall!FirstOf(@ \o d, MaxIoStdout)]
    <3>1. WaitingBuffers(f) = [B EXCEPT !.held = Truncate(Top.wrote \o d, MaxIoStdout)]
      BY <2>4, <1>5 DEF WaitingBuffers
    <3>2. QED
      BY <3>1, <2>1, <2>3 DEF Buffers
  <2> HIDE DEF B
  <2>6. CallBuffers'
          = [CallBuffers EXCEPT ![Len(CallBuffers)].held
               = PerCall!FirstOf(@ \o d, MaxIoStdout)]
    BY <2>5, <1>6, <1>7
  <2>7. PerCall!Produce(d)
    BY <1>1, <1>7, <1>9, <2>1, <2>6
       DEF PerCall!Produce, PerCall!Innermost, CallBuffers
  <2>8. QED
    BY <2>7 DEF PerCall!Next
<1>10. QED
  BY <1>2, <1>8, <1>9

\* A return leaves the call with its own output, and the caller's buffers are
\* those it had.
LEMMA ReturnLeaves ==
    ASSUME IoInv, IoInv', NEW c \in ReturnCodes, Return(c)
    PROVE  PerCall!Next
<1>1. /\ stack # << >> /\ stack' = Below
      /\ result' = [status |-> c, out |-> CopiedOut]
  BY DEF Return, InUser
<1>2. /\ CallBuffers # << >> /\ Len(CallBuffers) = Depth /\ Top \in Frame
      /\ CallBuffers[Depth] = WaitingBuffers(Top)
  BY <1>1, InnermostProperties
<1>3. /\ WaitingBuffers(Top).out = Top.call.out
      /\ WaitingBuffers(Top).held = Truncate(Top.wrote, MaxIoStdout)
      /\ WaitingBuffers(Top) \in Buffers
  BY <1>2, BuffersType
<1>4. io.stdout = Truncate(Top.wrote, MaxIoStdout)
  BY <1>1, TopFacts DEF IoFits
<1>5. PerCall!FirstOf(io.stdout, Top.call.out.cap) = Truncate(io.stdout, Top.call.out.cap)
  <2>1. io.stdout \in Seq(Byte) /\ Top.call.out.cap \in Nat
    BY <1>2, <1>3, <1>4 DEF Buffers, Frame, Call, StdoutArg
  <2>2. QED
    BY <2>1, FirstOfIsTruncate, Zenon
<1>6. CallBuffers' = SubSeq(CallBuffers, 1, Len(CallBuffers) - 1)
  BY <1>1, CallBuffersSteps
<1>7. result' = [status |-> c,
                 out |-> IF CallBuffers[Len(CallBuffers)].out.some
                         THEN PerCall!FirstOf(CallBuffers[Len(CallBuffers)].held,
                                              CallBuffers[Len(CallBuffers)].out.cap)
                         ELSE << >>]
  BY <1>1, <1>2, <1>3, <1>4, <1>5 DEF CopiedOut
<1>8. PerCall!Leave(c)
  BY <1>2, <1>6, <1>7 DEF PerCall!Leave, PerCall!Innermost, CallBuffers
<1>9. QED
  BY <1>8 DEF PerCall!Next

\* The kernel's one IO_STATE gives every exec call buffers of its own: each
\* step of the kernel is a step of the abstract specification or changes no
\* buffer.
THEOREM IoRefinesPerCall == Spec => IoIsPerCall
<1>1. Init => PerCall!Init
  BY DEF Init, PerCall!Init, Depth
<1>2. IoInv /\ IoInv' /\ [Next]_vars => [PerCall!Next]_(PerCall!ioVars)
  <2> SUFFICES ASSUME IoInv, IoInv', [Next]_vars
               PROVE  PerCall!Next \/ UNCHANGED PerCall!ioVars
    OBVIOUS
  <2>1. NoStdin \in {StdinOf(r) : r \in StdinReqs}
        /\ NoStdout \in {StdoutOf(r) : r \in StdoutReqs}
    BY DEF StdinReqs, StdoutReqs, StdinOf, StdoutOf, NoStdin, NoStdout
  <2>2. ASSUME NEW path \in Path PROVE
          /\ PlainCall(path) \in Call
          /\ PlainCall(path).stdin = NoStdin /\ PlainCall(path).out = NoStdout
    BY PlainCallType DEF PlainCall, ExecCall
  <2>3. CASE Boot
    BY <2>1, <2>2, <2>3, StartEnters, RefusalRefuses, ExecInputs DEF Boot
  <2>4. ASSUME NEW path \in Path, SysExecve(path) PROVE PerCall!Next
    BY <2>1, <2>2, <2>4, StartEnters, RefusalRefuses DEF SysExecve, NestedExec
  <2>5. ASSUME NEW path \in Path, NEW in \in StdinReqs, NEW out \in StdoutReqs,
               SysExecIo(path, in, out)
        PROVE PerCall!Next
    <3> DEFINE call == ExecCall(path, StdinOf(in), StdoutOf(out), in.some)
    <3>1. call \in Call
      BY IoCallType, RequestTypes
    <3>2. call.stdin = StdinOf(in) /\ call.out = StdoutOf(out)
      BY DEF ExecCall
    <3>3. ExecStart(call) \/ ExecRefuse(call)
      BY <2>5 DEF SysExecIo, NestedExec
    <3> HIDE DEF call
    <3>4. QED
      BY <3>1, <3>2, <3>3, StartEnters, RefusalRefuses
  <2>6. CASE Halt \/ UNCHANGED vars
    <3>1. stack' = stack /\ result' = result
      BY <2>6 DEF Halt, vars
    <3>2. CallBuffers' = CallBuffers
      BY <3>1, CallBuffersSteps
    <3>3. QED
      BY <3>1, <3>2 DEF PerCall!ioVars, CallBuffers
  <2>7. QED
    BY <2>3, <2>4, <2>5, <2>6, ReadConsumes, ReadStutters, WriteProduces, ReturnLeaves
       DEF Next
<1>3. QED
  BY <1>1, <1>2, IoInvariance, PTL DEF Spec, IoIsPerCall, PerCall!Spec
=============================================================================
