------------------------------ MODULE Pipeline ------------------------------
(***************************************************************************)
(* The running system: the shell (userspace/apps/init) executing command   *)
(* lines stage by stage, with the real cat, tee and echo, on the kernel of  *)
(* module Exec and the file system of module Vfs.                          *)
(*                                                                         *)
(* A command line arrives tokenized.  It is the record [ops, stages]: does  *)
(* it contain an operator, and its stages as parse_stage leaves them:       *)
(*   parses   whether parse_stage accepts the stage, or, in a line without  *)
(*            an operator, whether its words fit the argument buffer        *)
(*   cmd      the command word                                             *)
(*   args     the argument string, in the ways it is read: text (its bytes), *)
(*            words (split at blanks), name (one path), and for export cwd,  *)
(*            the value if it sets CWD: a set of at most one path           *)
(*   in, out  the files after < and >: sets of at most one path            *)
(***************************************************************************)
EXTENDS Exec, FiniteSets

CONSTANTS
    StaticTable,     \* vfs.rs FILES, with contents
    PathPart,        \* what stands between the slashes of a path
    Names,           \* paths that appear in command lines, and resolved ones
    LongNames,       \* those that don't fit the kernel's path buffer
    MaxRamFiles, MaxRamFileLen,
    Lines,           \* the command lines a user may type
    BinPath,         \* resolve_bin_path: a function on the commands that fit
    CatPath, TeePath, EchoPath,
    MaxIoBuf,        \* MAX_IO_BUF of the shell; cat and tee have buffers that long
    ReadChunk,       \* the length cat and tee pass to read
    Message,         \* an error message: the strings it is written in
    MaxTyped,        \* bound on the keys pressed while one program runs
    MaxLines         \* bound on the lines typed

FileName  == [abs : BOOLEAN, comps : Seq(PathPart) \ {<< >>}]
Arguments ==
    [text : Seq(Byte), words : Seq(FileName), name : FileName, cwd : SUBSET FileName]
StageType ==
    [parses : BOOLEAN, cmd : STRING, args : Arguments, in : SUBSET FileName, out : SUBSET FileName]

\* The shell's buffers are as long as the kernel's.
ASSUME PipelineSizes ==
    /\ MaxIoBuf \in Nat \ {0} /\ MaxIoBuf <= MaxIoStdin /\ MaxIoBuf <= MaxIoStdout
    /\ ReadChunk \in Nat \ {0} /\ MaxRamFiles \in Nat /\ MaxRamFileLen \in Nat
    /\ Message \in Seq(Seq(Byte))
    /\ StaticTable \in Seq([path : FileName, data : Seq(Byte)])

\* "/" has one component, and it is empty.
ASSUME PipelineComponents == "" \in PathPart

\* The programs are installed, and of the images that load the commands name no
\* others but init; a builtin's name is none of theirs.
ASSUME PipelinePrograms ==
    /\ {CatPath, TeePath, EchoPath} \subseteq Loads \cap DOMAIN SlotForPath
    /\ InitPath \notin {CatPath, TeePath, EchoPath}
    /\ CatPath # TeePath /\ CatPath # EchoPath /\ TeePath # EchoPath
    /\ \A cmd \in DOMAIN BinPath :
          /\ BinPath[cmd] \in Path
          /\ BinPath[cmd] \in Loads => BinPath[cmd] \in {InitPath, CatPath, TeePath, EchoPath}
          /\ BinPath[cmd] \in {CatPath, TeePath, EchoPath} =>
                cmd \notin {"help", "clear", "exit", "cd", "env", "export"}

VARIABLES
    ram_files, reply,   \* Vfs
    sh,                 \* the shell's local state
    prog                \* the local state of the program it runs

kernelVars == vars
fileVars   == <<ram_files, reply>>
systemVars == <<kernelVars, fileVars, sh, prog>>

Fs == INSTANCE Vfs WITH
    FILES <- StaticTable, Paths <- Names, LongPaths <- LongNames,
    Contents <- {}, Caps <- {MaxIoBuf}, NameLen <- << >>

\* A line without an operator is one stage; < and > name one file.  CWD is set to
\* no empty value, after which resolve_path panics (module Environment).
ASSUME PipelineLines ==
    \A line \in Lines :
        /\ line \in [ops : BOOLEAN, stages : Seq(StageType) \ {<< >>}]
        /\ ~line.ops => Len(line.stages) = 1
        /\ \A i \in 1 .. Len(line.stages) :
              /\ \A p, q \in line.stages[i].in : p = q
              /\ \A p, q \in line.stages[i].out : p = q
              /\ \A p, q \in line.stages[i].args.cwd : p = q /\ p # Fs!EmptyPath

Builtins == {"help", "clear", "exit", "cd", "env", "export"}

\* resolve_path of the shell and of cat: `cwd/p', with no second slash.  Export
\* may have made cwd a relative path.
Resolve(cwd, p) ==
    LET n     == Len(cwd.comps)
        above == IF cwd.comps[n] = "" THEN SubSeq(cwd.comps, 1, n - 1) ELSE cwd.comps
    IN  IF p.abs THEN p ELSE [abs |-> cwd.abs, comps |-> above \o p.comps]

\* set_cwd: the empty path means the root; one trailing slash is dropped.
ChangedDir(cwd, p) ==
    LET q == IF p = Fs!EmptyPath THEN Fs!RootPath ELSE Resolve(cwd, p)
        n == Len(q.comps)
    IN  IF n > 1 /\ q.comps[n] = "" THEN [q EXCEPT !.comps = SubSeq(@, 1, n - 1)] ELSE q

\* Where dispatch_simple leaves the shell; other variables are Environment's.
DirAfter(stage, cwd) ==
    CASE stage.cmd = "cd" -> ChangedDir(cwd, stage.args.name)
      [] stage.cmd = "export" /\ stage.args.cwd # {} -> CHOOSE p \in stage.args.cwd : TRUE
      [] OTHER -> cwd

NoLine == [ops |-> FALSE, stages |-> << >>]

\* The table RAM_FILES amounts to, as module VfsRefinement reads it.
FileTable ==
    [p \in {ram_files[i].path : i \in 1 .. Len(ram_files)} |-> Fs!Entry(ram_files, p).data]

\* sh.before, sh.spilt and sh.shown are history: the written files when the line
\* was typed, what its captured programs put on the terminal after all, and what
\* its last stage did if it isn't captured.  sh.typed counts lines.
NewShell ==
    [at |-> "prompt", cwd |-> Fs!RootPath, line |-> NoLine, idx |-> 1,
     pipe |-> NoStdin, typed |-> 0, before |-> << >>,
     spilt |-> << >>, shown |-> << >>]

\* pc, the chunk last read, the stream tee keeps, the files it has still to
\* write, and the strings to be written next; keys counts typed bytes.
NewProg(path, args) ==
    [pc |-> IF path = EchoPath THEN "end"
            ELSE IF path = CatPath /\ args.words # << >> THEN "open" ELSE "read",
     buf |-> << >>, stream |-> << >>, keys |-> 0,
     files |-> IF path = TeePath THEN args.words ELSE << >>,
     todo  |-> IF path # EchoPath THEN << >>
               ELSE IF args.text = << >> THEN <<<<Newline>>>>
               ELSE <<args.text, <<Newline>>>>]

IdleProg == NewProg(CatPath, [words |-> << >>])

SystemInit ==
    /\ Init
    /\ Fs!Init
    /\ sh = NewShell
    /\ prog = IdleProg

-----------------------------------------------------------------------------
(* The shell: run, dispatch_simple and dispatch_compound_tokens.            *)

Shell(at) == InUser /\ Depth = 1 /\ sh.at = at

Stage   == sh.line.stages[sh.idx]
IsLast  == sh.idx = Len(sh.line.stages)
Capture == ~IsLast \/ Stage.out # {}

Abandon == sh' = [sh EXCEPT !.at = "prompt"]

StartSystem ==
    /\ Boot
    /\ UNCHANGED <<fileVars, sh, prog>>

\* read_line has collected a line; it reads the keyboard.  What earlier calls
\* returned is out of scope by now.
TypeLine(line) ==
    /\ Shell("prompt") /\ sh.typed < MaxLines
    /\ StdinUnavailable
    /\ sh' = [sh EXCEPT !.at = "stage", !.typed = @ + 1, !.line = line, !.idx = 1, !.pipe = NoStdin,
                        !.before = FileTable, !.spilt = << >>, !.shown = << >>]
    /\ reply' = [op |-> "none"] /\ prog' = IdleProg
    /\ UNCHANGED <<kernelVars, ram_files>>

\* dispatch joins a line's words before it looks at the command.
IsBuiltin == ~sh.line.ops /\ Stage.parses /\ Stage.cmd \in Builtins

Builtin ==
    /\ Shell("stage") /\ IsBuiltin
    /\ IF Stage.cmd = "exit"
       THEN Return(0) /\ UNCHANGED sh
       ELSE /\ sh' = [sh EXCEPT !.at = "prompt", !.cwd = DirAfter(Stage, @)]
            /\ UNCHANGED kernelVars
    /\ UNCHANGED <<fileVars, prog>>

\* parse_stage and the check for a builtin come when the stage's turn comes:
\* the stages before it have run by then.
BeginStage ==
    /\ Shell("stage") /\ ~IsBuiltin
    /\ IF ~Stage.parses \/ Stage.cmd \in Builtins
       THEN Abandon
       ELSE sh' = [sh EXCEPT !.at = IF sh.idx = 1 /\ Stage.in # {} THEN "infile" ELSE "exec"]
    /\ UNCHANGED <<kernelVars, fileVars, prog>>

ReadInFile ==
    /\ Shell("infile")
    /\ \E p \in Stage.in : Fs!SysReadFile(Resolve(sh.cwd, p), MaxIoBuf)
    /\ IF reply'.ok
       THEN sh' = [sh EXCEPT !.at = "exec", !.pipe = [some |-> TRUE, data |-> reply'.data]]
       ELSE Abandon
    /\ UNCHANGED <<kernelVars, prog>>

\* With nothing to redirect the plain exec system call is made.
ExecFromBinIo(path, stdin, capture) ==
    IF stdin.some \/ capture
    THEN SysExecIo(path, stdin, [some |-> capture, cap |-> IF capture THEN MaxIoBuf ELSE 0])
    ELSE SysExecve(path)

\* A command whose path doesn't fit never reaches the kernel.
RunStage ==
    /\ Shell("exec")
    /\ IF Stage.cmd \in DOMAIN BinPath
       THEN /\ ExecFromBinIo(BinPath[Stage.cmd], sh.pipe, Capture)
            /\ sh' = [sh EXCEPT !.at = "wait"]
            /\ prog' = NewProg(BinPath[Stage.cmd], Stage.args)
       ELSE Abandon /\ UNCHANGED <<kernelVars, prog>>
    /\ UNCHANGED fileVars

StageFailed ==
    /\ Shell("wait")
    /\ result.status = Failed
    /\ Abandon
    /\ UNCHANGED <<kernelVars, fileVars, prog>>

\* Mutation: pipe_data keeps the input of the stage that ran.
PassedOnStale == sh.pipe

PassedOn == [some |-> TRUE, data |-> result.out]

PassOn ==
    /\ Shell("wait")
    /\ result.status # Failed /\ ~IsLast
    /\ sh' = [sh EXCEPT !.at = "stage", !.idx = @ + 1, !.pipe = PassedOn]
    /\ UNCHANGED <<kernelVars, fileVars, prog>>

EndLine ==
    /\ Shell("wait")
    /\ result.status # Failed /\ IsLast
    /\ IF Stage.out = {}
       THEN UNCHANGED fileVars
       ELSE \E p \in Stage.out : Fs!SysWriteFile(Resolve(sh.cwd, p), result.out)
    /\ Abandon
    /\ UNCHANGED <<kernelVars, prog>>

-----------------------------------------------------------------------------
(* cat, tee and echo.                                                      *)

Program == InUser /\ Depth = 2 /\ prog.todo = << >>
Is(path) == Top.call.path = path

\* The next of the strings a program has to write.  A capture buffer that is
\* full takes nothing more, and the kernel prints the string instead.
EmitNext ==
    /\ InUser /\ Depth = 2 /\ prog.todo # << >>
    /\ Write(Head(prog.todo))
    /\ prog' = [prog EXCEPT !.todo = Tail(@)]
    /\ sh' = IF Capturing THEN sh
             ELSE IF Top.call.out.some THEN [sh EXCEPT !.spilt = @ \o Head(prog.todo)]
             ELSE [sh EXCEPT !.shown = @ \o Head(prog.todo)]
    /\ UNCHANGED fileVars

\* cat with an argument: the file, and a newline if it does not end in one.
CatOpen ==
    /\ Program /\ prog.pc = "open"
    /\ Fs!SysReadFile(Resolve(sh.cwd, Stage.args.name), MaxIoBuf)
    /\ prog' = [prog EXCEPT !.pc = "end",
                  !.todo = IF ~reply'.ok THEN Message
                           ELSE IF reply'.data = << >> THEN << >>
                           ELSE IF reply'.data[Len(reply'.data)] = Newline THEN <<reply'.data>>
                           ELSE <<reply'.data, <<Newline>>>>]
    /\ UNCHANGED <<kernelVars, sh>>

CallRead ==
    /\ Program /\ prog.pc = "read"
    /\ ReadBegin(ReadChunk)
    /\ prog' = [prog EXCEPT !.pc = "reading", !.buf = << >>]
    /\ UNCHANGED <<fileVars, sh>>

\* The turns of the kernel's read loop, on a program's behalf.
ServeRead ==
    /\ \/ ReadByte /\ prog' = [prog EXCEPT !.buf = Append(@, io.stdin[io.stdin_pos + 1])]
       \/ ReadEof /\ UNCHANGED prog
    /\ UNCHANGED <<fileVars, sh>>

PressKey(b) ==
    /\ Depth = 2 /\ prog.keys < MaxTyped
    /\ ReadTyped(b)
    /\ prog' = [prog EXCEPT !.buf = Append(@, b), !.keys = @ + 1]
    /\ UNCHANGED <<fileVars, sh>>

\* Nothing redirected and no key: the loop spins, for a program or the prompt.
AwaitKey ==
    /\ Reading \/ Shell("prompt")
    /\ StdinUnavailable
    /\ UNCHANGED systemVars

\* Mutation: tee keeps the last chunk only.
KeptLast(stream, chunk) == Truncate(chunk, MaxIoBuf)

Kept(stream, chunk) == stream \o Truncate(chunk, MaxIoBuf - Len(stream))

\* Both cat and tee pass a chunk on before they read again; tee keeps a copy.
ReadDone ==
    /\ Program /\ prog.pc = "reading"
    /\ prog' = IF Top.rd.count = 0
               THEN [prog EXCEPT !.pc = "end"]
               ELSE [prog EXCEPT !.pc = "read", !.todo = <<prog.buf>>,
                                 !.stream = IF Is(TeePath) THEN Kept(@, prog.buf) ELSE @]
    /\ UNCHANGED <<kernelVars, fileVars, sh>>

\* tee passes its words to write_file as they are, relative or not.
TeeStore ==
    /\ Program /\ prog.pc = "end" /\ prog.files # << >>
    /\ Fs!SysWriteFile(Head(prog.files), prog.stream)
    /\ prog' = [prog EXCEPT !.files = Tail(@),
                            !.todo = IF reply'.ok THEN << >> ELSE Message]
    /\ UNCHANGED <<kernelVars, sh>>

Leave ==
    /\ Program /\ prog.pc = "end" /\ prog.files = << >>
    /\ Return(0)
    /\ UNCHANGED <<fileVars, sh, prog>>

-----------------------------------------------------------------------------

Machine ==
    \/ StartSystem
    \/ Builtin \/ BeginStage \/ ReadInFile \/ RunStage
    \/ StageFailed \/ PassOn \/ EndLine
    \/ EmitNext \/ CatOpen \/ CallRead \/ ServeRead \/ ReadDone \/ TeeStore \/ Leave

SystemNext ==
    \/ Machine
    \/ \E line \in Lines : TypeLine(line)
    \/ \E b \in Byte : PressKey(b)
    \/ AwaitKey
    \/ Halt /\ UNCHANGED systemVars

\* One core, interrupts off: whichever code is next runs.  The user may walk away.
SystemSpec == SystemInit /\ [][SystemNext]_systemVars /\ WF_systemVars(Machine)

-----------------------------------------------------------------------------
(* What a command line means, without system calls, buffers shared between  *)
(* calls, or programs that read in chunks: a fold over its stages of         *)
(* functions from an input and a table of files to an output and a table.   *)

Stored(files, p, d) ==
    IF \/ p \in LongNames \cup {Fs!EmptyPath}
       \/ p \notin DOMAIN files /\ Cardinality(DOMAIN files) >= MaxRamFiles
    THEN files
    ELSE [q \in DOMAIN files \cup {p} |->
             IF q = p THEN Truncate(d, MaxRamFileLen) ELSE files[q]]

Readable(files, p) == p \notin LongNames /\ (Fs!IsStatic(p) \/ p \in DOMAIN files)
ContentOf(files, p) ==
    Truncate(IF Fs!IsStatic(p) THEN Fs!Entry(StaticTable, p).data ELSE files[p], MaxIoBuf)

\* A stage is captured unless it is the last and has no >.
Captured(line, k) == k # Len(line.stages) \/ line.stages[k].out # {}

\* One write of a program, and several.  m.out has all it wrote; what a capture
\* buffer that is already full does not take is spilt.
Wrote(m, d, captured) ==
    [out   |-> m.out \o d, files |-> m.files,
     spilt |-> IF captured /\ Len(m.out) >= MaxIoStdout THEN m.spilt \o d ELSE m.spilt]

WroteAll(m, ds, captured) ==
    LET w[k \in 0 .. Len(ds)] == IF k = 0 THEN m ELSE Wrote(w[k - 1], ds[k], captured)
    IN  w[Len(ds)]

\* tee: each file gets the stream; one that can't be written costs a message.
TeeWrote(m, word, stream, captured) ==
    LET after == Stored(m.files, word, stream)
    IN  WroteAll([m EXCEPT !.files = after],
                 IF word \in DOMAIN after THEN << >> ELSE Message, captured)

\* It has passed its input on by then.
TeeMeaning(words, m, captured) ==
    LET t[k \in 0 .. Len(words)] ==
            IF k = 0 THEN m
            ELSE TeeWrote(t[k - 1], words[k], Truncate(m.out, MaxIoBuf), captured)
    IN  t

\* cat ends the last line of a file, not that of its input.
Lined(d) ==
    IF d = << >> THEN << >>
    ELSE IF d[Len(d)] = Newline THEN <<d>>
    ELSE <<d, <<Newline>>>>

CatWrites(name, files) ==
    IF Readable(files, name) THEN Lined(ContentOf(files, name)) ELSE Message

EchoWrites(text) == IF text = << >> THEN <<<<Newline>>>> ELSE <<text, <<Newline>>>>

\* m.out is the program's input here, and its output in the result.
ProgramMeaning(path, args, cwd, m, captured) ==
    LET silent == [m EXCEPT !.out = << >>]
    IN  CASE path = EchoPath -> WroteAll(silent, EchoWrites(args.text), captured)
          [] path = TeePath  -> TeeMeaning(args.words, m, captured)[Len(args.words)]
          [] path = CatPath  ->
                IF args.words = << >> THEN m
                ELSE WroteAll(silent, CatWrites(Resolve(cwd, args.name), m.files), captured)

Runs(stage) ==
    stage.parses /\ stage.cmd \in DOMAIN BinPath /\ BinPath[stage.cmd] \in {CatPath, TeePath, EchoPath}

\* What the first stage is given, and what a stage makes of what it is given: ok
\* is FALSE from the first stage on that could not be started.
Given(first, cwd, files) ==
    IF first.in = {} THEN [ok |-> TRUE, out |-> << >>, spilt |-> << >>, files |-> files]
    ELSE LET p == CHOOSE p \in {Resolve(cwd, n) : n \in first.in} : TRUE
         IN  [ok |-> Readable(files, p), spilt |-> << >>, files |-> files,
              out |-> IF Readable(files, p) THEN ContentOf(files, p) ELSE << >>]

Ran(m, stage, cwd, captured) ==
    IF ~m.ok \/ ~Runs(stage) THEN [m EXCEPT !.ok = FALSE]
    ELSE LET given == [out |-> Truncate(m.out, MaxIoBuf), spilt |-> m.spilt, files |-> m.files]
             did   == ProgramMeaning(BinPath[stage.cmd], stage.args, cwd, given, captured)
         IN  [ok |-> TRUE, out |-> did.out, spilt |-> did.spilt, files |-> did.files]

AfterStages(line, cwd, files) ==
    LET after[k \in 0 .. Len(line.stages)] ==
            IF k = 0 THEN Given(line.stages[1], cwd, files)
            ELSE Ran(after[k - 1], line.stages[k], cwd, Captured(line, k))
    IN  after

Meaning(line, cwd, files) ==
    LET n      == Len(line.stages)
        end    == AfterStages(line, cwd, files)[n]
        target == line.stages[n].out
    IN  [spilt |-> end.spilt,
         shown |-> IF end.ok /\ target = {} THEN end.out ELSE << >>,
         files |-> IF ~end.ok \/ target = {} THEN end.files
                   ELSE Stored(end.files,
                               CHOOSE p \in {Resolve(cwd, q) : q \in target} : TRUE,
                               Truncate(end.out, MaxIoBuf))]

-----------------------------------------------------------------------------
(* Properties.                                                             *)

\* When the shell is back at its prompt, the line it ran has done to the files
\* and the terminal exactly what its stages mean: each stage saw the whole output
\* of the one before it (up to a buffer), > was written only if every stage ran,
\* the stages before a failed one have had their effect and the ones after it
\* none, and of captured output the terminal shows what was written after the
\* buffer was full, no more.
LineMeansItsStages ==
    Shell("prompt") /\ sh.line # NoLine /\ ~IsBuiltin =>
        LET m == Meaning(sh.line, sh.cwd, sh.before)
        IN  FileTable = m.files /\ sh.spilt = m.spilt /\ sh.shown = m.shown

\* A program is left to the keyboard only if it heads a line without <, or was
\* piped nothing at all; otherwise what it reads comes from the line.
KeyboardOnlyWithoutInput ==
    Depth = 2 /\ StdinUnavailable =>
        \/ sh.idx = 1 /\ Stage.in = {}
        \/ sh.pipe = [some |-> TRUE, data |-> << >>]

\* Every command line comes back to a prompt that hears the keyboard, ends the
\* shell, or is at some time waiting for a key.
LineEnds ==
    sh.at # "prompt" ~>
        \/ sh.at = "prompt" /\ StdinUnavailable
        \/ phase = "halted"
        \/ Reading /\ StdinUnavailable
=============================================================================
