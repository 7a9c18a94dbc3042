# smultron in TLA+

smultron is a single-core x86-64 kernel in Rust that runs with interrupts off.
Its kernel has an in-memory file system and a table of process slots; its shell
runs programs one inside the other with `exec`, and connects them with `|`, `<`
and `>`. This directory holds TLA+ models of it, TLC configurations that check
them on small instances, and TLAPS proofs.

    tlc -workers 2 -config MCExec.cfg MCExec     # any run: the cfg and its MC module
    tlapm ExecProofs.tla                         # the proofs of one component

## The system

| component | state | operations | interacts with |
|---|---|---|---|
| process table (`kernel/src/process.rs`) | `PROCESS_MANAGER`: next pid, slots in use, 16 records | `spawn_slot`, `finish` | loader, file system |
| IO redirection (`process.rs`) | `IO_STATE`: one stdin buffer and position, one stdout buffer, three flags | `exec_with_io`, `take_stdin_byte`, `capture_stdout` | read, write and exec system calls |
| system calls (`syscall.rs`) | none | Read, Write, Execve, ExecIo, ReadDir, ReadFile, WriteFile, Exit | called by programs through a gate; a plain function call |
| file system (`vfs.rs`) | `FILES` (built in), `RAM_FILES` (16 entries of 4096 bytes) | `read_file`, `read_file_bytes`, `write_file`, `list_dir` | system calls; exec reads images from `FILES` |
| ELF loader (`elf_loader.rs`) | none (the slot's memory) | probe, validate, load, jump | exec |
| boot (`main.rs`, `memory.rs`, `allocator.rs`) | page tables, frame allocator, heap | run once | exec of `/bin/init` |
| devices (`vga_buffer.rs`, `keyboard.rs`, `serial.rs`) | screen, cursor, polled input | write byte, try read byte | read and write |
| shell (`userspace/apps/init`) | current line, pipe buffers, environment | line editing, expansion, tokenizing, stages, builtins | exec, files |
| programs cat, tee, echo, sed, ls, env | local buffers | one run each | read, write, files |
| libos | none | marshals arguments to a system call | all programs |

There is no preemption and no concurrency: `exec` is a nested function call, and
the shell waits below the program it started on one kernel stack. What is hard
here is the sharing that results. One `IO_STATE` serves all calls and is
overwritten by every `exec` without being saved; slots and records are taken and
given back across calls that can fail half way; buffers, tables and counters have
limits that few callers look at; a program reads in chunks what its caller supplied
whole; a line's stages are parsed one at a time, after their predecessors have
run; and anything that waits for a key stops the whole machine.

What makes each part correct: a slot is held by exactly one program on the stack
and comes back whatever happens; each exec behaves as if it had its own buffers;
redirected input arrives whole, in order and with an end; captured output is the
program's own; the file arrays behave like a table; a line does to the files and
the terminal what the composition of its stages means; a typed line is read as its
grammar says, and seen as it is read; shell and programs agree on variables and
paths; a program runs on its own image in memory of its own; and control comes back
to the prompt. `PROJECT.json` lists the hazards line by line.

## Modules

| module | models | composed with |
|---|---|---|
| `Exec` | process table, `IO_STATE`, Read, Write, Execve, ExecIo, boot and halt | |
| `PerCallIo` | abstract: every exec has an input and an output of its own | implemented by `Exec` (`ExecRefinement`) |
| `ExecProofs` | the inductive invariants of `Exec`, its theorems, and the refinement of `PerCallIo` | extends `Exec`, `ExecRefinement` |
| `NatFacts` | least elements, induction and recursion over the naturals, for the proofs | |
| `Vfs` | `FILES`, `RAM_FILES`, ReadFile, WriteFile, ReadDir | |
| `FileStore` | abstract: a bounded table over read-only files | implemented by `Vfs` (`VfsRefinement`) |
| `VfsProofs`, `EnvironmentProofs`, `MemoryProofs`, `TerminalProofs`, `TokenizerProofs` | the inductive invariant of a component and its theorems | each extends its component and `NatFacts` |
| `Pipeline` | the shell's execution of command lines, with cat, tee and echo | extends `Exec`, instantiates `Vfs` |
| `PipelineProofs` | the inductive invariant of the running system and its theorems | extends `Pipeline`, `ExecProofs` and `NatFacts` |
| `Tokenizer` | `tokenize_command`, the split into stages, `parse_stage` | |
| `Environment` | `ENV`, `set_env`, `get_env`, `build_env_str`, `expand_line`, `set_cwd`, the shell's and the programs' `resolve_path` | |
| `EnvTable` | abstract: a bounded table from names to values | implemented by `Environment` |
| `Terminal` | the VGA writer and the shell's `read_line` on it | |
| `Sed` | sed's script, substitution and runs over files and input | |
| `Memory` | frame allocator, mapping of heap and slots at boot, ELF loader | |
| `MCExec`, `MCVfs`, `MCPipeline`, `MCTokenizer`, `MCEnvironment`, `MCTerminal`, `MCSed`, `MCMemory` | constants for TLC | |

### Exec

`pm` is `PROCESS_MANAGER`, `io` is `IO_STATE`, `stack` the `exec_with_io` calls in
progress, `phase` where `kernel_main` is, `result` what the last `exec_with_io`
returned. `exec_with_io` is two actions with the program's run in between:
`ExecStart` does everything up to the jump to the entry point (IO setup, path and
slot checks, `spawn_slot`, loader), `Return` the rest (`finish`, copy-out, reset).
A call that runs nothing is one action, `ExecRefuse`, which covers all five
refusals, with the `finish` that follows a refusing loader. A read takes a turn of
its loop per action (`ReadByte`, `ReadTyped`, `ReadEof`); a write is one action
that either captures or shows. Programs are nondeterministic: between two calls
they do anything; only the shell calls exec, since only its code does. `spawn_slot`
takes the first free record of the table; nothing depends on which one it is, so
the model lets it be any fixed choice. Fields `asked`, `got`, `tty`, `wrote` and
`shown` of a frame are history for the properties.

Buffers are sequences, so their lengths are those of the sequences, and the stale
bytes behind `stdin_len` and `stdout_len` have no counterpart; the code never
reads them. Calls with a null pointer, a bad descriptor or a zero length return at
once and change nothing; they are not actions.

### Vfs

Entries of `RAM_FILES` are filled from the front and never freed, so the used ones
are a sequence. Paths are sequences of components, empty ones included, which
keeps what `list_dir` depends on: trailing slashes, relative paths, the root and
the empty path. `LongPaths` are those the system call's 128-byte buffer refuses.
Byte lengths of names matter only in a listing (`NameLen`). The clamp of
directory paths at 126 bytes (`vfs.rs:160`) is not modelled. `write_file` answers
with the length it was given even where it kept less. `ASSUME VfsTypes` types the
parameters: bytes, names with a length, and a static table of paths and contents.

### Pipeline

A line comes tokenized: `[ops, stages]`, each stage as `parse_stage` leaves it.
`sh` is the shell's position in `dispatch_compound_tokens` or `dispatch_simple`
and its locals (`pipe` is `pipe_data` with its length); `prog` is the running
program's. Every step of the shell or of a program that makes a system call is
conjoined with the action of `Exec` or `Vfs` it makes: `RunStage` with `SysExecIo`
or `SysExecve`, `CallRead` and `ServeRead` with the read loop, `EmitNext` with
`Write`, `Leave` with `Return`, `TeeStore` and `EndLine` with `SysWriteFile`. As in the
code, a stage is checked when its turn comes; `tee` does not resolve its file
names against the working directory, while cat and the shell do.

The argument string of a stage is given in the readings that are made of it: its bytes
(echo), its words (tee, and cat's trimmed argument: one of blanks only makes cat read
its input), one path (cat, `cd`), and the directory an `export CWD=` sets. `parses`
is `parse_stage`'s verdict, and for a line without an operator, builtin or not, that its words fit the
argument buffer. A working directory that `export` sets is not resolved or checked, it
may be relative; the empty one, with which the shell panics, is `Environment`'s. A
message is a sequence of strings, each of them a write of its own (`Message`), as `cat: cannot
read`, the path and the newline are. The limit of sixteen files in tee, the name length limits of the
shell's buffers and of `set_env`, and sed, ls and env are left out of it.

What reaches the terminal is kept in two history variables of `sh`: `shown` is what the last
stage wrote without being captured, `spilt` what captured programs wrote after their buffer was
full, which the kernel prints (`exec_capture_full`); `EmitNext` asks `Exec`'s `Capturing` at each
write. `LineMeansItsStages` compares both with what the stages mean. The shell's own messages are
left out.

### Tokenizer

One character of the line is scanned per step, so that a state is the scanner at
its loop head: `scan` holds the variables of `tokenize_command`, with `parsed` the
unquoted characters and tokens as positions in it. `EndOfLine` is the rest of
`dispatch`, `ParseStage` one turn of the second loop of `dispatch_compound_tokens`
without the execution, which is `Pipeline`'s. Lines are all sequences of the given
characters that begin and end with something else than a blank, as `trim` leaves
them; the tab is treated as the blank is. The grammar they are compared with
(`Reading`, `Piece`) is written by positions: which quote closes which, and which
backslash counts because an even number precedes it. The stages of a line and the words of a
program are its tokens or characters cut at positions (`Parts`), and what is kept of them is
selected by position (`Selection`).

### Environment

Here names, values and paths are sequences of characters, because the limits are
on their lengths. `Export`, `Cd` and `Redirect` are the commands that write or use
`ENV`; `exported` remembers whether CWD was ever set by `export`. Every path goes
through 128-byte buffers with four different checks: `set_cwd` cuts at 127 without
a word, `resolve_path` of the shell accepts 128 and libos refuses it, cat and sed
take absolute paths of any length. That a directory cut short never becomes CWD
is a consequence of `set_env`'s limit of 64, `ASSUME EnvironmentSizes` states the
relation it takes. After `export CWD=` the shell panics on the first relative
path it resolves (`Redirect`), while cat and sed take the root; a panic spins, so
nothing more happens. Values with bytes that aren't UTF-8 are left out. `Char` is
what text is made of, `ASSUME EnvironmentTypes` types the parameters with it and says
that a dollar is in no name.

### Terminal

`screen` and `column` are the Writer's buffer and position, `buf` the line
`read_line` has so far. `Output` is anything a program or the shell prints, the
prompt may therefore begin in any column. Backspace does nothing in column 0, so a
line that has wrapped can't be erased on the screen past its last row, though it
is in the buffer: from then on (`crossed`) screen and line differ, where
`OS_STATE.md:171` says that editing erases characters correctly. `ScreenShowsLine`
says that this is the only way they can differ: until then each cell before the
cursor, counted back from it, holds the character of prompt and line that is as far
from its end. `Written` is a recursive function, one `WriteByte` per byte, as
`write_string` is a loop. `ASSUME TerminalTypes` says that a prompt is plain text and that
neither backspace nor return is a character of a line, which `read_line` sees to.

### Sed

A state is a run of sed: its script is parsed in `Start`, then a read or a file is
one action. The reference `Edited` says by position which occurrences of the
pattern are replaced: taken from the left, none overlapping the one before. Output is
cut off at 4096 bytes, which the property includes. A redirected input never takes
two reads that could split a match, because the kernel keeps no more than sed reads
at once; `ASSUME SedSizes` states it.

### Memory

Memory is a function of cells (frame, offset), and everything reaches it through
`mapping`. `MapHeap` and `MapSlot` are turns of the loops in `init_heap` and
`map_range`; page tables have one level and take frames in between, as `map_to`
does; those of the pages the bootloader has mapped are there from the start. `Exec` is
`exec_in_slot` up to the jump; `Store` is the running program, which
overwrites its whole slot with something else, the worst it may leave to the next.
That a program stores in its own slot only is an assumption built into `Store`, and no property
says it: programs run in ring 0 on the kernel's stack, and start wherever `e_entry` points,
which the loader compares with 0 only. `LoadStaysInSlot` is about the steps that load.
Bytes of an image are distinct values, so that a byte in the wrong place shows.
Header fields are numbers below `Word`, and the loader's sums are those of
`checked_add`. `UsableFrames` goes through the regions in their order and `Loaded` through the
program headers, both one at a time, as recursive functions. Assumed of the bootloader:
regions don't overlap, and what it has mapped, and its page tables, are not in a usable one
(`MemoryMapsDisjoint`, `BootMappingsReserved`); the program headers of an image are read as
unsigned numbers and a usable region's frames exist (`MemoryTypes`).

## Runs

| run | what it shows |
|---|---|
| `exec` (`MCExec.cfg`) | the invariants of the execution core, refused execs leave no trace, redirected reads return, and `IoIsPerCall`: `Exec` implements `PerCallIo` |
| `vfs` (`MCVfs.cfg`) | RAM paths are distinct, listings exact, and `VfsIsFileStore`: `Vfs` implements `FileStore` |
| `pipeline` (`MCPipeline.cfg`) | lines mean the composition of their stages, to the files and on the terminal, spilt output included; the keyboard is read only where nothing was piped; every line ends or waits for a key |
| `tokenizer` (`MCTokenizer.cfg`) | for every line up to seven characters, tokens tile the parsed buffer and are what the grammar reads; stages hold every word once; lines are refused for no other reason than they should be |
| `environment` (`MCEnvironment.cfg`) | `EnvIsTable`: the array implements `EnvTable`; programs see the shell's variables and resolve paths as it does; `cd d` and then `f` is `d/f`; expansion is substitution; only `export` leads to the empty-CWD panic |
| `terminal` (`MCTerminal.cfg`) | what is typed is what is seen, nothing lies behind the cursor, and earlier output only scrolls |
| `sed` (`MCSed.cfg`) | scripts and output are what a positional definition says |
| `memory` (`MCMemory.cfg`) | frames serve one purpose each; a slot holds its image and nothing older; loading touches its slot only, whatever the header says |
| `exec_capture_full` | violation: captured output reaches the terminal once 4096 bytes are held (`process.rs:226`, against `OS_STATE.md:406`) |
| `exec_empty_stdin` | violation: an empty redirection is none, and read waits for the keyboard (`syscall.rs:235`, against `OS_STATE.md:405`) |
| `vfs_shadow` | violation: a write to a built-in path succeeds and is never read (`vfs.rs:94`, against `OS_STATE.md:409`) |
| `tokenizer_quoted` | violation: a quoted argument with a blank, or an empty one, doesn't reach tee or sed as one (`init/src/lib.rs:516`, against `OS_STATE.md:449`) |

Bounds. `exec` has init, a program, an image the loader refuses, a file with no
slot and a name with no file: one path per outcome of `exec_internal`. Buffers
hold two bytes, with inputs, outputs and read lengths below, at and above that;
pids saturate at 3, so saturation is reached by the second child and passed by
later ones; a program writes at most 4 bytes (`MaxWritten`), twice what is kept.
Since at most two programs nest, three records leave one to spare. Two byte
values tell line ends from the rest and let order show.
`vfs` has two built-in files and two RAM entries, enough to be full, to overwrite
the first or the second, and to collide with a built-in file or directory, with
a trailing slash, or without a leading one; contents fit or don't; listing buffers
have room for one to three names.
`pipeline` has 22 lines of up to three stages, typed in any order four times
(`MaxLines`), enough to fill the RAM array and then read, overwrite, be refused
and change directory; buffers of three bytes and reads of two, so that inputs end
within and on a chunk and one file exceeds every buffer, and a captured cat writes behind
a full one; two keys per program (`MaxTyped`).
`tokenizer` has the seven characters the scanner treats in a way of its own and one
it does not, in all lines of up to seven: enough for three words and two operators,
nested quotes, runs of backslashes, and to exceed five tokens, two stages, two
words of a stage and three characters of arguments, into which two words and the blank
between them just fit.
`environment` has three variables for four names, one of them CWD, a fifth name too
long and the empty name; values and directories at and above four characters, paths
at and above eight, an environment string that holds two or three of the variables,
and lines that expand to less and more than six characters.
`terminal` has three rows of four cells and lines of up to seven behind a prompt of
two: they wrap twice, scroll away their own beginning and begin in any column.
`sed` runs all scripts of up to six characters over `/`, `a`, backslash and `g`, where
`a` and `g` may be delimiters too, and longer ones that fill or exceed
three characters of pattern and replacement, over all inputs of up to four
characters; the output buffer holds four, so replacements grow beyond it.
`memory` has two slots of two pages of two bytes behind a page of heap, tables of
three pages, so that a range crosses a table, one table that the bootloader has made, and a
reserved region amid the usable
frames, or too few of these unless the bootloader has mapped a page already; segments start before, at and
amid the slots and end before, at and behind their ends, and at 32, where words
wrap.

Fairness. The runs of `Tokenizer`, `Environment`, `Terminal`, `Sed` and `Memory`
check safety only and assume none. `exec` assumes weak fairness of the kernel's own steps only: boot, and a
read that can be served from redirected input. A program may compute for ever and
nobody promises a key. `pipeline` assumes weak fairness of `Machine`, the steps of
kernel, shell and programs together: with one core and interrupts off, whichever
code is next runs, and these programs' code is known. Typing lines and pressing
keys are not fair; a read without input spins (`AwaitKey`).

The reference that `LineMeansItsStages` compares with (`Meaning`) has no system calls
and no shared or chunked buffers: it folds functions from an input and a table of
files over the stages. A stage that reads the keyboard never ends in cat and tee,
so such a line never comes back and has no meaning to compare with. In particular
`cat empty | cat` hangs, a consequence of the finding `exec_empty_stdin`.

## Proofs

`ExecProofs` proves, for all sets of paths, slots, records, buffer sizes and pid
widths that satisfy the assumptions `ExecPaths`, `ExecSizes` and `ExecInputs` of
`Exec`, that `TypeOK`, `SlotsHeldByStack`, `RecordsMatchStack`, `NestingBounded` and
`IoIsTops` always hold. The assumptions say that different programs have different
slots (`slot_for_path` is a table of distinct numbers), that there are at least
two records and pids, and that buffers are not empty; the code's values satisfy
them.

None of the invariants is inductive alone. That a record is found by its pid
(`RecordsMatchStack`) fails if two programs on the stack can share one, which is just
what saturation produces: it holds because init is always 1, a child at least 2,
and there is never a third. So `StackShape` adds that the stack is at most two deep
with init's own call at the bottom (only init's code calls exec, and its slot is
taken while it runs), that init's pid is 1 and a child's is not, that `next_pid` is
at least 2 once init runs, and that nothing is on the stack before boot and after
halt. `SlotsHeldByStack` then makes `finish` free the right slot, and `IoIsTops`
survives the return of a child because the caller, init, has no redirection that
`exec_with_io` could have wiped. `IInv` is their conjunction with `TypeOK`. The proof
has a lemma per kind of step: frames that change under a read or write, a start, a
refusal, a return; `StepIInv` puts the actions of `Next` together, and temporal
steps are closed by PTL.

The second half of the module is about the bytes. Its invariant `IoInv` adds to `IInv` where the
running program's reads and writes have brought `IO_STATE` (`IoFits`): what it got is
the input up to `stdin_pos`, the capture buffer is what it wrote cut at
`MAX_IO_STDOUT`, a read that ended short ended at the end; and, for every frame below,
that a call without redirection has neither input nor output history (`FrameFits`), which
is what makes it harmless that a return resets `IO_STATE` rather than restoring
it: init's own call is the only one below, and it has none. From it follow
`StdinDeliveredInOrder`, `ShortReadOnlyAtEof`, `CaptureIsPrefix` and, for the step that
returns, `ReturnsOwnOutput`; that the clamp to the kernel's buffer and then to the caller's
is the clamp to the caller's rests on `exec_with_io`'s refusal of larger ones. The
refinement `IoIsPerCall` maps each frame to the buffers its call would have (`CallBuffers`):
the running one's from `IO_STATE`, the waiting ones' from their own history. Each action of `Exec` is then
the abstract call, return, read or write, or leaves all buffers as they are.
Both invariants are proved for the steps of any programs (`KernelStep`), not only those that
`Next` lets pass the values of `Stdins`, `Writes` and `ReadLens`, so that they can be used for
the programs of `Pipeline`.

`PipelineProofs` proves `LineMeansItsStages`, and with it that the parts work together: for
every set of lines, sizes of buffers, reads and files, chunked reads, captured writes and the
one `IO_STATE` come to what the fold `Meaning` says. The property speaks of the prompt only; to
be inductive it has to say for every point of a line how far its effect has got. So
`LineInv` has one conjunct per place of the shell. Before a stage, the files are what the
stages before make of them and the pipe holds their output, cut at a buffer (`AtStage`,
`AtInFile`, `AtExec`); when exec has come back, the stage has had its effect, or nothing was run
and it is not one that runs (`AtReturn`). While a program runs, the invariant ties its
progress to its history: `Launched` says that it got the path, input and output its stage asks
for, `Copying` that what cat or tee has said and holds is what it has been given, byte for byte, and
that, given no more than the kernel's buffer, it spills nothing by that (`GotBounded`),
`TeeStoring` how many of its files tee has written, and what echo or cat with a file has said and has
still to say is the stage's output (`Said`). `Said` is an outcome, the output with the
files and the spilt bytes that belong to it, and includes the strings a program is about to
write, so that it does not matter where a write has got to; which of them spill is told by
the length of what has been written before (`CaptureFacts`: the kernel captures exactly
while that is shorter than its buffer). `SystemInv` adds `IoInv`, which is
kept because every step of the system is one of the kernel (`SystemIsKernelStep`). That a
program leaves its read loop only with the whole input is `IoInv`'s: a count of zero means
that `stdin_pos` is at the end (`InputRead`). That RAM_FILES is the table `Meaning` updates is
proved from the distinctness of its paths (`WriteStores`, `ReadReturns`), and the two folds are
unrolled with `Recursion`. That a line stays abandoned is an induction over the
stages behind the failed one (`AbandonedForGood`). `SystemInv` was checked with TLC on
`MCPipeline`'s constants first.
`KeyboardIsLastResort` and `KernelUnderShell` follow from the same invariant.

`NatFacts` is what the other proofs use for loops. tlapm can't apply an induction rule
to a predicate here, so induction is stated over sets of numbers (`SetInduction`,
`BoundedInduction`), and `Recursion` says that a step function has a function
that follows it; a model's recursive function is the `CHOOSE` of such a one, and is then
reasoned about step by step with a loop invariant. `BackwardInduction` and
`BackwardRecursion` say the same of a function whose value at a position needs those behind it.

`VfsProofs`: the entries of `RAM_FILES` have names the system call lets through, under
different paths (`VfsInv`); a first match is then the only one, so that the array is a
table, and every call is the same call on that table (`ArrayIsTable`). For
`ListingsFaithful` the loop invariant is `ListingInv`: after n entries of the
two arrays the names put down so far come from them, are different, fit the buffer, and
a name that is missing would not have fitted when its turn came; since the buffer only
fills, it does not fit at the end.

`EnvironmentProofs`: `EnvInv` says that used entries are in front under different names,
and that CWD, once set, is the first of them and not empty unless a user has
exported it (`CwdKept`). It makes the array a table as in `VfsProofs`. For
`ProgramsAgree` the loop of `build_env_str` is followed pair by pair (`BuildInv`): what is in the string
is a used entry, each entry is in it until a running total exceeds the buffer, and
CWD is, because it comes first and `EnvironmentSizes` lets it fit. `ProgramsResolveAlike` and `CdComposes` then
compare the two resolutions and their different buffer checks by length, for all directories
and names. `ExpansionSubstitutes` compares the loop of `expand_line` with the positions of
the line: before each turn the loop is not amid a name, and has put down what the
positions so far contribute, cut at the buffer's end (`Agrees`); since a cut text never grows
again, that the loop then stops early loses nothing.

`MemoryProofs`: the list of usable frames has none twice since regions are disjoint
(`FramesUpTo`, by induction over the regions), `next` only rises, and what is mapped came from
below it or from the bootloader; so `FramesDistinct` is kept by the mapping loops, whose
place is kept in `Progress`. Distinct frames make the address-to-cell map injective
(`CellAtProperties`), so a store to one address changes no other. For `ImageInPlace` and
`LoadConfined` the loop over program headers is followed with the contents of each slot address
as the invariant; `Valid` is used exactly where the code checks: a segment that passes lies
within the slot and the file, whatever the word width.

`TerminalProofs`: a display is sound if its last row is blank from the cursor on. One
`WriteByte` keeps this and moves the rows by one at most; the bytes of a write
follow by induction. `Shows` relates a display to a line by the distance of a cell from the
cursor; it survives a character, a new row, and an erasure inside the last row
(backspace, blank, backspace), and `crossed` is exactly the case in which it does not.

`TokenizerProofs`: `Tiled` says of a scanner that each word begins where the last one before it
ends, that the last one ends where the word in progress starts or else the buffer does, and that
nothing is quoted or escaped outside of a word: a quote begins one, even if it is empty, and
only blanks and operators, which count as such only outside of quotes, end one. There is a
lemma for each helper (`PushChar`, `PushToken`, `EndWord`, `BeginWord`), and `ScannedTiles` puts them together along the
branches of the scanner. A step adds at most one character to the buffer
and exactly one to the line, and the expanded line has no more room than `MAX_PARSED_LINE`; so
`push_char`'s "line too long" is never returned. `StageInv` adds what `ParseStage` leaves: the
stages that have run were parsed without an error, and a line refused amid its stages was refused
by the next one. For `StagesAreTheirTokens` the loop of `parse_stage` is followed token by
token: `Follows` says by position what it has found after n tokens (the words, the files, the operator
whose file comes next), and `Formed` what the tokens so far look like if it has found no error. The two
sides number the same positions, the loop by appending and `WordsOf` by rank among a finite
set (`Nth`), so the lemmas on ranks say what one more position does to a selection. For
`PlainWordsArrive` the argument string is built word by word: each one joined behind a blank
adds one blank to the positions it is cut at, and nothing inside of a word that has none.

For `TokensAreTheGrammar` the scanner, which goes through the line from the front, meets a
grammar that is a recursion from its end. `GrammarReads` says that `Reading` is the value at the
first position of two functions that satisfy the grammar's equations, and that there are no
other two. `ScanInv` is the invariant: `scan` is the last state of a run of the scanner
along the line (`IsRun`), or `AtEnd` of it, and `error` is the scanner's where it failed. For a
line that has been read the run is then followed from its start: `Agrees` says of the state behind k
characters that the grammar reads in the whole line the items the scanner has so far, followed by
what it reads in the rest; amid a word, by a word whose text is what is in the buffer
and what the grammar reads up to the word's end. Inside quotes the piece began at the
quote, no character since closes it (`Open`), and the buffer has those that count
(`Quoted`); whether a backslash is escaped the grammar tells by the length of the run of them
before it, the scanner by its flag, and `EscapedNext` that this is the same. `StepAgrees` takes one
character, with a lemma for each kind of place it may stand in; at the end of the line a
piece is still open exactly where `AtEnd` fails. TLC can't evaluate `ScanInv`, which
quantifies over runs; what it implies is checked in the run `tokenizer`.

The theorems hold under the named assumptions on the constants (`ExecPaths`, `ExecSizes`,
`ExecInputs`, `VfsTypes`, `VfsConstants`, `EnvironmentTypes`, `EnvironmentSizes`,
`MemorySizes`, `MemoryTypes`, `MemoryMapsDisjoint`, `BootMappingsReserved`,
`TerminalSizes`, `TerminalTypes`, `TokenizerSizes`, `PipelineSizes`, `PipelineComponents`,
`PipelinePrograms`, `PipelineLines`), which TLC evaluates in every run and the constants of the code satisfy.
Those of `Pipeline` say that the shell's buffers are no longer than the kernel's
(`MAX_IO_BUF` and `MAX_IO_STDIN` are both 4096), that the programs are installed and are not
builtins, that commands name no image that loads but theirs and init's (ls, env and sed
are left out of the model), and that a line without an operator has one stage, `<` and `>` name
one file, which is what `parse_stage` leaves, and that `CWD` is not set to the empty string.

Model-checked only: everything about `Sed`, whose substitution is a recursion over the
text of one chunk. Out of the prover's reach: liveness (`RedirectedReadReturns`, `LineEnds`).

## Not modelled

The heap's allocator and the levels of the page tables are library code; descriptor
tables are set up once and not touched again; interrupts are off. Keyboard and
serial ports are a byte that may arrive. The ring 3 scaffolding, the Exit call,
`create_example_mapping` and `init_heap_early` are unused: all programs return from
`_start`. ls and env print what one call or their environment gives them. Colours,
the serial copy of the output and bytes that are not ASCII are left out of
`Terminal`; the clamp of directory paths at 126 bytes out of `Vfs`; tee's limit of
sixteen files out of `Pipeline`. Build script and QEMU harness are outside the
system. See the components in `PROJECT.json`.

## Plan

Done: all modules with their runs; the invariants and refinements of `Exec`, `Vfs` and
`Environment`, the invariants of `Memory` and `Terminal`, the scanner, its grammar and the stages of
`Tokenizer`, and the invariant of the whole system of `Pipeline` proved. What is left is to prove
`Sed`'s `TypeOK`, and `OutputIsSubstitution` for one chunk of input.
