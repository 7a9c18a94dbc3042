--------------------------------- MODULE Vfs ---------------------------------
(***************************************************************************)
(* The file system (kernel/src/vfs.rs) behind the system calls ReadFile,    *)
(* WriteFile and ReadDir (kernel/src/syscall.rs): a static table of files   *)
(* built into the kernel and RAM_FILES, an array of written ones.          *)
(*                                                                         *)
(* Entries of RAM_FILES are taken from the front and never given back, so   *)
(* the used ones are a sequence.  A path is the record [abs, comps] of      *)
(* whether it starts with a slash and of the components between slashes,    *)
(* empty ones included: "/" is [abs |-> TRUE, comps |-> <<"">>], "/a//b" has *)
(* comps <<"a", "", "b">>, the empty string is [abs |-> FALSE, comps |-> <<"">>]. *)
(***************************************************************************)
EXTENDS Integers, Sequences

CONSTANTS
    FILES,          \* the static table: a sequence of records [path, data]
    Paths,          \* paths a program may pass
    LongPaths,      \* those of them that don't fit the kernel's path buffer
    Contents,       \* what a program may write
    Caps,           \* capacities of its read and listing buffers
    NameLen,        \* length of a component name, a function
    Byte,           \* what a file is made of
    MaxRamFiles,    \* MAX_RAM_FILES
    MaxRamFileLen   \* MAX_RAM_FILE_LEN

EmptyPath == [abs |-> FALSE, comps |-> <<"">>]
RootPath  == [abs |-> TRUE, comps |-> <<"">>]

FilePath == [abs : BOOLEAN, comps : Seq(DOMAIN NameLen) \ {<< >>}]

ASSUME VfsTypes ==
    /\ Paths \subseteq FilePath /\ Contents \subseteq Seq(Byte)
    /\ FILES \in Seq([path : FilePath, data : Seq(Byte)])
    /\ \A name \in DOMAIN NameLen : NameLen[name] \in Nat

ASSUME VfsConstants ==
    /\ MaxRamFiles \in Nat /\ MaxRamFileLen \in Nat
    /\ Caps \subseteq Nat \ {0}
    /\ LongPaths \subseteq Paths
    /\ \A i \in 1 .. Len(FILES) : FILES[i].path # EmptyPath

VARIABLES
    ram_files,   \* RAM_FILES: the used entries
    reply        \* what the last system call gave back

vfsVars == <<ram_files, reply>>

Min2(m, n) == IF m <= n THEN m ELSE n
Clipped(data, n) == SubSeq(data, 1, Min2(Len(data), n))

-----------------------------------------------------------------------------
(* Looking a path up.                                                      *)

\* Mutation: the comparison looks at the last component only.
MatchesByName(files, path) ==
    {i \in 1 .. Len(files) :
        files[i].path.comps[Len(files[i].path.comps)] = path.comps[Len(path.comps)]}

Matches(files, path) == {i \in 1 .. Len(files) : files[i].path = path}

Earliest(S) == CHOOSE i \in S : \A j \in S : i <= j

\* The first entry of that name.
Entry(files, path) == files[Earliest(Matches(files, path))]

IsStatic(path) == Matches(FILES, path) # {}
IsRam(path)    == Matches(ram_files, path) # {}

\* read_file_bytes: the static table is asked first.
Lookup(path) ==
    IF IsStatic(path) THEN Entry(FILES, path).data ELSE Entry(ram_files, path).data

\* copy_cstr_uninit finds no terminator within the kernel's buffer.
PathTooLong(path) == path \in LongPaths

-----------------------------------------------------------------------------
(* list_dir.                                                               *)

\* The components that every entry of `dir' starts with: "/" alone is not
\* followed by another slash, and "" becomes "/".
DirPrefix(dir) ==
    IF dir \in {RootPath, EmptyPath} THEN [abs |-> TRUE, comps |-> << >>] ELSE dir

InDir(path, dir) ==
    LET prefix == DirPrefix(dir) n == Len(prefix.comps)
    IN  /\ path.abs = prefix.abs
        /\ Len(path.comps) > n
        /\ SubSeq(path.comps, 1, n) = prefix.comps

Component(path, dir) == path.comps[Len(DirPrefix(dir).comps) + 1]

Space(names) ==
    LET sum[n \in 0 .. Len(names)] ==
            IF n = 0 THEN 0 ELSE sum[n - 1] + NameLen[names[n]] + 1
    IN  sum[Len(names)]

IsListed(names, c) == \E k \in 1 .. Len(names) : names[k] = c

\* Mutation: no room is asked for the terminating zero.
FitsUnterminated(names, c, cap) == Space(names) + NameLen[c] <= cap

Fits(names, c, cap) == Space(names) + NameLen[c] + 1 <= cap

AppendPathComponent(names, path, dir, cap) ==
    IF /\ InDir(path, dir)
       /\ Component(path, dir) # ""
       /\ ~IsListed(names, Component(path, dir))
       /\ Fits(names, Component(path, dir), cap)
    THEN Append(names, Component(path, dir))
    ELSE names

ListDir(dir, cap) ==
    LET all == FILES \o ram_files
        listed[n \in 0 .. Len(all)] ==
            IF n = 0 THEN << >>
            ELSE AppendPathComponent(listed[n - 1], all[n].path, dir, cap)
    IN  listed[Len(all)]

-----------------------------------------------------------------------------
(* The system calls.                                                       *)

Init ==
    /\ ram_files = << >>
    /\ reply = [op |-> "none"]

\* Mutation: an existing file is not looked for.
OverwriteByAppending(path, data) ==
    ram_files' = Append(ram_files, [path |-> path, data |-> Clipped(data, MaxRamFileLen)])

Overwrite(path, data) ==
    ram_files' = [ram_files EXCEPT ![Earliest(Matches(ram_files, path))].data =
                    Clipped(data, MaxRamFileLen)]

Create(path, data) ==
    ram_files' = Append(ram_files, [path |-> path, data |-> Clipped(data, MaxRamFileLen)])

\* Mutation: the last free entry counts one too many.
CanCreateOneMore == Len(ram_files) <= MaxRamFiles

CanCreate == Len(ram_files) < MaxRamFiles

\* write_file; the system call answers with the length it was given, not the
\* length that was kept.
WriteFile(path, data, ok) ==
    /\ \/ ok /\ IsRam(path) /\ Overwrite(path, data)
       \/ ok /\ ~IsRam(path) /\ CanCreate /\ Create(path, data)
       \/ ~ok /\ ~IsRam(path) /\ ~CanCreate /\ UNCHANGED ram_files
    /\ reply' = [op |-> "write", path |-> path, data |-> data, ok |-> ok]

SysWriteFile(path, data) ==
    IF PathTooLong(path) \/ path = EmptyPath
    THEN /\ reply' = [op |-> "write", path |-> path, data |-> data, ok |-> FALSE]
         /\ UNCHANGED ram_files
    ELSE \E ok \in BOOLEAN : WriteFile(path, data, ok)

SysReadFile(path, cap) ==
    LET found == ~PathTooLong(path) /\ (IsStatic(path) \/ IsRam(path))
    IN  /\ reply' = [op |-> "read", path |-> path, cap |-> cap, ok |-> found,
                     data |-> IF found THEN Clipped(Lookup(path), cap) ELSE << >>]
        /\ UNCHANGED ram_files

SysReadDir(dir, cap) ==
    /\ reply' = [op |-> "list", dir |-> dir, cap |-> cap, ok |-> ~PathTooLong(dir),
                 names |-> IF PathTooLong(dir) THEN << >> ELSE ListDir(dir, cap)]
    /\ UNCHANGED ram_files

Next ==
    \/ \E p \in Paths, d \in Contents : SysWriteFile(p, d)
    \/ \E p \in Paths, n \in Caps : SysReadFile(p, n)
    \/ \E p \in Paths, n \in Caps : SysReadDir(p, n)

Spec == Init /\ [][Next]_vfsVars

-----------------------------------------------------------------------------
(* Properties.                                                             *)

\* RAM_FILES never outgrows its array, nor a file its buffer.
TypeOK ==
    /\ Len(ram_files) <= MaxRamFiles
    /\ \A i \in 1 .. Len(ram_files) :
          /\ ram_files[i].path \in Paths \ (LongPaths \cup {EmptyPath})
          /\ Len(ram_files[i].data) <= MaxRamFileLen

\* A path names at most one written file, so the first match that write_file
\* overwrites and the first match that read_file_bytes returns are the same.
RamPathsDistinct ==
    \A i, j \in 1 .. Len(ram_files) : ram_files[i].path = ram_files[j].path => i = j

\* What a directory holds: the first components after it, static and written.
ChildrenOf(dir) ==
    {Component(path, dir) : path \in
        {p \in {FILES[i].path : i \in 1 .. Len(FILES)}
               \cup {ram_files[i].path : i \in 1 .. Len(ram_files)} : InDir(p, dir)}} \ {""}

\* A listing names children of the directory only, each once, within the
\* caller's buffer with their terminators, and leaves one out only for want of
\* room; a file and a directory of one name are one line.
ListingFaithful ==
    \A dir \in Paths, cap \in Caps :
        LET names == ListDir(dir, cap)
            shown == {names[k] : k \in 1 .. Len(names)}
        IN  /\ shown \subseteq ChildrenOf(dir)
            /\ \A j, k \in 1 .. Len(names) : names[j] = names[k] => j = k
            /\ Space(names) <= cap
            /\ \A c \in ChildrenOf(dir) \ shown :
                  Space(names) + NameLen[c] + 1 > cap

\* What OS_STATE.md says of the writable overlay: what was written is what a
\* read returns.  Violated for the path of a static file.
WrittenIsRead ==
    reply.op = "write" /\ reply.ok =>
        Lookup(reply.path) = Clipped(reply.data, MaxRamFileLen)
=============================================================================
