---------------------------- MODULE PipelineProofs ----------------------------
(***************************************************************************)
(* Machine-checked facts about the running system, for every set of command *)
(* lines, every static table, and every size of a buffer, of a read and of   *)
(* RAM_FILES: the kernel's invariants hold of it, and a command line does    *)
(* what its stages mean.                                                   *)
(***************************************************************************)
EXTENDS Pipeline, ExecProofs, NatFacts, FiniteSetTheorems

-----------------------------------------------------------------------------
(* Files.  RAM_FILES is a table, as module VfsProofs shows; here it is the   *)
(* one the meaning of a line is stated with.                               *)

RamFile == [path : FileName \ (LongNames \cup {Fs!EmptyPath}), data : Seq(Byte)]

FsInv ==
    /\ ram_files \in Seq(RamFile)
    /\ \A i, j \in 1 .. Len(ram_files) : ram_files[i].path = ram_files[j].path => i = j

FileTables == UNION {[P -> Seq(Byte)] : P \in SUBSET FileName}

\* The file system clips a buffer as the kernel does.
LEMMA ClippedIsTruncate ==
    ASSUME NEW data, NEW n
    PROVE  Fs!Clipped(data, n) = Truncate(data, n)
  BY DEF Fs!Clipped, Fs!Min2, Truncate, Lesser

\* A scan from the front stops at the first match.
LEMMA FirstMatch ==
    ASSUME NEW S \in SUBSET Nat, S # {}
    PROVE  Fs!Earliest(S) \in S
<1>1. \E i \in S : \A j \in S : i <= j
  BY LeastElement
<1>2. QED
  BY <1>1 DEF Fs!Earliest

\* Where paths are distinct a path matches one file or none.
LEMMA RamEntry ==
    ASSUME FsInv
    PROVE  /\ \A p : Fs!IsRam(p) <=> \E i \in 1 .. Len(ram_files) : ram_files[i].path = p
           /\ \A i \in 1 .. Len(ram_files) :
                 /\ Fs!Earliest(Fs!Matches(ram_files, ram_files[i].path)) = i
                 /\ Fs!Entry(ram_files, ram_files[i].path) = ram_files[i]
<1>1. Len(ram_files) \in Nat
  BY DEF FsInv
<1>2. ASSUME NEW i \in 1 .. Len(ram_files)
      PROVE  Fs!Matches(ram_files, ram_files[i].path) = {i}
  BY <1>2 DEF FsInv, Fs!Matches
<1>3. ASSUME NEW i \in 1 .. Len(ram_files) PROVE Fs!Earliest({i}) = i
  BY <1>1, FirstMatch
<1>4. QED
  BY <1>2, <1>3 DEF Fs!IsRam, Fs!Entry, Fs!Matches

\* The table holds each file's content under its path, as many as were created.
TableIsArray ==
    /\ DOMAIN FileTable = {ram_files[i].path : i \in 1 .. Len(ram_files)}
    /\ \A i \in 1 .. Len(ram_files) : FileTable[ram_files[i].path] = ram_files[i].data
    /\ FileTable = [p \in DOMAIN FileTable |-> FileTable[p]]
    /\ FileTable \in FileTables
    /\ Cardinality(DOMAIN FileTable) = Len(ram_files)

LEMMA TableShape == FsInv => TableIsArray
<1> SUFFICES ASSUME FsInv PROVE TableIsArray
  OBVIOUS
<1>1. Len(ram_files) \in Nat /\ \A i \in 1 .. Len(ram_files) : ram_files[i] \in RamFile
  BY ElementOfSeq DEF FsInv
<1>2. /\ DOMAIN FileTable = {ram_files[i].path : i \in 1 .. Len(ram_files)}
      /\ FileTable = [p \in DOMAIN FileTable |-> FileTable[p]]
  BY DEF FileTable
<1>3. \A i \in 1 .. Len(ram_files) : FileTable[ram_files[i].path] = ram_files[i].data
  BY RamEntry DEF FileTable
<1>4. FileTable \in FileTables
  <2>1. \A p \in DOMAIN FileTable : FileTable[p] \in Seq(Byte)
    BY <1>1, <1>2, <1>3 DEF RamFile
  <2>2. DOMAIN FileTable \in SUBSET FileName
    BY <1>1, <1>2 DEF RamFile
  <2>3. FileTable \in [DOMAIN FileTable -> Seq(Byte)]
    BY <1>2, <2>1
  <2>4. QED
    BY <2>2, <2>3 DEF FileTables
<1>5. Cardinality(DOMAIN FileTable) = Len(ram_files)
  <2> DEFINE pathOf == [i \in 1 .. Len(ram_files) |-> ram_files[i].path]
  <2>1. pathOf \in Bijection(1 .. Len(ram_files), DOMAIN FileTable)
    BY <1>2 DEF FsInv, Bijection, Injection, Surjection, IsInjective
  <2>2. ExistsBijection(1 .. Len(ram_files), DOMAIN FileTable)
    BY <2>1 DEF ExistsBijection
  <2>3. QED
    BY <1>1, <2>2, FS_CountingElements
<1>6. QED
  BY <1>2, <1>3, <1>4, <1>5 DEF TableIsArray

\* A path is in the table when a file of that name was written.
LEMMA InTable ==
    ASSUME FsInv
    PROVE  \A p : Fs!IsRam(p) <=> p \in DOMAIN FileTable
<1>1. \A p : Fs!IsRam(p) <=> \E i \in 1 .. Len(ram_files) : ram_files[i].path = p
  BY RamEntry
<1>2. DOMAIN FileTable = {ram_files[i].path : i \in 1 .. Len(ram_files)}
  BY TableShape DEF TableIsArray
<1> HIDE DEF FileTable
<1>3. QED
  BY <1>1, <1>2
\* A write that is not refused leaves one entry more, or the same ones, of which
\* the one of that path holds what was written.
LEMMA WriteKeeps ==
    ASSUME FsInv, NEW p \in FileName, p \notin LongNames \cup {Fs!EmptyPath},
           NEW d \in Seq(Byte),
           \/ Fs!IsRam(p) /\ Fs!Overwrite(p, d)
           \/ ~Fs!IsRam(p) /\ Fs!Create(p, d)
    PROVE  /\ FsInv'
           /\ DOMAIN FileTable' = DOMAIN FileTable \cup {p}
           /\ \A q \in DOMAIN FileTable' :
                 FileTable'[q] = IF q = p THEN Truncate(d, MaxRamFileLen) ELSE FileTable[q]
<1> DEFINE kept == Truncate(d, MaxRamFileLen)
           e == [path |-> p, data |-> kept]
<1>1. e \in RamFile /\ kept \in Seq(Byte)
  BY TruncateProperties, PipelineSizes DEF RamFile
<1>2. Fs!Clipped(d, MaxRamFileLen) = kept
  BY ClippedIsTruncate
<1> HIDE DEF kept
<1>3. Len(ram_files) \in Nat /\ ram_files \in Seq(RamFile) /\ TableIsArray
  BY TableShape DEF FsInv
<1>4. CASE Fs!IsRam(p) /\ Fs!Overwrite(p, d)
  <2>1. PICK i \in 1 .. Len(ram_files) : ram_files[i].path = p
    BY <1>4, RamEntry
  <2>2. Fs!Earliest(Fs!Matches(ram_files, p)) = i /\ ram_files[i] \in RamFile
    BY <1>3, <2>1, RamEntry, ElementOfSeq
  <2>3. ram_files' = [ram_files EXCEPT ![i] = e]
    <3>1. ram_files' = [ram_files EXCEPT ![i].data = kept]
      BY <1>2, <1>4, <2>2 DEF Fs!Overwrite
    <3> DEFINE old == ram_files[i]
    <3>2. [old EXCEPT !.data = kept] = e
      BY <2>1, <2>2 DEF RamFile
    <3> HIDE DEF e
    <3>3. QED
      BY <3>1, <3>2
  <2> HIDE DEF e
  <2>4. /\ ram_files' \in Seq(RamFile) /\ Len(ram_files') = Len(ram_files)
        /\ \A j \in 1 .. Len(ram_files) : ram_files'[j] = IF j = i THEN e ELSE ram_files[j]
    BY <1>1, <1>3, <2>3, ExceptSeq
  <2>5. /\ \A j \in 1 .. Len(ram_files) : ram_files'[j].path = ram_files[j].path
        /\ ram_files'[i].data = kept
    BY <2>1, <2>4 DEF e
  <2>6. FsInv'
    BY <2>4, <2>5 DEF FsInv
  <2>7. TableIsArray'
    BY <2>6, TableShape, PTL
  <2>8. DOMAIN FileTable' = DOMAIN FileTable \cup {p}
    <3> HIDE DEF FileTable
    <3>1. /\ DOMAIN FileTable' = {ram_files'[j].path : j \in 1 .. Len(ram_files)}
          /\ DOMAIN FileTable = {ram_files[j].path : j \in 1 .. Len(ram_files)}
      BY <1>3, <2>4, <2>7 DEF TableIsArray
    <3>2. QED
      BY <2>1, <2>5, <3>1
  <2>9. ASSUME NEW q \in DOMAIN FileTable'
        PROVE  FileTable'[q] = IF q = p THEN kept ELSE FileTable[q]
    <3>1. PICK j \in 1 .. Len(ram_files) : q = ram_files[j].path
      BY <1>3, <2>1, <2>8, <2>9 DEF TableIsArray
    <3>2. /\ FileTable'[q] = ram_files'[j].data
          /\ FileTable[q] = ram_files[j].data
      BY <1>3, <2>4, <2>5, <2>7, <3>1 DEF TableIsArray
    <3>3. j = i <=> q = p
      BY <2>1, <3>1 DEF FsInv
    <3>4. QED
      BY <2>4, <2>5, <3>2, <3>3
  <2>10. QED
    BY <2>6, <2>8, <2>9 DEF kept
<1>5. CASE ~Fs!IsRam(p) /\ Fs!Create(p, d)
  <2>1. ram_files' = Append(ram_files, e)
    BY <1>2, <1>5 DEF Fs!Create
  <2> HIDE DEF e
  <2>2. /\ ram_files' \in Seq(RamFile) /\ Len(ram_files') = Len(ram_files) + 1
        /\ ram_files'[Len(ram_files) + 1] = e
        /\ \A j \in 1 .. Len(ram_files) : ram_files'[j] = ram_files[j]
    BY <1>1, <1>3, <2>1, AppendProperties
  <2>3. \A j \in 1 .. Len(ram_files) : ram_files[j].path # p
    BY <1>5, RamEntry
  <2>4. e.path = p /\ e.data = kept
    BY DEF e
  <2>5. FsInv'
    BY <1>3, <2>2, <2>3, <2>4 DEF FsInv
  <2>6. TableIsArray'
    BY <2>5, TableShape, PTL
  <2>7. DOMAIN FileTable' = DOMAIN FileTable \cup {p}
    <3> HIDE DEF FileTable
    <3>1. /\ DOMAIN FileTable' = {ram_files'[j].path : j \in 1 .. Len(ram_files) + 1}
          /\ DOMAIN FileTable = {ram_files[j].path : j \in 1 .. Len(ram_files)}
      BY <1>3, <2>2, <2>6 DEF TableIsArray
    <3> DEFINE N == Len(ram_files)
    <3>2. N \in Nat
      BY <1>3
    <3>3. \A j : j \in 1 .. N + 1 <=> j \in 1 .. N \/ j = N + 1
      BY <3>2
    <3>4. /\ \A j \in 1 .. N : ram_files'[j].path = ram_files[j].path
          /\ ram_files'[N + 1].path = p
      BY <2>2, <2>4
    <3> HIDE DEF N
    <3>5. {ram_files'[j].path : j \in 1 .. N + 1} = {ram_files[j].path : j \in 1 .. N} \cup {p}
      BY <3>3, <3>4, Zenon
    <3>6. QED
      BY <3>1, <3>5 DEF N
  <2>8. ASSUME NEW q \in DOMAIN FileTable'
        PROVE  FileTable'[q] = IF q = p THEN kept ELSE FileTable[q]
    <3>1. CASE q = p
      <4>1. Len(ram_files) + 1 \in 1 .. Len(ram_files')
        BY <1>3, <2>2
      <4>2. FileTable'[ram_files'[Len(ram_files) + 1].path] = ram_files'[Len(ram_files) + 1].data
        BY <2>6, <4>1 DEF TableIsArray
      <4>3. QED
        BY <2>2, <2>4, <3>1, <4>2
    <3>2. CASE q # p
      <4>1. PICK j \in 1 .. Len(ram_files) : q = ram_files[j].path
        BY <1>3, <2>7, <2>8, <3>2 DEF TableIsArray
      <4>2. j \in 1 .. Len(ram_files') /\ ram_files'[j] = ram_files[j]
        BY <1>3, <2>2
      <4>3. FileTable'[ram_files'[j].path] = ram_files'[j].data
        BY <2>6, <4>2 DEF TableIsArray
      <4>4. FileTable[ram_files[j].path] = ram_files[j].data
        BY <1>3 DEF TableIsArray
      <4>5. QED
        BY <3>2, <4>1, <4>2, <4>3, <4>4
    <3>3. QED
      BY <3>1, <3>2
  <2>9. QED
    BY <2>5, <2>7, <2>8 DEF kept
<1>6. QED
  BY <1>4, <1>5

\* The write system call does to the table what the meaning of a line says, and
\* answers whether the path is in it then.
LEMMA WriteStores ==
    ASSUME FsInv, NEW p \in FileName, NEW d \in Seq(Byte), Fs!SysWriteFile(p, d)
    PROVE  /\ FsInv' /\ FileTable' = Stored(FileTable, p, d)
           /\ reply'.ok <=> p \in DOMAIN FileTable'
<1>1. TableIsArray /\ Len(ram_files) \in Nat
  BY TableShape DEF FsInv
<1>2. ASSUME UNCHANGED ram_files PROVE FsInv' /\ FileTable' = FileTable
  BY <1>2 DEF FsInv, FileTable, Fs!Entry, Fs!Matches
<1>3. \A q : q \in DOMAIN FileTable => q \notin LongNames \cup {Fs!EmptyPath}
  <2>1. \A i \in 1 .. Len(ram_files) : ram_files[i].path \notin LongNames \cup {Fs!EmptyPath}
    <3>1. \A i \in 1 .. Len(ram_files) : ram_files[i] \in RamFile
      BY ElementOfSeq DEF FsInv
    <3>2. QED
      BY <3>1 DEF RamFile
  <2>2. QED
    BY <1>1, <2>1 DEF TableIsArray
<1>4. CASE p \in LongNames \cup {Fs!EmptyPath}
  <2>1. reply'.ok = FALSE /\ UNCHANGED ram_files
    BY <1>4 DEF Fs!SysWriteFile, Fs!PathTooLong
  <2>2. QED
    BY <1>2, <1>3, <1>4, <2>1 DEF Stored
<1>5. CASE p \notin LongNames \cup {Fs!EmptyPath}
  <2>1. PICK ok \in BOOLEAN : Fs!WriteFile(p, d, ok)
    BY <1>5 DEF Fs!SysWriteFile, Fs!PathTooLong
  <2>2. reply'.ok = ok
    BY <2>1 DEF Fs!WriteFile
  <2>3. Fs!IsRam(p) <=> p \in DOMAIN FileTable
    BY InTable
  <2>4. CASE ~ok
    <3>1. ~Fs!IsRam(p) /\ ~Fs!CanCreate /\ UNCHANGED ram_files
      BY <2>1, <2>4 DEF Fs!WriteFile
    <3>2. Cardinality(DOMAIN FileTable) >= MaxRamFiles
      <4>1. Cardinality(DOMAIN FileTable) = Len(ram_files)
        BY <1>1 DEF TableIsArray
      <4>2. QED
        BY <1>1, <3>1, <4>1, PipelineSizes DEF Fs!CanCreate
    <3>3. QED
      BY <1>2, <2>2, <2>3, <2>4, <3>1, <3>2 DEF Stored
  <2>5. CASE ok
    <3>1. \/ Fs!IsRam(p) /\ Fs!Overwrite(p, d)
          \/ ~Fs!IsRam(p) /\ Fs!CanCreate /\ Fs!Create(p, d)
      BY <2>1, <2>5 DEF Fs!WriteFile
    <3>2. /\ FsInv'
          /\ DOMAIN FileTable' = DOMAIN FileTable \cup {p}
          /\ \A q \in DOMAIN FileTable' :
                FileTable'[q] = IF q = p THEN Truncate(d, MaxRamFileLen) ELSE FileTable[q]
      BY <1>5, <3>1, WriteKeeps
    <3>3. p \in DOMAIN FileTable \/ Cardinality(DOMAIN FileTable) < MaxRamFiles
      BY <1>1, <2>3, <3>1 DEF Fs!CanCreate, TableIsArray
    <3>4. Stored(FileTable, p, d) =
             [q \in DOMAIN FileTable \cup {p} |->
                 IF q = p THEN Truncate(d, MaxRamFileLen) ELSE FileTable[q]]
      <4>1. Cardinality(DOMAIN FileTable) \in Nat
        BY <1>1 DEF TableIsArray
      <4> HIDE DEF FileTable
      <4>2. ~(p \notin DOMAIN FileTable /\ Cardinality(DOMAIN FileTable) >= MaxRamFiles)
        BY <3>3, <4>1, PipelineSizes
      <4>3. QED
        BY <1>5, <4>2 DEF Stored
    <3>5. FileTable' = [q \in DOMAIN FileTable' |-> FileTable'[q]]
      <4>1. TableIsArray'
        BY <3>2, TableShape, PTL
      <4>2. QED
        BY <4>1 DEF TableIsArray
    <3> HIDE DEF FileTable
    <3>6. FileTable' = Stored(FileTable, p, d)
      BY <3>2, <3>4, <3>5
    <3>7. QED
      BY <2>2, <2>5, <3>2, <3>6
  <2>6. QED
    BY <2>4, <2>5
<1>6. QED
  BY <1>4, <1>5

\* The read system call returns what the table and the static files hold.
LEMMA ReadReturns ==
    ASSUME FsInv, NEW p, Fs!SysReadFile(p, MaxIoBuf)
    PROVE  /\ FsInv' /\ FileTable' = FileTable
           /\ reply'.ok <=> Readable(FileTable, p)
           /\ Readable(FileTable, p) => reply'.data = ContentOf(FileTable, p)
<1>1. /\ UNCHANGED ram_files
      /\ reply'.ok <=> p \notin LongNames /\ (Fs!IsStatic(p) \/ Fs!IsRam(p))
      /\ reply'.ok => reply'.data = Truncate(Fs!Lookup(p), MaxIoBuf)
  BY ClippedIsTruncate DEF Fs!SysReadFile, Fs!PathTooLong
<1>2. FsInv' /\ FileTable' = FileTable
  BY <1>1 DEF FsInv, FileTable, Fs!Entry, Fs!Matches
<1>3. reply'.ok <=> Readable(FileTable, p)
  <2>1. Fs!IsRam(p) <=> p \in DOMAIN FileTable
    BY InTable
  <2> HIDE DEF FileTable
  <2>2. QED
    BY <1>1, <2>1 DEF Readable
<1>4. Readable(FileTable, p) /\ ~Fs!IsStatic(p) => Fs!Entry(ram_files, p).data = FileTable[p]
  BY DEF Readable, FileTable
<1>5. Readable(FileTable, p) => reply'.data = ContentOf(FileTable, p)
  BY <1>1, <1>3, <1>4 DEF ContentOf, Fs!Lookup
<1>6. QED
  BY <1>2, <1>3, <1>5

-----------------------------------------------------------------------------
(* Paths, and what a table of files holds.                                 *)

LEMMA SubSeqType ==
    ASSUME NEW S, NEW s \in Seq(S), NEW n \in 0 .. Len(s)
    PROVE  SubSeq(s, 1, n) \in Seq(S) /\ Len(SubSeq(s, 1, n)) = n
<1>1. \A i \in 1 .. n : s[i] \in S
  BY ElementOfSeq, LenProperties
<1>2. QED
  BY <1>1, SubSeqProperties, LenProperties, Z3

\* A path stays one when it is resolved, and the current directory when it is
\* changed.
LEMMA ResolveType ==
    ASSUME NEW cwd \in FileName, NEW p \in FileName
    PROVE  Resolve(cwd, p) \in FileName
<1> DEFINE n == Len(cwd.comps)
           above == IF cwd.comps[n] = "" THEN SubSeq(cwd.comps, 1, n - 1) ELSE cwd.comps
<1>1. /\ cwd.comps \in Seq(PathPart) /\ cwd.comps # << >> /\ n \in Nat
      /\ p.comps \in Seq(PathPart) /\ p.comps # << >>
  BY DEF FileName
<1>2. above \in Seq(PathPart)
  <2>1. n # 0 /\ n - 1 \in 0 .. n
    BY <1>1
  <2>2. SubSeq(cwd.comps, 1, n - 1) \in Seq(PathPart)
    BY <1>1, <2>1, SubSeqType
  <2>3. QED
    BY <1>1, <2>2
<1> HIDE DEF n, above
<1>3. above \o p.comps \in Seq(PathPart) /\ Len(above \o p.comps) = Len(above) + Len(p.comps)
  BY <1>1, <1>2, ConcatProperties
<1>4. above \o p.comps # << >>
  BY <1>1, <1>2, <1>3
<1>5. [abs |-> cwd.abs, comps |-> above \o p.comps] \in FileName
  BY <1>3, <1>4 DEF FileName
<1>6. QED
  BY <1>5 DEF Resolve, above, n

LEMMA RootType == Fs!RootPath \in FileName
<1>1. \A S : \A e \in S : <<e>> \in Seq(S) \ {<< >>}
  OBVIOUS
<1>2. "" \in PathPart
  BY PipelineComponents
<1>3. <<"">> \in Seq(PathPart) \ {<< >>}
  BY <1>1, <1>2, Zenon
<1>4. QED
  BY <1>3 DEF Fs!RootPath, FileName

LEMMA ChangedDirType ==
    ASSUME NEW cwd \in FileName, NEW p \in FileName
    PROVE  ChangedDir(cwd, p) \in FileName
<1> DEFINE q == IF p = Fs!EmptyPath THEN Fs!RootPath ELSE Resolve(cwd, p)
           n == Len(q.comps)
<1>1. Fs!RootPath \in FileName
  BY RootType
<1>2. q \in FileName
  BY <1>1, ResolveType
<1> HIDE DEF q
<1>3. CASE n > 1 /\ q.comps[n] = ""
  <2>0. n > 1
    BY <1>3, Zenon
  <2>1. q.comps \in Seq(PathPart) /\ n \in Nat /\ n - 1 \in 0 .. n
    <3>1. q.comps \in Seq(PathPart)
      BY <1>2 DEF FileName
    <3>2. n \in Nat
      BY <3>1
    <3> HIDE DEF n
    <3>3. QED
      BY <2>0, <3>1, <3>2
  <2>2. SubSeq(q.comps, 1, n - 1) \in Seq(PathPart) /\ Len(SubSeq(q.comps, 1, n - 1)) = n - 1
    BY <2>1, SubSeqType
  <2>3. SubSeq(q.comps, 1, n - 1) # << >>
    <3> HIDE DEF n
    <3>1. Len(SubSeq(q.comps, 1, n - 1)) # 0
      BY <2>0, <2>1, <2>2
    <3>2. QED
      BY <2>2, <3>1, EmptySeq
  <2>4. [q EXCEPT !.comps = SubSeq(@, 1, n - 1)] \in FileName
    BY <1>2, <2>2, <2>3 DEF FileName
  <2>5. QED
    BY <1>3, <2>4 DEF ChangedDir, q
<1>4. CASE ~(n > 1 /\ q.comps[n] = "")
  BY <1>2, <1>4 DEF ChangedDir, q
<1>5. QED
  BY <1>3, <1>4

\* A write leaves a table, and what is read is bytes.
LEMMA StoredType ==
    ASSUME NEW files \in FileTables, NEW p \in FileName, NEW d \in Seq(Byte)
    PROVE  Stored(files, p, d) \in FileTables
<1> DEFINE kept == Truncate(d, MaxRamFileLen)
           after == [q \in DOMAIN files \cup {p} |-> IF q = p THEN kept ELSE files[q]]
<1>1. PICK P \in SUBSET FileName : files \in [P -> Seq(Byte)]
  BY DEF FileTables
<1>2. kept \in Seq(Byte)
  BY TruncateProperties, PipelineSizes
<1> HIDE DEF kept
<1>3. after \in [P \cup {p} -> Seq(Byte)] /\ P \cup {p} \in SUBSET FileName
  BY <1>1, <1>2
<1>4. after \in FileTables
  BY <1>3 DEF FileTables
<1> HIDE DEF after
<1>5. Stored(files, p, d) \in {files, after}
  BY DEF Stored, after, kept
<1>6. QED
  BY <1>4, <1>5

LEMMA ContentType ==
    ASSUME NEW files \in FileTables, NEW p, Readable(files, p)
    PROVE  ContentOf(files, p) \in Seq(Byte) /\ Len(ContentOf(files, p)) <= MaxIoBuf
<1> DEFINE data == IF Fs!IsStatic(p) THEN Fs!Entry(StaticTable, p).data ELSE files[p]
<1>1. ASSUME Fs!IsStatic(p) PROVE data \in Seq(Byte)
  <2>1. Fs!Matches(StaticTable, p) \in SUBSET Nat /\ Fs!Matches(StaticTable, p) # {}
    BY <1>1 DEF Fs!IsStatic, Fs!Matches
  <2>2. Fs!Earliest(Fs!Matches(StaticTable, p)) \in Fs!Matches(StaticTable, p)
    BY <2>1, FirstMatch
  <2>3. Fs!Earliest(Fs!Matches(StaticTable, p)) \in 1 .. Len(StaticTable)
    BY <2>2 DEF Fs!Matches
  <2>4. Fs!Entry(StaticTable, p) \in [path : FileName, data : Seq(Byte)]
    BY <2>3, PipelineSizes, ElementOfSeq DEF Fs!Entry
  <2>5. QED
    BY <1>1, <2>4
<1>2. ASSUME ~Fs!IsStatic(p) PROVE data \in Seq(Byte)
  BY <1>2 DEF Readable, FileTables
<1>3. data \in Seq(Byte)
  BY <1>1, <1>2
<1> HIDE DEF data
<1>4. Truncate(data, MaxIoBuf) \in Seq(Byte) /\ Len(Truncate(data, MaxIoBuf)) <= MaxIoBuf
  BY <1>3, TruncateProperties, LenProperties, PipelineSizes DEF Lesser
<1>5. QED
  BY <1>4 DEF ContentOf, data

-----------------------------------------------------------------------------
(* The two folds a line's meaning is made of, step by step.                 *)

Outcome  == [out : Seq(Byte), spilt : Seq(Byte), files : FileTables]
Progress == [ok : BOOLEAN, out : Seq(Byte), spilt : Seq(Byte), files : FileTables]

\* A write adds to the output, and to the terminal if the buffer is full.
LEMMA WroteType ==
    ASSUME NEW m \in Outcome, NEW d \in Seq(Byte), NEW captured
    PROVE  /\ Wrote(m, d, captured) \in Outcome
           /\ Wrote(m, d, captured).out = m.out \o d
           /\ Wrote(m, d, captured).files = m.files
           /\ Wrote(m, d, captured).spilt = IF captured /\ Len(m.out) >= MaxIoStdout
                                            THEN m.spilt \o d ELSE m.spilt
<1>1. m.out \o d \in Seq(Byte) /\ m.spilt \o d \in Seq(Byte)
  BY ConcatProperties DEF Outcome
<1>2. QED
  BY <1>1 DEF Wrote, Outcome

\* Several writes are one after another.
IsWriting(w, m, ds, captured) ==
    /\ w[0] = m
    /\ \A k \in 1 .. Len(ds) : w[k] = Wrote(w[k - 1], ds[k], captured)
    /\ \A k \in 0 .. Len(ds) : w[k] \in Outcome
    /\ WroteAll(m, ds, captured) = w[Len(ds)]

LEMMA WriteSteps ==
    ASSUME NEW m \in Outcome, NEW ds \in Seq(Seq(Byte)), NEW captured
    PROVE  \E w : IsWriting(w, m, ds, captured)
<1> DEFINE N == Len(ds)
           w == CHOOSE w : w = [k \in 0 .. N |->
                   IF k = 0 THEN m ELSE Wrote(w[k - 1], ds[k], captured)]
           step == [x \in (1 .. N) \X Outcome |-> Wrote(x[2], ds[x[1]], captured)]
<1>1. N \in Nat /\ \A k \in 1 .. N : ds[k] \in Seq(Byte)
  BY ElementOfSeq
<1>2. ASSUME NEW k \in 1 .. N, NEW n \in Outcome PROVE Wrote(n, ds[k], captured) \in Outcome
  BY <1>1, WroteType
<1>3. step \in Steps(N, Outcome)
  BY <1>2 DEF Steps
<1>4. PICK f : Recurs(f, N, Outcome, m, step)
  <2> HIDE DEF step, N
  <2>1. QED
    BY <1>1, <1>3, Recursion
<1>5. \A k \in 1 .. N : f[k] = Wrote(f[k - 1], ds[k], captured)
  <2>1. f \in [0 .. N -> Outcome] /\ \A k \in 1 .. N : f[k] = step[<<k, f[k - 1]>>]
    BY <1>4 DEF Recurs
  <2>2. \A k \in 1 .. N : k - 1 \in 0 .. N
    BY <1>1
  <2>3. \A k \in 1 .. N : <<k, f[k - 1]>> \in (1 .. N) \X Outcome
    BY <2>1, <2>2
  <2>4. QED
    BY <2>1, <2>3
<1>6. f = [k \in 0 .. N |-> IF k = 0 THEN m ELSE Wrote(f[k - 1], ds[k], captured)]
  <2>1. \A k \in 0 .. N : k # 0 => k \in 1 .. N
    BY <1>1
  <2>2. f \in [0 .. N -> Outcome] /\ f[0] = m
    BY <1>4 DEF Recurs
  <2>3. \A k \in 0 .. N : f[k] = IF k = 0 THEN m ELSE Wrote(f[k - 1], ds[k], captured)
    BY <1>5, <2>1, <2>2
  <2>4. QED
    BY <2>2, <2>3
<1>7. w = [k \in 0 .. N |-> IF k = 0 THEN m ELSE Wrote(w[k - 1], ds[k], captured)]
  BY <1>6, Zenon
<1>8. WroteAll(m, ds, captured) = w[N]
  BY DEF WroteAll
<1> HIDE DEF w, step
<1>9. w[0] = m /\ \A k \in 1 .. N : w[k] = Wrote(w[k - 1], ds[k], captured)
  BY <1>1, <1>7
<1> DEFINE S == {k \in Nat : w[k] \in Outcome}
<1>10. 0 \in S
  BY <1>9
<1>11. ASSUME NEW k \in 0 .. N - 1, k \in S PROVE k + 1 \in S
  <2>1. k + 1 \in 1 .. N /\ k + 1 \in Nat /\ (k + 1) - 1 = k
    BY <1>1
  <2>2. w[k + 1] = Wrote(w[k], ds[k + 1], captured)
    BY <1>9, <2>1
  <2>3. QED
    BY <1>2, <1>11, <2>1, <2>2
<1> HIDE DEF S
<1>12. \A k \in 0 .. N : k \in S
  BY <1>1, <1>10, <1>11, BoundedInduction
<1>13. \A k \in 0 .. N : w[k] \in Outcome
  BY <1>12 DEF S
<1>14. IsWriting(w, m, ds, captured)
  BY <1>8, <1>9, <1>13 DEF N, IsWriting
<1>15. QED
  BY <1>14, Zenon

LEMMA WroteAllType ==
    ASSUME NEW m \in Outcome, NEW ds \in Seq(Seq(Byte)), NEW captured
    PROVE  WroteAll(m, ds, captured) \in Outcome
<1>1. Len(ds) \in 0 .. Len(ds)
  BY LenProperties
<1>2. PICK w : IsWriting(w, m, ds, captured)
  BY WriteSteps, Zenon
<1>3. QED
  BY <1>1, <1>2 DEF IsWriting

\* No write, and a single one.
LEMMA WroteNone ==
    ASSUME NEW m \in Outcome, NEW captured
    PROVE  WroteAll(m, << >>, captured) = m
<1> DEFINE ds == << >>
<1>1. ds \in Seq(Seq(Byte)) /\ Len(ds) = 0
  OBVIOUS
<1> HIDE DEF ds
<1>2. PICK w : IsWriting(w, m, ds, captured)
  BY <1>1, WriteSteps, Zenon
<1>3. WroteAll(m, ds, captured) = m
  BY <1>1, <1>2 DEF IsWriting
<1>4. QED
  BY <1>3 DEF ds

LEMMA WroteOne ==
    ASSUME NEW m \in Outcome, NEW d \in Seq(Byte), NEW captured
    PROVE  WroteAll(m, <<d>>, captured) = Wrote(m, d, captured)
<1> DEFINE ds == <<d>>
<1>1. ds \in Seq(Seq(Byte)) /\ Len(ds) = 1 /\ ds[1] = d
  OBVIOUS
<1> HIDE DEF ds
<1>2. PICK w : IsWriting(w, m, ds, captured)
  BY <1>1, WriteSteps, Zenon
<1>3. 1 \in 1 .. Len(ds) /\ 1 - 1 = 0
  BY <1>1
<1>4. w[1] = Wrote(w[1 - 1], ds[1], captured)
  BY <1>2, <1>3 DEF IsWriting
<1>5. WroteAll(m, ds, captured) = Wrote(m, d, captured)
  BY <1>1, <1>2, <1>3, <1>4 DEF IsWriting
<1>6. QED
  BY <1>5 DEF ds

\* The first write may be made before the others.
LEMMA WroteFirst ==
    ASSUME NEW m \in Outcome, NEW ds \in Seq(Seq(Byte)), ds # << >>, NEW captured
    PROVE  /\ Head(ds) \in Seq(Byte) /\ Tail(ds) \in Seq(Seq(Byte))
           /\ WroteAll(m, ds, captured)
                 = WroteAll(Wrote(m, Head(ds), captured), Tail(ds), captured)
<1> DEFINE d == Head(ds)
           rest == Tail(ds)
           n == Wrote(m, d, captured)
           N == Len(rest)
<1>1. Len(ds) \in Nat \ {0}
  BY EmptySeq, LenProperties
<1>2. /\ d = ds[1] /\ rest \in Seq(Seq(Byte)) /\ N = Len(ds) - 1
      /\ \A i \in 1 .. N : rest[i] = ds[i + 1]
  BY <1>1, HeadTailProperties
<1>3. d \in Seq(Byte)
  BY <1>1, <1>2, ElementOfSeq
<1> HIDE DEF d, rest
<1>4. n \in Outcome
  BY <1>3, WroteType
<1>5. PICK w : IsWriting(w, m, ds, captured)
  BY WriteSteps, Zenon
<1>6. /\ w[0] = m
      /\ \A k \in 1 .. Len(ds) : w[k] = Wrote(w[k - 1], ds[k], captured)
      /\ WroteAll(m, ds, captured) = w[Len(ds)]
  BY <1>5 DEF IsWriting
<1> HIDE DEF n
<1>7. PICK v : IsWriting(v, n, rest, captured)
  BY <1>2, <1>4, WriteSteps, Zenon
<1>8. /\ v[0] = n
      /\ \A k \in 1 .. N : v[k] = Wrote(v[k - 1], rest[k], captured)
      /\ WroteAll(n, rest, captured) = v[N]
  BY <1>7 DEF IsWriting
<1>9. N \in Nat /\ N + 1 = Len(ds)
  BY <1>1, <1>2
<1> HIDE DEF N
<1> DEFINE S == {k \in Nat : v[k] = w[k + 1]}
<1>10. 0 \in S
  <2>1. 1 \in 1 .. Len(ds) /\ 1 - 1 = 0 /\ 0 + 1 = 1
    BY <1>1
  <2>2. w[1] = Wrote(w[1 - 1], ds[1], captured)
    BY <1>6, <2>1
  <2>3. QED
    BY <1>2, <1>6, <1>8, <2>1, <2>2 DEF n
<1>11. ASSUME NEW k \in 0 .. N - 1, k \in S PROVE k + 1 \in S
  <2>1. /\ k + 1 \in 1 .. N /\ (k + 1) - 1 = k /\ k + 1 \in Nat
        /\ (k + 1) + 1 \in 1 .. Len(ds) /\ ((k + 1) + 1) - 1 = k + 1
    BY <1>9
  <2>2. v[k + 1] = Wrote(v[k], ds[(k + 1) + 1], captured)
    BY <1>2, <1>8, <2>1
  <2>3. w[(k + 1) + 1] = Wrote(w[k + 1], ds[(k + 1) + 1], captured)
    BY <1>6, <2>1
  <2>4. QED
    BY <1>11, <2>1, <2>2, <2>3
<1> HIDE DEF S
<1>12. \A k \in 0 .. N : k \in S
  BY <1>9, <1>10, <1>11, BoundedInduction
<1>13. v[N] = w[N + 1]
  BY <1>9, <1>12 DEF S
<1>14. QED
  BY <1>2, <1>3, <1>6, <1>8, <1>9, <1>13 DEF d, rest, n

\* Parts of an outcome replaced.
LEMMA OutcomeParts ==
    ASSUME NEW m \in Outcome
    PROVE  /\ m = [out |-> m.out, spilt |-> m.spilt, files |-> m.files]
           /\ [m EXCEPT !.out = << >>] = [out |-> << >>, spilt |-> m.spilt, files |-> m.files]
           /\ [m EXCEPT !.out = << >>] \in Outcome
           /\ \A f \in FileTables :
                 /\ [m EXCEPT !.files = f] = [out |-> m.out, spilt |-> m.spilt, files |-> f]
                 /\ [m EXCEPT !.files = f] \in Outcome
<1>1. << >> \in Seq(Byte)
  OBVIOUS
<1>2. m = [out |-> m.out, spilt |-> m.spilt, files |-> m.files]
  BY DEF Outcome
<1>3. [m EXCEPT !.out = << >>] = [out |-> << >>, spilt |-> m.spilt, files |-> m.files]
  BY DEF Outcome
<1>4. [m EXCEPT !.out = << >>] \in Outcome
  BY <1>1 DEF Outcome
<1>5. ASSUME NEW f \in FileTables
      PROVE  /\ [m EXCEPT !.files = f] = [out |-> m.out, spilt |-> m.spilt, files |-> f]
             /\ [m EXCEPT !.files = f] \in Outcome
  BY DEF Outcome
<1>6. QED
  BY <1>2, <1>3, <1>4, <1>5

\* tee writes a file, or says that it can't.
LEMMA TeeWroteType ==
    ASSUME NEW m \in Outcome, NEW word \in FileName, NEW stream \in Seq(Byte), NEW captured
    PROVE  TeeWrote(m, word, stream, captured) \in Outcome
<1> DEFINE after == Stored(m.files, word, stream)
           ds == IF word \in DOMAIN after THEN << >> ELSE Message
<1>1. after \in FileTables
  BY StoredType DEF Outcome
<1> HIDE DEF after
<1>2. [m EXCEPT !.files = after] \in Outcome
  BY <1>1, OutcomeParts
<1>3. ds \in Seq(Seq(Byte))
  BY PipelineSizes
<1> HIDE DEF ds
<1>4. WroteAll([m EXCEPT !.files = after], ds, captured) \in Outcome
  BY <1>2, <1>3, WroteAllType
<1>5. QED
  BY <1>4 DEF TeeWrote, after, ds

\* tee's effect is that of its words one after another.
LEMMA TeeSteps ==
    ASSUME NEW words \in Seq(FileName), NEW m \in Outcome, NEW captured
    PROVE  LET t == TeeMeaning(words, m, captured)
           IN  /\ t[0] = m
               /\ \A k \in 1 .. Len(words) :
                     t[k] = TeeWrote(t[k - 1], words[k], Truncate(m.out, MaxIoBuf), captured)
               /\ \A k \in 0 .. Len(words) : t[k] \in Outcome
<1> DEFINE N == Len(words)
           stream == Truncate(m.out, MaxIoBuf)
           t == CHOOSE t : t = [k \in 0 .. N |->
                   IF k = 0 THEN m
                   ELSE TeeWrote(t[k - 1], words[k], Truncate(m.out, MaxIoBuf), captured)]
           step == [x \in (1 .. N) \X Outcome |-> TeeWrote(x[2], words[x[1]], stream, captured)]
<1>1. N \in Nat /\ stream \in Seq(Byte)
  BY TruncateProperties, PipelineSizes DEF Outcome
<1>2. ASSUME NEW k \in 1 .. N, NEW n \in Outcome
      PROVE  TeeWrote(n, words[k], stream, captured) \in Outcome
  <2>1. words[k] \in FileName
    BY ElementOfSeq
  <2> HIDE DEF stream
  <2>2. QED
    BY <1>1, <2>1, TeeWroteType
<1>3. step \in Steps(N, Outcome)
  BY <1>2 DEF Steps
<1>4. PICK f : Recurs(f, N, Outcome, m, step)
  <2> HIDE DEF step, N
  <2>1. QED
    BY <1>1, <1>3, Recursion
<1>5. \A k \in 1 .. N : f[k] = TeeWrote(f[k - 1], words[k], stream, captured)
  <2>1. f \in [0 .. N -> Outcome] /\ \A k \in 1 .. N : f[k] = step[<<k, f[k - 1]>>]
    BY <1>4 DEF Recurs
  <2>2. \A k \in 1 .. N : k - 1 \in 0 .. N
    BY <1>1
  <2>3. \A k \in 1 .. N : <<k, f[k - 1]>> \in (1 .. N) \X Outcome
    BY <2>1, <2>2
  <2>4. QED
    BY <2>1, <2>3
<1>6. f = [k \in 0 .. N |-> IF k = 0 THEN m
                ELSE TeeWrote(f[k - 1], words[k], Truncate(m.out, MaxIoBuf), captured)]
  <2>1. \A k \in 0 .. N : k # 0 => k \in 1 .. N
    BY <1>1
  <2>2. f \in [0 .. N -> Outcome] /\ f[0] = m
    BY <1>4 DEF Recurs
  <2>3. \A k \in 0 .. N : f[k] = IF k = 0 THEN m
              ELSE TeeWrote(f[k - 1], words[k], Truncate(m.out, MaxIoBuf), captured)
    BY <1>5, <2>1, <2>2
  <2>4. QED
    BY <2>2, <2>3
<1>7. t = [k \in 0 .. N |-> IF k = 0 THEN m
                ELSE TeeWrote(t[k - 1], words[k], Truncate(m.out, MaxIoBuf), captured)]
  BY <1>6, Zenon
<1>8. TeeMeaning(words, m, captured) = t
  BY DEF TeeMeaning
<1> HIDE DEF t, step
<1>9. t[0] = m /\ \A k \in 1 .. N : t[k] = TeeWrote(t[k - 1], words[k], stream, captured)
  BY <1>1, <1>7
<1> HIDE DEF stream
<1> DEFINE S == {k \in Nat : t[k] \in Outcome}
<1>10. 0 \in S
  BY <1>1, <1>9
<1>11. ASSUME NEW k \in 0 .. N - 1, k \in S PROVE k + 1 \in S
  <2>1. k + 1 \in 1 .. N /\ k + 1 \in Nat /\ (k + 1) - 1 = k
    BY <1>1
  <2>2. t[k + 1] = TeeWrote(t[k], words[k + 1], stream, captured)
    BY <1>9, <2>1
  <2>3. QED
    BY <1>2, <1>11, <2>1, <2>2
<1> HIDE DEF S
<1>12. \A k \in 0 .. N : k \in S
  BY <1>1, <1>10, <1>11, BoundedInduction
<1>13. \A k \in 0 .. N : t[k] \in Outcome
  BY <1>12 DEF S
<1>14. QED
  BY <1>8, <1>9, <1>13 DEF stream, N

\* What cat and echo write are strings of bytes.
LEMMA WritesType ==
    /\ \A d \in Seq(Byte) : Lined(d) \in Seq(Seq(Byte))
    /\ \A files \in FileTables : \A name : CatWrites(name, files) \in Seq(Seq(Byte))
    /\ \A text \in Seq(Byte) : EchoWrites(text) \in Seq(Seq(Byte))
<1>1. <<Newline>> \in Seq(Byte) /\ << >> \in Seq(Seq(Byte)) /\ Message \in Seq(Seq(Byte))
  BY ExecInputs, PipelineSizes
<1>2. ASSUME NEW a \in Seq(Byte), NEW b \in Seq(Byte)
      PROVE  <<a>> \in Seq(Seq(Byte)) /\ <<a, b>> \in Seq(Seq(Byte))
  OBVIOUS
<1>3. ASSUME NEW d \in Seq(Byte) PROVE Lined(d) \in Seq(Seq(Byte))
  BY <1>1, <1>2, Zenon DEF Lined
<1>4. ASSUME NEW text \in Seq(Byte) PROVE EchoWrites(text) \in Seq(Seq(Byte))
  BY <1>1, <1>2, Zenon DEF EchoWrites
<1>5. ASSUME NEW files \in FileTables, NEW name PROVE CatWrites(name, files) \in Seq(Seq(Byte))
  BY <1>1, <1>3, ContentType DEF CatWrites
<1>6. QED
  BY <1>3, <1>4, <1>5

\* What a program makes of what it is given.
LEMMA ProgramType ==
    ASSUME NEW stage \in StageType, Runs(stage), NEW cwd \in FileName, NEW m \in Outcome,
           NEW captured
    PROVE  ProgramMeaning(BinPath[stage.cmd], stage.args, cwd, m, captured) \in Outcome
<1> DEFINE path == BinPath[stage.cmd]
           args == stage.args
           silent == [m EXCEPT !.out = << >>]
           did == ProgramMeaning(path, args, cwd, m, captured)
           name == Resolve(cwd, args.name)
<1>1. args \in Arguments /\ path \in {CatPath, TeePath, EchoPath}
  BY DEF StageType, Runs
<1>2. silent \in Outcome /\ m.files \in FileTables
  BY OutcomeParts DEF Outcome
<1> HIDE DEF path, args
<1>3. CASE path = EchoPath
  <2>1. EchoWrites(args.text) \in Seq(Seq(Byte))
    BY <1>1, WritesType DEF Arguments
  <2>2. did = WroteAll(silent, EchoWrites(args.text), captured)
    BY <1>3, PipelinePrograms DEF ProgramMeaning
  <2> HIDE DEF silent
  <2>3. QED
    BY <1>2, <2>1, <2>2, WroteAllType DEF path, args
<1>4. CASE path = TeePath
  <2>1. args.words \in Seq(FileName) /\ Len(args.words) \in 0 .. Len(args.words)
    BY <1>1 DEF Arguments
  <2>2. TeeMeaning(args.words, m, captured)[Len(args.words)] \in Outcome
    BY <2>1, TeeSteps
  <2>3. did = TeeMeaning(args.words, m, captured)[Len(args.words)]
    BY <1>4, PipelinePrograms DEF ProgramMeaning
  <2>4. QED
    BY <2>2, <2>3 DEF path, args
<1>5. CASE path = CatPath
  <2>1. CatWrites(name, m.files) \in Seq(Seq(Byte))
    BY <1>2, WritesType
  <2>2. did = IF args.words = << >> THEN m
              ELSE WroteAll(silent, CatWrites(name, m.files), captured)
    BY <1>5, PipelinePrograms DEF ProgramMeaning
  <2> HIDE DEF silent, name
  <2>3. WroteAll(silent, CatWrites(name, m.files), captured) \in Outcome
    BY <1>2, <2>1, WroteAllType
  <2>4. QED
    BY <2>2, <2>3 DEF path, args
<1>6. QED
  BY <1>1, <1>3, <1>4, <1>5

\* The one file < or > names.
LEMMA OnlyFile ==
    ASSUME NEW S, \A p, q \in S : p = q, NEW n \in S, NEW cwd
    PROVE  (CHOOSE p \in {Resolve(cwd, m) : m \in S} : TRUE) = Resolve(cwd, n)
  OBVIOUS

LEMMA GivenType ==
    ASSUME NEW stage \in StageType, \A p, q \in stage.in : p = q,
           NEW cwd \in FileName, NEW files \in FileTables
    PROVE  LET given == Given(stage, cwd, files)
           IN  /\ given \in Progress /\ given.files = files /\ given.spilt = << >>
               /\ stage.in = {} => given.ok /\ given.out = << >>
               /\ \A n \in stage.in :
                     /\ given.ok <=> Readable(files, Resolve(cwd, n))
                     /\ given.ok => given.out = ContentOf(files, Resolve(cwd, n))
<1>1. << >> \in Seq(Byte)
  OBVIOUS
<1>2. CASE stage.in = {}
  BY <1>1, <1>2 DEF Given, Progress
<1>3. CASE stage.in # {}
  <2>1. PICK n \in stage.in : TRUE
    BY <1>3
  <2> DEFINE p == Resolve(cwd, n)
             out == IF Readable(files, p) THEN ContentOf(files, p) ELSE << >>
  <2>2. (CHOOSE q \in {Resolve(cwd, m) : m \in stage.in} : TRUE) = p
    BY OnlyFile
  <2>3. Given(stage, cwd, files)
           = [ok |-> Readable(files, p), spilt |-> << >>, files |-> files, out |-> out]
    BY <1>3, <2>2 DEF Given
  <2>4. out \in Seq(Byte)
    BY <1>1, ContentType
  <2>5. Readable(files, p) \in BOOLEAN
    BY DEF Readable
  <2>6. \A m \in stage.in : m = n
    BY <2>1
  <2>7. [ok |-> Readable(files, p), spilt |-> << >>, files |-> files, out |-> out] \in Progress
    BY <1>1, <2>4, <2>5 DEF Progress
  <2>8. QED
    BY <1>3, <2>3, <2>6, <2>7
<1>4. QED
  BY <1>2, <1>3

\* A stage that doesn't run ends the line, and one that runs adds its effect.
LEMMA RanNot ==
    ASSUME NEW m \in Progress, NEW stage, NEW cwd, NEW captured, ~m.ok \/ ~Runs(stage)
    PROVE  LET ran == Ran(m, stage, cwd, captured)
           IN  ran \in Progress /\ ~ran.ok /\ ran.files = m.files /\ ran.spilt = m.spilt
<1>1. Ran(m, stage, cwd, captured) = [m EXCEPT !.ok = FALSE]
  BY DEF Ran
<1>2. QED
  BY <1>1 DEF Progress

LEMMA RanType ==
    ASSUME NEW m \in Progress, NEW stage \in StageType, NEW cwd \in FileName, NEW captured
    PROVE  LET ran == Ran(m, stage, cwd, captured)
               given == [out |-> Truncate(m.out, MaxIoBuf), spilt |-> m.spilt, files |-> m.files]
               did == ProgramMeaning(BinPath[stage.cmd], stage.args, cwd, given, captured)
           IN  /\ ran \in Progress /\ given \in Outcome
               /\ ran.ok <=> m.ok /\ Runs(stage)
               /\ ran.ok => /\ did \in Outcome
                            /\ ran.out = did.out /\ ran.spilt = did.spilt
                            /\ ran.files = did.files
<1> DEFINE given == [out |-> Truncate(m.out, MaxIoBuf), spilt |-> m.spilt, files |-> m.files]
           did == ProgramMeaning(BinPath[stage.cmd], stage.args, cwd, given, captured)
<1>1. given \in Outcome
  <2>1. Truncate(m.out, MaxIoBuf) \in Seq(Byte)
    BY TruncateProperties, PipelineSizes DEF Progress
  <2>2. QED
    BY <2>1 DEF Progress, Outcome
<1> HIDE DEF given
<1>2. CASE ~m.ok \/ ~Runs(stage)
  BY <1>1, <1>2, RanNot DEF given
<1>3. CASE m.ok /\ Runs(stage)
  <2>1. did \in Outcome
    BY <1>1, <1>3, ProgramType
  <2>2. Ran(m, stage, cwd, captured)
           = [ok |-> TRUE, out |-> did.out, spilt |-> did.spilt, files |-> did.files]
    BY <1>3 DEF Ran, given
  <2> HIDE DEF did
  <2>3. QED
    BY <1>1, <1>3, <2>1, <2>2 DEF Progress, Outcome, did, given
<1>4. QED
  BY <1>2, <1>3

\* A line's effect is that of its stages one after another.
LEMMA StageSteps ==
    ASSUME NEW line \in Lines, NEW cwd \in FileName, NEW files \in FileTables
    PROVE  LET after == AfterStages(line, cwd, files)
           IN  /\ after[0] = Given(line.stages[1], cwd, files)
               /\ \A k \in 1 .. Len(line.stages) :
                     after[k] = Ran(after[k - 1], line.stages[k], cwd, Captured(line, k))
               /\ \A k \in 0 .. Len(line.stages) : after[k] \in Progress
<1> DEFINE N == Len(line.stages)
           first == Given(line.stages[1], cwd, files)
           after == CHOOSE after : after = [k \in 0 .. N |->
                       IF k = 0 THEN Given(line.stages[1], cwd, files)
                       ELSE Ran(after[k - 1], line.stages[k], cwd, Captured(line, k))]
           step == [x \in (1 .. N) \X Progress |->
                       Ran(x[2], line.stages[x[1]], cwd, Captured(line, x[1]))]
<1>1. /\ N \in Nat /\ line.stages # << >> /\ line.stages \in Seq(StageType)
      /\ \A k \in 1 .. N : line.stages[k] \in StageType
  BY PipelineLines, ElementOfSeq
<1>2. first \in Progress
  <2>1. 1 \in 1 .. N
    BY <1>1
  <2>2. line.stages[1] \in StageType /\ \A p, q \in line.stages[1].in : p = q
    BY <1>1, <2>1, PipelineLines
  <2>3. QED
    BY <2>2, GivenType
<1> HIDE DEF first
<1>3. ASSUME NEW k \in 1 .. N, NEW m \in Progress
      PROVE  Ran(m, line.stages[k], cwd, Captured(line, k)) \in Progress
  BY <1>1, RanType
<1>4. step \in Steps(N, Progress)
  BY <1>3 DEF Steps
<1>5. PICK f : Recurs(f, N, Progress, first, step)
  <2> HIDE DEF step, N
  <2>1. QED
    BY <1>1, <1>2, <1>4, Recursion
<1>6. \A k \in 1 .. N : f[k] = Ran(f[k - 1], line.stages[k], cwd, Captured(line, k))
  <2>1. f \in [0 .. N -> Progress] /\ \A k \in 1 .. N : f[k] = step[<<k, f[k - 1]>>]
    BY <1>5 DEF Recurs
  <2>2. \A k \in 1 .. N : k - 1 \in 0 .. N
    BY <1>1
  <2>3. \A k \in 1 .. N : <<k, f[k - 1]>> \in (1 .. N) \X Progress
    BY <2>1, <2>2
  <2>4. QED
    BY <2>1, <2>3
<1>7. f = [k \in 0 .. N |-> IF k = 0 THEN Given(line.stages[1], cwd, files)
                            ELSE Ran(f[k - 1], line.stages[k], cwd, Captured(line, k))]
  <2>1. \A k \in 0 .. N : k # 0 => k \in 1 .. N
    BY <1>1
  <2>2. f \in [0 .. N -> Progress] /\ f[0] = Given(line.stages[1], cwd, files)
    BY <1>5 DEF Recurs, first
  <2>3. \A k \in 0 .. N : f[k] = IF k = 0 THEN Given(line.stages[1], cwd, files)
                                 ELSE Ran(f[k - 1], line.stages[k], cwd, Captured(line, k))
    BY <1>6, <2>1, <2>2
  <2>4. QED
    BY <2>2, <2>3
<1>8. after = [k \in 0 .. N |-> IF k = 0 THEN Given(line.stages[1], cwd, files)
                                ELSE Ran(after[k - 1], line.stages[k], cwd, Captured(line, k))]
  BY <1>7, Zenon
<1>9. AfterStages(line, cwd, files) = after
  BY DEF AfterStages
<1> HIDE DEF after, step
<1>10. /\ after[0] = first
       /\ \A k \in 1 .. N :
             after[k] = Ran(after[k - 1], line.stages[k], cwd, Captured(line, k))
  BY <1>1, <1>8 DEF first
<1> DEFINE S == {k \in Nat : after[k] \in Progress}
<1>11. 0 \in S
  BY <1>2, <1>10
<1>12. ASSUME NEW k \in 0 .. N - 1, k \in S PROVE k + 1 \in S
  <2>1. k + 1 \in 1 .. N /\ k + 1 \in Nat /\ (k + 1) - 1 = k
    BY <1>1
  <2>2. after[k + 1] = Ran(after[k], line.stages[k + 1], cwd, Captured(line, k + 1))
    BY <1>10, <2>1
  <2>3. QED
    BY <1>3, <1>12, <2>1, <2>2
<1> HIDE DEF S
<1>13. \A k \in 0 .. N : k \in S
  BY <1>1, <1>11, <1>12, BoundedInduction
<1>14. \A k \in 0 .. N : after[k] \in Progress
  BY <1>13 DEF S
<1>15. QED
  BY <1>9, <1>10, <1>14 DEF first, N

\* From a stage that could not be started on nothing changes.
LEMMA AbandonedForGood ==
    ASSUME NEW line \in Lines, NEW cwd \in FileName, NEW files \in FileTables,
           NEW k \in 0 .. Len(line.stages), ~AfterStages(line, cwd, files)[k].ok
    PROVE  LET after == AfterStages(line, cwd, files)  N == Len(line.stages)
           IN  ~after[N].ok /\ after[N].files = after[k].files /\ after[N].spilt = after[k].spilt
<1> DEFINE after == AfterStages(line, cwd, files)
           N == Len(line.stages)
           S == {n \in Nat : n >= k => /\ ~after[n].ok /\ after[n].files = after[k].files
                                        /\ after[n].spilt = after[k].spilt}
<1>1. /\ N \in Nat /\ \A n \in 1 .. N : line.stages[n] \in StageType
  BY PipelineLines, ElementOfSeq
<1>2. /\ \A n \in 1 .. N : after[n] = Ran(after[n - 1], line.stages[n], cwd, Captured(line, n))
      /\ \A n \in 0 .. N : after[n] \in Progress
  BY StageSteps
<1>3. ~after[k].ok
  OBVIOUS
<1> HIDE DEF after, N
<1>4. k \in 0 .. N
  BY DEF N
<1>5. 0 \in S
  BY <1>1, <1>3, <1>4
<1>6. ASSUME NEW n \in 0 .. N - 1, n \in S PROVE n + 1 \in S
  <2>1. n + 1 \in 1 .. N /\ n \in 0 .. N /\ n + 1 \in Nat /\ (n + 1) - 1 = n
    BY <1>1
  <2>2. CASE n + 1 > k
    <3>1. n >= k
      BY <1>1, <1>4, <2>1, <2>2
    <3>2. ~after[n].ok /\ after[n].files = after[k].files /\ after[n].spilt = after[k].spilt
      BY <1>6, <3>1
    <3>3. after[n + 1] = Ran(after[n], line.stages[n + 1], cwd, Captured(line, n + 1))
      BY <1>2, <2>1
    <3>4. after[n] \in Progress /\ line.stages[n + 1] \in StageType
      BY <1>1, <1>2, <2>1
    <3>5. ~after[n + 1].ok /\ after[n + 1].files = after[n].files
          /\ after[n + 1].spilt = after[n].spilt
      <4> DEFINE m == after[n]  stage == line.stages[n + 1]  c == Captured(line, n + 1)
      <4>1. m \in Progress /\ stage \in StageType /\ ~m.ok
        BY <3>2, <3>4
      <4>2. after[n + 1] = Ran(m, stage, cwd, c)
        BY <3>3
      <4> HIDE DEF m, stage, c
      <4>3. /\ ~Ran(m, stage, cwd, c).ok /\ Ran(m, stage, cwd, c).files = m.files
            /\ Ran(m, stage, cwd, c).spilt = m.spilt
        BY <4>1, RanNot
      <4>4. QED
        BY <4>2, <4>3 DEF m
    <3>6. QED
      BY <2>1, <3>2, <3>5
  <2>3. CASE ~(n + 1 > k)
    <3>1. n + 1 >= k => n + 1 = k
      BY <1>1, <1>4, <2>1, <2>3
    <3>2. QED
      BY <1>3, <2>1, <3>1
  <2>4. QED
    BY <2>2, <2>3
<1> HIDE DEF S
<1>7. \A n \in 0 .. N : n \in S
  BY <1>1, <1>5, <1>6, BoundedInduction
<1>8. N \in S /\ N >= k
  BY <1>1, <1>4, <1>7
<1>9. ~after[N].ok /\ after[N].files = after[k].files /\ after[N].spilt = after[k].spilt
  BY <1>8 DEF S
<1>10. QED
  BY <1>9 DEF after, N

-----------------------------------------------------------------------------
(* The inductive invariant.  Wherever the shell is in a line, the files, its  *)
(* pipe and the terminal are what the stages before make of them; while a    *)
(* program runs, so are its arguments, and what it has written so far is what *)
(* its code has come to.                                                   *)

ShellStates == {"prompt", "stage", "infile", "exec", "wait"}

LineType == [ops : BOOLEAN, stages : Seq(StageType)]

ShellType ==
    [at : ShellStates, cwd : FileName, line : LineType, idx : Nat \ {0}, pipe : StdinArg,
     typed : Nat, before : FileTables, spilt : Seq(Byte), shown : Seq(Byte)]

ProgramState ==
    [pc : {"open", "read", "reading", "end"}, buf : Seq(Byte), stream : Seq(Byte), keys : Nat,
     files : Seq(FileName), todo : Seq(Seq(Byte))]

\* What the stages before this one come to, and those up to it.
Before == AfterStages(sh.line, sh.cwd, sh.before)[sh.idx - 1]
After  == AfterStages(sh.line, sh.cwd, sh.before)[sh.idx]

\* What the stage in turn is given to read: nothing, or as much as a buffer holds.
Input == Truncate(Before.out, MaxIoBuf)

PipeFits ==
    sh.pipe = IF sh.idx = 1 /\ Stage.in = {} THEN NoStdin ELSE [some |-> TRUE, data |-> Input]

\* What its program starts from, and what it is to come to.
Handed == [out |-> Input, spilt |-> Before.spilt, files |-> Before.files]
Effect == [out |-> After.out, spilt |-> After.spilt, files |-> After.files]

\* The stages before this one have had their effect and no other.
SoFar == FileTable = Before.files /\ sh.spilt = Before.spilt /\ sh.shown = << >>

Ready == Before.ok /\ SoFar

AtStage ==
    /\ SoFar
    /\ IF sh.idx = 1 THEN sh.pipe = NoStdin
       ELSE Before.ok /\ sh.pipe = [some |-> TRUE, data |-> Input]

AtInFile == sh.idx = 1 /\ Stage.in # {} /\ Stage.parses /\ SoFar

AtExec == Ready /\ PipeFits /\ Stage.parses

\* exec has come back: nothing was run, or the stage has had its effect.
AtReturn ==
    IF result.status = Failed
    THEN Ready /\ ~Runs(Stage)
    ELSE /\ After.ok /\ FileTable = After.files /\ sh.spilt = After.spilt
         /\ IF Capture THEN sh.shown = << >> /\ result.out = Truncate(After.out, MaxIoBuf)
                       ELSE sh.shown = After.out

\* What the program has written, and what it will have when it has written what it
\* is about to.
Emitted == IF Top.call.out.some THEN Top.wrote ELSE sh.shown
Emits   == [out |-> Emitted, spilt |-> sh.spilt, files |-> FileTable]
Said    == WroteAll(Emits, prog.todo, Capture)

\* A program that copies its input has passed on what it has read.
Copying ==
    /\ FileTable = Before.files
    /\ prog.files = IF Is(TeePath) THEN Stage.args.words ELSE << >>
    /\ Top.call.stdin.some =>
          /\ Said.out \o (IF prog.pc = "reading" THEN prog.buf ELSE << >>) = Top.got
          /\ Said.spilt = Before.spilt
          /\ Is(TeePath) => prog.stream = Truncate(Said.out, MaxIoBuf)
    /\ prog.pc = "reading" =>
          /\ prog.todo = << >> /\ Top.rd.count = Len(prog.buf) /\ Top.rd.len = ReadChunk
          /\ ~Top.rd.busy /\ Top.rd.count = 0 => Top.call.stdin.some

\* tee has stored its stream under the first of its words.
TeeStoring(k) ==
    LET words == Stage.args.words
    IN  /\ Len(prog.files) = Len(words) - k
        /\ \A j \in 1 .. Len(prog.files) : prog.files[j] = words[k + j]
        /\ Said = TeeMeaning(words, Handed, Capture)[k]
        /\ prog.stream = Input

\* The program was started as its stage says, on what it was given.
Launched ==
    /\ Before.ok /\ Runs(Stage) /\ PipeFits
    /\ Top.call.path = BinPath[Stage.cmd]
    /\ Top.call.stdin = IF Input = << >> THEN NoStdin ELSE [some |-> TRUE, data |-> Input]
    /\ Top.call.out = IF Capture THEN [some |-> TRUE, cap |-> MaxIoBuf] ELSE NoStdout
    /\ Capture => sh.shown = << >>

Running ==
    /\ Top.rd.busy => prog.pc = "reading"
    /\ prog.pc = "open" =>
          /\ Is(CatPath) /\ Stage.args.words # << >> /\ prog.files = << >>
          /\ Said = [Handed EXCEPT !.out = << >>]
    /\ prog.pc \in {"read", "reading"} =>
          /\ Is(TeePath) \/ (Is(CatPath) /\ Stage.args.words = << >>)
          /\ Copying
    /\ prog.pc = "end" =>
          IF Is(TeePath) THEN \E k \in 0 .. Len(Stage.args.words) : TeeStoring(k)
          ELSE prog.files = << >> /\ Said = Effect

\* The line it ran has done what it means.
AtPrompt ==
    sh.line # NoLine /\ ~IsBuiltin =>
        LET m == Meaning(sh.line, sh.cwd, sh.before)
        IN  FileTable = m.files /\ sh.spilt = m.spilt /\ sh.shown = m.shown

LineInv ==
    /\ Depth = 2 => sh.at = "wait"
    /\ sh.at = "wait" => Depth \in {1, 2}
    /\ sh.at # "prompt" => sh.line \in Lines /\ sh.idx \in 1 .. Len(sh.line.stages)
    /\ sh.at = "prompt" => AtPrompt
    /\ sh.at = "stage" => AtStage
    /\ sh.at = "infile" => AtInFile
    /\ sh.at = "exec" => AtExec
    /\ sh.at = "wait" => IF Depth = 1 THEN AtReturn ELSE Launched /\ Running

SystemInv == IoInv /\ FsInv /\ sh \in ShellType /\ prog \in ProgramState /\ LineInv

-----------------------------------------------------------------------------
(* Every step of the system is one of the kernel.                          *)

LEMMA SystemIsKernelStep == SystemInv /\ [SystemNext]_systemVars => KernelStep
<1> SUFFICES ASSUME SystemInv, [SystemNext]_systemVars PROVE KernelStep
  OBVIOUS
<1>1. ASSUME UNCHANGED kernelVars PROVE KernelStep
  BY <1>1 DEF kernelVars, KernelStep
<1>2. ASSUME Return(0) PROVE KernelStep
  BY <1>2 DEF KernelStep
<1>3. ASSUME StartSystem PROVE KernelStep
  BY <1>3 DEF StartSystem, KernelStep
<1>4. ASSUME Builtin PROVE KernelStep
  BY <1>1, <1>2, <1>4 DEF Builtin
<1>5. ASSUME RunStage PROVE KernelStep
  <2>1. CASE Stage.cmd \in DOMAIN BinPath
    <3> DEFINE path == BinPath[Stage.cmd]
               out == [some |-> Capture, cap |-> IF Capture THEN MaxIoBuf ELSE 0]
    <3>1. path \in Path
      BY <2>1, PipelinePrograms
    <3>2. sh.pipe \in StdinArg
      BY DEF SystemInv, ShellType
    <3>3. out \in StdoutArg
      <4>1. Capture \in BOOLEAN /\ MaxIoBuf \in Nat
        BY PipelineSizes DEF Capture
      <4>2. QED
        BY <4>1 DEF StdoutArg
    <3>4. ExecFromBinIo(path, sh.pipe, Capture)
      BY <1>5, <2>1 DEF RunStage
    <3>5. SysExecIo(path, sh.pipe, out) \/ SysExecve(path)
      BY <3>4, Zenon DEF ExecFromBinIo
    <3> HIDE DEF path, out
    <3>6. QED
      BY <3>1, <3>2, <3>3, <3>5 DEF KernelStep
  <2>2. CASE Stage.cmd \notin DOMAIN BinPath
    BY <1>1, <1>5, <2>2 DEF RunStage
  <2>3. QED
    BY <2>1, <2>2
<1>6. ASSUME EmitNext PROVE KernelStep
  <2>1. Head(prog.todo) \in Seq(Byte)
    BY <1>6, HeadTailProperties DEF EmitNext, SystemInv, ProgramState
  <2>2. Write(Head(prog.todo))
    BY <1>6 DEF EmitNext
  <2>3. QED
    BY <2>1, <2>2 DEF KernelStep
<1>7. ASSUME CallRead PROVE KernelStep
  BY <1>7, PipelineSizes DEF CallRead, KernelStep
<1>8. ASSUME ServeRead PROVE KernelStep
  BY <1>8 DEF ServeRead, KernelStep
<1>9. ASSUME NEW b \in Byte, PressKey(b) PROVE KernelStep
  BY <1>9 DEF PressKey, KernelStep
<1>10. ASSUME Leave PROVE KernelStep
  BY <1>2, <1>10 DEF Leave
<1>11. ASSUME BeginStage \/ ReadInFile \/ StageFailed \/ PassOn \/ EndLine \/ CatOpen
              \/ ReadDone \/ TeeStore \/ (\E line \in Lines : TypeLine(line))
       PROVE KernelStep
  BY <1>1, <1>11
     DEF BeginStage, ReadInFile, StageFailed, PassOn, EndLine, CatOpen, ReadDone, TeeStore,
         TypeLine
<1>12. ASSUME UNCHANGED systemVars PROVE KernelStep
  BY <1>1, <1>12 DEF systemVars
<1>13. QED
  BY <1>3, <1>4, <1>5, <1>6, <1>7, <1>8, <1>9, <1>10, <1>11, <1>12
     DEF SystemNext, Machine, AwaitKey

\* So the kernel's invariant is kept by the whole system.
LEMMA SystemIoInv == SystemInv /\ [SystemNext]_systemVars => IoInv'
  BY SystemIsKernelStep, StepIoInv DEF SystemInv

-----------------------------------------------------------------------------
(* What a step leaves alone.                                               *)

\* The line, and where the shell is in it.
SamePlace ==
    sh'.line = sh.line /\ sh'.cwd = sh.cwd /\ sh'.before = sh.before /\ sh'.idx = sh.idx

LEMMA PlaceKept ==
    ASSUME SamePlace
    PROVE  /\ Stage' = Stage /\ Capture' = Capture /\ (IsBuiltin' <=> IsBuiltin)
           /\ Before' = Before /\ After' = After /\ Input' = Input
           /\ Handed' = Handed /\ Effect' = Effect
           /\ (Runs(Stage))' <=> Runs(Stage)
<1>1. Stage' = Stage
  BY DEF SamePlace, Stage
<1>2. Capture' = Capture /\ (IsBuiltin' <=> IsBuiltin)
  BY <1>1 DEF SamePlace, Capture, IsLast, IsBuiltin
<1>3. Before' = Before /\ After' = After
  BY DEF SamePlace, Before, After
<1>4. Input' = Input /\ Handed' = Handed /\ Effect' = Effect
  BY <1>3 DEF Input, Handed, Effect
<1>5. (Runs(Stage))' <=> Runs(Stage)
  BY <1>1 DEF Runs
<1>6. QED
  BY <1>1, <1>2, <1>3, <1>4, <1>5

LEMMA FilesKept ==
    ASSUME FsInv, UNCHANGED ram_files
    PROVE  FsInv' /\ FileTable' = FileTable
  BY DEF FsInv, FileTable, Fs!Entry, Fs!Matches

\* A system call that works on the frame on top leaves it there.
LEMMA FrameKept ==
    ASSUME IoInv, stack # << >>, NEW f, UpdateTop(f)
    PROVE  Depth' = Depth /\ Top' = f /\ stack' # << >>
<1>1. stack \in Seq(Frame) /\ Depth \in Nat /\ Depth # 0
  BY DEF IoInv, IInv, TypeOK, Depth
<1>2. stack' = [stack EXCEPT ![Depth] = f]
  BY DEF UpdateTop
<1>3. Len(stack') = Depth /\ stack'[Depth] = f
  BY <1>1, <1>2 DEF Depth
<1>4. QED
  BY <1>1, <1>3 DEF Top, Depth

\* What a line and its stages are while the shell is in one.
LEMMA InLine ==
    ASSUME SystemInv, sh.at # "prompt"
    PROVE  /\ Stage \in StageType /\ \A p, q \in Stage.in : p = q
           /\ \A p, q \in Stage.out : p = q
           /\ Before \in Progress /\ After \in Progress
           /\ After = Ran(Before, Stage, sh.cwd, Capture)
           /\ Input \in Seq(Byte) /\ Len(Input) <= MaxIoBuf /\ Handed \in Outcome
           /\ sh.cwd \in FileName /\ sh.before \in FileTables
           /\ sh.idx = 1 => Before = Given(Stage, sh.cwd, sh.before) /\ Before.files = sh.before
                           /\ Before.spilt = << >>
<1>1. sh.line \in Lines /\ sh.idx \in 1 .. Len(sh.line.stages)
  BY DEF SystemInv, LineInv
<1>2. sh.cwd \in FileName /\ sh.before \in FileTables
  BY DEF SystemInv, ShellType
<1>3. /\ Len(sh.line.stages) \in Nat /\ Stage \in StageType
      /\ \A p, q \in Stage.in : p = q
      /\ \A p, q \in Stage.out : p = q
  BY <1>1, PipelineLines, ElementOfSeq DEF Stage
<1>4. sh.idx - 1 \in 0 .. Len(sh.line.stages) /\ sh.idx \in 0 .. Len(sh.line.stages)
  BY <1>1, <1>3
<1>5. /\ Before \in Progress /\ After \in Progress
      /\ After = Ran(Before, Stage, sh.cwd, Capture)
  <2>1. Captured(sh.line, sh.idx) = Capture
    BY DEF Captured, Capture, IsLast, Stage
  <2>2. Before \in Progress /\ After \in Progress
    BY <1>1, <1>2, <1>4, StageSteps DEF Before, After
  <2>3. After = Ran(Before, Stage, sh.cwd, Captured(sh.line, sh.idx))
    BY <1>1, <1>2, StageSteps DEF Before, After, Stage
  <2>4. QED
    BY <2>1, <2>2, <2>3
<1>6. Input \in Seq(Byte) /\ Len(Input) <= MaxIoBuf /\ Handed \in Outcome
  <2>1. Before.out \in Seq(Byte) /\ Len(Before.out) \in Nat
    BY <1>5 DEF Progress
  <2>2. Input \in Seq(Byte) /\ Len(Input) = Lesser(Len(Before.out), MaxIoBuf)
    BY <2>1, TruncateProperties, PipelineSizes DEF Input
  <2>3. Handed \in Outcome
    BY <1>5, <2>2 DEF Handed, Progress, Outcome
  <2>4. QED
    BY <2>1, <2>2, <2>3, PipelineSizes DEF Lesser
<1>7. sh.idx = 1 => Before = Given(Stage, sh.cwd, sh.before)
  BY <1>1, <1>2, StageSteps DEF Before, Stage
<1>8. sh.idx = 1 => Before.files = sh.before /\ Before.spilt = << >>
  BY <1>2, <1>3, <1>7, GivenType
<1>9. QED
  BY <1>2, <1>3, <1>5, <1>6, <1>7, <1>8

-----------------------------------------------------------------------------
(* The shell's steps.                                                      *)

\* Nothing the invariant speaks of changes while the shell isn't waiting.
LEMMA IdleStep ==
    ASSUME SystemInv, UNCHANGED <<ram_files, sh>>, sh.at # "wait", Depth' # 2
    PROVE  FsInv' /\ LineInv'
<1>1. FsInv' /\ FileTable' = FileTable
  BY FilesKept DEF SystemInv
<1>2. /\ Stage' = Stage /\ Capture' = Capture /\ Before' = Before /\ After' = After
      /\ Input' = Input /\ (IsBuiltin' <=> IsBuiltin)
  BY PlaceKept DEF SamePlace
<1>3. LineInv
  BY DEF SystemInv
<1>4. AtPrompt => AtPrompt'
  BY <1>1, <1>2 DEF AtPrompt
<1>5. (AtStage => AtStage') /\ (AtInFile => AtInFile') /\ (AtExec => AtExec')
  BY <1>1, <1>2 DEF AtStage, AtInFile, AtExec, Ready, SoFar, PipeFits
<1>6. QED
  BY <1>1, <1>3, <1>4, <1>5 DEF LineInv

\* A stage that can't be started ends the line: the files stay as the stages
\* before it left them and nothing is shown.
LEMMA AbandonedLine ==
    ASSUME SystemInv, sh.at # "prompt", Abandon, UNCHANGED ram_files, Depth' # 2,
           SoFar, ~Before.ok \/ ~Runs(Stage)
    PROVE  FsInv' /\ sh' \in ShellType /\ LineInv'
<1> DEFINE after == AfterStages(sh.line, sh.cwd, sh.before)
           N == Len(sh.line.stages)
<1>1. FsInv' /\ FileTable' = FileTable
  BY FilesKept DEF SystemInv
<1>2. sh.line \in Lines /\ sh.idx \in 1 .. N /\ sh \in ShellType
  BY DEF SystemInv, LineInv
<1>3. /\ sh.cwd \in FileName /\ sh.before \in FileTables
      /\ Before \in Progress /\ After = Ran(Before, Stage, sh.cwd, Capture)
  BY InLine
<1>4. ~After.ok /\ After.files = FileTable /\ After.spilt = sh.spilt
  <2>1. ~After.ok /\ After.files = Before.files /\ After.spilt = Before.spilt
    BY <1>3, RanNot
  <2>2. QED
    BY <2>1 DEF SoFar
<1>5. ~after[N].ok /\ after[N].files = FileTable /\ after[N].spilt = sh.spilt
  <2>1. N \in Nat /\ sh.idx \in 0 .. N
    BY <1>2, PipelineLines
  <2>2. after[sh.idx] = After
    BY DEF After
  <2>3. /\ ~after[N].ok /\ after[N].files = after[sh.idx].files
        /\ after[N].spilt = after[sh.idx].spilt
    BY <1>2, <1>3, <1>4, <2>1, <2>2, AbandonedForGood
  <2>4. QED
    BY <1>4, <2>2, <2>3
<1>6. /\ Meaning(sh.line, sh.cwd, sh.before).files = FileTable
      /\ Meaning(sh.line, sh.cwd, sh.before).spilt = sh.spilt
      /\ Meaning(sh.line, sh.cwd, sh.before).shown = << >>
  <2> HIDE DEF after
  <2>1. QED
    BY <1>5 DEF Meaning, after
<1>7. /\ sh'.at = "prompt" /\ sh'.line = sh.line /\ sh'.cwd = sh.cwd
      /\ sh'.before = sh.before /\ sh'.spilt = sh.spilt /\ sh'.shown = << >>
      /\ sh' \in ShellType
  BY <1>2 DEF Abandon, ShellType, ShellStates, SoFar
<1>8. AtPrompt'
  BY <1>1, <1>6, <1>7 DEF AtPrompt
<1>9. QED
  BY <1>1, <1>7, <1>8 DEF LineInv

\* Boot.
LEMMA StartSystemInv ==
    ASSUME SystemInv, StartSystem
    PROVE  FsInv' /\ LineInv'
<1>1. Boot /\ UNCHANGED <<ram_files, sh>>
  BY DEF StartSystem, fileVars
<1>2. Depth = 0 /\ IInv
  BY <1>1 DEF Boot, SystemInv, IoInv, IInv, StackShape, Depth
<1>3. KernelStep
  BY <1>1 DEF KernelStep
<1>4. Depth' # 2
  BY <1>2, <1>3, StepShapes DEF Depth
<1>5. sh.at # "wait"
  BY <1>2 DEF SystemInv, LineInv
<1>6. QED
  BY <1>1, <1>4, <1>5, IdleStep

\* At its start a line has done nothing yet.
LEMMA TypeLineInv ==
    ASSUME SystemInv, NEW line \in Lines, TypeLine(line)
    PROVE  FsInv' /\ sh' \in ShellType /\ LineInv'
<1>1. FsInv' /\ FileTable' = FileTable
  BY FilesKept DEF SystemInv, TypeLine
<1>2. sh' = [sh EXCEPT !.at = "stage", !.typed = @ + 1, !.line = line, !.idx = 1,
                       !.pipe = NoStdin, !.before = FileTable, !.spilt = << >>, !.shown = << >>]
  BY DEF TypeLine
<1>3. Depth' = Depth /\ Depth = 1
  BY DEF TypeLine, kernelVars, vars, Depth, Shell
<1>4. FileTable \in FileTables /\ sh \in ShellType /\ sh.cwd \in FileName
  BY TableShape DEF SystemInv, TableIsArray, ShellType
<1>5. line \in LineType /\ line.stages # << >> /\ Len(line.stages) \in Nat
  BY PipelineLines DEF LineType
<1>6. 1 \in 1 .. Len(line.stages)
  BY <1>5
<1>7. NoStdin \in StdinArg /\ << >> \in Seq(Byte)
  BY DEF NoStdin, StdinArg
<1> HIDE DEF FileTable
<1>8. /\ sh'.at = "stage" /\ sh'.line = line /\ sh'.idx = 1 /\ sh'.pipe = NoStdin
      /\ sh'.before = FileTable /\ sh'.spilt = << >> /\ sh'.shown = << >>
      /\ sh'.cwd = sh.cwd
      /\ sh' \in ShellType
  <2>1. /\ sh.typed + 1 \in Nat /\ 1 \in Nat \ {0} /\ "stage" \in ShellStates
        /\ line \in LineType
    BY <1>4, <1>5 DEF ShellType, ShellStates
  <2>2. sh' = [at |-> "stage", cwd |-> sh.cwd, line |-> line, idx |-> 1, pipe |-> NoStdin,
                typed |-> sh.typed + 1, before |-> FileTable, spilt |-> << >>, shown |-> << >>]
    <3>1. sh = [at |-> sh.at, cwd |-> sh.cwd, line |-> sh.line, idx |-> sh.idx,
                pipe |-> sh.pipe, typed |-> sh.typed, before |-> sh.before, spilt |-> sh.spilt,
                shown |-> sh.shown]
      BY <1>4 DEF ShellType
    <3>2. QED
      BY <1>2, <3>1
  <2>3. QED
    BY <1>4, <1>7, <2>1, <2>2 DEF ShellType
<1>9. Before'.files = FileTable /\ Before'.spilt = << >>
  <2>1. line.stages[1] \in StageType /\ \A p, q \in line.stages[1].in : p = q
    BY <1>5, <1>6, PipelineLines, ElementOfSeq
  <2>2. Before' = Given(line.stages[1], sh.cwd, FileTable)
    BY <1>4, <1>8, StageSteps DEF Before
  <2>3. QED
    BY <1>4, <2>1, <2>2, GivenType
<1>10. AtStage'
  BY <1>1, <1>8, <1>9 DEF AtStage, SoFar
<1>11. QED
  BY <1>1, <1>3, <1>6, <1>8, <1>10 DEF LineInv

\* Builtins leave the shell in a directory.
LEMMA DirAfterType ==
    ASSUME NEW stage \in StageType, NEW cwd \in FileName
    PROVE  DirAfter(stage, cwd) \in FileName
<1>1. stage.args.name \in FileName /\ stage.args.cwd \in SUBSET FileName
  BY DEF StageType, Arguments
<1>2. ChangedDir(cwd, stage.args.name) \in FileName
  BY <1>1, ChangedDirType
<1>3. stage.args.cwd # {} => (CHOOSE p \in stage.args.cwd : TRUE) \in FileName
  BY <1>1
<1>4. QED
  BY <1>2, <1>3, Zenon DEF DirAfter

\* A builtin changes no file; what it prints is its own affair.
LEMMA BuiltinInv ==
    ASSUME SystemInv, IoInv', Builtin
    PROVE  FsInv' /\ sh' \in ShellType /\ LineInv'
<1>1. /\ UNCHANGED ram_files /\ InUser /\ Depth = 1 /\ sh.at = "stage"
      /\ IsBuiltin /\ sh \in ShellType
  BY DEF Builtin, Shell, fileVars, SystemInv
<1>2. CASE Stage.cmd = "exit"
  <2>1. Return(0) /\ UNCHANGED sh
    BY <1>2 DEF Builtin
  <2>2. KernelStep
    BY <2>1 DEF KernelStep
  <2>3. Depth' # 2
    BY <1>1, <2>2, <2>1, PopProperties DEF Return, InUser, Depth, SystemInv, IoInv, IInv, TypeOK
  <2>4. QED
    BY <1>1, <2>1, <2>3, IdleStep DEF SystemInv
<1>3. CASE Stage.cmd # "exit"
  <2>1. /\ sh' = [sh EXCEPT !.at = "prompt", !.cwd = DirAfter(Stage, @)]
        /\ UNCHANGED kernelVars
    BY <1>3 DEF Builtin
  <2>2. Stage \in StageType /\ sh.cwd \in FileName
    BY <1>1, InLine
  <2>3. DirAfter(Stage, sh.cwd) \in FileName
    BY <2>2, DirAfterType
  <2>4. /\ sh'.at = "prompt" /\ sh'.line = sh.line /\ sh'.idx = sh.idx /\ sh' \in ShellType
    BY <1>1, <2>1, <2>2, <2>3 DEF ShellType, ShellStates
  <2>5. AtPrompt'
    BY <1>1, <2>4 DEF AtPrompt, IsBuiltin, Stage
  <2>6. FsInv' /\ Depth' = 1
    BY <1>1, <2>1, FilesKept DEF SystemInv, kernelVars, vars, Depth
  <2>7. QED
    BY <2>4, <2>5, <2>6 DEF LineInv
<1>4. QED
  BY <1>2, <1>3

\* A stage that isn't abandoned goes on to its input file or to exec.
LEMMA BeginStageInv ==
    ASSUME SystemInv, BeginStage
    PROVE  FsInv' /\ sh' \in ShellType /\ LineInv'
<1>1. /\ UNCHANGED <<kernelVars, ram_files>> /\ Depth = 1 /\ sh.at = "stage"
      /\ sh \in ShellType
  BY DEF BeginStage, Shell, fileVars, SystemInv
<1>2. AtStage /\ sh.line \in Lines /\ sh.idx \in 1 .. Len(sh.line.stages)
  BY <1>1 DEF SystemInv, LineInv
<1>3. Depth' = 1 /\ FsInv' /\ FileTable' = FileTable
  BY <1>1, FilesKept DEF SystemInv, kernelVars, vars, Depth
<1>4. CASE ~Stage.parses \/ Stage.cmd \in Builtins
  <2>1. Abandon
    BY <1>4 DEF BeginStage
  <2>2. ~Runs(Stage)
    BY <1>4, PipelinePrograms DEF Runs, Builtins
  <2>3. QED
    BY <1>1, <1>2, <1>3, <2>1, <2>2, AbandonedLine DEF AtStage
<1>5. CASE Stage.parses /\ Stage.cmd \notin Builtins
  <2> DEFINE to == IF sh.idx = 1 /\ Stage.in # {} THEN "infile" ELSE "exec"
  <2>1. sh' = [sh EXCEPT !.at = to]
    BY <1>5 DEF BeginStage
  <2>2. /\ sh'.at = to /\ SamePlace /\ sh'.pipe = sh.pipe /\ sh'.shown = sh.shown
        /\ sh'.spilt = sh.spilt /\ sh' \in ShellType
    <3>1. to \in {"infile", "exec"}
      OBVIOUS
    <3> HIDE DEF to
    <3>2. QED
      BY <1>1, <2>1, <3>1 DEF ShellType, ShellStates, SamePlace
  <2>3. /\ Stage' = Stage /\ Before' = Before /\ Input' = Input
        /\ sh'.line = sh.line /\ sh'.idx = sh.idx
    BY <2>2, PlaceKept DEF SamePlace
  <2>4. CASE sh.idx = 1 /\ Stage.in # {}
    <3>1. sh'.at = "infile" /\ AtInFile'
      BY <1>2, <1>3, <1>5, <2>2, <2>3, <2>4 DEF AtStage, AtInFile, SoFar
    <3>2. QED
      BY <1>2, <1>3, <2>2, <2>3, <3>1 DEF LineInv
  <2>5. CASE ~(sh.idx = 1 /\ Stage.in # {})
    <3>1. Before.ok
      <4>1. CASE sh.idx = 1
        BY <1>1, <2>5, <4>1, InLine, GivenType
      <4>2. CASE sh.idx # 1
        BY <1>2, <4>2 DEF AtStage
      <4>3. QED
        BY <4>1, <4>2
    <3>2. sh'.at = "exec" /\ AtExec'
      BY <1>2, <1>3, <1>5, <2>2, <2>3, <2>5, <3>1
         DEF AtStage, AtExec, Ready, SoFar, PipeFits
    <3>3. QED
      BY <1>2, <1>3, <2>2, <2>3, <3>2 DEF LineInv
  <2>6. QED
    BY <2>4, <2>5
<1>6. QED
  BY <1>4, <1>5

\* What was read from the file after < is what the line was given.
LEMMA ReadInFileInv ==
    ASSUME SystemInv, ReadInFile
    PROVE  FsInv' /\ sh' \in ShellType /\ LineInv'
<1>1. /\ UNCHANGED kernelVars /\ Depth = 1 /\ sh.at = "infile" /\ sh \in ShellType /\ FsInv
  BY DEF ReadInFile, Shell, SystemInv
<1>2. AtInFile /\ sh.line \in Lines /\ sh.idx \in 1 .. Len(sh.line.stages)
  BY <1>1 DEF SystemInv, LineInv
<1>3. PICK n \in Stage.in : Fs!SysReadFile(Resolve(sh.cwd, n), MaxIoBuf)
  BY DEF ReadInFile
<1> DEFINE p == Resolve(sh.cwd, n)
<1>4. /\ FsInv' /\ FileTable' = FileTable /\ (reply'.ok <=> Readable(FileTable, p))
      /\ (Readable(FileTable, p) => reply'.data = ContentOf(FileTable, p))
  BY <1>1, <1>3, ReadReturns
<1>5. /\ Stage \in StageType /\ \A r, q \in Stage.in : r = q /\ sh.cwd \in FileName
      /\ sh.before \in FileTables /\ Before = Given(Stage, sh.cwd, sh.before)
      /\ Before.files = sh.before /\ Before \in Progress
  BY <1>1, <1>2, InLine DEF AtInFile
<1>6. FileTable = sh.before
  BY <1>2, <1>5 DEF AtInFile, SoFar
<1>7. /\ Before.ok <=> reply'.ok
      /\ Before.ok => Before.out = reply'.data
  BY <1>3, <1>4, <1>5, <1>6, GivenType
<1>8. Depth' = 1
  BY <1>1 DEF kernelVars, vars, Depth
<1>9. CASE ~reply'.ok
  <2>1. Abandon /\ UNCHANGED ram_files
    BY <1>3, <1>9 DEF ReadInFile, Fs!SysReadFile
  <2>2. QED
    BY <1>1, <1>2, <1>7, <1>8, <1>9, <2>1, AbandonedLine DEF AtInFile, SystemInv
<1>10. CASE reply'.ok
  <2>1. sh' = [sh EXCEPT !.at = "exec", !.pipe = [some |-> TRUE, data |-> reply'.data]]
    BY <1>10 DEF ReadInFile
  <2>2. reply'.data \in Seq(Byte) /\ Input = reply'.data
    <3>1. Before.out \in Seq(Byte) /\ Before.out = reply'.data
      BY <1>5, <1>7, <1>10 DEF Progress
    <3>2. Len(Before.out) <= MaxIoBuf
      BY <1>4, <1>5, <1>6, <1>7, <1>10, ContentType
    <3>3. QED
      BY <3>1, <3>2, TruncateProperties, PipelineSizes DEF Input
  <2>3. [some |-> TRUE, data |-> reply'.data] \in StdinArg
    BY <2>2 DEF StdinArg
  <2>4. /\ sh'.at = "exec" /\ SamePlace /\ sh'.pipe = [some |-> TRUE, data |-> Input]
        /\ sh'.spilt = sh.spilt /\ sh'.shown = sh.shown /\ sh' \in ShellType
    BY <1>1, <2>1, <2>2, <2>3 DEF ShellType, ShellStates, SamePlace
  <2>5. /\ Stage' = Stage /\ Before' = Before /\ Input' = Input
        /\ sh'.line = sh.line /\ sh'.idx = sh.idx
    BY <2>4, PlaceKept DEF SamePlace
  <2>6. AtExec'
    BY <1>2, <1>4, <1>7, <1>10, <2>4, <2>5
       DEF AtInFile, AtExec, Ready, SoFar, PipeFits
  <2>7. QED
    BY <1>2, <1>4, <1>8, <2>4, <2>5, <2>6 DEF LineInv
<1>11. QED
  BY <1>9, <1>10

\* A command that didn't start ends the line.
LEMMA StageFailedInv ==
    ASSUME SystemInv, StageFailed
    PROVE  FsInv' /\ sh' \in ShellType /\ LineInv'
<1>1. /\ UNCHANGED <<kernelVars, ram_files>> /\ Depth = 1 /\ sh.at = "wait"
      /\ result.status = Failed /\ Abandon
  BY DEF StageFailed, Shell, fileVars
<1>2. Ready /\ ~Runs(Stage)
  BY <1>1 DEF SystemInv, LineInv, AtReturn
<1>3. Depth' = 1
  BY <1>1 DEF kernelVars, vars, Depth
<1>4. QED
  BY <1>1, <1>2, <1>3, AbandonedLine DEF Ready

\* The captured output of a stage is the input of the next.
LEMMA PassOnInv ==
    ASSUME SystemInv, PassOn
    PROVE  FsInv' /\ sh' \in ShellType /\ LineInv'
<1>1. /\ UNCHANGED <<kernelVars, ram_files>> /\ Depth = 1 /\ sh.at = "wait"
      /\ result.status # Failed /\ ~IsLast /\ sh \in ShellType
      /\ sh' = [sh EXCEPT !.at = "stage", !.idx = @ + 1, !.pipe = PassedOn]
  BY DEF PassOn, Shell, fileVars, SystemInv
<1>2. /\ AtReturn /\ Capture /\ sh.line \in Lines /\ sh.idx \in 1 .. Len(sh.line.stages)
  BY <1>1 DEF SystemInv, LineInv, Capture
<1>3. /\ After.ok /\ FileTable = After.files /\ sh.spilt = After.spilt /\ sh.shown = << >>
      /\ result.out = Truncate(After.out, MaxIoBuf)
  BY <1>1, <1>2 DEF AtReturn
<1>4. result.out \in Seq(Byte) /\ PassedOn \in StdinArg
  BY DEF SystemInv, IoInv, IInv, TypeOK, Result, PassedOn, StdinArg
<1>5. sh.idx + 1 \in 1 .. Len(sh.line.stages) /\ sh.idx + 1 # 1 /\ sh.idx \in Nat
  BY <1>1, <1>2, PipelineLines DEF IsLast
<1>6. /\ sh'.at = "stage" /\ sh'.line = sh.line /\ sh'.cwd = sh.cwd /\ sh'.before = sh.before
      /\ sh'.idx = sh.idx + 1 /\ sh'.pipe = PassedOn /\ sh'.shown = sh.shown
      /\ sh'.spilt = sh.spilt
      /\ sh' \in ShellType
  <2>1. sh.idx + 1 \in Nat \ {0} /\ "stage" \in ShellStates
    BY <1>5 DEF ShellStates
  <2>2. QED
    BY <1>1, <1>4, <2>1 DEF ShellType
<1>7. Before' = After
  <2>1. sh'.idx - 1 = sh.idx
    BY <1>5, <1>6
  <2>2. QED
    BY <1>6, <2>1 DEF Before, After
<1>8. FsInv' /\ FileTable' = FileTable /\ Depth' = 1
  BY <1>1, FilesKept DEF SystemInv, kernelVars, vars, Depth
<1>9. AtStage'
  BY <1>3, <1>5, <1>6, <1>7, <1>8 DEF AtStage, SoFar, Input, PassedOn
<1>10. QED
  BY <1>2, <1>5, <1>6, <1>8, <1>9 DEF LineInv

\* A line that has run to its end has done what it means; the file after > is
\* written then.
LEMMA EndLineInv ==
    ASSUME SystemInv, EndLine
    PROVE  FsInv' /\ sh' \in ShellType /\ LineInv'
<1> DEFINE m == Meaning(sh.line, sh.cwd, sh.before)
           N == Len(sh.line.stages)
<1>1. /\ UNCHANGED kernelVars /\ Depth = 1 /\ sh.at = "wait" /\ FsInv
      /\ result.status # Failed /\ IsLast /\ sh \in ShellType /\ Abandon
  BY DEF EndLine, Shell, SystemInv
<1>2. /\ AtReturn /\ sh.idx = N /\ Stage = sh.line.stages[N]
  BY <1>1 DEF SystemInv, LineInv, IsLast, Stage
<1>3. After.ok /\ FileTable = After.files /\ sh.spilt = After.spilt
  BY <1>1, <1>2 DEF AtReturn
<1>4. After = AfterStages(sh.line, sh.cwd, sh.before)[N]
  BY <1>2 DEF After
<1>5. /\ Stage \in StageType /\ After \in Progress /\ sh.cwd \in FileName
      /\ \A p, q \in Stage.out : p = q
  BY <1>1, InLine
<1>6. m.spilt = After.spilt /\ m.shown = IF Stage.out = {} THEN After.out ELSE << >>
  BY <1>2, <1>3, <1>4 DEF Meaning
<1>7. /\ sh'.at = "prompt" /\ sh'.line = sh.line /\ sh'.cwd = sh.cwd
      /\ sh'.before = sh.before /\ sh'.spilt = sh.spilt /\ sh'.shown = sh.shown
      /\ sh' \in ShellType
  BY <1>1 DEF Abandon, ShellType, ShellStates
<1>8. Depth' = 1
  BY <1>1 DEF kernelVars, vars, Depth
<1>9. CASE Stage.out = {}
  <2>1. UNCHANGED ram_files
    BY <1>9 DEF EndLine, fileVars
  <2>2. FsInv' /\ FileTable' = FileTable
    BY <1>1, <2>1, FilesKept
  <2>3. m.files = After.files
    BY <1>2, <1>4, <1>9 DEF Meaning
  <2>4. sh.shown = After.out
    BY <1>1, <1>2, <1>9 DEF AtReturn, Capture
  <2> HIDE DEF m
  <2>5. AtPrompt'
    BY <1>3, <1>6, <1>7, <1>9, <2>2, <2>3, <2>4 DEF AtPrompt, m
  <2>6. QED
    BY <1>7, <1>8, <2>2, <2>5 DEF LineInv
<1>10. CASE Stage.out # {}
  <2>1. PICK n \in Stage.out : Fs!SysWriteFile(Resolve(sh.cwd, n), result.out)
    BY <1>10 DEF EndLine
  <2> DEFINE p == Resolve(sh.cwd, n)
  <2>2. sh.shown = << >> /\ result.out = Truncate(After.out, MaxIoBuf)
    BY <1>1, <1>2, <1>10 DEF AtReturn, Capture
  <2>3. result.out \in Seq(Byte)
    BY DEF SystemInv, IoInv, IInv, TypeOK, Result
  <2>4. p \in FileName
    <3>1. n \in FileName
      BY <1>5, <2>1 DEF StageType
    <3>2. QED
      BY <1>5, <3>1, ResolveType
  <2> HIDE DEF p
  <2>5. FsInv' /\ FileTable' = Stored(FileTable, p, result.out)
    BY <1>1, <2>1, <2>3, <2>4, WriteStores DEF p
  <2>6. (CHOOSE q \in {Resolve(sh.cwd, r) : r \in Stage.out} : TRUE) = p
    BY <1>5, OnlyFile DEF p
  <2>7. m.files = Stored(After.files, p, Truncate(After.out, MaxIoBuf))
    BY <1>2, <1>3, <1>4, <1>10, <2>6 DEF Meaning
  <2>8. m.files = FileTable'
    BY <1>3, <2>2, <2>5, <2>7
  <2> HIDE DEF m
  <2>9. AtPrompt'
    BY <1>3, <1>6, <1>7, <1>10, <2>2, <2>8 DEF AtPrompt, m
  <2>10. QED
    BY <1>7, <1>8, <2>5, <2>9 DEF LineInv
<1>11. QED
  BY <1>9, <1>10

-----------------------------------------------------------------------------
(* What a stage's program is given, and what it should come to.             *)

\* At depth one a program of the system is never refused: only init's slot is
\* taken, and a record is free.
LEMMA ProgramsStart ==
    ASSUME IInv, Depth = 1, NEW call, call.path \in {CatPath, TeePath, EchoPath}
    PROVE  Executable(call) /\ call.path \in Loads
<1> DEFINE path == call.path
<1>1. /\ path \in FILES /\ path \in DOMAIN SlotForPath /\ path \in Loads
      /\ path # InitPath /\ SlotForPath[path] \in Slot
  BY PipelinePrograms, ExecPaths
<1>2. stack[1].call.path = InitPath /\ InitPath \in DOMAIN SlotForPath
  <2>1. stack[1].call.path = InitPath
    BY DEF IInv, StackShape, BootCall, PlainCall, ExecCall
  <2>2. stack[1].call.path \in DOMAIN SlotForPath
    BY DEF IInv, StackShape
  <2>3. QED
    BY <2>1, <2>2
<1>3. SlotForPath[path] \notin pm.slots_in_use
  <2>1. pm.slots_in_use = {SlotForPath[stack[k].call.path] : k \in 1 .. Depth}
    BY DEF IInv, SlotsHeldByStack
  <2>2. pm.slots_in_use = {SlotForPath[InitPath]}
    BY <1>2, <2>1
  <2>3. SlotForPath[path] # SlotForPath[InitPath]
    BY <1>1, <1>2, ExecPaths
  <2>4. QED
    BY <2>2, <2>3
<1>4. FreeRecords(pm) # {}
  <2>1. PICK i \in RecIdx : RunningAs(pm, stack[1].pid) = {i}
    BY DEF IInv, RecordsMatchStack
  <2>2. \A j \in RecIdx \ FreeRecords(pm) : j = i
    <3> SUFFICES ASSUME NEW j \in RecIdx \ FreeRecords(pm) PROVE j = i
      OBVIOUS
    <3>1. stack[1].pid = pm.records[j].pid
      BY DEF IInv, RecordsMatchStack
    <3>2. pm.records[j].state \in {"Empty", "Running"} /\ pm.records[j].state # "Empty"
      BY DEF IInv, TypeOK, ProcessManager, Record, FreeRecords
    <3>3. QED
      BY <2>1, <3>1, <3>2 DEF RunningAs
  <2>3. 0 \in RecIdx /\ 1 \in RecIdx
    BY ExecSizes DEF RecIdx
  <2>4. QED
    BY <2>2, <2>3
<1>5. QED
  BY <1>1, <1>3, <1>4 DEF Executable, CanSpawn

\* What a stage comes to, for each of the three programs.
LEMMA StageEffect ==
    ASSUME SystemInv, sh.at # "prompt", Before.ok, Runs(Stage)
    PROVE  LET path == BinPath[Stage.cmd]
               args == Stage.args
               silent == [Handed EXCEPT !.out = << >>]
           IN  /\ path \in {CatPath, TeePath, EchoPath} /\ After.ok
               /\ path = EchoPath =>
                     Effect = WroteAll(silent, EchoWrites(args.text), Capture)
               /\ path = CatPath /\ args.words = << >> => Effect = Handed
               /\ path = CatPath /\ args.words # << >> =>
                     Effect = WroteAll(silent,
                                       CatWrites(Resolve(sh.cwd, args.name), Before.files),
                                       Capture)
               /\ path = TeePath =>
                     Effect = TeeMeaning(args.words, Handed, Capture)[Len(args.words)]
<1> DEFINE path == BinPath[Stage.cmd]
           args == Stage.args
           silent == [Handed EXCEPT !.out = << >>]
           did == ProgramMeaning(path, args, sh.cwd, Handed, Capture)
<1>1. /\ Stage \in StageType /\ Before \in Progress /\ sh.cwd \in FileName
      /\ After = Ran(Before, Stage, sh.cwd, Capture)
  BY InLine
<1>2. /\ After.ok /\ did \in Outcome
      /\ After.out = did.out /\ After.spilt = did.spilt /\ After.files = did.files
  BY <1>1, RanType DEF Handed, Input
<1>3. path \in {CatPath, TeePath, EchoPath}
  BY DEF Runs
<1>4. Effect = did
  <2> DEFINE d == did
  <2>1. d \in Outcome /\ Effect = [out |-> d.out, spilt |-> d.spilt, files |-> d.files]
    BY <1>2 DEF Effect
  <2> HIDE DEF d
  <2>2. Effect = d
    BY <2>1, OutcomeParts
  <2>3. QED
    BY <2>2 DEF d
<1>5. Handed.files = Before.files
  BY DEF Handed
<1> HIDE DEF path, args
<1>6. /\ path = EchoPath => did = WroteAll(silent, EchoWrites(args.text), Capture)
      /\ path = TeePath => did = TeeMeaning(args.words, Handed, Capture)[Len(args.words)]
      /\ path = CatPath =>
            did = IF args.words = << >> THEN Handed
                  ELSE WroteAll(silent, CatWrites(Resolve(sh.cwd, args.name), Handed.files),
                                Capture)
  BY PipelinePrograms DEF ProgramMeaning
<1> HIDE DEF did, silent
<1>7. QED
  BY <1>2, <1>3, <1>4, <1>5, <1>6 DEF path, args, silent

\* Without input the pipe holds none.
LEMMA NoInput ==
    ASSUME SystemInv, sh.at # "prompt", PipeFits
    PROVE  ~sh.pipe.some => Input = << >>
<1> SUFFICES ASSUME ~sh.pipe.some PROVE Input = << >>
  OBVIOUS
<1>1. sh.idx = 1 /\ Stage.in = {}
  BY DEF PipeFits
<1>2. Before = Given(Stage, sh.cwd, sh.before)
  BY <1>1, InLine
<1>3. Before.out = << >>
  BY <1>1, <1>2 DEF Given
<1>4. QED
  BY <1>3, TruncateNothing, PipelineSizes DEF Input

\* The shell's buffers pass through the kernel's unclipped.
LEMMA StageCall ==
    ASSUME SystemInv, sh.at = "exec", Stage.cmd \in DOMAIN BinPath,
           ExecFromBinIo(BinPath[Stage.cmd], sh.pipe, Capture)
    PROVE  \E call \in Call :
              /\ NestedExec(call)
              /\ call.path = BinPath[Stage.cmd]
              /\ call.stdin = IF Input = << >> THEN NoStdin ELSE [some |-> TRUE, data |-> Input]
              /\ call.out = IF Capture THEN [some |-> TRUE, cap |-> MaxIoBuf] ELSE NoStdout
<1> DEFINE path == BinPath[Stage.cmd]
           out == [some |-> Capture, cap |-> IF Capture THEN MaxIoBuf ELSE 0]
           io_call == ExecCall(path, StdinOf(sh.pipe), StdoutOf(out), sh.pipe.some)
<1>1. path \in Path /\ sh.pipe \in StdinArg /\ PipeFits
  BY PipelinePrograms DEF SystemInv, ShellType, LineInv, AtExec
<1>2. Input \in Seq(Byte) /\ Len(Input) <= MaxIoBuf /\ Len(Input) \in Nat
  BY InLine, LenProperties
<1>3. Capture \in BOOLEAN
  BY DEF Capture
<1>4. out \in StdoutArg
  BY <1>3, PipelineSizes DEF StdoutArg
<1>5. CASE sh.pipe.some \/ Capture
  <2>1. SysExecIo(path, sh.pipe, out)
    BY <1>5, Zenon DEF ExecFromBinIo
  <2>2. NestedExec(io_call) /\ io_call \in Call
    BY <1>1, <1>4, <2>1, IoCallType DEF SysExecIo
  <2>3. io_call.path = path /\ io_call.stdin = StdinOf(sh.pipe) /\ io_call.out = StdoutOf(out)
    BY DEF ExecCall
  <2>4. StdoutOf(out) = IF Capture THEN [some |-> TRUE, cap |-> MaxIoBuf] ELSE NoStdout
    BY <1>3, PipelineSizes DEF StdoutOf, Lesser
  <2>5. StdinOf(sh.pipe) = IF Input = << >> THEN NoStdin ELSE [some |-> TRUE, data |-> Input]
    <3>1. CASE ~sh.pipe.some
      BY <1>1, <3>1, NoInput DEF StdinOf
    <3>2. CASE sh.pipe.some
      <4>1. sh.pipe.data = Input
        BY <1>1, <3>2 DEF PipeFits, NoStdin
      <4>2. Truncate(Input, MaxIoStdin) = Input
        BY <1>2, TruncateProperties, PipelineSizes, ExecSizes
      <4>3. QED
        BY <3>2, <4>1, <4>2 DEF StdinOf
    <3>3. QED
      BY <3>1, <3>2
  <2> HIDE DEF io_call, path, out
  <2>6. QED
    BY <2>2, <2>3, <2>4, <2>5 DEF path
<1>6. CASE ~sh.pipe.some /\ ~Capture
  <2>1. SysExecve(path)
    BY <1>6, Zenon DEF ExecFromBinIo
  <2>2. NestedExec(PlainCall(path)) /\ PlainCall(path) \in Call
    BY <1>1, <2>1, PlainCallType DEF SysExecve
  <2>3. /\ PlainCall(path).path = path /\ PlainCall(path).stdin = NoStdin
        /\ PlainCall(path).out = NoStdout
    BY DEF PlainCall, ExecCall
  <2>4. Input = << >>
    BY <1>1, <1>6, NoInput
  <2>5. QED
    BY <1>6, <2>2, <2>3, <2>4
<1>7. QED
  BY <1>5, <1>6

-----------------------------------------------------------------------------
(* exec of a stage.                                                        *)

\* Whatever the path, what it would start from is a program's state.
LEMMA AnyProgType ==
    ASSUME NEW path, NEW args \in Arguments
    PROVE  NewProg(path, args) \in ProgramState
<1> DEFINE new == NewProg(path, args)
           todo == IF path # EchoPath THEN << >>
                   ELSE IF args.text = << >> THEN <<<<Newline>>>>
                   ELSE <<args.text, <<Newline>>>>
           pc == IF path = EchoPath THEN "end"
                 ELSE IF path = CatPath /\ args.words # << >> THEN "open" ELSE "read"
           files == IF path = TeePath THEN args.words ELSE << >>
<1>1. /\ args.text \in Seq(Byte) /\ <<Newline>> \in Seq(Byte) /\ << >> \in Seq(Byte)
      /\ args.words \in Seq(FileName)
  BY ExecInputs DEF Arguments
<1>2. todo \in Seq(Seq(Byte))
  <2>1. <<<<Newline>>>> \in Seq(Seq(Byte)) /\ <<args.text, <<Newline>>>> \in Seq(Seq(Byte))
    BY <1>1
  <2>2. QED
    BY <2>1
<1>3. /\ pc \in {"open", "read", "reading", "end"} /\ files \in Seq(FileName)
  BY <1>1
<1>4. new = [pc |-> pc, buf |-> << >>, stream |-> << >>, keys |-> 0, files |-> files, todo |-> todo]
  BY Zenon DEF NewProg
<1> HIDE DEF new, todo, pc, files
<1>5. new \in ProgramState
  BY <1>1, <1>2, <1>3, <1>4 DEF ProgramState
<1>6. QED
  BY <1>5 DEF new

\* How each program starts.
LEMMA NewProgProperties ==
    ASSUME NEW path \in {CatPath, TeePath, EchoPath}, NEW args \in Arguments
    PROVE  LET new == NewProg(path, args)
           IN  /\ new.stream = << >>
               /\ path = EchoPath => /\ new.pc = "end" /\ new.files = << >>
                                     /\ new.todo = EchoWrites(args.text)
               /\ path # EchoPath => new.todo = << >>
               /\ path = CatPath => new.files = << >>
               /\ path = TeePath => new.pc = "read" /\ new.files = args.words
               /\ path = CatPath => new.pc = IF args.words # << >> THEN "open" ELSE "read"
<1>1. CatPath # EchoPath /\ TeePath # EchoPath /\ CatPath # TeePath
  BY PipelinePrograms
<1>2. QED
  BY <1>1 DEF NewProg, EchoWrites

\* A program that has just started has written nothing and has all to do.
LEMMA StartedInv ==
    ASSUME SystemInv, IoInv', sh.at = "exec", Stage.cmd \in DOMAIN BinPath,
           sh' = [sh EXCEPT !.at = "wait"], UNCHANGED ram_files,
           prog' = NewProg(BinPath[Stage.cmd], Stage.args),
           NEW call \in Call, ExecStart(call), InUser, Depth = 1,
           call.path = BinPath[Stage.cmd],
           call.stdin = IF Input = << >> THEN NoStdin ELSE [some |-> TRUE, data |-> Input],
           call.out = IF Capture THEN [some |-> TRUE, cap |-> MaxIoBuf] ELSE NoStdout
    PROVE  prog' \in ProgramState /\ LineInv'
<1> DEFINE path == BinPath[Stage.cmd]
           args == Stage.args
           f == NewFrame(call, pm.next_pid)
<1>1. /\ AtExec /\ sh.line \in Lines /\ sh.idx \in 1 .. Len(sh.line.stages) /\ FsInv
      /\ sh \in ShellType /\ Stage \in StageType /\ Before \in Progress
  BY InLine DEF SystemInv, LineInv
<1>2. Depth' = 2 /\ Top' = f
  <2>1. f \in Frame /\ stack \in Seq(Frame)
    BY DEF SystemInv, IoInv, IInv, TypeOK, ProcessManager, NewFrame, Frame, IdleRead
  <2>2. stack' = Append(stack, f)
    BY DEF ExecStart
  <2> HIDE DEF f
  <2>3. QED
    BY <2>1, <2>2, PushProperties DEF Depth, Top
<1>3. /\ Top'.call = call /\ Top'.wrote = << >> /\ Top'.got = << >> /\ Top'.rd.busy = FALSE
  BY <1>2 DEF NewFrame, IdleRead
<1>4. path \in {CatPath, TeePath, EchoPath}
  <2>1. path \in {InitPath, CatPath, TeePath, EchoPath}
    BY PipelinePrograms DEF ExecStart
  <2>2. (Depth = 2 => stack[2].call.path # InitPath)'
    BY DEF IoInv, IInv, StackShape
  <2>3. path # InitPath
    BY <1>2, <1>3, <2>2 DEF Top, Depth
  <2>4. QED
    BY <2>1, <2>3
<1>5. Runs(Stage)
  BY <1>1, <1>4 DEF Runs, AtExec
<1>6. /\ sh'.at = "wait" /\ SamePlace /\ sh'.pipe = sh.pipe /\ sh'.shown = << >>
      /\ sh'.spilt = Before.spilt /\ sh'.line = sh.line /\ sh'.idx = sh.idx
  BY <1>1 DEF ShellType, SamePlace, AtExec, Ready, SoFar
<1>7. /\ Stage' = Stage /\ Before' = Before /\ Input' = Input /\ After' = After
      /\ Capture' = Capture /\ (Runs(Stage))' /\ Handed' = Handed /\ Effect' = Effect
  BY <1>5, <1>6, PlaceKept
<1>8. FileTable' = FileTable /\ FileTable = Before.files /\ Before.ok
  BY <1>1, FilesKept DEF AtExec, Ready, SoFar
<1>9. Launched'
  BY <1>1, <1>3, <1>6, <1>7, <1>8 DEF Launched, AtExec, PipeFits
<1>10. args \in Arguments
  BY <1>1 DEF StageType
<1>11. /\ prog' \in ProgramState /\ prog'.stream = << >>
       /\ path = EchoPath => /\ prog'.pc = "end" /\ prog'.files = << >>
                             /\ prog'.todo = EchoWrites(args.text)
       /\ path # EchoPath => prog'.todo = << >>
       /\ path = CatPath => prog'.files = << >>
       /\ path = TeePath => prog'.pc = "read" /\ prog'.files = args.words
       /\ path = CatPath => prog'.pc = IF args.words # << >> THEN "open" ELSE "read"
  BY <1>4, <1>10, AnyProgType, NewProgProperties
<1> DEFINE silent == [Handed EXCEPT !.out = << >>]
<1>12. silent \in Outcome /\ Said' = WroteAll(silent, prog'.todo, Capture)
  <2>1. Emitted' = << >>
    BY <1>3, <1>6 DEF Emitted
  <2>2. Handed \in Outcome /\ Handed.spilt = Before.spilt /\ Handed.files = Before.files
    BY InLine DEF Handed
  <2>3. silent \in Outcome
        /\ silent = [out |-> << >>, spilt |-> Before.spilt, files |-> Before.files]
    BY <2>2, OutcomeParts
  <2>4. Emits' = silent
    BY <1>6, <1>8, <2>1, <2>3 DEF Emits
  <2>5. QED
    BY <1>7, <2>3, <2>4 DEF Said
<1>13. \A p : (Is(p))' <=> path = p
  BY <1>3 DEF Is
<1> HIDE DEF silent
<1>14. Running'
  <2>1. CASE path = EchoPath
    <3>1. Effect = WroteAll(silent, EchoWrites(args.text), Capture)
      BY <1>1, <1>5, <1>8, <2>1, StageEffect DEF silent
    <3>2. path # TeePath
      BY <2>1, PipelinePrograms
    <3> HIDE DEF path, args
    <3>3. Said' = Effect
      BY <1>11, <1>12, <2>1, <3>1
    <3>4. QED
      BY <1>3, <1>7, <1>11, <1>13, <2>1, <3>2, <3>3 DEF Running
  <2>2. CASE path # EchoPath
    <3>1. Said' = silent
      BY <1>11, <1>12, <2>2, WroteNone
    <3>2. silent.out = << >> /\ silent.spilt = Before.spilt
      BY InLine, OutcomeParts DEF silent, Handed
    <3>3. << >> \o << >> = << >> /\ Truncate(<< >>, MaxIoBuf) = << >>
      BY TruncateNothing, PipelineSizes, ConcatEmptySeq
    <3>4. CASE path = TeePath
      <4>1. Copying'
        BY <1>3, <1>7, <1>8, <1>11, <1>13, <2>2, <3>1, <3>2, <3>3, <3>4 DEF Copying
      <4>2. QED
        BY <1>3, <1>11, <1>13, <3>4, <4>1 DEF Running
    <3>5. CASE path = CatPath
      <4>1. path # TeePath
        BY <3>5, PipelinePrograms
      <4>2. CASE args.words # << >>
        BY <1>3, <1>7, <1>11, <1>13, <3>1, <3>5, <4>2 DEF Running, silent
      <4>3. CASE args.words = << >>
        <5>1. Copying'
          BY <1>3, <1>7, <1>8, <1>11, <1>13, <2>2, <3>1, <3>2, <3>3, <3>5, <4>1, <4>3 DEF Copying
        <5>2. QED
          BY <1>3, <1>7, <1>11, <1>13, <3>5, <4>3, <5>1 DEF Running
      <4>4. QED
        BY <4>2, <4>3
    <3>6. QED
      BY <1>4, <2>2, <3>4, <3>5
  <2>3. QED
    BY <2>1, <2>2
<1>15. QED
  BY <1>1, <1>2, <1>6, <1>9, <1>11, <1>14 DEF LineInv

LEMMA RunStageInv ==
    ASSUME SystemInv, IoInv', RunStage
    PROVE  FsInv' /\ sh' \in ShellType /\ prog' \in ProgramState /\ LineInv'
<1>1. /\ UNCHANGED ram_files /\ InUser /\ Depth = 1 /\ sh.at = "exec" /\ sh \in ShellType
      /\ prog \in ProgramState /\ IInv /\ FsInv
  BY DEF RunStage, Shell, fileVars, SystemInv, IoInv
<1>2. AtExec /\ sh.line \in Lines /\ sh.idx \in 1 .. Len(sh.line.stages)
  BY <1>1 DEF SystemInv, LineInv
<1>3. CASE Stage.cmd \notin DOMAIN BinPath
  <2>1. Abandon /\ UNCHANGED <<kernelVars, prog>>
    BY <1>3 DEF RunStage
  <2>2. ~Runs(Stage)
    BY <1>3 DEF Runs
  <2>3. Depth' = 1
    BY <1>1, <2>1 DEF kernelVars, vars, Depth
  <2>4. QED
    BY <1>1, <1>2, <2>1, <2>2, <2>3, AbandonedLine DEF AtExec, Ready
<1>4. CASE Stage.cmd \in DOMAIN BinPath
  <2> DEFINE path == BinPath[Stage.cmd]
  <2>1. /\ ExecFromBinIo(path, sh.pipe, Capture)
        /\ sh' = [sh EXCEPT !.at = "wait"] /\ prog' = NewProg(path, Stage.args)
    BY <1>4 DEF RunStage
  <2>2. PICK call \in Call :
           /\ NestedExec(call) /\ call.path = path
           /\ call.stdin = IF Input = << >> THEN NoStdin ELSE [some |-> TRUE, data |-> Input]
           /\ call.out = IF Capture THEN [some |-> TRUE, cap |-> MaxIoBuf] ELSE NoStdout
    BY <1>1, <1>4, <2>1, StageCall
  <2>3. FsInv' /\ FileTable' = FileTable
    BY <1>1, FilesKept
  <2>4. sh' \in ShellType
    BY <1>1, <2>1 DEF ShellType, ShellStates
  <2>5. CASE ExecStart(call)
    BY <1>1, <1>4, <2>1, <2>2, <2>3, <2>4, <2>5, StartedInv
  <2>6. CASE ExecRefuse(call)
    <3>1. stack' = stack /\ result'.status = Failed
      BY <2>6 DEF ExecRefuse
    <3>2. path \notin {CatPath, TeePath, EchoPath}
      <4>1. ~(Executable(call) /\ call.path \in Loads)
        BY <2>6 DEF ExecRefuse
      <4>2. QED
        BY <1>1, <2>2, <4>1, ProgramsStart
    <3>3. ~Runs(Stage) /\ Depth' = 1
      BY <1>1, <3>1, <3>2 DEF Runs, Depth
    <3>4. /\ sh'.at = "wait" /\ SamePlace /\ sh'.shown = sh.shown /\ sh'.spilt = sh.spilt
          /\ sh'.line = sh.line /\ sh'.idx = sh.idx
      BY <1>1, <2>1 DEF ShellType, SamePlace
    <3>5. Before' = Before /\ ~(Runs(Stage))'
      BY <3>3, <3>4, PlaceKept
    <3>6. AtReturn'
      BY <1>2, <2>3, <3>1, <3>4, <3>5 DEF AtReturn, AtExec, Ready, SoFar
    <3>7. prog' \in ProgramState
      <4>1. Stage.args \in Arguments
        BY <1>1, InLine DEF StageType
      <4>2. QED
        BY <2>1, <4>1, AnyProgType
    <3>8. QED
      BY <1>2, <2>3, <2>4, <3>3, <3>4, <3>6, <3>7 DEF LineInv
  <2>7. QED
    BY <2>2, <2>5, <2>6 DEF NestedExec
<1>5. QED
  BY <1>3, <1>4


-----------------------------------------------------------------------------
(* The programs' steps.                                                    *)

\* What is known while a program runs.
LEMMA RunFacts ==
    ASSUME SystemInv, Depth = 2
    PROVE  /\ IoInv /\ FsInv /\ sh \in ShellType /\ prog \in ProgramState
           /\ sh.at = "wait" /\ Launched /\ Running /\ stack # << >> /\ Top \in Frame
           /\ Stage.args \in Arguments
           /\ Emitted \in Seq(Byte) /\ Emits \in Outcome /\ Said \in Outcome
           /\ prog.todo = << >> => Said = Emits
<1>1. /\ IoInv /\ FsInv /\ sh \in ShellType /\ prog \in ProgramState /\ LineInv
  BY DEF SystemInv
<1>2. sh.at = "wait" /\ Launched /\ Running
  BY <1>1 DEF LineInv
<1>3. stack # << >>
  <2>1. Len(<< >>) = 0 /\ Len(stack) # 0
    BY DEF Depth
  <2>2. QED
    BY <2>1, Zenon
<1>4. Top \in Frame
  BY <1>1, <1>3, TopFacts
<1>5. Stage.args \in Arguments
  BY <1>2, InLine DEF StageType
<1>6. Emitted \in Seq(Byte)
  BY <1>1, <1>4 DEF Emitted, Frame, ShellType
<1>7. Emits \in Outcome
  <2>1. FileTable \in FileTables
    BY <1>1, TableShape DEF TableIsArray
  <2>2. sh.spilt \in Seq(Byte)
    BY <1>1 DEF ShellType
  <2>3. QED
    BY <1>6, <2>1, <2>2 DEF Emits, Outcome
<1>8. Said \in Outcome
  <2> DEFINE m == Emits
  <2>1. m \in Outcome /\ prog.todo \in Seq(Seq(Byte))
    BY <1>1, <1>7 DEF ProgramState
  <2> HIDE DEF m
  <2>2. WroteAll(m, prog.todo, Capture) \in Outcome
    BY <2>1, WroteAllType
  <2>3. QED
    BY <2>2 DEF Said, m
<1>9. prog.todo = << >> => Said = Emits
  BY <1>7, WroteNone DEF Said
<1>10. QED
  BY <1>1, <1>2, <1>3, <1>4, <1>5, <1>6, <1>7, <1>8, <1>9

\* A program is captured if its stage is, until the kernel's buffer is full.
LEMMA CaptureFacts ==
    ASSUME SystemInv, Depth = 2
    PROVE  /\ Top.call.out.some <=> Capture
           /\ Capturing <=> Capture /\ Len(Emitted) < MaxIoStdout
<1>1. IoInv /\ stack # << >> /\ Launched /\ Emitted \in Seq(Byte)
  BY RunFacts
<1>2. Top.call.out.some <=> Capture
  BY <1>1 DEF Launched, NoStdout
<1>3. io.active /\ io.stdout_capture <=> Capture
  BY <1>1, <1>2, TopFacts
<1>4. ASSUME Capture PROVE Len(io.stdout) < MaxIoStdout <=> Len(Emitted) < MaxIoStdout
  <2>1. io.stdout = Truncate(Emitted, MaxIoStdout)
    BY <1>1, <1>2, <1>4, TopFacts DEF IoFits, Emitted
  <2> DEFINE s == Emitted
  <2>2. s \in Seq(Byte) /\ Len(s) \in Nat /\ MaxIoStdout \in Nat
    BY <1>1, LenProperties, ExecSizes
  <2> HIDE DEF s
  <2>3. Len(Truncate(s, MaxIoStdout)) = Lesser(Len(s), MaxIoStdout)
    BY <2>2, TruncateProperties
  <2>4. Len(Truncate(s, MaxIoStdout)) < MaxIoStdout <=> Len(s) < MaxIoStdout
    BY <2>2, <2>3 DEF Lesser
  <2>5. QED
    BY <2>1, <2>4 DEF s
<1>5. QED
  BY <1>2, <1>3, <1>4 DEF Capturing

\* A step of a program that leaves it running changes nothing of how it was
\* launched.
LEMMA StillRunning ==
    ASSUME SystemInv, Depth = 2, SamePlace, sh'.at = sh.at, sh'.pipe = sh.pipe,
           Capture => sh'.shown = sh.shown, Depth' = 2, Top'.call = Top.call
    PROVE  /\ Running' => LineInv'
           /\ Stage' = Stage /\ Before' = Before /\ Input' = Input
           /\ Handed' = Handed /\ Effect' = Effect /\ Capture' = Capture
           /\ \A p : (Is(p))' <=> Is(p)
<1>1. /\ sh.at = "wait" /\ Launched /\ sh.line \in Lines
      /\ sh.idx \in 1 .. Len(sh.line.stages)
  BY RunFacts DEF SystemInv, LineInv
<1>2. /\ Stage' = Stage /\ Capture' = Capture /\ Before' = Before /\ After' = After
      /\ Input' = Input /\ ((Runs(Stage))' <=> Runs(Stage))
      /\ Handed' = Handed /\ Effect' = Effect
  BY PlaceKept
<1>3. sh'.line = sh.line /\ sh'.idx = sh.idx
  BY DEF SamePlace
<1>4. Launched'
  BY <1>1, <1>2, <1>3 DEF Launched, PipeFits
<1>5. Running' => LineInv'
  BY <1>1, <1>3, <1>4 DEF LineInv
<1>6. QED
  BY <1>2, <1>5 DEF Is

\* A string goes from what a program is about to write to what it has written.
LEMMA EmitNextInv ==
    ASSUME SystemInv, EmitNext
    PROVE  FsInv' /\ sh' \in ShellType /\ prog' \in ProgramState /\ LineInv'
<1> DEFINE d == Head(prog.todo)
           rest == Tail(prog.todo)
<1>1. /\ Depth = 2 /\ ~Top.rd.busy /\ prog.todo # << >> /\ Write(d) /\ UNCHANGED ram_files
      /\ prog' = [prog EXCEPT !.todo = rest]
      /\ sh' = IF Capturing THEN sh
               ELSE IF Top.call.out.some THEN [sh EXCEPT !.spilt = @ \o d]
               ELSE [sh EXCEPT !.shown = @ \o d]
  BY DEF EmitNext, InUser, fileVars
<1>2. /\ IoInv /\ FsInv /\ sh \in ShellType /\ prog \in ProgramState /\ Launched /\ Running
      /\ stack # << >> /\ Top \in Frame /\ Emitted \in Seq(Byte) /\ Emits \in Outcome
  BY <1>1, RunFacts
<1>3. /\ d \in Seq(Byte) /\ rest \in Seq(Seq(Byte))
      /\ Said = WroteAll(Wrote(Emits, d, Capture), rest, Capture)
  <2> DEFINE m == Emits
  <2>1. m \in Outcome /\ prog.todo \in Seq(Seq(Byte))
    BY <1>2 DEF ProgramState
  <2> HIDE DEF m
  <2>2. /\ d \in Seq(Byte) /\ rest \in Seq(Seq(Byte))
        /\ WroteAll(m, prog.todo, Capture) = WroteAll(Wrote(m, d, Capture), rest, Capture)
    BY <1>1, <2>1, WroteFirst
  <2>3. QED
    BY <2>2 DEF Said, m
<1> HIDE DEF d, rest
<1>4. /\ Depth' = 2 /\ Top'.call = Top.call /\ Top'.rd = Top.rd /\ Top'.got = Top.got
      /\ Top.call.out.some => Top'.wrote = Top.wrote \o d
  <2> DEFINE history == IF Top.call.out.some THEN d ELSE << >>
             f == [Top EXCEPT !.wrote = @ \o history]
             g == [Top EXCEPT !.wrote = @ \o history, !.shown = @ \o history]
  <2>1. UpdateTop(f) \/ UpdateTop(g)
    BY <1>1 DEF Write
  <2>2. /\ f.call = Top.call /\ f.rd = Top.rd /\ f.got = Top.got
        /\ f.wrote = Top.wrote \o history
        /\ g.call = Top.call /\ g.rd = Top.rd /\ g.got = Top.got
        /\ g.wrote = Top.wrote \o history
    BY <1>2 DEF Frame
  <2> HIDE DEF f, g
  <2>3. Depth' = 2 /\ (Top' = f \/ Top' = g)
    BY <1>1, <1>2, <2>1, FrameKept
  <2>4. QED
    BY <2>2, <2>3
<1>5. /\ Top.call.out.some <=> Capture
      /\ Capturing <=> Capture /\ Len(Emitted) < MaxIoStdout
  BY <1>1, CaptureFacts
<1>6. /\ SamePlace /\ sh'.at = sh.at /\ sh'.pipe = sh.pipe /\ sh' \in ShellType
      /\ sh'.shown = IF Capture THEN sh.shown ELSE sh.shown \o d
      /\ sh'.spilt = IF Capture /\ ~Capturing THEN sh.spilt \o d ELSE sh.spilt
  <2>1. sh.shown \o d \in Seq(Byte) /\ sh.spilt \o d \in Seq(Byte)
    BY <1>2, <1>3, ConcatProperties DEF ShellType
  <2>2. CASE Capturing
    BY <1>1, <1>2, <1>5, <2>2 DEF SamePlace
  <2>3. CASE ~Capturing /\ Capture
    <3>1. sh' = [sh EXCEPT !.spilt = @ \o d]
      BY <1>1, <1>5, <2>3
    <3>2. QED
      BY <1>2, <2>1, <2>3, <3>1 DEF ShellType, SamePlace
  <2>4. CASE ~Capturing /\ ~Capture
    <3>1. sh' = [sh EXCEPT !.shown = @ \o d]
      BY <1>1, <1>5, <2>4
    <3>2. QED
      BY <1>2, <2>1, <2>4, <3>1 DEF ShellType, SamePlace
  <2>5. QED
    BY <2>2, <2>3, <2>4
<1>7. Emits' = Wrote(Emits, d, Capture)
  <2>1. Emitted' = Emitted \o d
    BY <1>4, <1>5, <1>6 DEF Emitted
  <2>2. FileTable' = FileTable
    BY <1>1, <1>2, FilesKept
  <2>3. Len(Emitted) \in Nat /\ MaxIoStdout \in Nat
    BY <1>2, LenProperties, ExecSizes
  <2>4. sh'.spilt = IF Capture /\ Len(Emitted) >= MaxIoStdout THEN sh.spilt \o d ELSE sh.spilt
    <3> DEFINE n == Len(Emitted)
    <3>1. n < MaxIoStdout <=> ~(n >= MaxIoStdout)
      BY <2>3
    <3> HIDE DEF n
    <3>2. Capturing <=> Capture /\ n < MaxIoStdout
      BY <1>5 DEF n
    <3>3. QED
      BY <1>6, <3>1, <3>2 DEF n
  <2>5. QED
    BY <2>1, <2>2, <2>4 DEF Emits, Wrote
<1>8. /\ prog' \in ProgramState /\ prog'.todo = rest /\ prog'.pc = prog.pc
      /\ prog'.files = prog.files /\ prog'.stream = prog.stream
  BY <1>1, <1>2, <1>3 DEF ProgramState
<1>9. FsInv' /\ FileTable' = FileTable
  BY <1>1, <1>2, FilesKept
<1>10. /\ Running' => LineInv'
       /\ Stage' = Stage /\ Before' = Before /\ Input' = Input
       /\ Handed' = Handed /\ Effect' = Effect /\ Capture' = Capture
       /\ \A p : (Is(p))' <=> Is(p)
  BY <1>1, <1>4, <1>6, StillRunning
<1>11. Said' = Said
  BY <1>3, <1>7, <1>8, <1>10 DEF Said
<1>12. prog.pc # "reading"
  BY <1>1, <1>2 DEF Running, Copying
<1>13. Copying => Copying'
  BY <1>4, <1>8, <1>9, <1>10, <1>11, <1>12 DEF Copying
<1>14. \A k : TeeStoring(k) => (TeeStoring(k))'
  BY <1>8, <1>10, <1>11 DEF TeeStoring
<1>15. Running'
  <2>1. ~Top'.rd.busy
    BY <1>1, <1>4
  <2>2. (prog'.pc = "end" =>
           IF Is(TeePath) THEN \E k \in 0 .. Len(Stage.args.words) : (TeeStoring(k))'
           ELSE prog'.files = << >> /\ Said' = Effect)
    BY <1>2, <1>8, <1>11, <1>14 DEF Running
  <2>3. QED
    BY <1>2, <1>8, <1>10, <1>11, <1>13, <2>1, <2>2 DEF Running
<1>16. QED
  BY <1>6, <1>8, <1>9, <1>10, <1>15

\* cat with an argument has all it will write once it has read the file.
LEMMA CatOpenInv ==
    ASSUME SystemInv, CatOpen
    PROVE  FsInv' /\ sh' \in ShellType /\ prog' \in ProgramState /\ LineInv'
<1> DEFINE p == Resolve(sh.cwd, Stage.args.name)
           data == reply'.data
           todo == IF ~reply'.ok THEN Message
                   ELSE IF data = << >> THEN << >>
                   ELSE IF data[Len(data)] = Newline THEN <<data>>
                   ELSE <<data, <<Newline>>>>
           silent == [Handed EXCEPT !.out = << >>]
<1>1. /\ Depth = 2 /\ prog.todo = << >> /\ prog.pc = "open" /\ UNCHANGED <<kernelVars, sh>>
      /\ Fs!SysReadFile(p, MaxIoBuf)
      /\ prog' = [prog EXCEPT !.pc = "end", !.todo = todo]
  BY DEF CatOpen, Program
<1>2. /\ IoInv /\ FsInv /\ sh \in ShellType /\ prog \in ProgramState /\ Launched /\ Running
      /\ sh.at = "wait" /\ stack # << >> /\ Top \in Frame /\ Said = Emits
  BY <1>1, RunFacts
<1>3. /\ Is(CatPath) /\ Stage.args.words # << >> /\ prog.files = << >>
      /\ Emits = silent /\ ~Top.rd.busy
  BY <1>1, <1>2 DEF Running
<1>4. FileTable = Before.files
  <2>1. silent = [out |-> << >>, spilt |-> Handed.spilt, files |-> Handed.files]
    BY <1>2, InLine, OutcomeParts
  <2>2. silent.files = Before.files
    BY <2>1 DEF Handed
  <2> HIDE DEF silent
  <2>3. QED
    BY <1>3, <2>2 DEF Emits
<1> HIDE DEF silent
<1>5. /\ FsInv' /\ FileTable' = FileTable /\ (reply'.ok <=> Readable(FileTable, p))
      /\ (Readable(FileTable, p) => data = ContentOf(FileTable, p))
  BY <1>1, <1>2, ReadReturns
<1>6. FileTable \in FileTables
  BY <1>2, TableShape DEF TableIsArray
<1>7. todo = CatWrites(p, Before.files) /\ todo \in Seq(Seq(Byte))
  <2> HIDE DEF p, data
  <2>1. todo = CatWrites(p, FileTable)
    BY <1>5 DEF CatWrites, Lined
  <2> HIDE DEF todo
  <2>2. QED
    BY <1>4, <1>6, <2>1, WritesType
<1> HIDE DEF todo
<1>8. Effect = WroteAll(silent, todo, Capture)
  <2>1. Before.ok /\ Runs(Stage) /\ BinPath[Stage.cmd] = CatPath
    BY <1>2, <1>3 DEF Launched, Is
  <2>2. QED
    BY <1>2, <1>3, <1>7, <2>1, StageEffect DEF silent
<1> HIDE DEF p, data
<1>9. /\ prog' \in ProgramState /\ prog'.todo = todo /\ prog'.pc = "end"
      /\ prog'.files = << >>
  BY <1>1, <1>2, <1>3, <1>7 DEF ProgramState
<1>10. Depth' = Depth /\ Top' = Top /\ sh' = sh
  BY <1>1 DEF kernelVars, vars, Depth, Top
<1>11. /\ Running' => LineInv'
       /\ Effect' = Effect /\ Capture' = Capture /\ \A q : (Is(q))' <=> Is(q)
  BY <1>1, <1>10, StillRunning DEF SamePlace
<1>12. Said' = Effect
  <2>1. Emits' = silent
    BY <1>3, <1>5, <1>10 DEF Emits, Emitted
  <2>2. QED
    BY <1>8, <1>9, <1>11, <2>1 DEF Said
<1>13. ~Is(TeePath)
  BY <1>3, PipelinePrograms DEF Is
<1>14. Running'
  BY <1>3, <1>9, <1>10, <1>11, <1>12, <1>13 DEF Running
<1>15. QED
  BY <1>2, <1>5, <1>9, <1>10, <1>11, <1>14

\* One element more behind two sequences.
LEMMA AppendAfter ==
    ASSUME NEW S, NEW s \in Seq(S), NEW t \in Seq(S), NEW e \in S
    PROVE  s \o Append(t, e) = Append(s \o t, e)
<1>1. <<e>> \in Seq(S)
  OBVIOUS
<1>2. s \o t \in Seq(S)
  BY ConcatProperties
<1>3. Append(t, e) = t \o <<e>>
  BY AppendIsConcat
<1>4. Append(s \o t, e) = (s \o t) \o <<e>>
  BY <1>2, AppendIsConcat
<1>5. (s \o t) \o <<e>> = s \o (t \o <<e>>)
  BY <1>1, ConcatAssociative
<1>6. QED
  BY <1>3, <1>4, <1>5

\* A read begins with nothing read.
LEMMA CallReadInv ==
    ASSUME SystemInv, CallRead
    PROVE  FsInv' /\ sh' \in ShellType /\ prog' \in ProgramState /\ LineInv'
<1> DEFINE f == [Top EXCEPT !.rd = [busy |-> TRUE, len |-> ReadChunk, count |-> 0]]
<1>1. /\ Depth = 2 /\ prog.todo = << >> /\ prog.pc = "read" /\ UNCHANGED <<ram_files, sh>>
      /\ UpdateTop(f) /\ prog' = [prog EXCEPT !.pc = "reading", !.buf = << >>]
  BY DEF CallRead, Program, ReadBegin, fileVars
<1>2. /\ IoInv /\ FsInv /\ sh \in ShellType /\ prog \in ProgramState /\ Launched /\ Running
      /\ stack # << >> /\ Top \in Frame /\ Said = Emits
  BY <1>1, RunFacts
<1>3. Depth' = 2 /\ Top' = f
  <2> HIDE DEF f
  <2>1. QED
    BY <1>1, <1>2, FrameKept
<1>4. /\ Top'.call = Top.call /\ Top'.got = Top.got /\ Top'.wrote = Top.wrote
      /\ Top'.rd = [busy |-> TRUE, len |-> ReadChunk, count |-> 0]
  BY <1>2, <1>3 DEF Frame
<1> HIDE DEF f
<1>5. /\ prog' \in ProgramState /\ prog'.todo = << >> /\ prog'.pc = "reading"
      /\ prog'.files = prog.files /\ prog'.stream = prog.stream /\ prog'.buf = << >>
  <2>1. << >> \in Seq(Byte)
    OBVIOUS
  <2>2. QED
    BY <1>1, <1>2, <2>1 DEF ProgramState
<1>6. FsInv' /\ FileTable' = FileTable /\ sh' = sh
  BY <1>1, <1>2, FilesKept
<1>7. /\ Running' => LineInv'
      /\ Stage' = Stage /\ Before' = Before /\ Capture' = Capture
      /\ \A p : (Is(p))' <=> Is(p)
  BY <1>1, <1>3, <1>4, <1>6, StillRunning DEF SamePlace
<1>8. Said' = Said
  BY <1>1, <1>4, <1>5, <1>6, <1>7 DEF Said, Emits, Emitted
<1>9. Copying /\ (Is(TeePath) \/ (Is(CatPath) /\ Stage.args.words = << >>))
  BY <1>1, <1>2 DEF Running
<1>10. Copying'
  BY <1>1, <1>4, <1>5, <1>6, <1>8, <1>7, <1>9 DEF Copying
<1>11. Running'
  BY <1>5, <1>7, <1>9, <1>10 DEF Running
<1>12. QED
  BY <1>2, <1>5, <1>6, <1>7, <1>11

\* While a byte is on its way a program does nothing but read.
LEMMA ReadingFacts ==
    ASSUME SystemInv, Depth = 2, Reading
    PROVE  /\ prog.pc = "reading" /\ Copying /\ prog.todo = << >> /\ Said = Emits
           /\ Is(TeePath) \/ (Is(CatPath) /\ Stage.args.words = << >>)
           /\ Top.rd \in [busy : BOOLEAN, len : Nat, count : Nat]
           /\ Top.rd.count = Len(prog.buf) /\ Top.rd.len = ReadChunk
           /\ prog.buf \in Seq(Byte) /\ Said \in Outcome
<1>1. Running /\ Top \in Frame /\ prog \in ProgramState /\ Said \in Outcome
  BY RunFacts
<1>2. prog.pc = "reading"
  BY <1>1 DEF Running, Reading
<1>3. Copying /\ (Is(TeePath) \/ (Is(CatPath) /\ Stage.args.words = << >>))
  BY <1>1, <1>2 DEF Running
<1>4. prog.todo = << >> /\ Top.rd.count = Len(prog.buf) /\ Top.rd.len = ReadChunk
  BY <1>2, <1>3 DEF Copying
<1>5. QED
  BY <1>1, <1>2, <1>3, <1>4, RunFacts DEF Frame, ProgramState

\* A turn of the read loop that keeps count of what it has put in the buffer.
LEMMA ReadTurn ==
    ASSUME SystemInv, Depth = 2, Reading, UNCHANGED <<ram_files, sh>>, NEW f, UpdateTop(f),
           f.call = Top.call, f.wrote = Top.wrote, f.rd.len = Top.rd.len,
           prog' \in ProgramState, UNCHANGED <<prog.pc, prog.todo, prog.files, prog.stream>>,
           f.rd.count = Len(prog'.buf),
           Top.call.stdin.some \/ f.rd.count # 0,
           Top.call.stdin.some => Said.out \o prog'.buf = f.got
    PROVE  FsInv' /\ sh' \in ShellType /\ LineInv'
<1>1. /\ prog.pc = "reading" /\ Copying /\ prog.todo = << >> /\ Top.rd.len = ReadChunk
      /\ Is(TeePath) \/ (Is(CatPath) /\ Stage.args.words = << >>)
  BY ReadingFacts
<1>2. IoInv /\ FsInv /\ sh \in ShellType /\ stack # << >>
  BY RunFacts
<1>3. Depth' = 2 /\ Top' = f
  BY <1>2, FrameKept
<1>4. FsInv' /\ FileTable' = FileTable /\ sh' = sh
  BY <1>2, FilesKept
<1>5. /\ Running' => LineInv'
      /\ Stage' = Stage /\ Before' = Before /\ Capture' = Capture
      /\ \A p : (Is(p))' <=> Is(p)
  BY <1>3, <1>4, StillRunning DEF SamePlace
<1>6. Said' = Said
  BY <1>3, <1>4, <1>5 DEF Said, Emits, Emitted
<1>7. Copying'
  BY <1>1, <1>3, <1>4, <1>6, <1>5 DEF Copying
<1>8. Running'
  BY <1>1, <1>5, <1>7 DEF Running
<1>9. QED
  BY <1>2, <1>4, <1>5, <1>8

\* A redirected byte, or their end; init, whose input is the keyboard, sees
\* neither.
LEMMA ServeReadInv ==
    ASSUME SystemInv, ServeRead
    PROVE  FsInv' /\ sh' \in ShellType /\ prog' \in ProgramState /\ LineInv'
<1>1. /\ Reading /\ ~StdinUnavailable /\ UNCHANGED <<ram_files, sh>>
      /\ IoInv /\ prog \in ProgramState
  BY DEF ServeRead, ReadByte, ReadEof, StdinReady, StdinEof, fileVars, SystemInv
<1>2. /\ Top \in Frame /\ Top.call.stdin.some /\ io \in IoState
  BY <1>1, TopFacts DEF Reading
<1>3. Depth = 2
  <2>1. Depth \in Nat /\ Depth <= 2 /\ stack # << >> /\ stack \in Seq(Frame)
    BY <1>1 DEF Reading, IoInv, IInv, TypeOK, StackShape, Depth
  <2>2. Depth # 0
    BY <2>1, EmptySeq DEF Depth
  <2>3. Depth # 1
    BY <1>1, <1>2, BootFrame DEF IoInv, Top
  <2>4. QED
    BY <2>1, <2>2, <2>3
<1>4. /\ Top.rd \in [busy : BOOLEAN, len : Nat, count : Nat] /\ Top.rd.count = Len(prog.buf)
      /\ prog.buf \in Seq(Byte) /\ Said.out \in Seq(Byte) /\ Said.out \o prog.buf = Top.got
  BY <1>1, <1>2, <1>3, ReadingFacts DEF Copying, Outcome
<1>5. CASE ReadByte /\ prog' = [prog EXCEPT !.buf = Append(@, io.stdin[io.stdin_pos + 1])]
  <2> DEFINE b == io.stdin[io.stdin_pos + 1]
             f == [Top EXCEPT !.got = Append(@, b), !.rd = Counted(@, FALSE)]
  <2>1. b \in Byte
    <3>1. /\ io.stdin \in Seq(Byte) /\ io.stdin_pos \in Nat
          /\ io.stdin_pos < Len(io.stdin) /\ Len(io.stdin) \in Nat
      BY <1>2, <1>5 DEF IoState, ReadByte, StdinReady
    <3>2. io.stdin_pos + 1 \in 1 .. Len(io.stdin)
      BY <3>1
    <3>3. QED
      BY <3>1, <3>2, ElementOfSeq
  <2>2. UpdateTop(f) /\ prog' = [prog EXCEPT !.buf = Append(@, b)]
    BY <1>5 DEF ReadByte
  <2> HIDE DEF b
  <2>3. /\ f.call = Top.call /\ f.wrote = Top.wrote /\ f.got = Append(Top.got, b)
        /\ f.rd.len = Top.rd.len /\ f.rd.count = Top.rd.count + 1
    BY <1>2, <1>4 DEF Frame, Counted
  <2>4. /\ Append(prog.buf, b) \in Seq(Byte) /\ Len(Append(prog.buf, b)) = Len(prog.buf) + 1
    BY <1>4, <2>1, AppendProperties
  <2>5. /\ prog' \in ProgramState /\ UNCHANGED <<prog.pc, prog.todo, prog.files, prog.stream>>
        /\ prog'.buf = Append(prog.buf, b)
    BY <1>1, <2>2, <2>4 DEF ProgramState
  <2>6. Said.out \o Append(prog.buf, b) = Append(Top.got, b)
    <3> DEFINE s == Said.out
    <3>1. s \in Seq(Byte)
      BY <1>4
    <3> DEFINE t == prog.buf
    <3>2. t \in Seq(Byte) /\ b \in Byte
      BY <1>4, <2>1
    <3> HIDE DEF s, t
    <3>3. s \o Append(t, b) = Append(s \o t, b)
      BY <3>1, <3>2, AppendAfter, SMTT(30)
    <3>4. QED
      BY <1>4, <3>3 DEF s, t
  <2> HIDE DEF f
  <2>7. QED
    BY <1>1, <1>2, <1>3, <1>4, <2>2, <2>3, <2>4, <2>5, <2>6, ReadTurn
<1>6. CASE ReadEof /\ UNCHANGED prog
  <2> DEFINE f == [Top EXCEPT !.rd.busy = FALSE]
  <2>1. UpdateTop(f)
    BY <1>6 DEF ReadEof
  <2>2. /\ f.call = Top.call /\ f.wrote = Top.wrote /\ f.got = Top.got
        /\ f.rd.len = Top.rd.len /\ f.rd.count = Top.rd.count
    BY <1>2, <1>4 DEF Frame
  <2> HIDE DEF f
  <2>3. QED
    BY <1>1, <1>2, <1>3, <1>4, <1>6, <2>1, <2>2, ReadTurn
<1>7. QED
  BY <1>5, <1>6 DEF ServeRead

\* A typed byte reaches only a program that was given no input.
LEMMA PressKeyInv ==
    ASSUME SystemInv, NEW b \in Byte, PressKey(b)
    PROVE  FsInv' /\ sh' \in ShellType /\ prog' \in ProgramState /\ LineInv'
<1> DEFINE f == [Top EXCEPT !.tty = TRUE, !.rd = Counted(@, b = Newline)]
<1>1. /\ Depth = 2 /\ Reading /\ StdinUnavailable /\ UNCHANGED <<ram_files, sh>>
      /\ UpdateTop(f) /\ prog' = [prog EXCEPT !.buf = Append(@, b), !.keys = @ + 1]
      /\ IoInv /\ prog \in ProgramState
  BY DEF PressKey, ReadTyped, fileVars, SystemInv
<1>2. Top \in Frame /\ ~Top.call.stdin.some
  BY <1>1, TopFacts DEF Reading
<1>3. /\ Top.rd \in [busy : BOOLEAN, len : Nat, count : Nat] /\ Top.rd.count = Len(prog.buf)
      /\ prog.buf \in Seq(Byte)
  BY <1>1, ReadingFacts
<1>4. /\ f.call = Top.call /\ f.wrote = Top.wrote
      /\ f.rd.len = Top.rd.len /\ f.rd.count = Top.rd.count + 1
  BY <1>2, <1>3 DEF Frame, Counted
<1>5. Append(prog.buf, b) \in Seq(Byte) /\ Len(Append(prog.buf, b)) = Len(prog.buf) + 1
  BY <1>3, AppendProperties
<1> HIDE DEF f
<1>6. /\ prog' \in ProgramState /\ UNCHANGED <<prog.pc, prog.todo, prog.files, prog.stream>>
      /\ prog'.buf = Append(prog.buf, b)
  <2>1. prog.keys + 1 \in Nat
    BY <1>1 DEF ProgramState
  <2>2. QED
    BY <1>1, <1>5, <2>1 DEF ProgramState
<1>7. Top.rd.count + 1 # 0
  BY <1>3
<1>8. QED
  BY <1>1, <1>2, <1>3, <1>4, <1>5, <1>6, <1>7, ReadTurn

\* The input a program has come to the end of.
LEMMA InputRead ==
    ASSUME SystemInv, Depth = 2, Top.call.stdin.some, ~Top.rd.busy,
           Top.rd.count < Top.rd.len
    PROVE  Top.got = Input
<1>1. IoInv /\ Launched /\ stack # << >>
  BY RunFacts
<1>2. /\ IoFits(Top, io) /\ io \in IoState /\ io.stdin = Top.call.stdin.data
  BY <1>1, TopFacts
<1>3. Top.call.stdin.data = Input
  BY <1>1 DEF Launched, NoStdin
<1>4. io.stdin_pos = Len(io.stdin) /\ Top.got = Truncate(io.stdin, io.stdin_pos)
  BY <1>2 DEF IoFits
<1>5. Truncate(io.stdin, Len(io.stdin)) = io.stdin
  <2> DEFINE s == io.stdin
  <2>1. s \in Seq(Byte) /\ Len(s) \in Nat
    BY <1>2, LenProperties DEF IoState
  <2> HIDE DEF s
  <2>2. Truncate(s, Len(s)) = s
    BY <2>1, TruncateProperties
  <2>3. QED
    BY <2>2 DEF s
<1>6. QED
  BY <1>2, <1>3, <1>4, <1>5

\* What a program has read is no longer than the kernel's capture buffer.
LEMMA GotBounded ==
    ASSUME SystemInv, Depth = 2, Top.call.stdin.some
    PROVE  Len(Top.got) <= MaxIoStdout
<1>1. IoInv /\ Launched /\ stack # << >> /\ sh.at # "prompt"
  BY RunFacts
<1>2. /\ io \in IoState /\ io.stdin = Top.call.stdin.data
      /\ Top.got = Truncate(io.stdin, io.stdin_pos)
  BY <1>1, TopFacts DEF IoFits
<1>3. io.stdin = Input
  BY <1>1, <1>2 DEF Launched, NoStdin
<1> DEFINE s == Input  n == io.stdin_pos
<1>4. s \in Seq(Byte) /\ Len(s) <= MaxIoBuf /\ Len(s) \in Nat /\ n \in Nat
  BY <1>1, <1>2, InLine, LenProperties DEF IoState
<1> HIDE DEF s, n
<1>5. Len(Truncate(s, n)) = Lesser(Len(s), n)
  BY <1>4, TruncateProperties
<1>6. Len(Truncate(s, n)) <= MaxIoStdout
  BY <1>4, <1>5, PipelineSizes, ExecSizes DEF Lesser
<1>7. QED
  BY <1>2, <1>3, <1>6 DEF s, n

\* What tee keeps of a chunk, however full its buffer is.
LEMMA KeptType ==
    ASSUME NEW stream \in Seq(Byte), NEW chunk \in Seq(Byte)
    PROVE  Kept(stream, chunk) \in Seq(Byte)
<1> DEFINE room == MaxIoBuf - Len(stream)
<1>1. room \in Int
  BY PipelineSizes, LenProperties
<1> HIDE DEF room
<1>2. Truncate(chunk, room) \in Seq(Byte)
  <2>1. CASE room >= 0
    BY <1>1, <2>1, TruncateProperties
  <2>2. CASE room < 0
    <3>1. Lesser(Len(chunk), room) = room
      BY <1>1, <2>2, LenProperties DEF Lesser
    <3>2. Truncate(chunk, room) = << >>
      BY <1>1, <2>2, <3>1, SubSeqEmpty DEF Truncate
    <3>3. QED
      BY <3>2
  <2>3. QED
    BY <1>1, <2>1, <2>2
<1>3. QED
  BY <1>2, ConcatProperties DEF Kept, room

\* A read that has returned nothing ends the copying; what has been passed on is
\* then the whole input.
LEMMA ReadNothing ==
    ASSUME SystemInv, Depth = 2, ~Top.rd.busy, prog.pc = "reading", prog.todo = << >>,
           Top.rd.count = 0, prog' = [prog EXCEPT !.pc = "end"],
           UNCHANGED <<kernelVars, ram_files, sh>>
    PROVE  FsInv' /\ sh' \in ShellType /\ prog' \in ProgramState /\ LineInv'
<1>1. /\ IoInv /\ FsInv /\ sh \in ShellType /\ prog \in ProgramState /\ Launched /\ Running
      /\ sh.at = "wait" /\ Top \in Frame /\ Said \in Outcome /\ Said = Emits
      /\ Stage.args \in Arguments
  BY RunFacts
<1>2. Copying /\ (Is(TeePath) \/ (Is(CatPath) /\ Stage.args.words = << >>))
  BY <1>1 DEF Running
<1>3. /\ Top.call.stdin.some /\ Said.out \o prog.buf = Top.got /\ Len(prog.buf) = 0
      /\ Top.rd.len = ReadChunk /\ FileTable = Before.files /\ Said.spilt = Before.spilt
      /\ prog.files = IF Is(TeePath) THEN Stage.args.words ELSE << >>
      /\ Is(TeePath) => prog.stream = Truncate(Said.out, MaxIoBuf)
  BY <1>2 DEF Copying
<1>4. Said = Handed
  <2>1. Top.got = Input
    BY <1>3, InputRead, PipelineSizes
  <2>2. prog.buf = << >>
    BY <1>1, <1>3, EmptySeq DEF ProgramState
  <2>3. Said.out \o << >> = Said.out
    BY <1>1, ConcatEmptySeq DEF Outcome
  <2>4. Said.out = Input
    BY <1>3, <2>1, <2>2, <2>3
  <2>5. Emitted = Input /\ sh.spilt = Before.spilt
    BY <1>1, <1>3, <2>4 DEF Emits
  <2>6. QED
    BY <1>1, <1>3, <2>5 DEF Emits, Handed
<1>5. /\ Input \in Seq(Byte) /\ Truncate(Input, MaxIoBuf) = Input /\ Handed \in Outcome
      /\ Handed.out = Input
  <2>1. Input \in Seq(Byte) /\ Len(Input) <= MaxIoBuf /\ Handed \in Outcome
    BY <1>1, InLine
  <2>2. QED
    BY <2>1, TruncateProperties, PipelineSizes DEF Handed
<1>6. Depth' = 2 /\ Top' = Top /\ sh' = sh
  BY DEF kernelVars, vars, Depth, Top
<1>7. FsInv' /\ FileTable' = FileTable
  BY <1>1, FilesKept
<1>8. /\ prog' \in ProgramState /\ prog'.todo = << >> /\ prog'.pc = "end"
      /\ prog'.files = prog.files /\ prog'.stream = prog.stream
  BY <1>1 DEF ProgramState
<1>9. /\ Running' => LineInv'
      /\ Stage' = Stage /\ Input' = Input
      /\ Handed' = Handed /\ Effect' = Effect /\ Capture' = Capture
      /\ \A p : (Is(p))' <=> Is(p)
  BY <1>6, StillRunning DEF SamePlace
<1>10. Said' = Said
  BY <1>6, <1>7, <1>8, <1>9 DEF Said, Emits, Emitted
<1>11. ASSUME Is(TeePath) PROVE (TeeStoring(0))'
  <2> DEFINE words == Stage.args.words
  <2>1. words \in Seq(FileName) /\ Len(words) \in Nat
    BY <1>1 DEF Arguments
  <2> HIDE DEF words
  <2>2. TeeMeaning(words, Handed, Capture)[0] = Handed
    <3> DEFINE m == Handed
    <3>1. m \in Outcome
      BY <1>5
    <3> HIDE DEF m
    <3>2. TeeMeaning(words, m, Capture)[0] = m
      BY <2>1, <3>1, TeeSteps
    <3>3. QED
      BY <3>2 DEF m
  <2>3. /\ prog'.files = words /\ Len(words) = Len(words) - 0
        /\ \A j \in 1 .. Len(words) : words[j] = words[0 + j]
    BY <1>3, <1>8, <1>11, <2>1 DEF words
  <2>4. prog'.stream = Input
    BY <1>3, <1>4, <1>5, <1>8, <1>11
  <2>5. QED
    BY <1>4, <1>9, <1>10, <2>2, <2>3, <2>4 DEF TeeStoring, words
<1>12. ASSUME ~Is(TeePath)
       PROVE  prog'.files = << >> /\ Said' = Effect
  <2>1. Is(CatPath) /\ Stage.args.words = << >>
    BY <1>2, <1>12
  <2>2. Before.ok /\ Runs(Stage) /\ BinPath[Stage.cmd] = CatPath
    BY <1>1, <2>1 DEF Launched, Is
  <2>3. Effect = Handed
    BY <1>1, <2>1, <2>2, StageEffect
  <2>4. QED
    BY <1>3, <1>4, <1>8, <1>10, <1>12, <2>3
<1>13. 0 \in 0 .. Len(Stage.args.words)
  BY <1>1, LenProperties DEF Arguments
<1>14. Running'
  BY <1>1, <1>6, <1>8, <1>9, <1>11, <1>12, <1>13 DEF Running
<1>15. QED
  BY <1>1, <1>6, <1>7, <1>8, <1>9, <1>14

\* What a read has returned is passed on, and kept by tee, before the next.
LEMMA ReadSome ==
    ASSUME SystemInv, Depth = 2, ~Top.rd.busy, prog.pc = "reading", prog.todo = << >>,
           Top.rd.count # 0,
           prog' = [prog EXCEPT !.pc = "read", !.todo = <<prog.buf>>,
                                !.stream = IF Is(TeePath) THEN Kept(@, prog.buf) ELSE @],
           UNCHANGED <<kernelVars, ram_files, sh>>
    PROVE  FsInv' /\ sh' \in ShellType /\ prog' \in ProgramState /\ LineInv'
<1>1. /\ IoInv /\ FsInv /\ sh \in ShellType /\ prog \in ProgramState /\ Running
      /\ Said \in Outcome /\ Said = Emits
  BY RunFacts
<1>2. Copying /\ (Is(TeePath) \/ (Is(CatPath) /\ Stage.args.words = << >>))
  BY <1>1 DEF Running
<1>3. Depth' = 2 /\ Top' = Top /\ sh' = sh
  BY DEF kernelVars, vars, Depth, Top
<1>4. FsInv' /\ FileTable' = FileTable
  BY <1>1, FilesKept
<1>5. /\ prog.buf \in Seq(Byte) /\ <<prog.buf>> \in Seq(Seq(Byte))
      /\ Len(prog.buf) \in Nat \ {0}
  <2>1. prog.buf \in Seq(Byte)
    BY <1>1 DEF ProgramState
  <2>2. Len(prog.buf) # 0
    BY <1>2 DEF Copying
  <2>3. QED
    BY <2>1, <2>2, LenProperties
<1> DEFINE kept == Kept(prog.stream, prog.buf)
           stream == IF Is(TeePath) THEN kept ELSE prog.stream
<1>6. kept \in Seq(Byte) /\ prog.stream \in Seq(Byte)
  BY <1>1, <1>5, KeptType DEF ProgramState
<1>7. /\ prog' \in ProgramState /\ prog'.todo = <<prog.buf>> /\ prog'.pc = "read"
      /\ prog'.files = prog.files /\ prog'.stream = stream
  <2>1. prog' = [prog EXCEPT !.pc = "read", !.todo = <<prog.buf>>, !.stream = stream]
    BY <1>1 DEF ProgramState
  <2>2. stream \in Seq(Byte)
    BY <1>6
  <2> HIDE DEF stream
  <2>3. QED
    BY <1>1, <1>5, <2>1, <2>2 DEF ProgramState
<1>8. /\ Running' => LineInv'
      /\ Stage' = Stage /\ Before' = Before /\ Capture' = Capture
      /\ \A p : (Is(p))' <=> Is(p)
  BY <1>3, StillRunning DEF SamePlace
<1> DEFINE s == Said.out  d == prog.buf
<1>9. s \in Seq(Byte) /\ d \in Seq(Byte) /\ Len(s) \in Nat /\ Len(d) \in Nat \ {0}
  BY <1>1, <1>5, LenProperties DEF Outcome
<1>10. Said' = Wrote(Said, d, Capture)
  <2>1. Emits' = Emits
    BY <1>3, <1>4 DEF Emits, Emitted
  <2> DEFINE m == Said
  <2>2. m \in Outcome
    BY <1>1
  <2>3. Said' = WroteAll(m, <<d>>, Capture)
    BY <1>1, <1>7, <1>8, <2>1 DEF Said
  <2> HIDE DEF m, d
  <2>4. Said' = Wrote(m, d, Capture)
    BY <1>9, <2>2, <2>3, WroteOne
  <2>5. QED
    BY <2>4 DEF m
<1>11. /\ Said'.out = s \o d
       /\ Said'.spilt = IF Capture /\ Len(s) >= MaxIoStdout THEN Said.spilt \o d
                        ELSE Said.spilt
  BY <1>10 DEF Wrote
<1>12. (s \o d) \o << >> = s \o d
  <2> HIDE DEF s, d
  <2>1. s \o d \in Seq(Byte)
    BY <1>9, ConcatProperties
  <2>2. QED
    BY <2>1, ConcatEmptySeq
<1>13. ASSUME Top.call.stdin.some PROVE s \o d = Top.got /\ ~(Len(s) >= MaxIoStdout)
  <2>1. s \o d = Top.got
    BY <1>2, <1>13 DEF Copying
  <2>2. Len(Top.got) <= MaxIoStdout
    BY <1>13, GotBounded
  <2> HIDE DEF s, d
  <2>3. Len(s \o d) = Len(s) + Len(d)
    BY <1>9, ConcatProperties
  <2>4. QED
    BY <1>9, <2>1, <2>2, <2>3, ExecSizes
<1>14. ASSUME Top.call.stdin.some, Is(TeePath)
       PROVE  kept = Truncate(s \o d, MaxIoBuf)
  <2>1. prog.stream = Truncate(s, MaxIoBuf)
    BY <1>2, <1>14 DEF Copying
  <2>2. Truncate(s \o d, MaxIoBuf)
           = Truncate(s, MaxIoBuf) \o Truncate(d, MaxIoBuf - Len(Truncate(s, MaxIoBuf)))
    <3>1. s \in Seq(Byte) /\ d \in Seq(Byte) /\ MaxIoBuf \in Nat
      BY <1>9, PipelineSizes
    <3> HIDE DEF s, d
    <3>2. QED
      BY <3>1, TruncateConcat, ZenonT(60)
  <2>3. QED
    BY <2>1, <2>2 DEF Kept
<1> HIDE DEF kept
<1>15. Copying'
  <2>1. Top.call.stdin.some =>
          /\ Said'.out \o << >> = Top.got
          /\ Said'.spilt = Before.spilt
          /\ Is(TeePath) => stream = Truncate(Said'.out, MaxIoBuf)
    <3> SUFFICES ASSUME Top.call.stdin.some
                 PROVE  /\ Said'.out \o << >> = Top.got
                        /\ Said'.spilt = Before.spilt
                        /\ Is(TeePath) => stream = Truncate(Said'.out, MaxIoBuf)
      OBVIOUS
    <3>1. Said.spilt = Before.spilt
      BY <1>2 DEF Copying
    <3> HIDE DEF s, d
    <3>2. QED
      BY <1>11, <1>12, <1>13, <1>14, <3>1
  <2> HIDE DEF stream, s, d
  <2>2. QED
    BY <1>2, <1>3, <1>4, <1>7, <1>8, <2>1 DEF Copying
<1>16. Running'
  BY <1>2, <1>3, <1>7, <1>8, <1>15 DEF Running
<1>17. QED
  BY <1>1, <1>3, <1>4, <1>7, <1>8, <1>16

LEMMA ReadDoneInv ==
    ASSUME SystemInv, ReadDone
    PROVE  FsInv' /\ sh' \in ShellType /\ prog' \in ProgramState /\ LineInv'
<1>1. /\ Depth = 2 /\ ~Top.rd.busy /\ prog.pc = "reading" /\ prog.todo = << >>
      /\ UNCHANGED <<kernelVars, ram_files, sh>>
  BY DEF ReadDone, Program, InUser, fileVars
<1>2. CASE Top.rd.count = 0
  BY <1>1, <1>2, ReadNothing DEF ReadDone
<1>3. CASE Top.rd.count # 0
  BY <1>1, <1>3, ReadSome DEF ReadDone
<1>4. QED
  BY <1>2, <1>3

\* tee stores its stream under the next of its words.
LEMMA TeeStoreInv ==
    ASSUME SystemInv, TeeStore
    PROVE  FsInv' /\ sh' \in ShellType /\ prog' \in ProgramState /\ LineInv'
<1> DEFINE words == Stage.args.words
           word == Head(prog.files)
           rest == Tail(prog.files)
           in == Input
           m == Handed
           t == TeeMeaning(words, m, Capture)
           todo == IF reply'.ok THEN << >> ELSE Message
<1>1. /\ Depth = 2 /\ ~Top.rd.busy /\ prog.todo = << >> /\ prog.pc = "end"
      /\ prog.files # << >> /\ UNCHANGED <<kernelVars, sh>>
      /\ Fs!SysWriteFile(word, prog.stream)
      /\ prog' = [prog EXCEPT !.files = rest, !.todo = todo]
  BY DEF TeeStore, Program, InUser
<1>2. /\ IoInv /\ FsInv /\ sh \in ShellType /\ prog \in ProgramState /\ Running
      /\ sh.at = "wait" /\ Said \in Outcome /\ Said = Emits /\ Stage.args \in Arguments
  BY <1>1, RunFacts
<1>3. Is(TeePath)
  BY <1>1, <1>2 DEF Running
<1>4. PICK k \in 0 .. Len(words) : TeeStoring(k)
  BY <1>1, <1>2, <1>3 DEF Running
<1>5. /\ Len(prog.files) = Len(words) - k
      /\ \A j \in 1 .. Len(prog.files) : prog.files[j] = words[k + j]
      /\ Said = t[k] /\ prog.stream = in
  BY <1>4 DEF TeeStoring
<1>6. /\ words \in Seq(FileName) /\ Len(words) \in Nat
      /\ in \in Seq(Byte) /\ m \in Outcome /\ Truncate(m.out, MaxIoBuf) = in
  <2>1. /\ Input \in Seq(Byte) /\ Len(Input) <= MaxIoBuf /\ Handed \in Outcome
        /\ m.out = in
    BY <1>2, InLine DEF Handed
  <2> HIDE DEF words
  <2>2. Truncate(in, MaxIoBuf) = in
    BY <2>1, TruncateProperties, PipelineSizes
  <2>3. words \in Seq(FileName) /\ Len(words) \in Nat
    BY <1>2, LenProperties DEF Arguments, words
  <2>4. QED
    BY <2>1, <2>2, <2>3
<1> HIDE DEF words, in, m
<1>7. /\ word = prog.files[1] /\ rest \in Seq(FileName) /\ Len(rest) = Len(prog.files) - 1
      /\ \A j \in 1 .. Len(rest) : rest[j] = prog.files[j + 1]
      /\ prog.files \in Seq(FileName) /\ Len(prog.files) \in Nat \ {0}
  <2>1. prog.files \in Seq(FileName)
    BY <1>2 DEF ProgramState
  <2>2. Len(prog.files) \in Nat \ {0}
    BY <1>1, <2>1, EmptySeq
  <2>3. QED
    BY <1>1, <2>1, <2>2, HeadTailProperties
<1> HIDE DEF word, rest
<1>8. /\ k + 1 \in 1 .. Len(words) /\ word = words[k + 1] /\ word \in FileName
      /\ Len(rest) = Len(words) - (k + 1)
      /\ \A j \in 1 .. Len(rest) : rest[j] = words[(k + 1) + j]
  <2>1. k + 1 \in 1 .. Len(words) /\ Len(rest) = Len(words) - (k + 1)
    BY <1>5, <1>6, <1>7
  <2>2. 1 \in 1 .. Len(prog.files)
    BY <1>7
  <2>3. word = words[k + 1]
    BY <1>5, <1>7, <2>2
  <2>4. word \in FileName
    BY <1>6, <2>1, <2>3, ElementOfSeq
  <2>5. ASSUME NEW j \in 1 .. Len(rest) PROVE rest[j] = words[(k + 1) + j]
    <3>1. j + 1 \in 1 .. Len(prog.files) /\ k + (j + 1) = (k + 1) + j
      BY <1>7
    <3>2. QED
      BY <1>5, <1>7, <3>1
  <2>6. QED
    BY <2>1, <2>3, <2>4, <2>5
<1>9. t[k + 1] = TeeWrote(t[k], word, in, Capture)
  <2>1. \A j \in 1 .. Len(words) :
           TeeMeaning(words, m, Capture)[j]
               = TeeWrote(TeeMeaning(words, m, Capture)[j - 1], words[j],
                          Truncate(m.out, MaxIoBuf), Capture)
    <3>1. words \in Seq(FileName) /\ m \in Outcome
      BY <1>6
    <3> HIDE DEF t, todo
    <3>2. QED
      BY <3>1, TeeSteps, ZenonT(40)
  <2>2. \A j \in 1 .. Len(words) : t[j] = TeeWrote(t[j - 1], words[j], in, Capture)
    BY <1>6, <2>1, Zenon
  <2>3. (k + 1) - 1 = k
    OBVIOUS
  <2> HIDE DEF t
  <2>4. t[k + 1] = TeeWrote(t[(k + 1) - 1], words[k + 1], in, Capture)
    BY <1>8, <2>2, Zenon
  <2>5. QED
    BY <1>8, <2>3, <2>4
<1> HIDE DEF t
<1>10. /\ FsInv' /\ FileTable' = Stored(FileTable, word, in)
       /\ reply'.ok <=> word \in DOMAIN FileTable'
  BY <1>1, <1>2, <1>5, <1>6, <1>8, WriteStores
<1> DEFINE after == Stored(t[k].files, word, in)
<1>11. FileTable' = after /\ (reply'.ok <=> word \in DOMAIN after)
  <2>1. t[k].files = FileTable
    BY <1>2, <1>5 DEF Emits
  <2>2. QED
    BY <1>10, <2>1
<1>12. todo = IF word \in DOMAIN after THEN << >> ELSE Message
  BY <1>11
<1>13. t[k + 1] = WroteAll([t[k] EXCEPT !.files = after], todo, Capture)
  BY <1>9, <1>12 DEF TeeWrote
<1> HIDE DEF after
<1>14. todo \in Seq(Seq(Byte))
  <2>1. << >> \in Seq(Seq(Byte))
    OBVIOUS
  <2>2. QED
    BY <2>1, PipelineSizes
<1> HIDE DEF todo
<1>15. /\ prog' \in ProgramState /\ prog'.todo = todo /\ prog'.pc = "end"
       /\ prog'.files = rest /\ prog'.stream = prog.stream
  BY <1>1, <1>2, <1>7, <1>14 DEF ProgramState
<1>16. Depth' = 2 /\ Top' = Top /\ sh' = sh
  BY <1>1 DEF kernelVars, vars, Depth, Top
<1>17. /\ Running' => LineInv'
       /\ Stage' = Stage /\ Input' = Input
       /\ Handed' = Handed /\ Capture' = Capture
       /\ \A p : (Is(p))' <=> Is(p)
  BY <1>1, <1>16, StillRunning DEF SamePlace
<1>18. Said' = t[k + 1]
  <2>1. Emits' = [Emits EXCEPT !.files = after]
    BY <1>11, <1>16 DEF Emits, Emitted
  <2>2. Emits' = [t[k] EXCEPT !.files = after]
    BY <1>2, <1>5, <2>1
  <2>3. QED
    BY <1>13, <1>15, <1>17, <2>2 DEF Said
<1>19. (TeeStoring(k + 1))'
  BY <1>5, <1>8, <1>15, <1>17, <1>18 DEF TeeStoring, words, in, m, t
<1>20. k + 1 \in 0 .. Len(Stage'.args.words)
  BY <1>6, <1>8, <1>17 DEF words
<1>21. Running'
  BY <1>1, <1>3, <1>15, <1>16, <1>17, <1>19, <1>20 DEF Running
<1>22. QED
  BY <1>2, <1>10, <1>15, <1>16, <1>17, <1>21

\* A program that leaves has had the whole effect of its stage.
LEMMA LeaveInv ==
    ASSUME SystemInv, Leave
    PROVE  FsInv' /\ sh' \in ShellType /\ prog' \in ProgramState /\ LineInv'
<1>1. /\ Depth = 2 /\ ~Top.rd.busy /\ prog.todo = << >> /\ prog.pc = "end"
      /\ prog.files = << >> /\ Return(0) /\ UNCHANGED <<ram_files, sh, prog>>
  BY DEF Leave, Program, InUser, fileVars
<1>2. /\ IoInv /\ FsInv /\ sh \in ShellType /\ prog \in ProgramState /\ Running /\ Launched
      /\ sh.at = "wait" /\ Said = Emits /\ Stage.args \in Arguments /\ stack # << >>
      /\ Top \in Frame /\ LineInv
  BY <1>1, RunFacts DEF SystemInv
<1>3. FsInv' /\ FileTable' = FileTable /\ sh' = sh
  BY <1>1, <1>2, FilesKept
<1>4. Depth' = 1
  <2>1. stack \in Seq(Frame)
    BY <1>2 DEF IoInv, IInv, TypeOK
  <2>2. Len(stack') = Depth - 1
    BY <1>1, <1>2, <2>1, PopProperties DEF Return
  <2>3. QED
    BY <1>1, <2>2 DEF Depth
<1>5. /\ result'.status = 0
      /\ Top.call.out.some => result'.out = Truncate(Top.wrote, Top.call.out.cap)
  <2>1. KernelStep /\ Len(stack') < Depth
    BY <1>1, <1>4 DEF KernelStep, Depth
  <2>2. result'.status = 0
    BY <1>1 DEF Return
  <2>3. QED
    BY <1>2, <2>1, <2>2, StepOwnOutput
<1>6. Before.ok /\ Runs(Stage) /\ Top.call.path = BinPath[Stage.cmd]
  BY <1>2 DEF Launched
<1>7. /\ FileTable = After.files /\ sh.spilt = After.spilt /\ Emitted = After.out
      /\ After.ok
  <2>1. Said = Effect
    <3>1. CASE Is(TeePath)
      <4> DEFINE words == Stage.args.words
      <4>1. PICK k \in 0 .. Len(words) : TeeStoring(k)
        BY <1>1, <1>2, <3>1 DEF Running
      <4>2. Len(words) \in Nat
        BY <1>2, LenProperties DEF Arguments
      <4>3. k = Len(words)
        <5>1. 0 = Len(words) - k
          BY <1>1, <4>1 DEF TeeStoring
        <5>2. QED
          BY <4>2, <5>1
      <4>4. Said = TeeMeaning(words, Handed, Capture)[Len(words)]
        BY <4>1, <4>3 DEF TeeStoring
      <4>5. BinPath[Stage.cmd] = TeePath
        BY <1>6, <3>1 DEF Is
      <4>6. QED
        BY <1>2, <1>6, <4>4, <4>5, StageEffect
    <3>2. CASE ~Is(TeePath)
      BY <1>1, <1>2, <3>2 DEF Running
    <3>3. QED
      BY <3>1, <3>2
  <2>2. Emits = Effect
    BY <1>2, <2>1
  <2>3. After.ok
    BY <1>2, <1>6, StageEffect
  <2>4. QED
    BY <2>2, <2>3 DEF Emits, Effect
<1>8. /\ Stage' = Stage /\ Capture' = Capture /\ After' = After
  BY <1>3, PlaceKept DEF SamePlace
<1>9. AtReturn'
  <2>1. result'.status # Failed
    BY <1>5 DEF Failed
  <2>2. Capture => sh.shown = << >> /\ result'.out = Truncate(After.out, MaxIoBuf)
    BY <1>2, <1>5, <1>7 DEF Launched, Emitted
  <2>3. ~Capture => sh.shown = After.out
    BY <1>2, <1>7 DEF Launched, Emitted, NoStdout
  <2>4. QED
    BY <1>3, <1>7, <1>8, <2>1, <2>2, <2>3 DEF AtReturn
<1>10. QED
  BY <1>1, <1>2, <1>3, <1>4, <1>9 DEF LineInv

\* Where nothing happens nothing is lost.
LEMMA StutterInv ==
    ASSUME SystemInv, UNCHANGED systemVars
    PROVE  FsInv' /\ sh' \in ShellType /\ prog' \in ProgramState /\ LineInv'
<1>1. UNCHANGED <<phase, pm, io, stack, result, ram_files, reply, sh, prog>>
  BY DEF systemVars, kernelVars, fileVars, vars
<1>2. sh.at \in ShellStates /\ IoInv /\ FsInv /\ LineInv
  BY DEF SystemInv, ShellType
<1>3. FsInv' /\ FileTable' = FileTable
  BY <1>1, <1>2, FilesKept
<1>4. sh' \in ShellType /\ prog' \in ProgramState /\ Depth' = Depth
  BY <1>1 DEF SystemInv, Depth
<1>5. CASE sh.at # "wait"
  <2>1. Depth # 2
    BY <1>2, <1>5 DEF LineInv
  <2>2. QED
    BY <1>1, <1>4, <1>5, <2>1, IdleStep
<1>6. CASE sh.at = "wait"
  <2>1. Depth \in {1, 2}
    BY <1>2, <1>6 DEF LineInv
  <2>2. Top' = Top /\ sh' = sh /\ prog' = prog /\ result' = result
    BY <1>1 DEF Top, Depth
  <2>3. /\ Stage' = Stage /\ Capture' = Capture /\ Before' = Before /\ After' = After
        /\ Input' = Input /\ ((Runs(Stage))' <=> Runs(Stage))
        /\ Handed' = Handed /\ Effect' = Effect
    BY <2>2, PlaceKept DEF SamePlace
  <2>4. CASE Depth = 1
    <3>1. AtReturn
      BY <1>2, <1>6, <2>4 DEF LineInv
    <3>2. AtReturn'
      BY <1>3, <2>2, <2>3, <3>1 DEF AtReturn, Ready, SoFar
    <3>3. QED
      BY <1>2, <1>3, <1>4, <1>6, <2>2, <2>4, <3>2 DEF LineInv
  <2>5. CASE Depth = 2
    <3>1. Running
      BY <2>5, RunFacts
    <3>2. /\ Running' => LineInv'
          /\ \A p : (Is(p))' <=> Is(p)
      BY <1>4, <2>2, <2>5, StillRunning DEF SamePlace
    <3>3. Said' = Said
      BY <1>3, <2>2, <2>3 DEF Said, Emits, Emitted
    <3>4. /\ Copying => Copying'
          /\ \A k : TeeStoring(k) => (TeeStoring(k))'
      BY <1>3, <2>2, <2>3, <3>2, <3>3 DEF Copying, TeeStoring
    <3>5. Running'
      BY <1>3, <2>2, <2>3, <3>1, <3>2, <3>3, <3>4 DEF Running
    <3>6. QED
      BY <1>3, <1>4, <3>2, <3>5
  <2>6. QED
    BY <2>1, <2>4, <2>5
<1>7. QED
  BY <1>5, <1>6

-----------------------------------------------------------------------------
(* The theorems.                                                           *)

\* Between two stages no program's state matters.
LEMMA IdleProgType == IdleProg \in ProgramState
<1>1. CatPath # EchoPath /\ CatPath # TeePath
  BY PipelinePrograms
<1>2. IdleProg = [pc |-> "read", buf |-> << >>, stream |-> << >>, keys |-> 0,
                  files |-> << >>, todo |-> << >>]
  BY <1>1 DEF IdleProg, NewProg
<1>3. << >> \in Seq(Byte) /\ << >> \in Seq(FileName) /\ << >> \in Seq(Seq(Byte))
  OBVIOUS
<1>4. QED
  BY <1>2, <1>3 DEF ProgramState

\* Nothing has been typed, written or run.
LEMMA InitSystemInv == SystemInit => SystemInv
<1> SUFFICES ASSUME SystemInit PROVE SystemInv
  OBVIOUS
<1>1. /\ Init /\ ram_files = << >> /\ sh = NewShell /\ prog = IdleProg
  BY DEF SystemInit, Fs!Init
<1>2. IoInv /\ Depth = 0
  BY <1>1, InitIoInv DEF Init, Depth
<1>3. FsInv
  BY <1>1 DEF FsInv
<1>4. sh \in ShellType
  <2>1. << >> \in FileTables
    <3>1. << >> \in [{} -> Seq(Byte)] /\ {} \in SUBSET FileName
      OBVIOUS
    <3>2. QED
      BY <3>1 DEF FileTables
  <2>2. NoLine \in LineType
    BY DEF NoLine, LineType
  <2>3. NoStdin \in StdinArg /\ << >> \in Seq(Byte) /\ "prompt" \in ShellStates
    BY DEF NoStdin, StdinArg, ShellStates
  <2>4. QED
    BY <1>1, <2>1, <2>2, <2>3, RootType DEF NewShell, ShellType
<1>5. prog \in ProgramState
  BY <1>1, IdleProgType
<1>6. LineInv
  <2>1. sh.at = "prompt" /\ sh.line = NoLine
    BY <1>1 DEF NewShell
  <2>2. QED
    BY <1>2, <2>1 DEF LineInv, AtPrompt
<1>7. QED
  BY <1>2, <1>3, <1>4, <1>5, <1>6 DEF SystemInv

\* Every step of the system.
LEMMA StepSystemInv == SystemInv /\ [SystemNext]_systemVars => SystemInv'
<1> SUFFICES ASSUME SystemInv, [SystemNext]_systemVars PROVE SystemInv'
  OBVIOUS
<1>1. IoInv'
  BY SystemIoInv
<1>2. sh \in ShellType /\ prog \in ProgramState
  BY DEF SystemInv
<1> DEFINE Stays == FsInv' /\ sh' \in ShellType /\ prog' \in ProgramState /\ LineInv'
<1>3. ASSUME StartSystem PROVE Stays
  BY <1>2, <1>3, StartSystemInv DEF StartSystem
<1>4. ASSUME Builtin PROVE Stays
  BY <1>1, <1>2, <1>4, BuiltinInv DEF Builtin
<1>5. ASSUME BeginStage PROVE Stays
  BY <1>2, <1>5, BeginStageInv DEF BeginStage
<1>6. ASSUME ReadInFile PROVE Stays
  BY <1>2, <1>6, ReadInFileInv DEF ReadInFile
<1>7. ASSUME RunStage PROVE Stays
  BY <1>1, <1>7, RunStageInv
<1>8. ASSUME StageFailed PROVE Stays
  BY <1>2, <1>8, StageFailedInv DEF StageFailed
<1>9. ASSUME PassOn PROVE Stays
  BY <1>2, <1>9, PassOnInv DEF PassOn
<1>10. ASSUME EndLine PROVE Stays
  BY <1>2, <1>10, EndLineInv DEF EndLine
<1>11. ASSUME NEW line \in Lines, TypeLine(line) PROVE Stays
  <2>1. prog' = IdleProg
    BY <1>11 DEF TypeLine
  <2>2. IdleProg \in ProgramState
    BY IdleProgType
  <2>3. QED
    BY <1>11, <2>1, <2>2, TypeLineInv
<1>12. ASSUME UNCHANGED systemVars PROVE Stays
  BY <1>12, StutterInv
<1>13. QED
  BY <1>1, <1>3, <1>4, <1>5, <1>6, <1>7, <1>8, <1>9, <1>10, <1>11, <1>12,
     EmitNextInv, CatOpenInv, CallReadInv, ServeReadInv, PressKeyInv, ReadDoneInv, TeeStoreInv,
     LeaveInv
     DEF SystemNext, Machine, AwaitKey, SystemInv

\* Booting, typing lines, running their stages and the programs' system calls all
\* keep the invariant that ties files, pipe and terminal to what the line means.
THEOREM SystemInvariance == SystemSpec => []SystemInv
  BY InitSystemInv, StepSystemInv, PTL DEF SystemSpec

\* The kernel under the real shell, cat, tee and echo is the one of module Exec:
\* slots, records and the one IO_STATE stay in step with the programs running.
THEOREM KernelUnderShell ==
    SystemSpec => []( /\ TypeOK /\ SlotsHeldByStack /\ RecordsMatchStack /\ IoIsTops
                      /\ NestingBounded )
<1>1. SystemInv => /\ TypeOK /\ SlotsHeldByStack /\ RecordsMatchStack /\ IoIsTops
                   /\ NestingBounded
  <2> SUFFICES ASSUME SystemInv
               PROVE  /\ TypeOK /\ SlotsHeldByStack /\ RecordsMatchStack /\ IoIsTops
                      /\ NestingBounded
    OBVIOUS
  <2>1. IInv
    BY DEF SystemInv, IoInv
  <2>2. NestingBounded
    BY <2>1 DEF IInv, StackShape, NestingBounded, BootCall, PlainCall, ExecCall, TypeOK, Depth
  <2>3. QED
    BY <2>1, <2>2 DEF IInv
<1>2. QED
  BY <1>1, SystemInvariance, PTL

\* A program has the keyboard only where the line gives it no input.
THEOREM KeyboardIsLastResort == SystemSpec => []KeyboardOnlyWithoutInput
<1>1. SystemInv => KeyboardOnlyWithoutInput
  <2> SUFFICES ASSUME SystemInv, Depth = 2, StdinUnavailable, ~(sh.idx = 1 /\ Stage.in = {})
               PROVE  sh.pipe = [some |-> TRUE, data |-> << >>]
    BY DEF KeyboardOnlyWithoutInput
  <2>1. IoInv /\ Launched /\ stack # << >>
    BY RunFacts
  <2>2. ~Top.call.stdin.some
    BY <2>1, TopFacts
  <2>3. Input = << >>
    BY <2>1, <2>2 DEF Launched
  <2>4. sh.pipe = [some |-> TRUE, data |-> Input]
    BY <2>1 DEF Launched, PipeFits
  <2>5. QED
    BY <2>3, <2>4
<1>2. QED
  BY <1>1, SystemInvariance, PTL

\* A line that is over has done to the files and to the terminal what its stages,
\* taken as functions one after another, mean; what is written to a capture buffer
\* that is full goes to the terminal there, too.
THEOREM LinesMeanTheirStages == SystemSpec => []LineMeansItsStages
<1>1. SystemInv => LineMeansItsStages
  BY DEF SystemInv, LineInv, AtPrompt, LineMeansItsStages, Shell
<1>2. QED
  BY <1>1, SystemInvariance, PTL
=============================================================================
