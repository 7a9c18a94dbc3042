------------------------------ MODULE VfsProofs ------------------------------
(***************************************************************************)
(* Machine-checked facts about the file system, for every static table,     *)
(* every size of RAM_FILES and every sequence of calls: its array is a       *)
(* table, and a listing is faithful to it.                                 *)
(***************************************************************************)
EXTENDS VfsRefinement, NatFacts, SequenceTheorems, FiniteSetTheorems

-----------------------------------------------------------------------------
(* The helpers.                                                            *)

\* A scan from the front stops at the first match.
LEMMA EarliestProperties ==
    ASSUME NEW S \in SUBSET Nat, S # {}
    PROVE  Earliest(S) \in S /\ \A j \in S : Earliest(S) <= j
<1>1. \E i \in S : \A j \in S : i <= j
  BY LeastElement
<1>2. QED
  BY <1>1 DEF Earliest

\* Contents are clipped to a sequence no longer than the buffer, the same one
\* the table of FileStore keeps.
LEMMA ClippedProperties ==
    ASSUME NEW data \in Seq(Byte), NEW n \in Nat
    PROVE  /\ Clipped(data, n) \in Seq(Byte)
           /\ Len(Clipped(data, n)) <= n
           /\ Store!Clip(data, n) = Clipped(data, n)
<1>1. Len(data) \in Nat /\ Min2(Len(data), n) \in 0 .. Len(data) /\ Min2(Len(data), n) <= n
  BY LenProperties DEF Min2
<1>2. \A i \in 1 .. Min2(Len(data), n) : data[i] \in Byte
  BY <1>1, ElementOfSeq
<1>3. /\ SubSeq(data, 1, Min2(Len(data), n)) \in Seq(Byte)
      /\ Len(SubSeq(data, 1, Min2(Len(data), n)))
            = IF 1 <= Min2(Len(data), n) THEN Min2(Len(data), n) - 1 + 1 ELSE 0
  BY <1>1, <1>2, SubSeqProperties, Z3
<1>4. (IF n < Len(data) THEN n ELSE Len(data)) = Min2(Len(data), n)
  BY <1>1 DEF Min2
<1>5. QED
  BY <1>1, <1>3, <1>4 DEF Clipped, Store!Clip

-----------------------------------------------------------------------------
(* The inductive invariant.                                                *)

Names == Paths \ (LongPaths \cup {EmptyPath})

RamFile == [path : Names, data : Seq(Byte)]

VfsInv == ram_files \in Seq(RamFile) /\ TypeOK /\ RamPathsDistinct

\* The files a path matches are those at the indices of RAM_FILES that hold it,
\* and where paths are distinct there is one or none.
LEMMA RamMatches ==
    ASSUME VfsInv
    PROVE  /\ \A path : IsRam(path) <=> \E i \in 1 .. Len(ram_files) : ram_files[i].path = path
           /\ \A i \in 1 .. Len(ram_files) :
                 /\ Matches(ram_files, ram_files[i].path) = {i}
                 /\ Earliest(Matches(ram_files, ram_files[i].path)) = i
                 /\ Entry(ram_files, ram_files[i].path) = ram_files[i]
<1>1. Len(ram_files) \in Nat
  BY DEF VfsInv
<1>2. ASSUME NEW i \in 1 .. Len(ram_files)
      PROVE  Matches(ram_files, ram_files[i].path) = {i}
  BY <1>2 DEF VfsInv, RamPathsDistinct, Matches
<1>3. ASSUME NEW i \in 1 .. Len(ram_files) PROVE Earliest({i}) = i
  BY <1>1, EarliestProperties
<1>4. QED
  BY <1>2, <1>3 DEF IsRam, Entry, Matches

\* Nothing has been written at boot.
LEMMA InitVfsInv == Init => VfsInv
  BY VfsConstants DEF Init, VfsInv, TypeOK, RamPathsDistinct

\* A path that is known has its content replaced and every path stays.
LEMMA OverwriteProperties ==
    ASSUME VfsInv, NEW path \in Names, NEW data \in Seq(Byte),
           IsRam(path), Overwrite(path, data)
    PROVE  \E i \in 1 .. Len(ram_files) :
              /\ ram_files[i].path = path
              /\ ram_files' \in Seq(RamFile) /\ Len(ram_files') = Len(ram_files)
              /\ ram_files'[i] = [path |-> path, data |-> Clipped(data, MaxRamFileLen)]
              /\ \A j \in 1 .. Len(ram_files) : j # i => ram_files'[j] = ram_files[j]
<1>1. PICK i \in 1 .. Len(ram_files) : ram_files[i].path = path
  BY RamMatches
<1>2. /\ Earliest(Matches(ram_files, path)) = i /\ ram_files \in Seq(RamFile)
      /\ ram_files[i] \in RamFile
  BY <1>1, RamMatches, ElementOfSeq DEF VfsInv
<1> DEFINE e == [path |-> path, data |-> Clipped(data, MaxRamFileLen)]
<1>3. Clipped(data, MaxRamFileLen) \in Seq(Byte)
  BY ClippedProperties, VfsConstants
<1>4. e \in RamFile
  BY <1>3 DEF RamFile
<1>5. ram_files' = [ram_files EXCEPT ![i] = e]
  <2>1. ram_files' = [ram_files EXCEPT ![i].data = Clipped(data, MaxRamFileLen)]
    BY <1>2 DEF Overwrite
  <2> DEFINE old == ram_files[i]
  <2>2. [old EXCEPT !.data = Clipped(data, MaxRamFileLen)] = e
    BY <1>1, <1>2 DEF RamFile
  <2> HIDE DEF e
  <2>3. QED
    BY <2>1, <2>2
<1> HIDE DEF e
<1>6. /\ ram_files' \in Seq(RamFile) /\ Len(ram_files') = Len(ram_files)
      /\ \A j \in 1 .. Len(ram_files) : ram_files'[j] = IF j = i THEN e ELSE ram_files[j]
  BY <1>2, <1>4, <1>5, ExceptSeq
<1>7. QED
  BY <1>1, <1>6 DEF e

\* A new path takes the entry behind the used ones.
LEMMA CreateProperties ==
    ASSUME VfsInv, NEW path \in Names, NEW data \in Seq(Byte), Create(path, data)
    PROVE  /\ ram_files' \in Seq(RamFile) /\ Len(ram_files') = Len(ram_files) + 1
           /\ ram_files'[Len(ram_files) + 1]
                = [path |-> path, data |-> Clipped(data, MaxRamFileLen)]
           /\ \A j \in 1 .. Len(ram_files) : ram_files'[j] = ram_files[j]
<1> DEFINE e == [path |-> path, data |-> Clipped(data, MaxRamFileLen)]
<1>1. e \in RamFile
  BY ClippedProperties, VfsConstants DEF RamFile
<1> HIDE DEF e
<1>2. ram_files' = Append(ram_files, e) /\ ram_files \in Seq(RamFile)
  BY DEF Create, VfsInv, e
<1>3. QED
  BY <1>1, <1>2, AppendProperties DEF e

\* A write keeps paths apart and everything within its array.
LEMMA WriteVfsInv ==
    ASSUME VfsInv, NEW path \in Names, NEW data \in Seq(Byte), NEW ok \in BOOLEAN,
           WriteFile(path, data, ok)
    PROVE  VfsInv'
<1>1. Len(ram_files) \in Nat /\ MaxRamFiles \in Nat /\ MaxRamFileLen \in Nat
  BY VfsConstants DEF VfsInv
<1>2. Len(Clipped(data, MaxRamFileLen)) <= MaxRamFileLen
  BY <1>1, ClippedProperties
<1>3. CASE IsRam(path) /\ Overwrite(path, data)
  <2>1. PICK i \in 1 .. Len(ram_files) :
          /\ ram_files[i].path = path
          /\ ram_files' \in Seq(RamFile) /\ Len(ram_files') = Len(ram_files)
          /\ ram_files'[i] = [path |-> path, data |-> Clipped(data, MaxRamFileLen)]
          /\ \A j \in 1 .. Len(ram_files) : j # i => ram_files'[j] = ram_files[j]
    BY <1>3, OverwriteProperties
  <2>2. \A j \in 1 .. Len(ram_files) : ram_files'[j].path = ram_files[j].path
    BY <2>1
  <2>3. TypeOK'
    BY <2>1, <2>2, <1>2 DEF VfsInv, TypeOK
  <2>4. RamPathsDistinct'
    BY <2>1, <2>2 DEF VfsInv, RamPathsDistinct
  <2>5. QED
    BY <2>1, <2>3, <2>4 DEF VfsInv
<1>4. CASE ~IsRam(path) /\ CanCreate /\ Create(path, data)
  <2>1. /\ ram_files' \in Seq(RamFile) /\ Len(ram_files') = Len(ram_files) + 1
        /\ ram_files'[Len(ram_files) + 1]
             = [path |-> path, data |-> Clipped(data, MaxRamFileLen)]
        /\ \A j \in 1 .. Len(ram_files) : ram_files'[j] = ram_files[j]
    BY <1>4, CreateProperties
  <2>2. \A j \in 1 .. Len(ram_files) : ram_files[j].path # path
    BY <1>4, RamMatches
  <2>3. TypeOK'
    BY <2>1, <1>1, <1>2, <1>4 DEF VfsInv, TypeOK, CanCreate, Names
  <2>4. RamPathsDistinct'
    BY <2>1, <2>2, <1>1 DEF VfsInv, RamPathsDistinct
  <2>5. QED
    BY <2>1, <2>3, <2>4 DEF VfsInv
<1>5. CASE UNCHANGED ram_files
  BY <1>5 DEF VfsInv, TypeOK, RamPathsDistinct
<1>6. QED
  BY <1>3, <1>4, <1>5 DEF WriteFile

\* Every system call keeps the invariant.
LEMMA StepVfsInv == VfsInv /\ [Next]_vfsVars => VfsInv'
<1> SUFFICES ASSUME VfsInv, [Next]_vfsVars PROVE VfsInv'
  OBVIOUS
<1>1. CASE UNCHANGED ram_files
  BY <1>1 DEF VfsInv, TypeOK, RamPathsDistinct
<1>2. ASSUME NEW p \in Paths, NEW d \in Contents, SysWriteFile(p, d) PROVE VfsInv'
  <2>1. CASE PathTooLong(p) \/ p = EmptyPath
    BY <1>1, <1>2, <2>1 DEF SysWriteFile
  <2>2. CASE ~(PathTooLong(p) \/ p = EmptyPath)
    <3>1. p \in Names /\ d \in Seq(Byte)
      BY <2>2, VfsTypes DEF Names, PathTooLong
    <3>2. \E ok \in BOOLEAN : WriteFile(p, d, ok)
      BY <1>2, <2>2 DEF SysWriteFile
    <3>3. QED
      BY <3>1, <3>2, WriteVfsInv
  <2>3. QED
    BY <2>1, <2>2
<1>3. ASSUME NEW p \in Paths, NEW n \in Caps, SysReadFile(p, n) \/ SysReadDir(p, n)
      PROVE VfsInv'
  BY <1>1, <1>3 DEF SysReadFile, SysReadDir
<1>4. QED
  BY <1>1, <1>2, <1>3 DEF Next, vfsVars

-----------------------------------------------------------------------------
(* The theorems.                                                           *)

\* No sequence of calls breaks the invariant.
THEOREM VfsInvariance == Spec => []VfsInv
  BY InitVfsInv, StepVfsInv, PTL DEF Spec

\* RAM_FILES stays within its array and each file within its buffer.
THEOREM VfsTypeCorrectness == Spec => []TypeOK
<1>1. VfsInv => TypeOK
  BY DEF VfsInv
<1>2. QED
  BY <1>1, VfsInvariance, PTL

\* A path names at most one written file, however often and in whatever order
\* files are written.
THEOREM DistinctRamPaths == Spec => []RamPathsDistinct
<1>1. VfsInv => RamPathsDistinct
  BY DEF VfsInv
<1>2. QED
  BY <1>1, VfsInvariance, PTL

-----------------------------------------------------------------------------
(* The array is a table.                                                   *)

\* The table that Store reads off RAM_FILES.
Table == [p \in {ram_files[i].path : i \in 1 .. Len(ram_files)} |-> Entry(ram_files, p).data]

\* It holds each entry's content under its path and has as many entries as the
\* array has used ones.
LEMMA TableProperties ==
    ASSUME VfsInv
    PROVE  /\ DOMAIN Table = {ram_files[i].path : i \in 1 .. Len(ram_files)}
           /\ \A path : path \in DOMAIN Table <=> IsRam(path)
           /\ \A i \in 1 .. Len(ram_files) : Table[ram_files[i].path] = ram_files[i].data
           /\ \A path \in DOMAIN Table : Table[path] \in Seq(Byte)
           /\ Cardinality(DOMAIN Table) = Len(ram_files)
<1>1. Len(ram_files) \in Nat /\ \A i \in 1 .. Len(ram_files) : ram_files[i] \in RamFile
  BY ElementOfSeq DEF VfsInv
<1>2. DOMAIN Table = {ram_files[i].path : i \in 1 .. Len(ram_files)}
  BY DEF Table
<1>3. \A i \in 1 .. Len(ram_files) : Table[ram_files[i].path] = ram_files[i].data
  BY RamMatches DEF Table
<1>4. \A path : path \in DOMAIN Table <=> IsRam(path)
  BY <1>2, RamMatches
<1>5. \A path \in DOMAIN Table : Table[path] \in Seq(Byte)
  BY <1>1, <1>2, <1>3 DEF RamFile
<1>6. Cardinality(DOMAIN Table) = Len(ram_files)
  <2> DEFINE pathOf == [i \in 1 .. Len(ram_files) |-> ram_files[i].path]
  <2>1. pathOf \in Bijection(1 .. Len(ram_files), DOMAIN Table)
    BY <1>2 DEF VfsInv, RamPathsDistinct, Bijection, Injection, Surjection, IsInjective
  <2>2. ExistsBijection(1 .. Len(ram_files), DOMAIN Table)
    BY <2>1 DEF ExistsBijection
  <2>3. QED
    BY <1>1, <2>2, FS_CountingElements
<1>7. QED
  BY <1>2, <1>3, <1>4, <1>5, <1>6

\* The same as a state predicate, to be stated of the next state too.
TableIsArray ==
    /\ DOMAIN Table = {ram_files[i].path : i \in 1 .. Len(ram_files)}
    /\ \A i \in 1 .. Len(ram_files) : Table[ram_files[i].path] = ram_files[i].data
    /\ Table = [p \in DOMAIN Table |-> Table[p]]

LEMMA TableShape == VfsInv => TableIsArray
  BY TableProperties DEF Table, TableIsArray

\* An accepted write is a write to the table under that path alone.
LEMMA AcceptedWrite ==
    ASSUME VfsInv, VfsInv', NEW path \in Names, NEW data \in Seq(Byte),
           \/ IsRam(path) /\ Overwrite(path, data)
           \/ ~IsRam(path) /\ Create(path, data)
    PROVE  Table' = Store!Put(Table, path, Clipped(data, MaxRamFileLen))
<1> DEFINE kept == Clipped(data, MaxRamFileLen)
<1>1. Len(ram_files) \in Nat
  BY DEF VfsInv
<1>2. /\ DOMAIN Table' = {ram_files'[i].path : i \in 1 .. Len(ram_files')}
      /\ \A i \in 1 .. Len(ram_files') : Table'[ram_files'[i].path] = ram_files'[i].data
      /\ Table' = [p \in DOMAIN Table' |-> Table'[p]]
  <2>1. TableIsArray'
    BY TableShape, PTL
  <2>2. QED
    BY <2>1 DEF TableIsArray
<1>3. /\ DOMAIN Table = {ram_files[i].path : i \in 1 .. Len(ram_files)}
      /\ \A i \in 1 .. Len(ram_files) : Table[ram_files[i].path] = ram_files[i].data
  BY TableProperties
<1>4. /\ DOMAIN Table' = DOMAIN Table \cup {path}
      /\ \A p \in DOMAIN Table' : Table'[p] = IF p = path THEN kept ELSE Table[p]
  <2> HIDE DEF Table, kept
  <2>1. CASE IsRam(path) /\ Overwrite(path, data)
    <3>1. PICK i \in 1 .. Len(ram_files) :
            /\ ram_files[i].path = path
            /\ Len(ram_files') = Len(ram_files)
            /\ ram_files'[i] = [path |-> path, data |-> kept]
            /\ \A j \in 1 .. Len(ram_files) : j # i => ram_files'[j] = ram_files[j]
      BY <2>1, OverwriteProperties DEF kept
    <3>2. \A j \in 1 .. Len(ram_files) : j # i => ram_files[j].path # path
      BY <3>1 DEF VfsInv, RamPathsDistinct
    <3>3. \A j \in 1 .. Len(ram_files) : ram_files'[j].path = ram_files[j].path
      BY <3>1
    <3>4. DOMAIN Table' = DOMAIN Table \cup {path}
      <4>1. DOMAIN Table' = {ram_files[j].path : j \in 1 .. Len(ram_files)}
        BY <1>2, <3>1, <3>3, SMTT(30)
      <4>2. QED
        BY <1>3, <3>1, <4>1
    <3>5. ASSUME NEW j \in 1 .. Len(ram_files)
          PROVE  Table'[ram_files[j].path]
                    = IF ram_files[j].path = path THEN kept ELSE Table[ram_files[j].path]
      BY <1>2, <1>3, <3>1, <3>2, <3>3, SMTT(30)
    <3>6. DOMAIN Table' = DOMAIN Table
      BY <1>3, <3>1, <3>4
    <3>7. ASSUME NEW p \in DOMAIN Table'
          PROVE  Table'[p] = IF p = path THEN kept ELSE Table[p]
      <4>1. PICK j \in 1 .. Len(ram_files) : p = ram_files[j].path
        BY <1>3, <3>6, <3>7
      <4>2. QED
        BY <3>5, <4>1
    <3>8. QED
      BY <3>4, <3>7
  <2>2. CASE ~IsRam(path) /\ Create(path, data)
    <3>1. /\ Len(ram_files') = Len(ram_files) + 1
          /\ ram_files'[Len(ram_files) + 1] = [path |-> path, data |-> kept]
          /\ \A j \in 1 .. Len(ram_files) : ram_files'[j] = ram_files[j]
      BY <2>2, CreateProperties DEF kept
    <3>2. \A j \in 1 .. Len(ram_files) : ram_files[j].path # path
      BY <2>2, RamMatches
    <3>3. DOMAIN Table' = DOMAIN Table \cup {path}
      BY <1>1, <1>2, <1>3, <3>1, SMTT(30)
    <3>4. Table'[path] = kept
      BY <1>1, <1>2, <3>1
    <3>5. ASSUME NEW j \in 1 .. Len(ram_files)
          PROVE  Table'[ram_files[j].path] = Table[ram_files[j].path]
      BY <1>1, <1>2, <1>3, <3>1, SMTT(30)
    <3>6. QED
      BY <1>3, <3>2, <3>3, <3>4, <3>5
  <2>3. QED
    BY <2>1, <2>2
<1>5. QED
  BY <1>2, <1>4 DEF Store!Put

\* Contents of base files are sequences, each clipped the same way by both.
LEMMA BaseFiles ==
    ASSUME NEW path, IsStatic(path)
    PROVE  Entry(FILES, path).data \in Seq(Byte)
<1>1. Len(FILES) \in Nat
  BY VfsTypes
<1>2. Matches(FILES, path) \in SUBSET Nat /\ Matches(FILES, path) # {}
  BY <1>1 DEF Matches, IsStatic
<1>3. Earliest(Matches(FILES, path)) \in 1 .. Len(FILES)
  BY <1>2, EarliestProperties DEF Matches
<1>4. FILES[Earliest(Matches(FILES, path))] \in [path : FilePath, data : Seq(Byte)]
  BY <1>3, VfsTypes, ElementOfSeq
<1>5. QED
  BY <1>4 DEF Entry

\* The parts of Store that the steps below name.
Base == [p \in {FILES[i].path : i \in 1 .. Len(FILES)} |-> Entry(FILES, p).data]

LEMMA BaseProperties ==
    /\ \A path : path \in DOMAIN Base <=> IsStatic(path)
    /\ \A path \in DOMAIN Base : Base[path] = Entry(FILES, path).data
    /\ EmptyPath \notin DOMAIN Base
<1>1. DOMAIN Base = {FILES[i].path : i \in 1 .. Len(FILES)}
  BY DEF Base
<1>2. \A path \in DOMAIN Base : Base[path] = Entry(FILES, path).data
  BY DEF Base
<1>3. EmptyPath \notin DOMAIN Base
  BY <1>1, VfsConstants
<1>4. QED
  BY <1>1, <1>2, <1>3 DEF IsStatic, Matches

\* The table counts its files with the same operator.
LEMMA SameCardinality == \A S : Store!Cardinality(S) = Cardinality(S)
  BY Zenon DEF Store!Cardinality, Cardinality

\* A call to write is a Keep or a RefuseWrite of the table.
LEMMA WriteMaps ==
    ASSUME VfsInv, VfsInv', NEW path \in Paths, NEW data \in Contents,
           SysWriteFile(path, data)
    PROVE  Store!Keep(path, data) \/ Store!RefuseWrite(path, data)
<1> DEFINE Answers(ok) ==
             (IF reply'.op = "list" THEN [op |-> "list"] ELSE reply')
                = [op |-> "write", path |-> path, data |-> data, ok |-> ok]
<1>1. ASSUME NEW ok, reply' = [op |-> "write", path |-> path, data |-> data, ok |-> ok]
      PROVE  Answers(ok)
  BY <1>1
<1>2. CASE PathTooLong(path) \/ path = EmptyPath
  <2>1. Answers(FALSE) /\ UNCHANGED ram_files
    BY <1>1, <1>2 DEF SysWriteFile
  <2>2. Table' = Table
    BY <2>1 DEF Table, Entry, Matches, Earliest
  <2>3. QED
    BY <1>2, <2>1, <2>2 DEF PathTooLong, Store!RefuseWrite, Table
<1>3. CASE ~(PathTooLong(path) \/ path = EmptyPath)
  <2>1. path \in Names /\ data \in Seq(Byte) /\ MaxRamFileLen \in Nat
    BY <1>3, VfsTypes, VfsConstants DEF Names, PathTooLong
  <2>2. PICK ok \in BOOLEAN : WriteFile(path, data, ok)
    BY <1>3 DEF SysWriteFile
  <2>3. /\ path \in DOMAIN Table <=> IsRam(path)
        /\ Cardinality(DOMAIN Table) = Len(ram_files)
    BY TableProperties
  <2>4. CASE ok /\ \/ IsRam(path) /\ Overwrite(path, data)
                   \/ ~IsRam(path) /\ CanCreate /\ Create(path, data)
    <3>1. Table' = Store!Put(Table, path, Store!Clip(data, MaxRamFileLen))
      BY <2>1, <2>4, AcceptedWrite, ClippedProperties
    <3>2. path \in DOMAIN Table \/ Cardinality(DOMAIN Table) < MaxRamFiles
      BY <2>3, <2>4 DEF CanCreate
    <3>3. Answers(TRUE)
      BY <1>1, <2>2, <2>4 DEF WriteFile
    <3>4. Store!HasRoomFor(path)
      BY <3>2, SameCardinality, Zenon DEF Store!HasRoomFor, Table
    <3>5. Store!Keep(path, data)
      BY <2>1, <3>1, <3>3, <3>4, Zenon DEF Store!Keep, Table, Names
    <3>6. QED
      BY <3>5
  <2>5. CASE ~ok /\ ~IsRam(path) /\ ~CanCreate /\ UNCHANGED ram_files
    <3>1. ~(path \in DOMAIN Table \/ Cardinality(DOMAIN Table) < MaxRamFiles)
      BY <2>3, <2>5 DEF CanCreate
    <3>2. Table' = Table
      BY <2>5 DEF Table, Entry, Matches, Earliest
    <3>3. Answers(FALSE)
      BY <1>1, <2>2, <2>5 DEF WriteFile
    <3>4. ~Store!HasRoomFor(path)
      BY <3>1, SameCardinality, Zenon DEF Store!HasRoomFor, Table
    <3>5. QED
      BY <2>5, <3>2, <3>3, <3>4 DEF Store!RefuseWrite, Table
  <2>6. QED
    BY <2>2, <2>4, <2>5 DEF WriteFile
<1>4. QED
  BY <1>2, <1>3

\* A call to read is a Fetch or finds NoSuchFile.
LEMMA ReadMaps ==
    ASSUME VfsInv, NEW path \in Paths, NEW cap \in Caps, SysReadFile(path, cap)
    PROVE  Store!Fetch(path, cap) \/ Store!NoSuchFile(path, cap)
<1> DEFINE found == ~PathTooLong(path) /\ (IsStatic(path) \/ IsRam(path))
<1>1. /\ reply' = [op |-> "read", path |-> path, cap |-> cap, ok |-> found,
                   data |-> IF found THEN Clipped(Lookup(path), cap) ELSE << >>]
      /\ reply'.op # "list" /\ UNCHANGED ram_files
  BY DEF SysReadFile
<1>2. Table' = Table
  BY <1>1 DEF Table, Entry, Matches, Earliest
<1>3. path \in DOMAIN Base \cup DOMAIN Table <=> IsStatic(path) \/ IsRam(path)
  BY TableProperties, BaseProperties
<1>4. cap \in Nat
  BY VfsConstants
<1>5. CASE found
  <2>1. path \in Names
    <3>1. IsStatic(EmptyPath) => FALSE
      BY BaseProperties
    <3>2. Len(ram_files) \in Nat /\ \A i \in 1 .. Len(ram_files) : ram_files[i] \in RamFile
      BY ElementOfSeq DEF VfsInv
    <3>3. IsRam(EmptyPath) => FALSE
      BY <3>2, RamMatches DEF RamFile, Names
    <3>4. QED
      BY <1>5, <3>1, <3>3 DEF Names, PathTooLong
  <2>2. Lookup(path) = IF path \in DOMAIN Base THEN Base[path] ELSE Table[path]
    BY <1>5, TableProperties, BaseProperties DEF Lookup, Table
  <2>3. Lookup(path) \in Seq(Byte)
    BY <1>3, <1>5, <2>2, TableProperties, BaseProperties, BaseFiles
  <2>4. Clipped(Lookup(path), cap) = Store!Clip(Lookup(path), cap)
    BY <1>4, <2>3, ClippedProperties
  <2>5. Store!Visible(path) = Lookup(path)
    BY <2>2 DEF Store!Visible, Base, Table
  <2>6. QED
    BY <1>1, <1>2, <1>3, <1>5, <2>1, <2>4, <2>5 DEF Store!Fetch, Base, Table, Names
<1>6. CASE ~found
  <2>1. path \in LongPaths \cup {EmptyPath} \/ path \notin DOMAIN Base \cup DOMAIN Table
    BY <1>3, <1>6 DEF PathTooLong
  <2>2. QED
    BY <1>1, <1>2, <1>6, <2>1 DEF Store!NoSuchFile, Base, Table
<1>7. QED
  BY <1>5, <1>6

\* Every step of the array is a step of the table, or leaves it alone.
LEMMA StepMaps == VfsInv /\ VfsInv' /\ [Next]_vfsVars => [Store!Next]_Store!storeVars
<1> SUFFICES ASSUME VfsInv, VfsInv', [Next]_vfsVars PROVE [Store!Next]_Store!storeVars
  OBVIOUS
<1>1. Names \cup (LongPaths \cup {EmptyPath}) = Paths \cup {EmptyPath}
  BY VfsConstants DEF Names
<1>2. ASSUME NEW p \in Paths, NEW d \in Contents, SysWriteFile(p, d) PROVE Store!Next
  BY <1>1, <1>2, WriteMaps DEF Store!Next, Names
<1>3. ASSUME NEW p \in Paths, NEW n \in Caps, SysReadFile(p, n) PROVE Store!Next
  BY <1>1, <1>3, ReadMaps DEF Store!Next, Names
<1>4. ASSUME NEW p \in Paths, NEW n \in Caps, SysReadDir(p, n) PROVE Store!Next
  <2>1. reply'.op = "list" /\ UNCHANGED ram_files
    BY <1>4 DEF SysReadDir
  <2>2. Store!Look
    BY <2>1 DEF Store!Look, Entry, Matches, Earliest
  <2>3. QED
    BY <2>2 DEF Store!Next
<1>5. CASE UNCHANGED vfsVars
  BY <1>5 DEF vfsVars, Store!storeVars, Entry, Matches, Earliest
<1>6. QED
  BY <1>2, <1>3, <1>4, <1>5 DEF Next

\* The array that is searched entry by entry is a table of files: a write
\* reaches the file it names and no other, a read gives back what the table
\* holds, and a call is refused for its name or for want of room only.
THEOREM ArrayIsTable == Spec => VfsIsFileStore
<1>1. Init => Store!Init
  <2> SUFFICES ASSUME Init PROVE Store!Init
    OBVIOUS
  <2>1. {ram_files[i].path : i \in 1 .. Len(ram_files)} = {}
    BY DEF Init
  <2>2. QED
    BY <2>1 DEF Init, Store!Init
<1>2. QED
  BY <1>1, StepMaps, VfsInvariance, PTL DEF Spec, VfsIsFileStore, Store!Spec

-----------------------------------------------------------------------------
(* Listings.                                                               *)

Name == DOMAIN NameLen

\* The room names take, as the running total that append_path_component keeps
\* in the caller's buffer.
LEMMA SpaceIsTotal ==
    ASSUME NEW names \in Seq(Name)
    PROVE  \E f \in [0 .. Len(names) -> Nat] :
              /\ f[0] = 0
              /\ \A n \in 1 .. Len(names) : f[n] = f[n - 1] + NameLen[names[n]] + 1
              /\ Space(names) = f[Len(names)]
<1> DEFINE N == Len(names)
           sum == CHOOSE f : f = [n \in 0 .. N |->
                    IF n = 0 THEN 0 ELSE f[n - 1] + NameLen[names[n]] + 1]
           step == [x \in (1 .. N) \X Nat |-> x[2] + NameLen[names[x[1]]] + 1]
<1>1. N \in Nat /\ \A n \in 1 .. N : NameLen[names[n]] \in Nat
  BY VfsTypes, ElementOfSeq DEF Name
<1>2. step \in [(1 .. N) \X Nat -> Nat]
  BY <1>1
<1>3. PICK f \in [0 .. N -> Nat] :
         f[0] = 0 /\ \A n \in 1 .. N : f[n] = step[<<n, f[n - 1]>>]
  <2>1. N \in Nat /\ 0 \in Nat /\ step \in Steps(N, Nat)
    BY <1>1, <1>2 DEF Steps
  <2> HIDE DEF step, N
  <2>2. \E f : Recurs(f, N, Nat, 0, step)
    BY <2>1, Recursion
  <2>3. QED
    BY <2>2 DEF Recurs
<1>4. \A n \in 1 .. N : f[n] = f[n - 1] + NameLen[names[n]] + 1
  <2>1. \A n \in 1 .. N : f[n - 1] \in Nat /\ <<n, f[n - 1]>> \in (1 .. N) \X Nat
    BY <1>1, SMTT(30)
  <2>2. QED
    BY <1>3, <2>1
<1>5. f = [n \in 0 .. N |-> IF n = 0 THEN 0 ELSE f[n - 1] + NameLen[names[n]] + 1]
  <2>1. \A n \in 0 .. N : n # 0 => n \in 1 .. N
    BY <1>1
  <2>2. \A n \in 0 .. N :
           f[n] = IF n = 0 THEN 0 ELSE f[n - 1] + NameLen[names[n]] + 1
    BY <1>3, <1>4, <2>1
  <2>3. QED
    BY <2>2
<1>6. sum = [n \in 0 .. N |-> IF n = 0 THEN 0 ELSE sum[n - 1] + NameLen[names[n]] + 1]
  BY <1>5, Zenon
<1>7. Space(names) = sum[N]
  BY DEF Space
<1> HIDE DEF sum, step
<1>8. sum[0] = 0 /\ \A n \in 1 .. N : sum[n] = sum[n - 1] + NameLen[names[n]] + 1
  BY <1>1, <1>6
<1>9. \A n \in 0 .. N : sum[n] \in Nat
  <2> DEFINE S == {n \in Nat : sum[n] \in Nat}
  <2>1. 0 \in S /\ \A n \in 0 .. N - 1 : n \in S => n + 1 \in S
    <3>1. 0 \in S
      BY <1>8
    <3>2. ASSUME NEW n \in 0 .. N - 1, n \in S PROVE n + 1 \in S
      <4>1. n + 1 \in 1 .. N /\ (n + 1) - 1 = n
        BY <1>1
      <4>2. sum[n + 1] = sum[n] + NameLen[names[n + 1]] + 1
        BY <1>8, <4>1
      <4>3. QED
        BY <1>1, <3>2, <4>1, <4>2
    <3>3. QED
      BY <3>1, <3>2
  <2> HIDE DEF S
  <2>2. \A n \in 0 .. N : n \in S
    BY <1>1, <2>1, BoundedInduction
  <2>3. QED
    BY <2>2 DEF S
<1>10. DOMAIN sum = 0 .. N
  BY <1>6
<1>11. sum \in [0 .. N -> Nat]
  BY <1>6, <1>9, <1>10
<1>12. QED
  BY <1>7, <1>8, <1>11

\* One more name takes its length and a terminator.
LEMMA SpaceProperties ==
    /\ Space(<< >>) = 0
    /\ \A names \in Seq(Name) :
          /\ Space(names) \in Nat
          /\ \A c \in Name : Space(Append(names, c)) = Space(names) + NameLen[c] + 1
<1>1. Space(<< >>) = 0
  <2>1. << >> \in Seq(Name) /\ Len(<< >>) = 0
    OBVIOUS
  <2>2. QED
    BY <2>1, SpaceIsTotal
<1>2. ASSUME NEW names \in Seq(Name) PROVE Space(names) \in Nat
  BY SpaceIsTotal, LenProperties
<1>3. ASSUME NEW names \in Seq(Name), NEW c \in Name
      PROVE  Space(Append(names, c)) = Space(names) + NameLen[c] + 1
  <2> DEFINE N == Len(names)  more == Append(names, c)
  <2>1. /\ N \in Nat /\ more \in Seq(Name) /\ Len(more) = N + 1 /\ more[N + 1] = c
        /\ \A n \in 1 .. N : more[n] = names[n]
    BY AppendProperties
  <2>2. PICK f \in [0 .. N -> Nat] :
           /\ f[0] = 0 /\ Space(names) = f[N]
           /\ \A n \in 1 .. N : f[n] = f[n - 1] + NameLen[names[n]] + 1
    BY SpaceIsTotal
  <2> HIDE DEF more
  <2>3. PICK g \in [0 .. N + 1 -> Nat] :
           /\ g[0] = 0 /\ Space(more) = g[N + 1]
           /\ \A n \in 1 .. N + 1 : g[n] = g[n - 1] + NameLen[more[n]] + 1
    <3>1. PICK g \in [0 .. Len(more) -> Nat] :
             /\ g[0] = 0 /\ Space(more) = g[Len(more)]
             /\ \A n \in 1 .. Len(more) : g[n] = g[n - 1] + NameLen[more[n]] + 1
      <4>1. more \in Seq(Name)
        BY <2>1
      <4>2. QED
        BY <4>1, SpaceIsTotal
    <3>2. Len(more) = N + 1
      BY <2>1
    <3> HIDE DEF N
    <3>3. QED
      BY <3>1, <3>2, Zenon
  <2> DEFINE S == {n \in Nat : g[n] = f[n]}
  <2>4. 0 \in S
    BY <2>2, <2>3
  <2>5. ASSUME NEW n \in 0 .. N - 1, n \in S PROVE n + 1 \in S
    <3>1. n + 1 \in 1 .. N /\ n + 1 \in 1 .. N + 1 /\ (n + 1) - 1 = n /\ n + 1 \in Nat
      BY <2>1
    <3>2. /\ g[n + 1] = g[n] + NameLen[more[n + 1]] + 1
          /\ f[n + 1] = f[n] + NameLen[names[n + 1]] + 1
      BY <2>2, <2>3, <3>1
    <3>3. QED
      BY <2>1, <2>5, <3>1, <3>2
  <2> HIDE DEF S
  <2>6. \A n \in 0 .. N : n \in S
    BY <2>1, <2>4, <2>5, BoundedInduction
  <2>7. g[N] = f[N]
    BY <2>1, <2>6 DEF S
  <2>8. g[N + 1] = g[N] + NameLen[c] + 1
    BY <2>1, <2>3
  <2>9. QED
    BY <2>2, <2>3, <2>7, <2>8 DEF more
<1>4. QED
  BY <1>1, <1>2, <1>3

\* What a listing scans: the static entries, then the written ones.
Scanned == FILES \o ram_files

\* What entry n puts in a listing, if anything.
Shows(n, dir, c) ==
    InDir(Scanned[n].path, dir) /\ c = Component(Scanned[n].path, dir) /\ c # ""

LEMMA ScannedProperties ==
    ASSUME VfsInv
    PROVE  /\ Len(Scanned) \in Nat
           /\ \A n \in 1 .. Len(Scanned) : Scanned[n].path \in FilePath
           /\ {Scanned[n].path : n \in 1 .. Len(Scanned)}
                = {FILES[i].path : i \in 1 .. Len(FILES)}
                    \cup {ram_files[i].path : i \in 1 .. Len(ram_files)}
<1> DEFINE F == Len(FILES)  R == Len(ram_files)
<1>1. FILES \in Seq([path : FilePath, data : Seq(Byte)]) /\ F \in Nat
  BY VfsTypes
<1>2. ram_files \in Seq([path : FilePath, data : Seq(Byte)]) /\ R \in Nat
  <2>1. RamFile \subseteq [path : FilePath, data : Seq(Byte)]
    BY VfsTypes DEF RamFile, Names
  <2>2. ram_files \in Seq(RamFile) /\ R \in Nat
    BY DEF VfsInv
  <2>3. ram_files \in Seq([path : FilePath, data : Seq(Byte)])
    BY <2>1, <2>2, SeqMonotonic
  <2>4. QED
    BY <2>2, <2>3
<1>3. /\ Scanned \in Seq([path : FilePath, data : Seq(Byte)]) /\ Len(Scanned) = F + R
      /\ \A n \in 1 .. F + R : Scanned[n] = IF n <= F THEN FILES[n] ELSE ram_files[n - F]
  BY <1>1, <1>2, ConcatProperties DEF Scanned
<1>4. \A n \in 1 .. Len(Scanned) : Scanned[n].path \in FilePath
  <2>1. \A n \in 1 .. Len(Scanned) : Scanned[n] \in [path : FilePath, data : Seq(Byte)]
    BY <1>3, ElementOfSeq
  <2>2. QED
    BY <2>1
<1> HIDE DEF F, R
<1>5. \A i \in 1 .. F : Scanned[i] = FILES[i] /\ i \in 1 .. F + R
  BY <1>1, <1>2, <1>3
<1>6. \A i \in 1 .. R : Scanned[F + i] = ram_files[i] /\ F + i \in 1 .. F + R
  <2>1. ASSUME NEW i \in 1 .. R PROVE Scanned[F + i] = ram_files[i] /\ F + i \in 1 .. F + R
    <3>1. F + i \in 1 .. F + R /\ ~(F + i <= F) /\ (F + i) - F = i
      BY <1>1, <1>2
    <3>2. QED
      BY <1>3, <3>1
  <2>2. QED
    BY <2>1
<1>7. \A n \in 1 .. F + R : \/ n \in 1 .. F /\ Scanned[n] = FILES[n]
                            \/ n - F \in 1 .. R /\ Scanned[n] = ram_files[n - F]
  BY <1>1, <1>2, <1>3
<1>8. {Scanned[n].path : n \in 1 .. F + R}
        = {FILES[i].path : i \in 1 .. F} \cup {ram_files[i].path : i \in 1 .. R}
  BY <1>5, <1>6, <1>7
<1>9. Len(Scanned) \in Nat /\ 1 .. Len(Scanned) = 1 .. F + R
  BY <1>1, <1>2, <1>3
<1>10. QED
  BY <1>4, <1>8, <1>9 DEF F, R

\* What an entry shows is a name.
LEMMA ShownIsName ==
    ASSUME VfsInv, NEW dir \in FilePath, NEW n \in 1 .. Len(Scanned), InDir(Scanned[n].path, dir)
    PROVE  Component(Scanned[n].path, dir) \in Name
<1> DEFINE path == Scanned[n].path  k == Len(DirPrefix(dir).comps)
<1>1. path.comps \in Seq(Name) /\ Len(path.comps) \in Nat
  BY ScannedProperties DEF FilePath, Name
<1>2. k \in Nat
  BY DEF DirPrefix, FilePath
<1>3. k + 1 \in 1 .. Len(path.comps)
  BY <1>1, <1>2 DEF InDir
<1>4. QED
  BY <1>1, <1>3, ElementOfSeq DEF Component

\* The listing is built up entry by entry.
LEMMA ListingIsScan ==
    ASSUME VfsInv, NEW dir \in FilePath, NEW cap \in Nat
    PROVE  \E f \in [0 .. Len(Scanned) -> Seq(Name)] :
              /\ f[0] = << >>
              /\ \A n \in 1 .. Len(Scanned) :
                    f[n] = AppendPathComponent(f[n - 1], Scanned[n].path, dir, cap)
              /\ ListDir(dir, cap) = f[Len(Scanned)]
<1> DEFINE N == Len(Scanned)
           listed == CHOOSE f : f = [n \in 0 .. N |->
                        IF n = 0 THEN << >>
                        ELSE AppendPathComponent(f[n - 1], Scanned[n].path, dir, cap)]
           step == [x \in (1 .. N) \X Seq(Name) |->
                        AppendPathComponent(x[2], Scanned[x[1]].path, dir, cap)]
<1>1. N \in Nat
  BY ScannedProperties
<1>2. ASSUME NEW n \in 1 .. N, NEW names \in Seq(Name)
      PROVE  AppendPathComponent(names, Scanned[n].path, dir, cap) \in Seq(Name)
  BY ShownIsName, AppendProperties DEF AppendPathComponent
<1>3. step \in Steps(N, Seq(Name))
  BY <1>2 DEF Steps
<1>4. PICK f : Recurs(f, N, Seq(Name), << >>, step)
  <2> HIDE DEF step, N
  <2>1. << >> \in Seq(Name)
    OBVIOUS
  <2>2. QED
    BY <1>1, <1>3, <2>1, Recursion
<1>5. \A n \in 1 .. N : f[n] = AppendPathComponent(f[n - 1], Scanned[n].path, dir, cap)
  <2>1. f \in [0 .. N -> Seq(Name)] /\ \A n \in 1 .. N : f[n] = step[<<n, f[n - 1]>>]
    BY <1>4 DEF Recurs
  <2>2. \A n \in 1 .. N : n - 1 \in 0 .. N
    BY <1>1
  <2>3. \A n \in 1 .. N : <<n, f[n - 1]>> \in (1 .. N) \X Seq(Name)
    BY <2>1, <2>2
  <2>4. QED
    BY <2>1, <2>3
<1>6. f = [n \in 0 .. N |->
             IF n = 0 THEN << >>
             ELSE AppendPathComponent(f[n - 1], Scanned[n].path, dir, cap)]
  <2>1. \A n \in 0 .. N : n # 0 => n \in 1 .. N
    BY <1>1
  <2>2. f \in [0 .. N -> Seq(Name)] /\ f[0] = << >>
    BY <1>4 DEF Recurs
  <2>3. \A n \in 0 .. N :
           f[n] = IF n = 0 THEN << >>
                  ELSE AppendPathComponent(f[n - 1], Scanned[n].path, dir, cap)
    BY <1>5, <2>1, <2>2
  <2>4. QED
    BY <2>2, <2>3
<1>7. listed = [n \in 0 .. N |->
             IF n = 0 THEN << >>
             ELSE AppendPathComponent(listed[n - 1], Scanned[n].path, dir, cap)]
  BY <1>6, Zenon
<1>8. ListDir(dir, cap) = listed[N]
  BY DEF ListDir, Scanned
<1> HIDE DEF listed, step
<1>9. /\ listed[0] = << >>
      /\ \A n \in 1 .. N :
            listed[n] = AppendPathComponent(listed[n - 1], Scanned[n].path, dir, cap)
  BY <1>1, <1>7
<1> DEFINE S == {n \in Nat : listed[n] \in Seq(Name)}
<1>10. 0 \in S
  <2>1. << >> \in Seq(Name)
    OBVIOUS
  <2>2. QED
    BY <1>9, <2>1
<1>11. ASSUME NEW n \in 0 .. N - 1, n \in S PROVE n + 1 \in S
  <2>1. n + 1 \in 1 .. N /\ n + 1 \in Nat /\ (n + 1) - 1 = n
    BY <1>1
  <2>2. listed[n + 1] = AppendPathComponent(listed[n], Scanned[n + 1].path, dir, cap)
    BY <1>9, <2>1
  <2>3. QED
    BY <1>2, <1>11, <2>1, <2>2
<1> HIDE DEF S
<1>12. \A n \in 0 .. N : n \in S
  BY <1>1, <1>10, <1>11, BoundedInduction
<1>13. listed \in [0 .. N -> Seq(Name)]
  BY <1>7, <1>12 DEF S
<1>14. QED
  BY <1>8, <1>9, <1>13

\* What is true of a listing once the first n entries have been seen: it names
\* what they show, each once and within the buffer, and leaves out what has no
\* room.
ListingInv(names, n, dir, cap) ==
    /\ \A k \in 1 .. Len(names) : \E i \in 1 .. n : Shows(i, dir, names[k])
    /\ \A j, k \in 1 .. Len(names) : names[j] = names[k] => j = k
    /\ Space(names) <= cap
    /\ \A i \in 1 .. n : \A c \in Name :
          Shows(i, dir, c) => IsListed(names, c) \/ ~Fits(names, c, cap)

LEMMA AppendKeepsListing ==
    ASSUME VfsInv, NEW dir \in FilePath, NEW cap \in Nat, NEW n \in Nat, n + 1 <= Len(Scanned),
           NEW names \in Seq(Name), ListingInv(names, n, dir, cap)
    PROVE  ListingInv(AppendPathComponent(names, Scanned[n + 1].path, dir, cap),
                      n + 1, dir, cap)
<1> DEFINE path == Scanned[n + 1].path
           c == Component(path, dir)
           more == AppendPathComponent(names, path, dir, cap)
<1>1. /\ Len(names) \in Nat /\ Space(names) \in Nat
      /\ n + 1 \in 1 .. Len(Scanned) /\ 1 .. n + 1 = (1 .. n) \cup {n + 1}
  BY SpaceProperties, ScannedProperties
<1>2. CASE more # names
  <2>1. /\ InDir(path, dir) /\ c # "" /\ ~IsListed(names, c) /\ Fits(names, c, cap)
        /\ more = Append(names, c)
    BY <1>2 DEF AppendPathComponent
  <2>2. c \in Name /\ Shows(n + 1, dir, c)
    BY <1>1, <2>1, ShownIsName DEF Shows
  <2>3. NameLen[c] \in Nat /\ \A d \in Name : NameLen[d] \in Nat
    BY <2>2, VfsTypes DEF Name
  <2> HIDE DEF more, c, path
  <2>4. /\ Len(more) = Len(names) + 1 /\ more[Len(names) + 1] = c
        /\ \A k \in 1 .. Len(names) : more[k] = names[k]
        /\ 1 .. Len(more) = (1 .. Len(names)) \cup {Len(names) + 1}
    <3>1. /\ Len(more) = Len(names) + 1 /\ more[Len(names) + 1] = c
          /\ \A k \in 1 .. Len(names) : more[k] = names[k]
      BY <2>1, <2>2, AppendProperties, ZenonT(30)
    <3>2. QED
      BY <1>1, <3>1
  <2>5. Space(more) = Space(names) + NameLen[c] + 1
    BY <2>1, <2>2, SpaceProperties
  <2>6. \A k \in 1 .. Len(more) : \E i \in 1 .. n + 1 : Shows(i, dir, more[k])
    BY <1>1, <2>2, <2>4 DEF ListingInv
  <2>7. \A j, k \in 1 .. Len(more) : more[j] = more[k] => j = k
    <3>1. \A k \in 1 .. Len(names) : names[k] # c
      BY <2>1 DEF IsListed
    <3>2. \A j, k \in 1 .. Len(names) : names[j] = names[k] => j = k
      BY DEF ListingInv
    <3>3. QED
      BY <2>4, <3>1, <3>2
  <2>8. Space(more) <= cap
    BY <2>1, <2>5 DEF Fits
  <2>9. \A i \in 1 .. n + 1 : \A d \in Name :
           Shows(i, dir, d) => IsListed(more, d) \/ ~Fits(more, d, cap)
    <3>1. ASSUME NEW i \in 1 .. n, NEW d \in Name, Shows(i, dir, d)
          PROVE  IsListed(more, d) \/ ~Fits(more, d, cap)
      <4>1. CASE IsListed(names, d)
        BY <2>4, <4>1 DEF IsListed
      <4>2. CASE ~Fits(names, d, cap)
        <5>1. NameLen[c] \in Nat /\ NameLen[d] \in Nat
          BY <2>2, <2>3
        <5>2. ~(Space(more) + NameLen[d] + 1 <= cap)
          BY <1>1, <2>5, <4>2, <5>1, SMTT(30) DEF Fits
        <5>3. QED
          BY <5>2 DEF Fits
      <4>3. QED
        BY <3>1, <4>1, <4>2 DEF ListingInv
    <3>2. ASSUME NEW d \in Name, Shows(n + 1, dir, d) PROVE IsListed(more, d)
      <4>1. d = c
        BY <3>2 DEF Shows, c, path
      <4>2. Len(names) + 1 \in 1 .. Len(more)
        BY <1>1, <2>4
      <4>3. QED
        BY <2>4, <4>1, <4>2 DEF IsListed
    <3>3. QED
      BY <1>1, <3>1, <3>2
  <2>10. QED
    BY <2>6, <2>7, <2>8, <2>9 DEF ListingInv, more, path
<1>3. CASE more = names
  <2>1. ASSUME NEW d \in Name, Shows(n + 1, dir, d)
        PROVE  IsListed(names, d) \/ ~Fits(names, d, cap)
    <3>1. InDir(path, dir) /\ d = c /\ c # ""
      BY <2>1 DEF Shows
    <3>2. Append(names, c) # names
      <4>1. Len(Append(names, c)) = Len(names) + 1
        BY <2>1, <3>1, AppendProperties
      <4>2. QED
        BY <1>1, <4>1
    <3>3. QED
      BY <1>3, <3>1, <3>2 DEF AppendPathComponent
  <2> HIDE DEF more, path
  <2>2. ListingInv(names, n + 1, dir, cap)
    BY <1>1, <2>1 DEF ListingInv
  <2>3. QED
    BY <1>3, <2>2 DEF more, path
<1>4. QED
  BY <1>2, <1>3

\* A listing names what the scanned entries show, within the caller's buffer.
LEMMA ListingShows ==
    ASSUME VfsInv, NEW dir \in FilePath, NEW cap \in Nat
    PROVE  /\ ListDir(dir, cap) \in Seq(Name)
           /\ ListingInv(ListDir(dir, cap), Len(Scanned), dir, cap)
<1> DEFINE N == Len(Scanned)
<1>1. PICK f \in [0 .. N -> Seq(Name)] :
         /\ f[0] = << >>
         /\ \A n \in 1 .. N : f[n] = AppendPathComponent(f[n - 1], Scanned[n].path, dir, cap)
         /\ ListDir(dir, cap) = f[N]
  BY ListingIsScan
<1>2. N \in Nat
  BY ScannedProperties
<1> DEFINE S == {n \in Nat : ListingInv(f[n], n, dir, cap)}
<1>3. 0 \in S
  <2>1. Len(<< >>) = 0 /\ Space(<< >>) <= cap
    BY SpaceProperties
  <2>2. ListingInv(<< >>, 0, dir, cap)
    BY <2>1 DEF ListingInv
  <2>3. QED
    BY <1>1, <2>2
<1>4. ASSUME NEW n \in 0 .. N - 1, n \in S PROVE n + 1 \in S
  <2>1. /\ n \in Nat /\ n \in 0 .. N /\ n + 1 \in Nat /\ n + 1 \in 1 .. N
        /\ n + 1 <= N /\ (n + 1) - 1 = n
    BY <1>2
  <2>2. f[n] \in Seq(Name) /\ ListingInv(f[n], n, dir, cap)
    BY <1>1, <1>4, <2>1
  <2>3. f[n + 1] = AppendPathComponent(f[n], Scanned[n + 1].path, dir, cap)
    BY <1>1, <2>1
  <2>4. ListingInv(f[n + 1], n + 1, dir, cap)
    BY <2>1, <2>2, <2>3, AppendKeepsListing
  <2>5. QED
    BY <2>1, <2>4
<1> HIDE DEF S
<1>5. \A n \in 0 .. N : n \in S
  BY <1>2, <1>3, <1>4, BoundedInduction
<1>6. N \in S /\ N \in 0 .. N
  BY <1>2, <1>5
<1>7. QED
  BY <1>1, <1>6 DEF S

\* The children of a directory are what the scanned entries show.
LEMMA ChildrenAreShown ==
    ASSUME VfsInv, NEW dir \in FilePath
    PROVE  ChildrenOf(dir) = {c \in Name : \E i \in 1 .. Len(Scanned) : Shows(i, dir, c)}
<1> DEFINE paths == {FILES[i].path : i \in 1 .. Len(FILES)}
                      \cup {ram_files[i].path : i \in 1 .. Len(ram_files)}
<1>1. paths = {Scanned[n].path : n \in 1 .. Len(Scanned)}
  BY ScannedProperties
<1>2. ChildrenOf(dir) = {Component(p, dir) : p \in {q \in paths : InDir(q, dir)}} \ {""}
  BY DEF ChildrenOf
<1> HIDE DEF paths
<1>3. \A c : c \in ChildrenOf(dir) <=> \E i \in 1 .. Len(Scanned) : Shows(i, dir, c)
  BY <1>1, <1>2 DEF Shows
<1>4. \A c : (\E i \in 1 .. Len(Scanned) : Shows(i, dir, c)) => c \in Name
  BY ShownIsName DEF Shows
<1>5. QED
  BY <1>3, <1>4

\* A listing of a directory names children of it only, each once, within the
\* caller's buffer, and leaves one out only for want of room, whatever has been
\* written.
THEOREM ListingsFaithful == Spec => []ListingFaithful
<1>1. VfsInv => ListingFaithful
  <2> SUFFICES ASSUME VfsInv, NEW dir \in Paths, NEW cap \in Caps
               PROVE  LET names == ListDir(dir, cap)
                          shown == {names[k] : k \in 1 .. Len(names)}
                      IN  /\ shown \subseteq ChildrenOf(dir)
                          /\ \A j, k \in 1 .. Len(names) : names[j] = names[k] => j = k
                          /\ Space(names) <= cap
                          /\ \A c \in ChildrenOf(dir) \ shown :
                                Space(names) + NameLen[c] + 1 > cap
    BY DEF ListingFaithful
  <2> DEFINE names == ListDir(dir, cap)
             shown == {names[k] : k \in 1 .. Len(names)}
  <2>1. dir \in FilePath /\ cap \in Nat
    BY VfsTypes, VfsConstants
  <2>2. names \in Seq(Name) /\ ListingInv(names, Len(Scanned), dir, cap)
    BY <2>1, ListingShows
  <2>3. ChildrenOf(dir) = {c \in Name : \E i \in 1 .. Len(Scanned) : Shows(i, dir, c)}
    BY <2>1, ChildrenAreShown
  <2> HIDE DEF names
  <2>4. \A k \in 1 .. Len(names) : names[k] \in Name
    BY <2>2, ElementOfSeq
  <2>5. shown \subseteq ChildrenOf(dir)
    BY <2>2, <2>3, <2>4 DEF ListingInv
  <2>6. ASSUME NEW c \in ChildrenOf(dir) \ shown PROVE Space(names) + NameLen[c] + 1 > cap
    <3>1. c \in Name /\ ~IsListed(names, c) /\ ~Fits(names, c, cap)
      BY <2>2, <2>3 DEF ListingInv, IsListed
    <3>2. Space(names) \in Nat /\ NameLen[c] \in Nat
      BY <2>2, <3>1, SpaceProperties, VfsTypes DEF Name
    <3>3. QED
      BY <2>1, <3>1, <3>2 DEF Fits
  <2>7. QED
    BY <2>2, <2>5, <2>6 DEF ListingInv, names
<1>2. QED
  BY <1>1, VfsInvariance, PTL
=============================================================================
