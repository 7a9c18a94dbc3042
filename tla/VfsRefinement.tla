---------------------------- MODULE VfsRefinement ----------------------------
(* The searched arrays of Vfs implement the table of FileStore.              *)
EXTENDS Vfs

Store == INSTANCE FileStore WITH
    Names    <- Paths \ (LongPaths \cup {EmptyPath}),
    Refusals <- LongPaths \cup {EmptyPath},
    Base     <- [p \in {FILES[i].path : i \in 1 .. Len(FILES)} |-> Entry(FILES, p).data],
    Payloads <- Contents,
    Capacity <- MaxRamFiles,
    MaxLen   <- MaxRamFileLen,
    Buffers  <- Caps,
    store    <- [p \in {ram_files[i].path : i \in 1 .. Len(ram_files)} |->
                    Entry(ram_files, p).data],
    answer   <- IF reply.op = "list" THEN [op |-> "list"] ELSE reply

\* Reads, writes and refusals are those of a table: a write reaches the file it
\* names and no other, is refused only for its name or for want of room, and
\* a refused one changes nothing.
VfsIsFileStore == Store!Spec
=============================================================================
