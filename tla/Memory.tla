------------------------------- MODULE Memory --------------------------------
(***************************************************************************)
(* Where programs live: the frame allocator (kernel/src/memory.rs), the     *)
(* pages of the heap and of the program slots mapped at boot (allocator.rs,  *)
(* process.rs) and the ELF loader that fills a slot (elf_loader.rs).         *)
(*                                                                         *)
(* Memory is a function of cells <<frame, offset>>; programs and the loader  *)
(* reach it by virtual addresses.  Which slot is free is module Exec's        *)
(* business.  The page tables are the x86_64 crate's: its levels are one      *)
(* here, a table being what map_to may take another frame for.               *)
(***************************************************************************)
EXTENDS Integers, Sequences

CONSTANTS
    PageSize,         \* 4096
    TableSpan,        \* pages that one table maps
    Frames,           \* the frames of the machine
    MemoryMaps,       \* what the bootloader may report: sequences of [start, end, usable]
    BootMappings,     \* what the bootloader may have mapped: pages and tables, with their frames
    HeapFirst, HeapPages,              \* HEAP_START and HEAP_SIZE, in pages
    SlotsFirst, SlotPages, NumSlots,   \* PROCESS_SLOT_BASE, PROCESS_SLOT_SIZE, MAX_PROCESS_SLOTS
    Word,             \* 2^64
    HeaderSize,       \* ELF64_PHDR_SIZE
    Images,           \* ELF files
    LOAD              \* PT_LOAD

Slots    == 0 .. NumSlots - 1
SlotBase(s) == (SlotsFirst + s * SlotPages) * PageSize
SlotEnd(s)  == SlotBase(s) + SlotPages * PageSize
HeapRange   == HeapFirst .. HeapFirst + HeapPages - 1
SlotRange   == SlotsFirst .. SlotsFirst + NumSlots * SlotPages - 1
Table(p)    == p \div TableSpan
FramesOf(f) == {f[x] : x \in DOMAIN f}

ASSUME MemorySizes ==
    /\ PageSize \in Nat \ {0} /\ TableSpan \in Nat \ {0}
    /\ HeapPages \in Nat \ {0} /\ SlotPages \in Nat \ {0} /\ NumSlots \in Nat \ {0}
    /\ HeapRange \cap SlotRange = {}
    /\ \A s \in Slots : SlotEnd(s) < Word

\* Frame numbers and a program header's fields are unsigned numbers.
ASSUME MemoryTypes ==
    /\ HeapFirst \in Nat /\ SlotsFirst \in Nat /\ Word \in Nat /\ HeaderSize \in Nat
    /\ \A map \in MemoryMaps :
          /\ Len(map) \in Nat
          /\ \A i \in 1 .. Len(map) :
                /\ map[i].start \in Nat /\ map[i].end \in Nat
                /\ map[i].start <= map[i].end
                /\ map[i].usable \in BOOLEAN
                /\ map[i].usable => map[i].start .. map[i].end - 1 \subseteq Frames
    /\ \A boot \in BootMappings :
          /\ boot.pages \in [DOMAIN boot.pages -> Frames] /\ DOMAIN boot.pages \subseteq Nat
          /\ boot.tables \in [DOMAIN boot.tables -> Frames]
          /\ \A p \in DOMAIN boot.pages : Table(p) \in DOMAIN boot.tables
    /\ \A img \in Images :
          /\ img.len \in Nat /\ img.phoff \in Nat /\ Len(img.segs) \in Nat
          /\ \A i \in 1 .. Len(img.segs) :
                /\ img.segs[i].vaddr \in Nat /\ img.segs[i].memsz \in Nat
                /\ img.segs[i].offset \in Nat /\ img.segs[i].filesz \in Nat

\* The bootloader's part of the bargain: regions don't overlap, what it has
\* mapped and its tables are in none that is usable, and in no frame twice.
ASSUME MemoryMapsDisjoint ==
    \A map \in MemoryMaps : \A i, j \in 1 .. Len(map) : i < j => map[i].end <= map[j].start

ASSUME BootMappingsReserved ==
    \A boot \in BootMappings :
        /\ \A map \in MemoryMaps : \A i \in 1 .. Len(map) : map[i].usable =>
              \A f \in map[i].start .. map[i].end - 1 :
                  f \notin FramesOf(boot.pages) \cup FramesOf(boot.tables)
        /\ \A p, q \in DOMAIN boot.pages : p # q => boot.pages[p] # boot.pages[q]
        /\ \A t, u \in DOMAIN boot.tables : t # u => boot.tables[t] # boot.tables[u]
        /\ FramesOf(boot.pages) \cap FramesOf(boot.tables) = {}

VARIABLES
    memory_map,   \* BootInfoFrameAllocator
    next,
    mapping,      \* virtual pages with their frames
    tables,       \* tables with their frames
    phase,        \* "heap", "slots", "running", "panicked", "fault"
    page,         \* the page the mapping loops are at
    mem,          \* the content of every cell
    held,         \* what each slot was last loaded with, and its program's state
    last          \* history: the slot that was last loaded or run

bootVars   == <<memory_map, next, mapping, tables, phase, page>>
memoryVars == <<bootVars, mem, held, last>>

Zero == <<"zero", 0>>
Offsets == 0 .. PageSize - 1
Cells == Frames \X Offsets
NotLoaded == [some |-> FALSE]

-----------------------------------------------------------------------------
(* The frame allocator and map_to.                                         *)

\* Mutation: reserved memory is handed out too.
AnyRegion(r) == TRUE

IsUsable(r) == r.usable

FramesIn(r) == [n \in 1 .. r.end - r.start |-> r.start + n - 1]

UsableFrames ==
    LET upTo[n \in 0 .. Len(memory_map)] ==
            IF n = 0 THEN << >>
            ELSE upTo[n - 1] \o (IF IsUsable(memory_map[n]) THEN FramesIn(memory_map[n]) ELSE << >>)
    IN  upTo[Len(memory_map)]

\* allocate_frame is called with next = n.  No frame: the empty set.
NthFrame(n) == IF n < Len(UsableFrames) THEN {UsableFrames[n + 1]} ELSE {}

AfterFrame(n) == n + 1

\* The body of both mapping loops: a frame for page p, which map_to maps and may
\* take another one for.
MapPage(p) ==
    LET n         == AfterFrame(next)
        needTable == Table(p) \notin DOMAIN tables
    IN  /\ NthFrame(next) # {} /\ p \notin DOMAIN mapping
        /\ needTable => NthFrame(n) # {}
        /\ mapping' = [q \in DOMAIN mapping \cup {p} |->
               IF q = p THEN CHOOSE f \in NthFrame(next) : TRUE ELSE mapping[q]]
        /\ tables' = IF needTable
               THEN [t \in DOMAIN tables \cup {Table(p)} |->
                       IF t = Table(p) THEN CHOOSE f \in NthFrame(n) : TRUE ELSE tables[t]]
               ELSE tables
        /\ next' = IF needTable THEN AfterFrame(n) ELSE n

\* MapToError; kernel_main expects none.
CannotMap(p) ==
    \/ NthFrame(next) = {} \/ p \in DOMAIN mapping
    \/ Table(p) \notin DOMAIN tables /\ NthFrame(AfterFrame(next)) = {}

Panic ==
    /\ phase' = "panicked"
    /\ UNCHANGED <<next, mapping, tables, page>>

-----------------------------------------------------------------------------
(* The loader.                                                             *)

\* Mutation: the sum wraps.
WrappingAdd(a, b) == {(a + b) % Word}

\* checked_add: the sum, or nothing.
CheckedAdd(a, b) == {a + b} \cap 0 .. Word - 1

\* program_headers.
HeadersInside(img) ==
    \E end \in CheckedAdd(img.phoff, HeaderSize * Len(img.segs)) : end <= img.len

FitsSlot(seg, s) ==
    seg.vaddr >= SlotBase(s) /\ \E end \in CheckedAdd(seg.vaddr, seg.memsz) : end <= SlotEnd(s)

FitsFile(seg, img) == \E end \in CheckedAdd(seg.offset, seg.filesz) : end <= img.len

\* validate_elf_for_slot; img.header says whether parse_elf_header is content.
Valid(img, s) ==
    /\ img.header
    /\ HeadersInside(img)
    /\ \A i \in 1 .. Len(img.segs) :
          LET seg == img.segs[i]
          IN  seg.type = LOAD =>
                 FitsSlot(seg, s) /\ FitsFile(seg, img) /\ seg.memsz >= seg.filesz

\* The byte of an image at an offset, which differs from all others and from
\* zero; what lies behind its end isn't the image's.
ByteOf(img, offset) == IF offset < img.len THEN <<img.name, offset>> ELSE <<"beyond", 0>>

Bytes(n, value) == [i \in 0 .. n - 1 |-> value]

\* A write of bytes from virtual address a on.
Filled(m, a, bytes) ==
    LET Hit(c) == {i \in DOMAIN bytes :
                      /\ (a + i) \div PageSize \in DOMAIN mapping
                      /\ <<mapping[(a + i) \div PageSize], (a + i) % PageSize>> = c}
    IN  [c \in Cells |-> IF Hit(c) = {} THEN m[c] ELSE bytes[CHOOSE i \in Hit(c) : TRUE]]

IsMapped(a, n) == \A i \in 0 .. n - 1 : (a + i) \div PageSize \in DOMAIN mapping

\* Mutation: the slot isn't cleared first.
Uncleared(s) == mem

Cleared(s) == Filled(mem, SlotBase(s), Bytes(SlotEnd(s) - SlotBase(s), Zero))

\* The file's part of a segment, and zeros up to its size in memory.
Placed(m, img, seg) ==
    Filled(Filled(m, seg.vaddr, [i \in 0 .. seg.filesz - 1 |-> ByteOf(img, seg.offset + i)]),
           seg.vaddr + seg.filesz, Bytes(seg.memsz - seg.filesz, Zero))

\* load_segments.
Loaded(img, s) ==
    LET after[n \in 0 .. Len(img.segs)] ==
            IF n = 0 THEN Cleared(s)
            ELSE IF img.segs[n].type = LOAD THEN Placed(after[n - 1], img, img.segs[n])
            ELSE after[n - 1]
    IN  after[Len(img.segs)]

-----------------------------------------------------------------------------
(* The steps.                                                              *)

Init ==
    /\ memory_map \in MemoryMaps
    /\ \E boot \in BootMappings : mapping = boot.pages /\ tables = boot.tables
    /\ next = 0 /\ phase = "heap" /\ page = HeapFirst
    /\ mem = [c \in Cells |-> <<"old", 0>>]
    /\ held = [s \in Slots |-> NotLoaded]
    /\ last = 0

\* init_heap's loop.  A page of the heap that is mapped already is an error.
MapHeap ==
    /\ phase = "heap"
    /\ IF CannotMap(page) THEN Panic
       ELSE /\ MapPage(page)
            /\ IF page + 1 \in HeapRange
               THEN page' = page + 1 /\ UNCHANGED phase
               ELSE page' = SlotsFirst /\ phase' = "slots"
    /\ UNCHANGED <<memory_map, mem, held, last>>

\* init_exec_regions and map_range: one of a slot is left as it is.
MapSlot ==
    /\ phase = "slots"
    /\ IF page \notin DOMAIN mapping /\ CannotMap(page) THEN Panic
       ELSE /\ IF page \in DOMAIN mapping THEN UNCHANGED <<next, mapping, tables>> ELSE MapPage(page)
            /\ page' = page + 1
            /\ phase' = IF page + 1 \in SlotRange THEN phase ELSE "running"
    /\ UNCHANGED <<memory_map, mem, held, last>>

Free(s) == held[s].some => ~held[s].running

\* exec_in_slot: an entry point of zero is noticed when the slot is loaded.
Exec(s, img) ==
    /\ phase = "running" /\ Free(s)
    /\ last' = s
    /\ IF Valid(img, s)
       THEN /\ mem' = Loaded(img, s)
            /\ held' = [held EXCEPT ![s] =
                   [some |-> TRUE, img |-> img, running |-> img.entry # 0, clean |-> TRUE]]
            /\ phase' = IF /\ IsMapped(SlotBase(s), SlotEnd(s) - SlotBase(s))
                           /\ \A i \in 1 .. Len(img.segs) : img.segs[i].type = LOAD =>
                                 IsMapped(img.segs[i].vaddr, img.segs[i].memsz)
                        THEN phase ELSE "fault"
       ELSE UNCHANGED <<mem, held, phase>>
    /\ UNCHANGED <<memory_map, next, mapping, tables, page>>

\* A program stores where it was linked to.  Nothing makes it, in ring 0; this is
\* assumed of it.  It leaves the next one nothing of the image.
Store(s) ==
    /\ phase = "running" /\ ~Free(s)
    /\ mem' = Filled(mem, SlotBase(s), Bytes(SlotEnd(s) - SlotBase(s), <<"new", 0>>))
    /\ held' = [held EXCEPT ![s].clean = FALSE]
    /\ last' = s
    /\ UNCHANGED bootVars

Finish(s) ==
    /\ phase = "running" /\ ~Free(s)
    /\ held' = [held EXCEPT ![s].running = FALSE]
    /\ UNCHANGED <<bootVars, mem, last>>

Next ==
    \/ MapHeap \/ MapSlot
    \/ \E s \in Slots, img \in Images : Exec(s, img)
    \/ \E s \in Slots : Store(s) \/ Finish(s)

Spec == Init /\ [][Next]_memoryVars

-----------------------------------------------------------------------------
(* Properties.                                                             *)

\* No frame serves two purposes: pages and page tables, the bootloader's too,
\* have frames of their own, none that the allocator has still to hand out, and
\* all of them free to use except those the bootloader has taken.
FramesDistinct ==
    LET used == FramesOf(mapping) \cup FramesOf(tables)
        free == {UsableFrames[i] : i \in next + 1 .. Len(UsableFrames)}
        boot == UNION {FramesOf(b.pages) \cup FramesOf(b.tables) : b \in BootMappings}
    IN  /\ \A p, q \in DOMAIN mapping : p # q => mapping[p] # mapping[q]
        /\ \A t, u \in DOMAIN tables : t # u => tables[t] # tables[u]
        /\ FramesOf(mapping) \cap FramesOf(tables) = {}
        /\ used \cap free = {}
        /\ used \subseteq {UsableFrames[i] : i \in 1 .. Len(UsableFrames)} \cup boot

\* The cell behind a virtual address.
CellAt(a) == <<mapping[a \div PageSize], a % PageSize>>

\* What a program finds at an address of its slot: the byte of the segment that
\* was loaded there last, and zero where its file ends or no segment lies.
Expected(img, a) ==
    LET over == {i \in 1 .. Len(img.segs) :
                    /\ img.segs[i].type = LOAD
                    /\ a \in img.segs[i].vaddr .. img.segs[i].vaddr + img.segs[i].memsz - 1}
        seg  == img.segs[CHOOSE i \in over : \A j \in over : j <= i]
    IN  IF over = {} \/ a >= seg.vaddr + seg.filesz THEN Zero
        ELSE <<img.name, seg.offset + a - seg.vaddr>>

\* A program starts on its own image, with nothing of the one before it, however
\* often and in whatever order slots are loaded and run.
SlotHoldsImage ==
    phase = "running" =>
        \A s \in Slots : held[s].some /\ held[s].clean =>
            \A a \in SlotBase(s) .. SlotEnd(s) - 1 :
                mem[CellAt(a)] = Expected(held[s].img, a)

\* Loading a program changes memory of its slot only, no other program's, nor
\* the heap's or the page tables', and meets no page that isn't mapped, whatever
\* the numbers in its image.  (The step that loads is the one that makes the slot
\* it names clean.)
LoadStaysInSlot ==
    [][ /\ phase' # "fault"
        /\ \A c \in Cells : mem'[c] # mem[c] /\ held'[last'].clean =>
              \E a \in SlotBase(last') .. SlotEnd(last') - 1 : c = CellAt(a)
      ]_memoryVars
=============================================================================
