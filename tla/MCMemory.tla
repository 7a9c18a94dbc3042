------------------------------- MODULE MCMemory ------------------------------
(* The constants of Memory for TLC: pages of two bytes, two slots of two pages *)
(* right behind a page of the heap, sums that wrap at 32, and segments on both  *)
(* sides of every bound.  One memory map is too small unless a page of a slot  *)
(* is mapped before; a table is there already.                                 *)
EXTENDS Memory, FiniteSets, TLC

MCFrames == 0 .. 11
Region(start, end, usable) == [start |-> start, end |-> end, usable |-> usable]
MCMemoryMaps ==
    {<<Region(0, 2, FALSE), Region(2, 5, TRUE), Region(5, 6, FALSE), Region(6, 12, TRUE)>>,
     <<Region(0, 2, FALSE), Region(2, 7, TRUE), Region(7, 12, FALSE)>>}
MCBootMappings ==
    {[pages |-> << >>, tables |-> 1 :> 0], [pages |-> 6 :> 1, tables |-> 2 :> 0]}

Segment(type, vaddr, memsz, offset, filesz) ==
    [type |-> type, vaddr |-> vaddr, memsz |-> memsz, offset |-> offset, filesz |-> filesz]
Image(name, segs) ==
    [name |-> name, header |-> TRUE, len |-> 4, entry |-> 1, phoff |-> 0, segs |-> segs]

\* The slots begin at 10 and 14; the second one ends at 18.
MCSegments ==
    {Segment("load", v, m, o, f) : v \in {9, 10, 12, 14}, m \in {2, 4, 5, 22}, o \in {0, 2, 31}, f \in {0, 2, 3}}
MCImages ==
    {Image("one", <<seg>>) : seg \in MCSegments}
    \cup {Image("two", <<Segment("load", 10, 3, 0, 2), seg>>) : seg \in {s \in MCSegments : s.vaddr \in {10, 12}}}
    \cup {[Image("bad", <<Segment("load", 10, 2, 1, 2)>>) EXCEPT !.header = FALSE],
          [Image("table", <<Segment("load", 10, 2, 1, 2)>>) EXCEPT !.phoff = 4],
          [Image("wrap", <<Segment("load", 10, 2, 1, 2)>>) EXCEPT !.phoff = 31],
          [Image("noentry", <<Segment("load", 14, 2, 1, 2)>>) EXCEPT !.entry = 0],
          Image("note", <<Segment("note", 3, 9, 1, 9), Segment("load", 14, 3, 1, 3)>>)}
=============================================================================
