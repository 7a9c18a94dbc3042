---------------------------- MODULE MemoryProofs -----------------------------
(***************************************************************************)
(* Theorems about Memory: frames are handed out once, a load stays in its    *)
(* slot, and a program starts on its own image.                             *)
(***************************************************************************)
EXTENDS Memory, NatFacts, SequenceTheorems

-----------------------------------------------------------------------------
(* Which frames the allocator hands out.                                   *)

RegionFrames(r) == IF IsUsable(r) THEN FramesIn(r) ELSE << >>

LEMMA RegionFramesProperties ==
    ASSUME NEW map \in MemoryMaps, NEW k \in 1 .. Len(map)
    PROVE  /\ RegionFrames(map[k]) \in Seq(Frames)
           /\ \A i \in 1 .. Len(RegionFrames(map[k])) :
                 /\ map[k].usable
                 /\ RegionFrames(map[k])[i] = map[k].start + i - 1
                 /\ RegionFrames(map[k])[i] \in map[k].start .. map[k].end - 1
<1> DEFINE r == map[k]
           n == r.end - r.start
<1>1. /\ r.start \in Nat /\ r.end \in Nat /\ n \in Nat
      /\ r.usable => r.start .. r.end - 1 \subseteq Frames
  BY MemoryTypes
<1>2. CASE r.usable
  <2>1. \A i \in 1 .. n : r.start + i - 1 \in r.start .. r.end - 1
    BY <1>1
  <2>2. FramesIn(r) \in [1 .. n -> Frames]
    BY <1>1, <1>2, <2>1 DEF FramesIn
  <2>3. FramesIn(r) \in Seq(Frames) /\ Len(FramesIn(r)) = n
    BY <1>1, <2>2
  <2>4. \A i \in 1 .. n : FramesIn(r)[i] = r.start + i - 1
    BY DEF FramesIn
  <2>5. QED
    BY <1>2, <2>1, <2>3, <2>4 DEF RegionFrames, IsUsable
<1>3. CASE ~r.usable
  BY <1>3, EmptySeq DEF RegionFrames, IsUsable
<1>4. QED
  BY <1>2, <1>3

\* A list of frames without repetition, all of the usable ones among the first
\* n regions.
FramesUpTo(fs, n) ==
    /\ fs \in Seq(Frames)
    /\ \A i, j \in 1 .. Len(fs) : fs[i] = fs[j] => i = j
    /\ \A i \in 1 .. Len(fs) : \E k \in 1 .. n :
          memory_map[k].usable /\ fs[i] \in memory_map[k].start .. memory_map[k].end - 1

LEMMA NextRegion ==
    ASSUME memory_map \in MemoryMaps, NEW n \in 0 .. Len(memory_map) - 1, Len(memory_map) \in Nat,
           NEW fs, FramesUpTo(fs, n)
    PROVE  FramesUpTo(fs \o RegionFrames(memory_map[n + 1]), n + 1)
<1> DEFINE rs == RegionFrames(memory_map[n + 1])
           both == fs \o rs
           Within(x, k) == memory_map[k].usable /\ x \in memory_map[k].start .. memory_map[k].end - 1
<1>1. n + 1 \in 1 .. Len(memory_map) /\ \A k \in 1 .. n : k \in 1 .. n + 1 /\ k \in 1 .. Len(memory_map)
  OBVIOUS
<1>2. rs \in Seq(Frames) /\ Len(rs) \in Nat
  BY <1>1, RegionFramesProperties, LenProperties
<1>3. \A i \in 1 .. Len(rs) : rs[i] = memory_map[n + 1].start + i - 1 /\ Within(rs[i], n + 1)
  BY <1>1, RegionFramesProperties
<1>4. fs \in Seq(Frames) /\ Len(fs) \in Nat
  BY LenProperties DEF FramesUpTo
<1>5. \A i \in 1 .. Len(fs) : \E k \in 1 .. n : Within(fs[i], k)
  BY DEF FramesUpTo
<1>6. \A i, j \in 1 .. Len(fs) : fs[i] = fs[j] => i = j
  BY DEF FramesUpTo
<1>7. \A k \in 1 .. Len(memory_map) :
         memory_map[k].start \in Nat /\ memory_map[k].end \in Nat
  BY MemoryTypes
<1>8. \A k \in 1 .. n : memory_map[k].end <= memory_map[n + 1].start
  <2>1. \A k \in 1 .. n : k < n + 1
    OBVIOUS
  <2>2. QED
    BY <1>1, <2>1, MemoryMapsDisjoint
<1> HIDE DEF rs
<1>9. /\ both \in Seq(Frames) /\ Len(both) = Len(fs) + Len(rs)
      /\ \A i \in 1 .. Len(both) : both[i] = IF i <= Len(fs) THEN fs[i] ELSE rs[i - Len(fs)]
  BY <1>2, <1>4, ConcatProperties
<1> HIDE DEF both
<1>10. \A i \in 1 .. Len(both) : i <= Len(fs) => i \in 1 .. Len(fs)
  BY <1>4, <1>9
<1>11. \A i \in 1 .. Len(both) : ~(i <= Len(fs)) => i - Len(fs) \in 1 .. Len(rs)
  BY <1>2, <1>4, <1>9
<1>12. ASSUME NEW i \in 1 .. Len(fs), NEW j \in 1 .. Len(rs) PROVE fs[i] # rs[j]
  <2>1. PICK k \in 1 .. n : Within(fs[i], k)
    BY <1>5
  <2>2. Within(rs[j], n + 1) /\ memory_map[k].end <= memory_map[n + 1].start
    BY <1>3, <1>8
  <2>3. QED
    BY <1>1, <1>7, <2>1, <2>2, SMTT(30)
<1>13. ASSUME NEW i \in 1 .. Len(both), NEW j \in 1 .. Len(both), both[i] = both[j] PROVE i = j
  <2>1. CASE i <= Len(fs) /\ j <= Len(fs)
    BY <1>6, <1>9, <1>10, <1>13, <2>1
  <2>2. CASE i <= Len(fs) /\ ~(j <= Len(fs))
    BY <1>9, <1>10, <1>11, <1>12, <1>13, <2>2
  <2>3. CASE ~(i <= Len(fs)) /\ j <= Len(fs)
    BY <1>9, <1>10, <1>11, <1>12, <1>13, <2>3
  <2>4. CASE ~(i <= Len(fs)) /\ ~(j <= Len(fs))
    <3>1. rs[i - Len(fs)] = rs[j - Len(fs)]
      BY <1>9, <1>13, <2>4
    <3>2. memory_map[n + 1].start + (i - Len(fs)) - 1 = memory_map[n + 1].start + (j - Len(fs)) - 1
      BY <1>3, <1>11, <2>4, <3>1
    <3>3. QED
      BY <1>1, <1>4, <1>7, <1>9, <3>2
  <2>5. QED
    BY <2>1, <2>2, <2>3, <2>4
<1>14. ASSUME NEW i \in 1 .. Len(both) PROVE \E k \in 1 .. n + 1 : Within(both[i], k)
  <2>1. CASE i <= Len(fs)
    BY <1>1, <1>5, <1>9, <1>10, <2>1
  <2>2. CASE ~(i <= Len(fs))
    <3>1. both[i] = rs[i - Len(fs)] /\ i - Len(fs) \in 1 .. Len(rs)
      BY <1>9, <1>11, <2>2
    <3>2. Within(both[i], n + 1)
      BY <1>3, <3>1
    <3>3. QED
      BY <1>1, <3>2
  <2>3. QED
    BY <2>1, <2>2
<1>15. QED
  BY <1>9, <1>13, <1>14 DEF FramesUpTo, both, rs

LEMMA UsableFramesProperties ==
    ASSUME memory_map \in MemoryMaps
    PROVE  FramesUpTo(UsableFrames, Len(memory_map))
<1> DEFINE N == Len(memory_map)
           upTo == CHOOSE f : f = [n \in 0 .. N |->
                IF n = 0 THEN << >>
                ELSE f[n - 1] \o (IF IsUsable(memory_map[n]) THEN FramesIn(memory_map[n]) ELSE << >>)]
           step == [x \in (1 .. N) \X Seq(Frames) |-> x[2] \o RegionFrames(memory_map[x[1]])]
<1>1. N \in Nat /\ \A n \in 0 .. N : n # 0 => n \in 1 .. N
  BY MemoryTypes
<1>2. << >> \in Seq(Frames)
  BY EmptySeq
<1>3. step \in Steps(N, Seq(Frames))
  <2>1. ASSUME NEW n \in 1 .. N, NEW fs \in Seq(Frames)
        PROVE  fs \o RegionFrames(memory_map[n]) \in Seq(Frames)
    BY RegionFramesProperties, ConcatProperties
  <2>2. QED
    BY <2>1 DEF Steps
<1>4. UsableFrames = upTo[N]
  BY DEF UsableFrames
<1> HIDE DEF N
<1>5. PICK f : Recurs(f, N, Seq(Frames), << >>, step)
  <2> HIDE DEF step
  <2>1. QED
    BY <1>1, <1>2, <1>3, Recursion
<1>6. /\ f \in [0 .. N -> Seq(Frames)] /\ f[0] = << >>
      /\ \A n \in 1 .. N : f[n] = step[<<n, f[n - 1]>>]
  BY <1>5 DEF Recurs
<1>7. \A n \in 1 .. N : f[n] = f[n - 1] \o RegionFrames(memory_map[n])
  <2>1. \A n \in 1 .. N : n - 1 \in 0 .. N
    BY <1>1
  <2>2. \A n \in 1 .. N : <<n, f[n - 1]>> \in (1 .. N) \X Seq(Frames)
    BY <1>6, <2>1
  <2>3. QED
    BY <1>6, <2>2
<1>8. f = [n \in 0 .. N |-> IF n = 0 THEN << >> ELSE f[n - 1] \o RegionFrames(memory_map[n])]
  <2> HIDE DEF step
  <2>1. \A n \in 0 .. N : f[n] = IF n = 0 THEN << >> ELSE f[n - 1] \o RegionFrames(memory_map[n])
    BY <1>1, <1>6, <1>7
  <2>2. QED
    BY <1>6, <2>1
<1>9. upTo = [n \in 0 .. N |-> IF n = 0 THEN << >> ELSE upTo[n - 1] \o RegionFrames(memory_map[n])]
  BY <1>8, Zenon DEF RegionFrames
<1> HIDE DEF upTo, step
<1>10. upTo[0] = << >> /\ \A n \in 1 .. N : upTo[n] = upTo[n - 1] \o RegionFrames(memory_map[n])
  <2>1. 0 \in 0 .. N /\ \A n \in 1 .. N : n \in 0 .. N /\ n # 0
    BY <1>1
  <2>2. QED
    BY <1>9, <2>1, Zenon
<1> DEFINE S == {n \in Nat : FramesUpTo(upTo[n], n)}
<1>11. 0 \in S
  <2>1. Len(<< >>) = 0
    OBVIOUS
  <2>2. FramesUpTo(<< >>, 0)
    BY <1>2, <2>1 DEF FramesUpTo
  <2>3. QED
    BY <1>10, <2>2
<1>12. ASSUME NEW n \in 0 .. N - 1, n \in S PROVE n + 1 \in S
  <2>1. n + 1 \in 1 .. N /\ n + 1 \in Nat /\ (n + 1) - 1 = n
    BY <1>1
  <2>2. upTo[n + 1] = upTo[n] \o RegionFrames(memory_map[n + 1])
    BY <1>10, <2>1
  <2>3. FramesUpTo(upTo[n + 1], n + 1)
    BY <1>1, <1>12, <2>2, NextRegion DEF N
  <2>4. QED
    BY <2>1, <2>3
<1> HIDE DEF S
<1>13. \A n \in 0 .. N : n \in S
  BY <1>1, <1>11, <1>12, BoundedInduction
<1>14. QED
  BY <1>1, <1>4, <1>13 DEF N, S
-----------------------------------------------------------------------------
(* Boot: the invariant of the mapping loops.                               *)

\* A heap page that is still to be mapped, slots mapped up to the page the loop
\* is at, and all of them once programs run.
Progress ==
    /\ phase \in {"heap", "slots", "running", "panicked"}
    /\ phase = "heap" => page \in HeapRange
    /\ phase = "slots" => page \in SlotRange /\ SlotsFirst .. page - 1 \subseteq DOMAIN mapping
    /\ phase = "running" => SlotRange \subseteq DOMAIN mapping

BootInv ==
    /\ memory_map \in MemoryMaps
    /\ next \in Nat
    /\ mapping \in [DOMAIN mapping -> Frames]
    /\ Progress
    /\ FramesDistinct

BootFrames ==
    UNION {FramesOf(b.pages) \cup FramesOf(b.tables) : b \in BootMappings}

USE MemorySizes

LEMMA RangeFacts ==
    /\ HeapFirst \in HeapRange /\ HeapRange \subseteq Nat
    /\ SlotsFirst \in SlotRange /\ SlotRange \subseteq Nat
    /\ \A p \in SlotRange : p + 1 \notin SlotRange => SlotRange = SlotsFirst .. p
    /\ \A p \in SlotRange : p + 1 \in Nat
<1>1. NumSlots * SlotPages \in Nat \ {0}
  <2>1. \A m, n \in Nat \ {0} : m * n \in Nat \ {0}
    OBVIOUS
  <2>2. QED
    BY <2>1
<1>2. HeapFirst \in Nat /\ SlotsFirst \in Nat /\ HeapPages \in Nat \ {0}
  BY MemoryTypes
<1>3. QED
  BY <1>1, <1>2 DEF HeapRange, SlotRange

\* Where a page that is mapped next gets its frames from.
LEMMA NthFrameProperties ==
    ASSUME memory_map \in MemoryMaps, NEW n \in Nat, NthFrame(n) # {}
    PROVE  /\ n + 1 \in 1 .. Len(UsableFrames)
           /\ (CHOOSE f \in NthFrame(n) : TRUE) = UsableFrames[n + 1]
           /\ UsableFrames[n + 1] \in Frames
<1>1. UsableFrames \in Seq(Frames)
  BY UsableFramesProperties DEF FramesUpTo
<1>2. Len(UsableFrames) \in Nat /\ \A i \in 1 .. Len(UsableFrames) : UsableFrames[i] \in Frames
  BY <1>1, LenProperties
<1>3. n < Len(UsableFrames) /\ NthFrame(n) = {UsableFrames[n + 1]}
  BY DEF NthFrame
<1>4. QED
  BY <1>2, <1>3

LEMMA MapPageProperties ==
    ASSUME memory_map \in MemoryMaps, next \in Nat, mapping \in [DOMAIN mapping -> Frames],
           FramesDistinct, memory_map' = memory_map, NEW p, MapPage(p)
    PROVE  /\ next' \in Nat
           /\ DOMAIN mapping' = DOMAIN mapping \cup {p}
           /\ mapping' \in [DOMAIN mapping' -> Frames]
           /\ FramesDistinct'
<1> DEFINE U == UsableFrames
           u == U[next + 1]
           w == U[next + 2]
           N == Len(U)
           needTable == Table(p) \notin DOMAIN tables
<1>1. UsableFrames' = UsableFrames
  BY DEF UsableFrames, IsUsable, FramesIn
<1>2. N \in Nat /\ \A i, j \in 1 .. N : U[i] = U[j] => i = j
  BY UsableFramesProperties, LenProperties DEF FramesUpTo
<1>3. next + 1 \in Nat /\ AfterFrame(next) = next + 1
  BY DEF AfterFrame
<1>4. NthFrame(next) # {} /\ p \notin DOMAIN mapping
  BY DEF MapPage
<1>5. next + 1 \in 1 .. N /\ (CHOOSE f \in NthFrame(next) : TRUE) = u /\ u \in Frames
  BY <1>4, NthFrameProperties
<1>6. needTable => next + 2 \in 1 .. N /\ (CHOOSE f \in NthFrame(next + 1) : TRUE) = w
  <2>1. needTable => NthFrame(next + 1) # {}
    BY <1>3 DEF MapPage
  <2>2. (next + 1) + 1 = next + 2
    OBVIOUS
  <2>3. QED
    BY <1>3, <2>1, <2>2, NthFrameProperties
<1>7. mapping' = [q \in DOMAIN mapping \cup {p} |-> IF q = p THEN u ELSE mapping[q]]
  BY <1>5 DEF MapPage
<1>8. /\ needTable => tables' = [t \in DOMAIN tables \cup {Table(p)} |-> IF t = Table(p) THEN w ELSE tables[t]]
      /\ ~needTable => tables' = tables
  BY <1>3, <1>6 DEF MapPage
<1>9. next' = IF needTable THEN next + 2 ELSE next + 1
  <2>1. AfterFrame(AfterFrame(next)) = next + 2
    BY DEF AfterFrame
  <2>2. QED
    BY <1>3, <2>1 DEF MapPage
<1> DEFINE new == IF needTable THEN {next + 1, next + 2} ELSE {next + 1}
<1>10. /\ \A q, r \in DOMAIN mapping : q # r => mapping[q] # mapping[r]
       /\ \A t, v \in DOMAIN tables : t # v => tables[t] # tables[v]
       /\ \A q \in DOMAIN mapping, t \in DOMAIN tables : mapping[q] # tables[t]
       /\ \A q \in DOMAIN mapping, i \in next + 1 .. N : mapping[q] # U[i]
       /\ \A t \in DOMAIN tables, i \in next + 1 .. N : tables[t] # U[i]
       /\ \A q \in DOMAIN mapping : (\E i \in 1 .. N : mapping[q] = U[i]) \/ mapping[q] \in BootFrames
       /\ \A t \in DOMAIN tables : (\E i \in 1 .. N : tables[t] = U[i]) \/ tables[t] \in BootFrames
  BY ZenonT(30) DEF FramesDistinct, FramesOf, BootFrames
<1> HIDE DEF U, N
<1>11. /\ next + 1 \in next + 1 .. N
       /\ needTable => next + 2 \in next + 1 .. N
       /\ \A i \in next' + 1 .. N : i \in next + 1 .. N /\ i \in 1 .. N /\ i # next + 1
       /\ needTable => \A i \in next' + 1 .. N : i # next + 2
       /\ next + 1 # next + 2
       /\ next' \in Nat
  BY <1>2, <1>5, <1>6, <1>9
<1>12. DOMAIN mapping' = DOMAIN mapping \cup {p} /\ \A q \in DOMAIN mapping : mapping'[q] = mapping[q]
  BY <1>4, <1>7
<1>13. mapping'[p] = u
  BY <1>7
<1> DEFINE D == DOMAIN tables'
<1>14. CASE needTable
  <2>1. /\ D = DOMAIN tables \cup {Table(p)} /\ tables'[Table(p)] = w
        /\ \A t \in DOMAIN tables : tables'[t] = tables[t]
    BY <1>8, <1>14
  <2>2. u # w /\ \A i \in next' + 1 .. N : U[i] # u /\ U[i] # w
    BY <1>2, <1>5, <1>6, <1>11, <1>14
  <2>3. \A q, r \in DOMAIN mapping' : q # r => mapping'[q] # mapping'[r]
    BY <1>10, <1>11, <1>12, <1>13
  <2>4. \A t, v \in D : t # v => tables'[t] # tables'[v]
    BY <1>10, <1>11, <1>14, <2>1
  <2>5. \A q \in DOMAIN mapping', t \in D : mapping'[q] # tables'[t]
    BY <1>10, <1>11, <1>12, <1>13, <1>14, <2>1, <2>2
  <2>6. \A q \in DOMAIN mapping', i \in next' + 1 .. N : mapping'[q] # U[i]
    BY <1>10, <1>11, <1>12, <1>13, <2>2
  <2>7. \A t \in D, i \in next' + 1 .. N : tables'[t] # U[i]
    BY <1>10, <1>11, <2>1, <2>2
  <2>8. /\ \A q \in DOMAIN mapping' :
              (\E i \in 1 .. N : mapping'[q] = U[i]) \/ mapping'[q] \in BootFrames
        /\ \A t \in D : (\E i \in 1 .. N : tables'[t] = U[i]) \/ tables'[t] \in BootFrames
    BY <1>5, <1>6, <1>10, <1>12, <1>13, <1>14, <2>1
  <2>9. FramesDistinct'
    BY <1>1, <2>3, <2>4, <2>5, <2>6, <2>7, <2>8, ZenonT(30)
       DEF FramesDistinct, FramesOf, BootFrames, U, N
  <2>10. QED
    BY <1>5, <1>7, <1>11, <1>12, <2>9
<1>15. CASE ~needTable
  <2>1. tables' = tables
    BY <1>8, <1>15
  <2>2. \A i \in next' + 1 .. N : U[i] # u
    BY <1>2, <1>5, <1>11
  <2>3. \A q, r \in DOMAIN mapping' : q # r => mapping'[q] # mapping'[r]
    BY <1>10, <1>11, <1>12, <1>13
  <2>4. /\ \A t, v \in D : t # v => tables'[t] # tables'[v]
        /\ \A q \in DOMAIN mapping', t \in D : mapping'[q] # tables'[t]
    BY <1>10, <1>11, <1>12, <1>13, <2>1
  <2>5. \A q \in DOMAIN mapping', i \in next' + 1 .. N : mapping'[q] # U[i]
    BY <1>10, <1>11, <1>12, <1>13, <2>2
  <2>6. \A t \in D, i \in next' + 1 .. N : tables'[t] # U[i]
    BY <1>10, <1>11, <2>1
  <2>7. /\ \A q \in DOMAIN mapping' :
              (\E i \in 1 .. N : mapping'[q] = U[i]) \/ mapping'[q] \in BootFrames
        /\ \A t \in D : (\E i \in 1 .. N : tables'[t] = U[i]) \/ tables'[t] \in BootFrames
    BY <1>5, <1>10, <1>12, <1>13, <2>1
  <2>8. FramesDistinct'
    BY <1>1, <2>3, <2>4, <2>5, <2>6, <2>7, ZenonT(30)
       DEF FramesDistinct, FramesOf, BootFrames, U, N
  <2>9. QED
    BY <1>5, <1>7, <1>11, <1>12, <2>8
<1>16. QED
  BY <1>14, <1>15

LEMMA BootInit == Init => BootInv
<1> SUFFICES ASSUME Init PROVE BootInv
  OBVIOUS
<1>1. /\ memory_map \in MemoryMaps /\ next = 0 /\ phase = "heap" /\ page = HeapFirst
  BY DEF Init
<1> PICK boot \in BootMappings : mapping = boot.pages /\ tables = boot.tables
  BY DEF Init
<1>2. mapping \in [DOMAIN mapping -> Frames]
  BY <1>1, MemoryTypes
<1>3. Progress
  BY <1>1, RangeFacts DEF Progress
<1>4. FramesDistinct
  <2>1. /\ \A p, q \in DOMAIN mapping : p # q => mapping[p] # mapping[q]
        /\ \A t, u \in DOMAIN tables : t # u => tables[t] # tables[u]
        /\ FramesOf(mapping) \cap FramesOf(tables) = {}
    BY BootMappingsReserved
  <2>2. ASSUME NEW i \in 1 .. Len(UsableFrames)
        PROVE  UsableFrames[i] \notin FramesOf(mapping) \cup FramesOf(tables)
    <3>1. PICK k \in 1 .. Len(memory_map) : /\ memory_map[k].usable
                                            /\ UsableFrames[i] \in memory_map[k].start .. memory_map[k].end - 1
      BY <1>1, UsableFramesProperties DEF FramesUpTo
    <3>2. QED
      BY <1>1, <3>1, BootMappingsReserved
  <2>3. next + 1 = 1
    BY <1>1
  <2>4. FramesOf(mapping) \cup FramesOf(tables) \subseteq BootFrames
    BY DEF BootFrames
  <2>5. QED
    BY <2>1, <2>2, <2>3, <2>4 DEF FramesDistinct, BootFrames
<1>5. QED
  BY <1>1, <1>2, <1>3, <1>4 DEF BootInv

LEMMA FramesDistinctUnchanged ==
    ASSUME FramesDistinct, UNCHANGED <<memory_map, next, mapping, tables>>
    PROVE  FramesDistinct'
<1>1. UsableFrames' = UsableFrames
  BY DEF UsableFrames, IsUsable, FramesIn
<1>2. /\ next' = next /\ mapping' = mapping /\ tables' = tables
  OBVIOUS
<1>3. QED
  BY <1>1, <1>2, Zenon DEF FramesDistinct
-----------------------------------------------------------------------------
(* Addresses and the cells behind them.                                    *)

LEMMA Division ==
    ASSUME NEW P \in Nat \ {0}, NEW a \in Nat
    PROVE  a \div P \in Nat /\ a % P \in 0 .. P - 1 /\ a = P * (a \div P) + (a % P)
OBVIOUS

LEMMA PageOfAddress ==
    ASSUME NEW P \in Nat \ {0}, NEW q \in Nat, NEW r \in Nat, NEW a \in q * P .. r * P - 1
    PROVE  a \div P \in q .. r - 1
OBVIOUS

Addresses(s) == SlotBase(s) .. SlotEnd(s) - 1

LEMMA SlotAddresses ==
    ASSUME NEW s \in Slots
    PROVE  /\ SlotBase(s) \in Nat /\ SlotEnd(s) \in Nat /\ SlotBase(s) < SlotEnd(s)
           /\ \A a \in Addresses(s) :
                 /\ a \in Nat
                 /\ a \div PageSize \in SlotRange
                 /\ a \div PageSize \in SlotsFirst + s * SlotPages .. SlotsFirst + s * SlotPages + SlotPages - 1
<1> DEFINE q == SlotsFirst + s * SlotPages
<1>1. s \in Nat /\ s + 1 <= NumSlots /\ s * SlotPages \in Nat /\ q \in Nat /\ SlotPages \in Nat \ {0}
  BY MemoryTypes, SMTT(30) DEF Slots
<1>2. NumSlots * SlotPages \in Nat /\ s * SlotPages + SlotPages <= NumSlots * SlotPages
  <2>1. \A m, n, k \in Nat : m + 1 <= n => m * k + k <= n * k
    <3> SUFFICES ASSUME NEW m \in Nat, NEW n \in Nat, NEW k \in Nat, m + 1 <= n
                 PROVE  m * k + k <= n * k
      OBVIOUS
    <3>1. n * k = m * k + k + (n - m - 1) * k
      OBVIOUS
    <3>2. (n - m - 1) \in Nat /\ (n - m - 1) * k \in Nat
      OBVIOUS
    <3>3. m * k \in Nat
      OBVIOUS
    <3>4. QED
      BY <3>1, <3>2, <3>3
  <2>2. QED
    BY <1>1, <2>1
<1>3. SlotBase(s) = q * PageSize /\ SlotEnd(s) = q * PageSize + SlotPages * PageSize
  BY DEF SlotBase, SlotEnd
<1>4. q * PageSize \in Nat /\ SlotPages * PageSize \in Nat \ {0}
  <2>1. \A m, n \in Nat : m * n \in Nat
    OBVIOUS
  <2>2. \A m, n \in Nat \ {0} : m * n # 0
    OBVIOUS
  <2>3. QED
    BY <1>1, <2>1, <2>2
<1>5. q * PageSize + SlotPages * PageSize = (q + SlotPages) * PageSize
  BY <1>1
<1> HIDE DEF q
<1>6. ASSUME NEW a \in Addresses(s)
      PROVE  a \in Nat /\ a \div PageSize \in q .. q + SlotPages - 1
  <2>1. a \in q * PageSize .. (q + SlotPages) * PageSize - 1 /\ a \in Nat
    BY <1>3, <1>4, <1>5 DEF Addresses
  <2>2. q + SlotPages \in Nat
    BY <1>1
  <2>3. a \div PageSize \in q .. q + SlotPages - 1
    BY <1>1, <2>1, <2>2, PageOfAddress
  <2>4. QED
    BY <2>1, <2>3
<1>7. q .. q + SlotPages - 1 \subseteq SlotRange
  <2>1. q = SlotsFirst + s * SlotPages /\ SlotsFirst \in Nat
    BY MemoryTypes DEF q
  <2> DEFINE low == s * SlotPages
             high == NumSlots * SlotPages
  <2>2. low \in Nat /\ high \in Nat /\ low + SlotPages <= high
    BY <1>1, <1>2
  <2> HIDE DEF low, high
  <2>3. q .. q + SlotPages - 1 \subseteq SlotsFirst .. SlotsFirst + high - 1
    BY <1>1, <2>1, <2>2 DEF low
  <2>4. QED
    BY <2>3 DEF SlotRange, high
<1>8. QED
  <2>1. SlotBase(s) \in Nat /\ SlotEnd(s) \in Nat /\ SlotBase(s) < SlotEnd(s)
    BY <1>3, <1>4
  <2>2. QED
    BY <1>6, <1>7, <2>1 DEF q

\* An address lies in one slot.
LEMMA SlotsDisjoint ==
    ASSUME NEW s \in Slots, NEW t \in Slots, NEW a \in Addresses(s), a \in Addresses(t)
    PROVE  s = t
<1>1. /\ s \in Nat /\ t \in Nat /\ SlotPages \in Nat \ {0} /\ SlotsFirst \in Nat
      /\ s * SlotPages \in Nat /\ t * SlotPages \in Nat
  BY MemoryTypes DEF Slots
<1>2. \A m, n \in Nat : m < n => m * SlotPages + SlotPages <= n * SlotPages
  <2> SUFFICES ASSUME NEW m \in Nat, NEW n \in Nat, m < n
               PROVE  m * SlotPages + SlotPages <= n * SlotPages
    OBVIOUS
  <2>1. n * SlotPages = m * SlotPages + SlotPages + (n - m - 1) * SlotPages
    BY <1>1
  <2>2. n - m - 1 \in Nat /\ (n - m - 1) * SlotPages \in Nat /\ m * SlotPages \in Nat
    BY <1>1
  <2>3. QED
    BY <1>1, <2>1, <2>2
<1>3. /\ a \div PageSize \in SlotsFirst + s * SlotPages .. SlotsFirst + s * SlotPages + SlotPages - 1
      /\ a \div PageSize \in SlotsFirst + t * SlotPages .. SlotsFirst + t * SlotPages + SlotPages - 1
  BY SlotAddresses
<1>4. s < t => s * SlotPages + SlotPages <= t * SlotPages
  BY <1>1, <1>2
<1>5. t < s => t * SlotPages + SlotPages <= s * SlotPages
  BY <1>1, <1>2
<1>6. ~(s < t) /\ ~(t < s)
  BY <1>1, <1>3, <1>4, <1>5
<1>7. QED
  BY <1>1, <1>6

\* Programs' pages are mapped, each to a frame of its own.
Mapped ==
    /\ mapping \in [DOMAIN mapping -> Frames]
    /\ SlotRange \subseteq DOMAIN mapping
    /\ \A p, q \in DOMAIN mapping : p # q => mapping[p] # mapping[q]

LEMMA CellAtProperties ==
    ASSUME Mapped, NEW a \in Nat, a \div PageSize \in DOMAIN mapping
    PROVE  /\ CellAt(a) \in Cells
           /\ \A b \in Nat : b \div PageSize \in DOMAIN mapping /\ CellAt(b) = CellAt(a) => b = a
<1>1. a % PageSize \in 0 .. PageSize - 1 /\ a = PageSize * (a \div PageSize) + (a % PageSize)
  BY Division
<1>2. CellAt(a) \in Cells
  BY <1>1 DEF CellAt, Cells, Offsets, Mapped
<1>3. ASSUME NEW b \in Nat, b \div PageSize \in DOMAIN mapping, CellAt(b) = CellAt(a)
      PROVE  b = a
  <2>1. mapping[b \div PageSize] = mapping[a \div PageSize] /\ b % PageSize = a % PageSize
    BY <1>3 DEF CellAt
  <2>2. b \div PageSize = a \div PageSize
    BY <1>3, <2>1 DEF Mapped
  <2>3. b = PageSize * (b \div PageSize) + (b % PageSize)
    BY Division
  <2>4. QED
    BY <1>1, <2>1, <2>2, <2>3
<1>4. QED
  BY <1>2, <1>3

\* A write of n bytes to mapped addresses, and what it makes of memory m: the
\* bytes at the addresses it covers, the rest as it was.
Writable(a, n, bytes) ==
    /\ a \in Nat /\ n \in Int
    /\ DOMAIN bytes = 0 .. n - 1
    /\ \A i \in 0 .. n - 1 : (a + i) \div PageSize \in DOMAIN mapping

IsWrite(m2, m, a, n, bytes) ==
    /\ \A i \in 0 .. n - 1 : m2[CellAt(a + i)] = bytes[i]
    /\ \A c \in Cells : (\A i \in 0 .. n - 1 : c # CellAt(a + i)) => m2[c] = m[c]

LEMMA FilledProperties ==
    ASSUME Mapped, NEW m, NEW a, NEW n, NEW bytes, Writable(a, n, bytes)
    PROVE  IsWrite(Filled(m, a, bytes), m, a, n, bytes)
<1> USE DEF Writable
<1> DEFINE Hit(c) == {i \in DOMAIN bytes :
                         /\ (a + i) \div PageSize \in DOMAIN mapping
                         /\ <<mapping[(a + i) \div PageSize], (a + i) % PageSize>> = c}
<1>1. \A c : Hit(c) = {i \in 0 .. n - 1 : CellAt(a + i) = c}
  BY DEF CellAt
<1>2. Filled(m, a, bytes) = [c \in Cells |-> IF Hit(c) = {} THEN m[c] ELSE bytes[CHOOSE i \in Hit(c) : TRUE]]
  BY DEF Filled
<1> HIDE DEF Hit
<1>3. ASSUME NEW i \in 0 .. n - 1 PROVE Filled(m, a, bytes)[CellAt(a + i)] = bytes[i]
  <2>1. \A j \in 0 .. n - 1 : a + j \in Nat
    OBVIOUS
  <2>2. CellAt(a + i) \in Cells
    BY <2>1, CellAtProperties
  <2>3. ASSUME NEW j \in 0 .. n - 1, CellAt(a + j) = CellAt(a + i) PROVE j = i
    <3>1. a + j = a + i
      BY <2>1, <2>3, CellAtProperties
    <3>2. QED
      BY <3>1
  <2>4. Hit(CellAt(a + i)) = {i}
    BY <1>1, <2>3
  <2>5. (CHOOSE j \in {i} : TRUE) = i
    OBVIOUS
  <2>6. QED
    BY <1>2, <2>2, <2>4, <2>5
<1>4. ASSUME NEW c \in Cells, \A i \in 0 .. n - 1 : c # CellAt(a + i)
      PROVE  Filled(m, a, bytes)[c] = m[c]
  <2>1. Hit(c) = {}
    BY <1>1, <1>4
  <2>2. QED
    BY <1>2, <2>1
<1>5. QED
  BY <1>3, <1>4 DEF IsWrite

-----------------------------------------------------------------------------
(* Loading.                                                                *)

Contents ==
    {Zero, <<"old", 0>>, <<"new", 0>>, <<"beyond", 0>>}
    \cup {<<img.name, k>> : img \in Images, k \in Nat}

LEMMA FilledInContents ==
    ASSUME NEW m \in [Cells -> Contents], NEW a, NEW bytes, \A i \in DOMAIN bytes : bytes[i] \in Contents
    PROVE  Filled(m, a, bytes) \in [Cells -> Contents]
<1> DEFINE Hit(c) == {i \in DOMAIN bytes :
                         /\ (a + i) \div PageSize \in DOMAIN mapping
                         /\ <<mapping[(a + i) \div PageSize], (a + i) % PageSize>> = c}
<1>1. Filled(m, a, bytes) = [c \in Cells |-> IF Hit(c) = {} THEN m[c] ELSE bytes[CHOOSE i \in Hit(c) : TRUE]]
  BY DEF Filled
<1>2. \A c : Hit(c) \subseteq DOMAIN bytes
  OBVIOUS
<1> HIDE DEF Hit
<1>3. \A c : Hit(c) # {} => bytes[CHOOSE i \in Hit(c) : TRUE] \in Contents
  BY <1>2
<1>4. QED
  BY <1>1, <1>3

\* What validate_elf_for_slot has found out about a segment.
Fits(img, i, s) ==
    /\ img.segs[i].vaddr >= SlotBase(s)
    /\ img.segs[i].vaddr + img.segs[i].memsz <= SlotEnd(s)
    /\ img.segs[i].offset + img.segs[i].filesz <= img.len
    /\ img.segs[i].memsz >= img.segs[i].filesz

LEMMA ValidFits ==
    ASSUME NEW s \in Slots, NEW img \in Images, Valid(img, s),
           NEW i \in 1 .. Len(img.segs), img.segs[i].type = LOAD
    PROVE  Fits(img, i, s)
BY DEF Valid, FitsSlot, FitsFile, CheckedAdd, Fits

LEMMA SegmentTypes ==
    ASSUME NEW img \in Images, NEW i \in 1 .. Len(img.segs)
    PROVE  /\ img.segs[i].vaddr \in Nat /\ img.segs[i].memsz \in Nat
           /\ img.segs[i].offset \in Nat /\ img.segs[i].filesz \in Nat
           /\ img.len \in Nat
BY MemoryTypes

Covers(img, i, a) ==
    img.segs[i].type = LOAD /\ a \in img.segs[i].vaddr .. img.segs[i].vaddr + img.segs[i].memsz - 1

\* The byte that segment i has for address a.
ByteAt(img, i, a) ==
    IF a >= img.segs[i].vaddr + img.segs[i].filesz THEN Zero
    ELSE <<img.name, img.segs[i].offset + a - img.segs[i].vaddr>>

LEMMA PlacedInContents ==
    ASSUME NEW m \in [Cells -> Contents], NEW img \in Images, NEW i \in 1 .. Len(img.segs)
    PROVE  Placed(m, img, img.segs[i]) \in [Cells -> Contents]
<1> DEFINE seg  == img.segs[i]
           file == [k \in 0 .. seg.filesz - 1 |-> ByteOf(img, seg.offset + k)]
           zero == Bytes(seg.memsz - seg.filesz, Zero)
<1>1. \A k \in DOMAIN file : file[k] \in Contents
  <2>1. \A k \in 0 .. seg.filesz - 1 : seg.offset + k \in Nat
    BY SegmentTypes
  <2>2. \A n \in Nat : ByteOf(img, n) \in Contents
    BY DEF ByteOf, Contents
  <2>3. QED
    BY <2>1, <2>2
<1>2. \A k \in DOMAIN zero : zero[k] \in Contents
  BY DEF Bytes, Contents
<1>3. Placed(m, img, seg) = Filled(Filled(m, seg.vaddr, file), seg.vaddr + seg.filesz, zero)
  BY DEF Placed
<1> HIDE DEF seg, file, zero
<1>4. Filled(m, seg.vaddr, file) \in [Cells -> Contents]
  BY <1>1, FilledInContents
<1>5. QED
  BY <1>2, <1>3, <1>4, FilledInContents DEF seg

\* A segment that fits changes its own part of the slot.
IsPlaced(m2, m, img, i, s) ==
    /\ \A c \in Cells : (\A a \in Addresses(s) : c # CellAt(a)) => m2[c] = m[c]
    /\ \A a \in Addresses(s) :
          m2[CellAt(a)] = IF Covers(img, i, a) THEN ByteAt(img, i, a) ELSE m[CellAt(a)]

LEMMA PlacedProperties ==
    ASSUME Mapped, NEW m, NEW s \in Slots,
           NEW img \in Images, NEW i \in 1 .. Len(img.segs), img.segs[i].type = LOAD, Fits(img, i, s)
    PROVE  IsPlaced(Placed(m, img, img.segs[i]), m, img, i, s)
<1> DEFINE v    == img.segs[i].vaddr
           ms   == img.segs[i].memsz
           fs   == img.segs[i].filesz
           o    == img.segs[i].offset
           file == [k \in 0 .. fs - 1 |-> ByteOf(img, o + k)]
           zero == Bytes(ms - fs, Zero)
           m1   == Filled(m, v, file)
           m2   == Filled(m1, v + fs, zero)
<1>1. /\ v \in Nat /\ ms \in Nat /\ fs \in Nat /\ o \in Nat /\ img.len \in Nat
      /\ v >= SlotBase(s) /\ v + ms <= SlotEnd(s) /\ o + fs <= img.len /\ ms >= fs
  BY SegmentTypes DEF Fits
<1>2. Placed(m, img, img.segs[i]) = m2
  BY DEF Placed
<1>3. \A a \in Addresses(s) : a \in Nat /\ a \div PageSize \in DOMAIN mapping /\ CellAt(a) \in Cells
  BY SlotAddresses, CellAtProperties DEF Mapped
<1>4. SlotBase(s) \in Nat /\ SlotEnd(s) \in Nat
  BY SlotAddresses
<1>5. \A a : Covers(img, i, a) <=> a \in v .. v + ms - 1
  BY DEF Covers
<1>6. \A a : ByteAt(img, i, a) = IF a >= v + fs THEN Zero ELSE <<img.name, o + a - v>>
  BY DEF ByteAt
<1>7. DOMAIN file = 0 .. fs - 1 /\ \A k \in 0 .. fs - 1 : file[k] = <<img.name, o + k>>
  <2>1. \A k \in 0 .. fs - 1 : o + k < img.len
    BY <1>1
  <2>2. QED
    BY <2>1 DEF ByteOf
<1>8. DOMAIN zero = 0 .. (ms - fs) - 1 /\ \A k \in 0 .. (ms - fs) - 1 : zero[k] = Zero
  BY DEF Bytes
<1> HIDE DEF v, ms, fs, o, file, zero
<1>9. v + fs \in Nat /\ ms - fs \in Nat
  BY <1>1
<1>10. \A k \in 0 .. fs - 1 : v + k \in Addresses(s)
  BY <1>1, <1>4 DEF Addresses
<1>11. \A k \in 0 .. (ms - fs) - 1 : (v + fs) + k \in Addresses(s)
  BY <1>1, <1>4 DEF Addresses
<1>12. /\ \A k \in 0 .. fs - 1 : m1[CellAt(v + k)] = file[k]
       /\ \A c \in Cells : (\A k \in 0 .. fs - 1 : c # CellAt(v + k)) => m1[c] = m[c]
  <2>1. \A k \in 0 .. fs - 1 : (v + k) \div PageSize \in DOMAIN mapping
    BY <1>3, <1>10
  <2>2. Writable(v, fs, file)
    <3>1. v \in Nat /\ fs \in Int
      BY <1>1
    <3>2. QED
      BY <1>7, <2>1, <3>1, ZenonT(30) DEF Writable
  <2>3. IsWrite(m1, m, v, fs, file)
    BY <2>2, FilledProperties, Zenon
  <2>4. QED
    BY <2>3 DEF IsWrite
<1>13. /\ \A k \in 0 .. (ms - fs) - 1 : m2[CellAt((v + fs) + k)] = zero[k]
       /\ \A c \in Cells : (\A k \in 0 .. (ms - fs) - 1 : c # CellAt((v + fs) + k)) => m2[c] = m1[c]
  <2>1. \A k \in 0 .. (ms - fs) - 1 : ((v + fs) + k) \div PageSize \in DOMAIN mapping
    BY <1>3, <1>11
  <2> HIDE DEF m1
  <2>2. Writable(v + fs, ms - fs, zero)
    BY <1>8, <1>9, <2>1 DEF Writable
  <2>3. IsWrite(m2, m1, v + fs, ms - fs, zero)
    BY <2>2, FilledProperties, Zenon
  <2>4. QED
    BY <2>3 DEF IsWrite
<1> HIDE DEF m1, m2
<1>14. ASSUME NEW c \in Cells, \A a \in Addresses(s) : c # CellAt(a) PROVE m2[c] = m[c]
  <2>1. m2[c] = m1[c]
    BY <1>11, <1>13, <1>14
  <2>2. m1[c] = m[c]
    BY <1>10, <1>12, <1>14
  <2>3. QED
    BY <2>1, <2>2
<1>15. ASSUME NEW a \in Addresses(s)
       PROVE  m2[CellAt(a)] = IF Covers(img, i, a) THEN ByteAt(img, i, a) ELSE m[CellAt(a)]
  <2>1. a \in Nat /\ CellAt(a) \in Cells /\ a \div PageSize \in DOMAIN mapping
    BY <1>3
  <2>2. \A b \in Addresses(s) : CellAt(b) = CellAt(a) => b = a
    BY <1>3, <2>1, CellAtProperties
  <2>3. CASE a \in v + fs .. v + ms - 1
    <3>1. PICK k \in 0 .. (ms - fs) - 1 : a = (v + fs) + k
      <4>1. a - (v + fs) \in 0 .. (ms - fs) - 1 /\ a = (v + fs) + (a - (v + fs))
        BY <1>1, <2>1, <2>3
      <4>2. QED
        BY <4>1
    <3>2. m2[CellAt(a)] = Zero
      BY <1>8, <1>13, <3>1
    <3>3. Covers(img, i, a) /\ ByteAt(img, i, a) = Zero
      <4>1. a \in v .. v + ms - 1 /\ a >= v + fs
        BY <1>1, <2>1, <2>3
      <4>2. QED
        BY <1>5, <1>6, <4>1
    <3>4. QED
      BY <3>2, <3>3
  <2>4. CASE a \notin v + fs .. v + ms - 1
    <3>1. \A k \in 0 .. (ms - fs) - 1 : CellAt(a) # CellAt((v + fs) + k)
      <4>1. \A k \in 0 .. (ms - fs) - 1 : (v + fs) + k \in v + fs .. v + ms - 1
        BY <1>1, SMTT(30)
      <4>2. QED
        BY <1>11, <2>2, <2>4, <4>1
    <3>2. m2[CellAt(a)] = m1[CellAt(a)]
      BY <1>13, <2>1, <3>1
    <3>3. CASE a \in v .. v + fs - 1
      <4>1. a - v \in 0 .. fs - 1 /\ a = v + (a - v) /\ o + (a - v) = o + a - v
        BY <1>1, <2>1, <3>3
      <4>2. m1[CellAt(a)] = file[a - v]
        BY <1>12, <4>1
      <4>3. file[a - v] = <<img.name, o + a - v>>
        BY <1>7, <4>1
      <4>4. Covers(img, i, a) /\ ByteAt(img, i, a) = <<img.name, o + a - v>>
        <5>1. a \in v .. v + ms - 1 /\ ~(a >= v + fs)
          BY <1>1, <2>1, <3>3, SMTT(30)
        <5>2. QED
          BY <1>5, <1>6, <5>1
      <4>5. QED
        BY <3>2, <4>2, <4>3, <4>4
    <3>4. CASE a \notin v .. v + fs - 1
      <4>1. \A k \in 0 .. fs - 1 : CellAt(a) # CellAt(v + k)
        <5>1. \A k \in 0 .. fs - 1 : v + k \in v .. v + fs - 1
          BY <1>1
        <5>2. QED
          BY <1>10, <2>2, <3>4, <5>1
      <4>2. m1[CellAt(a)] = m[CellAt(a)]
        BY <1>12, <2>1, <4>1
      <4>3. ~Covers(img, i, a)
        <5>1. a \notin v .. v + ms - 1
          BY <1>1, <2>1, <2>4, <3>4
        <5>2. QED
          BY <1>5, <5>1
      <4>4. QED
        BY <3>2, <4>2, <4>3
    <3>5. QED
      BY <3>3, <3>4
  <2>5. QED
    BY <2>3, <2>4
<1>16. QED
  BY <1>2, <1>14, <1>15 DEF IsPlaced

\* Clearing, and a program's writing, of the whole slot.
LEMMA SlotFilled ==
    ASSUME Mapped, NEW s \in Slots, NEW value
    PROVE  LET m == Filled(mem, SlotBase(s), Bytes(SlotEnd(s) - SlotBase(s), value)) IN
           /\ \A c \in Cells : (\A a \in Addresses(s) : c # CellAt(a)) => m[c] = mem[c]
           /\ \A a \in Addresses(s) : m[CellAt(a)] = value
<1> DEFINE b     == SlotBase(s)
           n     == SlotEnd(s) - SlotBase(s)
           bytes == Bytes(n, value)
           m     == Filled(mem, b, bytes)
<1>1. b \in Nat /\ n \in Nat /\ SlotEnd(s) = b + n
  BY SlotAddresses
<1>2. DOMAIN bytes = 0 .. n - 1 /\ \A k \in 0 .. n - 1 : bytes[k] = value
  BY DEF Bytes
<1>3. \A a : a \in Addresses(s) <=> a \in b .. b + n - 1
  BY <1>1 DEF Addresses
<1> HIDE DEF b, n, bytes
<1>4. \A k \in 0 .. n - 1 : b + k \in Addresses(s)
  BY <1>1, <1>3
<1>5. \A k \in 0 .. n - 1 : (b + k) \div PageSize \in DOMAIN mapping
  BY <1>4, SlotAddresses DEF Mapped
<1>6. /\ \A k \in 0 .. n - 1 : m[CellAt(b + k)] = bytes[k]
      /\ \A c \in Cells : (\A k \in 0 .. n - 1 : c # CellAt(b + k)) => m[c] = mem[c]
  <2>1. Writable(b, n, bytes)
    <3>1. b \in Nat /\ n \in Int
      BY <1>1
    <3>2. QED
      BY <1>2, <1>5, <3>1, Zenon DEF Writable
  <2>2. IsWrite(m, mem, b, n, bytes)
    BY <2>1, FilledProperties, Zenon
  <2>3. QED
    BY <2>2 DEF IsWrite
<1> HIDE DEF m
<1>7. ASSUME NEW a \in Addresses(s) PROVE m[CellAt(a)] = value
  <2>1. a - b \in 0 .. n - 1 /\ a = b + (a - b)
    BY <1>1, <1>3
  <2>2. QED
    BY <1>2, <1>6, <2>1
<1>8. \A c \in Cells : (\A a \in Addresses(s) : c # CellAt(a)) => m[c] = mem[c]
  BY <1>4, <1>6
<1>9. QED
  BY <1>7, <1>8 DEF m, bytes, n, b
\* What memory m holds at address a of a slot, and elsewhere, when the first n
\* program headers are done.
Last(img, n, i, a) == Covers(img, i, a) /\ \A j \in 1 .. n : Covers(img, j, a) => j <= i

HoldsUpTo(m, img, n, a) ==
    \/ (\A i \in 1 .. n : ~Covers(img, i, a)) /\ m[CellAt(a)] = Zero
    \/ \E i \in 1 .. n : Last(img, n, i, a) /\ m[CellAt(a)] = ByteAt(img, i, a)

LoadedUpTo(m, img, s, n) ==
    /\ m \in [Cells -> Contents]
    /\ \A c \in Cells : (\A a \in Addresses(s) : c # CellAt(a)) => m[c] = mem[c]
    /\ \A a \in Addresses(s) : HoldsUpTo(m, img, n, a)

LoadNext(m, img, i) == IF img.segs[i].type = LOAD THEN Placed(m, img, img.segs[i]) ELSE m

LEMMA LoadStart ==
    ASSUME Mapped, mem \in [Cells -> Contents], NEW s \in Slots, NEW img \in Images
    PROVE  LoadedUpTo(Cleared(s), img, s, 0)
<1> DEFINE b == Bytes(SlotEnd(s) - SlotBase(s), Zero)
<1>1. Cleared(s) = Filled(mem, SlotBase(s), b)
  BY DEF Cleared
<1>2. \A i \in DOMAIN b : b[i] \in Contents
  BY DEF Bytes, Contents
<1>3. /\ \A c \in Cells : (\A a \in Addresses(s) : c # CellAt(a)) => Cleared(s)[c] = mem[c]
      /\ \A a \in Addresses(s) : Cleared(s)[CellAt(a)] = Zero
  BY <1>1, SlotFilled
<1> HIDE DEF b
<1>4. Cleared(s) \in [Cells -> Contents]
  BY <1>1, <1>2, FilledInContents
<1>5. \A a \in Addresses(s) : HoldsUpTo(Cleared(s), img, 0, a)
  BY <1>3 DEF HoldsUpTo
<1>6. QED
  BY <1>3, <1>4, <1>5 DEF LoadedUpTo

LEMMA LoadStep ==
    ASSUME Mapped, NEW s \in Slots, NEW img \in Images, Valid(img, s),
           NEW n \in 0 .. Len(img.segs) - 1, NEW m, LoadedUpTo(m, img, s, n)
    PROVE  LoadedUpTo(LoadNext(m, img, n + 1), img, s, n + 1)
<1> DEFINE m2 == LoadNext(m, img, n + 1)
<1>1. n + 1 \in 1 .. Len(img.segs) /\ n \in Nat
  BY MemoryTypes
<1>2. m \in [Cells -> Contents] /\ \A a \in Addresses(s) : HoldsUpTo(m, img, n, a)
  BY DEF LoadedUpTo
<1>3. m2 \in [Cells -> Contents]
  BY <1>1, <1>2, PlacedInContents DEF LoadNext
<1>4. IsPlaced(m2, m, img, n + 1, s)
  <2>1. CASE img.segs[n + 1].type = LOAD
    <3>1. Fits(img, n + 1, s)
      BY <1>1, <2>1, ValidFits
    <3>2. m2 = Placed(m, img, img.segs[n + 1])
      BY <2>1 DEF LoadNext
    <3>3. QED
      BY <1>1, <2>1, <3>1, <3>2, PlacedProperties, Zenon
  <2>2. CASE img.segs[n + 1].type # LOAD
    BY <2>2 DEF LoadNext, Covers, IsPlaced
  <2>3. QED
    BY <2>1, <2>2
<1> HIDE DEF m2
<1>5. ASSUME NEW a \in Addresses(s) PROVE HoldsUpTo(m2, img, n + 1, a)
  <2>1. \A i \in 1 .. n + 1 : i \in 1 .. n \/ i = n + 1
    BY <1>1
  <2>2. n + 1 \in 1 .. n + 1 /\ \A i \in 1 .. n : i \in 1 .. n + 1 /\ i <= n + 1
    BY <1>1
  <2>3. CASE Covers(img, n + 1, a)
    <3>1. Last(img, n + 1, n + 1, a)
      BY <2>1, <2>2, <2>3 DEF Last
    <3>2. m2[CellAt(a)] = ByteAt(img, n + 1, a)
      BY <1>4, <2>3 DEF IsPlaced
    <3>3. QED
      BY <2>2, <3>1, <3>2 DEF HoldsUpTo
  <2>4. CASE ~Covers(img, n + 1, a)
    <3>1. m2[CellAt(a)] = m[CellAt(a)]
      BY <1>4, <2>4 DEF IsPlaced
    <3>2. HoldsUpTo(m, img, n, a)
      BY <1>2
    <3>3. CASE (\A i \in 1 .. n : ~Covers(img, i, a)) /\ m[CellAt(a)] = Zero
      BY <2>1, <2>4, <3>1, <3>3 DEF HoldsUpTo
    <3>4. ASSUME NEW i \in 1 .. n, Last(img, n, i, a), m[CellAt(a)] = ByteAt(img, i, a)
          PROVE  HoldsUpTo(m2, img, n + 1, a)
      <4>1. Last(img, n + 1, i, a)
        BY <2>1, <2>4, <3>4 DEF Last
      <4>2. QED
        BY <2>2, <3>1, <3>4, <4>1 DEF HoldsUpTo
    <3>5. QED
      BY <3>2, <3>3, <3>4 DEF HoldsUpTo
  <2>5. QED
    BY <2>3, <2>4
<1>6. \A c \in Cells : (\A a \in Addresses(s) : c # CellAt(a)) => m2[c] = mem[c]
  BY <1>4 DEF LoadedUpTo, IsPlaced
<1>7. QED
  BY <1>3, <1>5, <1>6 DEF LoadedUpTo, m2

LEMMA LoadedProperties ==
    ASSUME Mapped, mem \in [Cells -> Contents], NEW s \in Slots, NEW img \in Images, Valid(img, s)
    PROVE  LoadedUpTo(Loaded(img, s), img, s, Len(img.segs))
<1> DEFINE N == Len(img.segs)
           D == [Cells -> Contents]
           after == CHOOSE f : f = [n \in 0 .. N |->
                IF n = 0 THEN Cleared(s)
                ELSE IF img.segs[n].type = LOAD THEN Placed(f[n - 1], img, img.segs[n])
                ELSE f[n - 1]]
           step == [x \in (1 .. N) \X D |-> LoadNext(x[2], img, x[1])]
<1>1. N \in Nat /\ \A n \in 0 .. N : n # 0 => n \in 1 .. N
  BY MemoryTypes
<1>2. Cleared(s) \in D /\ LoadedUpTo(Cleared(s), img, s, 0)
  BY LoadStart DEF LoadedUpTo
<1>3. step \in Steps(N, D)
  <2>1. ASSUME NEW n \in 1 .. N, NEW m \in D PROVE LoadNext(m, img, n) \in D
    BY PlacedInContents DEF LoadNext
  <2>2. QED
    BY <2>1 DEF Steps
<1>4. Loaded(img, s) = after[N]
  BY DEF Loaded
<1> HIDE DEF N, D
<1>5. PICK f : Recurs(f, N, D, Cleared(s), step)
  <2> HIDE DEF step
  <2>1. QED
    BY <1>1, <1>2, <1>3, Recursion
<1>6. /\ f \in [0 .. N -> D] /\ f[0] = Cleared(s)
      /\ \A n \in 1 .. N : f[n] = step[<<n, f[n - 1]>>]
  BY <1>5 DEF Recurs
<1>7. \A n \in 1 .. N : f[n] = LoadNext(f[n - 1], img, n)
  <2>1. \A n \in 1 .. N : n - 1 \in 0 .. N
    BY <1>1
  <2>2. \A n \in 1 .. N : <<n, f[n - 1]>> \in (1 .. N) \X D
    BY <1>6, <2>1
  <2>3. QED
    BY <1>6, <2>2
<1>8. f = [n \in 0 .. N |-> IF n = 0 THEN Cleared(s) ELSE LoadNext(f[n - 1], img, n)]
  <2> HIDE DEF step
  <2>1. \A n \in 0 .. N : f[n] = IF n = 0 THEN Cleared(s) ELSE LoadNext(f[n - 1], img, n)
    BY <1>1, <1>6, <1>7
  <2>2. QED
    BY <1>6, <2>1
<1>9. after = [n \in 0 .. N |-> IF n = 0 THEN Cleared(s) ELSE LoadNext(after[n - 1], img, n)]
  BY <1>8, Zenon DEF LoadNext
<1> HIDE DEF after, step
<1>10. after[0] = Cleared(s) /\ \A n \in 1 .. N : after[n] = LoadNext(after[n - 1], img, n)
  <2>1. 0 \in 0 .. N /\ \A n \in 1 .. N : n \in 0 .. N /\ n # 0
    BY <1>1
  <2>2. QED
    BY <1>9, <2>1, Zenon
<1> DEFINE S == {n \in Nat : LoadedUpTo(after[n], img, s, n)}
<1>11. 0 \in S
  BY <1>2, <1>10
<1>12. ASSUME NEW n \in 0 .. N - 1, n \in S PROVE n + 1 \in S
  <2>1. n + 1 \in 1 .. N /\ n + 1 \in Nat /\ (n + 1) - 1 = n
    BY <1>1
  <2>2. after[n + 1] = LoadNext(after[n], img, n + 1)
    BY <1>10, <2>1
  <2>3. LoadedUpTo(after[n + 1], img, s, n + 1)
    BY <1>12, <2>2, LoadStep DEF N
  <2>4. QED
    BY <2>1, <2>3
<1> HIDE DEF S
<1>13. \A n \in 0 .. N : n \in S
  BY <1>1, <1>11, <1>12, BoundedInduction
<1>14. QED
  BY <1>1, <1>4, <1>13 DEF N, S

\* The slot then holds what SlotHoldsImage asks for.
LEMMA LoadedIsExpected ==
    ASSUME NEW s \in Slots, NEW img \in Images, NEW m, LoadedUpTo(m, img, s, Len(img.segs)),
           NEW a \in Addresses(s)
    PROVE  m[CellAt(a)] = Expected(img, a)
<1> DEFINE N    == Len(img.segs)
           over == {i \in 1 .. N : /\ img.segs[i].type = LOAD
                                   /\ a \in img.segs[i].vaddr .. img.segs[i].vaddr + img.segs[i].memsz - 1}
           top  == CHOOSE i \in over : \A j \in over : j <= i
<1>1. over = {i \in 1 .. N : Covers(img, i, a)}
  BY DEF Covers
<1>2. Expected(img, a) = IF over = {} THEN Zero ELSE ByteAt(img, top, a)
  <2> DEFINE seg  == img.segs[top]
             late == a >= seg.vaddr + seg.filesz
             byte == <<img.name, seg.offset + a - seg.vaddr>>
  <2>1. Expected(img, a) = IF over = {} \/ late THEN Zero ELSE byte
    BY Zenon DEF Expected
  <2>2. ByteAt(img, top, a) = IF late THEN Zero ELSE byte
    BY Zenon DEF ByteAt
  <2> HIDE DEF over, top, seg, late, byte
  <2>3. QED
    BY <2>1, <2>2
<1>3. HoldsUpTo(m, img, N, a)
  BY DEF LoadedUpTo
<1> HIDE DEF over
<1>4. CASE (\A i \in 1 .. N : ~Covers(img, i, a)) /\ m[CellAt(a)] = Zero
  BY <1>1, <1>2, <1>4
<1>5. ASSUME NEW i \in 1 .. N, Last(img, N, i, a), m[CellAt(a)] = ByteAt(img, i, a)
      PROVE  m[CellAt(a)] = Expected(img, a)
  <2>1. i \in over /\ \A j \in over : j <= i
    BY <1>1, <1>5 DEF Last
  <2>2. top \in over /\ \A j \in over : j <= top
    BY <2>1
  <2>3. \A j \in over : j \in Int
    BY <1>1
  <2> HIDE DEF top
  <2>4. top = i
    BY <2>1, <2>2, <2>3
  <2>5. QED
    BY <1>2, <1>5, <2>1, <2>4
<1>6. QED
  BY <1>3, <1>4, <1>5 DEF HoldsUpTo
-----------------------------------------------------------------------------
(* The invariant.                                                          *)

Held == {NotLoaded} \cup [some : {TRUE}, img : Images, running : BOOLEAN, clean : BOOLEAN]

MemoryInv ==
    /\ BootInv
    /\ mem \in [Cells -> Contents]
    /\ held \in [Slots -> Held]
    /\ phase # "running" => \A s \in Slots : ~held[s].some
    /\ SlotHoldsImage

LEMMA BootMapped ==
    ASSUME BootInv, phase = "running"
    PROVE  Mapped
BY DEF BootInv, Progress, Mapped, FramesDistinct

\* The other slots don't notice what is done to one.
LEMMA OtherSlots ==
    ASSUME Mapped, NEW s \in Slots, NEW t \in Slots, t # s, NEW m,
           \A c \in Cells : (\A a \in Addresses(s) : c # CellAt(a)) => m[c] = mem[c],
           NEW a \in Addresses(t)
    PROVE  m[CellAt(a)] = mem[CellAt(a)]
<1>1. \A r \in Slots : \A b \in Addresses(r) : b \in Nat /\ b \div PageSize \in DOMAIN mapping
  BY SlotAddresses DEF Mapped
<1>2. CellAt(a) \in Cells
  BY <1>1, CellAtProperties
<1>3. \A b \in Addresses(s) : CellAt(b) = CellAt(a) => b = a
  BY <1>1, CellAtProperties
<1>4. a \notin Addresses(s)
  BY SlotsDisjoint
<1>5. QED
  BY <1>2, <1>3, <1>4

LEMMA MemoryInit == Init => MemoryInv
<1> SUFFICES ASSUME Init PROVE MemoryInv
  OBVIOUS
<1>1. /\ phase = "heap" /\ mem = [c \in Cells |-> <<"old", 0>>]
      /\ held = [s \in Slots |-> NotLoaded]
  BY DEF Init
<1>2. mem \in [Cells -> Contents]
  BY <1>1 DEF Contents
<1>3. held \in [Slots -> Held] /\ \A s \in Slots : ~held[s].some
  BY <1>1 DEF Held, NotLoaded
<1>4. SlotHoldsImage
  BY <1>1 DEF SlotHoldsImage
<1>5. QED
  BY <1>2, <1>3, <1>4, BootInit DEF MemoryInv

LEMMA MapHeapStep ==
    ASSUME BootInv, MapHeap
    PROVE  BootInv' /\ phase' # "running"
<1>1. /\ phase = "heap" /\ memory_map' = memory_map /\ memory_map \in MemoryMaps /\ next \in Nat
      /\ mapping \in [DOMAIN mapping -> Frames] /\ FramesDistinct
  BY DEF MapHeap, BootInv
<1>2. CASE Panic
  <2>1. UNCHANGED <<memory_map, next, mapping, tables>> /\ phase' = "panicked"
    BY <1>1, <1>2 DEF Panic
  <2>2. FramesDistinct'
    BY <1>1, <2>1, FramesDistinctUnchanged
  <2>3. Progress'
    BY <2>1 DEF Progress
  <2>4. QED
    BY <1>1, <2>1, <2>2, <2>3 DEF BootInv
<1>3. CASE /\ MapPage(page)
           /\ IF page + 1 \in HeapRange
              THEN page' = page + 1 /\ UNCHANGED phase
              ELSE page' = SlotsFirst /\ phase' = "slots"
  <2>1. /\ next' \in Nat /\ mapping' \in [DOMAIN mapping' -> Frames] /\ FramesDistinct'
    BY <1>1, <1>3, MapPageProperties
  <2>2. Progress'
    <3>1. SlotsFirst .. SlotsFirst - 1 = {}
      BY MemoryTypes
    <3>2. CASE page + 1 \in HeapRange
      BY <1>1, <1>3, <3>2 DEF Progress
    <3>3. CASE page + 1 \notin HeapRange
      BY <1>3, <3>1, <3>3, RangeFacts DEF Progress
    <3>4. QED
      BY <3>2, <3>3
  <2>3. phase' # "running"
    BY <1>1, <1>3
  <2>4. QED
    BY <1>1, <2>1, <2>2, <2>3 DEF BootInv
<1>4. QED
  BY <1>2, <1>3 DEF MapHeap

LEMMA MapSlotStep ==
    ASSUME BootInv, MapSlot
    PROVE  BootInv'
<1>1. /\ phase = "slots" /\ memory_map' = memory_map /\ memory_map \in MemoryMaps /\ next \in Nat
      /\ mapping \in [DOMAIN mapping -> Frames] /\ FramesDistinct
      /\ page \in SlotRange /\ SlotsFirst .. page - 1 \subseteq DOMAIN mapping
  BY DEF MapSlot, BootInv, Progress
<1>2. CASE Panic
  <2>1. UNCHANGED <<memory_map, next, mapping, tables>> /\ phase' = "panicked"
    BY <1>1, <1>2 DEF Panic
  <2>2. FramesDistinct'
    BY <1>1, <2>1, FramesDistinctUnchanged
  <2>3. Progress'
    BY <2>1 DEF Progress
  <2>4. QED
    BY <1>1, <2>1, <2>2, <2>3 DEF BootInv
<1>3. CASE /\ IF page \in DOMAIN mapping THEN UNCHANGED <<next, mapping, tables>> ELSE MapPage(page)
           /\ page' = page + 1
           /\ phase' = IF page + 1 \in SlotRange THEN phase ELSE "running"
  <2>1. /\ next' \in Nat /\ mapping' \in [DOMAIN mapping' -> Frames] /\ FramesDistinct'
        /\ DOMAIN mapping \subseteq DOMAIN mapping' /\ page \in DOMAIN mapping'
    <3>1. CASE page \in DOMAIN mapping
      <4>1. UNCHANGED <<memory_map, next, mapping, tables>>
        BY <1>1, <1>3, <3>1
      <4>2. FramesDistinct'
        BY <1>1, <4>1, FramesDistinctUnchanged
      <4>3. QED
        BY <1>1, <3>1, <4>1, <4>2
    <3>2. CASE page \notin DOMAIN mapping
      <4>1. MapPage(page)
        BY <1>3, <3>2
      <4>2. /\ next' \in Nat /\ DOMAIN mapping' = DOMAIN mapping \cup {page}
            /\ mapping' \in [DOMAIN mapping' -> Frames] /\ FramesDistinct'
        BY <1>1, <4>1, MapPageProperties
      <4>3. QED
        BY <4>2
    <3>3. QED
      BY <3>1, <3>2
  <2>2. SlotsFirst .. page \subseteq DOMAIN mapping'
    <3>1. \A p \in SlotsFirst .. page : p \in SlotsFirst .. page - 1 \/ p = page
      BY <1>1, RangeFacts, MemoryTypes, SMTT(30)
    <3>2. QED
      BY <1>1, <2>1, <3>1
  <2>3. (page + 1) - 1 = page /\ page + 1 \in Nat
    BY <1>1, RangeFacts
  <2>4. Progress'
    <3>1. CASE page + 1 \in SlotRange
      BY <1>1, <1>3, <2>2, <2>3, <3>1 DEF Progress
    <3>2. CASE page + 1 \notin SlotRange
      <4>1. SlotRange = SlotsFirst .. page
        BY <1>1, <3>2, RangeFacts
      <4>2. QED
        BY <1>3, <2>2, <3>2, <4>1 DEF Progress
    <3>3. QED
      BY <3>1, <3>2
  <2>5. QED
    BY <1>1, <2>1, <2>4 DEF BootInv
<1>4. QED
  BY <1>2, <1>3 DEF MapSlot

\* Programs and the loader leave alone what boot has set up.
LEMMA BootUnchanged ==
    ASSUME BootInv, UNCHANGED bootVars
    PROVE  BootInv'
<1>1. UNCHANGED <<memory_map, next, mapping, tables>> /\ page' = page /\ phase' = phase
  BY DEF bootVars
<1>2. FramesDistinct'
  BY <1>1, FramesDistinctUnchanged DEF BootInv
<1>3. Progress'
  BY <1>1 DEF BootInv, Progress
<1>4. QED
  BY <1>1, <1>2, <1>3 DEF BootInv
\* What a step of the loader changes lies in the slot it names.
Stays ==
    /\ phase' # "fault"
    /\ \A c \in Cells : mem'[c] # mem[c] /\ held'[last'].clean =>
          \E a \in SlotBase(last') .. SlotEnd(last') - 1 : c = CellAt(a)

\* One slot gets a new content, and the images of all others still stand.
LEMMA SlotHoldsImageKept ==
    ASSUME Mapped, SlotHoldsImage, phase = "running", mapping' = mapping, NEW s \in Slots,
           \A c \in Cells : (\A a \in Addresses(s) : c # CellAt(a)) => mem'[c] = mem[c],
           \A t \in Slots : t # s => held'[t] = held[t],
           held'[s].some /\ held'[s].clean =>
               \A a \in Addresses(s) : mem'[CellAt(a)] = Expected(held'[s].img, a)
    PROVE  SlotHoldsImage'
<1>1. ASSUME NEW t \in Slots, held'[t].some /\ held'[t].clean, NEW a \in Addresses(t)
      PROVE  mem'[CellAt(a)] = Expected(held'[t].img, a)
  <2>1. CASE t = s
    BY <1>1, <2>1
  <2>2. CASE t # s
    <3>1. mem'[CellAt(a)] = mem[CellAt(a)]
      BY <2>2, OtherSlots
    <3>2. mem[CellAt(a)] = Expected(held[t].img, a)
      BY <1>1, <2>2 DEF SlotHoldsImage, Addresses
    <3>3. QED
      BY <2>2, <3>1, <3>2
  <2>3. QED
    BY <2>1, <2>2
<1>2. \A a : CellAt(a)' = CellAt(a)
  BY DEF CellAt
<1>3. QED
  BY <1>1, <1>2 DEF SlotHoldsImage, Addresses

LEMMA ExecStep ==
    ASSUME MemoryInv, NEW s \in Slots, NEW img \in Images, Exec(s, img)
    PROVE  MemoryInv' /\ Stays
<1>1. /\ phase = "running" /\ last' = s
      /\ UNCHANGED <<memory_map, next, mapping, tables, page>>
  BY DEF Exec
<1>2. /\ BootInv /\ mem \in [Cells -> Contents] /\ held \in [Slots -> Held] /\ SlotHoldsImage
  BY DEF MemoryInv
<1>3. Mapped
  BY <1>1, <1>2, BootMapped
<1>4. CASE Valid(img, s)
  <2> DEFINE new == [some |-> TRUE, img |-> img, running |-> img.entry # 0, clean |-> TRUE]
  <2>1. mem' = Loaded(img, s) /\ held' = [held EXCEPT ![s] = new]
    BY <1>4 DEF Exec
  <2>2. LoadedUpTo(mem', img, s, Len(img.segs))
    BY <1>2, <1>3, <1>4, <2>1, LoadedProperties
  <2>3. /\ mem' \in [Cells -> Contents]
        /\ \A c \in Cells : (\A a \in Addresses(s) : c # CellAt(a)) => mem'[c] = mem[c]
    BY <2>2 DEF LoadedUpTo
  <2>4. phase' = phase
    <3>1. \A a \in Addresses(s) : a \div PageSize \in DOMAIN mapping
      BY <1>3, SlotAddresses DEF Mapped
    <3>2. IsMapped(SlotBase(s), SlotEnd(s) - SlotBase(s))
      <4>1. \A i \in 0 .. (SlotEnd(s) - SlotBase(s)) - 1 : SlotBase(s) + i \in Addresses(s)
        BY SlotAddresses DEF Addresses
      <4>2. QED
        BY <3>1, <4>1 DEF IsMapped
    <3>3. ASSUME NEW i \in 1 .. Len(img.segs), img.segs[i].type = LOAD
          PROVE  IsMapped(img.segs[i].vaddr, img.segs[i].memsz)
      <4>1. Fits(img, i, s)
        BY <1>4, <3>3, ValidFits
      <4>2. \A k \in 0 .. img.segs[i].memsz - 1 : img.segs[i].vaddr + k \in Addresses(s)
        <5> DEFINE v  == img.segs[i].vaddr
                   ms == img.segs[i].memsz
        <5>1. v \in Nat /\ ms \in Nat /\ v >= SlotBase(s) /\ v + ms <= SlotEnd(s)
          BY <4>1, SegmentTypes DEF Fits
        <5>2. SlotBase(s) \in Nat /\ SlotEnd(s) \in Nat
          BY SlotAddresses
        <5> HIDE DEF v, ms
        <5>3. \A k \in 0 .. ms - 1 : v + k \in Addresses(s)
          BY <5>1, <5>2 DEF Addresses
        <5>4. QED
          BY <5>3 DEF v, ms
      <4>3. QED
        BY <3>1, <4>2 DEF IsMapped
    <3>4. QED
      BY <1>4, <3>2, <3>3 DEF Exec
  <2>5. BootInv'
    BY <1>1, <1>2, <2>4, BootUnchanged DEF bootVars
  <2>6. new \in Held
    BY DEF Held
  <2>7. held'[s] = new /\ \A t \in Slots : t # s => held'[t] = held[t]
    BY <1>2, <2>1
  <2>8. held' \in [Slots -> Held]
    BY <1>2, <2>1, <2>6
  <2>9. \A a \in Addresses(s) : mem'[CellAt(a)] = Expected(img, a)
    BY <2>2, LoadedIsExpected
  <2>10. SlotHoldsImage'
    <3>1. held'[s].img = img
      BY <2>7
    <3>2. mapping' = mapping
      BY <1>1
    <3>3. QED
      BY <1>1, <1>2, <1>3, <2>3, <2>7, <2>9, <3>1, <3>2, SlotHoldsImageKept
  <2>11. Stays
    <3>1. phase' # "fault"
      BY <1>1, <2>4
    <3>2. QED
      BY <1>1, <2>3, <3>1 DEF Stays, Addresses
  <2>12. QED
    BY <1>1, <2>3, <2>4, <2>5, <2>8, <2>10, <2>11 DEF MemoryInv
<1>5. CASE ~Valid(img, s)
  <2>1. mem' = mem /\ held' = held /\ phase' = phase
    BY <1>5 DEF Exec
  <2>2. BootInv'
    BY <1>1, <1>2, <2>1, BootUnchanged DEF bootVars
  <2>3. SlotHoldsImage'
    BY <1>1, <1>2, <2>1 DEF SlotHoldsImage, CellAt
  <2>4. Stays
    BY <1>1, <2>1 DEF Stays
  <2>5. QED
    BY <1>1, <1>2, <2>1, <2>2, <2>3, <2>4 DEF MemoryInv
<1>6. QED
  BY <1>4, <1>5

LEMMA StoreStep ==
    ASSUME MemoryInv, NEW s \in Slots, Store(s)
    PROVE  MemoryInv' /\ Stays
<1> DEFINE new == <<"new", 0>>
           b   == Bytes(SlotEnd(s) - SlotBase(s), new)
<1>1. /\ phase = "running" /\ last' = s /\ UNCHANGED bootVars /\ ~Free(s)
      /\ mem' = Filled(mem, SlotBase(s), b)
      /\ held' = [held EXCEPT ![s].clean = FALSE]
  BY DEF Store
<1>2. /\ BootInv /\ mem \in [Cells -> Contents] /\ held \in [Slots -> Held] /\ SlotHoldsImage
  BY DEF MemoryInv
<1>3. Mapped /\ BootInv'
  BY <1>1, <1>2, BootMapped, BootUnchanged
<1>4. phase' = phase /\ mapping' = mapping
  BY <1>1 DEF bootVars
<1>5. /\ \A c \in Cells : (\A a \in Addresses(s) : c # CellAt(a)) => mem'[c] = mem[c]
  BY <1>1, <1>3, SlotFilled
<1>6. mem' \in [Cells -> Contents]
  <2>1. \A i \in DOMAIN b : b[i] \in Contents
    BY DEF Bytes, Contents
  <2> HIDE DEF b
  <2>2. QED
    BY <1>1, <1>2, <2>1, FilledInContents
<1>7. held[s].some /\ held[s] \in [some : {TRUE}, img : Images, running : BOOLEAN, clean : BOOLEAN]
  <2>1. held[s].some
    BY <1>1 DEF Free
  <2>2. held[s] \in Held /\ ~NotLoaded.some
    BY <1>2 DEF NotLoaded
  <2>3. QED
    BY <2>1, <2>2 DEF Held
<1>8. /\ held'[s] = [held[s] EXCEPT !.clean = FALSE]
      /\ \A t \in Slots : t # s => held'[t] = held[t]
      /\ held' \in [Slots -> Held]
  <2>1. [held[s] EXCEPT !.clean = FALSE] \in Held
    BY <1>7 DEF Held
  <2>2. QED
    BY <1>1, <1>2, <2>1
<1>9. ~held'[s].clean
  BY <1>7, <1>8
<1>10. SlotHoldsImage'
  BY <1>1, <1>2, <1>3, <1>4, <1>5, <1>8, <1>9, SlotHoldsImageKept
<1>11. Stays
  BY <1>1, <1>4, <1>9 DEF Stays
<1>12. QED
  BY <1>1, <1>3, <1>4, <1>6, <1>8, <1>10, <1>11 DEF MemoryInv

LEMMA FinishStep ==
    ASSUME MemoryInv, NEW s \in Slots, Finish(s)
    PROVE  MemoryInv' /\ Stays
<1>1. /\ phase = "running" /\ UNCHANGED bootVars /\ mem' = mem /\ ~Free(s)
      /\ held' = [held EXCEPT ![s].running = FALSE]
  BY DEF Finish
<1>2. /\ BootInv /\ mem \in [Cells -> Contents] /\ held \in [Slots -> Held] /\ SlotHoldsImage
  BY DEF MemoryInv
<1>3. BootInv'
  BY <1>1, <1>2, BootUnchanged
<1>4. phase' = phase /\ mapping' = mapping
  BY <1>1 DEF bootVars
<1>5. held[s].some /\ held[s] \in [some : {TRUE}, img : Images, running : BOOLEAN, clean : BOOLEAN]
  <2>1. held[s].some
    BY <1>1 DEF Free
  <2>2. held[s] \in Held /\ ~NotLoaded.some
    BY <1>2 DEF NotLoaded
  <2>3. QED
    BY <2>1, <2>2 DEF Held
<1>6. /\ held'[s] = [held[s] EXCEPT !.running = FALSE]
      /\ \A t \in Slots : t # s => held'[t] = held[t]
      /\ held' \in [Slots -> Held]
  <2>1. [held[s] EXCEPT !.running = FALSE] \in Held
    BY <1>5 DEF Held
  <2>2. QED
    BY <1>1, <1>2, <2>1
<1>7. \A t \in Slots : held'[t].some = held[t].some /\ held'[t].clean = held[t].clean /\ held'[t].img = held[t].img
  BY <1>5, <1>6
<1>8. SlotHoldsImage'
  <2>1. \A t \in Slots : held[t].some /\ held[t].clean =>
           \A a \in Addresses(t) : mem[CellAt(a)] = Expected(held[t].img, a)
    BY <1>1, <1>2 DEF SlotHoldsImage, Addresses
  <2>2. \A a : CellAt(a)' = CellAt(a)
    BY <1>4 DEF CellAt
  <2>3. QED
    BY <1>1, <1>7, <2>1, <2>2 DEF SlotHoldsImage, Addresses
<1>9. Stays
  BY <1>1, <1>4 DEF Stays
<1>10. QED
  BY <1>1, <1>2, <1>3, <1>4, <1>6, <1>8, <1>9 DEF MemoryInv

LEMMA MemoryStep ==
    ASSUME MemoryInv, [Next]_memoryVars
    PROVE  MemoryInv' /\ (Stays \/ UNCHANGED memoryVars)
<1>1. /\ BootInv /\ mem \in [Cells -> Contents] /\ held \in [Slots -> Held] /\ SlotHoldsImage
      /\ phase # "running" => \A s \in Slots : ~held[s].some
  BY DEF MemoryInv
<1>2. CASE MapHeap
  <2>1. BootInv' /\ phase' # "running"
    BY <1>1, <1>2, MapHeapStep
  <2>2. mem' = mem /\ held' = held /\ phase = "heap"
    BY <1>2 DEF MapHeap
  <2>3. phase' # "fault"
    BY <2>1 DEF BootInv, Progress
  <2>4. SlotHoldsImage'
    BY <2>1 DEF SlotHoldsImage
  <2>5. QED
    BY <1>1, <2>1, <2>2, <2>3, <2>4 DEF MemoryInv, Stays
<1>3. CASE MapSlot
  <2>1. BootInv'
    BY <1>1, <1>3, MapSlotStep
  <2>2. mem' = mem /\ held' = held /\ phase = "slots"
    BY <1>3 DEF MapSlot
  <2>3. \A s \in Slots : ~held'[s].some
    BY <1>1, <2>2
  <2>4. phase' # "fault"
    BY <2>1 DEF BootInv, Progress
  <2>5. SlotHoldsImage'
    BY <2>3 DEF SlotHoldsImage
  <2>6. QED
    BY <1>1, <2>1, <2>2, <2>3, <2>4, <2>5 DEF MemoryInv, Stays
<1>4. CASE \E s \in Slots, img \in Images : Exec(s, img)
  BY <1>4, ExecStep
<1>5. CASE \E s \in Slots : Store(s) \/ Finish(s)
  BY <1>5, StoreStep, FinishStep
<1>6. CASE UNCHANGED memoryVars
  <2>1. UNCHANGED bootVars /\ mem' = mem /\ held' = held /\ phase' = phase /\ mapping' = mapping
    BY <1>6 DEF memoryVars, bootVars
  <2>2. BootInv'
    BY <1>1, <2>1, BootUnchanged
  <2>3. SlotHoldsImage'
    BY <1>1, <2>1 DEF SlotHoldsImage, CellAt
  <2>4. QED
    BY <1>1, <1>6, <2>1, <2>2, <2>3 DEF MemoryInv
<1>7. QED
  BY <1>2, <1>3, <1>4, <1>5, <1>6 DEF Next

-----------------------------------------------------------------------------
(* Theorems.                                                               *)

\* Boot, the loader and the programs keep the invariant.
THEOREM MemoryInvariance == Spec => []MemoryInv
<1>1. MemoryInv /\ [Next]_memoryVars => MemoryInv'
  BY MemoryStep
<1>2. QED
  BY MemoryInit, <1>1, PTL DEF Spec

\* No frame of the machine serves two purposes (memory.rs's allocator, the
\* mapping loops of allocator.rs and process.rs), for every memory map and
\* every mapping that the bootloader may hand over.
THEOREM OneFrameOnePurpose == Spec => []FramesDistinct
<1>1. MemoryInv => FramesDistinct
  BY DEF MemoryInv, BootInv
<1>2. QED
  BY MemoryInvariance, <1>1, PTL

\* A program starts on its own image and on nothing of the one before it
\* (elf_loader.rs's load_segments), whatever its program headers are.
THEOREM ImageInPlace == Spec => []SlotHoldsImage
<1>1. MemoryInv => SlotHoldsImage
  BY DEF MemoryInv
<1>2. QED
  BY MemoryInvariance, <1>1, PTL

\* A load changes its own slot only, and touches none but mapped pages
\* (validate_elf_for_slot and its checked sums).
THEOREM LoadConfined == Spec => LoadStaysInSlot
<1>1. MemoryInv /\ [Next]_memoryVars => [Stays]_memoryVars
  BY MemoryStep
<1>2. QED
  BY MemoryInvariance, <1>1, PTL DEF Spec, LoadStaysInSlot, Stays
=============================================================================
