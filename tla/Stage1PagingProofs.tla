------------------------- MODULE Stage1PagingProofs -------------------------
(***************************************************************************)
(* Proofs about Stage 1 for every table size, memory, boot record and      *)
(* limit: type correctness, the safety of the page allocator, and that     *)
(* Stage 1 implements AddressSpace.                                        *)
(***************************************************************************)
EXTENDS Stage1Paging, SequenceTheorems, TLAPS

USE DEF Levels

(* idxPml4 .. idxPt select an entry of the table.                          *)
LEMMA IdxSlot ==
    ASSUME NEW l \in Levels, NEW v \in Nat
    PROVE  Idx(l, v) \in Slots
<1>1. Radix \in Nat /\ Radix > 1
  BY RadixAssumption
<1>2. Radix * Radix \in Nat /\ Radix * Radix > 0
  BY <1>1
<1>3. Radix * Radix * Radix \in Nat /\ Radix * Radix * Radix > 0
  BY <1>1, <1>2
<1>4. Span[l] \in Nat /\ Span[l] > 0
  BY <1>1, <1>2, <1>3 DEF Span
<1>5. v \div Span[l] \in Nat
  BY <1>4
<1>6. (v \div Span[l]) % Radix \in 0..Radix - 1
  BY <1>1, <1>5
<1> QED
  BY <1>6 DEF Idx, Slots

LEMMA UpperHalfNat == UPPER_HALF \in Nat
<1>1. Radix \in Nat
  BY RadixAssumption
<1>2. Radix * Radix \in Nat
  BY <1>1
<1>3. Radix * Radix * Radix \in Nat
  BY <1>1, <1>2
<1>4. Radix * Radix * Radix * Radix \in Nat
  BY <1>1, <1>3
<1> QED
  BY <1>4 DEF UPPER_HALF

(* The requests map pages to physical pages.                               *)
LEMMA WorkType ==
    ASSUME NEW b \in Boots
    PROVE  Work(b) \in Seq([v : Nat, p : Frames])
<1>1. BootOK(b)
  BY BootsAssumption
<1>2. /\ b.kernelPages \in Nat /\ STACK_PAGES \in Nat
      /\ b.kernelPhys \in Nat /\ b.stackPhys \in Nat
      /\ b.mmapPhys \in Frames /\ LapicPage \in Frames
  BY <1>1, FramesAssumption, LimitsAssumption DEF BootOK
<1>3. [n \in 1..b.kernelPages |-> b.kernelPhys + n - 1] \in Seq(Frames)
  <2>1. \A n \in 1..b.kernelPages : b.kernelPhys + n - 1 \in Frames
    BY <1>1, <1>2 DEF BootOK, KernelSpan, Pages
  <2> QED
    BY <2>1, <1>2
<1>4. [n \in 1..STACK_PAGES |-> b.stackPhys + n - 1] \in Seq(Frames)
  <2>1. \A n \in 1..STACK_PAGES : b.stackPhys + n - 1 \in Frames
    BY <1>1, <1>2 DEF BootOK, StackSpan, Pages
  <2> QED
    BY <2>1, <1>2
<1>5. << b.mmapPhys, LapicPage >> \in Seq(Frames)
  BY <1>2
<1>6. Identity(b) \in Seq(Frames)
  BY <1>3, <1>4, <1>5 DEF Identity
<1> DEFINE ps == Identity(b)
           low == [n \in 1..Len(ps) |-> [v |-> ps[n], p |-> ps[n]]]
           high == [n \in 1..Len(ps) |-> [v |-> ps[n] + UPPER_HALF, p |-> ps[n]]]
<1>7. ps \in Seq(Frames)
  BY <1>6
<1> HIDE DEF ps
<1>8. \A n \in 1..Len(ps) : ps[n] \in Frames
  BY <1>7
<1>9. \A n \in 1..Len(ps) : ps[n] \in Nat /\ ps[n] + UPPER_HALF \in Nat
  <2> TAKE n \in 1..Len(ps)
  <2>1. ps[n] \in Nat
    BY <1>8, FramesAssumption
  <2> QED
    BY <2>1, UpperHalfNat
<1>10. low \in Seq([v : Nat, p : Frames])
  BY <1>7, <1>8, <1>9
<1>11. high \in Seq([v : Nat, p : Frames])
  BY <1>7, <1>8, <1>9
<1>12. Work(b) = low \o high
  BY DEF Work, ps
<1> HIDE DEF low, high
<1> QED
  BY <1>10, <1>11, <1>12

-----------------------------------------------------------------------------
(* What the prover needs to know of a boot record.                         *)
LEMMA BootType ==
    ASSUME NEW b \in Boots
    PROVE  /\ b.kernelPhys \in Nat /\ b.stackPhys \in Nat
           /\ b.mmapPhys \in Frames /\ b.mmapPhys \in Nat
           /\ b.mmapPages \in Nat
           /\ b.descs \in Seq(Descriptors)
           /\ MmapEnd(b) \in Nat
<1>1. BootOK(b)
  BY BootsAssumption
<1>2. /\ b.kernelPhys \in Frames /\ b.stackPhys \in Frames
      /\ b.mmapPhys \in Frames /\ b.mmapPages \in Nat
      /\ b.descs \in Seq(Descriptors)
  BY <1>1 DEF BootOK
<1>3. b.kernelPhys \in Nat /\ b.stackPhys \in Nat /\ b.mmapPhys \in Nat
  BY <1>2, FramesAssumption
<1> QED
  BY <1>2, <1>3 DEF MmapEnd

(* The pool with headroom ends in memory and not before the buffer.        *)
LEMMA HeadroomBound ==
    ASSUME NEW b \in Boots
    PROVE  /\ Headroom(b) \in Nat
           /\ Headroom(b) <= MmapEnd(b) + HeadroomPages
<1> DEFINE candidate == MmapEnd(b) + HeadroomPages
           stops == {p \in {b.kernelPhys, b.stackPhys} :
                        MmapEnd(b) < p /\ p < candidate}
           first == CHOOSE p \in stops : \A q \in stops : p <= q
<1>1. candidate \in Nat
  BY BootType, LimitsAssumption
<1>2. CASE stops = {}
  BY <1>1, <1>2 DEF Headroom
<1>3. CASE stops # {}
  <2>1. \A p \in stops : p \in Nat /\ p <= candidate
    BY <1>1, BootType
  <2>2. \E p \in stops : \A q \in stops : p <= q
    <3>1. CASE b.kernelPhys \in stops /\ b.stackPhys \in stops
      BY <3>1, <2>1
    <3>2. CASE ~(b.kernelPhys \in stops /\ b.stackPhys \in stops)
      BY <3>2, <1>3, <2>1
    <3> QED
      BY <3>1, <3>2
  <2>3. first \in stops
    <3> HIDE DEF stops
    <3> QED
      BY <2>2
  <2>4. Headroom(b) = first
    BY <1>3 DEF Headroom
  <2> HIDE DEF stops, first, candidate
  <2>5. Headroom(b) \in Nat /\ Headroom(b) <= candidate
    BY <2>1, <2>3, <2>4
  <2> QED
    BY <2>5 DEF candidate
<1> QED
  BY <1>2, <1>3

THEOREM InitType == Init => TypeOK /\ Walking
<1> SUFFICES ASSUME Init PROVE TypeOK /\ Walking
  OBVIOUS
<1>1. boot \in Boots
  BY DEF Init
<1>2. Len(Work(boot)) \in Nat /\ Len(boot.descs) \in Nat
  BY <1>1, WorkType, BootType
<1>3. mem \in [Frames -> [Slots -> Entry]]
  BY FramesAssumption DEF Init, Entry, Junk, To
<1>4. /\ mmapAllocEnd \in Nat /\ scratchNext \in Nat
      /\ pml4Phys \in Frames /\ table \in Frames /\ cr3 \in Frames
      /\ got \in Frames /\ old \in Entry
  BY <1>1, BootType, FramesAssumption DEF Init, Entry, Zero
<1>5. ranges = << >> /\ owned = << >> /\ i = 0 /\ k = 0
  BY DEF Init
<1>6. ranges \in Seq([start : Frames, end : Nat]) /\ owned \in Seq(Frames)
  BY <1>5
<1>7. i \in 0..Len(boot.descs) /\ k \in 0..Len(Work(boot))
  BY <1>2, <1>5
<1>8. pc = "enter" /\ lvl = 0 /\ fbIdx = 1 /\ fbNext = 0 /\ code = "none"
  BY DEF Init
<1>9. ControlType
  BY <1>1, <1>8 DEF ControlType
<1>10. ScanType
  BY <1>4, <1>6, <1>7 DEF ScanType
<1>11. PoolType
  BY <1>4, <1>6, <1>8 DEF PoolType
<1>12. TableType
  BY <1>3, <1>4, <1>7 DEF TableType
<1>13. Walking
  BY <1>8 DEF Walking
<1> QED
  BY <1>9, <1>10, <1>11, <1>12, <1>13 DEF TypeOK

-----------------------------------------------------------------------------
(* Memory seen as tables keeps its type.                                   *)
Memories == [Frames -> [Slots -> Entry]]

LEMMA ZeroEntry == Zero \in Entry /\ Junk \in Entry
  BY FramesAssumption DEF Zero, Junk, To, Entry

LEMMA ToEntry == \A p \in Frames : To(p) \in Entry
  BY DEF To, Entry

LEMMA FlipEntry == \A e \in Entry : Flip(e) \in Entry
  BY FramesAssumption DEF Flip, Entry

LEMMA SetEntry ==
    ASSUME NEW m \in Memories, NEW t \in Frames, NEW s \in Slots, NEW e \in Entry
    PROVE  [m EXCEPT ![t][s] = e] \in Memories
  BY DEF Memories

LEMMA ClearPage ==
    ASSUME NEW m \in Memories, NEW p \in Frames
    PROVE  [m EXCEPT ![p] = [s \in Slots |-> Zero]] \in Memories
  BY ZeroEntry DEF Memories

LEMMA FollowEntry ==
    ASSUME NEW m \in Memories, NEW e \in Entry, NEW l \in Levels, NEW v \in Nat
    PROVE  Follow(m, e, l, v) \in Entry
<1>1. Idx(l, v) \in Slots
  BY IdxSlot
<1>2. e.frame \in Frames
  BY DEF Entry
<1>3. m[e.frame][Idx(l, v)] \in Entry
  BY <1>1, <1>2 DEF Memories
<1> QED
  BY <1>3, ZeroEntry DEF Follow

LEMMA WalkEntry ==
    ASSUME NEW m \in Memories, NEW root \in Frames, NEW v \in Nat
    PROVE  Walk(m, root, v) \in Entry
<1>1. Follow(m, To(root), 0, v) \in Entry
  BY ToEntry, FollowEntry
<1>2. Follow(m, Follow(m, To(root), 0, v), 1, v) \in Entry
  BY <1>1, FollowEntry
<1>3. Follow(m, Follow(m, Follow(m, To(root), 0, v), 1, v), 2, v) \in Entry
  BY <1>2, FollowEntry
<1> QED
  BY <1>3, FollowEntry DEF Walk

(* The page the touch test works on, and the word in it.                   *)
LEMMA TouchedType ==
    ASSUME TypeOK
    PROVE  /\ Touched.frame \in Frames /\ 0 \in Slots
           /\ mem[Touched.frame][0] \in Entry
<1>1. mem \in Memories /\ cr3 \in Frames /\ boot \in Boots
  BY DEF TypeOK, TableType, ControlType, Memories
<1>2. boot.mmapPhys + UPPER_HALF \in Nat
  BY <1>1, BootType, UpperHalfNat
<1>3. Touched \in Entry
  BY <1>1, <1>2, WalkEntry DEF Touched
<1>4. 0 \in Slots
  BY RadixAssumption DEF Slots
<1> QED
  BY <1>1, <1>3, <1>4 DEF Entry, Memories

(* The request at hand.                                                    *)
LEMMA RequestType ==
    ASSUME TypeOK, k < Len(Work(boot))
    PROVE  /\ Request.v \in Nat /\ Request.p \in Frames
           /\ \A l \in Levels : Idx(l, Request.v) \in Slots
<1>1. boot \in Boots /\ k \in Nat
  <2>1. Len(Work(boot)) \in Nat
    BY WorkType DEF TypeOK, ControlType
  <2> QED
    BY <2>1 DEF TypeOK, ControlType, TableType
<1>2. Work(boot) \in Seq([v : Nat, p : Frames])
  BY <1>1, WorkType
<1>3. Work(boot)[k + 1] \in [v : Nat, p : Frames]
  <2>1. Len(Work(boot)) \in Nat /\ k + 1 \in 1..Len(Work(boot))
    BY <1>1, <1>2
  <2> QED
    BY <1>2, <2>1, ElementOfSeq
<1> QED
  BY <1>3, IdxSlot DEF Request

(* Cached ranges, and the cursor in them, are in memory.                   *)
LEMMA RangeType ==
    ASSUME TypeOK, RangesRead, NEW n \in DOMAIN ranges
    PROVE  /\ ranges[n].start \in Nat /\ ranges[n].end \in Nat
           /\ RangePages(ranges[n]) \subseteq Frames
<1>1. ranges[n] \in [start : Frames, end : Nat]
  <2>1. ranges \in Seq([start : Frames, end : Nat])
    BY DEF TypeOK, ScanType
  <2> QED
    BY <2>1, ElementOfSeq, LenProperties
<1>2. PICK j \in 1..i : RangePages(ranges[n]) = Pages(boot.descs[j].start, boot.descs[j].pages)
  BY DEF RangesRead
<1>3. boot \in Boots /\ boot.descs \in Seq(Descriptors)
  BY BootType DEF TypeOK, ControlType
<1>4. j \in DOMAIN boot.descs
  BY <1>2, <1>3 DEF TypeOK, ScanType
<1>5. Pages(boot.descs[j].start, boot.descs[j].pages) \subseteq Frames
  BY <1>3, <1>4, BootsAssumption DEF BootOK
<1> QED
  BY <1>1, <1>2, <1>5, FramesAssumption

LEMMA CursorType ==
    ASSUME TypeOK, RangesRead, CursorInRange, FallbackLeft
    PROVE  /\ fbIdx \in DOMAIN ranges
           /\ ranges[fbIdx].start \in Nat /\ ranges[fbIdx].end \in Nat
           /\ Cursor \in Nat
           /\ ranges[fbIdx].start <= Cursor
           /\ Cursor < ranges[fbIdx].end =>
                 Cursor \in Frames /\ Cursor \in RangePages(ranges[fbIdx])
<1>1. fbIdx \in DOMAIN ranges
  BY DEF TypeOK, ScanType, PoolType, FallbackLeft
<1>2. /\ ranges[fbIdx].start \in Nat /\ ranges[fbIdx].end \in Nat
      /\ RangePages(ranges[fbIdx]) \subseteq Frames
  BY <1>1, RangeType
<1>3. Cursor \in Nat /\ ranges[fbIdx].start <= Cursor
  BY <1>2 DEF Cursor, CursorInRange, TypeOK, PoolType
<1>4. Cursor < ranges[fbIdx].end => Cursor \in RangePages(ranges[fbIdx])
  BY <1>2, <1>3 DEF RangePages
<1> QED
  BY <1>1, <1>2, <1>3, <1>4

(* The next page of the pool is in memory.                                 *)
LEMMA ScratchType ==
    ASSUME TypeOK, PoolInMemory, ScratchFirst, ScratchLeft
    PROVE  scratchNext \in Frames
  BY BootType DEF TypeOK, ControlType, ScanType, PoolType, PoolInMemory,
                  ScratchFirst, ScratchLeft, ScratchEnd

-----------------------------------------------------------------------------
(* Type correctness: each action preserves each part of the type invariant *)
(* (and the bound on the request at hand).                                 *)
THEOREM TypeStep ==
    ASSUME AllocInv, [Next]_vars
    PROVE  TypeOK' /\ Walking'
<1> USE DEF AllocInv, TypeOK
<1>1. CASE RejectMap
  BY <1>1 DEF RejectMap, Fail, ControlType, ScanType, PoolType, TableType,
     Walking, scanVars, poolVars,
         walkVars
<1>2. CASE AcceptMap
  BY <1>2 DEF AcceptMap, ControlType, ScanType, PoolType, TableType, Walking,
     scanVars, poolVars,
         walkVars
<1>3. CASE ScanDescriptor
  <2>1. ControlType' /\ PoolType' /\ TableType' /\ Walking'
    BY <1>3 DEF ScanDescriptor, ControlType, PoolType, TableType, Walking,
       scanVars, poolVars, walkVars
  <2>2. ScanType'
    <3> DEFINE d == boot.descs[i + 1]
    <3>1. boot.descs \in Seq(Descriptors) /\ Len(boot.descs) \in Nat
      BY BootType DEF ControlType
    <3>2. i \in Nat /\ i + 1 \in 1..Len(boot.descs)
      BY <1>3, <3>1 DEF ScanDescriptor, MoreToScan, ScanType
    <3>3. d \in Descriptors
      BY <3>1, <3>2, ElementOfSeq
    <3>4. d.start \in Frames /\ d.start + d.pages \in Nat
      <4> HIDE DEF d
      <4>1. d.start \in Frames /\ d.pages \in Nat
        BY <3>3 DEF Descriptors
      <4>2. d.start \in Nat
        BY <4>1, FramesAssumption
      <4> QED
        BY <4>1, <4>2
    <3>5. [start |-> d.start, end |-> d.start + d.pages] \in [start : Frames, end : Nat]
      BY <3>4
    <3>6. ranges' \in Seq([start : Frames, end : Nat])
      BY <1>3, <3>5, AppendProperties DEF ScanDescriptor, EndOf, ScanType
    <3>7. mmapAllocEnd' \in Nat
      BY <1>3, <3>4 DEF ScanDescriptor, EndOf, ScanType
    <3>8. i' \in 0..Len(boot'.descs)
      BY <1>3, <3>1, <3>2 DEF ScanDescriptor, EndOf
    <3> QED
      BY <3>6, <3>7, <3>8 DEF ScanType
  <2> QED
    BY <2>1, <2>2
<1>4. CASE EndScan
  <2>1. ControlType' /\ PoolType' /\ TableType' /\ Walking'
    BY <1>4 DEF EndScan, ControlType, PoolType, TableType, Walking, scanVars, poolVars,
          walkVars
  <2>2. ScanType'
    <3>1. Headroom(boot) \in Nat
      BY HeadroomBound DEF ControlType
    <3> QED
      BY <1>4, <3>1 DEF EndScan, ScanType
  <2> QED
    BY <2>1, <2>2
<1>5. CASE ScratchSkip
  BY <1>5 DEF ScratchSkip, ControlType, ScanType, PoolType, TableType, Walking,
     scanVars, poolVars,
         walkVars
<1>6. CASE ScratchTake
  <2>1. ControlType' /\ ScanType' /\ Walking'
    BY <1>6 DEF ScratchTake, HandOut, ControlType, ScanType, Walking, scanVars, poolVars,
          walkVars
  <2>2. PoolType'
    <3>1. scratchNext \in Frames
      BY <1>6, ScratchType DEF ScratchTake
    <3>2. owned' \in Seq(Frames)
      BY <1>6, <3>1, AppendProperties DEF ScratchTake, HandOut, PoolType
    <3> QED
      BY <1>6, <3>1, <3>2 DEF ScratchTake, HandOut, PoolType
  <2>3. TableType'
    <3>1. scratchNext \in Frames
      BY <1>6, ScratchType DEF ScratchTake
    <3>2. mem' \in Memories
      BY <1>6, <3>1, ClearPage
      DEF ScratchTake, HandOut, Cleared, TableType, Memories
    <3> QED
      BY <1>6, <3>2 DEF ScratchTake, TableType, walkVars, Memories
  <2> QED
    BY <2>1, <2>2, <2>3
<1>7. CASE FallbackSkip
  <2>1. ControlType' /\ ScanType' /\ TableType' /\ Walking'
    BY <1>7 DEF FallbackSkip, ControlType, ScanType, TableType, Walking,
       scanVars, poolVars, walkVars
  <2>2. PoolType'
    <3>1. Cursor \in Nat
      BY <1>7, CursorType DEF FallbackSkip
    <3> QED
      BY <1>7, <3>1 DEF FallbackSkip, PoolType
  <2> QED
    BY <2>1, <2>2
<1>8. CASE FallbackTake
  <2>1. ControlType' /\ ScanType' /\ Walking'
    BY <1>8 DEF FallbackTake, HandOut, ControlType, ScanType, Walking, scanVars, poolVars,
          walkVars
  <2>2. PoolType'
    <3>1. Cursor \in Nat /\ Cursor \in Frames
      BY <1>8, CursorType DEF FallbackTake
    <3>2. owned' \in Seq(Frames)
      BY <1>8, <3>1, AppendProperties DEF FallbackTake, HandOut, PoolType
    <3> QED
      BY <1>8, <3>1, <3>2 DEF FallbackTake, HandOut, PoolType
  <2>3. TableType'
    <3>1. Cursor \in Frames
      BY <1>8, CursorType DEF FallbackTake
    <3>2. mem' \in Memories
      BY <1>8, <3>1, ClearPage
      DEF FallbackTake, HandOut, Cleared, TableType, Memories
    <3> QED
      BY <1>8, <3>2 DEF FallbackTake, TableType, walkVars, Memories
  <2> QED
    BY <2>1, <2>2, <2>3
<1>9. CASE FallbackNextRange
  BY <1>9 DEF FallbackNextRange, ControlType, ScanType, PoolType, TableType,
     Walking, scanVars, poolVars,
         walkVars
<1>10. CASE NothingLeft
  <2>1. ControlType' /\ ScanType' /\ TableType' /\ Walking'
    BY <1>10 DEF NothingLeft, ControlType, ScanType, TableType, Walking,
       scanVars, poolVars, walkVars
  <2>2. PoolType'
    BY <1>10, FramesAssumption DEF NothingLeft, PoolType, poolVars
  <2> QED
    BY <2>1, <2>2
<1>11. CASE OutOfPages
  BY <1>11 DEF OutOfPages, Fail, FailCode, ControlType, ScanType, PoolType,
     TableType, Walking, scanVars, poolVars,
         walkVars
<1>12. CASE LinkRoot
  <2>1. ControlType' /\ ScanType' /\ PoolType' /\ Walking'
    BY <1>12 DEF LinkRoot, ControlType, ScanType, PoolType, Walking, scanVars, poolVars,
          walkVars
  <2>2. TableType'
    BY <1>12 DEF LinkRoot, TableType, PoolType, walkVars
  <2> QED
    BY <2>1, <2>2
<1>13. CASE LinkTable
  <2>1. ControlType' /\ ScanType' /\ PoolType' /\ Walking'
    BY <1>13 DEF LinkTable, ControlType, ScanType, PoolType, Walking, scanVars, poolVars,
          walkVars
  <2>2. TableType'
    <3>1. k < Len(Work(boot)) /\ lvl - 1 \in Levels /\ got \in Frames
      BY <1>13 DEF LinkTable, Walking, ControlType, PoolType
    <3>2. Idx(lvl - 1, Request.v) \in Slots /\ To(got) \in Entry
      BY <3>1, RequestType, ToEntry
    <3>3. mem' \in Memories
      BY <1>13, <3>2, SetEntry DEF LinkTable, TableType, Memories
    <3> QED
      BY <1>13, <3>1, <3>3 DEF LinkTable, TableType, Memories
  <2> QED
    BY <2>1, <2>2
<1>14. CASE StartRequest
  BY <1>14 DEF StartRequest, ControlType, ScanType, PoolType, TableType,
     Walking, scanVars, poolVars,
         walkVars
<1>15. CASE Descend
  <2>1. ControlType' /\ ScanType' /\ PoolType' /\ Walking'
    BY <1>15 DEF Descend, ControlType, ScanType, PoolType, Walking, scanVars, poolVars,
          walkVars
  <2>2. TableType'
    <3>1. Idx(lvl, Request.v) \in Slots
      BY <1>15, RequestType DEF Descend, Walking, ControlType
    <3>2. Here \in Entry
      BY <3>1 DEF Here, TableType
    <3>3. Here.frame \in Frames
      BY <3>2 DEF Entry
    <3> QED
      BY <1>15, <3>3 DEF Descend, TableType
  <2> QED
    BY <2>1, <2>2
<1>16. CASE NeedTable
  BY <1>16 DEF NeedTable, ControlType, ScanType, PoolType, TableType, Walking,
     scanVars, poolVars,
         walkVars
<1>17. CASE SetPte
  <2>1. ControlType' /\ ScanType' /\ PoolType' /\ Walking'
    BY <1>17 DEF SetPte, ControlType, ScanType, PoolType, Walking, scanVars, poolVars,
          walkVars
  <2>2. TableType'
    <3>1. k < Len(Work(boot))
      BY <1>17 DEF SetPte, Walking
    <3>2. Idx(3, Request.v) \in Slots /\ To(Request.p) \in Entry
      BY <3>1, RequestType, ToEntry
    <3>3. mem' \in Memories
      BY <1>17, <3>2, SetEntry DEF SetPte, TableType, Memories
    <3>4. Len(Work(boot)) \in Nat
      BY WorkType DEF ControlType
    <3>5. k' \in 0..Len(Work(boot'))
      BY <1>17, <3>1, <3>4 DEF SetPte, TableType
    <3> QED
      BY <1>17, <3>3, <3>5 DEF SetPte, TableType, Memories
  <2> QED
    BY <2>1, <2>2
<1>18. CASE SwitchCr3
  BY <1>18 DEF SwitchCr3, ControlType, ScanType, PoolType, TableType, Walking,
     scanVars, poolVars,
         walkVars
<1>19. CASE TouchLoad
  <2>1. ControlType' /\ ScanType' /\ PoolType' /\ Walking'
    BY <1>19 DEF TouchLoad, ControlType, ScanType, PoolType, Walking, scanVars, poolVars,
          walkVars
  <2>2. TableType'
    BY <1>19, TouchedType DEF TouchLoad, TableType, walkVars
  <2> QED
    BY <2>1, <2>2
<1>20. CASE TouchFlip
  <2>1. ControlType' /\ ScanType' /\ PoolType' /\ Walking'
    BY <1>20 DEF TouchFlip, ControlType, ScanType, PoolType, Walking, scanVars, poolVars,
          walkVars
  <2>2. TableType'
    <3>1. mem' \in Memories
      BY <1>20, TouchedType, FlipEntry, SetEntry DEF TouchFlip, TableType, Memories
    <3> QED
      BY <1>20, <3>1 DEF TouchFlip, TableType, walkVars, Memories
  <2> QED
    BY <2>1, <2>2
<1>21. CASE TouchRestore
  <2>1. ControlType' /\ ScanType' /\ PoolType' /\ Walking'
    BY <1>21 DEF TouchRestore, ControlType, ScanType, PoolType, Walking,
       scanVars, poolVars, walkVars
  <2>2. TableType'
    <3>1. mem' \in Memories
      BY <1>21, TouchedType, SetEntry DEF TouchRestore, TableType, Memories
    <3> QED
      BY <1>21, <3>1 DEF TouchRestore, TableType, walkVars, Memories
  <2> QED
    BY <2>1, <2>2
<1>22. CASE Stopped
  BY <1>22 DEF Stopped, vars, ControlType, ScanType, PoolType, TableType,
     Walking, scanVars, poolVars,
         walkVars
<1>23. CASE UNCHANGED vars
  BY <1>23 DEF vars, ControlType, ScanType, PoolType, TableType, Walking,
     scanVars, poolVars, walkVars
<1> QED
  BY <1>1, <1>2, <1>3, <1>4, <1>5, <1>6, <1>7, <1>8, <1>9, <1>10, <1>11, <1>12,
     <1>13, <1>14, <1>15, <1>16, <1>17, <1>18, <1>19, <1>20, <1>21, <1>22, <1>23
     DEF Next

-----------------------------------------------------------------------------
(* The allocator.                                                          *)
PoolSafe ==
    /\ PoolInMemory
    /\ RangesRead /\ RangesApart
    /\ CursorInRange
    /\ ScratchFirst
    /\ Handed
    /\ AllocFresh

allocVars == <<boot, scanVars, poolVars, owned>>

(* Descriptors are in memory and do not overlap.                           *)
LEMMA DescriptorType ==
    ASSUME NEW b \in Boots, NEW j \in DOMAIN b.descs
    PROVE  /\ b.descs[j].start \in Nat /\ b.descs[j].pages \in Nat
           /\ Pages(b.descs[j].start, b.descs[j].pages) \subseteq Frames
           /\ \A m \in DOMAIN b.descs : m # j =>
                 Pages(b.descs[m].start, b.descs[m].pages)
                     \cap Pages(b.descs[j].start, b.descs[j].pages) = {}
<1>1. BootOK(b)
  BY BootsAssumption
<1>2. b.descs \in Seq(Descriptors)
  BY BootType
<1>3. b.descs[j] \in Descriptors
  BY <1>2, ElementOfSeq, LenProperties
<1>4. b.descs[j].start \in Nat /\ b.descs[j].pages \in Nat
  BY <1>3, FramesAssumption DEF Descriptors
<1> QED
  BY <1>1, <1>4 DEF BootOK

(* A page that was not handed out before can be appended to the history.   *)
LEMMA AppendFresh ==
    ASSUME NEW s \in Seq(Frames), NEW p \in Frames,
           \A m, n \in DOMAIN s : s[m] = s[n] => m = n,
           \A n \in DOMAIN s : s[n] # p
    PROVE  LET t == Append(s, p) IN
           /\ \A m, n \in DOMAIN t : t[m] = t[n] => m = n
           /\ \A n \in DOMAIN t : (n \in DOMAIN s /\ t[n] = s[n]) \/ t[n] = p
<1> DEFINE t == Append(s, p)
<1>1. /\ Len(s) \in Nat /\ DOMAIN s = 1..Len(s)
      /\ DOMAIN t = 1..Len(s) + 1
      /\ \A n \in 1..Len(s) : t[n] = s[n]
      /\ t[Len(s) + 1] = p
  BY AppendProperties, LenProperties
<1> HIDE DEF t
<1>2. \A n \in DOMAIN t : (n \in DOMAIN s /\ t[n] = s[n]) \/ (n = Len(s) + 1 /\ t[n] = p)
  BY <1>1
<1>3. \A m, n \in DOMAIN t : t[m] = t[n] => m = n
  BY <1>2
<1>4. \A n \in DOMAIN t : (n \in DOMAIN s /\ t[n] = s[n]) \/ t[n] = p
  BY <1>2
<1> QED
  BY <1>3, <1>4 DEF t

LEMMA PoolUnchanged ==
    ASSUME PoolSafe, UNCHANGED allocVars,
           pc' \in {"enter", "scan"} => pc \in {"enter", "scan"}
    PROVE  PoolSafe'
  BY DEF PoolSafe, allocVars, scanVars, poolVars, PoolInMemory, RangesRead,
         RangesApart, CursorInRange, ScratchFirst, ScratchLeft, ScratchEnd,
         Untouched, Handed, Passed, AllocFresh, RangePages, Pages

(* The scan: ranges are appended while nothing has been handed out.        *)
LEMMA PoolScan ==
    ASSUME AllocInv, ScanDescriptor
    PROVE  PoolSafe'
<1> DEFINE d == boot.descs[i + 1]
           new == [start |-> d.start, end |-> d.start + d.pages]
<1>1. /\ boot \in Boots /\ boot' = boot
      /\ i \in Nat /\ i + 1 \in DOMAIN boot.descs /\ i' = i + 1
      /\ \A j \in 1..i : j \in DOMAIN boot.descs /\ j # i + 1
  <2>1. boot.descs \in Seq(Descriptors)
    BY BootType DEF AllocInv, TypeOK, ControlType
  <2> QED
    BY <2>1 DEF ScanDescriptor, MoreToScan, AllocInv, TypeOK, ControlType, ScanType
<1>2. /\ d.start \in Nat /\ d.pages \in Nat
      /\ Pages(d.start, d.pages) \subseteq Frames
  BY <1>1, DescriptorType
<1>3. pc = "scan" /\ owned = << >> /\ Untouched
  BY DEF ScanDescriptor, AllocInv, ScratchFirst
<1>4. PoolInMemory'
  <2>1. CASE mmapAllocEnd' = mmapAllocEnd
    BY <2>1, <1>1 DEF PoolInMemory, AllocInv
  <2>2. CASE /\ mmapAllocEnd' = d.start + d.pages
             /\ boot.mmapPhys \in Pages(d.start, d.pages)
    <3>1. boot.mmapPhys .. mmapAllocEnd' - 1 \subseteq Pages(d.start, d.pages)
      BY <2>2, <1>2 DEF Pages
    <3> QED
      BY <3>1, <1>1, <1>2 DEF PoolInMemory
  <2> QED
    BY <2>1, <2>2 DEF ScanDescriptor, EndOf
<1>5. RangePages(new) = Pages(d.start, d.pages)
  BY <1>2 DEF RangePages, Pages
<1>6. /\ ranges \in Seq([start : Frames, end : Nat])
      /\ ranges' = ranges \/ ranges' = Append(ranges, new)
  BY DEF ScanDescriptor, EndOf, AllocInv, TypeOK, ScanType
<1>7. \A n \in DOMAIN ranges' :
          \/ n \in DOMAIN ranges /\ ranges'[n] = ranges[n]
          \/ n = Len(ranges) + 1 /\ ranges'[n] = new
  <2>1. CASE ranges' = ranges
    BY <2>1
  <2>2. CASE ranges' = Append(ranges, new)
    BY <2>2, <1>6
  <2> QED
    BY <1>6, <2>1, <2>2
<1>8. RangesRead'
  <2> SUFFICES ASSUME NEW n \in DOMAIN ranges'
               PROVE  \E j \in 1..i' : RangePages(ranges'[n]) =
                          Pages(boot.descs[j].start, boot.descs[j].pages)
    BY <1>1 DEF RangesRead, RangePages, Pages
  <2>1. CASE n \in DOMAIN ranges /\ ranges'[n] = ranges[n]
    <3>1. PICK j \in 1..i : RangePages(ranges[n]) =
                                Pages(boot.descs[j].start, boot.descs[j].pages)
      BY <2>1 DEF AllocInv, RangesRead
    <3>2. j \in 1..i'
      BY <1>1
    <3> QED
      BY <2>1, <3>1, <3>2
  <2>2. CASE ranges'[n] = new
    <3>1. i + 1 \in 1..i'
      BY <1>1
    <3> QED
      BY <2>2, <3>1, <1>5
  <2> QED
    BY <1>7, <2>1, <2>2
<1>9. \A n \in DOMAIN ranges : RangePages(ranges[n]) \cap RangePages(new) = {}
  <2> TAKE n \in DOMAIN ranges
  <2>1. PICK j \in 1..i : RangePages(ranges[n]) =
                              Pages(boot.descs[j].start, boot.descs[j].pages)
    BY DEF AllocInv, RangesRead
  <2> QED
    BY <2>1, <1>1, <1>5, DescriptorType
<1>10. RangesApart'
  <2> SUFFICES ASSUME NEW m \in DOMAIN ranges', NEW n \in DOMAIN ranges', m # n
               PROVE  RangePages(ranges'[m]) \cap RangePages(ranges'[n]) = {}
    BY DEF RangesApart, RangePages
  <2>1. CASE m \in DOMAIN ranges /\ ranges'[m] = ranges[m]
             /\ n \in DOMAIN ranges /\ ranges'[n] = ranges[n]
    BY <2>1 DEF AllocInv, RangesApart
  <2>2. CASE ranges'[m] = new /\ n \in DOMAIN ranges /\ ranges'[n] = ranges[n]
    BY <2>2, <1>9
  <2>3. CASE ranges'[n] = new /\ m \in DOMAIN ranges /\ ranges'[m] = ranges[m]
    BY <2>3, <1>9
  <2> QED
    BY <1>7, <2>1, <2>2, <2>3
<1>11. /\ owned' = << >> /\ pc' = "scan" /\ scratchNext' = scratchNext
       /\ fbIdx' = 1 /\ fbNext' = 0
  BY <1>3 DEF ScanDescriptor, poolVars, Untouched
<1>12. CursorInRange' /\ ScratchFirst'
  BY <1>1, <1>11 DEF CursorInRange, ScratchFirst, Untouched, AllocInv
<1>13. Handed' /\ AllocFresh'
  BY <1>11 DEF Handed, AllocFresh
<1> QED
  BY <1>4, <1>8, <1>10, <1>12, <1>13 DEF PoolSafe

LEMMA PoolEndScan ==
    ASSUME AllocInv, EndScan
    PROVE  PoolSafe'
<1>1. boot \in Boots /\ boot' = boot /\ i' = i /\ ranges' = ranges
  BY DEF AllocInv, TypeOK, ControlType, EndScan
<1>2. PoolInMemory'
  <2>1. CASE mmapAllocEnd' = mmapAllocEnd
    BY <2>1, <1>1 DEF PoolInMemory, AllocInv
  <2>2. CASE mmapAllocEnd' = Headroom(boot)
    <3>1. /\ boot.mmapPhys \in Nat /\ boot.mmapPages \in Nat /\ HeadroomPages \in Nat
          /\ Headroom(boot) \in Nat
          /\ Headroom(boot) <= boot.mmapPhys + boot.mmapPages + HeadroomPages
      BY <1>1, BootType, HeadroomBound, LimitsAssumption DEF MmapEnd
    <3>2. boot.mmapPhys .. Headroom(boot) - 1
              \subseteq Pages(boot.mmapPhys, boot.mmapPages + HeadroomPages)
      BY <3>1 DEF Pages
    <3>3. Pages(boot.mmapPhys, boot.mmapPages + HeadroomPages) \subseteq Frames
      BY <1>1, BootsAssumption DEF BootOK
    <3> QED
      BY <2>2, <3>2, <3>3, <1>1 DEF PoolInMemory
  <2> QED
    BY <2>1, <2>2 DEF EndScan
<1>3. /\ owned' = << >> /\ pc' = "alloc" /\ scratchNext' = scratchNext
      /\ fbIdx' = 1 /\ fbNext' = 0
  BY DEF EndScan, poolVars, AllocInv, ScratchFirst, Untouched
<1>4. RangesRead' /\ RangesApart'
  BY <1>1 DEF AllocInv, RangesRead, RangesApart, RangePages, Pages
<1>5. CursorInRange' /\ ScratchFirst'
  BY <1>1, <1>3 DEF CursorInRange, ScratchFirst, Untouched, AllocInv
<1>6. Handed' /\ AllocFresh'
  BY <1>3 DEF Handed, AllocFresh
<1> QED
  BY <1>2, <1>4, <1>5, <1>6 DEF PoolSafe

(* Moving a cursor forward: what was behind it stays behind it.            *)
LEMMA PoolScratchSkip ==
    ASSUME AllocInv, ScratchSkip
    PROVE  PoolSafe'
<1>1. /\ UNCHANGED <<boot, pc, i, ranges, mmapAllocEnd, fbIdx, fbNext, owned>>
      /\ scratchNext \in Nat /\ scratchNext' = scratchNext + 1
      /\ mmapAllocEnd \in Nat /\ boot.mmapPhys \in Nat /\ pc = "alloc"
      /\ ScratchLeft
  BY BootType DEF ScratchSkip, scanVars, AllocInv, TypeOK, ControlType,
                  PoolType, ScanType
<1>2. PoolInMemory' /\ RangesRead' /\ RangesApart' /\ CursorInRange'
  BY <1>1 DEF AllocInv, PoolInMemory, RangesRead, RangesApart, CursorInRange,
              RangePages, Pages
<1>3. ScratchFirst'
  BY <1>1 DEF AllocInv, ScratchFirst, ScratchLeft, ScratchEnd, Untouched
<1>4. Handed' /\ AllocFresh'
  BY <1>1 DEF AllocInv, Handed, Passed, AllocFresh, RangePages
<1> QED
  BY <1>2, <1>3, <1>4 DEF PoolSafe

LEMMA PoolScratchTake ==
    ASSUME AllocInv, ScratchTake
    PROVE  PoolSafe'
<1>1. /\ UNCHANGED <<boot, i, ranges, mmapAllocEnd, fbIdx, fbNext>>
      /\ scratchNext \in Nat /\ scratchNext' = scratchNext + 1
      /\ mmapAllocEnd \in Nat /\ boot.mmapPhys \in Nat /\ pc' = "link"
      /\ ScratchLeft /\ boot.mmapPhys <= scratchNext
      /\ owned \in Seq(Frames) /\ owned' = Append(owned, scratchNext)
  BY BootType DEF ScratchTake, HandOut, scanVars, AllocInv, TypeOK,
                  ControlType, PoolType, ScanType, ScratchFirst
<1>2. scratchNext \in Frames
  BY <1>1, ScratchType DEF AllocInv
<1>3. PoolInMemory' /\ RangesRead' /\ RangesApart' /\ CursorInRange'
  BY <1>1 DEF AllocInv, PoolInMemory, RangesRead, RangesApart, CursorInRange,
              RangePages, Pages
<1>4. ScratchFirst'
  BY <1>1 DEF AllocInv, ScratchFirst, ScratchLeft, ScratchEnd, Untouched
<1>5. \A p : ~Passed(p)
  <2>1. Untouched
    BY <1>1 DEF AllocInv, ScratchFirst
  <2> SUFFICES ASSUME NEW p, Passed(p) PROVE FALSE
    OBVIOUS
  <2>2. PICK n \in DOMAIN ranges :
            p \in RangePages(ranges[n]) /\ (n < 1 \/ p < 0)
    BY <2>1 DEF Passed, Untouched
  <2>3. n \in Nat /\ n >= 1
    BY DEF AllocInv, TypeOK, ScanType
  <2>4. p \in Nat
    BY <2>2, RangeType, FramesAssumption DEF AllocInv
  <2> QED
    BY <2>2, <2>3, <2>4
<1>6. \A n \in DOMAIN owned : owned[n] \in boot.mmapPhys .. scratchNext - 1
  BY <1>5 DEF AllocInv, Handed
<1>7. \A n \in DOMAIN owned : owned[n] # scratchNext
  BY <1>1, <1>6
<1>8. AllocFresh' /\ \A n \in DOMAIN owned' :
          (n \in DOMAIN owned /\ owned'[n] = owned[n]) \/ owned'[n] = scratchNext
  BY <1>1, <1>2, <1>7, AppendFresh DEF AllocInv, AllocFresh
<1>9. Handed'
  BY <1>1, <1>6, <1>8 DEF Handed
<1> QED
  BY <1>3, <1>4, <1>8, <1>9 DEF PoolSafe

LEMMA PoolFallbackSkip ==
    ASSUME AllocInv, FallbackSkip
    PROVE  PoolSafe'
<1>1. /\ UNCHANGED <<boot, pc, i, ranges, mmapAllocEnd, scratchNext, fbIdx, owned>>
      /\ pc = "alloc" /\ ~ScratchLeft
      /\ fbNext' = Cursor + 1 /\ fbNext \in Nat
      /\ fbIdx \in DOMAIN ranges /\ fbIdx <= Len(ranges)
      /\ Cursor \in Nat /\ ranges[fbIdx].end \in Nat /\ ranges[fbIdx].start \in Nat
      /\ ranges[fbIdx].start <= Cursor /\ Cursor < ranges[fbIdx].end
  BY CursorType DEF FallbackSkip, FallbackLeft, scanVars, AllocInv, TypeOK, PoolType
<1>2. PoolInMemory' /\ RangesRead' /\ RangesApart' /\ AllocFresh'
  BY <1>1 DEF AllocInv, PoolInMemory, RangesRead, RangesApart, AllocFresh,
              RangePages, Pages
<1>3. CursorInRange'
  BY <1>1 DEF CursorInRange
<1>4. ScratchFirst'
  BY <1>1 DEF AllocInv, ScratchFirst, ScratchLeft, ScratchEnd
<1>5. Handed'
  <2>1. \A p : Passed(p) => Passed(p)'
    <3> SUFFICES ASSUME NEW p, Passed(p) PROVE Passed(p)'
      OBVIOUS
    <3>1. PICK n \in DOMAIN ranges :
              /\ p \in RangePages(ranges[n])
              /\ n < fbIdx \/ (n = fbIdx /\ p < fbNext)
      BY DEF Passed
    <3>2. p \in Nat
      BY <3>1, RangeType, FramesAssumption DEF AllocInv
    <3>3. p < fbNext => p < fbNext'
      BY <3>2, <1>1 DEF Cursor
    <3> QED
      BY <3>1, <3>3, <1>1 DEF Passed, RangePages
  <2> QED
    BY <2>1, <1>1 DEF AllocInv, Handed
<1> QED
  BY <1>2, <1>3, <1>4, <1>5 DEF PoolSafe

LEMMA PoolFallbackTake ==
    ASSUME AllocInv, FallbackTake
    PROVE  PoolSafe'
<1>1. /\ UNCHANGED <<boot, i, ranges, mmapAllocEnd, scratchNext, fbIdx>>
      /\ pc' = "link" /\ ~ScratchLeft
      /\ fbNext' = Cursor + 1 /\ fbNext \in Nat
      /\ fbIdx \in DOMAIN ranges /\ fbIdx <= Len(ranges) /\ fbIdx \in Nat
      /\ Cursor \in Nat /\ ranges[fbIdx].end \in Nat /\ ranges[fbIdx].start \in Nat
      /\ ranges[fbIdx].start <= Cursor /\ Cursor < ranges[fbIdx].end
      /\ Cursor \in Frames /\ Cursor \in RangePages(ranges[fbIdx])
      /\ owned \in Seq(Frames) /\ owned' = Append(owned, Cursor)
      /\ ~(boot.mmapPhys <= Cursor /\ Cursor < scratchNext)
  BY CursorType DEF FallbackTake, FallbackLeft, HandOut, scanVars, AllocInv,
                    TypeOK, PoolType, pageOverlapsReserved
<1>2. PoolInMemory' /\ RangesRead' /\ RangesApart'
  BY <1>1 DEF AllocInv, PoolInMemory, RangesRead, RangesApart, RangePages, Pages
<1>3. CursorInRange'
  BY <1>1 DEF CursorInRange
<1>4. ScratchFirst'
  BY <1>1 DEF AllocInv, ScratchFirst, ScratchLeft, ScratchEnd
<1>5. \A p : Passed(p) => Passed(p)' /\ p # Cursor
  <2> SUFFICES ASSUME NEW p, Passed(p) PROVE Passed(p)' /\ p # Cursor
    OBVIOUS
  <2>1. PICK n \in DOMAIN ranges :
            /\ p \in RangePages(ranges[n])
            /\ n < fbIdx \/ (n = fbIdx /\ p < fbNext)
    BY DEF Passed
  <2>2. p \in Nat
    BY <2>1, RangeType, FramesAssumption DEF AllocInv
  <2>3. p < fbNext => p < Cursor
    BY <2>2, <1>1 DEF Cursor
  <2>4. Passed(p)'
    BY <2>1, <2>2, <2>3, <1>1 DEF Passed, RangePages
  <2>5. n < fbIdx => p # Cursor
    <3>1. n < fbIdx => n # fbIdx
      BY <1>1
    <3> QED
      BY <3>1, <2>1, <1>1 DEF AllocInv, RangesApart
  <2>6. p < Cursor => p # Cursor
    BY <2>2, <1>1
  <2> QED
    BY <2>1, <2>3, <2>4, <2>5, <2>6
<1>6. \A n \in DOMAIN owned : owned[n] # Cursor
  <2>1. boot.mmapPhys \in Nat /\ scratchNext \in Nat
    BY BootType DEF AllocInv, TypeOK, ControlType, PoolType
  <2> QED
    BY <2>1, <1>1, <1>5 DEF AllocInv, Handed
<1>7. AllocFresh' /\ \A n \in DOMAIN owned' :
          (n \in DOMAIN owned /\ owned'[n] = owned[n]) \/ owned'[n] = Cursor
  BY <1>1, <1>6, AppendFresh DEF AllocInv, AllocFresh
<1>8. PICK c : c = Cursor
  OBVIOUS
<1>9. Passed(c)'
  BY <1>1, <1>8 DEF Passed, RangePages
<1>10. Handed'
  BY <1>1, <1>5, <1>7, <1>8, <1>9 DEF AllocInv, Handed
<1> QED
  BY <1>2, <1>3, <1>4, <1>7, <1>10 DEF PoolSafe

LEMMA PoolNextRange ==
    ASSUME AllocInv, FallbackNextRange
    PROVE  PoolSafe'
<1>1. /\ UNCHANGED <<boot, pc, i, ranges, mmapAllocEnd, scratchNext, owned>>
      /\ pc = "alloc" /\ ~ScratchLeft
      /\ fbNext' = 0 /\ fbIdx' = fbIdx + 1 /\ fbIdx \in Nat
  BY DEF FallbackNextRange, FallbackLeft, scanVars, AllocInv, TypeOK, PoolType
<1>2. PoolInMemory' /\ RangesRead' /\ RangesApart' /\ AllocFresh'
  BY <1>1 DEF AllocInv, PoolInMemory, RangesRead, RangesApart, AllocFresh,
              RangePages, Pages
<1>3. CursorInRange' /\ ScratchFirst'
  BY <1>1 DEF AllocInv, CursorInRange, ScratchFirst, ScratchLeft, ScratchEnd
<1>4. \A p : Passed(p) => Passed(p)'
  <2>1. \A n \in DOMAIN ranges : n \in Nat
    BY DEF AllocInv, TypeOK, ScanType
  <2> QED
    BY <2>1, <1>1 DEF Passed, RangePages
<1>5. Handed'
  BY <1>1, <1>4 DEF AllocInv, Handed
<1> QED
  BY <1>2, <1>3, <1>5 DEF PoolSafe

(* Initially nothing has been scanned or handed out, and the buffer the    *)
(* loader reports is memory.                                               *)
THEOREM PoolInit == Init => PoolSafe
<1> SUFFICES ASSUME Init PROVE PoolSafe
  OBVIOUS
<1>1. /\ boot \in Boots /\ pc = "enter" /\ ranges = << >>
      /\ mmapAllocEnd = boot.mmapPhys + boot.mmapPages
      /\ scratchNext = boot.mmapPhys /\ fbIdx = 1 /\ fbNext = 0
      /\ owned = << >>
  BY DEF Init, MmapEnd
<1>2. boot.mmapPhys \in Nat /\ boot.mmapPages \in Nat /\ HeadroomPages \in Nat
  BY <1>1, BootType, LimitsAssumption
<1>3. PoolInMemory
  <2>1. boot.mmapPhys .. mmapAllocEnd - 1
            \subseteq Pages(boot.mmapPhys, boot.mmapPages + HeadroomPages)
    BY <1>1, <1>2 DEF Pages
  <2>2. Pages(boot.mmapPhys, boot.mmapPages + HeadroomPages) \subseteq Frames
    BY <1>1, BootsAssumption DEF BootOK
  <2> QED
    BY <2>1, <2>2 DEF PoolInMemory
<1>4. RangesRead /\ RangesApart
  BY <1>1 DEF RangesRead, RangesApart
<1>5. CursorInRange /\ ScratchFirst
  BY <1>1, <1>2 DEF CursorInRange, ScratchFirst, Untouched
<1>6. Handed /\ AllocFresh
  BY <1>1 DEF Handed, AllocFresh
<1> QED
  BY <1>3, <1>4, <1>5, <1>6 DEF PoolSafe

(* Every step of Stage 1 keeps the allocator's bookkeeping.                *)
THEOREM PoolStep ==
    ASSUME AllocInv, [Next]_vars
    PROVE  PoolSafe'
<1> USE DEF allocVars, vars, scanVars, poolVars, walkVars
<1>1. PoolSafe
  BY DEF AllocInv, PoolSafe
<1>2. CASE RejectMap
  BY <1>1, <1>2, PoolUnchanged DEF RejectMap, Fail
<1>3. CASE AcceptMap
  BY <1>1, <1>3, PoolUnchanged DEF AcceptMap
<1>4. CASE ScanDescriptor
  BY <1>4, PoolScan
<1>5. CASE EndScan
  BY <1>5, PoolEndScan
<1>6. CASE ScratchSkip
  BY <1>6, PoolScratchSkip
<1>7. CASE ScratchTake
  BY <1>7, PoolScratchTake
<1>8. CASE FallbackSkip
  BY <1>8, PoolFallbackSkip
<1>9. CASE FallbackTake
  BY <1>9, PoolFallbackTake
<1>10. CASE FallbackNextRange
  BY <1>10, PoolNextRange
<1>11. CASE NothingLeft
  BY <1>1, <1>11, PoolUnchanged DEF NothingLeft
<1>12. CASE OutOfPages
  BY <1>1, <1>12, PoolUnchanged DEF OutOfPages, Fail
<1>13. CASE LinkRoot
  BY <1>1, <1>13, PoolUnchanged DEF LinkRoot
<1>14. CASE LinkTable
  BY <1>1, <1>14, PoolUnchanged DEF LinkTable
<1>15. CASE StartRequest
  BY <1>1, <1>15, PoolUnchanged DEF StartRequest
<1>16. CASE Descend
  BY <1>1, <1>16, PoolUnchanged DEF Descend
<1>17. CASE NeedTable
  BY <1>1, <1>17, PoolUnchanged DEF NeedTable
<1>18. CASE SetPte
  BY <1>1, <1>18, PoolUnchanged DEF SetPte
<1>19. CASE SwitchCr3
  BY <1>1, <1>19, PoolUnchanged DEF SwitchCr3
<1>20. CASE TouchLoad
  BY <1>1, <1>20, PoolUnchanged DEF TouchLoad
<1>21. CASE TouchFlip
  BY <1>1, <1>21, PoolUnchanged DEF TouchFlip
<1>22. CASE TouchRestore
  BY <1>1, <1>22, PoolUnchanged DEF TouchRestore
<1>23. CASE Stopped \/ UNCHANGED vars
  BY <1>1, <1>23, PoolUnchanged DEF Stopped
<1> QED
  BY <1>2, <1>3, <1>4, <1>5, <1>6, <1>7, <1>8, <1>9, <1>10, <1>11, <1>12,
     <1>13, <1>14, <1>15, <1>16, <1>17, <1>18, <1>19, <1>20, <1>21, <1>22,
     <1>23 DEF Next

(* The allocator's invariant is inductive, for every memory map the loader *)
(* may pass.                                                               *)
THEOREM Safety == Spec => []AllocInv
<1>1. Init => AllocInv
  BY InitType, PoolInit DEF AllocInv, PoolSafe
<1>2. ASSUME AllocInv, [Next]_vars PROVE AllocInv'
  <2>1. TypeOK' /\ Walking'
    BY <1>2, TypeStep
  <2>2. PoolSafe'
    BY <1>2, PoolStep
  <2> QED
    BY <2>1, <2>2 DEF AllocInv, PoolSafe
<1> QED
  BY <1>1, <1>2, PTL DEF Spec

(* Every reachable state is well typed: the scan, the cursors of allocPage *)
(* and the walk of mapPageDual stay inside memory and the request list.    *)
THEOREM TypeCorrect == Spec => []TypeOK
<1>1. AllocInv => TypeOK
  BY DEF AllocInv
<1> QED
  BY <1>1, Safety, PTL

(* No page is handed out twice by allocPage.                               *)
THEOREM NoDoubleAllocation == Spec => []AllocFresh
<1>1. AllocInv => AllocFresh
  BY DEF AllocInv
<1> QED
  BY <1>1, Safety, PTL

(* What is appended to a history of spared pages must be spared too.       *)
LEMMA AppendSpares ==
    ASSUME NEW b, NEW s \in Seq(Frames), NEW p \in Frames,
           \A n \in DOMAIN s : ~Live(b, s[n]), ~Live(b, p)
    PROVE  LET t == Append(s, p) IN \A n \in DOMAIN t : ~Live(b, t[n])
<1> DEFINE t == Append(s, p)
<1>1. /\ Len(s) \in Nat /\ DOMAIN s = 1..Len(s)
      /\ DOMAIN t = 1..Len(s) + 1
      /\ \A n \in 1..Len(s) : t[n] = s[n]
      /\ t[Len(s) + 1] = p
  BY AppendProperties, LenProperties
<1> HIDE DEF t
<1>2. \A n \in DOMAIN t : (n \in DOMAIN s /\ t[n] = s[n]) \/ t[n] = p
  BY <1>1
<1>3. \A n \in DOMAIN t : ~Live(b, t[n])
  BY <1>2
<1> QED
  BY <1>3 DEF t

(* allocPage never hands out a page of the running kernel or its stack.    *)
THEOREM LiveMemorySpared == Spec => []AllocSparesLive
<1>1. Init => AllocSparesLive
  BY DEF Init, AllocSparesLive
<1>2. ASSUME AllocInv, AllocSparesLive, [Next]_vars
      PROVE  AllocSparesLive'
  <2>1. CASE UNCHANGED <<boot, owned>>
    BY <1>2, <2>1 DEF AllocSparesLive, Live, KernelSpan, StackSpan, Pages
  <2>2. ASSUME NEW p \in Frames, ~Live(boot, p), boot' = boot,
               owned' = Append(owned, p)
        PROVE  AllocSparesLive'
    <3>1. owned \in Seq(Frames)
      BY <1>2 DEF AllocInv, TypeOK, PoolType
    <3>2. \A n \in DOMAIN owned' : ~Live(boot, owned'[n])
      BY <1>2, <2>2, <3>1, AppendSpares DEF AllocSparesLive
    <3> QED
      BY <2>2, <3>2 DEF AllocSparesLive
  <2>3. CASE ScratchTake
    <3>1. scratchNext \in Frames
      BY <1>2, <2>3, ScratchType DEF ScratchTake, AllocInv
    <3> QED
      BY <2>2, <2>3, <3>1 DEF ScratchTake, HandOut
  <2>4. CASE FallbackTake
    <3>1. Cursor \in Frames
      BY <1>2, <2>4, CursorType DEF FallbackTake, AllocInv
    <3> QED
      BY <2>2, <2>4, <3>1 DEF FallbackTake, HandOut, pageOverlapsReserved
  <2>5. CASE ~ScratchTake /\ ~FallbackTake
    <3>1. UNCHANGED <<boot, owned>>
      BY <1>2, <2>5 DEF Next, vars, RejectMap, AcceptMap, ScanDescriptor,
         EndScan, ScratchSkip, FallbackSkip, FallbackNextRange, NothingLeft,
         OutOfPages, LinkRoot, LinkTable, StartRequest, Descend, NeedTable,
         SetPte, SwitchCr3, TouchLoad, TouchFlip, TouchRestore, Stopped
    <3> QED
      BY <2>1, <3>1
  <2> QED
    BY <2>3, <2>4, <2>5
<1> QED
  BY <1>1, <1>2, Safety, PTL DEF Spec
-----------------------------------------------------------------------------
(* Giving up.                                                              *)

(* What HandOut does to the history.                                       *)
LEMMA OwnedAppend ==
    ASSUME NEW s \in Seq(Frames), NEW p \in Frames
    PROVE  LET t == Append(s, p) IN
           /\ t # << >> /\ Len(t) = Len(s) + 1 /\ t[Len(t)] = p
           /\ s # << >> => t[1] = s[1]
           /\ s = << >> => Len(t) = 1 /\ t[1] = p
           /\ {t[n] : n \in DOMAIN t} = {s[n] : n \in DOMAIN s} \cup {p}
<1> DEFINE t == Append(s, p)
<1>1. /\ Len(s) \in Nat /\ DOMAIN s = 1..Len(s)
      /\ Len(t) = Len(s) + 1 /\ DOMAIN t = 1..Len(s) + 1
      /\ \A n \in 1..Len(s) : t[n] = s[n]
      /\ t[Len(s) + 1] = p
  BY AppendProperties, LenProperties
<1>2. s # << >> => Len(s) >= 1
  BY <1>1, EmptySeq
<1>3. s = << >> => Len(s) = 0
  OBVIOUS
<1>4. t # << >>
  BY <1>1, EmptySeq
<1> HIDE DEF t
<1>5. {t[n] : n \in DOMAIN t} = {s[n] : n \in DOMAIN s} \cup {p}
  <2>1. \A n \in DOMAIN t : n \in DOMAIN s \/ n = Len(s) + 1
    BY <1>1
  <2>2. \A n \in DOMAIN s : n \in DOMAIN t /\ t[n] = s[n]
    BY <1>1
  <2>3. Len(s) + 1 \in DOMAIN t
    BY <1>1
  <2> QED
    BY <1>1, <2>1, <2>2, <2>3
<1>6. s # << >> => t[1] = s[1]
  BY <1>1, <1>2
<1> QED
  BY <1>1, <1>3, <1>4, <1>5, <1>6 DEF t

(* The firmware does not offer page 0 as conventional memory.              *)
PageZeroReserved ==
    \A b \in Boots : \A j \in DOMAIN b.descs :
        b.descs[j].type = Conventional =>
            0 \notin Pages(b.descs[j].start, b.descs[j].pages)

(* What lies behind the two cursors is in use, and allocPage returns 0     *)
(* only when both are at their ends.                                       *)
InUse(p) == p \in OwnedPages \/ Live(boot, p)
Exhausted ==
    /\ \A p \in Pages(boot.mmapPhys, ScratchEnd - boot.mmapPhys) : InUse(p)
    /\ \A n \in DOMAIN ranges : \A p \in RangePages(ranges[n]) : InUse(p)
NoZeroRange == \A n \in DOMAIN ranges : 0 \notin RangePages(ranges[n])
PoolUsed == \A p \in boot.mmapPhys .. scratchNext - 1 : InUse(p)
RangesUsed == \A p : Passed(p) => InUse(p)
GivingUp ==
    /\ pc = "link" /\ got = 0 => Exhausted
    /\ code \in {"B", "C", "D", "E"} => Exhausted
    /\ pc # "halt" => code = "none"
ExhaustInv == NoZeroRange /\ PoolUsed /\ RangesUsed /\ GivingUp

LEMMA ExhaustUnchanged ==
    ASSUME ExhaustInv, UNCHANGED <<boot, ranges, mmapAllocEnd, scratchNext, fbIdx,
                                   fbNext, got, owned>>,
           pc' = "link" => pc = "link",
           \/ UNCHANGED code /\ (pc' # "halt" => pc # "halt")
           \/ pc' = "halt" /\ (code' = "A" \/ (pc = "link" /\ got = 0))
    PROVE  ExhaustInv'
<1>1. \A p : InUse(p)' <=> InUse(p)
  BY DEF InUse, OwnedPages, Live, KernelSpan, StackSpan, Pages
<1>2. \A p : Passed(p)' <=> Passed(p)
  BY DEF Passed, RangePages
<1>3. NoZeroRange' /\ PoolUsed' /\ RangesUsed'
  BY <1>1, <1>2 DEF ExhaustInv, NoZeroRange, PoolUsed, RangesUsed, RangePages
<1>4. Exhausted' <=> Exhausted
  BY <1>1 DEF Exhausted, RangePages, Pages, ScratchEnd
<1>5. GivingUp'
  BY <1>4 DEF ExhaustInv, GivingUp
<1> QED
  BY <1>3, <1>5 DEF ExhaustInv

(* A page handed out.                                                      *)
LEMMA UseHandOut ==
    ASSUME AllocInv, NEW p \in Frames, boot' = boot, owned' = Append(owned, p)
    PROVE  /\ \A q : InUse(q) => InUse(q)'
           /\ InUse(p)'
<1>1. owned \in Seq(Frames)
  BY DEF AllocInv, TypeOK, PoolType
<1>2. OwnedPages' = OwnedPages \cup {p}
  BY <1>1, OwnedAppend DEF OwnedPages
<1> QED
  BY <1>2 DEF InUse, Live, KernelSpan, StackSpan, Pages

THEOREM ExhaustStep ==
    ASSUME PageZeroReserved, AllocInv, ExhaustInv, [Next]_vars
    PROVE  ExhaustInv'
<1> USE DEF scanVars, poolVars, walkVars
<1>0. /\ boot \in Boots /\ boot.mmapPhys \in Nat /\ mmapAllocEnd \in Nat
      /\ scratchNext \in Nat /\ boot.mmapPhys <= scratchNext /\ boot.mmapPhys # 0
      /\ fbIdx \in Nat \ {0} /\ fbNext \in Nat
      /\ ranges \in Seq([start : Frames, end : Nat])
  <2>1. boot.mmapPhys # 0
    BY BootsAssumption DEF AllocInv, TypeOK, ControlType, BootOK
  <2> QED
    BY <2>1, BootType DEF AllocInv, TypeOK, ControlType, ScanType, PoolType, ScratchFirst
<1>1. CASE RejectMap \/ AcceptMap
  BY <1>1, ExhaustUnchanged DEF RejectMap, Fail, AcceptMap
<1>2. CASE ScanDescriptor
  <2> DEFINE d == boot.descs[i + 1]
             r == [start |-> d.start, end |-> EndOf(d)]
  <2>1. /\ UNCHANGED <<boot, pc, poolVars, got, owned, code>> /\ pc = "scan"
        /\ ranges' = ranges \/ (ranges' = Append(ranges, r) /\ d.type = Conventional)
    BY <1>2 DEF ScanDescriptor
  <2>2. i + 1 \in DOMAIN boot.descs
    BY <1>0, <1>2, BootType DEF ScanDescriptor, MoreToScan, AllocInv, TypeOK, ScanType
  <2>3. d.start \in Nat /\ d.pages \in Nat /\ d.start \in Frames
    <3>1. boot.descs \in Seq(Descriptors)
      BY <1>0, BootType
    <3>2. d \in Descriptors
      BY <2>2, <3>1, ElementOfSeq, LenProperties
    <3> HIDE DEF d
    <3>3. d.start \in Frames /\ d.pages \in Nat
      BY <3>2 DEF Descriptors
    <3> QED
      BY <3>3, FramesAssumption
  <2>4. d.type = Conventional => 0 \notin RangePages(r)
    <3>1. d.type = Conventional => 0 \notin Pages(d.start, d.pages)
      BY <1>0, <2>2 DEF PageZeroReserved
    <3> QED
      BY <2>3, <3>1 DEF RangePages, Pages, EndOf
  <2>5. r \in [start : Frames, end : Nat]
    BY <2>3 DEF EndOf
  <2> HIDE DEF d, r
  <2>6. \A n \in DOMAIN ranges' : (n \in DOMAIN ranges /\ ranges'[n] = ranges[n])
                                  \/ (ranges'[n] = r /\ d.type = Conventional)
    <3>1. CASE ranges' = ranges
      BY <3>1
    <3>2. CASE ranges' = Append(ranges, r) /\ d.type = Conventional
      <4>1. /\ DOMAIN ranges = 1..Len(ranges) /\ Len(ranges) \in Nat
            /\ DOMAIN ranges' = 1..Len(ranges) + 1
            /\ \A n \in 1..Len(ranges) : ranges'[n] = ranges[n]
            /\ ranges'[Len(ranges) + 1] = r
        BY <1>0, <2>5, <3>2, AppendProperties, LenProperties
      <4> QED
        BY <3>2, <4>1
    <3> QED
      BY <2>1, <3>1, <3>2
  <2>7. NoZeroRange'
    BY <2>4, <2>6 DEF ExhaustInv, NoZeroRange, RangePages
  <2>8. Untouched /\ Untouched'
    BY <2>1 DEF AllocInv, ScratchFirst, Untouched
  <2>9. ASSUME NEW p PROVE ~Passed(p)'
    <3> SUFFICES ASSUME Passed(p)' PROVE FALSE
      OBVIOUS
    <3>1. PICK n \in DOMAIN ranges' :
              p \in RangePages(ranges'[n]) /\ (n < 1 \/ p < 0)
      BY <2>8 DEF Passed, Untouched, RangePages
    <3>2. n \in Nat /\ n >= 1 /\ ranges'[n].start \in Nat
      <4>1. ranges' \in Seq([start : Frames, end : Nat])
        <5>1. Append(ranges, r) \in Seq([start : Frames, end : Nat])
          BY <1>0, <2>5, AppendProperties
        <5> QED
          BY <1>0, <2>1, <5>1
      <4>2. n \in 1..Len(ranges') /\ ranges'[n] \in [start : Frames, end : Nat]
        BY <4>1, ElementOfSeq, LenProperties
      <4>3. Len(ranges') \in Nat
        BY <4>1, LenProperties
      <4>4. ranges'[n].start \in Frames
        BY <4>2
      <4>5. n \in Nat /\ n >= 1
        BY <4>2, <4>3
      <4> QED
        BY <4>4, <4>5, FramesAssumption
    <3> QED
      BY <3>1, <3>2 DEF RangePages
  <2>10. PoolUsed' /\ RangesUsed'
    BY <2>1, <2>9 DEF ExhaustInv, PoolUsed, RangesUsed, InUse, OwnedPages, Live,
                      KernelSpan, StackSpan, Pages
  <2>11. GivingUp'
    BY <2>1 DEF ExhaustInv, GivingUp
  <2> QED
    BY <2>7, <2>10, <2>11 DEF ExhaustInv
<1>3. CASE EndScan
  <2>1. UNCHANGED <<boot, ranges, scratchNext, fbIdx, fbNext, owned, code>>
        /\ pc = "scan" /\ pc' = "alloc"
    BY <1>3 DEF EndScan
  <2>2. \A p : (Passed(p)' <=> Passed(p)) /\ (InUse(p)' <=> InUse(p))
    BY <2>1 DEF Passed, RangePages, InUse, OwnedPages, Live, KernelSpan, StackSpan, Pages
  <2> QED
    BY <2>1, <2>2 DEF ExhaustInv, NoZeroRange, RangePages, PoolUsed, RangesUsed, GivingUp
<1>4. CASE ScratchSkip
  <2>1. /\ UNCHANGED <<boot, pc, ranges, fbIdx, fbNext, owned, code>>
        /\ pc = "alloc" /\ scratchNext' = scratchNext + 1 /\ Live(boot, scratchNext)
    BY <1>4 DEF ScratchSkip
  <2>2. \A p : (Passed(p)' <=> Passed(p)) /\ (InUse(p)' <=> InUse(p))
    BY <2>1 DEF Passed, RangePages, InUse, OwnedPages, Live, KernelSpan, StackSpan, Pages
  <2>3. PoolUsed'
    BY <1>0, <2>1, <2>2 DEF ExhaustInv, PoolUsed, InUse
  <2> QED
    BY <2>1, <2>2, <2>3 DEF ExhaustInv, NoZeroRange, RangePages, RangesUsed, GivingUp
<1>5. CASE ScratchTake
  <2>1. /\ UNCHANGED <<boot, ranges, fbIdx, fbNext, code>>
        /\ pc = "alloc" /\ scratchNext' = scratchNext + 1 /\ pc' = "link"
        /\ owned' = Append(owned, scratchNext) /\ got' = scratchNext
    BY <1>5 DEF ScratchTake, HandOut
  <2>2. scratchNext \in Frames
    BY <1>5, ScratchType DEF AllocInv, ScratchTake
  <2>3. /\ \A q : InUse(q) => InUse(q)'
        /\ \A q : q = scratchNext => InUse(q)'
    BY <2>1, <2>2, UseHandOut
  <2>4. \A p : Passed(p)' <=> Passed(p)
    BY <2>1 DEF Passed, RangePages
  <2>5. PoolUsed'
    BY <1>0, <2>1, <2>3 DEF ExhaustInv, PoolUsed
  <2>6. got' # 0
    BY <1>0, <2>1
  <2> QED
    BY <2>1, <2>3, <2>4, <2>5, <2>6
       DEF ExhaustInv, NoZeroRange, RangePages, RangesUsed, GivingUp
<1>6. ASSUME FallbackLeft, Cursor < ranges[fbIdx].end, fbNext' = Cursor + 1,
             UNCHANGED <<boot, ranges, fbIdx, scratchNext>>,
             \A q : InUse(q) => InUse(q)', \A q : q = Cursor => InUse(q)'
      PROVE  RangesUsed'
  <2>1. /\ fbIdx \in DOMAIN ranges /\ ranges[fbIdx].start \in Nat
        /\ Cursor \in Nat /\ ranges[fbIdx].start <= Cursor
    BY <1>6, CursorType DEF AllocInv
  <2> SUFFICES ASSUME NEW p, Passed(p)' PROVE InUse(p)'
    BY DEF RangesUsed
  <2>2. PICK n \in DOMAIN ranges :
            /\ p \in RangePages(ranges[n])
            /\ n < fbIdx \/ (n = fbIdx /\ p < Cursor + 1)
    BY <1>6 DEF Passed, RangePages
  <2>3. p \in Nat
    BY <2>2, RangeType, FramesAssumption DEF AllocInv
  <2>4. CASE n < fbIdx
    BY <1>6, <2>2, <2>4 DEF Passed, ExhaustInv, RangesUsed
  <2>5. CASE n = fbIdx /\ p < Cursor
    <3>1. ranges[fbIdx].start <= p
      BY <2>2, <2>5 DEF RangePages
    <3>2. p < fbNext
      BY <1>0, <2>1, <2>3, <2>5, <3>1 DEF Cursor
    <3> QED
      BY <1>6, <2>2, <2>5, <3>2 DEF Passed, ExhaustInv, RangesUsed
  <2>6. CASE p = Cursor
    BY <1>6, <2>6
  <2> QED
    BY <2>1, <2>2, <2>3, <2>4, <2>5, <2>6
<1>7. CASE FallbackSkip
  <2>1. /\ UNCHANGED <<boot, pc, ranges, fbIdx, scratchNext, owned, code>>
        /\ pc = "alloc" /\ fbNext' = Cursor + 1
        /\ FallbackLeft /\ Cursor < ranges[fbIdx].end /\ pageOverlapsReserved(Cursor)
    BY <1>7 DEF FallbackSkip
  <2>2. \A p : InUse(p)' <=> InUse(p)
    BY <2>1 DEF InUse, OwnedPages, Live, KernelSpan, StackSpan, Pages
  <2>3. Cursor \in Nat
    BY <2>1, CursorType DEF AllocInv
  <2>4. InUse(Cursor)
    <3>1. Live(boot, Cursor) \/ Cursor \in boot.mmapPhys .. scratchNext - 1
      BY <1>0, <2>1, <2>3 DEF pageOverlapsReserved
    <3> QED
      BY <3>1 DEF ExhaustInv, PoolUsed, InUse
  <2>5. RangesUsed'
    <3>1. \A q : q = Cursor => InUse(q)'
      BY <2>2, <2>4
    <3> QED
      BY <1>6, <2>1, <2>2, <3>1
  <2>6. PoolUsed'
    BY <2>1, <2>2 DEF ExhaustInv, PoolUsed
  <2> QED
    BY <2>1, <2>5, <2>6 DEF ExhaustInv, NoZeroRange, RangePages, GivingUp
<1>8. CASE FallbackTake
  <2>1. /\ UNCHANGED <<boot, ranges, fbIdx, scratchNext, code>>
        /\ pc = "alloc" /\ pc' = "link" /\ fbNext' = Cursor + 1
        /\ FallbackLeft /\ Cursor < ranges[fbIdx].end
        /\ owned' = Append(owned, Cursor) /\ got' = Cursor
    BY <1>8 DEF FallbackTake, HandOut
  <2>2. Cursor \in Frames /\ Cursor \in RangePages(ranges[fbIdx]) /\ fbIdx \in DOMAIN ranges
    BY <2>1, CursorType DEF AllocInv
  <2>3. /\ \A q : InUse(q) => InUse(q)'
        /\ \A q : q = Cursor => InUse(q)'
    BY <2>1, <2>2, UseHandOut
  <2>4. RangesUsed'
    BY <1>6, <2>1, <2>3
  <2>5. PoolUsed'
    BY <2>1, <2>3 DEF ExhaustInv, PoolUsed
  <2>6. got' # 0
    BY <2>1, <2>2 DEF ExhaustInv, NoZeroRange
  <2> QED
    BY <2>1, <2>4, <2>5, <2>6 DEF ExhaustInv, NoZeroRange, RangePages, GivingUp
<1>9. CASE FallbackNextRange
  <2>1. /\ UNCHANGED <<boot, pc, ranges, scratchNext, owned, code>>
        /\ pc = "alloc" /\ fbIdx' = fbIdx + 1 /\ fbNext' = 0
        /\ FallbackLeft /\ Cursor >= ranges[fbIdx].end
    BY <1>9 DEF FallbackNextRange
  <2>2. \A p : InUse(p)' <=> InUse(p)
    BY <2>1 DEF InUse, OwnedPages, Live, KernelSpan, StackSpan, Pages
  <2>3. /\ fbIdx \in DOMAIN ranges /\ Cursor \in Nat
        /\ ranges[fbIdx].start \in Nat /\ ranges[fbIdx].end \in Nat
    BY <2>1, CursorType DEF AllocInv
  <2>4. ASSUME NEW p, Passed(p)' PROVE Passed(p)
    <3>1. PICK n \in DOMAIN ranges :
              p \in RangePages(ranges[n]) /\ (n < fbIdx + 1 \/ p < 0)
      BY <2>1, <2>4 DEF Passed, RangePages
    <3>2. n \in Nat /\ p \in Nat
      <4>1. n \in 1..Len(ranges) /\ Len(ranges) \in Nat
        BY <1>0, LenProperties
      <4>2. n \in Nat
        BY <4>1
      <4>3. RangePages(ranges[n]) \subseteq Frames
        BY RangeType DEF AllocInv
      <4>4. p \in Nat
        BY <3>1, <4>3, FramesAssumption
      <4> QED
        BY <4>2, <4>4
    <3>3. CASE n < fbIdx
      BY <3>1, <3>3 DEF Passed
    <3>4. CASE n = fbIdx
      <4>1. ranges[fbIdx].start <= p /\ p < ranges[fbIdx].end
        BY <2>3, <3>1, <3>2, <3>4 DEF RangePages
      <4>2. p < fbNext
        BY <1>0, <2>1, <2>3, <3>2, <4>1 DEF Cursor
      <4> QED
        BY <3>1, <3>4, <4>2 DEF Passed
    <3> QED
      BY <1>0, <3>1, <3>2, <3>3, <3>4
  <2> QED
    BY <2>1, <2>2, <2>4 DEF ExhaustInv, NoZeroRange, RangePages, PoolUsed, RangesUsed, GivingUp
<1>10. CASE NothingLeft
  <2>1. /\ UNCHANGED <<boot, ranges, mmapAllocEnd, scratchNext, fbIdx, fbNext, owned, code>>
        /\ pc = "alloc" /\ pc' = "link" /\ got' = 0
        /\ scratchNext >= mmapAllocEnd /\ fbIdx > Len(ranges)
    <3>1. ~ScratchLeft /\ ~FallbackLeft /\ Len(ranges) \in Nat
      BY <1>0, <1>10, LenProperties DEF NothingLeft
    <3> QED
      BY <1>0, <1>10, <3>1 DEF NothingLeft, ScratchLeft, ScratchEnd, FallbackLeft
  <2>2. \A p : (Passed(p)' <=> Passed(p)) /\ (InUse(p)' <=> InUse(p))
    BY <2>1 DEF Passed, RangePages, InUse, OwnedPages, Live, KernelSpan, StackSpan, Pages
  <2>3. \A p \in Pages(boot.mmapPhys, ScratchEnd - boot.mmapPhys) : InUse(p)
    <3>1. Pages(boot.mmapPhys, ScratchEnd - boot.mmapPhys) \subseteq boot.mmapPhys .. scratchNext - 1
      BY <1>0, <2>1 DEF Pages, ScratchEnd
    <3> QED
      BY <3>1 DEF ExhaustInv, PoolUsed
  <2>4. ASSUME NEW n \in DOMAIN ranges, NEW p \in RangePages(ranges[n]) PROVE InUse(p)
    <3>1. n \in 1..Len(ranges) /\ Len(ranges) \in Nat
      BY <1>0, LenProperties
    <3>2. n < fbIdx
      BY <1>0, <2>1, <3>1
    <3> QED
      BY <3>2 DEF Passed, ExhaustInv, RangesUsed
  <2>5. Exhausted
    BY <2>3, <2>4 DEF Exhausted
  <2>6. Exhausted'
    BY <2>1, <2>2, <2>5 DEF Exhausted, Pages, ScratchEnd, RangePages
  <2> QED
    BY <2>1, <2>2, <2>6 DEF ExhaustInv, NoZeroRange, RangePages, PoolUsed, RangesUsed, GivingUp
<1>11. CASE OutOfPages \/ LinkRoot \/ LinkTable
  BY <1>11, ExhaustUnchanged DEF OutOfPages, Fail, LinkRoot, LinkTable
<1>12. CASE StartRequest \/ Descend \/ NeedTable \/ SetPte \/ SwitchCr3
  BY <1>12, ExhaustUnchanged DEF StartRequest, Descend, NeedTable, SetPte, SwitchCr3
<1>13. CASE TouchLoad \/ TouchFlip \/ TouchRestore
  BY <1>13, ExhaustUnchanged DEF TouchLoad, TouchFlip, TouchRestore
<1>14. CASE Stopped \/ UNCHANGED vars
  BY <1>14, ExhaustUnchanged DEF Stopped, vars
<1> QED
  BY <1>1, <1>2, <1>3, <1>4, <1>5, <1>7, <1>8, <1>9, <1>10, <1>11, <1>12, <1>13,
     <1>14 DEF Next

(* Stage 1 gives up only when the pool and the cached ranges are used up,  *)
(* provided page 0, which allocPage cannot tell from a failure, is not     *)
(* conventional memory.                                                    *)
THEOREM GivesUpLate == PageZeroReserved => (Spec => []FailOnlyWhenExhausted)
<1> SUFFICES ASSUME PageZeroReserved PROVE Spec => []FailOnlyWhenExhausted
  OBVIOUS
<1>1. ASSUME Init PROVE ExhaustInv
  <2>1. /\ ranges = << >> /\ scratchNext = boot.mmapPhys /\ code = "none"
        /\ pc = "enter" /\ boot \in Boots
    BY <1>1 DEF Init
  <2>2. boot.mmapPhys \in Nat
    BY <2>1, BootType
  <2>3. DOMAIN ranges = {}
    BY <2>1
  <2> QED
    BY <2>1, <2>2, <2>3 DEF ExhaustInv, NoZeroRange, PoolUsed, RangesUsed, Passed, GivingUp
<1>2. ASSUME AllocInv, ExhaustInv, [Next]_vars PROVE ExhaustInv'
  BY <1>2, ExhaustStep
<1>3. ASSUME AllocInv, ExhaustInv PROVE FailOnlyWhenExhausted
  <2>1. code \in {"B", "C", "D", "E"} => Exhausted
    BY <1>3 DEF ExhaustInv, GivingUp
  <2> QED
    BY <2>1 DEF FailOnlyWhenExhausted, Exhausted, InUse, RangePages
<1> QED
  BY <1>1, <1>2, <1>3, Safety, PTL DEF Spec
-----------------------------------------------------------------------------
(* The ranges kept are conventional, and the pool is the rest of the       *)
(* buffer's descriptor, which the cursor does not leave.                   *)
Scanning == pc \in {"enter", "scan"}
RangesConventional ==
    \A n \in DOMAIN ranges : \E j \in 1..i :
        /\ RangePages(ranges[n]) = Pages(boot.descs[j].start, boot.descs[j].pages)
        /\ boot.descs[j].type = Conventional
PoolOfDescriptor ==
    \A j \in 1..i :
        Holds(boot.descs[j]) /\ (Scanning \/ EndOf(boot.descs[j]) # MmapEnd(boot)) =>
            mmapAllocEnd = EndOf(boot.descs[j]) /\ scratchNext <= mmapAllocEnd
OwnInv ==
    /\ Scanning => scratchNext = boot.mmapPhys
    /\ RangesConventional
    /\ PoolOfDescriptor

(* The descriptors of a boot record do not overlap.                        *)
LEMMA DescriptorFacts ==
    ASSUME NEW b \in Boots
    PROVE  /\ Len(b.descs) \in Nat /\ DOMAIN b.descs = 1..Len(b.descs)
           /\ \A j \in 1..Len(b.descs) :
                 b.descs[j].start \in Nat /\ b.descs[j].pages \in Nat
           /\ \A j, m \in 1..Len(b.descs) : j # m =>
                 Pages(b.descs[j].start, b.descs[j].pages)
                     \cap Pages(b.descs[m].start, b.descs[m].pages) = {}
<1>1. BootOK(b) /\ b.descs \in Seq(Descriptors)
  BY BootsAssumption, BootType
<1>2. Len(b.descs) \in Nat /\ DOMAIN b.descs = 1..Len(b.descs)
      /\ \A j \in 1..Len(b.descs) : b.descs[j] \in Descriptors
  BY <1>1, LenProperties
<1>3. \A j \in 1..Len(b.descs) : b.descs[j].start \in Nat /\ b.descs[j].pages \in Nat
  BY <1>2, FramesAssumption DEF Descriptors
<1> QED
  BY <1>1, <1>2, <1>3 DEF BootOK

(* A descriptor read: the buffer's own gives the end of the pool, and no   *)
(* other one holds the buffer.                                             *)
LEMMA OwnScan ==
    ASSUME AllocInv, OwnInv, ScanDescriptor
    PROVE  OwnInv'
<1> DEFINE d == boot.descs[i + 1]
<1>1. /\ pc = "scan" /\ i < Len(boot.descs) /\ i' = i + 1
      /\ UNCHANGED <<boot, pc, scratchNext>>
      /\ mmapAllocEnd' = IF Holds(d) THEN EndOf(d) ELSE mmapAllocEnd
      /\ ranges' = IF d.type = Conventional /\ d.pages > 0
                   THEN Append(ranges, [start |-> d.start, end |-> EndOf(d)])
                   ELSE ranges
  BY DEF ScanDescriptor, MoreToScan, poolVars, Holds
<1>2. /\ boot \in Boots /\ i \in Nat /\ ranges \in Seq([start : Frames, end : Nat])
      /\ Len(boot.descs) \in Nat
  BY DescriptorFacts DEF AllocInv, TypeOK, ControlType, ScanType
<1>3. i + 1 \in 1..Len(boot.descs) /\ \A j \in 1..i : j \in 1..Len(boot.descs) /\ j # i + 1
  BY <1>1, <1>2
<1>4. d.start \in Nat /\ d.pages \in Nat /\ boot.mmapPhys \in Nat
  BY <1>2, <1>3, BootType, DescriptorFacts
<1>5. \A j \in 1..i' : j = i + 1 \/ j \in 1..i
  BY <1>1, <1>2
<1>6. RangesConventional'
  <2> SUFFICES ASSUME NEW n \in DOMAIN ranges'
               PROVE  \E j \in 1..i + 1 :
                         /\ RangePages(ranges'[n]) = Pages(boot.descs[j].start, boot.descs[j].pages)
                         /\ boot.descs[j].type = Conventional
    BY <1>1 DEF RangesConventional, RangePages
  <2>1. ASSUME n \in DOMAIN ranges, ranges'[n] = ranges[n]
        PROVE  \E j \in 1..i + 1 :
                  /\ RangePages(ranges'[n]) = Pages(boot.descs[j].start, boot.descs[j].pages)
                  /\ boot.descs[j].type = Conventional
    <3>1. PICK j \in 1..i : /\ RangePages(ranges[n]) = Pages(boot.descs[j].start, boot.descs[j].pages)
                            /\ boot.descs[j].type = Conventional
      BY <2>1 DEF OwnInv, RangesConventional
    <3>2. j \in 1..i + 1
      BY <1>2
    <3> QED
      BY <2>1, <3>1, <3>2
  <2>2. CASE ranges' = ranges
    BY <2>1, <2>2
  <2>3. CASE ranges' # ranges
    <3> DEFINE r == [start |-> d.start, end |-> EndOf(d)]
    <3>1. ranges' = Append(ranges, r) /\ d.type = Conventional
      BY <1>1, <2>3
    <3>2. RangePages(r) = Pages(d.start, d.pages)
      <4> DEFINE x == d.start
                 y == d.pages
      <4>1. RangePages(r) = x .. (x + y) - 1 /\ Pages(d.start, d.pages) = x .. x + y - 1
        BY DEF RangePages, Pages, EndOf
      <4>2. x \in Nat /\ y \in Nat
        BY <1>4
      <4> HIDE DEF x, y, r
      <4> QED
        BY <4>1, <4>2
    <3> HIDE DEF r
    <3>3. \/ n \in DOMAIN ranges /\ ranges'[n] = ranges[n]
          \/ ranges'[n] = r
      <4>1. /\ Len(ranges) \in Nat /\ DOMAIN ranges = 1..Len(ranges)
            /\ DOMAIN ranges' = 1..Len(ranges) + 1
            /\ \A m \in 1..Len(ranges) : ranges'[m] = ranges[m]
            /\ ranges'[Len(ranges) + 1] = r
        BY <1>2, <3>1
      <4> QED
        BY <4>1
    <3>4. i + 1 \in 1..i + 1
      BY <1>2
    <3> QED
      BY <2>1, <3>1, <3>2, <3>3, <3>4
  <2> QED
    BY <2>2, <2>3
<1>7. PoolOfDescriptor'
  <2> SUFFICES ASSUME NEW j \in 1..i + 1, Holds(boot.descs[j])
               PROVE  mmapAllocEnd' = EndOf(boot.descs[j]) /\ scratchNext <= mmapAllocEnd'
    BY <1>1 DEF PoolOfDescriptor, Holds, EndOf, MmapEnd, Scanning
  <2>1. /\ scratchNext = boot.mmapPhys /\ j \in 1..Len(boot.descs)
        /\ boot.descs[j].start \in Nat /\ boot.descs[j].pages \in Nat
    BY <1>1, <1>2, <1>3, <1>5, DescriptorFacts DEF OwnInv, Scanning
  <2>2. boot.mmapPhys <= EndOf(boot.descs[j])
    <3> DEFINE x == boot.descs[j].start
               y == boot.descs[j].pages
    <3>1. boot.mmapPhys \in x .. x + y - 1 /\ EndOf(boot.descs[j]) = x + y
      BY DEF Holds, Pages, EndOf
    <3>2. x \in Nat /\ y \in Nat
      BY <2>1
    <3> HIDE DEF x, y
    <3> QED
      BY <1>4, <3>1, <3>2
  <2>3. mmapAllocEnd' = EndOf(boot.descs[j])
    <3>1. CASE j = i + 1
      BY <1>1, <3>1
    <3>2. CASE j \in 1..i
      <4>1. ~Holds(d)
        BY <1>2, <1>3, <3>2, DescriptorFacts DEF Holds
      <4>2. mmapAllocEnd = EndOf(boot.descs[j])
        BY <1>1, <3>2 DEF OwnInv, PoolOfDescriptor, Scanning
      <4> QED
        BY <1>1, <4>1, <4>2
    <3> QED
      BY <1>1, <1>5, <3>1, <3>2
  <2> QED
    BY <2>1, <2>2, <2>3
<1> QED
  BY <1>1, <1>6, <1>7 DEF OwnInv, Scanning

(* The other steps: the pool's cursor moves by one page that is left.      *)
LEMMA OwnStep == AllocInv /\ OwnInv /\ [Next]_vars => OwnInv'
<1> SUFFICES ASSUME AllocInv, OwnInv, [Next]_vars PROVE OwnInv'
  OBVIOUS
<1> USE DEF scanVars, poolVars, walkVars
<1>1. ASSUME UNCHANGED <<boot, i, ranges, mmapAllocEnd>>, Scanning' => Scanning,
             \/ scratchNext' = scratchNext
             \/ ~Scanning /\ ScratchLeft /\ scratchNext' = scratchNext + 1
      PROVE  OwnInv'
  <2>1. RangesConventional'
    BY <1>1 DEF OwnInv, RangesConventional, RangePages
  <2>2. scratchNext \in Nat /\ mmapAllocEnd \in Nat
    BY DEF AllocInv, TypeOK, ScanType, PoolType
  <2>3. ASSUME scratchNext <= mmapAllocEnd PROVE scratchNext' <= mmapAllocEnd
    BY <1>1, <2>2, <2>3 DEF ScratchLeft, ScratchEnd
  <2>4. PoolOfDescriptor'
    BY <1>1, <2>3 DEF OwnInv, PoolOfDescriptor, Holds, EndOf, MmapEnd
  <2> QED
    BY <1>1, <2>1, <2>4 DEF OwnInv
<1>2. CASE ScanDescriptor
  BY <1>2, OwnScan
<1>3. CASE EndScan
  <2>1. /\ pc = "scan" /\ pc' = "alloc" /\ UNCHANGED <<boot, i, ranges, scratchNext>>
        /\ mmapAllocEnd' = IF mmapAllocEnd = MmapEnd(boot) THEN Headroom(boot) ELSE mmapAllocEnd
    BY <1>3 DEF EndScan
  <2>2. PoolOfDescriptor'
    <3> SUFFICES ASSUME NEW j \in 1..i, Holds(boot.descs[j]), EndOf(boot.descs[j]) # MmapEnd(boot)
                 PROVE  mmapAllocEnd' = EndOf(boot.descs[j]) /\ scratchNext <= mmapAllocEnd'
      BY <2>1 DEF PoolOfDescriptor, Holds, EndOf, MmapEnd, Scanning
    <3>1. mmapAllocEnd = EndOf(boot.descs[j]) /\ scratchNext <= mmapAllocEnd
      BY <2>1 DEF OwnInv, PoolOfDescriptor, Scanning
    <3> QED
      BY <2>1, <3>1
  <2> QED
    BY <2>1, <2>2 DEF OwnInv, RangesConventional, RangePages, Scanning
<1>4. CASE ScratchSkip \/ ScratchTake
  <2>1. /\ pc = "alloc" /\ pc' \in {"alloc", "link"} /\ ScratchLeft /\ scratchNext' = scratchNext + 1
        /\ UNCHANGED <<boot, i, ranges, mmapAllocEnd>>
    BY <1>4 DEF ScratchSkip, ScratchTake, HandOut
  <2> QED
    BY <1>1, <2>1 DEF Scanning
<1>5. CASE AcceptMap \/ RejectMap
  <2>1. pc = "enter" /\ UNCHANGED <<boot, i, ranges, mmapAllocEnd, scratchNext>>
    BY <1>5 DEF AcceptMap, RejectMap, Fail
  <2> QED
    BY <1>1, <2>1 DEF Scanning
<1>6. CASE FallbackSkip \/ FallbackTake \/ FallbackNextRange \/ NothingLeft
  <2>1. pc' \in {"alloc", "link"} /\ UNCHANGED <<boot, i, ranges, mmapAllocEnd, scratchNext>>
    BY <1>6 DEF FallbackSkip, FallbackTake, FallbackNextRange, NothingLeft, HandOut
  <2> QED
    BY <1>1, <2>1 DEF Scanning
<1>7. CASE OutOfPages \/ LinkRoot \/ LinkTable \/ StartRequest \/ Descend \/ NeedTable \/ SetPte
  <2>1. pc' \notin {"enter", "scan"} /\ UNCHANGED <<boot, i, ranges, mmapAllocEnd, scratchNext>>
    BY <1>7 DEF OutOfPages, LinkRoot, LinkTable, StartRequest, Descend, NeedTable, SetPte, Fail
  <2> QED
    BY <1>1, <2>1 DEF Scanning
<1>8. CASE SwitchCr3 \/ TouchLoad \/ TouchFlip \/ TouchRestore
  <2>1. pc' \notin {"enter", "scan"} /\ UNCHANGED <<boot, i, ranges, mmapAllocEnd, scratchNext>>
    BY <1>8 DEF SwitchCr3, TouchLoad, TouchFlip, TouchRestore
  <2> QED
    BY <1>1, <2>1 DEF Scanning
<1>9. CASE UNCHANGED vars
  BY <1>1, <1>9 DEF vars, Scanning
<1> QED
  BY <1>2, <1>3, <1>4, <1>5, <1>6, <1>7, <1>8, <1>9 DEF Next, Stopped

(* Where the scan found the buffer's descriptor, every page taken for a    *)
(* table belongs to it or to conventional memory, for every memory map and *)
(* every placement (init.cpp:942-1018).                                    *)
THEOREM TablesInOwnMemory == Spec => []OwnMemory
<1>1. Init => OwnInv
  <2> SUFFICES ASSUME Init PROVE OwnInv
    OBVIOUS
  <2>1. i = 0 /\ ranges = << >> /\ scratchNext = boot.mmapPhys
    BY DEF Init
  <2>2. DOMAIN ranges = {} /\ 1..i = {}
    BY <2>1
  <2> QED
    BY <2>1, <2>2 DEF OwnInv, RangesConventional, PoolOfDescriptor
<1>2. AllocInv /\ OwnInv => OwnMemory
  <2> SUFFICES ASSUME AllocInv, OwnInv, BufferFound, NEW m \in DOMAIN owned
               PROVE  \E n \in DOMAIN boot.descs :
                         LET d == boot.descs[n]
                         IN  /\ owned[m] \in Pages(d.start, d.pages)
                             /\ d.type = Conventional \/ boot.mmapPhys \in Pages(d.start, d.pages)
    BY DEF OwnMemory, OwnedPages
  <2>1. boot \in Boots /\ i \in 0..Len(boot.descs) /\ scratchNext \in Nat
    BY DEF AllocInv, TypeOK, ControlType, ScanType, PoolType
  <2>2. \A j \in 1..i : j \in DOMAIN boot.descs
    BY <2>1, DescriptorFacts
  <2>3. CASE owned[m] \in boot.mmapPhys .. scratchNext - 1
    <3>1. PICK j \in 1..i : Holds(boot.descs[j]) /\ EndOf(boot.descs[j]) # MmapEnd(boot)
      BY DEF BufferFound
    <3>2. scratchNext <= EndOf(boot.descs[j])
      BY <3>1 DEF OwnInv, PoolOfDescriptor
    <3>3. boot.descs[j].start \in Nat /\ boot.descs[j].pages \in Nat /\ boot.mmapPhys \in Nat
      BY <2>1, <2>2, DescriptorFacts, BootType
    <3>4. owned[m] \in Pages(boot.descs[j].start, boot.descs[j].pages)
      <4> DEFINE x == boot.descs[j].start
                 y == boot.descs[j].pages
      <4>1. boot.mmapPhys \in x .. x + y - 1 /\ scratchNext <= x + y
        BY <3>1, <3>2 DEF Holds, Pages, EndOf
      <4>2. x \in Nat /\ y \in Nat /\ boot.mmapPhys \in Nat
        BY <3>3
      <4> HIDE DEF x, y
      <4>3. owned[m] \in x .. x + y - 1
        BY <2>1, <2>3, <4>1, <4>2
      <4> QED
        BY <4>3 DEF x, y, Pages
    <3> QED
      BY <2>2, <3>1, <3>4 DEF Holds
  <2>4. CASE Passed(owned[m])
    <3>1. PICK n \in DOMAIN ranges : owned[m] \in RangePages(ranges[n])
      BY <2>4 DEF Passed
    <3>2. PICK j \in 1..i : /\ RangePages(ranges[n]) = Pages(boot.descs[j].start, boot.descs[j].pages)
                            /\ boot.descs[j].type = Conventional
      BY DEF OwnInv, RangesConventional
    <3> QED
      BY <2>2, <3>1, <3>2
  <2> QED
    BY <2>3, <2>4 DEF AllocInv, Handed
<1> QED
  BY <1>1, <1>2, OwnStep, Safety, PTL DEF Spec

-----------------------------------------------------------------------------
(* Stage 1 implements AddressSpace. The tables form a tree, each reached   *)
(* by one prefix of a virtual address only, so that linking a table or     *)
(* setting an entry changes no other translation. So what the tables       *)
(* translate is, after k requests, exactly the first k mappings asked for, *)
(* whatever pages the tables were taken from and although the touch test   *)
(* writes over a word of the root table.                                   *)

(* Division: a virtual page number is its four indexes.                    *)

LEMMA DivIs ==
    ASSUME NEW a \in Nat, NEW d \in Nat \ {0}, NEW q \in Nat, NEW r \in 0..d - 1,
           a = q * d + r
    PROVE  a \div d = q /\ a % d = r
  OBVIOUS

LEMMA DivSplit ==
    ASSUME NEW a \in Nat, NEW d \in Nat \ {0}
    PROVE  /\ a \div d \in Nat /\ a % d \in 0..d - 1
           /\ a = (a \div d) * d + (a % d)
  OBVIOUS

Div(a, b) == a \div b

LEMMA DivDiv ==
    ASSUME NEW a \in Nat, NEW b \in Nat \ {0}, NEW c \in Nat \ {0}, NEW d, d = b * c
    PROVE  Div(Div(a, b), c) = Div(a, d)
<1> DEFINE q == a \div b
           r == a % b
           p == q \div c
           s == q % c
<1>1. q \in Nat /\ r \in 0..b - 1 /\ a = q * b + r
  BY DivSplit
<1>2. p \in Nat /\ s \in 0..c - 1 /\ q = p * c + s
  BY <1>1, DivSplit
<1> HIDE DEF q, r, p, s
<1>3. b * c \in Nat \ {0}
  OBVIOUS
<1>4. s * b + r \in 0..b * c - 1
  <2>1. s * b <= (c - 1) * b
    BY <1>2
  <2>2. (c - 1) * b = b * c - b
    OBVIOUS
  <2>3. s * b \in Nat
    BY <1>2
  <2> QED
    BY <1>1, <1>3, <2>1, <2>2, <2>3
<1>5. a = p * (b * c) + (s * b + r)
  <2>1. (p * c + s) * b = p * (b * c) + s * b
    BY <1>2
  <2> QED
    BY <1>1, <1>2, <2>1
<1>6. a \div (b * c) = p
  BY <1>2, <1>3, <1>4, <1>5, DivIs
<1> QED
  BY <1>6 DEF p, q, Div

R2 == Radix * Radix
R3 == Radix * Radix * Radix
R4 == Radix * Radix * Radix * Radix

LEMMA Powers ==
    /\ Radix \in Nat \ {0} /\ Radix >= 2
    /\ R2 \in Nat \ {0} /\ R3 \in Nat \ {0} /\ R4 \in Nat \ {0}
    /\ R2 = Radix * Radix /\ R3 = R2 * Radix /\ R4 = R3 * Radix
    /\ VPages = 0..R4 - 1 /\ R4 >= 2 * R3
<1>1. Radix \in Nat \ {0} /\ Radix >= 2
  BY RadixAssumption
<1>2. R2 = Radix * Radix /\ R3 = R2 * Radix /\ R4 = R3 * Radix
  BY DEF R2, R3, R4
<1>3. R2 \in Nat \ {0}
  BY <1>1, <1>2
<1>4. R3 \in Nat \ {0}
  BY <1>1, <1>2, <1>3
<1>5. R4 \in Nat \ {0} /\ R4 >= 2 * R3
  BY <1>1, <1>2, <1>4
<1>6. VPages = 0..R4 - 1
  BY DEF VPages, R4
<1> QED
  BY <1>1, <1>2, <1>3, <1>4, <1>5, <1>6

(* The quotients left of each index.                                       *)
Q1(v) == v \div Radix
Q2(v) == Q1(v) \div Radix
Q3(v) == Q2(v) \div Radix

LEMMA SpanIs == Span[0] = R3 /\ Span[1] = R2 /\ Span[2] = Radix /\ Span[3] = 1
  BY DEF Span, R2, R3

LEMMA Digits ==
    ASSUME NEW v \in VPages
    PROVE  /\ v \in Nat
           /\ Q1(v) \in Nat /\ Q2(v) \in Nat /\ Q3(v) \in Nat
           /\ v = Q1(v) * Radix + Idx(3, v)
           /\ Q1(v) = Q2(v) * Radix + Idx(2, v)
           /\ Q2(v) = Q3(v) * Radix + Idx(1, v)
           /\ Q3(v) = Idx(0, v) /\ Q3(v) = v \div R3
<1> DEFINE q1 == Q1(v)
           q2 == Q2(v)
           q3 == Q3(v)
<1>1. /\ Radix \in Nat \ {0} /\ R2 \in Nat \ {0} /\ R3 \in Nat \ {0}
      /\ R4 \in Nat \ {0} /\ v \in 0..R4 - 1 /\ v \in Nat
  BY Powers
<1>13. R2 = Radix * Radix /\ R3 = R2 * Radix /\ R4 = R3 * Radix
  BY Powers
<1>2. q1 \in Nat /\ v = q1 * Radix + (v % Radix)
  BY <1>1, DivSplit DEF Q1
<1>3. q2 \in Nat /\ q1 = q2 * Radix + (q1 % Radix)
  BY <1>1, <1>2, DivSplit DEF Q2
<1>4. q3 \in Nat /\ q2 = q3 * Radix + (q2 % Radix)
  BY <1>1, <1>3, DivSplit DEF Q3
<1>5. q2 = v \div R2
  <2>1. v \in Nat /\ Radix \in Nat \ {0} /\ R2 = Radix * Radix
    BY <1>1, <1>13
  <2>2. Div(Div(v, Radix), Radix) = Div(v, R2)
    BY <2>1, DivDiv
  <2> QED
    BY <2>2 DEF Div, Q1, Q2
<1>6. q3 = v \div R3
  <2>1. (v \div R2) \div Radix = v \div R3
    <3>1. /\ v \in Nat /\ Radix \in Nat \ {0} /\ R2 \in Nat \ {0}
          /\ R3 = R2 * Radix
      BY <1>1, <1>13
    <3>2. Div(Div(v, R2), Radix) = Div(v, R3)
      BY <3>1, DivDiv
    <3> QED
      BY <3>2 DEF Div
  <2> QED
    BY <1>5, <2>1 DEF Q3
<1>7. q3 % Radix = q3
  <2>1. v \div R3 \in Nat /\ (v % R3) \in Nat /\ v = (v \div R3) * R3 + (v % R3)
    <3>1. v \in Nat /\ R3 \in Nat \ {0}
      BY <1>1
    <3>2. (v % R3) \in 0..R3 - 1 /\ v \div R3 \in Nat /\ v = (v \div R3) * R3 + (v % R3)
      BY <3>1, DivSplit
    <3> QED
      BY <3>1, <3>2
  <2> DEFINE d == v \div R3
             r == v % R3
  <2>2. d \in Nat /\ r \in Nat /\ v = d * R3 + r
    BY <2>1
  <2>3. q3 = d
    BY <1>6
  <2> HIDE DEF d, r, q3
  <2>4. ASSUME d >= Radix PROVE FALSE
    <3>1. d * R3 >= Radix * R3
      BY <1>1, <2>2, <2>4
    <3>2. Radix * R3 = R4
      BY <1>1, <1>13
    <3>3. d * R3 \in Nat
      BY <1>1, <2>2
    <3> QED
      BY <1>1, <2>2, <3>1, <3>2, <3>3
  <2>5. d \in 0..Radix - 1 /\ d = 0 * Radix + d
    BY <1>1, <2>2, <2>4
  <2>6. d % Radix = d
    BY <1>1, <2>5, DivIs
  <2> QED
    BY <2>3, <2>6
<1> HIDE DEF q1, q2, q3
<1>8. Idx(0, v) = q3
  BY <1>6, <1>7, SpanIs DEF Idx
<1>9. Idx(1, v) = q2 % Radix
  BY <1>5, SpanIs DEF Idx
<1>10. Idx(2, v) = q1 % Radix
  BY SpanIs DEF Idx, Q1, q1
<1>11. Idx(3, v) = v % Radix
  <2>1. v \div 1 = v
    BY <1>1
  <2> QED
    BY <2>1, SpanIs DEF Idx
<1>12. v \in Nat
  BY <1>1
<1> QED
  BY <1>2, <1>3, <1>4, <1>6, <1>8, <1>9, <1>10, <1>11, <1>12 DEF q1, q2, q3

LEMMA SameIndexes ==
    ASSUME NEW u \in VPages, NEW v \in VPages, \A l \in Levels : Idx(l, u) = Idx(l, v)
    PROVE  u = v
<1>1. Q3(u) = Q3(v)
  <2>1. Q3(u) = Idx(0, u) /\ Q3(v) = Idx(0, v)
    BY Digits
  <2>2. Idx(0, u) = Idx(0, v)
    OBVIOUS
  <2> QED
    BY <2>1, <2>2
<1>2. Q2(u) = Q2(v)
  <2>1. Q2(u) = Q3(u) * Radix + Idx(1, u) /\ Q2(v) = Q3(v) * Radix + Idx(1, v)
    BY Digits
  <2>2. Idx(1, u) = Idx(1, v)
    OBVIOUS
  <2> QED
    BY <1>1, <2>1, <2>2
<1>3. Q1(u) = Q1(v)
  <2>1. Q1(u) = Q2(u) * Radix + Idx(2, u) /\ Q1(v) = Q2(v) * Radix + Idx(2, v)
    BY Digits
  <2>2. Idx(2, u) = Idx(2, v)
    OBVIOUS
  <2> QED
    BY <1>2, <2>1, <2>2
<1> QED
  <2>1. u = Q1(u) * Radix + Idx(3, u) /\ v = Q1(v) * Radix + Idx(3, v)
    BY Digits
  <2>2. Idx(3, u) = Idx(3, v)
    OBVIOUS
  <2> QED
    BY <1>3, <2>1, <2>2

(* The upper half of the address space is in the upper entries of the root *)
(* table.                                                                  *)
LEMMA UpperHalf ==
    /\ UPPER_HALF \in Nat
    /\ \A p \in Nat : p < UPPER_HALF => p \in VPages /\ p + UPPER_HALF \in VPages
    /\ \A v \in VPages : v >= UPPER_HALF => Idx(0, v) # 0
<1>1. UPPER_HALF = R4 \div 2
  BY DEF UPPER_HALF, R4
<1>2. R4 \in Nat \ {0} /\ R3 \in Nat \ {0} /\ VPages = 0..R4 - 1 /\ R4 >= 2 * R3
  BY Powers
<1>3. UPPER_HALF \in Nat /\ 2 * UPPER_HALF <= R4 /\ R3 <= UPPER_HALF
  BY <1>1, <1>2
<1>4. ASSUME NEW v \in VPages, v >= UPPER_HALF, Idx(0, v) = 0 PROVE FALSE
  <2>1. v \div R3 = 0
    BY <1>4, Digits
  <2>2. (v % R3) \in 0..R3 - 1 /\ v = (v \div R3) * R3 + (v % R3)
    BY <1>2, DivSplit, SMTT(30)
  <2>3. v = v % R3
    BY <1>2, <2>1, <2>2
  <2> QED
    BY <1>2, <1>3, <1>4, <2>2, <2>3
<1> QED
  BY <1>2, <1>3, <1>4
-----------------------------------------------------------------------------
(* The requests ask for the goal, page by page.                            *)

LowFrames == {p \in Frames : p < UPPER_HALF}

LEMMA IdentityRange ==
    ASSUME NEW b \in Boots
    PROVE  /\ Identity(b) \in Seq(LowFrames)
           /\ \E n \in 1..Len(Identity(b)) : Identity(b)[n] = b.mmapPhys
<1>1. BootOK(b)
  BY BootsAssumption
<1>2. /\ b.kernelPages \in Nat /\ STACK_PAGES \in Nat
      /\ b.kernelPhys \in Nat /\ b.stackPhys \in Nat
      /\ b.mmapPhys \in LowFrames /\ LapicPage \in LowFrames
  BY <1>1, FramesAssumption, LimitsAssumption DEF BootOK, LowFrames
<1> DEFINE A == [n \in 1..b.kernelPages |-> b.kernelPhys + n - 1]
           B == [n \in 1..STACK_PAGES |-> b.stackPhys + n - 1]
           C == << b.mmapPhys, LapicPage >>
<1>3. A \in Seq(LowFrames)
  <2>1. \A n \in 1..b.kernelPages : b.kernelPhys + n - 1 \in KernelSpan(b)
    BY <1>2 DEF KernelSpan, Pages
  <2>2. \A n \in 1..b.kernelPages : b.kernelPhys + n - 1 \in LowFrames
    BY <1>1, <2>1 DEF BootOK, LowFrames
  <2> QED
    BY <1>2, <2>2
<1>4. B \in Seq(LowFrames)
  <2>1. \A n \in 1..STACK_PAGES : b.stackPhys + n - 1 \in StackSpan(b)
    BY <1>2 DEF StackSpan, Pages
  <2>2. \A n \in 1..STACK_PAGES : b.stackPhys + n - 1 \in LowFrames
    BY <1>1, <2>1 DEF BootOK, LowFrames
  <2> QED
    BY <1>2, <2>2
<1>5. C \in Seq(LowFrames) /\ Len(C) = 2 /\ C[1] = b.mmapPhys
  BY <1>2
<1>6. Identity(b) = (A \o B) \o C
  BY DEF Identity
<1> HIDE DEF A, B, C
<1>7. A \o B \in Seq(LowFrames)
  BY <1>3, <1>4, ConcatProperties
<1> DEFINE AB == A \o B
<1>8. AB \in Seq(LowFrames) /\ Len(AB) \in Nat
  BY <1>7, LenProperties
<1> HIDE DEF AB
<1>9. /\ AB \o C \in Seq(LowFrames) /\ Len(AB \o C) = Len(AB) + Len(C)
      /\ \A n \in 1..Len(AB) + Len(C) :
            (AB \o C)[n] = IF n <= Len(AB) THEN AB[n] ELSE C[n - Len(AB)]
  BY <1>5, <1>8, ConcatProperties
<1>10. Identity(b) = AB \o C
  BY <1>6 DEF AB
<1>11. Len(AB) + 1 \in 1..Len(AB \o C) /\ (AB \o C)[Len(AB) + 1] = b.mmapPhys
  <2>1. Len(AB) + 1 \in 1..Len(AB) + Len(C) /\ ~(Len(AB) + 1 <= Len(AB))
        /\ Len(AB) + 1 - Len(AB) = 1
    BY <1>5, <1>8
  <2> QED
    BY <1>5, <1>9, <2>1
<1> QED
  BY <1>9, <1>10, <1>11

LEMMA WorkIs ==
    ASSUME NEW b \in Boots
    PROVE  LET ps == Identity(b) IN
           /\ Len(ps) \in Nat /\ Len(Work(b)) = Len(ps) + Len(ps)
           /\ \A n \in 1..Len(ps) : Work(b)[n] = [v |-> ps[n], p |-> ps[n]]
           /\ \A n \in 1..Len(ps) :
                 Work(b)[Len(ps) + n] = [v |-> ps[n] + UPPER_HALF, p |-> ps[n]]
<1> DEFINE ps == Identity(b)
           low == [n \in 1..Len(ps) |-> [v |-> ps[n], p |-> ps[n]]]
           high == [n \in 1..Len(ps) |-> [v |-> ps[n] + UPPER_HALF, p |-> ps[n]]]
           E == [v : Nat, p : Frames]
<1>1. ps \in Seq(LowFrames) /\ Len(ps) \in Nat
  BY IdentityRange, LenProperties
<1> HIDE DEF ps
<1>2. \A n \in 1..Len(ps) : ps[n] \in Frames /\ ps[n] \in Nat /\ ps[n] + UPPER_HALF \in Nat
  <2> TAKE n \in 1..Len(ps)
  <2>1. ps[n] \in LowFrames
    BY <1>1, ElementOfSeq
  <2>2. ps[n] \in Frames /\ ps[n] \in Nat
    BY <2>1, FramesAssumption DEF LowFrames
  <2> QED
    BY <2>2, UpperHalfNat
<1>3. low \in Seq(E) /\ Len(low) = Len(ps)
  BY <1>1, <1>2
<1>4. high \in Seq(E) /\ Len(high) = Len(ps)
  BY <1>1, <1>2
<1>5. Work(b) = low \o high
  BY DEF Work, ps
<1>6. /\ Len(low \o high) = Len(low) + Len(high)
      /\ \A n \in 1..Len(low) + Len(high) :
            (low \o high)[n] = IF n <= Len(low) THEN low[n] ELSE high[n - Len(low)]
  <2> HIDE DEF low, high, E
  <2> QED
    BY <1>3, <1>4, ConcatProperties
<1>7. \A n \in 1..Len(ps) :
         /\ low[n] = [v |-> ps[n], p |-> ps[n]]
         /\ high[n] = [v |-> ps[n] + UPPER_HALF, p |-> ps[n]]
  OBVIOUS
<1> HIDE DEF low, high
<1>8. ASSUME NEW n \in 1..Len(ps)
      PROVE  /\ Work(b)[n] = low[n]
             /\ Work(b)[Len(ps) + n] = high[n]
  <2>1. n \in 1..Len(low) + Len(high) /\ n <= Len(low)
    BY <1>1, <1>3, <1>4
  <2>2. /\ Len(ps) + n \in 1..Len(low) + Len(high) /\ ~(Len(ps) + n <= Len(low))
        /\ (Len(ps) + n) - Len(low) = n
    BY <1>1, <1>3, <1>4
  <2> QED
    BY <1>5, <1>6, <2>1, <2>2
<1>9. Len(Work(b)) = Len(ps) + Len(ps)
  BY <1>3, <1>4, <1>5, <1>6
<1> QED
  BY <1>1, <1>7, <1>8, <1>9 DEF ps

LEMMA WorkGoal ==
    ASSUME NEW b \in Boots
    PROVE  /\ Len(Work(b)) \in Nat
           /\ \A n \in 1..Len(Work(b)) :
                 /\ Work(b)[n].v \in VPages /\ Work(b)[n].v \in DOMAIN GoalOf(b)
                 /\ Work(b)[n].p \in Frames /\ Work(b)[n].p = GoalOf(b)[Work(b)[n].v]
           /\ \A v \in DOMAIN GoalOf(b) : \E n \in 1..Len(Work(b)) : Work(b)[n].v = v
           /\ b.mmapPhys + UPPER_HALF \in DOMAIN GoalOf(b)
           /\ GoalOf(b)[b.mmapPhys + UPPER_HALF] = b.mmapPhys
<1> DEFINE ps == Identity(b)
           S == {ps[n] : n \in 1..Len(ps)}
           T == {p + UPPER_HALF : p \in S}
<1>1. ps \in Seq(LowFrames) /\ Len(ps) \in Nat /\ DOMAIN ps = 1..Len(ps)
  BY IdentityRange, LenProperties
<1>2. GoalOf(b) = [v \in S \cup T |-> IF v \in S THEN v ELSE v - UPPER_HALF]
  BY <1>1 DEF GoalOf
<1>3. /\ Len(Work(b)) = Len(ps) + Len(ps)
      /\ \A n \in 1..Len(ps) :
            /\ Work(b)[n] = [v |-> ps[n], p |-> ps[n]]
            /\ Work(b)[Len(ps) + n] = [v |-> ps[n] + UPPER_HALF, p |-> ps[n]]
  BY WorkIs
<1>4. b.mmapPhys \in S
  BY IdentityRange
<1> HIDE DEF ps
<1>5. \A n \in 1..Len(ps) : ps[n] \in S /\ ps[n] \in Frames /\ ps[n] \in Nat /\ ps[n] < UPPER_HALF
  <2> TAKE n \in 1..Len(ps)
  <2>1. ps[n] \in LowFrames
    BY <1>1, ElementOfSeq
  <2> QED
    BY <2>1, FramesAssumption DEF LowFrames
<1>6. \A p \in S : p \in Frames /\ p \in Nat /\ p < UPPER_HALF /\ \E n \in 1..Len(ps) : ps[n] = p
  BY <1>5
<1> HIDE DEF S
<1>7. \A p \in S : /\ p \in DOMAIN GoalOf(b) /\ GoalOf(b)[p] = p
                   /\ p + UPPER_HALF \in DOMAIN GoalOf(b)
                   /\ GoalOf(b)[p + UPPER_HALF] = p
  <2> TAKE p \in S
  <2>1. p + UPPER_HALF \notin S
    BY <1>6, UpperHalfNat
  <2>2. p + UPPER_HALF - UPPER_HALF = p
    BY <1>6, UpperHalfNat
  <2>3. p \in S \cup T /\ p + UPPER_HALF \in S \cup T
    OBVIOUS
  <2> HIDE DEF T
  <2>4. DOMAIN GoalOf(b) = S \cup T
    BY <1>2
  <2>5. GoalOf(b)[p] = p
    BY <1>2, <2>3
  <2>6. GoalOf(b)[p + UPPER_HALF] = p
    <3> DEFINE v == p + UPPER_HALF
    <3>1. v \in S \cup T /\ v \notin S /\ v - UPPER_HALF = p
      BY <1>6, <2>1, <2>3, UpperHalfNat
    <3> HIDE DEF v
    <3>2. GoalOf(b)[v] = p
      BY <1>2, <3>1
    <3> QED
      BY <3>2 DEF v
  <2> QED
    BY <2>3, <2>4, <2>5, <2>6
<1>8. \A n \in 1..Len(Work(b)) : \E m \in 1..Len(ps) :
         n = m \/ n = Len(ps) + m
  <2> TAKE n \in 1..Len(Work(b))
  <2>1. CASE n <= Len(ps)
    BY <1>1, <1>3, <2>1
  <2>2. CASE n > Len(ps)
    <3>1. n - Len(ps) \in 1..Len(ps) /\ n = Len(ps) + (n - Len(ps))
      BY <1>1, <1>3, <2>2
    <3> QED
      BY <3>1
  <2> QED
    BY <1>1, <1>3, <2>1, <2>2
<1>9. ASSUME NEW n \in 1..Len(Work(b))
      PROVE  /\ Work(b)[n].v \in VPages /\ Work(b)[n].v \in DOMAIN GoalOf(b)
             /\ Work(b)[n].p \in Frames /\ Work(b)[n].p = GoalOf(b)[Work(b)[n].v]
  <2>1. PICK m \in 1..Len(ps) : n = m \/ n = Len(ps) + m
    BY <1>8
  <2>2. /\ ps[m] \in VPages /\ ps[m] + UPPER_HALF \in VPages /\ ps[m] \in Frames
        /\ ps[m] \in S
    BY <1>5, UpperHalf
  <2>3. CASE n = m
    <3>1. Work(b)[n] = [v |-> ps[m], p |-> ps[m]]
      BY <1>3, <2>3
    <3> QED
      BY <1>7, <2>2, <3>1
  <2>4. CASE n = Len(ps) + m
    <3>1. Work(b)[n] = [v |-> ps[m] + UPPER_HALF, p |-> ps[m]]
      BY <1>3, <2>4
    <3> QED
      BY <1>7, <2>2, <3>1
  <2> QED
    BY <2>1, <2>3, <2>4
<1>10. ASSUME NEW v \in DOMAIN GoalOf(b) PROVE \E n \in 1..Len(Work(b)) : Work(b)[n].v = v
  <2>1. \E p \in S : v = p \/ v = p + UPPER_HALF
    BY <1>2
  <2>2. PICK m \in 1..Len(ps) : v = ps[m] \/ v = ps[m] + UPPER_HALF
    BY <1>6, <2>1
  <2>3. m \in 1..Len(Work(b)) /\ Len(ps) + m \in 1..Len(Work(b))
    BY <1>1, <1>3
  <2>4. Work(b)[m].v = ps[m] /\ Work(b)[Len(ps) + m].v = ps[m] + UPPER_HALF
    <3>1. Work(b)[m] = [v |-> ps[m], p |-> ps[m]]
      BY <1>3
    <3>2. Work(b)[Len(ps) + m] = [v |-> ps[m] + UPPER_HALF, p |-> ps[m]]
      BY <1>3
    <3> QED
      BY <3>1, <3>2
  <2> QED
    BY <2>2, <2>3, <2>4
<1> QED
  BY <1>1, <1>3, <1>4, <1>7, <1>9, <1>10
-----------------------------------------------------------------------------
(* A walk, level by level: the entry that leads to the table of level l    *)
(* for virtual page v, and at depth 4 the translation itself.              *)

Depths == 0..4
Entry1(m, r, v) == Follow(m, To(r), 0, v)
Entry2(m, r, v) == Follow(m, Entry1(m, r, v), 1, v)
Entry3(m, r, v) == Follow(m, Entry2(m, r, v), 2, v)
Node(m, r, l, v) ==
    CASE l = 0 -> To(r) [] l = 1 -> Entry1(m, r, v) [] l = 2 -> Entry2(m, r, v)
      [] l = 3 -> Entry3(m, r, v) [] l = 4 -> Walk(m, r, v)

(* Two pages are translated alike up to level l.                           *)
Agree(l, u, v) == \A j \in Levels : j < l => Idx(j, u) = Idx(j, v)

(* The tables below root r: all in T, and each reached at one level and by *)
(* one prefix of the page number only.                                     *)
Tree(m, r, T) ==
    /\ r \in T
    /\ \A l \in Levels, v \in VPages :
          Node(m, r, l, v).present => Node(m, r, l, v).frame \in T
    /\ \A l, j \in Levels, u, v \in VPages :
          /\ Node(m, r, l, u).present /\ Node(m, r, j, v).present
          /\ Node(m, r, l, u).frame = Node(m, r, j, v).frame
          => l = j /\ Agree(l, u, v)

LEMMA NodeStep ==
    ASSUME NEW m, NEW r, NEW v
    PROVE  /\ Node(m, r, 0, v) = To(r) /\ Node(m, r, 4, v) = Walk(m, r, v)
           /\ \A l \in Levels : Node(m, r, l + 1, v) = Follow(m, Node(m, r, l, v), l, v)
<1>1. /\ Node(m, r, 0, v) = To(r) /\ Node(m, r, 1, v) = Entry1(m, r, v)
      /\ Node(m, r, 2, v) = Entry2(m, r, v) /\ Node(m, r, 3, v) = Entry3(m, r, v)
      /\ Node(m, r, 4, v) = Walk(m, r, v)
  BY DEF Node
<1>2. /\ Entry1(m, r, v) = Follow(m, To(r), 0, v)
      /\ Entry2(m, r, v) = Follow(m, Entry1(m, r, v), 1, v)
      /\ Entry3(m, r, v) = Follow(m, Entry2(m, r, v), 2, v)
      /\ Walk(m, r, v) = Follow(m, Entry3(m, r, v), 3, v)
  BY Zenon DEF Entry1, Entry2, Entry3, Walk
<1>3. /\ Node(m, r, 0 + 1, v) = Follow(m, Node(m, r, 0, v), 0, v)
      /\ Node(m, r, 1 + 1, v) = Follow(m, Node(m, r, 1, v), 1, v)
      /\ Node(m, r, 2 + 1, v) = Follow(m, Node(m, r, 2, v), 2, v)
      /\ Node(m, r, 3 + 1, v) = Follow(m, Node(m, r, 3, v), 3, v)
  BY <1>1, <1>2
<1>4. ASSUME NEW l \in Levels
      PROVE  Node(m, r, l + 1, v) = Follow(m, Node(m, r, l, v), l, v)
  <2>1. l = 0 \/ l = 1 \/ l = 2 \/ l = 3
    OBVIOUS
  <2> QED
    BY <1>3, <2>1
<1> QED
  BY <1>1, <1>4

(* Induction over the depths.                                              *)
LEMMA Climb ==
    ASSUME NEW S, 0 \in S, \A n \in Levels : n \in S => n + 1 \in S
    PROVE  Depths \subseteq S
<1>1. 0 + 1 \in S
  OBVIOUS
<1>2. 1 + 1 \in S
  BY <1>1
<1>3. 2 + 1 \in S
  BY <1>2
<1>4. 3 + 1 \in S
  BY <1>3
<1> QED
  BY <1>1, <1>2, <1>3, <1>4 DEF Depths

(* What a walk finds is an entry.                                          *)
LEMMA NodeEntry ==
    ASSUME NEW m \in Memories, NEW r \in Frames, NEW v \in Nat, NEW l \in Depths
    PROVE  Node(m, r, l, v) \in Entry
<1> DEFINE P(n) == Node(m, r, n, v) \in Entry
<1>1. P(0)
  BY NodeStep, ToEntry
<1>2. ASSUME NEW n \in Levels, P(n) PROVE P(n + 1)
  <2>1. Follow(m, Node(m, r, n, v), n, v) \in Entry
    BY <1>2, FollowEntry
  <2> QED
    BY <2>1, NodeStep
<1> HIDE DEF P
<1>3. Depths \subseteq {d \in Depths : P(d)}
  BY <1>1, <1>2, Climb DEF Depths
<1>4. P(l)
  BY <1>3
<1> QED
  BY <1>4 DEF P

LEMMA AgreeStep ==
    ASSUME NEW l \in Levels, NEW u, NEW v
    PROVE  Agree(l + 1, u, v) <=> Agree(l, u, v) /\ Idx(l, u) = Idx(l, v)
  BY DEF Agree

LEMMA AgreeNode ==
    ASSUME NEW m, NEW r, NEW u, NEW v, NEW l \in Depths, Agree(l, u, v)
    PROVE  Node(m, r, l, u) = Node(m, r, l, v)
<1> DEFINE P(n) == Agree(n, u, v) => Node(m, r, n, u) = Node(m, r, n, v)
<1>1. P(0)
  BY NodeStep
<1>2. ASSUME NEW n \in Levels, P(n) PROVE P(n + 1)
  <2> SUFFICES ASSUME Agree(n + 1, u, v)
               PROVE  Node(m, r, n + 1, u) = Node(m, r, n + 1, v)
    OBVIOUS
  <2>1. Node(m, r, n, u) = Node(m, r, n, v) /\ Idx(n, u) = Idx(n, v)
    BY <1>2, AgreeStep
  <2>2. /\ Node(m, r, n + 1, u) = Follow(m, Node(m, r, n, u), n, u)
        /\ Node(m, r, n + 1, v) = Follow(m, Node(m, r, n, v), n, v)
    BY NodeStep
  <2> QED
    BY <2>1, <2>2 DEF Follow
<1> HIDE DEF P
<1>3. Depths \subseteq {d \in Depths : P(d)}
  BY <1>1, <1>2, Climb DEF Depths
<1>4. P(l)
  BY <1>3
<1> QED
  BY <1>4 DEF P

(* Memory outside the tables does not matter to a walk.                    *)
LEMMA OutsideTables ==
    ASSUME NEW m, NEW n, NEW r, NEW T, Tree(m, r, T), \A t \in T : n[t] = m[t],
           NEW v \in VPages, NEW l \in Depths
    PROVE  Node(n, r, l, v) = Node(m, r, l, v)
<1> DEFINE P(d) == Node(n, r, d, v) = Node(m, r, d, v)
<1>1. P(0)
  BY NodeStep
<1>2. ASSUME NEW d \in Levels, P(d) PROVE P(d + 1)
  <2> DEFINE e == Node(m, r, d, v)
  <2>1. e.present => e.frame \in T
    BY DEF Tree
  <2>2. Follow(n, e, d, v) = Follow(m, e, d, v)
    <3> HIDE DEF e
    <3> QED
      BY <2>1 DEF Follow
  <2>3. /\ Node(n, r, d + 1, v) = Follow(n, Node(n, r, d, v), d, v)
        /\ Node(m, r, d + 1, v) = Follow(m, Node(m, r, d, v), d, v)
    BY NodeStep
  <2> QED
    BY <1>2, <2>2, <2>3
<1> HIDE DEF P
<1>3. Depths \subseteq {d \in Depths : P(d)}
  BY <1>1, <1>2, Climb DEF Depths
<1>4. P(l)
  BY <1>3
<1> QED
  BY <1>4 DEF P

LEMMA OutsideTree ==
    ASSUME NEW m, NEW n, NEW r, NEW T, NEW S, Tree(m, r, T), \A t \in T : n[t] = m[t],
           T \subseteq S
    PROVE  Tree(n, r, S)
<1>1. \A l \in Levels, v \in VPages : Node(n, r, l, v) = Node(m, r, l, v)
  <2> TAKE l \in Levels, v \in VPages
  <2>1. l \in Depths
    BY DEF Depths
  <2> QED
    BY <2>1, OutsideTables
<1> QED
  BY <1>1 DEF Tree
-----------------------------------------------------------------------------
(* An entry of the table that level j of the walk for w uses is changed.   *)
SetIn(m, n, r, T, t, j, w, e) ==
    /\ m \in Memories /\ T \subseteq Frames /\ r \in Frames /\ Tree(m, r, T)
    /\ j \in Levels /\ w \in VPages /\ t \in Frames
    /\ Node(m, r, j, w) = To(t)
    /\ n = [m EXCEPT ![t][Idx(j, w)] = e]

LEMMA SetEntryIs ==
    ASSUME NEW m \in Memories, NEW t \in Frames, NEW s \in Slots, NEW e
    PROVE  LET n == [m EXCEPT ![t][s] = e] IN
           /\ n[t][s] = e
           /\ \A p \in Frames, q \in Slots : p # t \/ q # s => n[p][q] = m[p][q]
           /\ \A p \in Frames : p # t => n[p] = m[p]
  BY DEF Memories

LEMMA VPageNat == VPages \subseteq Nat
  BY Powers

LEMMA ToPresent == \A p : To(p).present /\ To(p).frame = p
  BY DEF To

LEMMA SetFacts ==
    ASSUME NEW m, NEW n, NEW r, NEW T, NEW t, NEW j, NEW w, NEW e,
           SetIn(m, n, r, T, t, j, w, e)
    PROVE  /\ t \in T /\ Idx(j, w) \in Slots
           /\ n[t][Idx(j, w)] = e
           /\ \A p \in Frames, q \in Slots : p # t \/ q # Idx(j, w) => n[p][q] = m[p][q]
           /\ \A p \in Frames : p # t => n[p] = m[p]
           /\ \A l \in Levels, v \in VPages :
                 (Node(m, r, l, v).present /\ Node(m, r, l, v).frame = t) =>
                     l = j /\ Agree(j, v, w)
<1> USE DEF SetIn
<1>1. t \in T
  BY ToPresent DEF Tree
<1>2. Idx(j, w) \in Slots
  BY VPageNat, IdxSlot
<1>3. /\ n[t][Idx(j, w)] = e
      /\ \A p \in Frames, q \in Slots : p # t \/ q # Idx(j, w) => n[p][q] = m[p][q]
      /\ \A p \in Frames : p # t => n[p] = m[p]
  BY <1>2, SetEntryIs
<1>4. ASSUME NEW l \in Levels, NEW v \in VPages,
             Node(m, r, l, v).present, Node(m, r, l, v).frame = t
      PROVE  l = j /\ Agree(j, v, w)
  BY <1>4, ToPresent DEF Tree
<1> QED
  BY <1>1, <1>2, <1>3, <1>4

(* Only walks that agree with w's up to that entry see the change.         *)
LEMMA SetEffect ==
    ASSUME NEW m, NEW n, NEW r, NEW T, NEW t, NEW j, NEW w, NEW e,
           SetIn(m, n, r, T, t, j, w, e),
           NEW v \in VPages, NEW l \in Depths, l <= j \/ ~Agree(j + 1, v, w)
    PROVE  Node(n, r, l, v) = Node(m, r, l, v)
<1> DEFINE P(d) == d <= j \/ ~Agree(j + 1, v, w) => Node(n, r, d, v) = Node(m, r, d, v)
<1>1. P(0)
  BY NodeStep
<1>2. ASSUME NEW d \in Levels, P(d) PROVE P(d + 1)
  <2> SUFFICES ASSUME d + 1 <= j \/ ~Agree(j + 1, v, w)
               PROVE  Node(n, r, d + 1, v) = Node(m, r, d + 1, v)
    OBVIOUS
  <2> DEFINE f == Node(m, r, d, v)
  <2>1. j \in Levels /\ T \subseteq Frames /\ Tree(m, r, T)
    BY DEF SetIn
  <2>2. Node(n, r, d, v) = f
    BY <1>2, <2>1
  <2>3. /\ Node(n, r, d + 1, v) = Follow(n, f, d, v)
        /\ Node(m, r, d + 1, v) = Follow(m, f, d, v)
    BY <2>2, NodeStep
  <2>4. f.present => f.frame \in Frames
    BY <2>1 DEF Tree
  <2>5. Idx(d, v) \in Slots
    BY VPageNat, IdxSlot
  <2>6. ~(f.present /\ f.frame = t /\ Idx(d, v) = Idx(j, w))
    <3> SUFFICES ASSUME f.present, f.frame = t, Idx(d, v) = Idx(j, w) PROVE FALSE
      OBVIOUS
    <3>1. d = j /\ Agree(j, v, w)
      BY SetFacts
    <3>2. Agree(j + 1, v, w)
      BY <2>1, <3>1, AgreeStep
    <3> QED
      BY <2>1, <3>1, <3>2
  <2>7. f.present => n[f.frame][Idx(d, v)] = m[f.frame][Idx(d, v)]
    <3> HIDE DEF f
    <3>1. \A p \in Frames, q \in Slots : p # t \/ q # Idx(j, w) => n[p][q] = m[p][q]
      BY SetFacts
    <3> QED
      BY <2>4, <2>5, <2>6, <3>1
  <2> HIDE DEF f
  <2> QED
    BY <2>3, <2>7 DEF Follow
<1> HIDE DEF P
<1>3. Depths \subseteq {d \in Depths : P(d)}
  BY <1>1, <1>2, Climb DEF Depths
<1>4. P(l)
  BY <1>3
<1> QED
  BY <1>4 DEF P

LEMMA SetSeen ==
    ASSUME NEW m, NEW n, NEW r, NEW T, NEW t, NEW j, NEW w, NEW e,
           SetIn(m, n, r, T, t, j, w, e), NEW v \in VPages, Agree(j + 1, v, w)
    PROVE  Node(n, r, j + 1, v) = e
<1>1. j \in Levels /\ j \in Depths /\ j <= j
  BY DEF SetIn, Depths
<1>2. Agree(j, v, w) /\ Idx(j, v) = Idx(j, w)
  BY <1>1, AgreeStep
<1>3. Node(n, r, j, v) = Node(m, r, j, v)
  BY <1>1, SetEffect
<1>4. Node(m, r, j, v) = To(t)
  BY <1>1, <1>2, AgreeNode DEF SetIn
<1>5. Node(n, r, j + 1, v) = Follow(n, To(t), j, v)
  BY <1>1, <1>3, <1>4, NodeStep
<1>6. Follow(n, To(t), j, v) = n[t][Idx(j, w)]
  BY <1>2, ToPresent DEF Follow
<1> QED
  BY <1>5, <1>6, SetFacts
-----------------------------------------------------------------------------
(* Linking a cleared page as a new table.                                  *)
ClearIn(m, g) == \A s \in Slots : m[g][s] = Zero

LinkIn(m, n, r, T, t, j, w, g) ==
    /\ SetIn(m, n, r, T, t, j, w, To(g))
    /\ j \in 0..2 /\ g \in Frames /\ g \notin T /\ ClearIn(m, g)
    /\ ~Node(m, r, j + 1, w).present

LEMMA FollowAbsent ==
    ASSUME NEW m, NEW e, NEW l, NEW v, ~e.present
    PROVE  Follow(m, e, l, v) = Zero /\ ~Zero.present
  BY DEF Follow, Zero

LEMMA LinkNode ==
    ASSUME NEW m, NEW n, NEW r, NEW T, NEW t, NEW j, NEW w, NEW g,
           LinkIn(m, n, r, T, t, j, w, g),
           NEW v \in VPages, NEW l \in Depths, l > j, Agree(j + 1, v, w)
    PROVE  /\ l = j + 1 => Node(n, r, l, v) = To(g)
           /\ l > j + 1 => Node(n, r, l, v) = Zero /\ Node(m, r, l, v) = Zero
<1>0. /\ SetIn(m, n, r, T, t, j, w, To(g))
      /\ j \in 0..2 /\ g \in Frames /\ g \notin T /\ ClearIn(m, g)
      /\ ~Node(m, r, j + 1, w).present
  BY DEF LinkIn
<1> USE <1>0
<1> DEFINE P(d) ==
        d > j => /\ Node(n, r, d, v) = IF d = j + 1 THEN To(g) ELSE Zero
                 /\ ~Node(m, r, d, v).present
                 /\ d > j + 1 => Node(m, r, d, v) = Zero
<1>1. P(0)
  OBVIOUS
<1>2. ASSUME NEW d \in Levels, P(d) PROVE P(d + 1)
  <2> SUFFICES ASSUME d + 1 > j
               PROVE  /\ Node(n, r, d + 1, v) = IF d + 1 = j + 1 THEN To(g) ELSE Zero
                      /\ ~Node(m, r, d + 1, v).present
                      /\ d + 1 > j + 1 => Node(m, r, d + 1, v) = Zero
    OBVIOUS
  <2>1. /\ Node(n, r, d + 1, v) = Follow(n, Node(n, r, d, v), d, v)
        /\ Node(m, r, d + 1, v) = Follow(m, Node(m, r, d, v), d, v)
    BY NodeStep
  <2>2. CASE d = j
    <3>1. Node(n, r, j + 1, v) = To(g)
      BY SetSeen
    <3>2. Node(m, r, j + 1, v) = Node(m, r, j + 1, w)
      <4>1. j + 1 \in Depths
        BY DEF Depths
      <4> QED
        BY <4>1, AgreeNode
    <3> QED
      BY <2>2, <3>1, <3>2
  <2>3. CASE d = j + 1
    <3>1. Node(n, r, d, v) = To(g) /\ ~Node(m, r, d, v).present
      BY <1>2, <2>3
    <3>2. Node(m, r, d + 1, v) = Zero
      BY <2>1, <3>1, FollowAbsent
    <3>3. Idx(d, v) \in Slots
      BY VPageNat, IdxSlot
    <3>4. n[g] = m[g]
      BY SetFacts
    <3>5. Follow(n, To(g), d, v) = n[g][Idx(d, v)]
      BY ToPresent DEF Follow
    <3>6. Node(n, r, d + 1, v) = Zero
      BY <2>1, <3>1, <3>3, <3>4, <3>5 DEF ClearIn
    <3> QED
      BY <2>3, <3>2, <3>6, FollowAbsent DEF Zero
  <2>4. CASE d > j + 1
    <3>1. Node(n, r, d, v) = Zero /\ ~Node(m, r, d, v).present
      BY <1>2, <2>4
    <3>2. ~Zero.present
      BY DEF Zero
    <3>3. Node(m, r, d + 1, v) = Zero /\ Node(n, r, d + 1, v) = Zero
      BY <2>1, <3>1, <3>2, FollowAbsent
    <3> QED
      BY <2>4, <3>2, <3>3
  <2> QED
    BY <2>2, <2>3, <2>4
<1> HIDE DEF P
<1>3. Depths \subseteq {d \in Depths : P(d)}
  BY <1>1, <1>2, Climb DEF Depths
<1>4. P(l)
  BY <1>3
<1> QED
  BY <1>4 DEF P

(* Linking a cleared page adds a table and changes no translation.         *)
LEMMA LinkEffect ==
    ASSUME NEW m, NEW n, NEW r, NEW T, NEW t, NEW j, NEW w, NEW g,
           LinkIn(m, n, r, T, t, j, w, g)
    PROVE  /\ \A v \in VPages : Walk(n, r, v) = Walk(m, r, v)
           /\ Tree(n, r, T \cup {g})
           /\ Node(n, r, j + 1, w) = To(g)
<1>0. /\ SetIn(m, n, r, T, t, j, w, To(g))
      /\ j \in 0..2 /\ g \in Frames /\ g \notin T /\ ClearIn(m, g)
      /\ ~Node(m, r, j + 1, w).present
  BY DEF LinkIn
<1> USE <1>0
<1>1. Tree(m, r, T) /\ w \in VPages
  BY DEF SetIn
<1>2. ASSUME NEW v \in VPages PROVE Walk(n, r, v) = Walk(m, r, v)
  <2>1. 4 \in Depths /\ 4 > j
    BY DEF Depths
  <2>2. CASE Agree(j + 1, v, w)
    <3>1. 4 > j + 1
      OBVIOUS
    <3>2. Node(n, r, 4, v) = Zero /\ Node(m, r, 4, v) = Zero
      BY <2>1, <2>2, <3>1, LinkNode
    <3> QED
      BY <3>2, NodeStep
  <2>3. CASE ~Agree(j + 1, v, w)
    <3>1. Node(n, r, 4, v) = Node(m, r, 4, v)
      BY <2>1, <2>3, SetEffect
    <3> QED
      BY <3>1, NodeStep
  <2> QED
    BY <2>2, <2>3
(* An entry is an old one, or the new one, of walks that agree with w's.   *)
<1>3. ASSUME NEW l \in Levels, NEW v \in VPages, Node(n, r, l, v).present
      PROVE  \/ Node(n, r, l, v) = Node(m, r, l, v)
             \/ l = j + 1 /\ Agree(j + 1, v, w) /\ Node(n, r, l, v) = To(g)
  <2>1. l \in Depths
    BY DEF Depths
  <2>2. CASE l <= j \/ ~Agree(j + 1, v, w)
    BY <2>1, <2>2, SetEffect
  <2>3. CASE l > j /\ Agree(j + 1, v, w)
    <3>1. l = j + 1 \/ l > j + 1
      BY <2>3
    <3>2. CASE l = j + 1
      <4>1. Node(n, r, l, v) = To(g)
        BY <2>1, <2>3, <3>2, LinkNode
      <4> QED
        BY <2>3, <3>2, <4>1
    <3>3. CASE l > j + 1
      <4>1. Node(n, r, l, v) = Zero
        BY <2>1, <2>3, <3>3, LinkNode
      <4> QED
        BY <1>3, <4>1 DEF Zero
    <3> QED
      BY <3>1, <3>2, <3>3
  <2> QED
    BY <2>2, <2>3
<1>4. ASSUME NEW l \in Levels, NEW v \in VPages, Node(n, r, l, v).present
      PROVE  Node(n, r, l, v).frame \in T \cup {g}
  <2>1. CASE Node(n, r, l, v) = Node(m, r, l, v)
    BY <1>1, <1>4, <2>1 DEF Tree
  <2>2. CASE Node(n, r, l, v) = To(g)
    BY <2>2, ToPresent
  <2> QED
    BY <1>3, <1>4, <2>1, <2>2
<1>5. ASSUME NEW l \in Levels, NEW d \in Levels, NEW u \in VPages, NEW v \in VPages,
             Node(n, r, l, u).present, Node(n, r, d, v).present,
             Node(n, r, l, u).frame = Node(n, r, d, v).frame
      PROVE  l = d /\ Agree(l, u, v)
  <2>1. CASE Node(n, r, l, u) = Node(m, r, l, u) /\ Node(n, r, d, v) = Node(m, r, d, v)
    BY <1>1, <1>5, <2>1 DEF Tree
  <2>2. CASE Node(n, r, l, u) = Node(m, r, l, u) /\ Node(n, r, d, v) = To(g)
    <3>1. Node(m, r, l, u).frame \in T
      BY <1>1, <1>5, <2>2 DEF Tree
    <3> QED
      BY <1>5, <2>2, <3>1, ToPresent
  <2>3. CASE Node(n, r, l, u) = To(g) /\ Node(n, r, d, v) = Node(m, r, d, v)
    <3>1. Node(m, r, d, v).frame \in T
      BY <1>1, <1>5, <2>3 DEF Tree
    <3> QED
      BY <1>5, <2>3, <3>1, ToPresent
  <2>4. CASE /\ l = j + 1 /\ Agree(j + 1, u, w)
             /\ d = j + 1 /\ Agree(j + 1, v, w)
    BY <2>4 DEF Agree
  <2> QED
    BY <1>3, <1>5, <2>1, <2>2, <2>3, <2>4
<1>6. r \in T \cup {g}
  BY <1>1 DEF Tree
<1>7. Node(n, r, j + 1, w) = To(g)
  <2>1. Agree(j + 1, w, w)
    BY DEF Agree
  <2> QED
    BY <1>1, <2>1, SetSeen
<1>8. Tree(n, r, T \cup {g})
  BY <1>4, <1>5, <1>6 DEF Tree
<1> QED
  BY <1>2, <1>7, <1>8

(* Setting an entry of the last level changes that one translation.        *)
LEMMA SetLeaf ==
    ASSUME NEW m, NEW n, NEW r, NEW T, NEW t, NEW w, NEW e,
           SetIn(m, n, r, T, t, 3, w, e)
    PROVE  /\ \A v \in VPages : Walk(n, r, v) = IF v = w THEN e ELSE Walk(m, r, v)
           /\ Tree(n, r, T)
<1>1. Tree(m, r, T) /\ w \in VPages
  BY DEF SetIn
<1>2. ASSUME NEW v \in VPages
      PROVE  Walk(n, r, v) = IF v = w THEN e ELSE Walk(m, r, v)
  <2>1. 4 \in Depths
    BY DEF Depths
  <2>2. CASE v = w
    <3>1. Agree(3 + 1, w, w)
      BY DEF Agree
    <3>2. Node(n, r, 3 + 1, w) = e
      BY <1>1, <3>1, SetSeen
    <3>3. Node(n, r, 4, w) = e
      BY <3>2
    <3> QED
      BY <2>2, <3>3, NodeStep
  <2>3. CASE v # w
    <3>1. ~Agree(3 + 1, v, w)
      <4> SUFFICES ASSUME Agree(3 + 1, v, w) PROVE FALSE
        OBVIOUS
      <4>1. \A l \in Levels : Idx(l, v) = Idx(l, w)
        BY DEF Agree
      <4> QED
        BY <1>1, <2>3, <4>1, SameIndexes
    <3>2. Node(n, r, 4, v) = Node(m, r, 4, v)
      BY <2>1, <3>1, SetEffect
    <3> QED
      BY <2>3, <3>2, NodeStep
  <2> QED
    BY <2>2, <2>3
<1>3. \A l \in Levels, v \in VPages : Node(n, r, l, v) = Node(m, r, l, v)
  <2> TAKE l \in Levels, v \in VPages
  <2>1. l \in Depths /\ l <= 3
    BY DEF Depths
  <2> QED
    BY <2>1, SetEffect
<1>4. Tree(n, r, T)
  BY <1>1, <1>3 DEF Tree
<1> QED
  BY <1>2, <1>4

(* A cleared page as the root maps nothing.                                *)
LEMMA NewRoot ==
    ASSUME NEW m, NEW r, ClearIn(m, r)
    PROVE  /\ \A v \in VPages : Walk(m, r, v) = Zero
           /\ Tree(m, r, {r})
<1>1. ASSUME NEW v \in VPages, NEW l \in Depths, l > 0 PROVE Node(m, r, l, v) = Zero
  <2> DEFINE P(d) == d > 0 => Node(m, r, d, v) = Zero
  <2>1. P(0)
    OBVIOUS
  <2>2. ASSUME NEW d \in Levels, P(d) PROVE P(d + 1)
    <3>1. Node(m, r, d + 1, v) = Follow(m, Node(m, r, d, v), d, v)
      BY NodeStep
    <3>2. CASE d = 0
      <4>1. Node(m, r, d, v) = To(r) /\ Idx(d, v) \in Slots
        BY <3>2, NodeStep, VPageNat, IdxSlot
      <4>2. Follow(m, To(r), d, v) = m[r][Idx(d, v)]
        BY ToPresent DEF Follow
      <4> QED
        BY <3>1, <4>1, <4>2 DEF ClearIn
    <3>3. CASE d > 0
      <4>1. Node(m, r, d, v) = Zero /\ ~Zero.present
        BY <2>2, <3>3 DEF Zero
      <4> QED
        BY <3>1, <4>1, FollowAbsent
    <3> QED
      BY <3>2, <3>3
  <2> HIDE DEF P
  <2>3. Depths \subseteq {d \in Depths : P(d)}
    BY <2>1, <2>2, Climb DEF Depths
  <2>4. P(l)
    BY <2>3
  <2> QED
    BY <1>1, <2>4 DEF P
<1>2. ASSUME NEW v \in VPages PROVE Walk(m, r, v) = Zero
  <2>1. 4 \in Depths /\ 4 > 0
    BY DEF Depths
  <2> QED
    BY <1>1, <2>1, NodeStep
<1>3. ASSUME NEW l \in Levels, NEW v \in VPages, Node(m, r, l, v).present
      PROVE  l = 0 /\ Node(m, r, l, v) = To(r)
  <2>1. l \in Depths
    BY DEF Depths
  <2>2. ~(l > 0)
    BY <1>1, <1>3, <2>1 DEF Zero
  <2> QED
    BY <2>2, NodeStep
<1>4. ASSUME NEW u, NEW v PROVE Agree(0, u, v)
  BY DEF Agree
<1> QED
  BY <1>2, <1>3, <1>4, ToPresent DEF Tree

(* Entry 0 of the root table, or a page that is no table, does not matter  *)
(* to a walk in the upper half.                                            *)
SameButWord(m, n, r, T, t) ==
    /\ Tree(m, r, T) /\ T \subseteq Frames
    /\ t = r \/ t \notin T
    /\ \A p \in Frames, s \in Slots : p # t \/ s # 0 => n[p][s] = m[p][s]

LEMMA OffPath ==
    ASSUME NEW m, NEW n, NEW r, NEW T, NEW t, SameButWord(m, n, r, T, t),
           NEW v \in VPages, Idx(0, v) # 0
    PROVE  Walk(n, r, v) = Walk(m, r, v)
<1>0. /\ Tree(m, r, T) /\ T \subseteq Frames
      /\ t = r \/ t \notin T
      /\ \A p \in Frames, s \in Slots : p # t \/ s # 0 => n[p][s] = m[p][s]
  BY DEF SameButWord
<1> USE <1>0
<1> DEFINE P(d) == Node(n, r, d, v) = Node(m, r, d, v)
<1>1. P(0)
  BY NodeStep
<1>2. ASSUME NEW d \in Levels, P(d) PROVE P(d + 1)
  <2> DEFINE f == Node(m, r, d, v)
  <2>1. f.present => f.frame \in T /\ f.frame \in Frames
    BY DEF Tree
  <2>2. Idx(d, v) \in Slots
    BY VPageNat, IdxSlot
  <2>3. f.present /\ f.frame = t => d = 0
    <3> SUFFICES ASSUME f.present, f.frame = r PROVE d = 0
      BY <2>1
    <3>1. Node(m, r, 0, v) = To(r) /\ 0 \in Levels
      BY NodeStep
    <3> QED
      BY <3>1, ToPresent DEF Tree
  <2>4. /\ Node(n, r, d + 1, v) = Follow(n, f, d, v)
        /\ Node(m, r, d + 1, v) = Follow(m, f, d, v)
    BY <1>2, NodeStep
  <2> HIDE DEF f
  <2>5. f.present => n[f.frame][Idx(d, v)] = m[f.frame][Idx(d, v)]
    BY <2>1, <2>2, <2>3
  <2> QED
    BY <2>4, <2>5 DEF Follow
<1> HIDE DEF P
<1>3. Depths \subseteq {d \in Depths : P(d)}
  BY <1>1, <1>2, Climb DEF Depths
<1>4. P(4)
  BY <1>3 DEF Depths
<1> QED
  BY <1>4, NodeStep DEF P

-----------------------------------------------------------------------------
(* What the tables translate, from one step to the next.                   *)

(* Before the root table is linked, and after CR3 is loaded.               *)
Early == pc \in {"enter", "scan"} \/ (pc \in {"alloc", "link"} /\ lvl = 0)
Late == pc \in {"touch", "flip", "restore", "done"}

RootInv ==
    /\ pc # "halt" => (pml4Phys = 0 <=> Early)
    /\ Early => k = 0
    /\ cr3 = IF Late THEN pml4Phys ELSE 0
    /\ Late => k = Len(Work(boot))

(* The first page of the buffer is the root table or no table at all.      *)
FirstInv ==
    /\ pc \notin {"enter", "halt"} => boot.mmapPages > 0
    /\ boot.mmapPages > 0 => boot.mmapPhys < mmapAllocEnd
    /\ owned # << >> => boot.mmapPhys < scratchNext
    /\ boot.mmapPhys \in OwnedPages => owned[1] = boot.mmapPhys
    /\ Early /\ pc # "link" => owned = << >>
    /\ pml4Phys # 0 => owned # << >> /\ owned[1] = pml4Phys
    /\ pc = "link" /\ got # 0 =>
          /\ owned # << >> /\ owned[Len(owned)] = got
          /\ lvl = 0 => Len(owned) = 1
          /\ ClearIn(mem, got)

(* Memory with the word under test put back, the tables linked so far and  *)
(* the pages mapped so far.                                                *)
PutBack(m, p, e) == [m EXCEPT ![p][0] = e]
Back == IF pc = "restore" THEN PutBack(mem, boot.mmapPhys, old) ELSE mem
Linked == IF pc = "link" /\ got # 0 THEN OwnedPages \ {got} ELSE OwnedPages
MappedBy(b, n) == {Work(b)[j].v : j \in 1..n}

(* Maps(m, r, b, n): below root r the first n requests of b are mapped.    *)
Maps(m, r, b, n) ==
    \A v \in VPages :
        Walk(m, r, v) = IF v \in MappedBy(b, n) THEN To(GoalOf(b)[v]) ELSE Zero

TreeInv ==
    pml4Phys # 0 /\ pc # "halt" =>
        Tree(Back, pml4Phys, Linked) /\ Maps(Back, pml4Phys, boot, k)

PathInv ==
    /\ pc = "walk" => Node(mem, pml4Phys, lvl, Request.v) = To(table)
    /\ pc \in {"alloc", "link"} /\ lvl > 0 =>
          /\ Node(mem, pml4Phys, lvl - 1, Request.v) = To(table)
          /\ ~Node(mem, pml4Phys, lvl, Request.v).present
    /\ pc = "flip" => old = mem[Touched.frame][0]

TablesInv == RootInv /\ FirstInv /\ TreeInv /\ PathInv
-----------------------------------------------------------------------------
(* The control of Stage 1: each phase has its root table and its CR3.      *)
THEOREM RootStep ==
    ASSUME AllocInv, RootInv, [Next]_vars
    PROVE  RootInv'
<1> USE DEF RootInv, Early, Late
<1>0. lvl \in Levels /\ k \in 0..Len(Work(boot))
  BY DEF AllocInv, TypeOK, ControlType, TableType
<1>1. CASE RejectMap
  BY <1>1 DEF RejectMap, Fail, walkVars
<1>2. CASE AcceptMap
  BY <1>2 DEF AcceptMap, walkVars
<1>3. CASE ScanDescriptor
  BY <1>3 DEF ScanDescriptor, walkVars
<1>4. CASE EndScan
  BY <1>4 DEF EndScan
<1>5. CASE ScratchSkip
  BY <1>5 DEF ScratchSkip, walkVars
<1>6. CASE ScratchTake
  BY <1>6 DEF ScratchTake, HandOut, walkVars
<1>7. CASE FallbackSkip
  BY <1>7 DEF FallbackSkip, walkVars
<1>8. CASE FallbackTake
  BY <1>8 DEF FallbackTake, HandOut, walkVars
<1>9. CASE FallbackNextRange
  BY <1>9 DEF FallbackNextRange, walkVars
<1>10. CASE NothingLeft
  BY <1>10 DEF NothingLeft, walkVars
<1>11. CASE OutOfPages
  BY <1>11 DEF OutOfPages, Fail, walkVars
<1>12. CASE LinkRoot
  BY <1>12 DEF LinkRoot, walkVars
<1>13. CASE LinkTable
  BY <1>13 DEF LinkTable
<1>14. CASE StartRequest
  BY <1>14 DEF StartRequest
<1>15. CASE Descend
  BY <1>15 DEF Descend
<1>16. CASE NeedTable
  BY <1>0, <1>16 DEF NeedTable
<1>17. CASE SetPte
  BY <1>17 DEF SetPte
<1>18. CASE SwitchCr3
  BY <1>18 DEF SwitchCr3, walkVars
<1>19. CASE TouchLoad
  BY <1>19 DEF TouchLoad, walkVars
<1>20. CASE TouchFlip
  BY <1>20 DEF TouchFlip, walkVars
<1>21. CASE TouchRestore
  BY <1>21 DEF TouchRestore, walkVars
<1>22. CASE Stopped \/ UNCHANGED vars
  BY <1>22 DEF Stopped, vars, walkVars
<1> QED
  BY <1>1, <1>2, <1>3, <1>4, <1>5, <1>6, <1>7, <1>8, <1>9, <1>10, <1>11, <1>12,
     <1>13, <1>14, <1>15, <1>16, <1>17, <1>18, <1>19, <1>20, <1>21, <1>22 DEF Next
-----------------------------------------------------------------------------
(* The first page of the buffer.                                           *)

LEMMA HeadroomFloor ==
    ASSUME NEW b \in Boots
    PROVE  MmapEnd(b) <= Headroom(b)
<1> DEFINE candidate == MmapEnd(b) + HeadroomPages
           stops == {p \in {b.kernelPhys, b.stackPhys} :
                        MmapEnd(b) < p /\ p < candidate}
           first == CHOOSE p \in stops : \A q \in stops : p <= q
<1>1. MmapEnd(b) \in Nat /\ MmapEnd(b) <= candidate
  BY BootType, LimitsAssumption
<1>2. \A p \in stops : p \in Nat /\ MmapEnd(b) < p
  BY BootType
<1>3. CASE stops = {}
  BY <1>1, <1>3 DEF Headroom
<1>4. CASE stops # {}
  <2>1. \E p \in stops : \A q \in stops : p <= q
    <3>1. CASE b.kernelPhys \in stops /\ b.stackPhys \in stops
      BY <3>1, <1>2
    <3>2. CASE ~(b.kernelPhys \in stops /\ b.stackPhys \in stops)
      BY <3>2, <1>2, <1>4
    <3> QED
      BY <3>1, <3>2
  <2>2. first \in stops
    <3> HIDE DEF stops
    <3> QED
      BY <2>1
  <2>3. Headroom(b) = first
    BY <1>4 DEF Headroom
  <2> HIDE DEF stops, first
  <2> QED
    BY <1>1, <1>2, <2>2, <2>3
<1> QED
  BY <1>3, <1>4
-----------------------------------------------------------------------------
LEMMA FirstHandOut ==
    ASSUME AllocInv, FirstInv, pc = "alloc", NEW p \in Frames, HandOut(p),
           UNCHANGED <<boot, mmapAllocEnd, lvl, pml4Phys>>,
           boot.mmapPhys < scratchNext', p = boot.mmapPhys => owned = << >>
    PROVE  FirstInv'
<1>1. /\ owned \in Seq(Frames) /\ mem \in Memories /\ pc' = "link" /\ got' = p
      /\ owned' = Append(owned, p) /\ mem' = Cleared(p)
  BY DEF AllocInv, TypeOK, PoolType, TableType, HandOut, Memories
<1>2. /\ owned' # << >> /\ Len(owned') = Len(owned) + 1 /\ owned'[Len(owned')] = p
      /\ owned # << >> => owned'[1] = owned[1]
      /\ owned = << >> => Len(owned') = 1 /\ owned'[1] = p
      /\ OwnedPages' = OwnedPages \cup {p}
  BY <1>1, OwnedAppend DEF OwnedPages
<1>3. \A s \in Slots : mem'[p][s] = Zero
  BY <1>1 DEF Cleared, Memories
<1>4. lvl = 0 => owned = << >>
  BY DEF FirstInv, Early
<1>5. boot.mmapPhys \in OwnedPages' => owned'[1] = boot.mmapPhys
  <2>1. CASE boot.mmapPhys \in OwnedPages
    <3>1. owned # << >> /\ owned[1] = boot.mmapPhys
      BY <2>1 DEF FirstInv, OwnedPages
    <3> QED
      BY <1>2, <3>1
  <2>2. CASE boot.mmapPhys = p
    BY <1>2, <2>2
  <2> QED
    BY <1>2, <2>1, <2>2
<1>6. pml4Phys' # 0 => owned' # << >> /\ owned'[1] = pml4Phys'
  BY <1>2 DEF FirstInv
<1>7. boot.mmapPages' > 0 /\ boot.mmapPhys' < mmapAllocEnd'
  BY DEF FirstInv
<1>8. ClearIn(mem, got)'
  BY <1>1, <1>3 DEF ClearIn
<1>9. (lvl = 0)' => Len(owned') = 1
  BY <1>2, <1>4
<1> QED
  BY <1>1, <1>2, <1>5, <1>6, <1>7, <1>8, <1>9 DEF FirstInv, Early

(* Steps that neither scan nor allocate.                                   *)
LEMMA FirstUnchanged ==
    ASSUME FirstInv, UNCHANGED <<boot, mmapAllocEnd, scratchNext, owned>>,
           pc' \notin {"enter", "halt"} => pc \notin {"enter", "halt"},
           (Early /\ pc # "link")' => Early /\ pc # "link",
           pml4Phys' # 0 => pml4Phys' = pml4Phys,
           pc' = "link" => got' = 0 \/ UNCHANGED <<pc, got, mem, lvl>>
    PROVE  FirstInv'
<1>1. OwnedPages' = OwnedPages
  BY DEF OwnedPages
<1>2. pc' = "link" /\ got' # 0 => ClearIn(mem, got)'
  BY DEF FirstInv, ClearIn
<1> QED
  BY <1>1, <1>2 DEF FirstInv

LEMMA BufferNotEmpty ==
    ASSUME AllocInv, boot.descs # << >>
    PROVE  boot.mmapPages > 0
  BY BootsAssumption DEF BootOK, AllocInv, TypeOK, ControlType

(* The first page of the buffer is the first page handed out, if it is     *)
(* handed out at all.                                                      *)
THEOREM FirstStep ==
    ASSUME AllocInv, RootInv, FirstInv, [Next]_vars
    PROVE  FirstInv'
<1>0. /\ boot \in Boots /\ boot.mmapPhys \in Nat /\ mmapAllocEnd \in Nat
      /\ boot.mmapPages \in Nat /\ lvl \in Levels
      /\ scratchNext \in Nat /\ boot.mmapPhys <= scratchNext
  BY BootType DEF AllocInv, TypeOK, ControlType, ScanType, PoolType, ScratchFirst
<1> USE DEF Early
<1>1. CASE RejectMap
  BY <1>1, FirstUnchanged DEF RejectMap, Fail, scanVars, poolVars, walkVars
<1>2. CASE AcceptMap
  <2>1. boot.mmapPages > 0
    BY <1>2, BufferNotEmpty DEF AcceptMap
  <2>2. OwnedPages' = OwnedPages
    BY <1>2 DEF AcceptMap, OwnedPages
  <2> QED
    BY <1>2, <2>1, <2>2 DEF AcceptMap, FirstInv, scanVars, poolVars, walkVars
<1>3. CASE ScanDescriptor
  <2> DEFINE d == boot.descs[i + 1]
  <2>1. boot.mmapPages > 0 /\ pc = "scan" /\ pc' = "scan"
    BY <1>3 DEF ScanDescriptor, FirstInv
  <2>2. \/ mmapAllocEnd' = mmapAllocEnd
        \/ boot.mmapPhys \in Pages(d.start, d.pages) /\ mmapAllocEnd' = EndOf(d)
    BY <1>3 DEF ScanDescriptor
  <2>3. i + 1 \in DOMAIN boot.descs
    BY <1>0, <1>3, BootType DEF ScanDescriptor, MoreToScan, AllocInv, TypeOK, ScanType
  <2>4. d.start \in Nat /\ d.pages \in Nat
    BY <1>0, <2>3, DescriptorType
  <2> HIDE DEF d
  <2>5. boot.mmapPhys < mmapAllocEnd'
    BY <1>0, <2>1, <2>2, <2>4 DEF FirstInv, Pages, EndOf
  <2>6. OwnedPages' = OwnedPages
    BY <1>3 DEF ScanDescriptor, OwnedPages
  <2> QED
    BY <1>3, <2>1, <2>5, <2>6 DEF ScanDescriptor, FirstInv, poolVars, walkVars
<1>4. CASE EndScan
  <2>1. boot.mmapPages > 0
    BY <1>4 DEF EndScan, FirstInv
  <2>2. mmapAllocEnd' = mmapAllocEnd \/ mmapAllocEnd' = Headroom(boot)
    BY <1>4 DEF EndScan
  <2>3. boot.mmapPhys < mmapAllocEnd'
    BY <1>0, <2>1, <2>2, HeadroomBound, HeadroomFloor DEF FirstInv, MmapEnd
  <2>4. OwnedPages' = OwnedPages
    BY <1>4 DEF EndScan, OwnedPages
  <2> QED
    BY <1>4, <2>1, <2>3, <2>4 DEF EndScan, FirstInv, poolVars
<1>5. CASE ScratchSkip
  <2>1. OwnedPages' = OwnedPages
    BY <1>5 DEF ScratchSkip, OwnedPages
  <2> QED
    BY <1>0, <1>5, <2>1 DEF ScratchSkip, FirstInv, scanVars, walkVars
<1>6. CASE ScratchTake
  <2>1. scratchNext \in Frames
    BY <1>6, ScratchType DEF AllocInv, ScratchTake
  <2>2. scratchNext = boot.mmapPhys => owned = << >>
    BY <1>0 DEF FirstInv
  <2>3. boot.mmapPhys < scratchNext'
    BY <1>0, <1>6 DEF ScratchTake
  <2> QED
    BY <1>6, <2>1, <2>2, <2>3, FirstHandOut DEF ScratchTake, scanVars, walkVars
<1>7. CASE FallbackSkip
  BY <1>7, FirstUnchanged DEF FallbackSkip, scanVars, walkVars
<1>8. CASE FallbackTake
  <2>1. boot.mmapPhys < scratchNext
    BY <1>0, <1>8 DEF FallbackTake, FallbackLeft, ScratchLeft, ScratchEnd, FirstInv
  <2>2. Cursor \in Frames
    BY <1>8, CursorType DEF FallbackTake, AllocInv
  <2>3. Cursor # boot.mmapPhys
    BY <1>0, <1>8, <2>1 DEF FallbackTake, pageOverlapsReserved
  <2> QED
    BY <1>8, <2>1, <2>2, <2>3, FirstHandOut DEF FallbackTake, scanVars, walkVars
<1>9. CASE FallbackNextRange
  BY <1>9, FirstUnchanged DEF FallbackNextRange, scanVars, walkVars
<1>10. CASE NothingLeft
  BY <1>10, FirstUnchanged DEF NothingLeft, scanVars, poolVars, walkVars
<1>11. CASE OutOfPages
  BY <1>11, FirstUnchanged DEF OutOfPages, Fail, scanVars, poolVars, walkVars
<1>12. CASE LinkRoot
  <2>1. OwnedPages' = OwnedPages
    BY <1>12 DEF LinkRoot, OwnedPages
  <2>2. owned # << >> /\ owned[1] = got
    BY <1>12 DEF LinkRoot, FirstInv
  <2> QED
    BY <1>12, <2>1, <2>2 DEF LinkRoot, FirstInv, scanVars, poolVars
<1>13. CASE LinkTable
  BY <1>13, FirstUnchanged DEF LinkTable, scanVars, poolVars
<1>14. CASE StartRequest
  BY <1>14, FirstUnchanged DEF StartRequest, scanVars, poolVars
<1>15. CASE Descend
  BY <1>15, FirstUnchanged DEF Descend, scanVars, poolVars
<1>16. CASE NeedTable
  BY <1>0, <1>16, FirstUnchanged DEF NeedTable, scanVars, poolVars
<1>17. CASE SetPte
  BY <1>17, FirstUnchanged DEF SetPte, scanVars, poolVars
<1>18. CASE SwitchCr3
  BY <1>18, FirstUnchanged DEF SwitchCr3, scanVars, poolVars, walkVars
<1>19. CASE TouchLoad
  BY <1>19, FirstUnchanged DEF TouchLoad, scanVars, poolVars, walkVars
<1>20. CASE TouchFlip
  BY <1>20, FirstUnchanged DEF TouchFlip, scanVars, poolVars, walkVars
<1>21. CASE TouchRestore
  BY <1>21, FirstUnchanged DEF TouchRestore, scanVars, poolVars, walkVars
<1>22. CASE Stopped \/ UNCHANGED vars
  BY <1>22, FirstUnchanged DEF Stopped, vars, scanVars, poolVars, walkVars
<1> QED
  BY <1>1, <1>2, <1>3, <1>4, <1>5, <1>6, <1>7, <1>8, <1>9, <1>10, <1>11, <1>12,
     <1>13, <1>14, <1>15, <1>16, <1>17, <1>18, <1>19, <1>20, <1>21, <1>22 DEF Next
-----------------------------------------------------------------------------
(* The tables.                                                             *)

LEMMA TableFacts ==
    ASSUME AllocInv
    PROVE  /\ boot \in Boots /\ mem \in Memories /\ pml4Phys \in Frames /\ table \in Frames
           /\ owned \in Seq(Frames) /\ OwnedPages \subseteq Frames
           /\ Linked \subseteq Frames /\ lvl \in Levels /\ k \in Nat /\ got \in Frames
           /\ Len(Work(boot)) \in Nat /\ k <= Len(Work(boot))
<1>1. /\ boot \in Boots /\ mem \in Memories /\ pml4Phys \in Frames /\ table \in Frames
      /\ owned \in Seq(Frames) /\ lvl \in Levels /\ k \in 0..Len(Work(boot)) /\ got \in Frames
  BY DEF AllocInv, TypeOK, ControlType, PoolType, TableType, Memories
<1>2. Len(Work(boot)) \in Nat
  BY <1>1, WorkGoal
<1>3. OwnedPages \subseteq Frames
  BY <1>1, ElementOfSeq, LenProperties DEF OwnedPages
<1> QED
  BY <1>1, <1>2, <1>3 DEF Linked

LEMMA RequestIs ==
    ASSUME AllocInv, k < Len(Work(boot))
    PROVE  /\ Request.v \in VPages /\ Request.v \in DOMAIN GoalOf(boot)
           /\ Request.p \in Frames /\ Request.p = GoalOf(boot)[Request.v]
           /\ MappedBy(boot, k + 1) = MappedBy(boot, k) \cup {Request.v}
<1>1. boot \in Boots /\ k \in Nat /\ Len(Work(boot)) \in Nat /\ k + 1 \in 1..Len(Work(boot))
  BY TableFacts
<1>2. 1..k + 1 = (1..k) \cup {k + 1}
  BY <1>1
<1>3. MappedBy(boot, k + 1) = MappedBy(boot, k) \cup {Request.v}
  BY <1>2 DEF MappedBy, Request
<1> QED
  BY <1>1, <1>3, WorkGoal DEF Request

LEMMA TreeUnchanged ==
    ASSUME TreeInv, UNCHANGED <<boot, mem, pml4Phys, owned, k, old>>,
           pc' = "halt" \/ (pc # "halt" /\ (pc = "restore" <=> pc' = "restore")),
           pc' = "halt" \/ Linked' = Linked
    PROVE  TreeInv'
<1>1. CASE pc' = "halt" \/ pml4Phys' = 0
  BY <1>1 DEF TreeInv
<1>2. CASE pc' # "halt" /\ pml4Phys' # 0
  <2>1. Back' = Back
    BY <1>2 DEF Back
  <2> QED
    BY <1>2, <2>1 DEF TreeInv
<1> QED
  BY <1>1, <1>2

(* A page that is handed out is no table yet.                              *)
LEMMA TreeHandOut ==
    ASSUME AllocInv, AllocFresh', RootInv, TreeInv, PathInv,
           pc = "alloc", NEW p \in Frames, HandOut(p),
           UNCHANGED <<boot, lvl, pml4Phys, k, table, old, cr3>>
    PROVE  TreeInv' /\ PathInv'
<1>1. /\ owned \in Seq(Frames) /\ mem \in Memories /\ pc' = "link" /\ got' = p
      /\ owned' = Append(owned, p) /\ mem' = Cleared(p)
      /\ lvl \in Levels /\ boot \in Boots
  BY TableFacts DEF HandOut
<1>2. p \notin OwnedPages
  <2>1. /\ Len(owned) \in Nat /\ DOMAIN owned = 1..Len(owned)
        /\ DOMAIN owned' = 1..Len(owned) + 1
        /\ \A n \in 1..Len(owned) : owned'[n] = owned[n]
        /\ owned'[Len(owned) + 1] = p
    BY <1>1, AppendProperties, LenProperties
  <2> SUFFICES ASSUME NEW n \in DOMAIN owned, owned[n] = p PROVE FALSE
    BY DEF OwnedPages
  <2>2. n \in DOMAIN owned' /\ Len(owned) + 1 \in DOMAIN owned'
        /\ owned'[n] = owned'[Len(owned) + 1]
    BY <2>1
  <2>3. n # Len(owned) + 1
    BY <2>1
  <2> QED
    BY <2>2, <2>3 DEF AllocFresh
<1>3. \A t \in OwnedPages : mem'[t] = mem[t]
  BY <1>1, <1>2, TableFacts DEF Cleared, Memories
<1>4. OwnedPages' = OwnedPages \cup {p}
  BY <1>1, OwnedAppend DEF OwnedPages
<1>5. OwnedPages \subseteq Linked'
  BY <1>1, <1>2, <1>4 DEF Linked
<1>6. CASE pml4Phys = 0
  BY <1>1, <1>6 DEF TreeInv, PathInv, RootInv, Early
<1>7. CASE pml4Phys # 0
  <2>1. Tree(mem, pml4Phys, OwnedPages) /\ Maps(mem, pml4Phys, boot, k)
    BY <1>7 DEF TreeInv, Back, Linked
  <2>2. \A v \in VPages, l \in Depths : Node(mem', pml4Phys, l, v) = Node(mem, pml4Phys, l, v)
    BY <1>3, <2>1, OutsideTables
  <2>3. Tree(mem', pml4Phys, Linked')
    BY <1>3, <1>5, <2>1, OutsideTree
  <2>4. Maps(mem', pml4Phys, boot, k)
    <3>1. \A v \in VPages : Walk(mem', pml4Phys, v) = Walk(mem, pml4Phys, v)
      BY <2>2, NodeStep DEF Depths
    <3> QED
      BY <2>1, <3>1 DEF Maps
  <2>5. Back' = mem' /\ pml4Phys' = pml4Phys /\ boot' = boot /\ k' = k
    BY <1>1 DEF Back
  <2>6. TreeInv'
    BY <2>3, <2>4, <2>5 DEF TreeInv
  <2>7. lvl > 0 => /\ Node(mem', pml4Phys, lvl - 1, Request.v) = To(table)
                   /\ ~Node(mem', pml4Phys, lvl, Request.v).present
    <3> SUFFICES ASSUME lvl > 0
                 PROVE  /\ Node(mem', pml4Phys, lvl - 1, Request.v) = To(table)
                        /\ ~Node(mem', pml4Phys, lvl, Request.v).present
      OBVIOUS
    <3>1. k < Len(Work(boot))
      BY DEF AllocInv, Walking
    <3>2. Request.v \in VPages /\ lvl \in Depths /\ lvl - 1 \in Depths
      BY <1>1, <3>1, RequestIs DEF Depths
    <3> QED
      BY <2>2, <3>2 DEF PathInv
  <2>8. PathInv'
    <3>1. Request' = Request
      BY DEF Request
    <3> QED
      BY <1>1, <2>7, <3>1 DEF PathInv
  <2> QED
    BY <2>6, <2>8
<1> QED
  BY <1>6, <1>7
LEMMA TreeLinkRoot ==
    ASSUME AllocInv, RootInv, FirstInv, LinkRoot
    PROVE  TreeInv' /\ PathInv'
<1>1. /\ pml4Phys' = got /\ mem' = mem /\ boot' = boot /\ owned' = owned
      /\ pc = "link" /\ pc' = "map" /\ k' = 0 /\ got # 0
  BY DEF LinkRoot, walkVars, RootInv, Early
<1>2. Len(owned) = 1 /\ owned[1] = got /\ ClearIn(mem, got)
  BY <1>1 DEF FirstInv, LinkRoot
<1>3. OwnedPages' = {got}
  <2>1. DOMAIN owned = 1..1
    BY <1>2, TableFacts, LenProperties
  <2> QED
    BY <1>1, <1>2, <2>1 DEF OwnedPages
<1>4. Back' = mem /\ Linked' = {got}
  BY <1>1, <1>3 DEF Back, Linked
<1>5. Tree(mem, got, {got}) /\ \A v \in VPages : Walk(mem, got, v) = Zero
  BY <1>2, NewRoot
<1>6. MappedBy(boot, 0) = {}
  BY DEF MappedBy
<1>7. Maps(mem, got, boot, 0)
  BY <1>5, <1>6 DEF Maps
<1>8. TreeInv'
  BY <1>1, <1>4, <1>5, <1>7 DEF TreeInv
<1> QED
  BY <1>1, <1>8 DEF PathInv

LEMMA TreeLinkTable ==
    ASSUME AllocInv, RootInv, FirstInv, TreeInv, PathInv, LinkTable
    PROVE  TreeInv' /\ PathInv'
<1> DEFINE v == Request.v
<1>1. /\ mem' = [mem EXCEPT ![table][Idx(lvl - 1, v)] = To(got)] /\ table' = got
      /\ pc = "link" /\ pc' = "walk" /\ got # 0 /\ lvl > 0
      /\ UNCHANGED <<boot, pml4Phys, k, lvl, owned, got>>
  BY DEF LinkTable, poolVars
<1>2. k < Len(Work(boot)) /\ pml4Phys # 0
  BY <1>1 DEF AllocInv, Walking, RootInv, Early
<1>3. v \in VPages
  BY <1>2, RequestIs
<1>4. Tree(mem, pml4Phys, Linked) /\ Maps(mem, pml4Phys, boot, k)
  BY <1>1, <1>2 DEF TreeInv, Back
<1>5. got \in OwnedPages /\ Linked = OwnedPages \ {got}
  <2>1. owned # << >> /\ owned[Len(owned)] = got
    BY <1>1 DEF FirstInv
  <2>2. Len(owned) \in DOMAIN owned
    BY <2>1, TableFacts, LenProperties, EmptySeq
  <2> QED
    BY <1>1, <2>1, <2>2 DEF OwnedPages, Linked
<1>6. lvl \in Levels /\ lvl - 1 \in 0..2 /\ lvl - 1 \in Levels /\ (lvl - 1) + 1 = lvl
  BY <1>1, TableFacts
<1> DEFINE j == lvl - 1
<1>7. SetIn(mem, mem', pml4Phys, Linked, table, j, v, To(got))
  BY <1>1, <1>3, <1>4, <1>6, TableFacts DEF SetIn, PathInv
<1>8. LinkIn(mem, mem', pml4Phys, Linked, table, j, v, got)
  <2>1. ClearIn(mem, got) /\ ~Node(mem, pml4Phys, lvl, v).present
    BY <1>1 DEF FirstInv, PathInv
  <2> QED
    BY <1>5, <1>6, <1>7, <2>1, TableFacts DEF LinkIn
<1>9. /\ \A u \in VPages : Walk(mem', pml4Phys, u) = Walk(mem, pml4Phys, u)
      /\ Tree(mem', pml4Phys, Linked \cup {got})
      /\ Node(mem', pml4Phys, j + 1, v) = To(got)
  <2> HIDE DEF j, v
  <2> QED
    BY <1>8, LinkEffect
<1>10. Maps(mem', pml4Phys, boot, k)
  BY <1>4, <1>9 DEF Maps
<1>11. Back' = mem' /\ Linked' = Linked \cup {got}
  <2>1. OwnedPages' = OwnedPages
    BY <1>1 DEF OwnedPages
  <2> QED
    BY <1>1, <1>5, <2>1 DEF Back, Linked
<1>12. TreeInv'
  BY <1>1, <1>9, <1>10, <1>11 DEF TreeInv
<1>13. Request' = Request
  BY <1>1 DEF Request
<1>14. Node(mem', pml4Phys, lvl, v) = To(got)
  BY <1>6, <1>9
<1>15. PathInv'
  BY <1>1, <1>13, <1>14 DEF PathInv
<1> QED
  BY <1>12, <1>15

LEMMA TreeSetPte ==
    ASSUME AllocInv, RootInv, TreeInv, PathInv, SetPte
    PROVE  /\ TreeInv' /\ PathInv'
           /\ MappedBy(boot, k') = MappedBy(boot, k) \cup {Request.v}
<1> DEFINE v == Request.v
<1>1. /\ mem' = [mem EXCEPT ![table][Idx(3, v)] = To(Request.p)]
      /\ pc = "walk" /\ pc' = "map" /\ k' = k + 1 /\ lvl = 3
      /\ UNCHANGED <<boot, pml4Phys, owned>>
  BY DEF SetPte
<1>2. k < Len(Work(boot)) /\ pml4Phys # 0
  BY <1>1 DEF AllocInv, Walking, RootInv, Early
<1>3. /\ v \in VPages /\ To(Request.p) = To(GoalOf(boot)[v])
      /\ MappedBy(boot, k') = MappedBy(boot, k) \cup {v}
  BY <1>1, <1>2, RequestIs
<1>4. Tree(mem, pml4Phys, OwnedPages) /\ Maps(mem, pml4Phys, boot, k)
  BY <1>1, <1>2 DEF TreeInv, Back, Linked
<1> DEFINE e == To(Request.p)
<1>5. SetIn(mem, mem', pml4Phys, OwnedPages, table, 3, v, e)
  BY <1>1, <1>3, <1>4, TableFacts DEF SetIn, PathInv
<1>6. /\ \A u \in VPages : Walk(mem', pml4Phys, u) = IF u = v THEN e ELSE Walk(mem, pml4Phys, u)
      /\ Tree(mem', pml4Phys, OwnedPages)
  <2> HIDE DEF e, v
  <2> QED
    BY <1>5, SetLeaf
<1>7. Maps(mem', pml4Phys, boot, k')
  <2> SUFFICES ASSUME NEW u \in VPages
               PROVE  Walk(mem', pml4Phys, u) =
                          IF u \in MappedBy(boot, k') THEN To(GoalOf(boot)[u]) ELSE Zero
    BY DEF Maps
  <2>1. Walk(mem, pml4Phys, u) = IF u \in MappedBy(boot, k) THEN To(GoalOf(boot)[u]) ELSE Zero
    BY <1>4 DEF Maps
  <2> HIDE DEF e, v
  <2> QED
    BY <1>3, <1>6, <2>1 DEF e
<1>8. Back' = mem' /\ Linked' = OwnedPages
  <2>1. OwnedPages' = OwnedPages
    BY <1>1 DEF OwnedPages
  <2> QED
    BY <1>1, <2>1 DEF Back, Linked
<1>9. TreeInv'
  BY <1>1, <1>6, <1>7, <1>8 DEF TreeInv
<1> QED
  BY <1>1, <1>3, <1>9 DEF PathInv

(* The touch test works on the first word of the buffer's first page,      *)
(* before and after it has changed that word.                              *)
LEMMA TouchedIs ==
    ASSUME AllocInv, RootInv, FirstInv, TreeInv, pc \in {"touch", "flip", "restore"}
    PROVE  Touched = To(boot.mmapPhys) /\ boot.mmapPhys \in Frames /\ 0 \in Slots
<1> DEFINE u == boot.mmapPhys + UPPER_HALF
<1>1. /\ pml4Phys # 0 /\ cr3 = pml4Phys /\ k = Len(Work(boot))
  BY DEF RootInv, Early, Late
<1>2. boot \in Boots /\ boot.mmapPhys \in Frames /\ boot.mmapPhys \in Nat
  BY TableFacts, BootType
<1>3. u \in VPages /\ u >= UPPER_HALF /\ u \in MappedBy(boot, k) /\ GoalOf(boot)[u] = boot.mmapPhys
  <2>1. u \in DOMAIN GoalOf(boot) /\ GoalOf(boot)[u] = boot.mmapPhys
    BY <1>2, WorkGoal
  <2>2. PICK n \in 1..Len(Work(boot)) : Work(boot)[n].v = u
    BY <1>2, <2>1, WorkGoal
  <2>3. u \in VPages /\ u \in MappedBy(boot, k)
    BY <1>1, <1>2, <2>2, WorkGoal DEF MappedBy
  <2>4. u >= UPPER_HALF
    BY <1>2, UpperHalfNat
  <2> QED
    BY <2>1, <2>3, <2>4
<1>4. Tree(Back, pml4Phys, OwnedPages) /\ Maps(Back, pml4Phys, boot, k)
  BY <1>1 DEF TreeInv, Linked
<1>5. Walk(Back, pml4Phys, u) = To(boot.mmapPhys)
  <2> HIDE DEF u
  <2> QED
    BY <1>3, <1>4 DEF Maps
<1>6. Walk(mem, pml4Phys, u) = Walk(Back, pml4Phys, u)
  <2>1. CASE pc # "restore"
    BY <2>1 DEF Back
  <2>2. CASE pc = "restore"
    <3>1. boot.mmapPhys = pml4Phys \/ boot.mmapPhys \notin OwnedPages
      BY <1>1 DEF FirstInv
    <3>2. \A p \in Frames, s \in Slots :
              p # boot.mmapPhys \/ s # 0 => mem[p][s] = Back[p][s]
      BY <2>2, TableFacts DEF Back, PutBack, Memories
    <3>3. Idx(0, u) # 0
      BY <1>3, UpperHalf
    <3>4. SameButWord(Back, mem, pml4Phys, OwnedPages, boot.mmapPhys)
      BY <1>4, <3>1, <3>2, TableFacts DEF SameButWord
    <3> HIDE DEF u
    <3> QED
      BY <1>3, <3>3, <3>4, OffPath
  <2> QED
    BY <2>1, <2>2
<1>7. 0 \in Slots
  BY RadixAssumption DEF Slots
<1> QED
  BY <1>1, <1>2, <1>5, <1>6, <1>7 DEF Touched

LEMMA PutBackIs ==
    ASSUME NEW m \in Memories, NEW p \in Frames, 0 \in Slots, NEW e
    PROVE  PutBack([m EXCEPT ![p][0] = e], p, m[p][0]) = m
<1> DEFINE n == [m EXCEPT ![p][0] = e]
           q == PutBack(n, p, m[p][0])
<1>1. m = [x \in Frames |-> m[x]] /\ \A x \in Frames : m[x] = [s \in Slots |-> m[x][s]]
  BY DEF Memories
<1>2. n = [x \in Frames |-> IF x = p THEN [m[p] EXCEPT ![0] = e] ELSE m[x]]
  BY <1>1
<1>3. n[p] = [m[p] EXCEPT ![0] = e]
  BY <1>2
<1>4. q = [x \in Frames |-> IF x = p THEN [n[p] EXCEPT ![0] = m[p][0]] ELSE n[x]]
  BY <1>2 DEF PutBack
<1>5. [n[p] EXCEPT ![0] = m[p][0]] = m[p]
  BY <1>1, <1>3
<1>6. \A x \in Frames : q[x] = m[x]
  BY <1>2, <1>4, <1>5
<1> HIDE DEF n, q
<1>7. q = m
  BY <1>1, <1>4, <1>6
<1> QED
  BY <1>7 DEF q, n

LEMMA TreeTouchFlip ==
    ASSUME AllocInv, RootInv, FirstInv, TreeInv, PathInv, TouchFlip
    PROVE  TreeInv' /\ PathInv' /\ Back' = Back
<1>1. /\ pc = "flip" /\ pc' = "restore" /\ UNCHANGED <<boot, owned, pml4Phys, k, old, got>>
      /\ mem' = [mem EXCEPT ![Touched.frame][0] = Flip(old)]
  BY DEF TouchFlip, walkVars
<1>2. Touched.frame = boot.mmapPhys /\ boot.mmapPhys \in Frames /\ 0 \in Slots
  BY <1>1, TouchedIs, ToPresent
<1>3. old = mem[boot.mmapPhys][0] /\ mem' = [mem EXCEPT ![boot.mmapPhys][0] = Flip(old)]
  BY <1>1, <1>2 DEF PathInv
<1>4. PutBack(mem', boot.mmapPhys, old) = mem
  BY <1>2, <1>3, TableFacts, PutBackIs
<1>5. Back' = mem /\ Back = mem
  BY <1>1, <1>4 DEF Back
<1>6. Linked' = Linked
  BY <1>1 DEF Linked, OwnedPages
<1> QED
  BY <1>1, <1>5, <1>6 DEF TreeInv, PathInv

LEMMA TreeTouchRestore ==
    ASSUME AllocInv, RootInv, FirstInv, TreeInv, TouchRestore
    PROVE  TreeInv' /\ PathInv' /\ Back' = Back
<1>1. /\ pc = "restore" /\ pc' = "done" /\ UNCHANGED <<boot, owned, pml4Phys, k, got>>
      /\ mem' = [mem EXCEPT ![Touched.frame][0] = old]
  BY DEF TouchRestore, walkVars
<1>2. Touched.frame = boot.mmapPhys
  BY <1>1, TouchedIs, ToPresent
<1>3. Back' = mem' /\ Back = mem'
  BY <1>1, <1>2 DEF Back, PutBack
<1>4. Linked' = Linked
  BY <1>1 DEF Linked, OwnedPages
<1> QED
  BY <1>1, <1>3, <1>4 DEF TreeInv, PathInv

(* Every step of Stage 1 keeps the tables a tree that maps the requests    *)
(* done.                                                                   *)
THEOREM TreeStep ==
    ASSUME AllocInv, AllocInv', RootInv, RootInv', FirstInv, TreeInv, PathInv, [Next]_vars
    PROVE  TreeInv' /\ PathInv'
<1>0. lvl \in Levels /\ table \in Frames /\ mem \in Memories /\ AllocFresh'
  BY TableFacts DEF AllocInv
<1> USE DEF Linked, OwnedPages, PathInv
<1>1. CASE RejectMap
  BY <1>1, TreeUnchanged DEF RejectMap, Fail, scanVars, poolVars, walkVars
<1>2. CASE AcceptMap
  BY <1>2, TreeUnchanged DEF AcceptMap, scanVars, poolVars, walkVars
<1>3. CASE ScanDescriptor
  BY <1>3, TreeUnchanged DEF ScanDescriptor, poolVars, walkVars
<1>4. CASE EndScan
  BY <1>4, TreeUnchanged DEF EndScan, poolVars
<1>5. CASE ScratchSkip
  <2>1. Request' = Request
    BY <1>5 DEF ScratchSkip, walkVars, Request
  <2> QED
    BY <1>5, <2>1, TreeUnchanged DEF ScratchSkip, walkVars
<1>6. CASE ScratchTake
  <2>1. scratchNext \in Frames
    BY <1>6, ScratchType DEF AllocInv, ScratchTake
  <2> QED
    BY <1>0, <1>6, <2>1, TreeHandOut DEF ScratchTake, walkVars
<1>7. CASE FallbackSkip
  <2>1. Request' = Request
    BY <1>7 DEF FallbackSkip, walkVars, Request
  <2> QED
    BY <1>7, <2>1, TreeUnchanged DEF FallbackSkip, walkVars
<1>8. CASE FallbackTake
  <2>1. Cursor \in Frames
    BY <1>8, CursorType DEF FallbackTake, AllocInv
  <2> QED
    BY <1>0, <1>8, <2>1, TreeHandOut DEF FallbackTake, walkVars
<1>9. CASE FallbackNextRange
  <2>1. Request' = Request
    BY <1>9 DEF FallbackNextRange, walkVars, Request
  <2> QED
    BY <1>9, <2>1, TreeUnchanged DEF FallbackNextRange, walkVars
<1>10. CASE NothingLeft
  <2>1. Request' = Request
    BY <1>10 DEF NothingLeft, walkVars, Request
  <2> QED
    BY <1>10, <2>1, TreeUnchanged DEF NothingLeft, walkVars
<1>11. CASE OutOfPages
  BY <1>11, TreeUnchanged DEF OutOfPages, Fail, walkVars
<1>12. CASE LinkRoot
  BY <1>12, TreeLinkRoot
<1>13. CASE LinkTable
  BY <1>13, TreeLinkTable
<1>14. CASE StartRequest
  <2>1. Node(mem, pml4Phys, 0, Request.v) = To(pml4Phys)
    BY NodeStep
  <2>2. Request' = Request
    BY <1>14 DEF StartRequest, Request
  <2> QED
    BY <1>14, <2>1, <2>2, TreeUnchanged DEF StartRequest, poolVars
<1>15. CASE Descend
  <2>1. Node(mem, pml4Phys, lvl, Request.v) = To(table) /\ k < Len(Work(boot))
    BY <1>15 DEF Descend, AllocInv, Walking
  <2>2. Node(mem, pml4Phys, lvl + 1, Request.v) = Here
    BY <1>0, <2>1, NodeStep, ToPresent DEF Follow, Here
  <2>3. Here \in Entry /\ Here.present
    BY <1>0, <1>15, <2>1, RequestType DEF Descend, Here, Memories, AllocInv
  <2>4. Here = To(Here.frame)
    BY <2>3 DEF Entry, To
  <2>5. Request' = Request
    BY <1>15 DEF Descend, Request
  <2> QED
    BY <1>15, <2>2, <2>4, <2>5, TreeUnchanged DEF Descend, poolVars
<1>16. CASE NeedTable
  <2>1. Node(mem, pml4Phys, lvl, Request.v) = To(table)
    BY <1>16 DEF NeedTable
  <2>2. Node(mem, pml4Phys, lvl + 1, Request.v) = Here /\ (lvl + 1) - 1 = lvl
    BY <1>0, <2>1, NodeStep, ToPresent DEF Follow, Here
  <2>3. Request' = Request
    BY <1>16 DEF NeedTable, Request
  <2> QED
    BY <1>16, <2>1, <2>2, <2>3, TreeUnchanged DEF NeedTable, poolVars
<1>17. CASE SetPte
  BY <1>17, TreeSetPte
<1>18. CASE SwitchCr3
  BY <1>18, TreeUnchanged DEF SwitchCr3, poolVars, walkVars
<1>19. CASE TouchLoad
  <2>1. Touched' = Touched /\ mem' = mem
    BY <1>19 DEF TouchLoad, Touched
  <2>2. old' = mem[Touched.frame][0] /\ pc = "touch" /\ pc' = "flip"
    BY <1>19 DEF TouchLoad
  <2>3. PathInv'
    BY <2>1, <2>2
  <2>4. UNCHANGED <<boot, mem, pml4Phys, owned, k, got>>
    BY <1>19 DEF TouchLoad, poolVars, walkVars
  <2>5. Linked' = Linked
    BY <2>2, <2>4
  <2>6. Back' = Back
    BY <2>2, <2>4 DEF Back
  <2>7. TreeInv'
    BY <2>2, <2>4, <2>5, <2>6 DEF TreeInv
  <2> QED
    BY <2>3, <2>7
<1>20. CASE TouchFlip
  BY <1>20, TreeTouchFlip
<1>21. CASE TouchRestore
  BY <1>21, TreeTouchRestore
<1>22. CASE Stopped \/ UNCHANGED vars
  <2>1. UNCHANGED vars
    BY <1>22 DEF Stopped
  <2>2. Request' = Request /\ Touched' = Touched
    BY <2>1 DEF vars, walkVars, Request, Touched
  <2>3. UNCHANGED <<boot, mem, pml4Phys, owned, k, got, pc, lvl, table, old>>
    BY <2>1 DEF vars, walkVars
  <2> QED
    BY <2>2, <2>3, TreeUnchanged
<1> QED
  BY <1>1, <1>2, <1>3, <1>4, <1>5, <1>6, <1>7, <1>8, <1>9, <1>10, <1>11, <1>12,
     <1>13, <1>14, <1>15, <1>16, <1>17, <1>18, <1>19, <1>20, <1>21, <1>22 DEF Next

(* The tables' invariant is inductive.                                     *)
THEOREM TablesInit == Init => TablesInv
<1> SUFFICES ASSUME Init PROVE TablesInv
  OBVIOUS
<1>1. /\ boot \in Boots /\ pc = "enter" /\ owned = << >> /\ pml4Phys = 0 /\ cr3 = 0
      /\ k = 0 /\ mmapAllocEnd = boot.mmapPhys + boot.mmapPages
  BY DEF Init, MmapEnd
<1>2. RootInv
  BY <1>1 DEF RootInv, Early, Late
<1>3. boot.mmapPhys \in Nat /\ boot.mmapPages \in Nat
  BY <1>1, BootType
<1>4. FirstInv
  BY <1>1, <1>3 DEF FirstInv, OwnedPages
<1> QED
  BY <1>1, <1>2, <1>4 DEF TablesInv, TreeInv, PathInv

THEOREM TablesSafe == Spec => [](AllocInv /\ TablesInv)
<1>1. Init => TablesInv
  BY TablesInit
<1>2. ASSUME AllocInv, AllocInv', TablesInv, [Next]_vars PROVE TablesInv'
  <2>1. RootInv'
    BY <1>2, RootStep DEF TablesInv
  <2>2. FirstInv'
    BY <1>2, FirstStep DEF TablesInv
  <2>3. TreeInv' /\ PathInv'
    BY <1>2, <2>1, TreeStep DEF TablesInv
  <2> QED
    BY <2>1, <2>2, <2>3 DEF TablesInv
<1> QED
  BY <1>1, <1>2, Safety, PTL DEF Spec
-----------------------------------------------------------------------------
(* The refinement.                                                         *)

(* What is mapped after n requests.                                        *)
Space(b, n) == [v \in MappedBy(b, n) |-> GoalOf(b)[v]]

LEMMA TranslationIs ==
    ASSUME AllocInv, TablesInv, pc # "halt"
    PROVE  Translation = Space(boot, k)
<1> USE DEF TablesInv
<1>1. CASE pml4Phys = 0
  <2>1. k = 0
    BY <1>1 DEF RootInv
  <2>2. MappedBy(boot, 0) = {}
    BY DEF MappedBy
  <2> QED
    BY <1>1, <2>1, <2>2 DEF Translation, Space
<1>2. CASE pml4Phys # 0
  <2>1. Settled = Back
    <3>1. CASE pc = "restore"
      BY <3>1, TouchedIs, ToPresent DEF Settled, Back, PutBack
    <3>2. CASE pc # "restore"
      BY <3>2 DEF Settled, Back
    <3> QED
      BY <3>1, <3>2
  <2>2. MappedBy(boot, k) \subseteq VPages
    BY TableFacts, WorkGoal, SMTT(30) DEF MappedBy
  <2>3. \A v \in VPages :
            Walk(Settled, pml4Phys, v) =
                IF v \in MappedBy(boot, k) THEN To(GoalOf(boot)[v]) ELSE Zero
    BY <1>2, <2>1 DEF TreeInv, Maps
  <2>4. ~Zero.present
    BY DEF Zero
  <2> DEFINE D == {u \in VPages : Walk(Settled, pml4Phys, u).present}
  <2>5. D = MappedBy(boot, k)
    BY <2>2, <2>3, <2>4, ToPresent
  <2>6. \A v \in D : Walk(Settled, pml4Phys, v).frame = GoalOf(boot)[v]
    BY <2>2, <2>3, <2>5, ToPresent
  <2>7. Translation = [v \in D |-> Walk(Settled, pml4Phys, v).frame]
    BY <1>2 DEF Translation
  <2> HIDE DEF D
  <2> QED
    BY <2>5, <2>6, <2>7 DEF Space
<1> QED
  BY <1>1, <1>2

LEMMA TranslationNext ==
    (AllocInv /\ TablesInv /\ pc # "halt" => Translation = Space(boot, k))'
<1>1. AllocInv /\ TablesInv /\ pc # "halt" => Translation = Space(boot, k)
  BY TranslationIs
<1> QED
  BY <1>1, PTL

LEMMA SpaceGoal ==
    ASSUME NEW b \in Boots
    PROVE  Space(b, Len(Work(b))) = GoalOf(b)
<1>1. MappedBy(b, Len(Work(b))) = DOMAIN GoalOf(b)
  BY WorkGoal DEF MappedBy
<1>2. GoalOf(b) = [v \in DOMAIN GoalOf(b) |-> GoalOf(b)[v]]
  BY DEF GoalOf
<1> QED
  BY <1>1, <1>2 DEF Space

LEMMA Quiet ==
    ASSUME AllocInv, TablesInv, AllocInv', TablesInv', pc # "halt",
           UNCHANGED <<boot, k, cr3>>, pc' # "halt" \/ (pc # "restore" /\ UNCHANGED <<mem, pml4Phys>>)
    PROVE  UNCHANGED <<GoalOf(boot), Translation, cr3 # 0>>
<1>1. Translation' = Translation
  <2>1. CASE pc' # "halt"
    <3>1. Translation = Space(boot, k)
      BY TranslationIs
    <3>2. Translation' = Space(boot', k')
      BY <2>1, TranslationNext
    <3> QED
      BY <3>1, <3>2
  <2>2. CASE pc' = "halt"
    BY <2>2 DEF Translation, Settled
  <2> QED
    BY <2>1, <2>2
<1> QED
  BY <1>1

THEOREM AbstractStep ==
    ASSUME AllocInv, TablesInv, AllocInv', TablesInv', [Next]_vars
    PROVE  [Abstract!Next]_<<GoalOf(boot), Translation, cr3 # 0>>
<1> USE DEF scanVars, poolVars, walkVars
<1>1. CASE RejectMap \/ AcceptMap \/ ScanDescriptor \/ EndScan
  BY <1>1, Quiet DEF RejectMap, Fail, AcceptMap, ScanDescriptor, EndScan
<1>2. CASE ScratchSkip \/ ScratchTake \/ NothingLeft \/ OutOfPages
  BY <1>2, Quiet DEF ScratchSkip, ScratchTake, HandOut, NothingLeft, OutOfPages, Fail
<1>3. CASE FallbackSkip \/ FallbackTake \/ FallbackNextRange
  BY <1>3, Quiet DEF FallbackSkip, FallbackTake, HandOut, FallbackNextRange
<1>4. CASE LinkRoot \/ LinkTable \/ StartRequest \/ Descend \/ NeedTable
  BY <1>4, Quiet DEF LinkRoot, LinkTable, StartRequest, Descend, NeedTable
<1>5. CASE TouchLoad \/ TouchFlip \/ TouchRestore
  BY <1>5, Quiet DEF TouchLoad, TouchFlip, TouchRestore
<1>6. CASE Stopped \/ UNCHANGED vars
  <2>1. UNCHANGED vars
    BY <1>6 DEF Stopped
  <2>2. UNCHANGED <<boot, pc, mem, pml4Phys, cr3, old>>
    BY <2>1 DEF vars
  <2>3. Translation' = Translation
    BY <2>2 DEF Translation, Settled, Touched
  <2> QED
    BY <2>2, <2>3
<1>7. CASE SetPte
  <2> DEFINE v == Request.v
             M == MappedBy(boot, k)
  <2>1. /\ boot' = boot /\ cr3' = cr3 /\ k' = k + 1 /\ pc = "walk" /\ pc' = "map"
        /\ k < Len(Work(boot))
    BY <1>7 DEF SetPte, AllocInv, Walking
  <2>2. v \in DOMAIN GoalOf(boot) /\ MappedBy(boot, k + 1) = M \cup {v}
    BY <2>1, RequestIs
  <2>3. Translation = Space(boot, k) /\ Translation' = Space(boot, k + 1)
    <3>1. Translation = Space(boot, k)
      BY <2>1, TranslationIs
    <3>2. Translation' = Space(boot', k')
      BY <2>1, TranslationNext
    <3> QED
      BY <2>1, <3>1, <3>2
  <2>4. ~(cr3 # 0)
    BY <2>1 DEF TablesInv, RootInv, Late
  <2> HIDE DEF v, M
  <2>5. /\ DOMAIN Translation = M
        /\ Translation' = [u \in M \cup {v} |-> GoalOf(boot)[u]]
        /\ \A u \in M : Translation[u] = GoalOf(boot)[u]
    BY <2>2, <2>3 DEF Space, M
  <2>6. CASE v \in M
    <3>1. M \cup {v} = M
      BY <2>6
    <3>2. Translation' = Translation
      BY <2>2, <2>3, <3>1 DEF Space, M
    <3> QED
      BY <2>1, <3>2
  <2>7. CASE v \notin M
    <3>1. Translation' = [u \in DOMAIN Translation \cup {v} |->
                             IF u = v THEN GoalOf(boot)[v] ELSE Translation[u]]
      BY <2>5
    <3>2. v \in DOMAIN GoalOf(boot) \ DOMAIN Translation
      BY <2>2, <2>5, <2>7
    <3>3. Abstract!Map
      BY <2>1, <2>4, <3>1, <3>2 DEF Abstract!Map
    <3> QED
      BY <3>3 DEF Abstract!Next
  <2> QED
    BY <2>6, <2>7
<1>8. CASE SwitchCr3
  <2>1. /\ UNCHANGED <<boot, k, pml4Phys>> /\ cr3' = pml4Phys
        /\ k = Len(Work(boot)) /\ pc = "map" /\ pc' = "touch"
    BY <1>8 DEF SwitchCr3
  <2>2. cr3 = 0 /\ pml4Phys # 0
    BY <2>1 DEF TablesInv, RootInv, Early, Late
  <2>3. Translation = Space(boot, k)
    BY <2>1, TranslationIs
  <2>4. Translation' = Space(boot', k')
    BY <2>1, TranslationNext
  <2>5. Translation = GoalOf(boot) /\ Translation' = Translation
    BY <2>1, <2>3, <2>4, TableFacts, SpaceGoal
  <2>6. Abstract!Activate
    BY <2>1, <2>2, <2>5 DEF Abstract!Activate
  <2> QED
    BY <2>6 DEF Abstract!Next
<1> QED
  BY <1>1, <1>2, <1>3, <1>4, <1>5, <1>6, <1>7, <1>8 DEF Next

(* Stage 1 builds the address space it should, one mapping at a time, and  *)
(* loads CR3 with exactly that: for every table size, memory map and       *)
(* placement of the kernel, its stack and the buffer.                      *)
THEOREM Refines == Spec => BuildsAddressSpace
<1>1. ASSUME Init PROVE Abstract!Init
  <2>1. boot \in Boots /\ pml4Phys = 0 /\ cr3 = 0
    BY <1>1 DEF Init
  <2>2. Translation = [v \in {} |-> 0]
    BY <2>1 DEF Translation
  <2> QED
    BY <2>1, <2>2 DEF Abstract!Init
<1>2. ASSUME AllocInv, TablesInv, AllocInv', TablesInv', [Next]_vars
      PROVE  [Abstract!Next]_<<GoalOf(boot), Translation, cr3 # 0>>
  BY <1>2, AbstractStep
<1> QED
  BY <1>1, <1>2, TablesSafe, PTL DEF Spec, BuildsAddressSpace, Abstract!Spec
=============================================================================
