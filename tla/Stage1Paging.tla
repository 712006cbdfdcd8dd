---------------------------- MODULE Stage1Paging ----------------------------
(***************************************************************************)
(* Stage 1 of the kernel (src-os/kernel/init.cpp, kernel_entry up to       *)
(* write_stage1_done): it scans the UEFI memory map, takes pages for the   *)
(* page tables out of the memory-map buffer (and, when that is used up,    *)
(* out of conventional memory), builds a four-level page table that maps   *)
(* the kernel, its stack, one page of the memory map and the local APIC at *)
(* their physical addresses and again in the upper half, loads CR3 and     *)
(* touches memory through the upper half.                                  *)
(*                                                                         *)
(* Addresses are counted in pages. A table has Radix entries (512 in the   *)
(* code), so an address space has Radix^4 pages and its upper half starts  *)
(* at Radix^4 / 2. The loops of allocPage and of mapPageDual take one step *)
(* per iteration.                                                          *)
(***************************************************************************)
EXTENDS Integers, Sequences, FiniteSets

CONSTANTS
    Radix,          \* entries of a table
    Frames,         \* the page numbers of the physical address space
    STACK_PAGES,    \* pages of the kernel stack
    LapicPage,      \* page of the local APIC registers (kLapicMmioPhys)
    HeadroomPages,  \* pool size when the buffer's descriptor is not found
    MAX_RANGES,     \* conventional ranges the scan keeps
    ScanLimit,      \* descriptors in the part of the map that is scanned
    Boots           \* what the loader may pass to kernel_entry

Conventional == "conventional"
LoaderData == "loader data"

(* The types a descriptor may have, as far as they are told apart; the     *)
(* kernel looks for the first two.                                         *)
MemoryTypes == {Conventional, LoaderData, "loader code", "firmware", "unusable"}

(***************************************************************************)
(* A boot record: the parameters of kernel_entry and what they point to.   *)
(* mmapPages is how many pages the descriptors fill, descs what they say.  *)
(***************************************************************************)
Descriptors == [type : MemoryTypes, start : Frames, pages : Nat]
Pages(start, n) == start .. start + n - 1

(* The first page of the upper half of the address space.                  *)
UPPER_HALF == (Radix * Radix * Radix * Radix) \div 2

KernelSpan(b) == Pages(b.kernelPhys, b.kernelPages)
StackSpan(b) == Pages(b.stackPhys, STACK_PAGES)

BootOK(b) ==
    /\ b \in [kernelPhys : Frames \ {0}, kernelPages : Nat \ {0},
              stackPhys : Frames \ {0}, mmapPhys : Frames \ {0},
              mmapPages : Nat, descs : Seq(Descriptors)]
    /\ KernelSpan(b) \subseteq Frames
    /\ StackSpan(b) \subseteq Frames
    /\ \A i \in DOMAIN b.descs :
          Pages(b.descs[i].start, b.descs[i].pages) \subseteq Frames
    \* the mapped memory is addressed below the upper half
    /\ \A p \in KernelSpan(b) \cup StackSpan(b) \cup {b.mmapPhys} : p < UPPER_HALF
    \* the descriptors are in the buffer
    /\ b.descs # << >> => b.mmapPages > 0
    \* entries of the UEFI memory map do not overlap
    /\ \A i, j \in DOMAIN b.descs : i # j =>
          Pages(b.descs[i].start, b.descs[i].pages)
              \cap Pages(b.descs[j].start, b.descs[j].pages) = {}
    \* physical addresses go on behind the buffer
    /\ Pages(b.mmapPhys, b.mmapPages + HeadroomPages) \subseteq Frames

ASSUME RadixAssumption == Radix \in Nat /\ Radix > 1
ASSUME FramesAssumption == Frames \subseteq Nat /\ 0 \in Frames
ASSUME LimitsAssumption ==
    /\ STACK_PAGES \in Nat /\ STACK_PAGES > 0
    /\ HeadroomPages \in Nat
    /\ MAX_RANGES \in Nat
    /\ ScanLimit \in Nat
    /\ LapicPage \in Frames /\ LapicPage < UPPER_HALF
ASSUME BootsAssumption == \A b \in Boots : BootOK(b)
-----------------------------------------------------------------------------
(* Page-table entries and the translation they give.                      *)

Levels == 0..3      \* PML4, PDPT, PD, PT
Span == [l \in Levels |-> CASE l = 0 -> Radix * Radix * Radix
                            [] l = 1 -> Radix * Radix
                            [] l = 2 -> Radix
                            [] l = 3 -> 1]

(* idxPml4, idxPdpt, idxPd, idxPt.                                         *)
Idx(l, v) == (v \div Span[l]) % Radix

Slots == 0..Radix - 1
Entry == [present : BOOLEAN, frame : Frames]
Zero == [present |-> FALSE, frame |-> 0]
To(p) == [present |-> TRUE, frame |-> p]    \* makeEntryAddr(p) | PTE_PRESENT

(* What memory holds that nobody has cleared: it may read as any entry.    *)
Junk == To(0)
(* old ^ 0xa5a5...: the present bit flips, the address is garbled.         *)
Flip(e) == [present |-> ~e.present, frame |-> 0]

VARIABLES
    boot,           \* the parameters of kernel_entry
    pc,             \* where kernel_entry is
    i,              \* descriptors scanned
    ranges,         \* conventional ranges kept, [start, end)
    mmapAllocEnd,   \* end of the buffer, as far as the scan knows
    scratchNext,    \* next page of the buffer to hand out
    fbIdx, fbNext,  \* cursor in ranges (fbNext = 0: at the range's start)
    got,            \* what allocPage returned
    owned,          \* history: the pages allocPage cleared, in order
    mem,            \* memory, as the entries each page would be as a table
    pml4Phys,       \* the root table
    k,              \* mapping requests done
    lvl, table,     \* level and page of the table mapPageDual looks at
    cr3,            \* the root the processor translates with; 0: firmware's
    old,            \* the word saved by the touch test
    code            \* letter of write_stage1_fail_code, or "none"

scanVars == <<i, ranges, mmapAllocEnd>>
poolVars == <<scratchNext, fbIdx, fbNext>>
walkVars == <<k, lvl, table>>
vars == <<boot, pc, scanVars, poolVars, got, owned, mem, pml4Phys, walkVars,
          cr3, old, code>>

MmapEnd(b) == b.mmapPhys + b.mmapPages
ScratchEnd == mmapAllocEnd

(* One level of a page walk, and the walk from the root table.            *)
Follow(m, e, l, v) == IF e.present THEN m[e.frame][Idx(l, v)] ELSE Zero
Walk(m, root, v) ==
    Follow(m, Follow(m, Follow(m, Follow(m, To(root), 0, v), 1, v), 2, v), 3, v)

(* The pages mapped, in the order of the mapRangeDual / mapPageDual calls. *)
Identity(b) ==
    [n \in 1..b.kernelPages |-> b.kernelPhys + n - 1]
        \o [n \in 1..STACK_PAGES |-> b.stackPhys + n - 1]
        \o << b.mmapPhys, LapicPage >>

Work(b) ==
    LET ps == Identity(b) IN
    [n \in 1..Len(ps) |-> [v |-> ps[n], p |-> ps[n]]]
        \o [n \in 1..Len(ps) |-> [v |-> ps[n] + UPPER_HALF, p |-> ps[n]]]

Live(b, p) == p \in KernelSpan(b) \/ p \in StackSpan(b)
-----------------------------------------------------------------------------
Init ==
    /\ boot \in Boots
    /\ pc = "enter"
    /\ i = 0 /\ ranges = << >> /\ mmapAllocEnd = MmapEnd(boot)
    /\ scratchNext = boot.mmapPhys /\ fbIdx = 1 /\ fbNext = 0
    /\ got = 0 /\ owned = << >>
    /\ mem = [p \in Frames |-> [s \in Slots |-> Junk]]
    /\ pml4Phys = 0
    /\ k = 0 /\ lvl = 0 /\ table = 0
    /\ cr3 = 0
    /\ old = Zero
    /\ code = "none"

(* write_stage1_fail_code, then cli; hlt for ever.                         *)
Fail(c) ==
    /\ code' = c
    /\ pc' = "halt"

(* No descriptor fits the size the loader reports: code A.                 *)
RejectMap ==
    /\ pc = "enter"
    /\ boot.descs = << >>
    /\ Fail("A")
    /\ UNCHANGED <<boot, scanVars, poolVars, got, owned, mem, pml4Phys,
                   walkVars, cr3, old>>

AcceptMap ==
    /\ pc = "enter"
    /\ boot.descs # << >>
    /\ pc' = "scan"
    /\ UNCHANGED <<boot, scanVars, poolVars, got, owned, mem, pml4Phys,
                   walkVars, cr3, old, code>>

MoreToScan ==
    /\ i < Len(boot.descs)
    /\ i < ScanLimit
    /\ Len(ranges) < MAX_RANGES

(* The first page behind a descriptor.                                     *)
EndInclusive(d) == d.start + d.pages + 1    \* mutant of EndOf: one page too many
EndOf(d) == d.start + d.pages

(* The descriptor of the buffer itself gives the end of the pool; every    *)
(* conventional descriptor is kept for the fallback.                       *)
ScanDescriptor ==
    /\ pc = "scan"
    /\ MoreToScan
    /\ LET d == boot.descs[i + 1] IN
          /\ mmapAllocEnd' =
                IF d.type = LoaderData /\ boot.mmapPhys \in Pages(d.start, d.pages)
                THEN EndOf(d) ELSE mmapAllocEnd
          /\ ranges' = IF d.type = Conventional /\ d.pages > 0
                       THEN Append(ranges, [start |-> d.start, end |-> EndOf(d)])
                       ELSE ranges
    /\ i' = i + 1
    /\ UNCHANGED <<boot, pc, poolVars, got, owned, mem, pml4Phys, walkVars,
                   cr3, old, code>>

(* Where the pool may reach when the buffer's descriptor was not found:    *)
(* HeadroomPages on, but not into the kernel or the stack.                 *)
Headroom(b) ==
    LET candidate == MmapEnd(b) + HeadroomPages
        stops == {p \in {b.kernelPhys, b.stackPhys} :
                      MmapEnd(b) < p /\ p < candidate}
    IN  IF stops = {} THEN candidate
        ELSE CHOOSE p \in stops : \A q \in stops : p <= q

(* The end of the scan fixes the pool; the first page asked for is the     *)
(* root table (level 0).                                                   *)
EndScan ==
    /\ pc = "scan"
    /\ ~MoreToScan
    /\ mmapAllocEnd' = IF mmapAllocEnd = MmapEnd(boot)
                       THEN Headroom(boot) ELSE mmapAllocEnd
    /\ pc' = "alloc"
    /\ lvl' = 0
    /\ UNCHANGED <<boot, i, ranges, poolVars, got, owned, mem, pml4Phys, k,
                   table, cr3, old, code>>
-----------------------------------------------------------------------------
(* allocPage: an iteration of its loops is a step; it returns to "link".   *)

NotCleared(p) == mem    \* mutant of Cleared: the new table keeps what it held
Cleared(p) == [mem EXCEPT ![p] = [s \in Slots |-> Zero]]

HandOut(p) ==
    /\ mem' = Cleared(p)
    /\ owned' = Append(owned, p)
    /\ got' = p
    /\ pc' = "link"

(* Mutant of ScratchLeft: the last page of the pool is never used.         *)
ScratchLeftButOne == scratchNext + 1 < ScratchEnd
ScratchLeft == scratchNext < ScratchEnd

(* Mutant of ScratchSkip: `continue` before the cursor has moved.          *)
ScratchSkipStays ==
    /\ pc = "alloc"
    /\ ScratchLeft /\ Live(boot, scratchNext)
    /\ UNCHANGED vars

ScratchSkip ==
    /\ pc = "alloc"
    /\ ScratchLeft /\ Live(boot, scratchNext)
    /\ scratchNext' = scratchNext + 1
    /\ UNCHANGED <<boot, pc, scanVars, fbIdx, fbNext, got, owned, mem,
                   pml4Phys, walkVars, cr3, old, code>>

(* Mutant of ScratchTake: the kernel and the stack are not looked out for. *)
ScratchTakeAny ==
    /\ pc = "alloc"
    /\ ScratchLeft
    /\ HandOut(scratchNext)
    /\ scratchNext' = scratchNext + 1
    /\ UNCHANGED <<boot, scanVars, fbIdx, fbNext, pml4Phys, walkVars, cr3,
                   old, code>>

ScratchTake ==
    /\ pc = "alloc"
    /\ ScratchLeft /\ ~Live(boot, scratchNext)
    /\ HandOut(scratchNext)
    /\ scratchNext' = scratchNext + 1
    /\ UNCHANGED <<boot, scanVars, fbIdx, fbNext, pml4Phys, walkVars, cr3,
                   old, code>>

(* Mutant of pageOverlapsReserved: the pages of the pool are not tested.   *)
pageOverlapsLive(p) == Live(boot, p)

pageOverlapsReserved(p) ==
    \/ Live(boot, p)
    \/ boot.mmapPhys <= p /\ p < scratchNext

FallbackLeft == ~ScratchLeft /\ fbIdx <= Len(ranges)
Cursor == IF fbNext = 0 THEN ranges[fbIdx].start ELSE fbNext

FallbackSkip ==
    /\ pc = "alloc"
    /\ FallbackLeft
    /\ Cursor < ranges[fbIdx].end /\ pageOverlapsReserved(Cursor)
    /\ fbNext' = Cursor + 1
    /\ UNCHANGED <<boot, pc, scanVars, scratchNext, fbIdx, got, owned, mem,
                   pml4Phys, walkVars, cr3, old, code>>

FallbackTake ==
    /\ pc = "alloc"
    /\ FallbackLeft
    /\ Cursor < ranges[fbIdx].end /\ ~pageOverlapsReserved(Cursor)
    /\ HandOut(Cursor)
    /\ fbNext' = Cursor + 1
    /\ UNCHANGED <<boot, scanVars, scratchNext, fbIdx, pml4Phys, walkVars,
                   cr3, old, code>>

(* Mutant of FallbackNextRange: the cursor stays in the old range.         *)
FallbackNextRangeStale ==
    /\ pc = "alloc"
    /\ FallbackLeft
    /\ Cursor >= ranges[fbIdx].end
    /\ fbIdx' = fbIdx + 1
    /\ UNCHANGED <<boot, pc, scanVars, scratchNext, fbNext, got, owned, mem,
                   pml4Phys, walkVars, cr3, old, code>>

FallbackNextRange ==
    /\ pc = "alloc"
    /\ FallbackLeft
    /\ Cursor >= ranges[fbIdx].end
    /\ fbIdx' = fbIdx + 1
    /\ fbNext' = 0
    /\ UNCHANGED <<boot, pc, scanVars, scratchNext, got, owned, mem, pml4Phys,
                   walkVars, cr3, old, code>>

(* Nothing is left: allocPage returns 0.                                   *)
NothingLeft ==
    /\ pc = "alloc"
    /\ ~ScratchLeft /\ ~FallbackLeft
    /\ got' = 0
    /\ pc' = "link"
    /\ UNCHANGED <<boot, scanVars, poolVars, owned, mem, pml4Phys, walkVars,
                   cr3, old, code>>
-----------------------------------------------------------------------------
(* The caller of allocPage: a 0 is a failure, a page becomes a table.      *)

FailCode == [l \in Levels |-> CASE l = 0 -> "B" [] l = 1 -> "C"
                                [] l = 2 -> "D" [] l = 3 -> "E"]

OutOfPages ==
    /\ pc = "link"
    /\ got = 0
    /\ Fail(FailCode[lvl])
    /\ UNCHANGED <<boot, scanVars, poolVars, got, owned, mem, pml4Phys,
                   walkVars, cr3, old>>

(* Mutant of LinkRoot: the 0 of a failed allocPage becomes the root.       *)
LinkRootUnchecked ==
    /\ pc = "link"
    /\ lvl = 0
    /\ pml4Phys' = got
    /\ pc' = "map"
    /\ UNCHANGED <<boot, scanVars, poolVars, got, owned, mem, walkVars, cr3,
                   old, code>>

LinkRoot ==
    /\ pc = "link"
    /\ got # 0 /\ lvl = 0
    /\ pml4Phys' = got
    /\ pc' = "map"
    /\ UNCHANGED <<boot, scanVars, poolVars, got, owned, mem, walkVars, cr3,
                   old, code>>

Request == Work(boot)[k + 1]

(* The entry of the table above (level lvl - 1) gets the new table.        *)
LinkTable ==
    /\ pc = "link"
    /\ got # 0 /\ lvl > 0
    /\ mem' = [mem EXCEPT ![table][Idx(lvl - 1, Request.v)] = To(got)]
    /\ table' = got
    /\ pc' = "walk"
    /\ UNCHANGED <<boot, scanVars, poolVars, got, owned, pml4Phys, k, lvl,
                   cr3, old, code>>

(* mapPageDual: start at the root, follow or create the entry of each      *)
(* level, set the entry of the last one.                                   *)
StartRequest ==
    /\ pc = "map"
    /\ k < Len(Work(boot))
    /\ lvl' = 0
    /\ table' = pml4Phys
    /\ pc' = "walk"
    /\ UNCHANGED <<boot, scanVars, poolVars, got, owned, mem, pml4Phys, k,
                   cr3, old, code>>

Here == mem[table][Idx(lvl, Request.v)]

Descend ==
    /\ pc = "walk"
    /\ lvl < 3
    /\ Here.present
    /\ table' = Here.frame
    /\ lvl' = lvl + 1
    /\ UNCHANGED <<boot, pc, scanVars, poolVars, got, owned, mem, pml4Phys, k,
                   cr3, old, code>>

(* Mutant of NeedTable: a table is allocated below the last level.         *)
NeedTableTooDeep ==
    /\ pc = "walk"
    /\ ~Here.present
    /\ lvl' = lvl + 1
    /\ pc' = "alloc"
    /\ UNCHANGED <<boot, scanVars, poolVars, got, owned, mem, pml4Phys, k,
                   table, cr3, old, code>>

NeedTable ==
    /\ pc = "walk"
    /\ lvl < 3
    /\ ~Here.present
    /\ lvl' = lvl + 1
    /\ pc' = "alloc"
    /\ UNCHANGED <<boot, scanVars, poolVars, got, owned, mem, pml4Phys, k,
                   table, cr3, old, code>>

SetPte ==
    /\ pc = "walk"
    /\ lvl = 3
    /\ mem' = [mem EXCEPT ![table][Idx(3, Request.v)] = To(Request.p)]
    /\ k' = k + 1
    /\ pc' = "map"
    /\ UNCHANGED <<boot, scanVars, poolVars, got, owned, pml4Phys, lvl, table,
                   cr3, old, code>>
-----------------------------------------------------------------------------
(* mov cr3, then the touch test on the first word of the memory map.       *)

SwitchCr3 ==
    /\ pc = "map"
    /\ k = Len(Work(boot))
    /\ cr3' = pml4Phys
    /\ pc' = "touch"
    /\ UNCHANGED <<boot, scanVars, poolVars, got, owned, mem, pml4Phys,
                   walkVars, old, code>>

Touched == Walk(mem, cr3, boot.mmapPhys + UPPER_HALF)

TouchLoad ==
    /\ pc = "touch"
    /\ Touched.present
    /\ old' = mem[Touched.frame][0]
    /\ pc' = "flip"
    /\ UNCHANGED <<boot, scanVars, poolVars, got, owned, mem, pml4Phys,
                   walkVars, cr3, code>>

TouchFlip ==
    /\ pc = "flip"
    /\ mem' = [mem EXCEPT ![Touched.frame][0] = Flip(old)]
    /\ pc' = "restore"
    /\ UNCHANGED <<boot, scanVars, poolVars, got, owned, pml4Phys, walkVars,
                   cr3, old, code>>

TouchRestore ==
    /\ pc = "restore"
    /\ mem' = [mem EXCEPT ![Touched.frame][0] = old]
    /\ pc' = "done"
    /\ UNCHANGED <<boot, scanVars, poolVars, got, owned, pml4Phys, walkVars,
                   cr3, old, code>>

(* Stage 1 is over: kernel_entry goes on to Stage 2, or has halted.        *)
Stopped ==
    /\ pc \in {"done", "halt"}
    /\ UNCHANGED vars

Next ==
    \/ RejectMap \/ AcceptMap \/ ScanDescriptor \/ EndScan
    \/ ScratchSkip \/ ScratchTake
    \/ FallbackSkip \/ FallbackTake \/ FallbackNextRange \/ NothingLeft
    \/ OutOfPages \/ LinkRoot \/ LinkTable
    \/ StartRequest \/ Descend \/ NeedTable \/ SetPte
    \/ SwitchCr3 \/ TouchLoad \/ TouchFlip \/ TouchRestore
    \/ Stopped

Spec == Init /\ [][Next]_vars /\ WF_vars(Next)
-----------------------------------------------------------------------------
(* Properties.                                                             *)

OwnedPages == {owned[n] : n \in DOMAIN owned}

ControlType ==
    /\ boot \in Boots
    /\ pc \in {"enter", "scan", "alloc", "link", "map", "walk", "touch",
               "flip", "restore", "done", "halt"}
    /\ lvl \in Levels
    /\ code \in {"none", "A", "B", "C", "D", "E"}
ScanType ==
    /\ i \in 0..Len(boot.descs)
    /\ ranges \in Seq([start : Frames, end : Nat])
    /\ mmapAllocEnd \in Nat
PoolType ==
    /\ scratchNext \in Nat
    /\ fbIdx \in Nat \ {0} /\ fbNext \in Nat
    /\ got \in Frames /\ owned \in Seq(Frames)
TableType ==
    /\ mem \in [Frames -> [Slots -> Entry]]
    /\ pml4Phys \in Frames /\ table \in Frames /\ cr3 \in Frames
    /\ k \in 0..Len(Work(boot))
    /\ old \in Entry

(* Every variable has its type: the scan, the allocator's cursors and the  *)
(* table being walked stay inside physical memory and the request list.    *)
TypeOK == ControlType /\ ScanType /\ PoolType /\ TableType

(* allocPage never clears and returns the same page twice, whichever of    *)
(* the buffer, the headroom behind it and the cached conventional ranges   *)
(* it comes from (a range may lie inside the headroom).                    *)
AllocFresh ==
    \A m, n \in DOMAIN owned : owned[m] = owned[n] => m = n

(* allocPage never clears a page of the running kernel or of its stack,    *)
(* although the pool may run into them ("skip it so we don't corrupt live  *)
(* execution", init.cpp:1010-1011).                                        *)
AllocSparesLive == \A n \in DOMAIN owned : ~Live(boot, owned[n])

(* The end of the pool is read, not guessed: a descriptor scanned so far   *)
(* holds the buffer, and does not end with it (a pool that ends with the   *)
(* buffer is taken for one that was not found, init.cpp:970-983).          *)
Holds(d) == d.type = LoaderData /\ boot.mmapPhys \in Pages(d.start, d.pages)
BufferFound ==
    \E j \in 1..i : Holds(boot.descs[j]) /\ EndOf(boot.descs[j]) # MmapEnd(boot)

(* Where the scan finds the buffer's descriptor, no table is made outside  *)
(* it and the conventional ranges: the ends computed for both, which the   *)
(* allocator runs up to, are exclusive (init.cpp:948-959). Where it does    *)
(* not, the pool is a guess that may reach into anyone's memory.           *)
OwnMemory ==
    BufferFound =>
        \A p \in OwnedPages : \E n \in DOMAIN boot.descs :
            LET d == boot.descs[n] IN
            /\ p \in Pages(d.start, d.pages)
            /\ d.type = Conventional \/ boot.mmapPhys \in Pages(d.start, d.pages)

(* The allocator's inductive invariant: AllocFresh and the facts it rests  *)
(* on. The pool and the cached ranges are physical memory, the ranges are  *)
(* disjoint because the descriptors they were read from are, and every     *)
(* page handed out lies behind one of the two cursors.                     *)
RangePages(r) == r.start .. r.end - 1
PoolInMemory == boot.mmapPhys .. mmapAllocEnd - 1 \subseteq Frames
RangesRead ==
    \A n \in DOMAIN ranges : \E j \in 1..i :
        RangePages(ranges[n]) = Pages(boot.descs[j].start, boot.descs[j].pages)
RangesApart ==
    \A m, n \in DOMAIN ranges :
        m # n => RangePages(ranges[m]) \cap RangePages(ranges[n]) = {}
CursorInRange ==
    fbNext # 0 => /\ fbIdx <= Len(ranges)
                  /\ ranges[fbIdx].start <= fbNext /\ fbNext <= ranges[fbIdx].end
Untouched == fbIdx = 1 /\ fbNext = 0
ScratchFirst ==
    /\ pc \in {"enter", "scan"} => owned = << >> /\ Untouched
    /\ ScratchLeft => Untouched
    /\ boot.mmapPhys <= scratchNext
Passed(p) ==
    \E n \in DOMAIN ranges :
        /\ p \in RangePages(ranges[n])
        /\ n < fbIdx \/ (n = fbIdx /\ p < fbNext)
Handed ==
    \A n \in DOMAIN owned :
        owned[n] \in boot.mmapPhys .. scratchNext - 1 \/ Passed(owned[n])
Walking ==
    pc = "walk" \/ (pc \in {"alloc", "link"} /\ lvl > 0) => k < Len(Work(boot))
AllocInv ==
    /\ TypeOK
    /\ PoolInMemory
    /\ RangesRead /\ RangesApart
    /\ CursorInRange
    /\ ScratchFirst
    /\ Handed
    /\ Walking
    /\ AllocFresh

(* Stage 1 gives up for want of a page (codes B to E) only when the pool   *)
(* and every cached range have been handed out: "if we run out of space in *)
(* the buffer we can still try" (init.cpp:916-917).                        *)
FailOnlyWhenExhausted ==
    code \in {"B", "C", "D", "E"} =>
        \A p \in Pages(boot.mmapPhys, ScratchEnd - boot.mmapPhys)
                 \cup UNION {ranges[n].start .. ranges[n].end - 1 :
                                n \in DOMAIN ranges} :
            p \in OwnedPages \/ Live(boot, p)

(* While the new tables are in use, the code and the stack the kernel runs *)
(* on are translated: a table in use is not overwritten ("overwriting      *)
(* would break CR3", init.cpp:998-999).                                    *)
LiveCodeMapped ==
    cr3 # 0 => \A p \in KernelSpan(boot) \cup StackSpan(boot) :
                   Walk(mem, cr3, p) = To(p)

(* Stage 1 always ends, with its tables built or with a fail code.         *)
Stops == <>(pc \in {"done", "halt"})

(* The map Stage 1 should build: each page of Identity at its own address  *)
(* and UPPER_HALF above it.                                                *)
GoalOf(b) ==
    LET ps == {Identity(b)[n] : n \in DOMAIN Identity(b)} IN
    [v \in ps \cup {p + UPPER_HALF : p \in ps} |->
        IF v \in ps THEN v ELSE v - UPPER_HALF]

(* The map the tables hold, with the word under test put back while the    *)
(* touch test has it flipped (what the flip does meanwhile is the subject  *)
(* of LiveCodeMapped).                                                     *)
VPages == 0 .. Radix * Radix * Radix * Radix - 1
Settled ==
    IF pc = "restore" THEN [mem EXCEPT ![Touched.frame][0] = old] ELSE mem
Translation ==
    IF pml4Phys = 0 THEN [v \in {} |-> 0]
    ELSE [v \in {u \in VPages : Walk(Settled, pml4Phys, u).present} |->
             Walk(Settled, pml4Phys, v).frame]

(* Stage 1 implements AddressSpace: taking and linking tables never adds,  *)
(* drops or redirects a mapping, setting the last entry adds exactly the   *)
(* one asked for, and CR3 is loaded with the complete map, which the touch *)
(* test leaves as it was.                                                  *)
Abstract == INSTANCE AddressSpace WITH
    Goals <- {GoalOf(b) : b \in Boots},
    goal <- GoalOf(boot),
    space <- Translation,
    live <- cr3 # 0
BuildsAddressSpace == Abstract!Spec
=============================================================================
