----------------------------- MODULE BootChain -----------------------------
(***************************************************************************)
(* From efi_main to the end of Stage 1: the loader and the firmware of     *)
(* module UefiHandover, and behind the jump the kernel of module           *)
(* Stage1Paging, run with the parameters and the memory map that this      *)
(* loader, in this firmware, came to pass. A refused ExitBootServices is   *)
(* not noticed: then the firmware goes on under the kernel, changing the   *)
(* memory map and, since interrupts are still on, taking interrupts.       *)
(***************************************************************************)
EXTENDS UefiHandover

CONSTANTS
    Radix, Frames, LapicPage, HeadroomPages, MAX_RANGES, ScanLimit,
    EventPages,     \* bound: the pages event handlers allocate and free
    Garbage         \* bound: the descriptors a buffer nobody filled reads as

VARIABLES
    boot, kpc,      \* kpc: the kernel's pc, "idle" until it is entered
    i, ranges, mmapAllocEnd, scratchNext, fbIdx, fbNext, got, owned, mem,
    pml4Phys, k, lvl, table, cr3, old, code,
    crashed         \* an interrupt found no firmware behind the vectors

K == INSTANCE Stage1Paging WITH
    STACK_PAGES <- StackPages, Boots <- {}, pc <- kpc

ASSUME ChainAssumption ==
    /\ Frames \subseteq Nat /\ Ram \cup {0} \subseteq Frames
    /\ Radix \in Nat /\ Radix > 1
    /\ {HeadroomPages, MAX_RANGES, ScanLimit} \subseteq Nat
    /\ ScratchPages > 0
    /\ LapicPage \in Frames /\ LapicPage < K!UPPER_HALF
    \* memory lies below the upper half, and addresses go on behind it
    /\ \A p \in Ram : p < K!UPPER_HALF /\ Pages(p, HeadroomPages + 1) \subseteq Frames
    /\ Garbage # {} /\ Garbage \subseteq [type : K!MemoryTypes, start : Nat, pages : Nat]

kernelVars == <<boot, kpc, i, ranges, mmapAllocEnd, scratchNext, fbIdx, fbNext,
                got, owned, mem, pml4Phys, k, lvl, table, cr3, old, code>>
chainVars == <<vars, kernelVars, crashed>>

Filled == buffer # {}
Accepted == ~services

(* The descriptors, in address order.                                      *)
Nth(n) == CHOOSE d \in buffer : Cardinality({e \in buffer : e.start < d.start}) = n - 1

(* The parameters of the jump: the map, or whatever is where it should be. *)
Passed(junk) ==
    [kernelPhys |-> kernelPhys, kernelPages |-> KernelPages,
     stackPhys |-> stackPhys, mmapPhys |-> mmapPhys,
     mmapPages |-> (mmapSize + DescsPerPage - 1) \div DescsPerPage,
     descs |-> [n \in 1..mmapSize |-> IF Filled THEN Nth(n) ELSE junk]]

ChainInit ==
    /\ Init
    /\ kpc = "idle" /\ crashed = FALSE
    /\ boot = Passed(CHOOSE g \in Garbage : TRUE)
    /\ i = 0 /\ ranges = << >> /\ mmapAllocEnd = 0
    /\ scratchNext = 0 /\ fbIdx = 1 /\ fbNext = 0
    /\ got = 0 /\ owned = << >>
    /\ mem = [p \in Frames |-> [s \in K!Slots |-> K!Junk]]
    /\ pml4Phys = 0 /\ k = 0 /\ lvl = 0 /\ table = 0 /\ cr3 = 0
    /\ old = K!Zero /\ code = "none"

(* A step of the loader. Bound: firmware takes the lowest or the highest   *)
(* place that is free, as allocators do.                                   *)
AtEdge(at, n) ==
    at = 0 \/ (\A p \in Free(n) : at <= p) \/ (\A p \in Free(n) : at >= p)
LoaderStep ==
    /\ pc # "jump"
    /\ Loader
    /\ kernelPhys' # kernelPhys => AtEdge(kernelPhys', KernelPages)
    /\ stackPhys' # stackPhys => AtEdge(stackPhys', StackPages)
    /\ mmapPhys' # mmapPhys => AtEdge(mmapPhys', mmapPages)
    /\ UNCHANGED <<kernelVars, crashed>>

EnterKernel ==
    /\ JumpKernel
    /\ \E junk \in Garbage : boot' = Passed(junk)
    /\ kpc' = "enter"
    /\ mmapAllocEnd' = K!MmapEnd(boot') /\ scratchNext' = boot'.mmapPhys
    /\ UNCHANGED <<i, ranges, fbIdx, fbNext, got, owned, mem, pml4Phys, k, lvl,
                   table, cr3, old, code, crashed>>

KernelStep ==
    /\ kpc # "idle" /\ ~crashed
    /\ K!Next
    /\ UNCHANGED <<vars, crashed>>

(* The firmware's handlers run as long as its page tables are in use.      *)
FirmwareStep ==
    /\ FirmwareEvent
    /\ \A p \in Ram \ EventPages : memType'[p] = memType[p]
    /\ cr3 = 0
    /\ UNCHANGED <<kernelVars, crashed>>

(* After the CR3 switch an interrupt is taken through tables that are not  *)
(* mapped: a triple fault.                                                 *)
FirmwareInterrupt ==
    /\ services /\ cr3 # 0 /\ ~crashed
    /\ crashed' = TRUE
    /\ UNCHANGED <<vars, kernelVars>>
Crashed ==
    /\ crashed
    /\ UNCHANGED chainVars

ChainNext ==
    \/ LoaderStep \/ EnterKernel \/ KernelStep
    \/ FirmwareStep \/ FirmwareInterrupt \/ Crashed

ChainSpec ==
    /\ ChainInit /\ [][ChainNext]_chainVars
    /\ WF_chainVars(LoaderStep) /\ WF_chainVars(EnterKernel) /\ WF_chainVars(KernelStep)
-----------------------------------------------------------------------------
(* Properties.                                                             *)

AllAllocated == kernelPhys # 0 /\ stackPhys # 0 /\ mmapPhys # 0

(* What the loader passes meets what Stage 1 is proved to need: regions    *)
(* and descriptors in memory, descriptors disjoint (BootOK, the assumption *)
(* of the theorems about Stage1Paging), and the regions apart.             *)
RecordMeetsAssumption ==
    (Accepted /\ Filled /\ AllAllocated /\ kpc # "idle") =>
        /\ K!BootOK(boot)
        /\ K!KernelSpan(boot) \cap K!StackSpan(boot) = {}
        /\ Pages(mmapPhys, boot.mmapPages) \cap
              (K!KernelSpan(boot) \cup K!StackSpan(boot)) = {}

(* Every page Stage 1 builds its tables in is, in the memory map as it is  *)
(* when the firmware has left, free or of the loader's own buffer: never   *)
(* one of the firmware's (whose page tables are in use until the switch),  *)
(* never the kernel's or the stack's.                                      *)
TablesAreFree ==
    (Accepted /\ Filled /\ AllAllocated) =>
        \A p \in K!OwnedPages :
            /\ p \in Ram
            /\ memType[p] = "conventional" \/ p \in Pages(mmapPhys, mmapPages)

(* The extra pages the loader adds to the buffer are enough for the tables:*)
(* after an accepted exit and three allocations Stage 1 neither ends with  *)
(* a fail code nor has to fall back on conventional memory.                *)
ExtraPagesSuffice ==
    (Accepted /\ Filled /\ AllAllocated) => code = "none" /\ K!Untouched

(* Without a buffer the kernel stops for want of a root table: page 0 is   *)
(* then the first page of the pool, and stands for "no page".              *)
NoBufferNoTables ==
    (kpc # "idle" /\ mmapPhys = 0 /\ kernelPhys # 0 /\ stackPhys # 0) =>
        kpc \in {"enter", "scan", "alloc", "link", "halt"}

(* The chain ends: tables built, a fail code, or the crash.                *)
ChainEnds == <>(kpc \in {"done", "halt"} \/ crashed)

(* "If the key is wrong, the firmware will refuse the transition (and you  *)
(* won't reach the kernel)" (OS-2 study, 175): the kernel runs without the *)
(* firmware, so no interrupt of it comes when its handlers are unmapped.   *)
NoFirmwareInterrupt == ~crashed
=============================================================================
