---------------------------- MODULE UefiHandover ----------------------------
(***************************************************************************)
(* The loader (src-os/uefi/efi_main.cpp, efi_main) and the firmware it     *)
(* calls: it allocates pages for the kernel, the stack and the memory-map  *)
(* buffer, copies the kernel, gets the memory map, leaves boot services    *)
(* and jumps to the kernel. The status of every call is ignored.           *)
(*                                                                         *)
(* The firmware (external) keeps the memory map and a key that changes     *)
(* with it; until boot services end, its own event handlers may allocate   *)
(* and free memory between any two steps of the loader.                    *)
(***************************************************************************)
EXTENDS Integers, Sequences, FiniteSets

CONSTANTS
    Ram,            \* the pages of memory, first..last, without page 0
    Reserved,       \* pages the firmware holds at the start
    KernelPages,    \* pages of the kernel blob
    StackPages,     \* stackPages (4)
    ScratchPages,   \* MMAP_SCRATCH_EXTRA_PAGES (128)
    DescsPerPage,   \* descriptors that fit a page
    MaxEvents       \* bound: changes the firmware makes to the map by itself

ASSUME HandoverAssumption ==
    /\ IsFiniteSet(Ram) /\ \A p \in Ram : p \in Nat \ {0}
    /\ Reserved \subseteq Ram
    /\ {KernelPages, StackPages, DescsPerPage} \subseteq Nat \ {0}
    /\ {ScratchPages, MaxEvents} \subseteq Nat

Types == {"conventional", "firmware", "loader code", "loader data"}
Pages(start, n) == start .. start + n - 1

VARIABLES
    memType,        \* firmware: the type of each page
    key,            \* firmware: changes with every change of memType
    services,       \* firmware: boot services are available
    events,         \* firmware: changes made by its event handlers
    pc,             \* where efi_main is
    kernelPhys, stackPhys, mmapPhys,    \* 0 until and unless allocated
    mmapPages,      \* pages asked for the buffer
    mmapSize,       \* descriptors: what getMemoryMap last reported
    mapKey,         \* the key getMemoryMap last reported
    buffer          \* the descriptors in the buffer, if filled

firmwareVars == <<memType, key, services, events>>
allocVars == <<kernelPhys, stackPhys, mmapPhys, mmapPages>>
mapVars == <<mmapSize, mapKey, buffer>>
vars == <<firmwareVars, pc, allocVars, mapVars>>

Init ==
    /\ memType = [p \in Ram |-> IF p \in Reserved THEN "firmware" ELSE "conventional"]
    /\ key = 0 /\ services = TRUE /\ events = 0
    /\ pc = "alloc kernel"
    /\ kernelPhys = 0 /\ stackPhys = 0 /\ mmapPhys = 0 /\ mmapPages = 0
    /\ mmapSize = 0 /\ mapKey = 0 /\ buffer = {}
-----------------------------------------------------------------------------
(* The firmware.                                                           *)

(* The memory map: a descriptor for every maximal run of one type.         *)
Starts == {p \in Ram : p - 1 \notin Ram \/ memType[p - 1] # memType[p]}
RunPages(p) == {q \in Ram : q >= p /\ \A r \in Pages(p, q - p + 1) :
                    r \in Ram /\ memType[r] = memType[p]}
Map == {[type |-> memType[p], start |-> p, pages |-> Cardinality(RunPages(p))] :
           p \in Starts}

Free(n) == {p \in Ram : \A q \in Pages(p, n) :
                            q \in Ram /\ memType[q] = "conventional"}

(* allocatePages(ANY_PAGES): some free run, or a failure that leaves the   *)
(* caller's variable at 0.                                                 *)
Allocate(type, n, result) ==
    \/ \E p \in Free(n) :
          /\ memType' = [q \in Ram |-> IF q \in Pages(p, n) THEN type ELSE memType[q]]
          /\ key' = key + 1
          /\ result = p
    \/ /\ Free(n) = {}
       /\ result = 0
       /\ UNCHANGED <<memType, key>>

(* An event handler of the firmware allocates or frees a page.             *)
FirmwareEvent ==
    /\ services /\ events < MaxEvents
    /\ \E p \in Ram, t \in {"conventional", "firmware"} :
          /\ memType[p] \in {"conventional", "firmware"} \ {t}
          /\ memType' = [memType EXCEPT ![p] = t]
    /\ key' = key + 1
    /\ events' = events + 1
    /\ UNCHANGED <<services, pc, allocVars, mapVars>>
-----------------------------------------------------------------------------
(* efi_main.                                                               *)

AllocKernel ==
    /\ pc = "alloc kernel"
    /\ Allocate("loader code", KernelPages, kernelPhys')
    /\ pc' = "copy"
    /\ UNCHANGED <<services, events, stackPhys, mmapPhys, mmapPages, mapVars>>

(* The blob is copied to kernelPhys, allocated or not (the contents of     *)
(* memory are not modelled).                                               *)
CopyKernel ==
    /\ pc = "copy"
    /\ pc' = "alloc stack"
    /\ UNCHANGED <<firmwareVars, allocVars, mapVars>>

(* Mutant of AllocStack: the top of the stack is kept, not its base.       *)
AllocStackTop ==
    /\ pc = "alloc stack"
    /\ \E base \in Ram \cup {0} :
          /\ Allocate("loader data", StackPages, base)
          /\ stackPhys' = base + StackPages
    /\ pc' = "size map"
    /\ UNCHANGED <<services, events, kernelPhys, mmapPhys, mmapPages, mapVars>>

AllocStack ==
    /\ pc = "alloc stack"
    /\ Allocate("loader data", StackPages, stackPhys')
    /\ pc' = "size map"
    /\ UNCHANGED <<services, events, kernelPhys, mmapPhys, mmapPages, mapVars>>

(* getMemoryMap with a buffer of size descriptors at an address: too small *)
(* or at 0, it is refused and reports only the size needed (what becomes   *)
(* of the key is not specified).                                           *)
GetMemoryMap(size, at) ==
    /\ mmapSize' = Cardinality(Map)
    /\ IF Cardinality(Map) <= size /\ at # 0
       THEN buffer' = Map /\ mapKey' = key
       ELSE UNCHANGED buffer /\ mapKey' \in {mapKey, key}

(* Mutant of BufferPages: no extra pages.                                  *)
BufferPagesExact(size) ==
    LET n == (size + DescsPerPage - 1) \div DescsPerPage
    IN  IF n < 2 THEN 2 ELSE n

(* Pages for a map of size descriptors, and for what it may grow by.       *)
BufferPages(size) ==
    LET n == (size + DescsPerPage - 1) \div DescsPerPage
    IN  (IF n < 2 THEN 2 ELSE n) + ScratchPages

SizeMap ==
    /\ pc = "size map"
    /\ GetMemoryMap(0, 0)
    /\ mmapPages' = BufferPages(mmapSize')
    /\ pc' = "alloc map"
    /\ UNCHANGED <<firmwareVars, kernelPhys, stackPhys, mmapPhys>>

AllocMap ==
    /\ pc = "alloc map"
    /\ Allocate("loader data", mmapPages, mmapPhys')
    /\ pc' = "fill map"
    /\ UNCHANGED <<services, events, kernelPhys, stackPhys, mmapPages, mapVars>>

(* The size passed is the one reported before the buffer was allocated,    *)
(* not the buffer's.                                                       *)
FillMap ==
    /\ pc = "fill map"
    /\ GetMemoryMap(mmapSize, mmapPhys)
    /\ pc' = "exit"
    /\ UNCHANGED <<firmwareVars, allocVars>>

(* Mutants of ExitBootServices: it takes a fresh key without a fresh map;  *)
(* it tries again with the key that was refused.                           *)
ExitBootServicesNewKey ==
    /\ pc = "exit"
    /\ mapKey' = key
    /\ services' = FALSE
    /\ pc' = "jump"
    /\ UNCHANGED <<memType, key, events, allocVars, mmapSize, buffer>>
ExitBootServicesAgain ==
    /\ pc = "exit"
    /\ services' = (mapKey # key)
    /\ pc' = IF mapKey = key THEN "jump" ELSE "exit"
    /\ UNCHANGED <<memType, key, events, allocVars, mapVars>>

(* The firmware refuses a stale key; the loader does not look.             *)
ExitBootServices ==
    /\ pc = "exit"
    /\ services' = (mapKey # key)
    /\ pc' = "jump"
    /\ UNCHANGED <<memType, key, events, allocVars, mapVars>>

JumpKernel ==
    /\ pc = "jump"
    /\ pc' = "kernel"
    /\ UNCHANGED <<firmwareVars, allocVars, mapVars>>

(* The kernel runs and never returns.                                      *)
InKernel ==
    /\ pc = "kernel"
    /\ UNCHANGED vars

Loader ==
    \/ AllocKernel \/ CopyKernel \/ AllocStack \/ SizeMap \/ AllocMap
    \/ FillMap \/ ExitBootServices \/ JumpKernel

Next == Loader \/ FirmwareEvent \/ InKernel

(* The firmware returns from every call, so the loader goes on.            *)
Spec == Init /\ [][Next]_vars /\ WF_vars(Loader)
-----------------------------------------------------------------------------
(* Properties.                                                             *)

Descriptors == [type : Types, start : Ram, pages : Nat]

(* Every variable has its type.                                            *)
TypeOK ==
    /\ memType \in [Ram -> Types]
    /\ key \in Nat /\ mapKey \in Nat /\ events \in 0..MaxEvents
    /\ services \in BOOLEAN
    /\ {kernelPhys, stackPhys, mmapPhys} \subseteq Ram \cup {0}
    /\ mmapPages \in Nat /\ mmapSize \in Nat
    /\ buffer \subseteq Descriptors

(* When the firmware accepted ExitBootServices and had filled the buffer,  *)
(* the map in it is the final one: no allocation, the loader's or the      *)
(* firmware's, slips in between the fill and the exit unnoticed.           *)
MapCurrentAfterExit == (~services /\ buffer # {}) => buffer = Map

(* The kernel scans no more descriptors than the buffer has room for, even *)
(* when getMemoryMap reported a larger map than it had filled in: the      *)
(* extra pages cover what the map can grow by.                             *)
ScanStaysInBuffer ==
    pc = "kernel" => mmapSize <= mmapPages * DescsPerPage

(* "UEFI writes the actual descriptor entries into the buffer": the kernel *)
(* finds the descriptors it is told about.                                 *)
KernelFindsMap == (pc = "kernel" /\ mmapPhys # 0) => Cardinality(buffer) = mmapSize
=============================================================================
