------------------------- MODULE UefiHandoverProofs -------------------------
(* The hand-over: types, the map's currency and the regions of memory, for *)
(* every memory, every fragmentation and any number of changes made by the *)
(* firmware. The invariant says, beside the properties, what holds before  *)
(* each step: which addresses are still 0, that the buffer is empty until  *)
(* it is filled, and that the key the loader has identifies the map of its *)
(* buffer.                                                                 *)
EXTENDS UefiHandover, FiniteSetTheorems, TLAPS

BeforeStack == {"alloc kernel", "copy", "alloc stack"}
BeforeMap == BeforeStack \cup {"size map", "alloc map"}
BeforeExit == BeforeMap \cup {"fill map", "exit"}
Progress ==
    /\ pc \in BeforeExit \cup {"jump", "kernel"}
    /\ pc \in BeforeStack => stackPhys = 0
    /\ pc \in BeforeMap => mmapPhys = 0
    /\ pc \in BeforeExit \ {"exit"} => buffer = {}
    /\ pc \in BeforeExit => services = TRUE

KeyInv ==
    /\ mapKey <= key
    /\ buffer # {} /\ mapKey = key => buffer = Map
    /\ ~services => mapKey = key

Holds(at, n, type) ==
    at # 0 => \A p \in Pages(at, n) : p \in Ram /\ memType[p] = type
RegionInv ==
    /\ Holds(kernelPhys, KernelPages, "loader code")
    /\ Holds(stackPhys, StackPages, "loader data")
    /\ Holds(mmapPhys, mmapPages, "loader data")
    /\ stackPhys # 0 /\ mmapPhys # 0 =>
          Pages(stackPhys, StackPages) \cap Pages(mmapPhys, mmapPages) = {}

HandoverInv == TypeOK /\ Progress /\ KeyInv /\ RegionInv
-----------------------------------------------------------------------------
(* The memory map is a finite set of descriptors.                          *)
LEMMA MapType ==
    ASSUME memType \in [Ram -> Types]
    PROVE  Map \subseteq Descriptors /\ IsFiniteSet(Map) /\ Cardinality(Map) \in Nat
<1> DEFINE D(p) == [type |-> memType[p], start |-> p, pages |-> Cardinality(RunPages(p))]
           f == [p \in Starts |-> D(p)]
<1>1. IsFiniteSet(Starts)
  BY FS_Subset, HandoverAssumption DEF Starts
<1>2. \A p \in Starts : D(p) \in Descriptors
  <2> SUFFICES ASSUME NEW p \in Starts PROVE D(p) \in Descriptors
    OBVIOUS
  <2>1. p \in Ram /\ RunPages(p) \subseteq Ram
    BY DEF Starts, RunPages
  <2>2. Cardinality(RunPages(p)) \in Nat
    BY <2>1, FS_Subset, FS_CardinalityType, HandoverAssumption
  <2> QED
    BY <2>1, <2>2 DEF Descriptors
<1>3. Map = {D(p) : p \in Starts}
  BY DEF Map
<1>4. f \in Surjection(Starts, Map)
  BY <1>3 DEF Surjection
<1>5. IsFiniteSet(Map)
  <2> HIDE DEF f
  <2> QED
    BY <1>1, <1>4, FS_Surjection
<1> QED
  BY <1>2, <1>3, <1>5, FS_CardinalityType

(* The buffer asked for is a number of pages.                              *)
LEMMA BufferPagesType ==
    ASSUME NEW size \in Nat
    PROVE  BufferPages(size) \in Nat
<1>1. (size + DescsPerPage - 1) \div DescsPerPage \in Nat
  BY HandoverAssumption
<1> QED
  BY <1>1, HandoverAssumption DEF BufferPages
-----------------------------------------------------------------------------
(* What an allocation leaves alone: every page that is not conventional.   *)
Kept == \A p \in Ram : memType[p] # "conventional" => memType'[p] = memType[p]

LEMMA AllocKernelEffect ==
    ASSUME TypeOK, AllocKernel
    PROVE  /\ memType' \in [Ram -> Types] /\ key' \in Nat /\ key <= key'
           /\ Kept
           /\ kernelPhys' \in Ram \cup {0}
           /\ kernelPhys' # 0 => \A q \in Pages(kernelPhys', KernelPages) :
                 q \in Ram /\ memType[q] = "conventional" /\ memType'[q] = "loader code"
<1>1. CASE Free(KernelPages) = {} /\ kernelPhys' = 0 /\ UNCHANGED <<memType, key>>
  BY <1>1 DEF TypeOK, Kept
<1>2. ASSUME NEW p \in Free(KernelPages), kernelPhys' = p, key' = key + 1,
             memType' = [q \in Ram |-> IF q \in Pages(p, KernelPages)
                                       THEN "loader code" ELSE memType[q]]
      PROVE  /\ memType' \in [Ram -> Types] /\ key' \in Nat /\ key <= key'
             /\ Kept
             /\ kernelPhys' \in Ram \cup {0}
             /\ \A q \in Pages(p, KernelPages) :
                   q \in Ram /\ memType[q] = "conventional" /\ memType'[q] = "loader code"
  <2>1. p \in Ram /\ \A q \in Pages(p, KernelPages) : q \in Ram /\ memType[q] = "conventional"
    BY <1>2 DEF Free
  <2>3. memType \in [Ram -> Types] /\ key \in Nat
    BY DEF TypeOK
  <2>6. key' \in Nat /\ key <= key'
    <3> DEFINE old == key
               new == key'
    <3>1. new = old + 1 /\ old \in Nat
      BY <1>2, <2>3
    <3> HIDE DEF old, new
    <3>2. new \in Nat /\ old <= new
      BY <3>1
    <3> QED
      BY <3>2 DEF old, new
  <2>2. kernelPhys' \in Ram \cup {0}
    BY <1>2, <2>1
  <2>4. memType' \in [Ram -> Types]
    BY <1>2, <2>3 DEF Types
  <2>5. Kept
    BY <1>2, <2>1, <2>3 DEF Kept
  <2> QED
    BY <1>2, <2>1, <2>2, <2>4, <2>5, <2>6
<1> QED
  BY <1>1, <1>2 DEF AllocKernel, Allocate

LEMMA AllocStackEffect ==
    ASSUME TypeOK, AllocStack
    PROVE  /\ memType' \in [Ram -> Types] /\ key' \in Nat /\ key <= key'
           /\ Kept
           /\ stackPhys' \in Ram \cup {0}
           /\ stackPhys' # 0 => \A q \in Pages(stackPhys', StackPages) :
                 q \in Ram /\ memType[q] = "conventional" /\ memType'[q] = "loader data"
<1>1. CASE Free(StackPages) = {} /\ stackPhys' = 0 /\ UNCHANGED <<memType, key>>
  BY <1>1 DEF TypeOK, Kept
<1>2. ASSUME NEW p \in Free(StackPages), stackPhys' = p, key' = key + 1,
             memType' = [q \in Ram |-> IF q \in Pages(p, StackPages)
                                       THEN "loader data" ELSE memType[q]]
      PROVE  /\ memType' \in [Ram -> Types] /\ key' \in Nat /\ key <= key'
             /\ Kept
             /\ stackPhys' \in Ram \cup {0}
             /\ \A q \in Pages(p, StackPages) :
                   q \in Ram /\ memType[q] = "conventional" /\ memType'[q] = "loader data"
  <2>1. p \in Ram /\ \A q \in Pages(p, StackPages) : q \in Ram /\ memType[q] = "conventional"
    BY <1>2 DEF Free
  <2>3. memType \in [Ram -> Types] /\ key \in Nat
    BY DEF TypeOK
  <2>6. key' \in Nat /\ key <= key'
    <3> DEFINE old == key
               new == key'
    <3>1. new = old + 1 /\ old \in Nat
      BY <1>2, <2>3
    <3> HIDE DEF old, new
    <3>2. new \in Nat /\ old <= new
      BY <3>1
    <3> QED
      BY <3>2 DEF old, new
  <2>2. stackPhys' \in Ram \cup {0}
    BY <1>2, <2>1
  <2>4. memType' \in [Ram -> Types]
    BY <1>2, <2>3 DEF Types
  <2>5. Kept
    BY <1>2, <2>1, <2>3 DEF Kept
  <2> QED
    BY <1>2, <2>1, <2>2, <2>4, <2>5, <2>6
<1> QED
  BY <1>1, <1>2 DEF AllocStack, Allocate

LEMMA AllocMapEffect ==
    ASSUME TypeOK, AllocMap
    PROVE  /\ memType' \in [Ram -> Types] /\ key' \in Nat /\ key <= key'
           /\ Kept
           /\ mmapPhys' \in Ram \cup {0}
           /\ mmapPhys' # 0 => \A q \in Pages(mmapPhys', mmapPages) :
                 q \in Ram /\ memType[q] = "conventional" /\ memType'[q] = "loader data"
<1>1. CASE Free(mmapPages) = {} /\ mmapPhys' = 0 /\ UNCHANGED <<memType, key>>
  BY <1>1 DEF TypeOK, Kept
<1>2. ASSUME NEW p \in Free(mmapPages), mmapPhys' = p, key' = key + 1,
             memType' = [q \in Ram |-> IF q \in Pages(p, mmapPages)
                                       THEN "loader data" ELSE memType[q]]
      PROVE  /\ memType' \in [Ram -> Types] /\ key' \in Nat /\ key <= key'
             /\ Kept
             /\ mmapPhys' \in Ram \cup {0}
             /\ \A q \in Pages(p, mmapPages) :
                   q \in Ram /\ memType[q] = "conventional" /\ memType'[q] = "loader data"
  <2>1. p \in Ram /\ \A q \in Pages(p, mmapPages) : q \in Ram /\ memType[q] = "conventional"
    BY <1>2 DEF Free
  <2>3. memType \in [Ram -> Types] /\ key \in Nat
    BY DEF TypeOK
  <2>6. key' \in Nat /\ key <= key'
    <3> DEFINE old == key
               new == key'
    <3>1. new = old + 1 /\ old \in Nat
      BY <1>2, <2>3
    <3> HIDE DEF old, new
    <3>2. new \in Nat /\ old <= new
      BY <3>1
    <3> QED
      BY <3>2 DEF old, new
  <2>2. mmapPhys' \in Ram \cup {0}
    BY <1>2, <2>1
  <2>4. memType' \in [Ram -> Types]
    BY <1>2, <2>3 DEF Types
  <2>5. Kept
    BY <1>2, <2>1, <2>3 DEF Kept
  <2> QED
    BY <1>2, <2>1, <2>2, <2>4, <2>5, <2>6
<1> QED
  BY <1>1, <1>2 DEF AllocMap, Allocate
-----------------------------------------------------------------------------
(* Pages the loader holds stay as they are when only free pages change.    *)
LEMMA HoldsKept ==
    ASSUME Kept
    PROVE  /\ Holds(kernelPhys, KernelPages, "loader code") /\ kernelPhys' = kernelPhys
                 => Holds(kernelPhys, KernelPages, "loader code")'
           /\ Holds(stackPhys, StackPages, "loader data") /\ stackPhys' = stackPhys
                 => Holds(stackPhys, StackPages, "loader data")'
           /\ Holds(mmapPhys, mmapPages, "loader data") /\ mmapPhys' = mmapPhys
                    /\ mmapPages' = mmapPages
                 => Holds(mmapPhys, mmapPages, "loader data")'
  BY DEF Kept, Holds, Pages

LEMMA HandoverInit == Init => HandoverInv
<1> SUFFICES ASSUME Init PROVE HandoverInv
  OBVIOUS
<1>1. TypeOK
  <2>1. memType \in [Ram -> Types]
    BY DEF Init, Types
  <2>2. events \in 0..MaxEvents
    <3>1. MaxEvents \in Nat /\ events = 0
      BY HandoverAssumption DEF Init
    <3> QED
      BY <3>1
  <2> QED
    BY <2>1, <2>2 DEF Init, TypeOK
<1>2. Progress
  BY DEF Init, Progress, BeforeStack, BeforeMap, BeforeExit
<1>3. KeyInv
  <2>1. key = 0 /\ mapKey = 0 /\ buffer = {} /\ services = TRUE
    BY DEF Init
  <2> QED
    BY <2>1 DEF KeyInv
<1>4. RegionInv
  BY DEF Init, RegionInv, Holds
<1> QED
  BY <1>1, <1>2, <1>3, <1>4 DEF HandoverInv

(* The three allocations.                                                  *)
LEMMA AllocKernelKeeps == HandoverInv /\ AllocKernel => HandoverInv'
<1> SUFFICES ASSUME HandoverInv, AllocKernel PROVE HandoverInv'
  OBVIOUS
<1>1. TypeOK /\ Progress /\ KeyInv /\ RegionInv
  BY DEF HandoverInv
<1>2. /\ memType' \in [Ram -> Types] /\ key' \in Nat /\ key <= key' /\ Kept
      /\ kernelPhys' \in Ram \cup {0}
      /\ kernelPhys' # 0 => \A q \in Pages(kernelPhys', KernelPages) :
            q \in Ram /\ memType[q] = "conventional" /\ memType'[q] = "loader code"
  BY <1>1, AllocKernelEffect
<1>3. /\ pc = "alloc kernel" /\ pc' = "copy" /\ services' = services /\ events' = events
      /\ stackPhys' = stackPhys /\ mmapPhys' = mmapPhys /\ mmapPages' = mmapPages
      /\ mmapSize' = mmapSize /\ mapKey' = mapKey /\ buffer' = buffer
  BY DEF AllocKernel, mapVars
<1>4. stackPhys = 0 /\ mmapPhys = 0 /\ buffer = {} /\ services = TRUE
  BY <1>1, <1>3 DEF Progress, BeforeStack, BeforeMap, BeforeExit
<1>5. TypeOK'
  BY <1>1, <1>2, <1>3 DEF TypeOK
<1>6. Progress'
  BY <1>3, <1>4 DEF Progress, BeforeStack, BeforeMap, BeforeExit
<1>7. KeyInv'
  <2>1. mapKey \in Nat /\ key \in Nat /\ mapKey <= key
    BY <1>1 DEF TypeOK, KeyInv
  <2>2. mapKey <= key'
    <3> DEFINE new == key'
    <3>1. new \in Nat /\ key <= new
      BY <1>2
    <3> HIDE DEF new
    <3>2. mapKey <= new
      BY <2>1, <3>1
    <3> QED
      BY <3>2 DEF new
  <2>3. buffer' = {} /\ services' = TRUE /\ mapKey' = mapKey
    BY <1>3, <1>4
  <2> QED
    BY <2>2, <2>3 DEF KeyInv
<1>8. RegionInv'
  BY <1>2, <1>3, <1>4 DEF RegionInv, Holds, Pages
<1> QED
  BY <1>5, <1>6, <1>7, <1>8 DEF HandoverInv

LEMMA AllocStackKeeps == HandoverInv /\ AllocStack => HandoverInv'
<1> SUFFICES ASSUME HandoverInv, AllocStack PROVE HandoverInv'
  OBVIOUS
<1>1. TypeOK /\ Progress /\ KeyInv /\ RegionInv
  BY DEF HandoverInv
<1>2. /\ memType' \in [Ram -> Types] /\ key' \in Nat /\ key <= key' /\ Kept
      /\ stackPhys' \in Ram \cup {0}
      /\ stackPhys' # 0 => \A q \in Pages(stackPhys', StackPages) :
            q \in Ram /\ memType[q] = "conventional" /\ memType'[q] = "loader data"
  BY <1>1, AllocStackEffect
<1>3. /\ pc = "alloc stack" /\ pc' = "size map" /\ services' = services
      /\ events' = events
      /\ kernelPhys' = kernelPhys /\ mmapPhys' = mmapPhys /\ mmapPages' = mmapPages
      /\ mmapSize' = mmapSize /\ mapKey' = mapKey /\ buffer' = buffer
  BY DEF AllocStack, mapVars
<1>4. mmapPhys = 0 /\ buffer = {} /\ services = TRUE
  BY <1>1, <1>3 DEF Progress, BeforeStack, BeforeMap, BeforeExit
<1>5. TypeOK'
  BY <1>1, <1>2, <1>3 DEF TypeOK
<1>6. Progress'
  BY <1>3, <1>4 DEF Progress, BeforeStack, BeforeMap, BeforeExit
<1>7. KeyInv'
  <2>1. mapKey \in Nat /\ key \in Nat /\ mapKey <= key
    BY <1>1 DEF TypeOK, KeyInv
  <2>2. mapKey <= key'
    <3> DEFINE new == key'
    <3>1. new \in Nat /\ key <= new
      BY <1>2
    <3> HIDE DEF new
    <3>2. mapKey <= new
      BY <2>1, <3>1
    <3> QED
      BY <3>2 DEF new
  <2>3. buffer' = {} /\ services' = TRUE /\ mapKey' = mapKey
    BY <1>3, <1>4
  <2> QED
    BY <2>2, <2>3 DEF KeyInv
<1>8. RegionInv'
  <2>1. Holds(kernelPhys, KernelPages, "loader code")'
    BY <1>1, <1>2, <1>3, HoldsKept DEF RegionInv
  <2>2. Holds(stackPhys, StackPages, "loader data")'
    BY <1>2, <1>3 DEF Holds, Pages
  <2>3. mmapPhys' = 0
    BY <1>3, <1>4
  <2> QED
    BY <2>1, <2>2, <2>3 DEF RegionInv, Holds
<1> QED
  BY <1>5, <1>6, <1>7, <1>8 DEF HandoverInv

LEMMA AllocMapKeeps == HandoverInv /\ AllocMap => HandoverInv'
<1> SUFFICES ASSUME HandoverInv, AllocMap PROVE HandoverInv'
  OBVIOUS
<1>1. TypeOK /\ Progress /\ KeyInv /\ RegionInv
  BY DEF HandoverInv
<1>2. /\ memType' \in [Ram -> Types] /\ key' \in Nat /\ key <= key' /\ Kept
      /\ mmapPhys' \in Ram \cup {0}
      /\ mmapPhys' # 0 => \A q \in Pages(mmapPhys', mmapPages) :
            q \in Ram /\ memType[q] = "conventional" /\ memType'[q] = "loader data"
  BY <1>1, AllocMapEffect
<1>3. /\ pc = "alloc map" /\ pc' = "fill map" /\ services' = services
      /\ events' = events
      /\ kernelPhys' = kernelPhys /\ stackPhys' = stackPhys /\ mmapPages' = mmapPages
      /\ mmapSize' = mmapSize /\ mapKey' = mapKey /\ buffer' = buffer
  BY DEF AllocMap, mapVars
<1>4. buffer = {} /\ services = TRUE
  BY <1>1, <1>3 DEF Progress, BeforeStack, BeforeMap, BeforeExit
<1>5. TypeOK'
  BY <1>1, <1>2, <1>3 DEF TypeOK
<1>6. Progress'
  BY <1>3, <1>4 DEF Progress, BeforeStack, BeforeMap, BeforeExit
<1>7. KeyInv'
  <2>1. mapKey \in Nat /\ key \in Nat /\ mapKey <= key
    BY <1>1 DEF TypeOK, KeyInv
  <2>2. mapKey <= key'
    <3> DEFINE new == key'
    <3>1. new \in Nat /\ key <= new
      BY <1>2
    <3> HIDE DEF new
    <3>2. mapKey <= new
      BY <2>1, <3>1
    <3> QED
      BY <3>2 DEF new
  <2>3. buffer' = {} /\ services' = TRUE /\ mapKey' = mapKey
    BY <1>3, <1>4
  <2> QED
    BY <2>2, <2>3 DEF KeyInv
<1>8. RegionInv'
  <2>1. Holds(kernelPhys, KernelPages, "loader code")'
    BY <1>1, <1>2, <1>3, HoldsKept DEF RegionInv
  <2>2. Holds(stackPhys, StackPages, "loader data")'
    BY <1>1, <1>2, <1>3, HoldsKept DEF RegionInv
  <2>3. Holds(mmapPhys, mmapPages, "loader data")'
    BY <1>2, <1>3 DEF Holds, Pages
  <2>4. ASSUME stackPhys # 0, mmapPhys' # 0
        PROVE  Pages(stackPhys, StackPages) \cap Pages(mmapPhys', mmapPages) = {}
    BY <2>4, <1>1, <1>2 DEF RegionInv, Holds
  <2> QED
    BY <2>1, <2>2, <2>3, <2>4, <1>3 DEF RegionInv, Pages
<1> QED
  BY <1>5, <1>6, <1>7, <1>8 DEF HandoverInv
-----------------------------------------------------------------------------
(* The memory map is a function of the types of the pages.                 *)
LEMMA MapKept ==
    ASSUME memType' = memType
    PROVE  Map' = Map
<1>1. Starts' = Starts
  BY DEF Starts
<1>2. \A p : RunPages(p)' = RunPages(p)
  BY DEF RunPages
<1> QED
  BY <1>1, <1>2 DEF Map

(* Regions stay as they are when neither they nor the pages' types change. *)
LEMMA RegionsKept ==
    ASSUME RegionInv, memType' = memType, UNCHANGED allocVars
    PROVE  RegionInv'
  BY DEF RegionInv, Holds, Pages, allocVars

(* The steps that copy, jump and run the kernel.                           *)
LEMMA MovesKeep == HandoverInv /\ (CopyKernel \/ JumpKernel \/ UNCHANGED vars) => HandoverInv'
<1> SUFFICES ASSUME HandoverInv, CopyKernel \/ JumpKernel \/ UNCHANGED vars
             PROVE  HandoverInv'
  OBVIOUS
<1>1. TypeOK /\ Progress /\ KeyInv /\ RegionInv
  BY DEF HandoverInv
<1>2. UNCHANGED <<firmwareVars, allocVars, mapVars>>
  BY DEF CopyKernel, JumpKernel, vars
<1>3. TypeOK'
  BY <1>1, <1>2 DEF TypeOK, firmwareVars, allocVars, mapVars
<1>4. Progress'
  BY <1>1, <1>2 DEF Progress, BeforeStack, BeforeMap, BeforeExit, CopyKernel,
     JumpKernel, vars, firmwareVars, allocVars, mapVars
<1>5. KeyInv'
  <2>1. Map' = Map
    BY <1>2, MapKept DEF firmwareVars
  <2> QED
    BY <1>1, <1>2, <2>1 DEF KeyInv, firmwareVars, mapVars
<1>6. RegionInv'
  BY <1>1, <1>2, RegionsKept DEF firmwareVars
<1> QED
  BY <1>3, <1>4, <1>5, <1>6 DEF HandoverInv

LEMMA SizeMapKeeps == HandoverInv /\ SizeMap => HandoverInv'
<1> SUFFICES ASSUME HandoverInv, SizeMap PROVE HandoverInv'
  OBVIOUS
<1>1. TypeOK /\ Progress /\ KeyInv /\ RegionInv
  BY DEF HandoverInv
<1>2. /\ pc = "size map" /\ pc' = "alloc map"
      /\ UNCHANGED <<memType, key, services, events, kernelPhys, stackPhys, mmapPhys>>
      /\ mmapSize' = Cardinality(Map) /\ mmapPages' = BufferPages(mmapSize')
      /\ buffer' = buffer /\ mapKey' \in {mapKey, key}
  BY DEF SizeMap, GetMemoryMap, firmwareVars
<1>3. mmapPhys = 0 /\ buffer = {} /\ services = TRUE
  BY <1>1, <1>2 DEF Progress, BeforeStack, BeforeMap, BeforeExit
<1>4. mmapSize' \in Nat /\ mmapPages' \in Nat
  <2>1. Cardinality(Map) \in Nat
    BY <1>1, MapType DEF TypeOK
  <2>2. BufferPages(Cardinality(Map)) \in Nat
    BY <2>1, BufferPagesType
  <2> QED
    BY <1>2, <2>1, <2>2
<1>5. TypeOK'
  BY <1>1, <1>2, <1>4 DEF TypeOK
<1>6. Progress'
  BY <1>2, <1>3 DEF Progress, BeforeStack, BeforeMap, BeforeExit
<1>7. KeyInv'
  <2>1. mapKey \in Nat /\ key \in Nat /\ mapKey <= key
    BY <1>1 DEF TypeOK, KeyInv
  <2>2. mapKey' <= key'
    <3> DEFINE reported == mapKey'
               new == key'
    <3>1. reported \in {mapKey, key} /\ new = key
      BY <1>2
    <3> HIDE DEF reported, new
    <3>2. reported <= new
      BY <2>1, <3>1
    <3> QED
      BY <3>2 DEF reported, new
  <2>3. buffer' = {} /\ services' = TRUE
    BY <1>2, <1>3
  <2> QED
    BY <2>2, <2>3 DEF KeyInv
<1>8. RegionInv'
  BY <1>1, <1>2, <1>3 DEF RegionInv, Holds, Pages
<1> QED
  BY <1>5, <1>6, <1>7, <1>8 DEF HandoverInv

LEMMA FillMapKeeps == HandoverInv /\ FillMap => HandoverInv'
<1> SUFFICES ASSUME HandoverInv, FillMap PROVE HandoverInv'
  OBVIOUS
<1>1. TypeOK /\ Progress /\ KeyInv /\ RegionInv
  BY DEF HandoverInv
<1>2. /\ pc = "fill map" /\ pc' = "exit" /\ UNCHANGED <<firmwareVars, allocVars>>
      /\ mmapSize' = Cardinality(Map)
      /\ \/ buffer' = Map /\ mapKey' = key
         \/ buffer' = buffer /\ mapKey' \in {mapKey, key}
  BY DEF FillMap, GetMemoryMap
<1>3. buffer = {} /\ services = TRUE
  BY <1>1, <1>2 DEF Progress, BeforeStack, BeforeMap, BeforeExit
<1>4. Map' = Map
  BY <1>2, MapKept DEF firmwareVars
<1>5. Map \subseteq Descriptors /\ Cardinality(Map) \in Nat
  BY <1>1, MapType DEF TypeOK
<1>6. TypeOK'
  <2>1. mapKey' \in Nat
    BY <1>1, <1>2 DEF TypeOK
  <2>2. buffer' \subseteq Descriptors
    BY <1>1, <1>2, <1>5 DEF TypeOK
  <2> QED
    BY <1>1, <1>2, <1>5, <2>1, <2>2 DEF TypeOK, firmwareVars, allocVars
<1>7. Progress'
  BY <1>2, <1>3 DEF Progress, BeforeStack, BeforeMap, BeforeExit, firmwareVars, allocVars
<1>8. KeyInv'
  <2>1. mapKey \in Nat /\ key \in Nat /\ mapKey <= key
    BY <1>1 DEF TypeOK, KeyInv
  <2>2. key' = key /\ services' = TRUE
    BY <1>2, <1>3 DEF firmwareVars
  <2>3. mapKey' <= key'
    <3> DEFINE reported == mapKey'
               new == key'
    <3>1. reported \in {mapKey, key} /\ new = key
      BY <1>2, <2>2
    <3> HIDE DEF reported, new
    <3>2. reported <= new
      BY <2>1, <3>1
    <3> QED
      BY <3>2 DEF reported, new
  <2>4. buffer' # {} => buffer' = Map'
    BY <1>2, <1>3, <1>4
  <2> QED
    BY <2>2, <2>3, <2>4 DEF KeyInv
<1>9. RegionInv'
  BY <1>1, <1>2, RegionsKept DEF firmwareVars
<1> QED
  BY <1>6, <1>7, <1>8, <1>9 DEF HandoverInv

LEMMA ExitKeeps == HandoverInv /\ ExitBootServices => HandoverInv'
<1> SUFFICES ASSUME HandoverInv, ExitBootServices PROVE HandoverInv'
  OBVIOUS
<1>1. TypeOK /\ Progress /\ KeyInv /\ RegionInv
  BY DEF HandoverInv
<1>2. /\ pc = "exit" /\ pc' = "jump" /\ services' = (mapKey # key)
      /\ UNCHANGED <<memType, key, events, allocVars, mapVars>>
  BY DEF ExitBootServices
<1>3. services' \in BOOLEAN /\ (~services' => mapKey = key)
  BY <1>2
<1>4. TypeOK'
  BY <1>1, <1>2, <1>3 DEF TypeOK, allocVars, mapVars
<1>5. Progress'
  BY <1>1, <1>2 DEF Progress, BeforeStack, BeforeMap, BeforeExit, allocVars, mapVars
<1>6. KeyInv'
  <2>1. Map' = Map
    BY <1>2, MapKept
  <2> QED
    BY <1>1, <1>2, <1>3, <2>1 DEF KeyInv, mapVars
<1>7. RegionInv'
  BY <1>1, <1>2, RegionsKept
<1> QED
  BY <1>4, <1>5, <1>6, <1>7 DEF HandoverInv

(* A change by the firmware makes the key of the buffer stale.             *)
LEMMA FirmwareKeeps == HandoverInv /\ FirmwareEvent => HandoverInv'
<1> SUFFICES ASSUME HandoverInv, FirmwareEvent PROVE HandoverInv'
  OBVIOUS
<1>1. TypeOK /\ Progress /\ KeyInv /\ RegionInv
  BY DEF HandoverInv
<1>2. /\ services /\ events < MaxEvents /\ key' = key + 1 /\ events' = events + 1
      /\ UNCHANGED <<services, pc, allocVars, mapVars>>
  BY DEF FirmwareEvent
<1>3. PICK p \in Ram, t \in {"conventional", "firmware"} :
         /\ memType[p] \in {"conventional", "firmware"} \ {t}
         /\ memType' = [memType EXCEPT ![p] = t]
  BY DEF FirmwareEvent
<1>4. memType \in [Ram -> Types] /\ memType' \in [Ram -> Types]
  BY <1>1, <1>3 DEF TypeOK, Types
<1>5. key \in Nat /\ mapKey \in Nat /\ mapKey <= key
  BY <1>1 DEF TypeOK, KeyInv
<1>6. events \in 0..MaxEvents /\ MaxEvents \in Nat
  BY <1>1, HandoverAssumption DEF TypeOK
<1>7. key' \in Nat /\ mapKey <= key' /\ mapKey # key'
  <2> DEFINE new == key'
  <2>1. new = key + 1
    BY <1>2
  <2> HIDE DEF new
  <2>2. new \in Nat /\ mapKey <= new /\ mapKey # new
    BY <2>1, <1>5
  <2> QED
    BY <2>2 DEF new
<1>8. events' \in 0..MaxEvents
  <2> DEFINE new == events'
  <2>1. new = events + 1 /\ events < MaxEvents
    BY <1>2
  <2> HIDE DEF new
  <2>2. new \in 0..MaxEvents
    BY <2>1, <1>6
  <2> QED
    BY <2>2 DEF new
<1>9. TypeOK'
  BY <1>1, <1>2, <1>4, <1>7, <1>8 DEF TypeOK, allocVars, mapVars
<1>10. Progress'
  BY <1>1, <1>2 DEF Progress, BeforeStack, BeforeMap, BeforeExit, allocVars, mapVars
<1>11. KeyInv'
  <2>1. services' = services /\ mapKey' = mapKey /\ buffer' = buffer
    BY <1>2 DEF mapVars
  <2> QED
    BY <1>2, <1>7, <2>1 DEF KeyInv
<1>12. RegionInv'
  <2>1. \A q \in Ram : memType[q] \in {"loader code", "loader data"} => memType'[q] = memType[q]
    BY <1>3, <1>4
  <2>2. /\ Holds(kernelPhys, KernelPages, "loader code")'
        /\ Holds(stackPhys, StackPages, "loader data")'
        /\ Holds(mmapPhys, mmapPages, "loader data")'
    BY <1>1, <1>2, <2>1 DEF RegionInv, Holds, Pages, allocVars
  <2> QED
    BY <1>1, <1>2, <2>2 DEF RegionInv, Pages, allocVars
<1> QED
  BY <1>9, <1>10, <1>11, <1>12 DEF HandoverInv
-----------------------------------------------------------------------------
LEMMA HandoverStep == HandoverInv /\ [Next]_vars => HandoverInv'
<1> SUFFICES ASSUME HandoverInv, [Next]_vars PROVE HandoverInv'
  OBVIOUS
<1> QED
  BY AllocKernelKeeps, AllocStackKeeps, AllocMapKeeps, MovesKeep, SizeMapKeeps,
     FillMapKeeps, ExitKeeps, FirmwareKeeps DEF Next, Loader, InKernel

(* The invariant of the hand-over: types, what each step finds, the key    *)
(* and the regions of memory.                                              *)
THEOREM HandoverSafe == Spec => []HandoverInv
  BY HandoverInit, HandoverStep, PTL DEF Spec

(* Every variable of the loader and the firmware has its type.             *)
THEOREM HandoverTypes == Spec => []TypeOK
<1>1. HandoverInv => TypeOK
  BY DEF HandoverInv
<1> QED
  BY <1>1, HandoverSafe, PTL

(* If boot services ended and the buffer was filled, the map in it is the  *)
(* final one (efi_main.cpp: fill, then exit with the key of the fill), for *)
(* every memory and every change the firmware makes meanwhile.             *)
THEOREM MapIsCurrent == Spec => []MapCurrentAfterExit
<1>1. HandoverInv => MapCurrentAfterExit
  BY DEF HandoverInv, KeyInv, MapCurrentAfterExit
<1> QED
  BY <1>1, HandoverSafe, PTL
-----------------------------------------------------------------------------
(* How the map grows. StartsOf, RunOf and MapOf are the map as a function  *)
(* of the types of the pages.                                              *)
StartsOf(types) == {p \in Ram : p - 1 \notin Ram \/ types[p - 1] # types[p]}
RunOf(types, p) == {q \in Ram : q >= p /\ \A r \in Pages(p, q - p + 1) :
                       r \in Ram /\ types[r] = types[p]}
MapOf(types) ==
    {[type |-> types[p], start |-> p, pages |-> Cardinality(RunOf(types, p))] :
        p \in StartsOf(types)}

LEMMA MapIsMapOf == Map = MapOf(memType) /\ Map' = MapOf(memType')
<1>1. Map = MapOf(memType)
  BY DEF Map, MapOf, Starts, StartsOf, RunPages, RunOf
<1>2. Map' = MapOf(memType')
  BY DEF Map, MapOf, Starts, StartsOf, RunPages, RunOf
<1> QED
  BY <1>1, <1>2

(* The map has as many descriptors as there are runs of one type.          *)
LEMMA MapCountsStarts ==
    ASSUME NEW types
    PROVE  /\ IsFiniteSet(StartsOf(types)) /\ Cardinality(StartsOf(types)) \in Nat
           /\ Cardinality(MapOf(types)) = Cardinality(StartsOf(types))
<1> DEFINE D(p) == [type |-> types[p], start |-> p, pages |-> Cardinality(RunOf(types, p))]
           f == [p \in StartsOf(types) |-> D(p)]
<1>1. IsFiniteSet(StartsOf(types))
  BY FS_Subset, HandoverAssumption DEF StartsOf
<1>2. MapOf(types) = {D(p) : p \in StartsOf(types)}
  BY DEF MapOf
<1>3. f \in Surjection(StartsOf(types), MapOf(types))
  BY <1>2 DEF Surjection
<1>4. f \in Injection(StartsOf(types), MapOf(types))
  <2>1. \A a, b \in StartsOf(types) : D(a) = D(b) => a = b
    OBVIOUS
  <2>2. \A a, b \in StartsOf(types) : f[a] = f[b] => a = b
    BY <2>1
  <2> HIDE DEF f
  <2> QED
    BY <2>2, <1>3 DEF Injection, Surjection, IsInjective
<1>5. Cardinality(MapOf(types)) = Cardinality(StartsOf(types))
  <2> HIDE DEF f
  <2> QED
    BY <1>1, <1>3, <1>4, FS_Surjection
<1> QED
  BY <1>1, <1>5, FS_CardinalityType

(* Giving a run of pages one type splits at most two runs of the map.      *)
LEMMA RunChangeGrowsByTwo ==
    ASSUME NEW before, NEW after, NEW p \in Nat, NEW n \in Nat, NEW t,
           after = [q \in Ram |-> IF q \in Pages(p, n) THEN t ELSE before[q]]
    PROVE  Cardinality(MapOf(after)) <= Cardinality(MapOf(before)) + 2
<1> DEFINE S == StartsOf(before)
<1>1. StartsOf(after) \subseteq (S \cup {p}) \cup {p + n}
  <2> SUFFICES ASSUME NEW q \in StartsOf(after), q # p, q # p + n
               PROVE  q \in S
    OBVIOUS
  <2>1. q \in Ram /\ q \in Nat /\ (q - 1 \notin Ram \/ after[q - 1] # after[q])
    BY HandoverAssumption DEF StartsOf
  <2>2. q \in Pages(p, n) <=> q - 1 \in Pages(p, n)
    BY <2>1 DEF Pages
  <2>3. q - 1 \in Ram => before[q - 1] # before[q]
    BY <2>1, <2>2
  <2> QED
    BY <2>1, <2>3 DEF StartsOf
<1>2. IsFiniteSet(S) /\ Cardinality(S) \in Nat
  BY MapCountsStarts
<1>3. /\ IsFiniteSet(S \cup {p}) /\ Cardinality(S \cup {p}) \in Nat
      /\ Cardinality(S \cup {p}) <= Cardinality(S) + 1
  <2> HIDE DEF S
  <2>1. IsFiniteSet(S \cup {p}) /\ Cardinality(S \cup {p}) \in Nat
    BY <1>2, FS_AddElement, FS_CardinalityType
  <2>2. Cardinality(S \cup {p}) = IF p \in S THEN Cardinality(S) ELSE Cardinality(S) + 1
    BY <1>2, FS_AddElement
  <2> QED
    BY <1>2, <2>1, <2>2
<1>4. /\ IsFiniteSet((S \cup {p}) \cup {p + n})
      /\ Cardinality((S \cup {p}) \cup {p + n}) \in Nat
      /\ Cardinality((S \cup {p}) \cup {p + n}) <= Cardinality(S) + 2
  <2> DEFINE T == S \cup {p}
             e == p + n
  <2> HIDE DEF S, T, e
  <2>1. IsFiniteSet(T) /\ Cardinality(T) \in Nat /\ Cardinality(T) <= Cardinality(S) + 1
    BY <1>3 DEF T
  <2>2. IsFiniteSet(T \cup {e}) /\ Cardinality(T \cup {e}) \in Nat
    BY <2>1, FS_AddElement, FS_CardinalityType
  <2>3. Cardinality(T \cup {e}) = IF e \in T THEN Cardinality(T) ELSE Cardinality(T) + 1
    BY <2>1, FS_AddElement
  <2>4. Cardinality(T \cup {e}) <= Cardinality(S) + 2
    BY <2>1, <2>3, <1>2
  <2> QED
    BY <2>2, <2>4 DEF T, e
<1>5. Cardinality(StartsOf(after)) <= Cardinality(S) + 2
  <2>1. Cardinality(StartsOf(after)) <= Cardinality((S \cup {p}) \cup {p + n})
    BY <1>1, <1>4, FS_Subset
  <2>2. Cardinality(StartsOf(after)) \in Nat
    BY MapCountsStarts
  <2> QED
    BY <1>2, <1>4, <2>1, <2>2
<1> QED
  BY <1>5, MapCountsStarts
-----------------------------------------------------------------------------
(* The extra pages of the buffer against what the map can grow by between  *)
(* the two calls of getMemoryMap: two descriptors for the allocation of    *)
(* the buffer and two for every change an event handler makes. The code's  *)
(* 128 pages of 85 descriptors cover more than five thousand changes.      *)
GrowthBound == 2 + 2 * MaxEvents <= ScratchPages * DescsPerPage

Sized == pc \in {"alloc map", "fill map"}
GrowthInv ==
    /\ Sized => mmapPages = BufferPages(mmapSize)
    /\ pc = "alloc map" => Cardinality(Map) <= mmapSize + 2 * events
    /\ pc = "fill map" => Cardinality(Map) <= mmapSize + 2 * events + 2
    /\ pc \in {"exit", "jump", "kernel"} => mmapSize <= mmapPages * DescsPerPage

(* A buffer of BufferPages(size) pages has room for size descriptors and   *)
(* for ScratchPages pages of them more.                                    *)
LEMMA BufferPagesRoom ==
    ASSUME NEW size \in Nat
    PROVE  size + ScratchPages * DescsPerPage <= BufferPages(size) * DescsPerPage
<1> DEFINE n == (size + DescsPerPage - 1) \div DescsPerPage
           m == IF n < 2 THEN 2 ELSE n
           N == ScratchPages
           D == DescsPerPage
<1>1. D \in Nat \ {0} /\ N \in Nat
  BY HandoverAssumption
<1>2. n \in Nat /\ size <= n * D
  BY <1>1
<1>3. m \in Nat /\ n <= m
  BY <1>2
<1>4. n * D <= m * D
  <2> HIDE DEF n, m, D
  <2> QED
    BY <1>1, <1>2, <1>3
<1>5. (m + N) * D = m * D + N * D /\ m * D \in Nat /\ n * D \in Nat /\ N * D \in Nat
  <2> HIDE DEF n, m, D, N
  <2> QED
    BY <1>1, <1>2, <1>3
<1>6. size + N * D <= (m + N) * D
  <2> HIDE DEF n, m, D, N
  <2> QED
    BY <1>1, <1>2, <1>3, <1>4, <1>5
<1> QED
  BY <1>6 DEF BufferPages

LEMMA GrowthInit == Init => GrowthInv
  BY DEF Init, GrowthInv, Sized

(* A step that changes the types of the pages by giving a run one type.    *)
LEMMA StepGrowsByTwo ==
    ASSUME NEW p \in Nat, NEW n \in Nat, NEW t,
           memType' = [q \in Ram |-> IF q \in Pages(p, n) THEN t ELSE memType[q]]
    PROVE  Cardinality(Map') <= Cardinality(Map) + 2
  BY RunChangeGrowsByTwo, MapIsMapOf
(* Every step of the loader and the firmware keeps the growth accounted    *)
(* for.                                                                    *)
LEMMA GrowthStep ==
    ASSUME GrowthBound, HandoverInv, GrowthInv, [Next]_vars
    PROVE  GrowthInv'
<1>1. TypeOK /\ Progress
  BY DEF HandoverInv
<1>2. /\ Cardinality(Map) \in Nat /\ mmapSize \in Nat /\ mmapPages \in Nat
      /\ events \in Nat /\ events <= MaxEvents /\ MaxEvents \in Nat
  BY <1>1, MapType, HandoverAssumption DEF TypeOK
<1>3. ASSUME Sized \/ pc \in {"exit", "jump", "kernel"}, UNCHANGED <<pc, mmapSize, mmapPages>>,
             Sized => Cardinality(Map') <= Cardinality(Map) + 2 /\ events' = events + 1,
             Sized => Cardinality(Map') \in Nat
      PROVE  GrowthInv'
  <2>1. CASE Sized
    <3> DEFINE c == Cardinality(Map')
               e == events'
    <3>1. c \in Nat /\ c <= Cardinality(Map) + 2 /\ e = events + 1
      BY <1>3, <2>1
    <3>2. GrowthInv
      OBVIOUS
    <3> HIDE DEF c, e
    <3>3. /\ pc = "alloc map" => c <= mmapSize + 2 * e
          /\ pc = "fill map" => c <= mmapSize + 2 * e + 2
      <4>1. /\ pc = "alloc map" => Cardinality(Map) <= mmapSize + 2 * events
            /\ pc = "fill map" => Cardinality(Map) <= mmapSize + 2 * events + 2
        BY <3>2 DEF GrowthInv
      <4>2. 2 * e = 2 * events + 2
        BY <1>2, <3>1
      <4> DEFINE d == Cardinality(Map)
      <4>3. d \in Nat /\ c <= d + 2
        BY <1>2, <3>1
      <4> HIDE DEF d
      <4>4. d <= mmapSize + 2 * events => c <= mmapSize + 2 * e
        BY <1>2, <3>1, <4>2, <4>3
      <4>5. d <= mmapSize + 2 * events + 2 => c <= mmapSize + 2 * e + 2
        BY <1>2, <3>1, <4>2, <4>3
      <4> QED
        BY <4>1, <4>4, <4>5 DEF d
    <3> QED
      BY <1>3, <2>1, <3>2, <3>3 DEF GrowthInv, Sized, c, e
  <2>2. CASE ~Sized
    BY <1>3, <2>2 DEF GrowthInv, Sized
  <2> QED
    BY <2>1, <2>2
<1>4. CASE UNCHANGED vars \/ InKernel
  <2>1. memType' = memType /\ UNCHANGED <<pc, mmapSize, mmapPages, events>>
    BY <1>4 DEF InKernel, vars, firmwareVars, allocVars, mapVars
  <2>2. Map' = Map
    BY <2>1, MapKept
  <2> QED
    BY <2>1, <2>2 DEF GrowthInv, Sized
<1>5. CASE FirmwareEvent
  <2>1. UNCHANGED <<pc, mmapSize, mmapPages>> /\ events' = events + 1
    BY <1>5 DEF FirmwareEvent, allocVars, mapVars
  <2>2. PICK p \in Ram, t \in {"conventional", "firmware"} :
           memType' = [memType EXCEPT ![p] = t]
    BY <1>5 DEF FirmwareEvent
  <2>3. p \in Nat /\ Pages(p, 1) = {p}
    BY HandoverAssumption DEF Pages
  <2>4. memType' = [q \in Ram |-> IF q \in Pages(p, 1) THEN t ELSE memType[q]]
    BY <1>1, <2>2, <2>3 DEF TypeOK
  <2>5. Cardinality(Map') <= Cardinality(Map) + 2
    BY <2>3, <2>4, StepGrowsByTwo
  <2>6. Cardinality(Map') \in Nat
    BY MapIsMapOf, MapCountsStarts
  <2>7. CASE Sized \/ pc \in {"exit", "jump", "kernel"}
    BY <2>1, <2>5, <2>6, <2>7, <1>3
  <2>8. CASE ~(Sized \/ pc \in {"exit", "jump", "kernel"})
    BY <2>1, <2>8 DEF GrowthInv, Sized
  <2> QED
    BY <2>7, <2>8
<1>6. CASE AllocKernel \/ CopyKernel \/ AllocStack
  <2>1. pc' \in {"copy", "alloc stack", "size map"}
    BY <1>6 DEF AllocKernel, CopyKernel, AllocStack
  <2> QED
    BY <2>1 DEF GrowthInv, Sized
<1>7. CASE SizeMap
  <2>1. /\ pc' = "alloc map" /\ memType' = memType /\ events' = events
        /\ mmapSize' = Cardinality(Map) /\ mmapPages' = BufferPages(mmapSize')
    BY <1>7 DEF SizeMap, GetMemoryMap, firmwareVars
  <2>2. Map' = Map
    BY <2>1, MapKept
  <2>3. Cardinality(Map) <= Cardinality(Map) + 2 * events
    BY <1>2
  <2> QED
    BY <2>1, <2>2, <2>3 DEF GrowthInv, Sized
<1>8. CASE AllocMap
  <2>1. /\ pc = "alloc map" /\ pc' = "fill map"
        /\ UNCHANGED <<events, mmapPages, mmapSize>>
        /\ Allocate("loader data", mmapPages, mmapPhys')
    BY <1>8 DEF AllocMap, mapVars
  <2>2. Cardinality(Map') <= Cardinality(Map) + 2
    <3>1. CASE memType' = memType
      <4>1. Map' = Map
        BY <3>1, MapKept
      <4> QED
        BY <4>1, <1>2
    <3>2. ASSUME NEW p \in Free(mmapPages),
                 memType' = [q \in Ram |-> IF q \in Pages(p, mmapPages)
                                           THEN "loader data" ELSE memType[q]]
          PROVE  Cardinality(Map') <= Cardinality(Map) + 2
      <4>1. p \in Nat
        BY HandoverAssumption DEF Free
      <4> QED
        BY <4>1, <3>2, <1>2, StepGrowsByTwo
    <3> QED
      BY <2>1, <3>1, <3>2 DEF Allocate
  <2>3. Cardinality(Map) <= mmapSize + 2 * events
    BY <2>1 DEF GrowthInv
  <2>4. Cardinality(Map') <= mmapSize + 2 * events + 2
    <3> DEFINE c == Cardinality(Map')
    <3>1. c \in Nat
      BY MapIsMapOf, MapCountsStarts
    <3>2. c <= Cardinality(Map) + 2
      BY <2>2
    <3> HIDE DEF c
    <3>3. c <= mmapSize + 2 * events + 2
      BY <3>1, <3>2, <2>3, <1>2
    <3> QED
      BY <3>3 DEF c
  <2> QED
    BY <2>1, <2>4 DEF GrowthInv, Sized
<1>9. CASE FillMap
  <2>1. /\ pc = "fill map" /\ pc' = "exit" /\ mmapPages' = mmapPages
        /\ mmapSize' = Cardinality(Map)
    BY <1>9 DEF FillMap, GetMemoryMap, allocVars
  <2>2. mmapPages = BufferPages(mmapSize) /\ Cardinality(Map) <= mmapSize + 2 * events + 2
    BY <2>1 DEF GrowthInv, Sized
  <2>3. mmapSize + ScratchPages * DescsPerPage <= mmapPages * DescsPerPage
    BY <1>2, <2>2, BufferPagesRoom
  <2>4. Cardinality(Map) <= mmapPages * DescsPerPage
    <3> DEFINE extra == ScratchPages * DescsPerPage
               room == mmapPages * DescsPerPage
    <3>1. extra \in Nat /\ room \in Nat
      BY <1>2, HandoverAssumption
    <3>2. 2 + 2 * MaxEvents <= extra /\ mmapSize + extra <= room
      BY <2>3 DEF GrowthBound
    <3> HIDE DEF extra, room
    <3>3. Cardinality(Map) <= room
      BY <1>2, <2>2, <3>1, <3>2
    <3> QED
      BY <3>3 DEF room
  <2> QED
    BY <2>1, <2>4 DEF GrowthInv, Sized
<1>10. CASE ExitBootServices \/ JumpKernel
  <2>1. /\ pc \in {"exit", "jump"} /\ pc' \in {"jump", "kernel"}
        /\ UNCHANGED <<mmapSize, mmapPages>>
    BY <1>10 DEF ExitBootServices, JumpKernel, allocVars, mapVars
  <2> QED
    BY <2>1 DEF GrowthInv, Sized
<1> QED
  BY <1>4, <1>5, <1>6, <1>7, <1>8, <1>9, <1>10 DEF Next, Loader

(* Although getMemoryMap may report a larger map than it fills in, the     *)
(* kernel scans no more descriptors than the buffer has room for: the map  *)
(* grows by at most two descriptors for each change, and the extra pages   *)
(* of efi_main.cpp take that up, for every memory and fragmentation.       *)
THEOREM ScanIsBounded ==
    ASSUME GrowthBound
    PROVE  Spec => []ScanStaysInBuffer
<1>1. HandoverInv /\ GrowthInv /\ [Next]_vars => GrowthInv'
  BY GrowthStep
<1>2. GrowthInv => ScanStaysInBuffer
  BY DEF GrowthInv, ScanStaysInBuffer
<1> QED
  BY <1>1, <1>2, GrowthInit, HandoverSafe, PTL DEF Spec
-----------------------------------------------------------------------------
(* What the kernel relies on: the buffer was sized for the map it holds,   *)
(* and every loader-data page belongs to the stack or to the buffer.       *)
MapPages(size) == (size + DescsPerPage - 1) \div DescsPerPage
Reported == pc \in {"alloc map", "fill map", "exit", "jump", "kernel"}
LoaderDataKnown ==
    \A p \in Ram : memType[p] = "loader data" =>
        \/ stackPhys # 0 /\ p \in Pages(stackPhys, StackPages)
        \/ mmapPhys # 0 /\ p \in Pages(mmapPhys, mmapPages)
BufferInv ==
    /\ Sized => mmapPages = BufferPages(mmapSize)
    /\ Reported => 2 + ScratchPages <= mmapPages
    /\ buffer # {} => /\ mmapPhys # 0
                      /\ buffer = MapOf(memType) \/ services
                      /\ mmapSize = Cardinality(buffer)
                      /\ MapPages(mmapSize) + ScratchPages <= mmapPages
    /\ LoaderDataKnown

LEMMA MapPagesMonotone ==
    ASSUME NEW m \in Nat, NEW n \in Nat, m <= n
    PROVE  /\ MapPages(m) \in Nat /\ MapPages(n) \in Nat /\ MapPages(m) <= MapPages(n)
           /\ BufferPages(n) \in Nat
           /\ MapPages(n) + ScratchPages <= BufferPages(n)
           /\ 2 + ScratchPages <= BufferPages(n)
<1> DEFINE D == DescsPerPage
           a == MapPages(m)
           b == MapPages(n)
<1>1. D \in Nat \ {0} /\ ScratchPages \in Nat
  BY HandoverAssumption
<1>2. a \in Nat /\ b \in Nat /\ a <= b
  BY <1>1 DEF MapPages
<1>3. BufferPages(n) = (IF b < 2 THEN 2 ELSE b) + ScratchPages
  BY DEF BufferPages, MapPages
<1> HIDE DEF a, b
<1>4. /\ BufferPages(n) \in Nat /\ b + ScratchPages <= BufferPages(n)
      /\ 2 + ScratchPages <= BufferPages(n)
  BY <1>1, <1>2, <1>3
<1> QED
  BY <1>2, <1>4 DEF a, b

LEMMA BufferInit == Init => BufferInv
  BY DEF Init, BufferInv, Sized, Reported, LoaderDataKnown

(* A step that takes pages for a region the loader records keeps every     *)
(* loader-data page accounted for.                                         *)
LEMMA BufferStep == HandoverInv /\ BufferInv /\ [Next]_vars => BufferInv'
<1> SUFFICES ASSUME HandoverInv, BufferInv, [Next]_vars PROVE BufferInv'
  OBVIOUS
<1>1. TypeOK /\ Progress /\ KeyInv
  BY DEF HandoverInv
<1>2. memType \in [Ram -> Types] /\ Cardinality(Map) \in Nat /\ mmapSize \in Nat
  BY <1>1, MapType DEF TypeOK
<1>3. CASE UNCHANGED vars \/ InKernel
  BY <1>3 DEF InKernel, vars, firmwareVars, allocVars, mapVars, BufferInv, Sized,
     Reported, LoaderDataKnown, Pages
<1>4. CASE FirmwareEvent
  <2>1. services /\ UNCHANGED <<services, pc, allocVars, mapVars>>
    BY <1>4 DEF FirmwareEvent
  <2>2. PICK p \in Ram, t \in {"conventional", "firmware"} :
           memType' = [memType EXCEPT ![p] = t]
    BY <1>4 DEF FirmwareEvent
  <2>3. \A q \in Ram : memType'[q] = "loader data" => memType[q] = "loader data"
    BY <1>2, <2>2
  <2>4. LoaderDataKnown'
    BY <2>1, <2>3 DEF BufferInv, LoaderDataKnown, allocVars, Pages
  <2> QED
    BY <2>1, <2>4 DEF BufferInv, Sized, Reported, allocVars, mapVars
<1>5. CASE AllocKernel
  <2>1. /\ pc = "alloc kernel" /\ pc' = "copy"
        /\ UNCHANGED <<stackPhys, mmapPhys, mmapPages, mapVars>>
        /\ Allocate("loader code", KernelPages, kernelPhys')
    BY <1>5 DEF AllocKernel
  <2>2. \A q \in Ram : memType'[q] = "loader data" => memType[q] = "loader data"
    BY <1>2, <2>1 DEF Allocate
  <2>3. LoaderDataKnown'
    BY <2>1, <2>2 DEF BufferInv, LoaderDataKnown, Pages
  <2>4. buffer' = {}
    BY <1>1, <2>1 DEF Progress, BeforeStack, BeforeMap, BeforeExit, mapVars
  <2> QED
    BY <2>1, <2>3, <2>4 DEF BufferInv, Sized, Reported
<1>6. CASE AllocStack
  <2>1. /\ pc = "alloc stack" /\ pc' = "size map"
        /\ UNCHANGED <<mmapPhys, mmapPages, mapVars>>
        /\ Allocate("loader data", StackPages, stackPhys')
    BY <1>6 DEF AllocStack
  <2>2. stackPhys = 0 /\ buffer' = {}
    BY <1>1, <2>1 DEF Progress, BeforeStack, BeforeMap, BeforeExit, mapVars
  <2>3. LoaderDataKnown'
    <3>1. CASE memType' = memType /\ stackPhys' = 0
      BY <2>1, <2>2, <3>1 DEF BufferInv, LoaderDataKnown, Pages
    <3>2. ASSUME NEW p \in Free(StackPages), stackPhys' = p,
                 memType' = [q \in Ram |-> IF q \in Pages(p, StackPages)
                                           THEN "loader data" ELSE memType[q]]
          PROVE  LoaderDataKnown'
      <4>1. p # 0
        BY HandoverAssumption DEF Free
      <4> QED
        BY <2>1, <2>2, <3>2, <4>1 DEF BufferInv, LoaderDataKnown, Pages
    <3> QED
      BY <2>1, <3>1, <3>2 DEF Allocate
  <2> QED
    BY <2>1, <2>2, <2>3 DEF BufferInv, Sized, Reported
<1>7. CASE SizeMap
  <2>1. /\ pc = "size map" /\ pc' = "alloc map" /\ memType' = memType
        /\ stackPhys' = stackPhys /\ mmapPhys' = mmapPhys /\ buffer' = buffer
        /\ mmapSize' = Cardinality(Map) /\ mmapPages' = BufferPages(mmapSize')
    BY <1>7 DEF SizeMap, GetMemoryMap, firmwareVars
  <2>2. mmapPhys = 0 /\ buffer = {}
    BY <1>1, <2>1 DEF Progress, BeforeStack, BeforeMap, BeforeExit
  <2>3. LoaderDataKnown'
    BY <2>1, <2>2 DEF BufferInv, LoaderDataKnown, Pages
  <2>4. 2 + ScratchPages <= mmapPages'
    <3>1. 2 + ScratchPages <= BufferPages(Cardinality(Map))
      BY <1>2, MapPagesMonotone
    <3> QED
      BY <2>1, <3>1
  <2> QED
    BY <2>1, <2>2, <2>3, <2>4 DEF BufferInv, Sized, Reported
<1>8. CASE AllocMap
  <2>1. /\ pc = "alloc map" /\ pc' = "fill map"
        /\ UNCHANGED <<stackPhys, mmapPages, mapVars>>
        /\ Allocate("loader data", mmapPages, mmapPhys')
    BY <1>8 DEF AllocMap
  <2>2. mmapPhys = 0 /\ buffer' = {}
    BY <1>1, <2>1 DEF Progress, BeforeStack, BeforeMap, BeforeExit, mapVars
  <2>3. LoaderDataKnown'
    <3>1. CASE memType' = memType /\ mmapPhys' = 0
      BY <2>1, <2>2, <3>1 DEF BufferInv, LoaderDataKnown, Pages
    <3>2. ASSUME NEW p \in Free(mmapPages), mmapPhys' = p,
                 memType' = [q \in Ram |-> IF q \in Pages(p, mmapPages)
                                           THEN "loader data" ELSE memType[q]]
          PROVE  LoaderDataKnown'
      <4>1. p # 0
        BY HandoverAssumption DEF Free
      <4> QED
        BY <2>1, <2>2, <3>2, <4>1 DEF BufferInv, LoaderDataKnown, Pages
    <3> QED
      BY <2>1, <3>1, <3>2 DEF Allocate
  <2> QED
    BY <2>1, <2>2, <2>3 DEF BufferInv, Sized, Reported, mapVars
<1>9. CASE FillMap
  <2>1. /\ pc = "fill map" /\ pc' = "exit" /\ memType' = memType /\ services' = services
        /\ UNCHANGED allocVars
        /\ mmapSize' = Cardinality(Map)
        /\ \/ Cardinality(Map) <= mmapSize /\ mmapPhys # 0 /\ buffer' = Map
           \/ buffer' = buffer
    BY <1>9 DEF FillMap, GetMemoryMap, firmwareVars
  <2>2. buffer = {}
    BY <1>1, <2>1 DEF Progress, BeforeStack, BeforeMap, BeforeExit
  <2>3. LoaderDataKnown'
    BY <2>1 DEF BufferInv, LoaderDataKnown, Pages, allocVars
  <2>4. mmapPages = BufferPages(mmapSize) /\ 2 + ScratchPages <= mmapPages
    BY <2>1 DEF BufferInv, Sized, Reported
  <2>5. CASE buffer' = {}
    BY <2>1, <2>3, <2>4, <2>5 DEF BufferInv, Sized, Reported, allocVars
  <2>6. CASE buffer' = Map /\ Cardinality(Map) <= mmapSize /\ mmapPhys # 0
    <3>1. /\ MapPages(Cardinality(Map)) \in Nat /\ MapPages(mmapSize) \in Nat
          /\ MapPages(Cardinality(Map)) <= MapPages(mmapSize)
          /\ MapPages(mmapSize) + ScratchPages <= mmapPages
      BY <1>2, <2>4, <2>6, MapPagesMonotone
    <3>2. mmapPages \in Nat /\ ScratchPages \in Nat
      BY <1>1, HandoverAssumption DEF TypeOK
    <3>3. MapPages(Cardinality(Map)) + ScratchPages <= mmapPages
      BY <3>1, <3>2
    <3>4. buffer' = MapOf(memType')
      BY <2>1, <2>6, MapIsMapOf
    <3> QED
      BY <2>1, <2>3, <2>4, <2>6, <3>3, <3>4 DEF BufferInv, Sized, Reported, allocVars, MapPages
  <2> QED
    BY <2>1, <2>2, <2>5, <2>6
<1>10. CASE CopyKernel
  <2>1. /\ pc' = "alloc stack" /\ UNCHANGED <<firmwareVars, allocVars, mapVars>>
    BY <1>10 DEF CopyKernel
  <2> QED
    BY <2>1 DEF BufferInv, Sized, Reported, LoaderDataKnown, Pages, firmwareVars,
       allocVars, mapVars
<1>11. CASE ExitBootServices
  <2>1. /\ pc = "exit" /\ pc' = "jump" /\ services' = (mapKey # key)
        /\ UNCHANGED <<memType, key, allocVars, mapVars>>
    BY <1>11 DEF ExitBootServices
  <2>2. buffer # {} /\ mapKey = key => buffer = MapOf(memType)
    BY <1>1, MapIsMapOf DEF KeyInv
  <2> QED
    BY <2>1, <2>2 DEF BufferInv, Sized, Reported, LoaderDataKnown, Pages, allocVars, mapVars
<1>12. CASE JumpKernel
  <2>1. /\ pc = "jump" /\ pc' = "kernel" /\ UNCHANGED <<firmwareVars, allocVars, mapVars>>
    BY <1>12 DEF JumpKernel
  <2> QED
    BY <2>1 DEF BufferInv, Sized, Reported, LoaderDataKnown, Pages, firmwareVars,
       allocVars, mapVars
<1> QED
  BY <1>3, <1>4, <1>5, <1>6, <1>7, <1>8, <1>9, <1>10, <1>11, <1>12 DEF Next, Loader
=============================================================================
