-------------------------- MODULE BootChainProofs --------------------------
(***************************************************************************)
(* The chain, for every memory, every fragmentation of it and any number   *)
(* of changes made by the firmware: the record the loader passes is what   *)
(* the theorems about Stage1Paging assume; the tables are built in free    *)
(* memory; the extra pages suffice; without a buffer there are no tables.  *)
(*                                                                         *)
(* The argument: the memory map is cut into maximal runs of pages of one   *)
(* type, so each descriptor is a run, the runs are apart and cover memory. *)
(* After the jump the loader's variables and, if boot services ended, the  *)
(* memory map stay as they are, and the record is a function of them; what *)
(* the kernel's scan and allocator do is then followed against the map.    *)
(***************************************************************************)
EXTENDS BootChain, UefiHandoverProofs, WellFoundedInduction

(* Induction over the naturals: a set that is not empty has a least        *)
(* element.                                                                *)
LEMMA LeastNat ==
    ASSUME NEW T, T \subseteq Nat, T # {}
    PROVE  \E x \in T : \A y \in T : x <= y
<1> DEFINE R == OpToRel(<, Nat)
<1>1. IsWellFoundedOn(R, Nat)
  BY NatLessThanWellFounded
<1>2. \E x \in T : \A y \in T : ~(<<y, x>> \in R)
  <2> HIDE DEF R
  <2> QED
    BY <1>1, WFMin
<1>3. PICK x \in T : \A y \in T : ~(<<y, x>> \in R)
  BY <1>2
<1>4. ASSUME NEW y \in T PROVE x <= y
  <2>1. x \in Nat /\ y \in Nat
    OBVIOUS
  <2>2. <<y, x>> \in Nat \X Nat /\ ~(<<y, x>> \in R)
    BY <2>1, <1>3
  <2>3. ~(y < x)
    BY <2>2 DEF OpToRel
  <2> QED
    BY <2>1, <2>3
<1> QED
  BY <1>4

(* A run of the map is an interval of pages, as long as it says.           *)
LEMMA RunIsInterval ==
    ASSUME NEW types \in [Ram -> Types], NEW p \in Ram
    PROVE  /\ Cardinality(RunOf(types, p)) \in Nat \ {0}
           /\ RunOf(types, p) = Pages(p, Cardinality(RunOf(types, p)))
<1> DEFINE Run == RunOf(types, p)
           Out == {q \in Nat : q >= p /\ q \notin Run}
<1>1. p \in Nat /\ Run \subseteq Ram /\ \A q \in Run : q \in Nat /\ q >= p
  BY HandoverAssumption DEF RunOf
<1>2. IsFiniteSet(Run) /\ Cardinality(Ram) \in Nat /\ IsFiniteSet(Ram)
  BY <1>1, FS_Subset, FS_CardinalityType, HandoverAssumption
<1>3. Out # {}
  <2> DEFINE c == Cardinality(Ram)
  <2> HIDE DEF c
  <2>1. c \in Nat
    BY <1>2 DEF c
  <2>2. SUFFICES ASSUME Out = {} PROVE FALSE
    OBVIOUS
  <2>3. p .. p + c \subseteq Ram
    BY <1>1, <2>1, <2>2
  <2>4. Cardinality(p .. p + c) = c + 1
    BY <1>1, <2>1, FS_Interval
  <2>5. Cardinality(p .. p + c) <= c
    BY <2>3, <1>2, FS_Subset DEF c
  <2> QED
    BY <2>1, <2>4, <2>5
<1>4. PICK e \in Out : \A y \in Out : e <= y
  BY <1>3, LeastNat
<1>5. p \in Run
  BY <1>1 DEF RunOf, Pages
<1>6. e \in Nat /\ e > p
  BY <1>1, <1>4, <1>5
<1>7. \A q \in p .. e - 1 : q \in Run
  BY <1>1, <1>4, <1>6
<1>8. ASSUME NEW q \in Run, q >= e PROVE FALSE
  <2>1. q \in Nat /\ \A r \in p .. q : r \in Ram /\ types[r] = types[p]
    BY <1>1, <1>8 DEF RunOf, Pages
  <2>2. e \in Ram /\ \A r \in p .. e : r \in Ram /\ types[r] = types[p]
    BY <2>1, <1>1, <1>6, <1>8
  <2>3. e \in Run
    BY <2>2, <1>1, <1>6 DEF RunOf, Pages
  <2> QED
    BY <2>3, <1>4
<1>9. Run = p .. e - 1
  <2> HIDE DEF Run
  <2>1. \A q \in Run : q \in p .. e - 1
    BY <1>1, <1>6, <1>8
  <2> QED
    BY <2>1, <1>7
<1>10. Cardinality(Run) = e - p
  BY <1>1, <1>6, <1>9, FS_Interval
<1>11. Run = Pages(p, e - p)
  BY <1>1, <1>6, <1>9 DEF Pages
<1> QED
  BY <1>6, <1>1, <1>10, <1>11

(* A descriptor of the map: pages of memory, all of the type it says.      *)
LEMMA DescriptorPages ==
    ASSUME NEW types \in [Ram -> Types], NEW d \in MapOf(types)
    PROVE  /\ d.start \in Ram /\ d.start \in Nat /\ d.pages \in Nat \ {0}
           /\ d.start \in StartsOf(types)
           /\ d.type = types[d.start]
           /\ Pages(d.start, d.pages) = RunOf(types, d.start)
           /\ \A q \in Pages(d.start, d.pages) : q \in Ram /\ types[q] = d.type
           /\ d = [type |-> d.type, start |-> d.start, pages |-> d.pages]
<1>1. PICK p \in StartsOf(types) :
         d = [type |-> types[p], start |-> p, pages |-> Cardinality(RunOf(types, p))]
  BY DEF MapOf
<1>2. p \in Ram /\ p \in Nat
  BY HandoverAssumption DEF StartsOf
<1>3. /\ Cardinality(RunOf(types, p)) \in Nat \ {0}
      /\ RunOf(types, p) = Pages(p, Cardinality(RunOf(types, p)))
  BY <1>2, RunIsInterval
<1>4. \A q \in RunOf(types, p) : q \in Ram /\ types[q] = types[p]
  <2> SUFFICES ASSUME NEW q \in RunOf(types, p) PROVE q \in Ram /\ types[q] = types[p]
    OBVIOUS
  <2>1. q \in Ram /\ q >= p /\ \A r \in Pages(p, q - p + 1) : r \in Ram /\ types[r] = types[p]
    BY DEF RunOf
  <2>2. q \in Nat
    BY <2>1, HandoverAssumption
  <2>3. q \in Pages(p, q - p + 1)
    BY <2>1, <2>2, <1>2 DEF Pages
  <2> QED
    BY <2>1, <2>3
<1> QED
  BY <1>1, <1>2, <1>3, <1>4

(* The descriptors of a map do not overlap, and no two start alike.        *)
LEMMA DescriptorsApart ==
    ASSUME NEW types \in [Ram -> Types],
           NEW d \in MapOf(types), NEW e \in MapOf(types), d # e
    PROVE  /\ d.start # e.start
           /\ Pages(d.start, d.pages) \cap Pages(e.start, e.pages) = {}
<1>1. /\ d.start \in Nat /\ e.start \in Nat
      /\ d.start \in StartsOf(types) /\ e.start \in StartsOf(types)
      /\ Pages(d.start, d.pages) = RunOf(types, d.start)
      /\ Pages(e.start, e.pages) = RunOf(types, e.start)
  BY DescriptorPages
<1>2. d.start # e.start
  BY DEF MapOf
<1>3. ASSUME NEW a \in StartsOf(types), NEW b \in StartsOf(types), a \in Nat, b \in Nat, a < b,
             NEW q \in RunOf(types, a), q \in RunOf(types, b)
      PROVE  FALSE
  <2>1. q \in Nat /\ q >= b /\ \A r \in a .. q : r \in Ram /\ types[r] = types[a]
    BY <1>3, HandoverAssumption DEF RunOf, Pages
  <2>2. b - 1 \in a .. q /\ b \in a .. q
    BY <1>3, <2>1
  <2>3. b - 1 \in Ram /\ types[b - 1] = types[b]
    BY <2>1, <2>2
  <2> QED
    BY <2>3 DEF StartsOf
<1>4. d.start < e.start \/ e.start < d.start
  BY <1>1, <1>2
<1> QED
  BY <1>1, <1>2, <1>3, <1>4

(* Every page of memory is in a descriptor.                                *)
LEMMA MapCovers ==
    ASSUME NEW types \in [Ram -> Types], NEW p \in Ram
    PROVE  \E d \in MapOf(types) : p \in Pages(d.start, d.pages)
<1> DEFINE T == {s \in Nat : s <= p /\ \A r \in s .. p : r \in Ram /\ types[r] = types[p]}
<1>1. p \in Nat
  BY HandoverAssumption
<1>2. p \in T
  BY <1>1
<1>3. PICK s \in T : \A t \in T : s <= t
  BY <1>2, LeastNat
<1>4. /\ s \in Nat /\ s <= p /\ s \in Ram /\ types[s] = types[p]
      /\ \A r \in s .. p : r \in Ram /\ types[r] = types[p]
  BY <1>1, <1>3
<1>5. s \in StartsOf(types)
  <2> SUFFICES ASSUME s - 1 \in Ram, types[s - 1] = types[s] PROVE FALSE
    BY <1>4 DEF StartsOf
  <2>1. s - 1 \in Nat
    BY HandoverAssumption
  <2>2. \A r \in s - 1 .. p : r = s - 1 \/ r \in s .. p
    BY <1>1, <1>4, <2>1
  <2>3. s - 1 \in T
    BY <1>1, <1>4, <2>1, <2>2
  <2> QED
    BY <1>3, <1>4, <2>3
<1> DEFINE d == [type |-> types[s], start |-> s, pages |-> Cardinality(RunOf(types, s))]
<1>6. d \in MapOf(types)
  BY <1>5 DEF MapOf
<1>7. p \in RunOf(types, s)
  BY <1>1, <1>4 DEF RunOf, Pages
<1>8. Pages(d.start, d.pages) = RunOf(types, d.start) /\ d.start = s
  <2> HIDE DEF d
  <2>1. Pages(d.start, d.pages) = RunOf(types, d.start)
    BY <1>6, DescriptorPages
  <2>2. d.start = s
    BY DEF d
  <2> QED
    BY <2>1, <2>2
<1> QED
  BY <1>6, <1>7, <1>8
-----------------------------------------------------------------------------
(* The descriptors in address order: the rank of a descriptor is how many  *)
(* start below it, and each rank from 0 to Cardinality(buffer) - 1 is met  *)
(* by exactly one.                                                         *)
Below(d) == {e \in buffer : e.start < d.start}

(* Nth numbers the descriptors of a map, each once, in address order.      *)
LEMMA NthDescriptor ==
    ASSUME NEW types \in [Ram -> Types], buffer = MapOf(types)
    PROVE  /\ IsFiniteSet(buffer) /\ Cardinality(buffer) \in Nat
           /\ \A n \in 1..Cardinality(buffer) :
                 Nth(n) \in buffer /\ Cardinality(Below(Nth(n))) = n - 1
           /\ \A d \in buffer : \E n \in 1..Cardinality(buffer) : Nth(n) = d
<1> DEFINE N == Cardinality(buffer)
           rank == [d \in buffer |-> Cardinality(Below(d))]
<1>1. /\ \A d \in buffer : d.start \in Nat
      /\ \A d, e \in buffer : d # e => d.start # e.start
  BY DescriptorPages, DescriptorsApart
<1>2. IsFiniteSet(buffer) /\ N \in Nat
  <2> DEFINE f == [p \in StartsOf(types) |-> [type |-> types[p], start |-> p,
                                              pages |-> Cardinality(RunOf(types, p))]]
  <2>1. f \in Surjection(StartsOf(types), buffer)
    BY DEF MapOf, Surjection
  <2>2. IsFiniteSet(StartsOf(types))
    BY MapCountsStarts
  <2> HIDE DEF f
  <2>3. IsFiniteSet(buffer)
    BY <2>1, <2>2, FS_Surjection
  <2> QED
    BY <2>3, FS_CardinalityType
<1>3. \A d \in buffer : /\ IsFiniteSet(Below(d)) /\ Cardinality(Below(d)) \in Nat
                        /\ Cardinality(Below(d)) < N
  <2> SUFFICES ASSUME NEW d \in buffer
               PROVE  /\ IsFiniteSet(Below(d)) /\ Cardinality(Below(d)) \in Nat
                      /\ Cardinality(Below(d)) < N
    OBVIOUS
  <2>1. Below(d) \subseteq buffer /\ d \notin Below(d)
    BY <1>1 DEF Below
  <2>2. IsFiniteSet(Below(d)) /\ Cardinality(Below(d)) \in Nat /\ Cardinality(Below(d)) <= N
    BY <1>2, <2>1, FS_Subset, FS_CardinalityType
  <2>3. Cardinality(Below(d)) # N
    BY <1>2, <2>1, FS_Subset
  <2> QED
    BY <1>2, <2>2, <2>3
<1>4. \A d, e \in buffer : d.start < e.start => Cardinality(Below(d)) < Cardinality(Below(e))
  <2> SUFFICES ASSUME NEW d \in buffer, NEW e \in buffer, d.start < e.start
               PROVE  Cardinality(Below(d)) < Cardinality(Below(e))
    OBVIOUS
  <2>1. Below(d) \subseteq Below(e) /\ d \in Below(e) /\ d \notin Below(d)
    BY <1>1 DEF Below
  <2>2. Cardinality(Below(d)) <= Cardinality(Below(e))
    BY <1>3, <2>1, FS_Subset
  <2>3. Cardinality(Below(d)) # Cardinality(Below(e))
    BY <1>3, <2>1, FS_Subset
  <2> QED
    BY <1>3, <2>2, <2>3
<1>5. \A d, e \in buffer : Cardinality(Below(d)) = Cardinality(Below(e)) => d = e
  <2> SUFFICES ASSUME NEW d \in buffer, NEW e \in buffer, d # e
               PROVE  Cardinality(Below(d)) # Cardinality(Below(e))
    OBVIOUS
  <2>1. d.start < e.start \/ e.start < d.start
    BY <1>1
  <2> QED
    BY <2>1, <1>3, <1>4
<1>6. rank \in [buffer -> 0..N - 1]
  BY <1>2, <1>3
<1>7. rank \in Injection(buffer, 0..N - 1)
  <2>1. \A d, e \in buffer : rank[d] = rank[e] => d = e
    BY <1>5
  <2> HIDE DEF rank
  <2> QED
    BY <2>1, <1>6 DEF Injection, IsInjective
<1>8. IsFiniteSet(0..N - 1) /\ Cardinality(0..N - 1) = N
  <2> DEFINE last == N - 1
  <2>1. N \in Nat
    BY <1>2
  <2> HIDE DEF N
  <2>2. last \in Int /\ (0 > last <=> N = 0) /\ (last - 0) + 1 = N
    BY <2>1
  <2> HIDE DEF last
  <2>3. IsFiniteSet(0..last) /\ Cardinality(0..last) = IF 0 > last THEN 0 ELSE (last - 0) + 1
    BY <2>2, FS_Interval
  <2>4. IsFiniteSet(0..last) /\ Cardinality(0..last) = N
    BY <2>2, <2>3
  <2> QED
    BY <2>4 DEF last
<1>9. rank \in Surjection(buffer, 0..N - 1)
  <2> HIDE DEF rank, N
  <2> QED
    BY <1>7, <1>8, FS_Injection DEF N
<1>10. \A n \in 1..N : \E d \in buffer : Cardinality(Below(d)) = n - 1
  <2> SUFFICES ASSUME NEW n \in 1..N PROVE \E d \in buffer : Cardinality(Below(d)) = n - 1
    OBVIOUS
  <2>1. n - 1 \in 0..N - 1
    BY <1>2
  <2>2. \E d \in buffer : rank[d] = n - 1
    <3> HIDE DEF rank
    <3> QED
      BY <1>9, <2>1 DEF Surjection
  <2> QED
    BY <2>2
<1>11. \A n \in 1..N : Nth(n) \in buffer /\ Cardinality(Below(Nth(n))) = n - 1
  <2> SUFFICES ASSUME NEW n \in 1..N
               PROVE  Nth(n) \in buffer /\ Cardinality(Below(Nth(n))) = n - 1
    OBVIOUS
  <2>1. Nth(n) = CHOOSE d \in buffer : Cardinality(Below(d)) = n - 1
    BY DEF Nth, Below
  <2> QED
    BY <2>1, <1>10
<1>12. \A d \in buffer : \E n \in 1..N : Nth(n) = d
  <2> SUFFICES ASSUME NEW d \in buffer PROVE \E n \in 1..N : Nth(n) = d
    OBVIOUS
  <2> DEFINE n == Cardinality(Below(d)) + 1
  <2>1. n \in 1..N
    BY <1>2, <1>3
  <2>2. Nth(n) \in buffer /\ Cardinality(Below(Nth(n))) = Cardinality(Below(d))
    BY <2>1, <1>3, <1>11
  <2>3. Nth(n) = d
    BY <2>2, <1>5
  <2> QED
    BY <2>1, <2>3
<1> QED
  BY <1>2, <1>11, <1>12
-----------------------------------------------------------------------------
(* The record of the jump, when the buffer was filled and all was          *)
(* allocated.                                                              *)
LEMMA RecordFields ==
    ASSUME NEW junk
    PROVE  /\ Passed(junk).kernelPhys = kernelPhys /\ Passed(junk).kernelPages = KernelPages
           /\ Passed(junk).stackPhys = stackPhys /\ Passed(junk).mmapPhys = mmapPhys
           /\ Passed(junk).mmapPages = MapPages(mmapSize)
           /\ Passed(junk).descs = [n \in 1..mmapSize |-> IF Filled THEN Nth(n) ELSE junk]
  BY DEF Passed, MapPages

Good == Accepted /\ Filled /\ AllAllocated

(* What the descriptors are that a kernel reads after an accepted exit.    *)
LEMMA FinalMap ==
    ASSUME HandoverInv, BufferInv, Good
    PROVE  /\ memType \in [Ram -> Types] /\ buffer = MapOf(memType)
           /\ mmapSize = Cardinality(buffer) /\ mmapSize \in Nat /\ mmapSize > 0
           /\ \A n \in 1..mmapSize : Nth(n) \in buffer
           /\ \A m, n \in 1..mmapSize : m # n => Nth(m) # Nth(n)
           /\ \A d \in buffer : \E n \in 1..mmapSize : Nth(n) = d
<1>1. /\ memType \in [Ram -> Types] /\ buffer = MapOf(memType) /\ buffer # {}
      /\ mmapSize = Cardinality(buffer)
  BY DEF HandoverInv, TypeOK, BufferInv, Good, Accepted, Filled
<1>2. /\ IsFiniteSet(buffer) /\ Cardinality(buffer) \in Nat
      /\ \A n \in 1..Cardinality(buffer) :
            Nth(n) \in buffer /\ Cardinality(Below(Nth(n))) = n - 1
      /\ \A d \in buffer : \E n \in 1..Cardinality(buffer) : Nth(n) = d
  BY <1>1, NthDescriptor
<1>3. mmapSize > 0
  BY <1>1, <1>2, FS_EmptySet
<1>4. \A m, n \in 1..mmapSize : m # n => Nth(m) # Nth(n)
  <2> SUFFICES ASSUME NEW m \in 1..mmapSize, NEW n \in 1..mmapSize, Nth(m) = Nth(n)
               PROVE  m = n
    OBVIOUS
  <2>1. m - 1 = n - 1
    BY <1>1, <1>2
  <2> QED
    BY <1>1, <1>2, <2>1
<1> QED
  BY <1>1, <1>2, <1>3, <1>4

(* Where the three regions are, and what types their pages have, after an  *)
(* accepted exit.                                                          *)
LEMMA RegionFacts ==
    ASSUME HandoverInv, BufferInv, Good
    PROVE  /\ kernelPhys \in Ram /\ stackPhys \in Ram /\ mmapPhys \in Ram
           /\ \A p \in Pages(kernelPhys, KernelPages) : p \in Ram /\ memType[p] = "loader code"
           /\ \A p \in Pages(stackPhys, StackPages) : p \in Ram /\ memType[p] = "loader data"
           /\ \A p \in Pages(mmapPhys, mmapPages) : p \in Ram /\ memType[p] = "loader data"
           /\ Pages(stackPhys, StackPages) \cap Pages(mmapPhys, mmapPages) = {}
           /\ mmapPages \in Nat /\ MapPages(mmapSize) \in Nat /\ MapPages(mmapSize) > 0
           /\ MapPages(mmapSize) + ScratchPages <= mmapPages
           /\ 2 + ScratchPages <= mmapPages \/ ~Reported
<1>1. kernelPhys # 0 /\ stackPhys # 0 /\ mmapPhys # 0
  BY DEF Good, AllAllocated
<1>2. {kernelPhys, stackPhys, mmapPhys} \subseteq Ram \cup {0} /\ mmapPages \in Nat
  BY DEF HandoverInv, TypeOK
<1>3. RegionInv
  BY DEF HandoverInv
<1>4. MapPages(mmapSize) + ScratchPages <= mmapPages
  BY DEF BufferInv, Good, Filled
<1>5. MapPages(mmapSize) \in Nat /\ MapPages(mmapSize) > 0
  <2>1. mmapSize \in Nat /\ mmapSize > 0 /\ DescsPerPage \in Nat \ {0}
    BY FinalMap, HandoverAssumption
  <2> QED
    BY <2>1 DEF MapPages
<1>6. Reported => 2 + ScratchPages <= mmapPages
  BY DEF BufferInv
<1> QED
  BY <1>1, <1>2, <1>3, <1>4, <1>5, <1>6 DEF RegionInv, Holds

(* The addresses behind the buffer go on as far as the headroom.           *)
LEMMA HeadroomInFrames ==
    ASSUME HandoverInv, BufferInv, Good
    PROVE  K!Pages(mmapPhys, MapPages(mmapSize) + HeadroomPages) \subseteq Frames
<1> DEFINE last == mmapPhys + mmapPages - 1
<1>1. /\ mmapPhys \in Nat /\ mmapPages \in Nat /\ MapPages(mmapSize) \in Nat
      /\ MapPages(mmapSize) > 0 /\ HeadroomPages \in Nat /\ ScratchPages \in Nat
      /\ MapPages(mmapSize) + ScratchPages <= mmapPages
      /\ \A p \in Pages(mmapPhys, mmapPages) : p \in Ram
  BY RegionFacts, ChainAssumption, HandoverAssumption
<1>2. last \in Ram
  BY <1>1 DEF Pages
<1>3. Pages(last, HeadroomPages + 1) \subseteq Frames /\ Ram \subseteq Frames
  BY <1>2, ChainAssumption
<1>4. ASSUME NEW q \in K!Pages(mmapPhys, MapPages(mmapSize) + HeadroomPages)
      PROVE  q \in Pages(mmapPhys, mmapPages) \/ q \in Pages(last, HeadroomPages + 1)
  BY <1>1, <1>4 DEF K!Pages, Pages
<1> QED
  BY <1>1, <1>3, <1>4

(* The record passed after an accepted exit with a buffer filled.          *)
LEMMA RecordIsOK ==
    ASSUME HandoverInv, BufferInv, Good, NEW junk, boot = Passed(junk)
    PROVE  /\ K!BootOK(boot)
           /\ K!KernelSpan(boot) \cap K!StackSpan(boot) = {}
           /\ Pages(mmapPhys, boot.mmapPages) \cap
                 (K!KernelSpan(boot) \cup K!StackSpan(boot)) = {}
<1>1. /\ boot.kernelPhys = kernelPhys /\ boot.kernelPages = KernelPages
      /\ boot.stackPhys = stackPhys /\ boot.mmapPhys = mmapPhys
      /\ boot.mmapPages = MapPages(mmapSize)
      /\ boot.descs = [n \in 1..mmapSize |-> Nth(n)]
  BY RecordFields DEF Good
<1>2. /\ kernelPhys \in Ram /\ stackPhys \in Ram /\ mmapPhys \in Ram
      /\ \A p \in Pages(kernelPhys, KernelPages) : p \in Ram /\ memType[p] = "loader code"
      /\ \A p \in Pages(stackPhys, StackPages) : p \in Ram /\ memType[p] = "loader data"
      /\ \A p \in Pages(mmapPhys, mmapPages) : p \in Ram /\ memType[p] = "loader data"
      /\ Pages(stackPhys, StackPages) \cap Pages(mmapPhys, mmapPages) = {}
      /\ mmapPages \in Nat /\ MapPages(mmapSize) \in Nat /\ MapPages(mmapSize) > 0
      /\ MapPages(mmapSize) + ScratchPages <= mmapPages
  BY RegionFacts
<1>3. /\ K!KernelSpan(boot) = Pages(kernelPhys, KernelPages)
      /\ K!StackSpan(boot) = Pages(stackPhys, StackPages)
  BY <1>1 DEF K!KernelSpan, K!StackSpan, K!Pages, Pages
<1>4. Ram \subseteq Frames /\ 0 \notin Ram /\ \A p \in Ram : p \in Nat /\ p < K!UPPER_HALF
  BY ChainAssumption, HandoverAssumption
<1>5. /\ memType \in [Ram -> Types] /\ buffer = MapOf(memType) /\ mmapSize \in Nat
      /\ \A n \in 1..mmapSize : Nth(n) \in buffer
      /\ \A m, n \in 1..mmapSize : m # n => Nth(m) # Nth(n)
  BY FinalMap
<1>6. \A n \in 1..mmapSize : /\ Nth(n) \in K!Descriptors
                             /\ K!Pages(Nth(n).start, Nth(n).pages) \subseteq Frames
  <2> SUFFICES ASSUME NEW n \in 1..mmapSize
               PROVE  /\ Nth(n) \in K!Descriptors
                      /\ K!Pages(Nth(n).start, Nth(n).pages) \subseteq Frames
    OBVIOUS
  <2> DEFINE d == Nth(n)
  <2>1. d \in MapOf(memType)
    BY <1>5
  <2> HIDE DEF d
  <2>2. /\ d.start \in Ram /\ d.pages \in Nat /\ d.type = memType[d.start]
        /\ \A q \in Pages(d.start, d.pages) : q \in Ram
        /\ d = [type |-> d.type, start |-> d.start, pages |-> d.pages]
    BY <2>1, <1>5, DescriptorPages
  <2>3. d.type \in K!MemoryTypes
    <3>1. memType[d.start] \in Types
      BY <2>2, <1>5
    <3>2. Types \subseteq K!MemoryTypes
      BY DEF Types, K!MemoryTypes, K!LoaderData, K!Conventional
    <3> QED
      BY <2>2, <3>1, <3>2
  <2>4. d \in K!Descriptors
    BY <2>2, <2>3, <1>4 DEF K!Descriptors
  <2>5. K!Pages(d.start, d.pages) \subseteq Frames
    BY <2>2, <1>4 DEF K!Pages, Pages
  <2> QED
    BY <2>4, <2>5 DEF d
<1>7. \A m, n \in 1..mmapSize : m # n =>
         K!Pages(Nth(m).start, Nth(m).pages) \cap K!Pages(Nth(n).start, Nth(n).pages) = {}
  <2> SUFFICES ASSUME NEW m \in 1..mmapSize, NEW n \in 1..mmapSize, m # n
               PROVE  K!Pages(Nth(m).start, Nth(m).pages)
                          \cap K!Pages(Nth(n).start, Nth(n).pages) = {}
    OBVIOUS
  <2>1. Pages(Nth(m).start, Nth(m).pages) \cap Pages(Nth(n).start, Nth(n).pages) = {}
    BY <1>5, DescriptorsApart
  <2> QED
    BY <2>1 DEF K!Pages, Pages
<1>8. boot.descs \in Seq(K!Descriptors) /\ DOMAIN boot.descs = 1..mmapSize
      /\ \A n \in 1..mmapSize : boot.descs[n] = Nth(n)
  BY <1>1, <1>5, <1>6
<1>9. boot \in [kernelPhys : Frames \ {0}, kernelPages : Nat \ {0},
                stackPhys : Frames \ {0}, mmapPhys : Frames \ {0},
                mmapPages : Nat, descs : Seq(K!Descriptors)]
  <2>1. boot = [kernelPhys |-> kernelPhys, kernelPages |-> KernelPages,
                stackPhys |-> stackPhys, mmapPhys |-> mmapPhys,
                mmapPages |-> MapPages(mmapSize), descs |-> boot.descs]
    BY DEF Passed, MapPages
  <2>2. KernelPages \in Nat \ {0}
    BY HandoverAssumption
  <2>3. /\ kernelPhys \in Frames \ {0} /\ stackPhys \in Frames \ {0}
        /\ mmapPhys \in Frames \ {0} /\ MapPages(mmapSize) \in Nat
    BY <1>2, <1>4
  <2> DEFINE pages == MapPages(mmapSize)
             descs == boot.descs
  <2>4. pages \in Nat /\ descs \in Seq(K!Descriptors)
    BY <2>3, <1>8
  <2>5. boot = [kernelPhys |-> kernelPhys, kernelPages |-> KernelPages,
                stackPhys |-> stackPhys, mmapPhys |-> mmapPhys,
                mmapPages |-> pages, descs |-> descs]
    BY <2>1
  <2> HIDE DEF pages, descs
  <2> QED
    BY <2>2, <2>3, <2>4, <2>5
<1>10. K!KernelSpan(boot) \subseteq Frames /\ K!StackSpan(boot) \subseteq Frames
  BY <1>2, <1>3, <1>4
<1>11. \A n \in DOMAIN boot.descs :
          K!Pages(boot.descs[n].start, boot.descs[n].pages) \subseteq Frames
  BY <1>6, <1>8
<1>12. \A p \in K!KernelSpan(boot) \cup K!StackSpan(boot) \cup {boot.mmapPhys} :
          p < K!UPPER_HALF
  <2>1. K!KernelSpan(boot) \subseteq Ram /\ K!StackSpan(boot) \subseteq Ram
    BY <1>2, <1>3
  <2>2. boot.mmapPhys \in Ram
    BY <1>1, <1>2
  <2>3. \A p \in Ram : p < K!UPPER_HALF
    BY <1>4
  <2> QED
    BY <2>1, <2>2, <2>3
<1>13. boot.mmapPages > 0
  BY <1>1, <1>2
<1>14. \A m, n \in DOMAIN boot.descs : m # n =>
          K!Pages(boot.descs[m].start, boot.descs[m].pages)
              \cap K!Pages(boot.descs[n].start, boot.descs[n].pages) = {}
  <2> SUFFICES ASSUME NEW m \in DOMAIN boot.descs, NEW n \in DOMAIN boot.descs, m # n
               PROVE  K!Pages(boot.descs[m].start, boot.descs[m].pages)
                          \cap K!Pages(boot.descs[n].start, boot.descs[n].pages) = {}
    OBVIOUS
  <2>1. m \in 1..mmapSize /\ n \in 1..mmapSize
        /\ boot.descs[m] = Nth(m) /\ boot.descs[n] = Nth(n)
    BY <1>8
  <2>2. K!Pages(Nth(m).start, Nth(m).pages) \cap K!Pages(Nth(n).start, Nth(n).pages) = {}
    BY <2>1, <1>7
  <2> QED
    BY <2>1, <2>2
<1>15. K!Pages(boot.mmapPhys, boot.mmapPages + HeadroomPages) \subseteq Frames
  BY <1>1, HeadroomInFrames
<1>16. K!BootOK(boot)
  BY <1>9, <1>10, <1>11, <1>12, <1>13, <1>14, <1>15 DEF K!BootOK
<1>17. K!KernelSpan(boot) \cap K!StackSpan(boot) = {}
  <2> HIDE DEF Pages
  <2> QED
    BY <1>2, <1>3
<1>18. Pages(mmapPhys, boot.mmapPages) \subseteq Pages(mmapPhys, mmapPages)
  <2>1. ScratchPages \in Nat /\ mmapPhys \in Nat
    BY <1>2, <1>4, HandoverAssumption
  <2> DEFINE size == MapPages(mmapSize)
  <2>2. size \in Nat /\ mmapPages \in Nat /\ size + ScratchPages <= mmapPages
    BY <1>2
  <2> HIDE DEF size
  <2>3. size <= mmapPages
    BY <2>1, <2>2
  <2>4. Pages(mmapPhys, size) \subseteq Pages(mmapPhys, mmapPages)
    BY <2>1, <2>2, <2>3 DEF Pages
  <2> QED
    BY <1>1, <2>4 DEF size
<1>19. Pages(mmapPhys, mmapPages) \cap (K!KernelSpan(boot) \cup K!StackSpan(boot)) = {}
  <2> HIDE DEF Pages
  <2> QED
    BY <1>2, <1>3
<1> QED
  BY <1>16, <1>17, <1>18, <1>19
-----------------------------------------------------------------------------
(* The two programs take turns: the loader moves until the jump, the       *)
(* kernel after it, and what was passed stays as it was.                   *)
Entered == kpc # "idle"
Turns ==
    /\ Entered <=> pc = "kernel"
    /\ Entered => \E junk \in Garbage : boot = Passed(junk)
ChainBase == HandoverInv /\ BufferInv /\ Turns

(* The kernel does not change its parameters.                              *)
LEMMA KernelKeepsBoot ==
    ASSUME K!Next
    PROVE  boot' = boot /\ (Entered => Entered')
  BY DEF K!Next, K!RejectMap, K!AcceptMap, K!ScanDescriptor, K!EndScan, K!ScratchSkip,
     K!ScratchTake, K!FallbackSkip, K!FallbackTake, K!FallbackNextRange, K!NothingLeft,
     K!OutOfPages, K!LinkRoot, K!LinkTable, K!StartRequest, K!Descend, K!NeedTable,
     K!SetPte, K!SwitchCr3, K!TouchLoad, K!TouchFlip, K!TouchRestore, K!Stopped,
     K!Fail, K!HandOut, K!vars, Entered

(* Every step of the chain is one of the hand-over, or changes none of its *)
(* variables.                                                              *)
LEMMA ChainIsHandover == [ChainNext]_chainVars => [Next]_vars
<1> SUFFICES ASSUME [ChainNext]_chainVars PROVE [Next]_vars
  OBVIOUS
<1> USE DEF Next
<1>1. LoaderStep => Loader
  BY DEF LoaderStep
<1>2. EnterKernel => Loader
  BY DEF EnterKernel, Loader
<1>3. FirmwareStep => FirmwareEvent
  BY DEF FirmwareStep
<1>4. KernelStep \/ FirmwareInterrupt \/ Crashed \/ UNCHANGED chainVars => UNCHANGED vars
  BY DEF KernelStep, FirmwareInterrupt, Crashed, chainVars
<1> QED
  BY <1>1, <1>2, <1>3, <1>4 DEF ChainNext

(* Once the kernel runs, the loader's variables stay as they are; so does  *)
(* the memory map, if boot services have ended.                            *)
LEMMA EnteredFreezes ==
    ASSUME Turns, Entered, [ChainNext]_chainVars
    PROVE  /\ UNCHANGED <<services, pc, allocVars, mapVars>>
           /\ ~services => memType' = memType
           /\ Entered' /\ boot' = boot
           /\ KernelStep \/ UNCHANGED kernelVars
<1>1. pc = "kernel"
  BY DEF Turns
<1>2. ~LoaderStep /\ ~EnterKernel
  BY <1>1 DEF LoaderStep, Loader, AllocKernel, CopyKernel, AllocStack, SizeMap, AllocMap,
     FillMap, ExitBootServices, JumpKernel, EnterKernel
<1>3. CASE KernelStep
  <2>1. K!Next /\ UNCHANGED vars
    BY <1>3 DEF KernelStep
  <2> QED
    BY <1>3, <2>1, KernelKeepsBoot DEF vars, firmwareVars
<1>4. CASE FirmwareStep
  BY <1>4 DEF FirmwareStep, FirmwareEvent, kernelVars, Entered
<1>5. CASE FirmwareInterrupt \/ Crashed \/ UNCHANGED chainVars
  BY <1>5 DEF FirmwareInterrupt, Crashed, chainVars, vars, firmwareVars, kernelVars, Entered
<1> QED
  BY <1>2, <1>3, <1>4, <1>5 DEF ChainNext

(* The record depends on nothing that changes after the jump.              *)
LEMMA PassedKept ==
    ASSUME UNCHANGED <<allocVars, mapVars>>
    PROVE  \A junk : Passed(junk)' = Passed(junk)
  BY DEF allocVars, mapVars, Passed, Filled, Nth

(* At the start the kernel has not been entered.                           *)
LEMMA ChainBaseInit == ChainInit => ChainBase
  BY HandoverInit, BufferInit DEF ChainInit, Init, ChainBase, Turns, Entered

(* Every step of the chain keeps the hand-over's invariants and the turns. *)
LEMMA ChainBaseStep == ChainBase /\ [ChainNext]_chainVars => ChainBase'
<1> SUFFICES ASSUME ChainBase, [ChainNext]_chainVars PROVE ChainBase'
  OBVIOUS
<1>1. HandoverInv' /\ BufferInv'
  BY ChainIsHandover, HandoverStep, BufferStep DEF ChainBase
<1>2. Turns'
  <2>1. CASE Entered
    <3>1. UNCHANGED <<services, pc, allocVars, mapVars>> /\ Entered' /\ boot' = boot
      BY <2>1, EnteredFreezes DEF ChainBase
    <3>2. PICK junk \in Garbage : boot = Passed(junk)
      BY <2>1 DEF ChainBase, Turns
    <3>3. boot' = Passed(junk)'
      BY <3>1, <3>2, PassedKept
    <3> QED
      BY <2>1, <3>1, <3>2, <3>3 DEF ChainBase, Turns
  <2>2. CASE ~Entered
    <3>1. pc # "kernel"
      BY <2>2 DEF ChainBase, Turns
    <3>2. CASE EnterKernel
      <4>1. /\ pc' = "kernel" /\ kpc' = "enter" /\ UNCHANGED <<allocVars, mapVars>>
            /\ \E junk \in Garbage : boot' = Passed(junk)
        BY <3>2 DEF EnterKernel, JumpKernel
      <4>2. \E junk \in Garbage : boot' = Passed(junk)'
        BY <4>1, PassedKept
      <4> QED
        BY <4>1, <4>2 DEF Turns, Entered
    <3>3. CASE LoaderStep
      <4>1. pc' # "kernel"
        BY <3>3 DEF LoaderStep, Loader, AllocKernel, CopyKernel, AllocStack, SizeMap,
           AllocMap, FillMap, ExitBootServices, JumpKernel
      <4>2. kpc' = kpc
        BY <3>3 DEF LoaderStep, kernelVars
      <4> QED
        BY <4>1, <4>2, <2>2 DEF Turns, Entered
    <3>4. CASE FirmwareStep \/ FirmwareInterrupt \/ Crashed \/ UNCHANGED chainVars
      <4>1. pc' = pc /\ kpc' = kpc
        BY <3>4 DEF FirmwareStep, FirmwareEvent, FirmwareInterrupt, Crashed, chainVars,
           vars, kernelVars
      <4> QED
        BY <4>1, <2>2, <3>1 DEF Turns, Entered
    <3>5. ~KernelStep
      BY <2>2 DEF KernelStep, Entered
    <3> QED
      BY <3>2, <3>3, <3>4, <3>5 DEF ChainNext
  <2> QED
    BY <2>1, <2>2
<1> QED
  BY <1>1, <1>2 DEF ChainBase

(* Loader and firmware keep in the chain what they keep by themselves, and *)
(* the kernel runs on what it was passed.                                  *)
THEOREM ChainSafe == ChainSpec => []ChainBase
  BY ChainBaseInit, ChainBaseStep, PTL DEF ChainSpec

(* What the loader passes, after an accepted exit and three allocations,   *)
(* meets what the theorems about Stage1Paging assume of a boot record.     *)
THEOREM RecordIsProvedFor == ChainSpec => []RecordMeetsAssumption
<1>1. ChainBase => RecordMeetsAssumption
  BY RecordIsOK DEF ChainBase, Turns, Entered, RecordMeetsAssumption, Good
<1> QED
  BY <1>1, ChainSafe, PTL
-----------------------------------------------------------------------------
(* The pool of Stage 1 against the final memory map. BufferRun(e): the     *)
(* descriptor the buffer lies in ends at e.                                *)
FreePages == {p \in Ram : memType[p] = "conventional"}
BufferRun(e) ==
    \E d \in buffer : /\ d.type = "loader data" /\ mmapPhys \in Pages(d.start, d.pages)
                      /\ e = d.start + d.pages

(* The scan came to the end of the map: neither MAX_RANGES nor ScanLimit   *)
(* cut it short.                                                           *)
ScanComplete == kpc \notin {"idle", "enter", "scan"} => i = Len(boot.descs)

(* What the kernel reads in the record: the final memory map, in order.    *)
LEMMA BootFacts ==
    ASSUME ChainBase, Entered, Good
    PROVE  /\ boot.mmapPhys = mmapPhys /\ boot.mmapPages = MapPages(mmapSize)
           /\ boot.descs = [n \in 1..mmapSize |-> Nth(n)]
           /\ Len(boot.descs) = mmapSize /\ mmapSize \in Nat /\ mmapSize > 0
           /\ \A n \in 1..mmapSize :
                 /\ boot.descs[n] \in buffer
                 /\ boot.descs[n].start \in Nat /\ boot.descs[n].pages \in Nat
                 /\ \A q \in Pages(boot.descs[n].start, boot.descs[n].pages) :
                       q \in Ram /\ memType[q] = boot.descs[n].type
           /\ \A d \in buffer : \E n \in 1..mmapSize : boot.descs[n] = d
           /\ \A p : K!Live(boot, p) <=>
                 p \in Pages(kernelPhys, KernelPages) \/ p \in Pages(stackPhys, StackPages)
<1>1. HandoverInv /\ BufferInv
  BY DEF ChainBase
<1>2. PICK junk \in Garbage : boot = Passed(junk)
  BY DEF ChainBase, Turns
<1>3. /\ boot.kernelPhys = kernelPhys /\ boot.kernelPages = KernelPages
      /\ boot.stackPhys = stackPhys /\ boot.mmapPhys = mmapPhys
      /\ boot.mmapPages = MapPages(mmapSize)
      /\ boot.descs = [n \in 1..mmapSize |-> Nth(n)]
  BY <1>2, RecordFields DEF Good
<1>4. /\ memType \in [Ram -> Types] /\ buffer = MapOf(memType)
      /\ mmapSize \in Nat /\ mmapSize > 0
      /\ \A n \in 1..mmapSize : Nth(n) \in buffer
      /\ \A d \in buffer : \E n \in 1..mmapSize : Nth(n) = d
  BY <1>1, FinalMap
<1>5. Len(boot.descs) = mmapSize /\ \A n \in 1..mmapSize : boot.descs[n] = Nth(n)
  BY <1>3, <1>4
<1>6. ASSUME NEW n \in 1..mmapSize
      PROVE  /\ boot.descs[n] \in buffer
             /\ boot.descs[n].start \in Nat /\ boot.descs[n].pages \in Nat
             /\ \A q \in Pages(boot.descs[n].start, boot.descs[n].pages) :
                   q \in Ram /\ memType[q] = boot.descs[n].type
  <2> DEFINE d == boot.descs[n]
  <2>1. d \in buffer /\ d \in MapOf(memType)
    BY <1>4, <1>5
  <2> HIDE DEF d
  <2>2. /\ d.start \in Nat /\ d.pages \in Nat
        /\ \A q \in Pages(d.start, d.pages) : q \in Ram /\ memType[q] = d.type
    BY <2>1, <1>4, DescriptorPages
  <2> QED
    BY <2>1, <2>2 DEF d
<1>7. \A d \in buffer : \E n \in 1..mmapSize : boot.descs[n] = d
  BY <1>4, <1>5
<1>8. \A p : K!Live(boot, p) <=>
         p \in Pages(kernelPhys, KernelPages) \/ p \in Pages(stackPhys, StackPages)
  BY <1>3 DEF K!Live, K!KernelSpan, K!StackSpan, K!Pages, Pages
<1> QED
  BY <1>3, <1>4, <1>5, <1>6, <1>7, <1>8

(* The descriptor the buffer lies in is among those scanned.               *)
LEMMA BufferIsDescribed ==
    ASSUME ChainBase, Entered, Good
    PROVE  \E j \in 1..mmapSize : mmapPhys \in Pages(boot.descs[j].start, boot.descs[j].pages)
<1>1. mmapPhys \in Ram /\ memType \in [Ram -> Types] /\ buffer = MapOf(memType)
  BY RegionFacts, FinalMap DEF ChainBase
<1>2. PICK d \in buffer : mmapPhys \in Pages(d.start, d.pages)
  BY <1>1, MapCovers
<1>3. PICK j \in 1..mmapSize : boot.descs[j] = d
  BY BootFacts
<1> QED
  BY <1>2, <1>3

(* The pool reaches at least to the end of the buffer, and holds nothing   *)
(* but the buffer and live pages.                                          *)
LEMMA BufferRunEnd ==
    ASSUME ChainBase, Good, NEW e, BufferRun(e)
    PROVE  /\ e \in Nat /\ mmapPhys + mmapPages <= e
           /\ \A p \in Nat : mmapPhys <= p /\ p < e /\ p \notin Pages(stackPhys, StackPages)
                 => p \in Pages(mmapPhys, mmapPages)
<1>1. HandoverInv /\ BufferInv
  BY DEF ChainBase
<1>2. memType \in [Ram -> Types] /\ buffer = MapOf(memType)
  BY <1>1, FinalMap
<1>3. PICK d \in MapOf(memType) : /\ d.type = "loader data"
                                  /\ mmapPhys \in Pages(d.start, d.pages)
                                  /\ e = d.start + d.pages
  BY <1>2 DEF BufferRun
<1>4. /\ d.start \in Ram /\ d.start \in Nat /\ d.pages \in Nat \ {0} /\ d.type = memType[d.start]
      /\ Pages(d.start, d.pages) = RunOf(memType, d.start)
      /\ \A q \in Pages(d.start, d.pages) : q \in Ram /\ memType[q] = d.type
  BY <1>2, DescriptorPages
<1>5. mmapPhys \in Nat /\ mmapPages \in Nat
      /\ \A p \in Pages(mmapPhys, mmapPages) : p \in Ram /\ memType[p] = "loader data"
  BY <1>1, RegionFacts, HandoverAssumption
<1> DEFINE a == d.start
           n == d.pages
           run == Pages(a, n)
<1>6. /\ mmapPhys \in run /\ run = RunOf(memType, a)
      /\ \A q \in run : q \in Ram /\ memType[q] = "loader data"
      /\ a \in Ram /\ memType[a] = "loader data"
  BY <1>3, <1>4
<1>7. a \in Nat /\ n \in Nat \ {0} /\ e = a + n
  BY <1>3, <1>4
<1>8. run = a .. a + n - 1
  BY DEF Pages
<1> HIDE DEF a, n, run
<1>9. e \in Nat /\ a < e
  BY <1>7
<1>10. \A q \in Nat : q \in run <=> a <= q /\ q < e
  BY <1>7, <1>8
<1>11. e \in Nat /\ a <= mmapPhys /\ mmapPhys < e
  BY <1>5, <1>6, <1>10, <1>9
<1>12. /\ mmapPhys \in Nat /\ mmapPages \in Nat /\ e \in Nat /\ a \in Nat
      /\ a <= mmapPhys /\ mmapPhys < e
  BY <1>5, <1>11, <1>7
<1>13. mmapPhys + mmapPages <= e
  <2> SUFFICES ASSUME e < mmapPhys + mmapPages PROVE FALSE
    BY <1>12
  <2>1. e \in Pages(mmapPhys, mmapPages)
    BY <1>12 DEF Pages
  <2>2. e \in Ram /\ memType[e] = "loader data"
    BY <2>1, <1>5
  <2>3. \A r \in a .. e : r \in run \/ r = e
    BY <1>10, <1>12
  <2>4. \A r \in Pages(a, e - a + 1) : r \in a .. e
    BY <1>12 DEF Pages
  <2>5. \A r \in Pages(a, e - a + 1) : r \in Ram /\ memType[r] = memType[a]
    BY <2>2, <2>3, <2>4, <1>6
  <2>6. e >= a
    BY <1>12
  <2>7. e \in RunOf(memType, a)
    BY <2>2, <2>5, <2>6 DEF RunOf
  <2>8. e \in run
    BY <2>7, <1>6
  <2> QED
    BY <2>8, <1>10, <1>12
<1>14. ASSUME NEW p \in Nat, mmapPhys <= p, p < e, p \notin Pages(stackPhys, StackPages)
       PROVE  p \in Pages(mmapPhys, mmapPages)
  <2>1. p \in run
    BY <1>10, <1>12, <1>14
  <2>2. p \in Ram /\ memType[p] = "loader data"
    BY <2>1, <1>6
  <2> QED
    BY <2>2, <1>1, <1>14 DEF BufferInv, LoaderDataKnown
<1> QED
  BY <1>12, <1>13, <1>14
-----------------------------------------------------------------------------
(* The state of the allocator while the kernel runs after an accepted      *)
(* exit: every range it keeps is free memory, the end of the pool is the   *)
(* end of the buffer's descriptor once that was read, and so every page it *)
(* took is free or the buffer's.                                           *)
PoolTypes ==
    /\ i \in 0..mmapSize
    /\ scratchNext \in Nat /\ mmapPhys <= scratchNext
    /\ fbIdx \in Nat \ {0} /\ fbNext \in Nat
    /\ ranges \in Seq([start : Nat, end : Nat]) /\ owned \in Seq(Nat)
RangesFree ==
    \A n \in DOMAIN ranges : \A q \in ranges[n].start .. ranges[n].end - 1 : q \in FreePages
PoolEnds ==
    (\E j \in 1..i : mmapPhys \in Pages(boot.descs[j].start, boot.descs[j].pages))
        => BufferRun(mmapAllocEnd)
NothingTaken == kpc \in {"enter", "scan"} => owned = << >> /\ fbNext = 0
CursorIn == fbNext # 0 => fbIdx <= Len(ranges) /\ ranges[fbIdx].start <= fbNext
OwnedFree ==
    i = Len(boot.descs) =>
        \A n \in DOMAIN owned : owned[n] \in FreePages \cup Pages(mmapPhys, mmapPages)
Pool == PoolTypes /\ RangesFree /\ PoolEnds /\ NothingTaken /\ CursorIn /\ OwnedFree

Idle == ~Entered => /\ i = 0 /\ ranges = << >> /\ fbIdx = 1 /\ fbNext = 0 /\ owned = << >>
                    /\ k = 0 /\ lvl = 0 /\ code = "none"
PoolInv == Idle /\ (Entered /\ Good => Pool)

poolParts == <<i, ranges, mmapAllocEnd, scratchNext, fbIdx, fbNext, owned>>
PoolStep ==
    \/ K!ScanDescriptor \/ K!EndScan \/ K!ScratchSkip \/ K!ScratchTake
    \/ K!FallbackSkip \/ K!FallbackTake \/ K!FallbackNextRange

(* Every other step of Stage 1 leaves scan and allocator alone.            *)
LEMMA OtherStepsKeepPool ==
    ASSUME K!Next, ~PoolStep
    PROVE  UNCHANGED poolParts /\ (kpc' \in {"enter", "scan"} => kpc \in {"enter", "scan"})
  BY DEF K!Next, PoolStep, poolParts, K!RejectMap, K!AcceptMap, K!NothingLeft,
     K!OutOfPages, K!LinkRoot, K!LinkTable, K!StartRequest, K!Descend, K!NeedTable,
     K!SetPte, K!SwitchCr3, K!TouchLoad, K!TouchFlip, K!TouchRestore, K!Stopped,
     K!Fail, K!scanVars, K!poolVars, K!vars

Frozen == UNCHANGED <<memType, stackPhys, mmapPhys, mmapPages, mmapSize, buffer, boot>>

(* The memory map is frozen, and so is what is said of it.                 *)
LEMMA FrozenKeeps ==
    ASSUME Frozen
    PROVE  /\ FreePages' = FreePages
           /\ \A e : BufferRun(e)' <=> BufferRun(e)
           /\ Pages(mmapPhys, mmapPages)' = Pages(mmapPhys, mmapPages)
  BY DEF Frozen, FreePages, BufferRun, Pages

(* Steps that move neither the scan nor the allocator's cursors.           *)
LEMMA UnchangedPool ==
    ASSUME Pool, Frozen, UNCHANGED poolParts,
           kpc' \in {"enter", "scan"} => kpc \in {"enter", "scan"}
    PROVE  Pool'
<1>1. /\ FreePages' = FreePages /\ \A e : BufferRun(e)' <=> BufferRun(e)
      /\ Pages(mmapPhys, mmapPages)' = Pages(mmapPhys, mmapPages)
  BY FrozenKeeps
<1>2. UNCHANGED <<i, ranges, mmapAllocEnd, scratchNext, fbIdx, fbNext, owned>>
  BY DEF poolParts
<1>3. PoolTypes'
  BY <1>2 DEF Pool, PoolTypes, Frozen
<1>4. RangesFree'
  BY <1>1, <1>2 DEF Pool, RangesFree
<1>5. PoolEnds'
  BY <1>1, <1>2 DEF Pool, PoolEnds, Frozen, BufferRun, Pages
<1>6. NothingTaken' /\ CursorIn'
  BY <1>2 DEF Pool, NothingTaken, CursorIn
<1>7. OwnedFree'
  BY <1>1, <1>2 DEF Pool, OwnedFree, Frozen
<1> QED
  BY <1>3, <1>4, <1>5, <1>6, <1>7 DEF Pool

(* A descriptor read adds a range of free memory, or gives the end of the  *)
(* pool.                                                                   *)
LEMMA ScanKeepsPool ==
    ASSUME ChainBase, Entered, Good, Pool, Frozen, K!ScanDescriptor
    PROVE  Pool'
<1> DEFINE d == boot.descs[i + 1]
           r == [start |-> d.start, end |-> d.start + d.pages]
<1>1. /\ kpc = "scan" /\ kpc' = "scan" /\ i < Len(boot.descs) /\ i' = i + 1
      /\ UNCHANGED <<scratchNext, fbIdx, fbNext, owned>>
      /\ mmapAllocEnd' = IF d.type = "loader data" /\ boot.mmapPhys \in K!Pages(d.start, d.pages)
                         THEN d.start + d.pages ELSE mmapAllocEnd
      /\ ranges' = IF d.type = "conventional" /\ d.pages > 0 THEN Append(ranges, r) ELSE ranges
  BY DEF K!ScanDescriptor, K!MoreToScan, K!poolVars, K!EndOf, K!Conventional, K!LoaderData
<1>2. /\ Len(boot.descs) = mmapSize /\ mmapSize \in Nat /\ i \in Nat /\ boot.mmapPhys = mmapPhys
      /\ i \in 0..mmapSize
  BY BootFacts DEF Pool, PoolTypes
<1>3. i + 1 \in 1..mmapSize
  <2>1. i < mmapSize
    BY <1>1, <1>2
  <2> QED
    BY <2>1, <1>2
<1>4. /\ d \in buffer /\ d.start \in Nat /\ d.pages \in Nat
      /\ \A q \in Pages(d.start, d.pages) : q \in Ram /\ memType[q] = d.type
  BY <1>3, BootFacts
<1> HIDE DEF d
<1>5. /\ FreePages' = FreePages /\ \A e : BufferRun(e)' <=> BufferRun(e)
      /\ Pages(mmapPhys, mmapPages)' = Pages(mmapPhys, mmapPages)
  BY FrozenKeeps
<1>6. r \in [start : Nat, end : Nat] /\ ranges \in Seq([start : Nat, end : Nat])
  BY <1>4 DEF Pool, PoolTypes
<1>7. PoolTypes'
  <2>1. i' \in 0..mmapSize
    <3>1. i + 1 \in 0..mmapSize
      BY <1>2, <1>3
    <3>2. i' = i + 1
      BY <1>1
    <3> QED
      BY <3>1, <3>2
  <2>2. ranges' \in Seq([start : Nat, end : Nat])
    <3> HIDE DEF r
    <3>1. Append(ranges, r) \in Seq([start : Nat, end : Nat])
      BY <1>6
    <3>2. ranges' = Append(ranges, r) \/ ranges' = ranges
      BY <1>1
    <3> QED
      BY <1>6, <3>1, <3>2
  <2> QED
    BY <1>1, <2>1, <2>2 DEF Pool, PoolTypes, Frozen
<1>8. RangesFree'
  <2>1. CASE ranges' = ranges
    BY <2>1, <1>5 DEF Pool, RangesFree
  <2>2. CASE d.type = "conventional" /\ ranges' = Append(ranges, r)
    <3>1. \A q \in d.start .. (d.start + d.pages) - 1 : q \in FreePages
      BY <2>2, <1>4 DEF Pages, FreePages
    <3>2. \A q \in r.start .. r.end - 1 : q \in FreePages
      BY <3>1
    <3> HIDE DEF r
    <3>3. /\ DOMAIN ranges' = 1..(Len(ranges) + 1) /\ DOMAIN ranges = 1..Len(ranges)
          /\ Len(ranges) \in Nat
          /\ \A n \in 1..(Len(ranges) + 1) :
                ranges'[n] = IF n = Len(ranges) + 1 THEN r ELSE ranges[n]
      BY <2>2, <1>6
    <3> SUFFICES ASSUME NEW n \in DOMAIN ranges',
                        NEW q \in (ranges'[n]).start .. (ranges'[n]).end - 1
                 PROVE  q \in FreePages
      BY <1>5 DEF RangesFree
    <3>4. CASE n = Len(ranges) + 1
      BY <3>2, <3>3, <3>4
    <3>5. CASE n # Len(ranges) + 1
      <4>1. n \in DOMAIN ranges /\ ranges'[n] = ranges[n]
        BY <3>3, <3>5
      <4> QED
        BY <4>1 DEF Pool, RangesFree
    <3> QED
      BY <3>4, <3>5
  <2> QED
    BY <1>1, <2>1, <2>2
<1>9. PoolEnds'
  <2>1. SUFFICES ASSUME NEW j \in 1..i + 1,
                        mmapPhys \in Pages(boot.descs[j].start, boot.descs[j].pages)
                 PROVE  BufferRun(mmapAllocEnd')
    BY <1>1, <1>5 DEF PoolEnds, Frozen, Pages, BufferRun
  <2>2. CASE mmapPhys \in Pages(d.start, d.pages)
    <3>1. memType[mmapPhys] = "loader data"
      <4>1. mmapPhys \in Pages(mmapPhys, mmapPages)
        <5>1. mmapPhys \in Nat /\ mmapPages \in Nat /\ 2 + ScratchPages <= mmapPages
              /\ ScratchPages \in Nat
          <6>1. HandoverInv /\ BufferInv /\ Reported
            BY DEF ChainBase, Turns, Reported
          <6> QED
            BY <6>1, RegionFacts, HandoverAssumption
        <5> QED
          BY <5>1 DEF Pages
      <4> QED
        BY <4>1, RegionFacts DEF ChainBase
    <3>2. d.type = "loader data"
      BY <1>4, <2>2, <3>1
    <3>3. mmapAllocEnd' = d.start + d.pages
      BY <1>1, <1>2, <2>2, <3>2 DEF K!Pages, Pages
    <3> QED
      BY <1>4, <2>2, <3>2, <3>3 DEF BufferRun
  <2>3. CASE mmapPhys \notin Pages(d.start, d.pages)
    <3>1. mmapAllocEnd' = mmapAllocEnd
      BY <1>1, <1>2, <2>3 DEF K!Pages, Pages
    <3>2. j # i + 1
      BY <2>1, <2>3 DEF d
    <3>3. j \in 1..i
      BY <3>2, <1>2
    <3> QED
      BY <2>1, <3>1, <3>3 DEF Pool, PoolEnds
  <2> QED
    BY <2>2, <2>3
<1>10. owned = << >> /\ fbNext = 0
  BY <1>1 DEF Pool, NothingTaken
<1>11. owned' = << >> /\ fbNext' = 0
  BY <1>1, <1>10
<1>12. NothingTaken' /\ CursorIn' /\ OwnedFree'
  BY <1>11 DEF NothingTaken, CursorIn, OwnedFree
<1> QED
  BY <1>7, <1>8, <1>9, <1>12 DEF Pool

(* The end of the scan leaves the end of the pool, once it was found.      *)
LEMMA EndScanKeepsPool ==
    ASSUME ChainBase, Entered, Good, Pool, Frozen, K!EndScan
    PROVE  Pool'
<1>1. /\ kpc = "scan" /\ kpc' = "alloc"
      /\ UNCHANGED <<i, ranges, scratchNext, fbIdx, fbNext, owned>>
      /\ mmapAllocEnd' = IF mmapAllocEnd = K!MmapEnd(boot) THEN K!Headroom(boot)
                         ELSE mmapAllocEnd
  BY DEF K!EndScan, K!poolVars
<1>2. /\ FreePages' = FreePages /\ \A e : BufferRun(e)' <=> BufferRun(e)
      /\ Pages(mmapPhys, mmapPages)' = Pages(mmapPhys, mmapPages)
  BY FrozenKeeps
<1>3. BufferRun(mmapAllocEnd) => mmapAllocEnd' = mmapAllocEnd
  <2> SUFFICES ASSUME BufferRun(mmapAllocEnd) PROVE mmapAllocEnd # K!MmapEnd(boot)
    BY <1>1
  <2>1. K!MmapEnd(boot) = mmapPhys + MapPages(mmapSize)
    BY BootFacts DEF K!MmapEnd
  <2> DEFINE size == MapPages(mmapSize)
  <2>2. /\ mmapPhys \in Nat /\ mmapPages \in Nat /\ size \in Nat
        /\ size + ScratchPages <= mmapPages
    BY RegionFacts, HandoverAssumption DEF ChainBase
  <2>3. mmapAllocEnd \in Nat /\ mmapPhys + mmapPages <= mmapAllocEnd
    BY BufferRunEnd
  <2>4. ScratchPages \in Nat /\ ScratchPages > 0
    BY HandoverAssumption, ChainAssumption
  <2> HIDE DEF size
  <2>5. mmapAllocEnd # mmapPhys + size
    BY <2>2, <2>3, <2>4
  <2> QED
    BY <2>1, <2>5 DEF size
<1>4. PoolTypes'
  BY <1>1 DEF Pool, PoolTypes, Frozen
<1>5. RangesFree'
  BY <1>1, <1>2 DEF Pool, RangesFree
<1>6. PoolEnds'
  BY <1>1, <1>2, <1>3 DEF Pool, PoolEnds, Frozen, BufferRun, Pages
<1>7. owned = << >> /\ fbNext = 0
  BY <1>1 DEF Pool, NothingTaken
<1>8. NothingTaken' /\ CursorIn' /\ OwnedFree'
  BY <1>1, <1>7 DEF NothingTaken, CursorIn, OwnedFree
<1> QED
  BY <1>4, <1>5, <1>6, <1>8 DEF Pool

(* Appending a page of S to a sequence of numbers.                         *)
LEMMA AppendOwned ==
    ASSUME NEW s \in Seq(Nat), NEW p \in Nat, NEW S, p \in S,
           \A n \in DOMAIN s : s[n] \in S
    PROVE  /\ Append(s, p) \in Seq(Nat)
           /\ \A n \in DOMAIN Append(s, p) : Append(s, p)[n] \in S
<1>1. /\ DOMAIN s = 1..Len(s) /\ Len(s) \in Nat
      /\ DOMAIN Append(s, p) = 1..(Len(s) + 1)
      /\ \A n \in 1..(Len(s) + 1) : Append(s, p)[n] = IF n = Len(s) + 1 THEN p ELSE s[n]
  OBVIOUS
<1>2. ASSUME NEW n \in 1..(Len(s) + 1) PROVE Append(s, p)[n] \in S
  <2>1. CASE n = Len(s) + 1
    BY <1>1, <2>1
  <2>2. CASE n # Len(s) + 1
    <3>1. n \in DOMAIN s
      BY <1>1, <2>2
    <3> QED
      BY <1>1, <2>2, <3>1
  <2> QED
    BY <2>1, <2>2
<1> QED
  BY <1>1, <1>2

(* The pages of the pool, once the scan is complete, are the buffer's.     *)
LEMMA ScratchIsBuffer ==
    ASSUME ChainBase, Entered, Good, Pool, i = Len(boot.descs),
           scratchNext < mmapAllocEnd, ~K!Live(boot, scratchNext)
    PROVE  scratchNext \in Pages(mmapPhys, mmapPages)
<1>1. Len(boot.descs) = mmapSize
  BY BootFacts
<1>2. BufferRun(mmapAllocEnd)
  BY <1>1, BufferIsDescribed DEF Pool, PoolEnds
<1>3. scratchNext \in Nat /\ mmapPhys <= scratchNext
  BY DEF Pool, PoolTypes
<1>4. scratchNext \notin Pages(stackPhys, StackPages)
  BY BootFacts
<1> QED
  BY <1>2, <1>3, <1>4, BufferRunEnd

(* The pool gives its next page, if that is not live.                      *)
LEMMA ScratchKeepsPool ==
    ASSUME ChainBase, Entered, Good, Pool, Frozen, K!ScratchSkip \/ K!ScratchTake
    PROVE  Pool'
<1>1. /\ kpc = "alloc" /\ kpc' \in {"alloc", "link"}
      /\ scratchNext < mmapAllocEnd /\ scratchNext' = scratchNext + 1
      /\ UNCHANGED <<i, ranges, mmapAllocEnd, fbIdx, fbNext>>
      /\ \/ owned' = owned
         \/ owned' = Append(owned, scratchNext) /\ ~K!Live(boot, scratchNext)
  BY DEF K!ScratchSkip, K!ScratchTake, K!ScratchLeft, K!ScratchEnd, K!HandOut, K!scanVars
<1>2. /\ FreePages' = FreePages /\ \A e : BufferRun(e)' <=> BufferRun(e)
      /\ Pages(mmapPhys, mmapPages)' = Pages(mmapPhys, mmapPages)
  BY FrozenKeeps
<1>3. scratchNext \in Nat /\ mmapPhys <= scratchNext /\ owned \in Seq(Nat) /\ mmapPhys \in Nat
  BY RegionFacts, HandoverAssumption DEF Pool, PoolTypes, ChainBase
<1>4. PoolTypes'
  <2>1. scratchNext + 1 \in Nat /\ mmapPhys <= scratchNext + 1
    BY <1>3
  <2>2. owned' \in Seq(Nat)
    <3>1. Append(owned, scratchNext) \in Seq(Nat)
      BY <1>3
    <3> QED
      BY <1>1, <1>3, <3>1
  <2>3. scratchNext' \in Nat /\ mmapPhys <= scratchNext'
    BY <1>1, <2>1
  <2> QED
    BY <1>1, <2>2, <2>3 DEF Pool, PoolTypes, Frozen
<1>5. RangesFree'
  BY <1>1, <1>2 DEF Pool, RangesFree
<1>6. PoolEnds'
  BY <1>1, <1>2 DEF Pool, PoolEnds, Frozen, BufferRun, Pages
<1>7. NothingTaken' /\ CursorIn'
  BY <1>1 DEF Pool, NothingTaken, CursorIn
<1>8. OwnedFree'
  <2> SUFFICES ASSUME i = Len(boot.descs)
               PROVE  \A n \in DOMAIN owned' :
                         owned'[n] \in FreePages \cup Pages(mmapPhys, mmapPages)
    BY <1>1, <1>2 DEF OwnedFree, Frozen
  <2> DEFINE S == FreePages \cup Pages(mmapPhys, mmapPages)
  <2>1. \A n \in DOMAIN owned : owned[n] \in S
    BY DEF Pool, OwnedFree
  <2>2. CASE owned' = owned
    BY <2>1, <2>2
  <2>3. CASE owned' = Append(owned, scratchNext) /\ ~K!Live(boot, scratchNext)
    <3>1. scratchNext \in S
      BY <1>1, <2>3, ScratchIsBuffer
    <3> HIDE DEF S
    <3>2. \A n \in DOMAIN Append(owned, scratchNext) : Append(owned, scratchNext)[n] \in S
      BY <1>3, <2>1, <3>1, AppendOwned
    <3> QED
      BY <2>3, <3>2 DEF S
  <2> QED
    BY <1>1, <2>2, <2>3
<1> QED
  BY <1>4, <1>5, <1>6, <1>7, <1>8 DEF Pool

(* The fallback takes its pages out of the ranges, which are free memory.  *)
LEMMA FallbackKeepsPool ==
    ASSUME ChainBase, Entered, Good, Pool, Frozen, K!FallbackSkip \/ K!FallbackTake
    PROVE  Pool'
<1> DEFINE c == IF fbNext = 0 THEN ranges[fbIdx].start ELSE fbNext
<1>1. /\ kpc = "alloc" /\ kpc' \in {"alloc", "link"}
      /\ fbIdx <= Len(ranges) /\ c < ranges[fbIdx].end /\ fbNext' = c + 1
      /\ UNCHANGED <<i, ranges, mmapAllocEnd, scratchNext, fbIdx>>
      /\ owned' = owned \/ owned' = Append(owned, c)
  BY DEF K!FallbackSkip, K!FallbackTake, K!FallbackLeft, K!Cursor, K!HandOut, K!scanVars
<1>2. /\ FreePages' = FreePages /\ \A e : BufferRun(e)' <=> BufferRun(e)
      /\ Pages(mmapPhys, mmapPages)' = Pages(mmapPhys, mmapPages)
  BY FrozenKeeps
<1>3. /\ fbIdx \in Nat \ {0} /\ fbNext \in Nat /\ owned \in Seq(Nat)
      /\ ranges \in Seq([start : Nat, end : Nat])
  BY DEF Pool, PoolTypes
<1>4. fbIdx \in DOMAIN ranges /\ ranges[fbIdx] \in [start : Nat, end : Nat]
  <2>1. fbIdx <= Len(ranges)
    BY <1>1
  <2>2. fbIdx \in 1..Len(ranges)
    BY <2>1, <1>3
  <2> DEFINE S == [start : Nat, end : Nat]
  <2>3. ranges \in Seq(S)
    BY <1>3
  <2> HIDE DEF S
  <2>4. DOMAIN ranges = 1..Len(ranges) /\ \A n \in 1..Len(ranges) : ranges[n] \in S
    BY <2>3
  <2>5. fbIdx \in DOMAIN ranges /\ ranges[fbIdx] \in S
    BY <2>2, <2>4
  <2> QED
    BY <2>5 DEF S
<1>5. c \in Nat /\ ranges[fbIdx].start <= c /\ ranges[fbIdx].start \in Nat
      /\ ranges[fbIdx].end \in Nat
  BY <1>3, <1>4 DEF Pool, CursorIn
<1>6. c \in FreePages
  <2>1. c \in ranges[fbIdx].start .. ranges[fbIdx].end - 1
    BY <1>1, <1>5
  <2> QED
    BY <2>1, <1>4 DEF Pool, RangesFree
<1> HIDE DEF c
<1>7. PoolTypes'
  <2>1. c + 1 \in Nat /\ Append(owned, c) \in Seq(Nat)
    BY <1>3, <1>5
  <2>2. fbNext' \in Nat /\ owned' \in Seq(Nat)
    BY <1>1, <1>3, <2>1
  <2> QED
    BY <1>1, <2>2 DEF Pool, PoolTypes, Frozen
<1>8. RangesFree'
  BY <1>1, <1>2 DEF Pool, RangesFree
<1>9. PoolEnds'
  BY <1>1, <1>2 DEF Pool, PoolEnds, Frozen, BufferRun, Pages
<1>10. NothingTaken'
  BY <1>1 DEF NothingTaken
<1>11. CursorIn'
  <2>1. ranges[fbIdx].start <= c + 1
    BY <1>5
  <2>2. fbIdx' <= Len(ranges') /\ ranges'[fbIdx'].start <= fbNext'
    BY <1>1, <2>1
  <2> QED
    BY <2>2 DEF CursorIn
<1>12. OwnedFree'
  <2> SUFFICES ASSUME i = Len(boot.descs)
               PROVE  \A n \in DOMAIN owned' :
                         owned'[n] \in FreePages \cup Pages(mmapPhys, mmapPages)
    BY <1>1, <1>2 DEF OwnedFree, Frozen
  <2> DEFINE S == FreePages \cup Pages(mmapPhys, mmapPages)
  <2>1. c \in S /\ \A n \in DOMAIN owned : owned[n] \in S
    BY <1>6 DEF Pool, OwnedFree
  <2> HIDE DEF S
  <2>2. \A n \in DOMAIN Append(owned, c) : Append(owned, c)[n] \in S
    BY <1>3, <1>5, <2>1, AppendOwned
  <2> QED
    BY <1>1, <2>1, <2>2 DEF S
<1> QED
  BY <1>7, <1>8, <1>9, <1>10, <1>11, <1>12 DEF Pool

(* The cursor moves on to the next range.                                  *)
LEMMA NextRangeKeepsPool ==
    ASSUME Pool, Frozen, K!FallbackNextRange
    PROVE  Pool'
<1>1. /\ kpc = "alloc" /\ kpc' = "alloc" /\ fbIdx' = fbIdx + 1 /\ fbNext' = 0
      /\ UNCHANGED <<i, ranges, mmapAllocEnd, scratchNext, owned>>
  BY DEF K!FallbackNextRange, K!scanVars
<1>2. /\ FreePages' = FreePages /\ \A e : BufferRun(e)' <=> BufferRun(e)
      /\ Pages(mmapPhys, mmapPages)' = Pages(mmapPhys, mmapPages)
  BY FrozenKeeps
<1>3. fbIdx \in Nat \ {0}
  BY DEF Pool, PoolTypes
<1>4. fbIdx' \in Nat \ {0}
  <2>1. fbIdx + 1 \in Nat \ {0}
    BY <1>3
  <2> QED
    BY <1>1, <2>1
<1>5. PoolTypes'
  BY <1>1, <1>4 DEF Pool, PoolTypes, Frozen
<1>6. RangesFree'
  BY <1>1, <1>2 DEF Pool, RangesFree
<1>7. PoolEnds'
  BY <1>1, <1>2 DEF Pool, PoolEnds, Frozen, BufferRun, Pages
<1>8. NothingTaken' /\ CursorIn'
  BY <1>1 DEF NothingTaken, CursorIn
<1>9. OwnedFree'
  BY <1>1, <1>2 DEF Pool, OwnedFree, Frozen
<1> QED
  BY <1>5, <1>6, <1>7, <1>8, <1>9 DEF Pool

(* Every step of the kernel keeps the allocator's state.                   *)
LEMMA KernelKeepsPool ==
    ASSUME ChainBase, Entered, Good, Pool, Frozen, K!Next
    PROVE  Pool'
<1>1. CASE PoolStep
  BY <1>1, ScanKeepsPool, EndScanKeepsPool, ScratchKeepsPool, FallbackKeepsPool,
     NextRangeKeepsPool DEF PoolStep
<1>2. CASE ~PoolStep
  BY <1>2, OtherStepsKeepPool, UnchangedPool
<1> QED
  BY <1>1, <1>2

(* The kernel starts with nothing scanned and nothing taken.               *)
LEMMA EnterStartsPool ==
    ASSUME HandoverInv, BufferInv, Idle, ~Entered, EnterKernel, Good
    PROVE  Pool'
<1>1. /\ kpc' = "enter" /\ i' = i /\ ranges' = ranges /\ fbIdx' = fbIdx /\ fbNext' = fbNext
      /\ owned' = owned /\ scratchNext' = boot'.mmapPhys
      /\ UNCHANGED <<firmwareVars, allocVars, mapVars>>
      /\ \E junk \in Garbage : boot' = Passed(junk)
  BY DEF EnterKernel, JumpKernel
<1>2. i = 0 /\ ranges = << >> /\ fbIdx = 1 /\ fbNext = 0 /\ owned = << >>
  BY DEF Idle
<1>3. scratchNext' = mmapPhys /\ mmapPhys \in Nat
  BY <1>1, RecordFields, RegionFacts, HandoverAssumption
<1>4. mmapSize \in Nat /\ mmapPhys' = mmapPhys /\ mmapSize' = mmapSize
  BY <1>1, FinalMap DEF allocVars, mapVars
<1>5. PoolTypes'
  BY <1>1, <1>2, <1>3, <1>4 DEF PoolTypes
<1>6. RangesFree' /\ NothingTaken' /\ CursorIn' /\ OwnedFree'
  BY <1>1, <1>2 DEF RangesFree, NothingTaken, CursorIn, OwnedFree
<1>7. PoolEnds'
  BY <1>1, <1>2 DEF PoolEnds
<1> QED
  BY <1>5, <1>6, <1>7 DEF Pool

(* Before the jump nothing is scanned and nothing taken.                   *)
LEMMA PoolInit == ChainInit => PoolInv
  BY DEF ChainInit, PoolInv, Idle, Entered

(* Every step of the chain keeps the allocator's invariant.                *)
LEMMA PoolInvStep == ChainBase /\ PoolInv /\ [ChainNext]_chainVars => PoolInv'
<1> SUFFICES ASSUME ChainBase, PoolInv, [ChainNext]_chainVars PROVE PoolInv'
  OBVIOUS
<1>1. CASE Entered
  <2>1. /\ UNCHANGED <<services, pc, allocVars, mapVars>> /\ Entered' /\ boot' = boot
        /\ ~services => memType' = memType
        /\ KernelStep \/ UNCHANGED kernelVars
    BY <1>1, EnteredFreezes DEF ChainBase
  <2>2. Good' <=> Good
    BY <2>1 DEF Good, Accepted, Filled, AllAllocated, allocVars, mapVars
  <2>3. ASSUME Good PROVE Pool'
    <3>1. Frozen
      BY <2>1, <2>3 DEF Frozen, Good, Accepted, allocVars, mapVars
    <3>2. Pool
      BY <1>1, <2>3 DEF PoolInv
    <3>3. CASE KernelStep
      <4>1. K!Next
        BY <3>3 DEF KernelStep
      <4> QED
        BY <1>1, <2>3, <3>1, <3>2, <4>1, KernelKeepsPool
    <3>4. CASE UNCHANGED kernelVars
      BY <3>1, <3>2, <3>4, UnchangedPool DEF kernelVars, poolParts
    <3> QED
      BY <2>1, <3>3, <3>4
  <2> QED
    BY <2>1, <2>2, <2>3 DEF PoolInv, Idle
<1>2. CASE ~Entered
  <2>1. CASE EnterKernel
    <3>1. Entered'
      BY <2>1 DEF EnterKernel, Entered
    <3>2. Good' <=> Good
      BY <2>1 DEF EnterKernel, JumpKernel, Good, Accepted, Filled, AllAllocated,
         firmwareVars, allocVars, mapVars
    <3> QED
      BY <1>2, <2>1, <3>1, <3>2, EnterStartsPool DEF PoolInv, ChainBase, Idle
  <2>2. CASE UNCHANGED kernelVars
    <3>1. ~Entered' /\ UNCHANGED <<i, ranges, fbIdx, fbNext, owned, k, lvl, code>>
      BY <1>2, <2>2 DEF kernelVars, Entered
    <3> QED
      BY <1>2, <3>1 DEF PoolInv, Idle
  <2>3. ~KernelStep
    BY <1>2 DEF KernelStep, Entered
  <2>4. EnterKernel \/ KernelStep \/ UNCHANGED kernelVars
    BY DEF ChainNext, LoaderStep, FirmwareStep, FirmwareInterrupt, Crashed, chainVars
  <2> QED
    BY <2>1, <2>2, <2>3, <2>4
<1> QED
  BY <1>1, <1>2

(* The allocator's invariant holds in every state.                         *)
THEOREM PoolSafe == ChainSpec => []PoolInv
  BY PoolInit, PoolInvStep, ChainSafe, PTL DEF ChainSpec

(* After an accepted exit and three allocations, and a scan that was not   *)
(* cut short (init.cpp:949), every page Stage 1 builds its tables in is    *)
(* free memory or the loader's buffer, for every memory map.               *)
THEOREM TablesInFreeMemory == ChainSpec => [](ScanComplete => TablesAreFree)
<1>1. ChainBase /\ PoolInv => (ScanComplete => TablesAreFree)
  <2> SUFFICES ASSUME ChainBase, PoolInv, ScanComplete, Good, NEW p \in K!OwnedPages
               PROVE  p \in Ram /\ (memType[p] = "conventional" \/ p \in Pages(mmapPhys, mmapPages))
    BY DEF TablesAreFree, Good
  <2>1. PICK n \in DOMAIN owned : p = owned[n]
    BY DEF K!OwnedPages
  <2>2. Entered
    BY <2>1 DEF PoolInv, Idle
  <2>3. Pool
    BY <2>2 DEF PoolInv
  <2>4. i = Len(boot.descs)
    BY <2>1, <2>2, <2>3 DEF ScanComplete, Pool, NothingTaken, Entered
  <2>5. p \in FreePages \cup Pages(mmapPhys, mmapPages)
    BY <2>1, <2>3, <2>4 DEF Pool, OwnedFree
  <2>6. \A q \in Pages(mmapPhys, mmapPages) : q \in Ram
    BY RegionFacts DEF ChainBase
  <2> QED
    BY <2>5, <2>6 DEF FreePages
<1> QED
  BY <1>1, ChainSafe, PoolSafe, PTL
-----------------------------------------------------------------------------
(* The number of tables: one for the root and at most three for each page  *)
(* mapped at each of its two addresses. With the code's 128 extra pages    *)
(* and a stack of 4, TablesFit is a kernel of up to 15 pages.              *)
Requests == 2 * (KernelPages + StackPages + 2)
TablesFit == 1 + 3 * Requests <= 2 + ScratchPages

(* The length of two sequences put together.                               *)
LEMMA ConcatLength ==
    ASSUME NEW S, NEW s \in Seq(S), NEW t \in Seq(S)
    PROVE  Len(s \o t) = Len(s) + Len(t)
  OBVIOUS

(* Stage 1 makes Requests mapping requests.                                *)
LEMMA RequestsOfBoot ==
    ASSUME ChainBase, Entered
    PROVE  Len(K!Work(boot)) = Requests /\ Requests \in Nat
<1> DEFINE kern == [n \in 1..KernelPages |-> boot.kernelPhys + n - 1]
           stack == [n \in 1..StackPages |-> boot.stackPhys + n - 1]
           last == << boot.mmapPhys, LapicPage >>
           ps == (kern \o stack) \o last
           low == [n \in 1..Len(ps) |-> [v |-> ps[n], p |-> ps[n]]]
           high == [n \in 1..Len(ps) |-> [v |-> ps[n] + K!UPPER_HALF, p |-> ps[n]]]
<1>1. boot.kernelPages = KernelPages
  BY RecordFields DEF ChainBase, Turns
<1>2. KernelPages \in Nat /\ StackPages \in Nat
  BY HandoverAssumption
<1>3. K!Work(boot) = low \o high
  BY <1>1 DEF K!Work, K!Identity
<1>4. Len(ps) = KernelPages + StackPages + 2
  <2> DEFINE f(n) == boot.kernelPhys + n - 1
             g(n) == boot.stackPhys + n - 1
             S == {f(n) : n \in 1..KernelPages} \cup {g(n) : n \in 1..StackPages}
                     \cup {boot.mmapPhys, LapicPage}
  <2>1. kern = [n \in 1..KernelPages |-> f(n)] /\ stack = [n \in 1..StackPages |-> g(n)]
    OBVIOUS
  <2> HIDE DEF f, g, kern, stack
  <2>2. kern \in [1..KernelPages -> S] /\ stack \in [1..StackPages -> S]
    BY <2>1
  <2>3. last \in Seq(S) /\ Len(last) = 2
    OBVIOUS
  <2> HIDE DEF S, last
  <2>4. /\ kern \in Seq(S) /\ Len(kern) = KernelPages
        /\ stack \in Seq(S) /\ Len(stack) = StackPages
    BY <1>2, <2>2
  <2>5. kern \o stack \in Seq(S) /\ Len(kern \o stack) = KernelPages + StackPages
    BY <2>4
  <2> DEFINE both == kern \o stack
  <2>6. both \in Seq(S) /\ Len(both) = KernelPages + StackPages
    BY <2>5
  <2> HIDE DEF both
  <2>7. Len(both \o last) = Len(both) + Len(last)
    BY <2>3, <2>6, ConcatLength
  <2>8. Len(both \o last) = KernelPages + StackPages + 2
    BY <2>3, <2>6, <2>7, <1>2
  <2> QED
    BY <2>8 DEF both
<1>5. Len(low \o high) = Len(ps) + Len(ps)
  <2> DEFINE L == Len(ps)
             T == {low[x] : x \in 1..L} \cup {high[x] : x \in 1..L}
  <2>1. L \in Nat
    BY <1>4, <1>2
  <2> HIDE DEF ps, L
  <2>2. low \in Seq(T) /\ Len(low) = L /\ high \in Seq(T) /\ Len(high) = L
    BY <2>1 DEF L
  <2> HIDE DEF low, high, T
  <2> QED
    BY <2>2 DEF L
<1> QED
  BY <1>2, <1>3, <1>4, <1>5 DEF Requests

(* While the pool lasts: pages are handed out one after the other, the     *)
(* fallback is not touched, and the tables taken so far are accounted for. *)
Counting == kpc \in {"enter", "scan"} \/ i = Len(boot.descs)
WalkTypes ==
    /\ k \in Nat /\ k <= Requests /\ lvl \in 0..3
    /\ kpc = "walk" \/ (kpc \in {"alloc", "link"} /\ lvl > 0) => k < Requests
InOrder ==
    /\ code = "none" /\ fbIdx = 1 /\ fbNext = 0 /\ kpc # "halt"
    /\ scratchNext = mmapPhys + Len(owned)
TableCount ==
    /\ kpc = "alloc" => Len(owned) <= 3 * k + lvl
    /\ kpc = "link" => got # 0 /\ Len(owned) <= 1 + 3 * k + lvl
    /\ kpc = "map" => Len(owned) <= 1 + 3 * k
    /\ kpc = "walk" => Len(owned) <= 1 + 3 * k + lvl
Enough == WalkTypes /\ (Counting => InOrder /\ TableCount)
EnoughInv == Entered /\ Good => Enough

(* The next page of the pool is there to be taken.                         *)
LEMMA NextPageThere ==
    ASSUME TablesFit, ChainBase, Entered, Good, Pool, Enough, kpc = "alloc",
           i = Len(boot.descs)
    PROVE  scratchNext < mmapAllocEnd /\ ~K!Live(boot, scratchNext) /\ scratchNext # 0
<1>1. /\ Len(owned) \in Nat /\ Len(owned) <= 3 * k + lvl /\ k \in Nat /\ k <= Requests
      /\ lvl \in 0..3 /\ (lvl > 0 => k < Requests) /\ scratchNext = mmapPhys + Len(owned)
  BY DEF Enough, Counting, WalkTypes, InOrder, TableCount, Pool, PoolTypes
<1>2. Requests \in Nat
  BY RequestsOfBoot
<1>3. Len(owned) <= 3 * Requests
  <2>1. CASE lvl = 0
    BY <1>1, <1>2, <2>1
  <2>2. CASE lvl > 0
    BY <1>1, <1>2, <2>2
  <2> QED
    BY <1>1, <2>1, <2>2
<1>4. HandoverInv /\ BufferInv /\ Reported
  BY DEF ChainBase, Turns, Reported
<1>5. /\ mmapPhys \in Nat \ {0} /\ mmapPages \in Nat /\ 2 + ScratchPages <= mmapPages
      /\ ScratchPages \in Nat
      /\ \A p \in Pages(kernelPhys, KernelPages) : memType[p] = "loader code"
      /\ \A p \in Pages(mmapPhys, mmapPages) : memType[p] = "loader data"
      /\ Pages(stackPhys, StackPages) \cap Pages(mmapPhys, mmapPages) = {}
  BY <1>4, RegionFacts, HandoverAssumption
<1>6. /\ Len(owned) \in Nat /\ mmapPhys \in Nat \ {0} /\ mmapPages \in Nat
      /\ scratchNext = mmapPhys + Len(owned) /\ Len(owned) < mmapPages
  <2> DEFINE n == Len(owned)
  <2>1. n \in Nat /\ n <= 3 * Requests /\ 1 + 3 * Requests <= 2 + ScratchPages
    BY <1>1, <1>3 DEF TablesFit
  <2>2. 2 + ScratchPages <= mmapPages /\ ScratchPages \in Nat /\ mmapPages \in Nat
    BY <1>5
  <2> HIDE DEF n
  <2>3. n < mmapPages
    BY <1>2, <2>1, <2>2
  <2> QED
    BY <1>1, <1>5, <2>3 DEF n
<1>7. /\ scratchNext \in Pages(mmapPhys, mmapPages) /\ scratchNext # 0
      /\ scratchNext \in Nat /\ scratchNext < mmapPhys + mmapPages
  BY <1>6 DEF Pages
<1>8. scratchNext \notin Pages(stackPhys, StackPages)
  BY <1>5, <1>7
<1>9. scratchNext \notin Pages(kernelPhys, KernelPages)
  BY <1>5, <1>7
<1>10. mmapPhys + mmapPages <= mmapAllocEnd /\ mmapAllocEnd \in Nat
  <2>1. BufferRun(mmapAllocEnd)
    BY BufferIsDescribed, BootFacts DEF Pool, PoolEnds
  <2> QED
    BY <2>1, BufferRunEnd
<1>11. scratchNext < mmapAllocEnd
  BY <1>6, <1>7, <1>10
<1> QED
  BY <1>7, <1>8, <1>9, <1>11, BootFacts
(* Steps that take no page: the count may only be spent.                   *)
LEMMA CountingBack ==
    ASSUME K!Next, Counting', boot' = boot
    PROVE  Counting /\ (kpc \notin {"enter", "scan"} => kpc' \notin {"enter", "scan"} /\ i' = i)
  BY DEF K!Next, Counting, K!RejectMap, K!AcceptMap, K!ScanDescriptor, K!EndScan,
     K!ScratchSkip, K!ScratchTake, K!FallbackSkip, K!FallbackTake, K!FallbackNextRange,
     K!NothingLeft, K!OutOfPages, K!LinkRoot, K!LinkTable, K!StartRequest, K!Descend,
     K!NeedTable, K!SetPte, K!SwitchCr3, K!TouchLoad, K!TouchFlip, K!TouchRestore,
     K!Stopped, K!Fail, K!HandOut, K!scanVars, K!vars

(* Before the first page is asked for.                                     *)
LEMMA ScanKeepsEnough ==
    ASSUME ChainBase, Entered, Good, Pool, Frozen, Enough,
           K!RejectMap \/ K!AcceptMap \/ K!ScanDescriptor \/ K!EndScan
    PROVE  Enough'
<1>1. boot.descs # << >>
  BY BootFacts
<1>2. /\ kpc \in {"enter", "scan"} /\ kpc' \in {"scan", "alloc"}
      /\ UNCHANGED <<k, code, fbIdx, fbNext, scratchNext, got, owned, mmapPhys>>
      /\ lvl' = lvl \/ lvl' = 0
      /\ kpc' = "alloc" => lvl' = 0
  BY <1>1 DEF K!RejectMap, K!AcceptMap, K!ScanDescriptor, K!EndScan, K!poolVars,
     K!walkVars, K!scanVars, Frozen
<1>3. Counting /\ owned = << >>
  BY <1>2 DEF Counting, Pool, NothingTaken
<1>4. WalkTypes /\ InOrder
  BY <1>3 DEF Enough
<1>5. WalkTypes'
  BY <1>2, <1>4 DEF WalkTypes, Requests
<1>6. InOrder'
  BY <1>2, <1>4 DEF InOrder
<1>7. TableCount'
  <2>1. Len(owned) <= 3 * k + 0
    BY <1>3, <1>4 DEF WalkTypes
  <2>2. Len(owned') <= 3 * k' + lvl' \/ kpc' # "alloc"
    BY <1>2, <2>1
  <2> QED
    BY <1>2, <2>2 DEF TableCount
<1> QED
  BY <1>5, <1>6, <1>7 DEF Enough

(* The next page of the pool is taken, and becomes the root or a table.    *)
LEMMA AllocKeepsEnough ==
    ASSUME TablesFit, ChainBase, Entered, Good, Pool, Frozen, Enough, kpc = "alloc", K!Next
    PROVE  Enough'
<1>1. /\ kpc' \in {"alloc", "link"} /\ UNCHANGED <<boot, i, k, lvl, code, mmapPhys>>
  BY DEF K!Next, K!RejectMap, K!AcceptMap, K!ScanDescriptor, K!EndScan,
     K!ScratchSkip, K!ScratchTake, K!FallbackSkip, K!FallbackTake, K!FallbackNextRange,
     K!NothingLeft, K!OutOfPages, K!LinkRoot, K!LinkTable, K!StartRequest, K!Descend,
     K!NeedTable, K!SetPte, K!SwitchCr3, K!TouchLoad, K!TouchFlip, K!TouchRestore,
     K!Stopped, K!HandOut, K!scanVars, K!walkVars, Frozen
<1>2. WalkTypes'
  BY <1>1 DEF Enough, WalkTypes, Requests
<1>3. ASSUME Counting' PROVE InOrder' /\ TableCount'
  <2>1. i = Len(boot.descs) /\ Counting
    BY <1>1, <1>3 DEF Counting
  <2>2. scratchNext < mmapAllocEnd /\ ~K!Live(boot, scratchNext) /\ scratchNext # 0
    BY <2>1, NextPageThere
  <2>3. K!ScratchTake
    BY <2>2 DEF K!Next, K!RejectMap, K!AcceptMap, K!ScanDescriptor, K!EndScan,
       K!ScratchSkip, K!FallbackSkip, K!FallbackTake, K!FallbackNextRange, K!FallbackLeft,
       K!NothingLeft, K!OutOfPages, K!LinkRoot, K!LinkTable, K!StartRequest, K!Descend,
       K!NeedTable, K!SetPte, K!SwitchCr3, K!TouchLoad, K!TouchFlip, K!TouchRestore,
       K!Stopped, K!ScratchLeft, K!ScratchEnd
  <2>4. /\ owned' = Append(owned, scratchNext) /\ got' = scratchNext /\ kpc' = "link"
        /\ scratchNext' = scratchNext + 1 /\ UNCHANGED <<fbIdx, fbNext>>
    BY <2>3 DEF K!ScratchTake, K!HandOut
  <2>5. /\ InOrder /\ Len(owned) <= 3 * k + lvl /\ owned \in Seq(Nat)
        /\ k \in Nat /\ lvl \in 0..3 /\ mmapPhys \in Nat
    BY <2>1, RegionFacts, HandoverAssumption
       DEF Enough, TableCount, WalkTypes, Pool, PoolTypes, ChainBase
  <2>6. Len(owned') = Len(owned) + 1 /\ Len(owned) \in Nat
    BY <2>4, <2>5
  <2> DEFINE n == Len(owned)
             m == Len(owned')
  <2>7. scratchNext = mmapPhys + n /\ n \in Nat /\ m = n + 1 /\ n <= 3 * k + lvl
    BY <2>5, <2>6 DEF InOrder
  <2> HIDE DEF n, m
  <2>8. scratchNext + 1 = mmapPhys + m /\ m <= 1 + 3 * k + lvl
    BY <2>5, <2>7
  <2>9. InOrder'
    BY <1>1, <2>4, <2>5, <2>8 DEF InOrder, m
  <2>10. TableCount'
    BY <1>1, <2>2, <2>4, <2>8 DEF TableCount, m
  <2> QED
    BY <2>9, <2>10
<1> QED
  BY <1>2, <1>3 DEF Enough

(* Neither a table linked, nor a level descended, nor an entry set costs   *)
(* more than is accounted for.                                             *)
LEMMA WalkKeepsEnough ==
    ASSUME ChainBase, Entered, Good, Pool, Frozen, Enough,
           kpc \notin {"enter", "scan", "alloc"}, K!Next
    PROVE  Enough'
<1> DEFINE n == Len(owned)
<1>1. k \in Nat /\ k <= Requests /\ lvl \in 0..3 /\ Requests \in Nat /\ n \in Nat
  BY RequestsOfBoot DEF Enough, WalkTypes, Pool, PoolTypes
<1>2. /\ owned' = owned /\ i' = i /\ boot' = boot
      /\ UNCHANGED <<scratchNext, fbIdx, fbNext, got, mmapPhys>>
  BY DEF K!Next, K!RejectMap, K!AcceptMap, K!ScanDescriptor, K!EndScan,
     K!ScratchSkip, K!ScratchTake, K!FallbackSkip, K!FallbackTake, K!FallbackNextRange,
     K!NothingLeft, K!OutOfPages, K!LinkRoot, K!LinkTable, K!StartRequest, K!Descend,
     K!NeedTable, K!SetPte, K!SwitchCr3, K!TouchLoad, K!TouchFlip, K!TouchRestore,
     K!Stopped, K!scanVars, K!poolVars, K!vars, Frozen
<1>3. Counting' => Counting
  BY CountingBack DEF Frozen
<1>4. Len(K!Work(boot)) = Requests
  BY RequestsOfBoot
<1> HIDE DEF n
<1>5. CASE K!StartRequest
  <2>1. kpc = "map" /\ k < Requests /\ lvl' = 0 /\ kpc' = "walk" /\ k' = k /\ code' = code
    BY <1>4, <1>5 DEF K!StartRequest
  <2>2. WalkTypes'
    BY <1>1, <2>1 DEF WalkTypes, Requests
  <2>3. Counting => n <= 1 + 3 * k
    BY <2>1 DEF Enough, TableCount, n
  <2>4. Counting => n <= 1 + 3 * k + 0
    BY <1>1, <2>3
  <2> QED
    BY <1>2, <1>3, <2>1, <2>2, <2>4 DEF Enough, InOrder, TableCount, n
<1>6. CASE K!Descend \/ K!NeedTable
  <2>1. kpc = "walk" /\ lvl < 3 /\ lvl' = lvl + 1 /\ kpc' \in {"walk", "alloc"}
        /\ k' = k /\ code' = code
    BY <1>6 DEF K!Descend, K!NeedTable
  <2>2. lvl + 1 \in 0..3 /\ k < Requests
    BY <1>1, <2>1 DEF Enough, WalkTypes
  <2>3. WalkTypes'
    BY <1>1, <2>1, <2>2 DEF WalkTypes, Requests
  <2>4. Counting => n <= 1 + 3 * k + lvl
    BY <2>1 DEF Enough, TableCount, n
  <2>5. Counting => n <= 3 * k + (lvl + 1) /\ n <= 1 + 3 * k + (lvl + 1)
    BY <1>1, <2>4
  <2> QED
    BY <1>2, <1>3, <2>1, <2>3, <2>5 DEF Enough, InOrder, TableCount, n
<1>7. CASE K!SetPte
  <2>1. kpc = "walk" /\ lvl = 3 /\ lvl' = lvl /\ kpc' = "map" /\ k' = k + 1 /\ code' = code
    BY <1>7 DEF K!SetPte
  <2>2. k + 1 \in Nat /\ k + 1 <= Requests
    BY <1>1, <2>1 DEF Enough, WalkTypes
  <2>3. WalkTypes'
    BY <1>1, <2>1, <2>2 DEF WalkTypes, Requests
  <2>4. Counting => n <= 1 + 3 * k + 3
    BY <2>1 DEF Enough, TableCount, n
  <2>5. Counting => n <= 1 + 3 * (k + 1)
    BY <1>1, <2>4
  <2> QED
    BY <1>2, <1>3, <2>1, <2>3, <2>5 DEF Enough, InOrder, TableCount, n
<1>8. CASE K!LinkRoot \/ K!LinkTable
  <2>1. /\ kpc = "link" /\ UNCHANGED <<k, lvl, code>>
        /\ (kpc' = "map" /\ lvl = 0) \/ (kpc' = "walk" /\ lvl > 0)
    BY <1>8 DEF K!LinkRoot, K!LinkTable, K!walkVars
  <2>2. WalkTypes'
    BY <1>1, <2>1 DEF Enough, WalkTypes, Requests
  <2>3. Counting => n <= 1 + 3 * k + lvl
    BY <2>1 DEF Enough, TableCount, n
  <2>4. Counting /\ lvl = 0 => n <= 1 + 3 * k
    BY <1>1, <2>3
  <2> QED
    BY <1>2, <1>3, <2>1, <2>2, <2>3, <2>4 DEF Enough, InOrder, TableCount, n
<1>9. CASE K!OutOfPages
  <2>1. kpc = "link" /\ got = 0 /\ UNCHANGED <<k, lvl>> /\ kpc' = "halt"
    BY <1>9 DEF K!OutOfPages, K!Fail, K!walkVars
  <2>2. ~Counting
    BY <2>1 DEF Enough, TableCount
  <2>3. WalkTypes'
    BY <1>1, <2>1 DEF WalkTypes, Requests
  <2> QED
    BY <1>3, <2>2, <2>3 DEF Enough
<1>10. CASE K!SwitchCr3 \/ K!TouchLoad \/ K!TouchFlip \/ K!TouchRestore
  <2>1. kpc' \in {"touch", "flip", "restore", "done"} /\ UNCHANGED <<k, lvl, code>>
    BY <1>10 DEF K!SwitchCr3, K!TouchLoad, K!TouchFlip, K!TouchRestore, K!walkVars
  <2>2. WalkTypes'
    BY <1>1, <2>1 DEF WalkTypes, Requests
  <2> QED
    BY <1>2, <1>3, <2>1, <2>2 DEF Enough, InOrder, TableCount
<1>11. CASE K!Stopped
  <2>1. UNCHANGED <<kpc, k, lvl, code>>
    BY <1>11 DEF K!Stopped, K!vars, K!walkVars
  <2> QED
    BY <1>2, <1>3, <2>1 DEF Enough, WalkTypes, Requests, InOrder, TableCount
<1>12. ~(K!RejectMap \/ K!AcceptMap \/ K!ScanDescriptor \/ K!EndScan \/ K!ScratchSkip
         \/ K!ScratchTake \/ K!FallbackSkip \/ K!FallbackTake \/ K!FallbackNextRange
         \/ K!NothingLeft)
  BY DEF K!RejectMap, K!AcceptMap, K!ScanDescriptor, K!EndScan, K!ScratchSkip,
     K!ScratchTake, K!FallbackSkip, K!FallbackTake, K!FallbackNextRange, K!NothingLeft
<1> QED
  BY <1>5, <1>6, <1>7, <1>8, <1>9, <1>10, <1>11, <1>12 DEF K!Next

(* Every step of the kernel keeps the account of tables.                   *)
LEMMA KernelKeepsEnough ==
    ASSUME TablesFit, ChainBase, Entered, Good, Pool, Frozen, Enough, K!Next
    PROVE  Enough'
<1>1. CASE kpc = "alloc"
  BY <1>1, AllocKeepsEnough
<1>2. CASE kpc \in {"enter", "scan"}
  <2>1. K!RejectMap \/ K!AcceptMap \/ K!ScanDescriptor \/ K!EndScan
    BY <1>2 DEF K!Next, K!ScratchSkip, K!ScratchTake, K!FallbackSkip, K!FallbackTake,
       K!FallbackNextRange, K!NothingLeft, K!OutOfPages, K!LinkRoot, K!LinkTable,
       K!StartRequest, K!Descend, K!NeedTable, K!SetPte, K!SwitchCr3, K!TouchLoad,
       K!TouchFlip, K!TouchRestore, K!Stopped
  <2> QED
    BY <2>1, ScanKeepsEnough
<1>3. CASE kpc \notin {"enter", "scan", "alloc"}
  BY <1>3, WalkKeepsEnough
<1> QED
  BY <1>1, <1>2, <1>3

(* The kernel starts with no table taken.                                  *)
LEMMA EnterStartsEnough ==
    ASSUME HandoverInv, BufferInv, Idle, ~Entered, EnterKernel, Good
    PROVE  Enough'
<1>1. /\ kpc' = "enter" /\ UNCHANGED <<fbIdx, fbNext, owned, k, lvl, code, mmapPhys>>
      /\ scratchNext' = boot'.mmapPhys /\ \E junk \in Garbage : boot' = Passed(junk)
  BY DEF EnterKernel, JumpKernel, allocVars
<1>2. fbIdx = 1 /\ fbNext = 0 /\ owned = << >> /\ k = 0 /\ lvl = 0 /\ code = "none"
  BY DEF Idle
<1>3. scratchNext' = mmapPhys /\ mmapPhys \in Nat
  BY <1>1, RecordFields, RegionFacts, HandoverAssumption
<1>4. mmapPhys + Len(owned) = mmapPhys
  BY <1>2, <1>3
<1>5. InOrder'
  BY <1>1, <1>2, <1>3, <1>4 DEF InOrder
<1>6. Requests \in Nat
  BY HandoverAssumption DEF Requests
<1>7. WalkTypes'
  BY <1>1, <1>2, <1>6 DEF WalkTypes, Requests
<1> QED
  BY <1>1, <1>5, <1>7 DEF Enough, TableCount

(* Every step of the chain keeps the account of tables.                    *)
LEMMA EnoughStep ==
    ASSUME TablesFit, ChainBase, PoolInv, EnoughInv, [ChainNext]_chainVars
    PROVE  EnoughInv'
<1>1. CASE Entered
  <2>1. /\ UNCHANGED <<services, pc, allocVars, mapVars>> /\ Entered' /\ boot' = boot
        /\ ~services => memType' = memType
        /\ KernelStep \/ UNCHANGED kernelVars
    BY <1>1, EnteredFreezes DEF ChainBase
  <2>2. Good' <=> Good
    BY <2>1 DEF Good, Accepted, Filled, AllAllocated, allocVars, mapVars
  <2>3. ASSUME Good PROVE Enough'
    <3>1. Frozen
      BY <2>1, <2>3 DEF Frozen, Good, Accepted, allocVars, mapVars
    <3>2. Pool /\ Enough
      BY <1>1, <2>3 DEF PoolInv, EnoughInv
    <3>3. CASE KernelStep
      <4>1. K!Next
        BY <3>3 DEF KernelStep
      <4> QED
        BY <1>1, <2>3, <3>1, <3>2, <4>1, KernelKeepsEnough
    <3>4. CASE UNCHANGED kernelVars
      BY <3>1, <3>2, <3>4
         DEF kernelVars, Enough, WalkTypes, Requests, InOrder, TableCount, Counting, Frozen
    <3> QED
      BY <2>1, <3>3, <3>4
  <2> QED
    BY <2>1, <2>2, <2>3 DEF EnoughInv
<1>2. CASE ~Entered /\ EnterKernel
  <2>1. Good' <=> Good
    BY <1>2 DEF EnterKernel, JumpKernel, Good, Accepted, Filled, AllAllocated,
       firmwareVars, allocVars, mapVars
  <2> QED
    BY <1>2, <2>1, EnterStartsEnough DEF EnoughInv, PoolInv, ChainBase
<1>3. CASE ~Entered /\ ~EnterKernel
  <2>1. ~KernelStep
    BY <1>3 DEF KernelStep, Entered
  <2>2. UNCHANGED kernelVars
    BY <1>3, <2>1 DEF ChainNext, LoaderStep, FirmwareStep, FirmwareInterrupt, Crashed, chainVars
  <2> QED
    BY <1>3, <2>2 DEF EnoughInv, Entered, kernelVars
<1> QED
  BY <1>1, <1>2, <1>3

(* The extra pages of the buffer are enough for the tables whenever there  *)
(* is one for each table Stage 1 may need and the scan was not cut short.  *)
THEOREM PagesSuffice ==
    ASSUME TablesFit
    PROVE  ChainSpec => [](ScanComplete => ExtraPagesSuffice)
<1>1. ChainInit => EnoughInv
  BY DEF ChainInit, EnoughInv, Entered
<1>2. ChainBase /\ PoolInv /\ EnoughInv /\ [ChainNext]_chainVars => EnoughInv'
  BY EnoughStep
<1>3. ChainBase /\ PoolInv /\ EnoughInv => (ScanComplete => ExtraPagesSuffice)
  <2> SUFFICES ASSUME PoolInv, EnoughInv, ChainBase, ScanComplete, Good
               PROVE  code = "none" /\ K!Untouched
    BY DEF ExtraPagesSuffice, Good
  <2>1. CASE ~Entered
    BY <2>1 DEF PoolInv, Idle, K!Untouched
  <2>2. CASE Entered
    <3>1. Counting
      BY <2>2 DEF ScanComplete, Counting, Entered
    <3> QED
      BY <2>2, <3>1 DEF EnoughInv, Enough, InOrder, K!Untouched
  <2> QED
    BY <2>1, <2>2
<1> QED
  BY <1>1, <1>2, <1>3, ChainSafe, PoolSafe, PTL DEF ChainSpec
-----------------------------------------------------------------------------
(* Without a buffer the pool starts at page 0, which is not a live page    *)
(* and is the first to be handed out.                                      *)
Bufferless == Entered /\ mmapPhys = 0 /\ kernelPhys # 0 /\ stackPhys # 0
Stuck ==
    /\ i \in Nat
    /\ kpc \in {"enter", "scan", "alloc", "link", "halt"}
    /\ kpc \in {"enter", "scan", "alloc"} => scratchNext = 0
    /\ kpc = "enter" => mmapAllocEnd = MapPages(mmapSize)
    /\ kpc \in {"scan", "alloc"} => mmapAllocEnd \in Nat \ {0}
    /\ kpc = "link" => got = 0
StuckInv == Bufferless => Stuck

(* What the kernel reads when it was passed no buffer.                     *)
LEMMA BufferlessBoot ==
    ASSUME ChainBase, Bufferless
    PROVE  /\ boot.mmapPhys = 0 /\ boot.mmapPages = MapPages(mmapSize)
           /\ boot.kernelPhys \in Nat \ {0} /\ boot.stackPhys \in Nat \ {0}
           /\ ~K!Live(boot, 0)
           /\ Len(boot.descs) = mmapSize /\ mmapSize \in Nat
           /\ \A n \in 1..mmapSize : /\ boot.descs[n].start \in Nat
                                     /\ boot.descs[n].pages \in Nat
<1>1. PICK junk \in Garbage : boot = Passed(junk)
  BY DEF ChainBase, Turns, Bufferless
<1>2. HandoverInv /\ BufferInv /\ mmapPhys = 0 /\ kernelPhys # 0 /\ stackPhys # 0
  BY DEF ChainBase, Bufferless
<1>3. ~Filled /\ mmapSize \in Nat /\ kernelPhys \in Ram /\ stackPhys \in Ram
  BY <1>2 DEF BufferInv, Filled, HandoverInv, TypeOK
<1>4. /\ boot.kernelPhys = kernelPhys /\ boot.kernelPages = KernelPages
      /\ boot.stackPhys = stackPhys /\ boot.mmapPhys = 0
      /\ boot.mmapPages = MapPages(mmapSize) /\ boot.descs = [n \in 1..mmapSize |-> junk]
  <2>1. /\ Passed(junk).kernelPhys = kernelPhys /\ Passed(junk).kernelPages = KernelPages
        /\ Passed(junk).stackPhys = stackPhys /\ Passed(junk).mmapPhys = mmapPhys
        /\ Passed(junk).mmapPages = MapPages(mmapSize)
        /\ Passed(junk).descs = [n \in 1..mmapSize |-> IF Filled THEN Nth(n) ELSE junk]
    BY RecordFields
  <2> QED
    BY <1>1, <1>2, <1>3, <2>1
<1>5. kernelPhys \in Nat \ {0} /\ stackPhys \in Nat \ {0}
  BY <1>3, HandoverAssumption
<1>6. ~K!Live(boot, 0)
  <2>1. 0 \notin K!Pages(kernelPhys, KernelPages) /\ 0 \notin K!Pages(stackPhys, StackPages)
    BY <1>5 DEF K!Pages
  <2> QED
    BY <2>1, <1>4 DEF K!Live, K!KernelSpan, K!StackSpan
<1>7. junk.start \in Nat /\ junk.pages \in Nat
  BY ChainAssumption
<1>8. Len(boot.descs) = mmapSize /\ \A n \in 1..mmapSize : boot.descs[n] = junk
  BY <1>3, <1>4
<1> QED
  BY <1>3, <1>4, <1>5, <1>6, <1>7, <1>8

(* The pool without a buffer is not empty.                                 *)
LEMMA HeadroomPositive ==
    ASSUME ChainBase, Bufferless
    PROVE  mmapSize > 0 => K!Headroom(boot) \in Nat \ {0}
<1> SUFFICES ASSUME mmapSize > 0 PROVE K!Headroom(boot) \in Nat \ {0}
  OBVIOUS
<1> DEFINE end == K!MmapEnd(boot)
           candidate == end + HeadroomPages
           stops == {p \in {boot.kernelPhys, boot.stackPhys} : end < p /\ p < candidate}
<1>1. end \in Nat \ {0}
  <2>1. MapPages(mmapSize) \in Nat \ {0}
    <3>1. DescsPerPage \in Nat \ {0} /\ mmapSize \in Nat \ {0}
      BY BufferlessBoot, HandoverAssumption
    <3> QED
      BY <3>1 DEF MapPages
  <2> QED
    BY <2>1, BufferlessBoot DEF K!MmapEnd
<1>2. candidate \in Nat \ {0}
  BY <1>1, ChainAssumption
<1>3. boot.kernelPhys \in Nat \ {0} /\ boot.stackPhys \in Nat \ {0}
  BY BufferlessBoot
<1>4. K!Headroom(boot) = IF stops = {} THEN candidate
                         ELSE CHOOSE p \in stops : \A q \in stops : p <= q
  BY DEF K!Headroom
<1>5. CASE stops = {}
  BY <1>2, <1>4, <1>5
<1>6. CASE stops # {}
  <2>1. \E p \in stops : \A q \in stops : p <= q
    <3>1. CASE boot.kernelPhys \in stops /\ boot.stackPhys \in stops
      <4>1. boot.kernelPhys <= boot.stackPhys \/ boot.stackPhys <= boot.kernelPhys
        BY <1>3
      <4>2. \A q \in stops : q = boot.kernelPhys \/ q = boot.stackPhys
        OBVIOUS
      <4> HIDE DEF stops
      <4> QED
        BY <1>3, <3>1, <4>1, <4>2
    <3>2. CASE boot.kernelPhys \in stops /\ boot.stackPhys \notin stops
      <4>1. \A q \in stops : q = boot.kernelPhys
        BY <3>2
      <4> HIDE DEF stops
      <4> QED
        BY <1>3, <3>2, <4>1
    <3>3. CASE boot.kernelPhys \notin stops
      <4>1. \A q \in stops : q = boot.stackPhys
        BY <3>3
      <4> HIDE DEF stops
      <4> QED
        BY <1>3, <1>6, <4>1
    <3> QED
      BY <3>1, <3>2, <3>3
  <2>2. \A p \in stops : p \in Nat \ {0}
    BY <1>3
  <2> HIDE DEF stops, candidate
  <2>3. (CHOOSE p \in stops : \A q \in stops : p <= q) \in stops
    BY <2>1
  <2> QED
    BY <1>4, <1>6, <2>2, <2>3
<1> QED
  BY <1>5, <1>6

(* A kernel without a buffer stays before its tables.                      *)
LEMMA KernelKeepsStuck ==
    ASSUME ChainBase, Bufferless, Stuck, K!Next, UNCHANGED mmapSize
    PROVE  Stuck'
<1>1. CASE kpc = "enter"
  <2>1. K!RejectMap \/ K!AcceptMap
    BY <1>1 DEF K!Next, K!ScanDescriptor, K!EndScan, K!ScratchSkip, K!ScratchTake,
       K!FallbackSkip, K!FallbackTake, K!FallbackNextRange, K!NothingLeft, K!OutOfPages,
       K!LinkRoot, K!LinkTable, K!StartRequest, K!Descend, K!NeedTable, K!SetPte,
       K!SwitchCr3, K!TouchLoad, K!TouchFlip, K!TouchRestore, K!Stopped
  <2>2. UNCHANGED <<i, mmapAllocEnd, scratchNext, got>>
    BY <2>1 DEF K!RejectMap, K!AcceptMap, K!scanVars, K!poolVars
  <2>3. kpc' = "halt" \/ (kpc' = "scan" /\ boot.descs # << >>)
    BY <2>1 DEF K!RejectMap, K!AcceptMap, K!Fail
  <2>4. boot.descs # << >> => mmapAllocEnd \in Nat \ {0}
    <3>1. boot.descs # << >> => mmapSize # 0
      BY BufferlessBoot
    <3>2. DescsPerPage \in Nat \ {0} /\ mmapSize \in Nat
      BY BufferlessBoot, HandoverAssumption
    <3>3. mmapSize # 0 => MapPages(mmapSize) \in Nat \ {0}
      BY <3>2 DEF MapPages
    <3> QED
      BY <1>1, <3>1, <3>3 DEF Stuck
  <2> QED
    BY <1>1, <2>2, <2>3, <2>4 DEF Stuck
<1>2. CASE kpc = "scan"
  <2>1. K!ScanDescriptor \/ K!EndScan
    BY <1>2 DEF K!Next, K!RejectMap, K!AcceptMap, K!ScratchSkip, K!ScratchTake,
       K!FallbackSkip, K!FallbackTake, K!FallbackNextRange, K!NothingLeft, K!OutOfPages,
       K!LinkRoot, K!LinkTable, K!StartRequest, K!Descend, K!NeedTable, K!SetPte,
       K!SwitchCr3, K!TouchLoad, K!TouchFlip, K!TouchRestore, K!Stopped
  <2>2. i \in Nat /\ mmapAllocEnd \in Nat \ {0} /\ scratchNext = 0
    BY <1>2 DEF Stuck
  <2>3. CASE K!ScanDescriptor
    <3> DEFINE d == boot.descs[i + 1]
    <3>1. /\ kpc' = "scan" /\ i' = i + 1 /\ scratchNext' = scratchNext /\ i < mmapSize
          /\ \/ mmapAllocEnd' = mmapAllocEnd
             \/ mmapAllocEnd' = d.start + d.pages /\ 0 \in K!Pages(d.start, d.pages)
      BY <1>2, <2>3, BufferlessBoot DEF K!ScanDescriptor, K!MoreToScan, K!EndOf, K!poolVars
    <3>2. i + 1 \in Nat /\ i + 1 \in 1..mmapSize
      BY <2>2, <3>1, BufferlessBoot
    <3>3. d.start \in Nat /\ d.pages \in Nat
      BY <3>2, BufferlessBoot
    <3> HIDE DEF d
    <3>4. 0 \in K!Pages(d.start, d.pages) => d.start + d.pages \in Nat \ {0}
      BY <3>3 DEF K!Pages
    <3>5. i' \in Nat /\ mmapAllocEnd' \in Nat \ {0} /\ scratchNext' = 0
      BY <2>2, <3>1, <3>2, <3>4
    <3> QED
      BY <3>1, <3>5 DEF Stuck
  <2>4. CASE K!EndScan
    <3>1. /\ kpc' = "alloc" /\ UNCHANGED <<i, scratchNext>>
          /\ \/ mmapAllocEnd' = mmapAllocEnd
             \/ mmapAllocEnd' = K!Headroom(boot) /\ mmapAllocEnd = K!MmapEnd(boot)
      BY <2>4 DEF K!EndScan, K!poolVars
    <3>2. mmapAllocEnd = K!MmapEnd(boot) => mmapSize > 0
      <4>1. K!MmapEnd(boot) = 0 + MapPages(mmapSize) /\ mmapSize \in Nat
            /\ DescsPerPage \in Nat \ {0}
        BY BufferlessBoot, HandoverAssumption DEF K!MmapEnd
      <4>2. mmapSize = 0 => 0 + MapPages(mmapSize) = 0
        BY <4>1 DEF MapPages
      <4> QED
        BY <2>2, <4>1, <4>2
    <3>3. mmapAllocEnd' \in Nat \ {0}
      BY <2>2, <3>1, <3>2, HeadroomPositive
    <3> QED
      BY <2>2, <3>1, <3>3 DEF Stuck
  <2> QED
    BY <2>1, <2>3, <2>4
<1>3. CASE kpc = "alloc"
  <2>1. scratchNext = 0 /\ mmapAllocEnd \in Nat \ {0} /\ ~K!Live(boot, scratchNext)
    BY <1>3, BufferlessBoot DEF Stuck
  <2>2. K!ScratchLeft
    BY <2>1 DEF K!ScratchLeft, K!ScratchEnd
  <2>3. K!ScratchTake
    BY <1>3, <2>1, <2>2 DEF K!Next, K!RejectMap, K!AcceptMap, K!ScanDescriptor, K!EndScan,
       K!ScratchSkip, K!FallbackSkip, K!FallbackTake, K!FallbackNextRange, K!FallbackLeft,
       K!NothingLeft, K!OutOfPages, K!LinkRoot, K!LinkTable, K!StartRequest, K!Descend,
       K!NeedTable, K!SetPte, K!SwitchCr3, K!TouchLoad, K!TouchFlip, K!TouchRestore,
       K!Stopped
  <2>4. kpc' = "link" /\ got' = 0 /\ i' = i
    BY <2>1, <2>3 DEF K!ScratchTake, K!HandOut, K!scanVars
  <2> QED
    BY <2>4 DEF Stuck
<1>4. CASE kpc \in {"link", "halt"}
  <2>1. K!OutOfPages \/ K!Stopped
    BY <1>4 DEF Stuck, K!Next, K!RejectMap, K!AcceptMap, K!ScanDescriptor, K!EndScan,
       K!ScratchSkip, K!ScratchTake, K!FallbackSkip, K!FallbackTake, K!FallbackNextRange,
       K!NothingLeft, K!LinkRoot, K!LinkTable, K!StartRequest, K!Descend, K!NeedTable,
       K!SetPte, K!SwitchCr3, K!TouchLoad, K!TouchFlip, K!TouchRestore
  <2>2. kpc' = "halt" /\ i' = i
    BY <1>4, <2>1 DEF K!OutOfPages, K!Fail, K!Stopped, K!vars, K!scanVars
  <2> QED
    BY <2>2 DEF Stuck
<1> QED
  BY <1>1, <1>2, <1>3, <1>4 DEF Stuck

(* Every step of the chain keeps a kernel without a buffer there.          *)
LEMMA StuckStep ==
    ASSUME ChainBase, PoolInv, StuckInv, [ChainNext]_chainVars
    PROVE  StuckInv'
<1>1. CASE Entered
  <2>1. /\ UNCHANGED <<allocVars, mapVars>> /\ Entered'
        /\ KernelStep \/ UNCHANGED kernelVars
    BY <1>1, EnteredFreezes DEF ChainBase
  <2>2. Bufferless' => Bufferless
    BY <1>1, <2>1 DEF Bufferless, allocVars
  <2>3. CASE KernelStep
    BY <2>1, <2>2, <2>3, KernelKeepsStuck DEF StuckInv, KernelStep, mapVars
  <2>4. CASE UNCHANGED kernelVars
    BY <2>1, <2>2, <2>4 DEF StuckInv, Stuck, MapPages, kernelVars, mapVars
  <2> QED
    BY <2>1, <2>3, <2>4
<1>2. CASE ~Entered /\ EnterKernel
  <2>1. /\ kpc' = "enter" /\ i' = i /\ scratchNext' = boot'.mmapPhys
        /\ mmapAllocEnd' = K!MmapEnd(boot') /\ mmapSize' = mmapSize /\ mmapPhys' = mmapPhys
        /\ \E junk \in Garbage : boot' = Passed(junk)
    BY <1>2 DEF EnterKernel, JumpKernel, allocVars, mapVars
  <2>2. i = 0 /\ boot'.mmapPhys = mmapPhys /\ boot'.mmapPages = MapPages(mmapSize)
    BY <1>2, <2>1, RecordFields DEF PoolInv, Idle
  <2>3. mmapSize \in Nat /\ DescsPerPage \in Nat \ {0}
    BY HandoverAssumption DEF ChainBase, HandoverInv, TypeOK
  <2>4. mmapPhys = 0 => mmapAllocEnd' = MapPages(mmapSize)
    <3>1. MapPages(mmapSize) \in Nat
      BY <2>3 DEF MapPages
    <3> QED
      BY <2>1, <2>2, <3>1 DEF K!MmapEnd
  <2> QED
    BY <2>1, <2>2, <2>4 DEF StuckInv, Bufferless, Stuck, MapPages
<1>3. CASE ~Entered /\ ~EnterKernel
  <2>1. ~KernelStep
    BY <1>3 DEF KernelStep, Entered
  <2>2. UNCHANGED kernelVars
    BY <1>3, <2>1 DEF ChainNext, LoaderStep, FirmwareStep, FirmwareInterrupt, Crashed, chainVars
  <2> QED
    BY <1>3, <2>2 DEF StuckInv, Bufferless, Entered, kernelVars
<1> QED
  BY <1>1, <1>2, <1>3

(* A kernel that was passed no buffer never gets as far as its tables: the *)
(* page 0 it is handed first is what allocPage returns for "no page".      *)
THEOREM NoBufferStops == ChainSpec => []NoBufferNoTables
<1>1. ChainInit => StuckInv
  BY DEF ChainInit, StuckInv, Bufferless, Entered
<1>2. ChainBase /\ PoolInv /\ StuckInv /\ [ChainNext]_chainVars => StuckInv'
  BY StuckStep
<1>3. StuckInv => NoBufferNoTables
  BY DEF StuckInv, Bufferless, Entered, Stuck, NoBufferNoTables
<1> QED
  BY <1>1, <1>2, <1>3, ChainSafe, PoolSafe, PTL DEF ChainSpec
=============================================================================
