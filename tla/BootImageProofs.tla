-------------------------- MODULE BootImageProofs --------------------------
(***************************************************************************)
(* The image tools, for kernels of any number of segments and images of    *)
(* any size: what is made can be read back, and the kernel arrives.        *)
(***************************************************************************)
EXTENDS BootImage, WellFoundedInduction, TLAPS

(* Induction over the naturals: a set that is not empty has a least        *)
(* element.                                                                *)
LEMMA LeastNat ==
    ASSUME NEW T, T \subseteq Nat, T # {}
    PROVE  \E x \in T : \A y \in T : x <= y
<1> DEFINE R == OpToRel(<, Nat)
<1>1. IsWellFoundedOn(R, Nat)
  BY NatLessThanWellFounded
<1>2. \E x \in T : \A y \in T : ~(<<y, x>> \in R)
  <2> HIDE DEF R
  <2> QED
    BY <1>1, WFMin
<1>3. PICK x \in T : \A y \in T : ~(<<y, x>> \in R)
  BY <1>2
<1>4. ASSUME NEW y \in T PROVE x <= y
  <2>1. x \in Nat /\ y \in Nat
    OBVIOUS
  <2>2. <<y, x>> \in Nat \X Nat /\ ~(<<y, x>> \in R)
    BY <2>1, <1>3
  <2>3. ~(y < x)
    BY <2>2 DEF OpToRel
  <2> QED
    BY <2>1, <2>3
<1> QED
  BY <1>4


(* A set of naturals that has a bound and is not empty has a greatest      *)
(* element.                                                                *)
LEMMA GreatestNat ==
    ASSUME NEW T, T \subseteq Nat, T # {}, NEW b \in Nat, \A x \in T : x <= b
    PROVE  \E x \in T : \A y \in T : x >= y
<1> DEFINE bounds == {n \in Nat : \A x \in T : x <= n}
<1>1. bounds \subseteq Nat /\ bounds # {}
  <2>1. b \in bounds
    OBVIOUS
  <2> QED
    BY <2>1
<1>2. PICK n \in bounds : \A m \in bounds : n <= m
  <2> HIDE DEF bounds
  <2> QED
    BY <1>1, LeastNat
<1>3. n \in Nat /\ \A x \in T : x <= n
  BY <1>2
<1>4. ASSUME n \notin T PROVE FALSE
  <2>1. PICK z \in T : TRUE
    OBVIOUS
  <2>2. \A x \in T : x \in Nat /\ x <= n /\ x # n
    BY <1>3, <1>4
  <2>3. n - 1 \in Nat /\ \A x \in T : x <= n - 1
    BY <1>3, <2>1, <2>2
  <2>4. n - 1 \in bounds
    BY <2>3
  <2> QED
    BY <1>2, <1>3, <2>4
<1> QED
  BY <1>3, <1>4

(* Finitely many naturals have a bound, by induction on their number.      *)
LEMMA Bounded ==
    ASSUME NEW n \in Nat, NEW f, \A k \in 1..n : f[k] \in Nat
    PROVE  \E b \in Nat : \A k \in 1..n : f[k] <= b
<1> DEFINE Bound(m, b) == \A k \in 1..m : f[k] <= b
           T == {m \in 0..n : ~\E b \in Nat : Bound(m, b)}
<1> SUFFICES ASSUME T # {} PROVE FALSE
  <2>1. n \in 0..n
    OBVIOUS
  <2> QED
    BY <2>1
<1>1. T \subseteq Nat
  OBVIOUS
<1>2. PICK m \in T : \A y \in T : m <= y
  <2> HIDE DEF T
  <2> QED
    BY <1>1, LeastNat
<1>3. m \in 0..n /\ ~\E b \in Nat : Bound(m, b)
  BY <1>2
<1>4. m # 0
  <2>1. ASSUME m = 0 PROVE Bound(m, 0)
    BY <2>1
  <2> QED
    BY <1>3, <2>1
<1>5. m - 1 \in 0..n /\ ~(m <= m - 1)
  BY <1>3, <1>4
<1>6. PICK b \in Nat : Bound(m - 1, b)
  BY <1>2, <1>5
<1>7. f[m] \in Nat
  BY <1>3, <1>4
<1>8. PICK c \in Nat : b <= c /\ f[m] <= c
  <2>1. b <= f[m] \/ f[m] <= b
    BY <1>7
  <2>2. b <= b /\ f[m] <= f[m]
    BY <1>7
  <2> QED
    BY <1>7, <2>1, <2>2
<1>9. ASSUME NEW k \in 1..m PROVE f[k] <= c
  <2>1. f[k] \in Nat
    BY <1>3
  <2>2. CASE k = m
    BY <1>8, <2>2
  <2>3. CASE k # m
    <3>1. k \in 1..(m - 1)
      BY <1>3, <2>3
    <3>2. f[k] <= b
      BY <1>6, <3>1
    <3> QED
      BY <1>8, <2>1, <3>2
  <2> QED
    BY <2>2, <2>3
<1> QED
  BY <1>3, <1>8, <1>9

(* A quotient rounded up: what dividing and multiplying again give.         *)
LEMMA RoundedUp ==
    ASSUME NEW n \in Int, NEW d \in Nat \ {0}
    PROVE  LET q == (n + d - 1) \div d
           IN  /\ q \in Int /\ q * d \in Int
               /\ n <= q * d /\ q * d < n + d
<1> DEFINE y == n + d - 1
<1>1. y \in Int /\ y \div d \in Int
  OBVIOUS
<1>2. (y \div d) * d <= y /\ y < (y \div d) * d + d /\ (y \div d) * d \in Int
  OBVIOUS
<1> QED
  BY <1>1, <1>2

Bytes == {<<"byte", a>> : a \in Nat} \cup {<<"zero">>, <<"other">>}

(* The fields of program headers are naturals, and no segment has more     *)
(* contents in the file than in memory.                                    *)
LEMMA HeaderTypes ==
    ASSUME NEW hs \in HeaderLists
    PROVE  /\ hs \in Seq(K!Header) /\ Len(hs) \in Nat /\ DOMAIN hs = 1..Len(hs)
           /\ \A n \in 1..Len(hs) :
                 /\ hs[n].load \in BOOLEAN
                 /\ hs[n].vaddr \in Nat /\ hs[n].filesz \in Nat /\ hs[n].memsz \in Nat
                 /\ hs[n].filesz <= hs[n].memsz
<1>1. hs \in Seq(K!Header) /\ \A n \in DOMAIN hs : hs[n].filesz <= hs[n].memsz
  BY BootImageAssumption DEF K!KernelImageConstants
<1>2. Len(hs) \in Nat /\ DOMAIN hs = 1..Len(hs) /\ \A n \in 1..Len(hs) : hs[n] \in K!Header
  BY <1>1
<1> QED
  BY <1>1, <1>2 DEF K!Header

(* A byte of the file is a byte.                                           *)
LEMMA FileByteType ==
    ASSUME NEW hs, NEW a \in Nat
    PROVE  K!FileByte(hs, a) \in Bytes
  BY DEF K!FileByte, Bytes

(* The raw image is no longer than to the end of the contents of some      *)
(* segment; if it starts at 0, no segment has contents behind its end.     *)
LEMMA ContentsEnd ==
    ASSUME NEW hs \in HeaderLists
    PROVE  LET r == K!Objcopy(hs)
           IN  /\ r \in Seq(Bytes) /\ Len(r) \in Nat
               /\ Len(r) = 0 \/ \E h \in K!Loads(hs) : Len(r) <= h.vaddr + h.filesz
               /\ K!LinkedAtZero(hs) =>
                     /\ \A k \in 1..Len(r) : r[k] = K!FileByte(hs, k - 1)
                     /\ \A h \in K!Loads(hs) : h.filesz > 0 => h.vaddr + h.filesz <= Len(r)
<1> DEFINE H == K!WithContents(hs)
           base == K!Base(hs)
           Ends == {h.vaddr + h.filesz : h \in H}
           T == {base} \cup Ends
           e == CHOOSE x \in T : \A y \in T : x >= y
           n == e - base
           f == [k \in 1..Len(hs) |-> hs[k].vaddr + hs[k].filesz]
           r == [k \in 1..n |-> K!FileByte(hs, base + k - 1)]
<1>1. /\ Len(hs) \in Nat /\ DOMAIN hs = 1..Len(hs)
      /\ \A k \in 1..Len(hs) : hs[k].vaddr \in Nat /\ hs[k].filesz \in Nat
  BY HeaderTypes
<1>2. \A k \in 1..Len(hs) : f[k] \in Nat
  BY <1>1
<1>3. PICK b \in Nat : \A k \in 1..Len(hs) : f[k] <= b
  <2> HIDE DEF f
  <2> QED
    BY <1>1, <1>2, Bounded
<1>4. ASSUME NEW h \in K!Loads(hs)
      PROVE  h.vaddr \in Nat /\ h.filesz \in Nat
             /\ h.vaddr + h.filesz \in Nat /\ h.vaddr + h.filesz <= b
  <2>1. PICK k \in 1..Len(hs) : h = hs[k]
    BY <1>1 DEF K!Loads
  <2>2. h.vaddr \in Nat /\ h.filesz \in Nat /\ f[k] = h.vaddr + h.filesz
    BY <1>1, <2>1
  <2> QED
    BY <1>2, <1>3, <2>2
<1>5. H \subseteq K!Loads(hs) /\ \A h \in K!Loads(hs) : h.filesz > 0 => h \in H
  BY DEF K!WithContents
<1>6. base \in Nat /\ \A h \in H : base <= h.vaddr
  <2>1. CASE H = {}
    BY <2>1 DEF K!Base
  <2>2. CASE H # {}
    <3> DEFINE V == {h.vaddr : h \in H}
    <3>1. V \subseteq Nat /\ V # {}
      BY <1>4, <1>5, <2>2
    <3>2. base = CHOOSE x \in V : \A y \in V : x <= y
      BY <2>2 DEF K!Base, K!Min
    <3>3. base \in V /\ \A y \in V : base <= y
      <4> HIDE DEF V, base
      <4> QED
        BY <3>1, <3>2, LeastNat
    <3> QED
      BY <3>1, <3>3
  <2> QED
    BY <2>1, <2>2
<1>7. K!Objcopy(hs) = r
  BY DEF K!Objcopy, K!Max
<1> HIDE DEF base, H
<1>8. PICK c \in Nat : b <= c /\ base <= c
  <2>1. b <= b + base /\ base <= b + base /\ b + base \in Nat
    BY <1>3, <1>6
  <2> QED
    BY <2>1
<1>9. T \subseteq Nat /\ T # {} /\ \A x \in T : x <= c
  <2>1. ASSUME NEW h \in H PROVE h.vaddr + h.filesz \in Nat /\ h.vaddr + h.filesz <= c
    BY <1>3, <1>4, <1>5, <1>8
  <2> QED
    BY <1>6, <1>8, <2>1
<1>10. e \in T /\ \A y \in T : e >= y
  <2> HIDE DEF T
  <2> QED
    BY <1>9, GreatestNat
<1>11. e \in Nat /\ base <= e /\ n \in Nat
  <2> HIDE DEF e
  <2>1. e \in Nat /\ base <= e
    BY <1>6, <1>9, <1>10
  <2> QED
    BY <1>6, <2>1
<1>12. \A h \in K!Loads(hs) : h.filesz > 0 => h.vaddr + h.filesz <= e
  <2> HIDE DEF e
  <2> QED
    BY <1>4, <1>5, <1>10, <1>11
<1>13. e = base \/ \E h \in K!Loads(hs) : e = h.vaddr + h.filesz
  BY <1>5, <1>10
<1> HIDE DEF e
<1>14. n = 0 \/ \E h \in K!Loads(hs) : n <= h.vaddr + h.filesz
  BY <1>6, <1>11, <1>13
<1>15. base = 0 => n = e
  BY <1>11
<1> HIDE DEF n
<1>16. \A k \in 1..n : K!FileByte(hs, base + k - 1) \in Bytes
  <2>1. \A k \in 1..n : base + k - 1 \in Nat
    BY <1>6, <1>11
  <2> QED
    BY <2>1, FileByteType
<1>17. /\ r \in Seq(Bytes) /\ Len(r) = n
       /\ \A k \in 1..n : r[k] = K!FileByte(hs, base + k - 1)
  BY <1>11, <1>16
<1>18. ASSUME base = 0, NEW k \in 1..n PROVE r[k] = K!FileByte(hs, k - 1)
  <2>1. base + k - 1 = k - 1
    BY <1>11, <1>18
  <2> HIDE DEF r
  <2> QED
    BY <1>17, <2>1
<1> HIDE DEF r
<1>19. K!LinkedAtZero(hs) <=> base = 0
  BY DEF K!LinkedAtZero, base
<1> QED
  BY <1>7, <1>11, <1>12, <1>14, <1>15, <1>17, <1>18, <1>19
-----------------------------------------------------------------------------
(* The kernel's way into memory.                                           *)
Stages == {"scan", "pad", "alloc", "copy", "loaded", "error"}
PcValues == {"read", "size", "check", "chain", "directories", "file", "made",
             "booted", "error"}

KernelTypes ==
    /\ headers \in HeaderLists /\ loaderSize \in LoaderSizes
    /\ stage \in Stages /\ kernelIndex \in Nat
    /\ end \in Nat /\ kernelPages \in Nat
    /\ raw \in Seq(Bytes) /\ memory \in Seq(Bytes)

(* The tools run before main reads the file, the loader after it.          *)
Turns ==
    /\ stage \in {"scan", "pad", "error"} => pc = "read"
    /\ stage \in {"copy", "loaded"} => pc = "booted"
    /\ stage \in {"scan", "pad", "alloc"} => memory = << >>
    /\ stage \in {"pad", "alloc"} => kernelIndex = 0

(* end is behind the memory of all segments seen.                          *)
EndInv ==
    /\ stage = "scan" =>
          /\ kernelIndex <= Len(headers)
          /\ \A n \in 1..kernelIndex :
                headers[n].load => headers[n].vaddr + headers[n].memsz <= end
    /\ stage # "scan" => \A h \in K!Loads(headers) : h.vaddr + h.memsz <= end
    /\ stage = "error" => end = 0

(* The raw image of a kernel linked at 0 has the contents of the file,     *)
(* padded with zeroes, until the firmware has read it, and then too when   *)
(* the sizes settled.                                                      *)
RawInv ==
    /\ stage \in {"scan", "pad"} => raw = K!Objcopy(headers)
    /\ stage = "pad" => Len(raw) <= end
    /\ stage \in {"alloc", "copy", "loaded"} => Len(raw) = end
    /\ (/\ K!LinkedAtZero(headers)
        /\ stage \in {"alloc", "copy", "loaded"} /\ (pc = "booted" => Settled)) =>
          \A k \in 1..Len(raw) : raw[k] = K!FileByte(headers, k - 1)

(* What is copied so far, and where to.                                    *)
CopyInv ==
    /\ K!CopiedIntoPages
    /\ stage \in {"copy", "loaded"} =>
          /\ Len(memory) = kernelIndex /\ kernelIndex <= Len(raw)
          /\ \A k \in 1..kernelIndex : memory[k] = raw[k]
    /\ stage = "loaded" => kernelIndex = Len(raw)

KernelInv == KernelTypes /\ Turns /\ EndInv /\ RawInv /\ CopyInv

(* Pages and blocks have bytes, and the loader is not empty.               *)
LEMMA PageFacts ==
    /\ PAGE \in Nat \ {0} /\ SectorBytes \in Nat \ {0} /\ LoaderSizes \subseteq Nat \ {0}
  BY BootImageAssumption DEF K!KernelImageConstants

(* The tools start with the contents of the file.                          *)
LEMMA KernelStarts == BootInit => KernelInv
<1> SUFFICES ASSUME BootInit PROVE KernelInv
  OBVIOUS
<1>1. /\ headers \in HeaderLists /\ loaderSize \in LoaderSizes /\ stage = "scan"
      /\ kernelIndex = 0 /\ end = 0 /\ raw = K!Objcopy(headers) /\ kernelPages = 0
      /\ memory = << >> /\ pc = "read"
  BY DEF BootInit, Init, K!Init
<1>2. raw \in Seq(Bytes) /\ Len(headers) \in Nat
  BY <1>1, ContentsEnd, HeaderTypes
<1>3. KernelTypes
  BY <1>1, <1>2 DEF KernelTypes, Stages
<1>4. EndInv
  BY <1>1, <1>2 DEF EndInv
<1> QED
  BY <1>1, <1>3, <1>4 DEF KernelInv, Turns, RawInv, CopyInv, K!CopiedIntoPages

(* A header seen moves end behind its memory.                              *)
LEMMA ScanHeaderKeeps ==
    ASSUME KernelInv, K!ScanHeader, UNCHANGED <<imageVars, loaderSize>>
    PROVE  KernelInv'
<1> DEFINE h == headers[kernelIndex + 1]
<1>1. /\ stage = "scan" /\ stage' = stage /\ kernelIndex < Len(headers)
      /\ end' = IF h.load /\ h.vaddr + h.memsz > end THEN h.vaddr + h.memsz ELSE end
      /\ kernelIndex' = kernelIndex + 1
      /\ UNCHANGED <<headers, raw, kernelPages, memory, pc, tries, loaderSize>>
  BY DEF K!ScanHeader, K!SegmentEnd, imageVars
<1>2. kernelIndex \in Nat /\ end \in Nat /\ Len(headers) \in Nat /\ headers \in HeaderLists
  BY HeaderTypes DEF KernelInv, KernelTypes
<1>3. kernelIndex + 1 \in 1..Len(headers) /\ kernelIndex + 1 <= Len(headers)
  BY <1>1, <1>2
<1>4. \A n \in 1..Len(headers) : headers[n].vaddr + headers[n].memsz \in Nat
  BY <1>2, HeaderTypes
<1>5. end' \in Nat /\ end <= end' /\ (h.load => h.vaddr + h.memsz <= end')
  <2> DEFINE e == h.vaddr + h.memsz
  <2>1. e \in Nat
    BY <1>3, <1>4
  <2>2. end' = IF h.load /\ e > end THEN e ELSE end
    BY <1>1
  <2> HIDE DEF e
  <2>3. end' \in Nat /\ end <= end' /\ (h.load => e <= end')
    BY <1>2, <2>1, <2>2
  <2> QED
    BY <2>3 DEF e
<1>6. KernelTypes'
  BY <1>1, <1>2, <1>5 DEF KernelInv, KernelTypes
<1>7. ASSUME NEW n \in 1..kernelIndex + 1, headers[n].load
      PROVE  headers[n].vaddr + headers[n].memsz <= end'
  <2>1. CASE n = kernelIndex + 1
    BY <1>5, <1>7, <2>1
  <2>2. CASE n # kernelIndex + 1
    <3>1. n \in 1..kernelIndex /\ n \in 1..Len(headers)
      BY <1>1, <1>2, <2>2
    <3>2. headers[n].vaddr + headers[n].memsz <= end
      BY <1>1, <1>7, <3>1 DEF KernelInv, EndInv
    <3> QED
      BY <1>2, <1>4, <1>5, <3>1, <3>2
  <2> QED
    BY <2>1, <2>2
<1>8. EndInv'
  BY <1>1, <1>3, <1>7 DEF EndInv
<1> QED
  BY <1>1, <1>6, <1>8 DEF KernelInv, Turns, RawInv, CopyInv, K!CopiedIntoPages

(* The contents of the file are never longer than the memory of the        *)
(* segments, so only a kernel without memory is refused.                   *)
LEMMA EndScanKeeps ==
    ASSUME KernelInv, K!EndScan, UNCHANGED <<imageVars, loaderSize>>
    PROVE  KernelInv'
<1>1. /\ stage = "scan" /\ kernelIndex = Len(headers) /\ kernelIndex' = 0
      /\ stage' = IF end = 0 \/ Len(raw) > end THEN "error" ELSE "pad"
      /\ UNCHANGED <<headers, end, raw, kernelPages, memory, pc, tries, loaderSize>>
  BY DEF K!EndScan, K!TooLong, imageVars
<1>2. headers \in HeaderLists /\ end \in Nat /\ raw = K!Objcopy(headers)
  BY <1>1 DEF KernelInv, KernelTypes, RawInv
<1>3. ASSUME NEW h \in K!Loads(headers)
      PROVE  h.vaddr + h.memsz <= end /\ h.vaddr + h.filesz <= h.vaddr + h.memsz
             /\ h.vaddr + h.filesz \in Nat /\ h.vaddr + h.memsz \in Nat
  <2>1. PICK n \in 1..Len(headers) : h = headers[n] /\ headers[n].load
    BY <1>2, HeaderTypes DEF K!Loads
  <2>2. h.vaddr + h.memsz <= end
    BY <1>1, <2>1 DEF KernelInv, EndInv
  <2>3. h.vaddr \in Nat /\ h.filesz \in Nat /\ h.memsz \in Nat /\ h.filesz <= h.memsz
    BY <1>2, <2>1, HeaderTypes
  <2> QED
    BY <2>2, <2>3
<1>4. Len(raw) \in Nat /\ Len(raw) <= end
  <2>1. Len(raw) \in Nat
    BY <1>2, ContentsEnd
  <2>2. CASE Len(raw) = 0
    BY <1>2, <2>2
  <2>3. CASE Len(raw) # 0
    <3>1. PICK h \in K!Loads(headers) : Len(raw) <= h.vaddr + h.filesz
      BY <1>2, <2>3, ContentsEnd
    <3> QED
      BY <1>2, <1>3, <2>1, <3>1
  <2> QED
    BY <2>1, <2>2, <2>3
<1>5. stage' = IF end = 0 THEN "error" ELSE "pad"
  BY <1>1, <1>2, <1>4
<1>6. KernelTypes'
  BY <1>1, <1>5 DEF KernelInv, KernelTypes, Stages
<1>7. EndInv'
  BY <1>1, <1>3, <1>5 DEF EndInv
<1>8. Turns' /\ RawInv'
  BY <1>1, <1>2, <1>4, <1>5 DEF KernelInv, Turns, RawInv
<1> QED
  BY <1>1, <1>5, <1>6, <1>7, <1>8 DEF KernelInv, CopyInv, K!CopiedIntoPages

(* Two sequences put together.                                             *)
LEMMA Concatenated ==
    ASSUME NEW S, NEW s \in Seq(S), NEW t \in Seq(S)
    PROVE  /\ s \o t \in Seq(S) /\ Len(s \o t) = Len(s) + Len(t)
           /\ \A k \in 1..Len(s) + Len(t) :
                 (s \o t)[k] = IF k <= Len(s) THEN s[k] ELSE t[k - Len(s)]
  OBVIOUS

(* Padding adds zeroes where no segment has contents.                      *)
LEMMA PadKeeps ==
    ASSUME KernelInv, K!Pad, UNCHANGED <<imageVars, loaderSize>>
    PROVE  KernelInv'
<1> DEFINE n == end - Len(raw)
           zeroes == [k \in 1..n |-> <<"zero">>]
<1>1. /\ stage = "pad" /\ stage' = "alloc" /\ raw' = raw \o zeroes
      /\ UNCHANGED <<headers, kernelIndex, end, kernelPages, memory, pc, tries, loaderSize>>
  BY DEF K!Pad, imageVars
<1>2. /\ headers \in HeaderLists /\ end \in Nat /\ raw = K!Objcopy(headers)
      /\ Len(raw) \in Nat /\ Len(raw) <= end /\ raw \in Seq(Bytes) /\ pc = "read"
  BY <1>1, ContentsEnd DEF KernelInv, KernelTypes, RawInv, Turns
<1>3. n \in Nat /\ Len(raw) + n = end
  BY <1>2
<1>4. zeroes \in Seq(Bytes) /\ Len(zeroes) = n /\ \A k \in 1..n : zeroes[k] = <<"zero">>
  <2>1. <<"zero">> \in Bytes
    BY DEF Bytes
  <2> HIDE DEF n
  <2> QED
    BY <1>3, <2>1
<1> HIDE DEF n, zeroes
<1>5. /\ raw' \in Seq(Bytes) /\ Len(raw') = end
      /\ \A k \in 1..end : raw'[k] = IF k <= Len(raw) THEN raw[k] ELSE zeroes[k - Len(raw)]
  <2>1. /\ raw \o zeroes \in Seq(Bytes) /\ Len(raw \o zeroes) = Len(raw) + Len(zeroes)
        /\ \A k \in 1..Len(raw) + Len(zeroes) :
              (raw \o zeroes)[k] = IF k <= Len(raw) THEN raw[k] ELSE zeroes[k - Len(raw)]
    BY <1>2, <1>4, Concatenated
  <2>2. Len(raw) + Len(zeroes) = end
    BY <1>3, <1>4
  <2> QED
    BY <1>1, <2>1, <2>2
<1>6. ASSUME K!LinkedAtZero(headers), NEW k \in 1..end PROVE raw'[k] = K!FileByte(headers, k - 1)
  <2>1. CASE k <= Len(raw)
    <3>1. k \in 1..Len(raw)
      BY <1>2, <2>1
    <3>2. raw'[k] = raw[k]
      BY <1>5, <2>1
    <3> QED
      BY <1>2, <1>6, <3>1, <3>2, ContentsEnd
  <2>2. CASE ~(k <= Len(raw))
    <3>1. k - Len(raw) \in 1..n
      BY <1>2, <1>3, <2>2
    <3>2. raw'[k] = <<"zero">>
      BY <1>4, <1>5, <2>2, <3>1
    <3>3. ASSUME NEW h \in K!Loads(headers), k - 1 \in h.vaddr .. h.vaddr + h.filesz - 1
          PROVE  FALSE
      <4>1. h.vaddr \in Nat /\ h.filesz \in Nat
        BY <1>2, HeaderTypes DEF K!Loads
      <4>2. h.filesz > 0 /\ k <= h.vaddr + h.filesz
        BY <3>3, <4>1
      <4>3. h.vaddr + h.filesz <= Len(raw)
        BY <1>2, <1>6, <4>2, ContentsEnd
      <4> QED
        BY <1>2, <2>2, <4>1, <4>2, <4>3
    <3> QED
      BY <3>2, <3>3 DEF K!FileByte
  <2> QED
    BY <2>1, <2>2
<1>7. KernelTypes'
  BY <1>1, <1>5 DEF KernelInv, KernelTypes, Stages
<1>8. RawInv'
  BY <1>1, <1>5, <1>6 DEF RawInv
<1>9. EndInv' /\ Turns'
  BY <1>1, <1>2 DEF KernelInv, EndInv, Turns
<1> QED
  BY <1>1, <1>7, <1>8, <1>9 DEF KernelInv, CopyInv, K!CopiedIntoPages

(* The pages asked for have room for the image, and the last one is needed.*)
LEMMA AllocKernelKeeps ==
    ASSUME KernelInv, pc = "booted", K!AllocKernel, UNCHANGED <<imageVars, loaderSize>>
    PROVE  KernelInv'
<1> DEFINE n == Len(raw)
           q == (n + PAGE - 1) \div PAGE
<1>1. /\ stage = "alloc" /\ stage' = "copy" /\ kernelPages' = IF q = 0 THEN 1 ELSE q
      /\ UNCHANGED <<headers, kernelIndex, end, raw, memory, pc, tries, loaderSize>>
  BY DEF K!AllocKernel, K!PagesFor, imageVars
<1>2. n \in Nat /\ kernelIndex = 0 /\ memory = << >> /\ PAGE \in Nat \ {0}
  BY <1>1, PageFacts DEF KernelInv, KernelTypes, Turns
<1>3. q \in Int /\ q * PAGE \in Int /\ n <= q * PAGE /\ q * PAGE < n + PAGE
  <2> HIDE DEF n
  <2> QED
    BY <1>2, RoundedUp
<1> HIDE DEF q, n
<1>4. q \in Nat /\ (q = 0 => n = 0)
  BY <1>2, <1>3
<1>5. (q - 1) * PAGE = q * PAGE - PAGE
  BY <1>2, <1>3
<1>6. /\ kernelPages' \in Nat /\ n <= kernelPages' * PAGE
      /\ kernelPages' > 1 => n > (kernelPages' - 1) * PAGE
  <2>1. CASE q = 0
    <3>1. kernelPages' = 1 /\ n = 0
      BY <1>1, <1>4, <2>1
    <3> QED
      BY <1>2, <3>1
  <2>2. CASE q # 0
    <3>1. kernelPages' = q
      BY <1>1, <2>2
    <3> QED
      BY <1>2, <1>3, <1>4, <1>5, <3>1
  <2> QED
    BY <2>1, <2>2
<1>7. KernelTypes'
  BY <1>1, <1>6 DEF KernelInv, KernelTypes, Stages
<1>8. CopyInv'
  BY <1>1, <1>2, <1>6 DEF CopyInv, K!CopiedIntoPages, n
<1> QED
  BY <1>1, <1>7, <1>8 DEF KernelInv, Turns, EndInv, RawInv, Settled

(* A byte is copied to its place.                                          *)
LEMMA CopyByteKeeps ==
    ASSUME KernelInv, pc = "booted", K!CopyByte, UNCHANGED <<imageVars, loaderSize>>
    PROVE  KernelInv'
<1>1. /\ stage = "copy" /\ kernelIndex < Len(raw) /\ memory' = Append(memory, raw[kernelIndex + 1])
      /\ kernelIndex' = kernelIndex + 1
      /\ UNCHANGED <<headers, stage, end, raw, kernelPages, pc, tries, loaderSize>>
  BY DEF K!CopyByte, imageVars
<1>2. /\ kernelIndex \in Nat /\ raw \in Seq(Bytes) /\ memory \in Seq(Bytes)
      /\ Len(memory) = kernelIndex /\ \A k \in 1..kernelIndex : memory[k] = raw[k]
  BY <1>1 DEF KernelInv, KernelTypes, CopyInv
<1>3. kernelIndex + 1 \in 1..Len(raw) /\ raw[kernelIndex + 1] \in Bytes
  BY <1>1, <1>2
<1>4. /\ memory' \in Seq(Bytes) /\ Len(memory') = kernelIndex + 1
      /\ \A k \in 1..kernelIndex + 1 : memory'[k] = raw[k]
  <2> DEFINE x == raw[kernelIndex + 1]
  <2>1. x \in Bytes /\ memory' = Append(memory, x)
    BY <1>1, <1>3
  <2> HIDE DEF x
  <2>2. /\ memory' \in Seq(Bytes) /\ Len(memory') = kernelIndex + 1
        /\ memory'[kernelIndex + 1] = x
        /\ \A k \in 1..kernelIndex : memory'[k] = memory[k]
    BY <1>2, <2>1
  <2>3. ASSUME NEW k \in 1..kernelIndex + 1 PROVE k \in 1..kernelIndex \/ k = kernelIndex + 1
    BY <1>2
  <2> QED
    BY <1>2, <2>2, <2>3 DEF x
<1>5. KernelTypes'
  BY <1>1, <1>2, <1>4 DEF KernelInv, KernelTypes
<1>6. kernelIndex' <= Len(raw)
  BY <1>1, <1>3
<1>7. CopyInv'
  BY <1>1, <1>4, <1>6 DEF KernelInv, CopyInv, K!CopiedIntoPages
<1> QED
  BY <1>1, <1>5, <1>7 DEF KernelInv, Turns, EndInv, RawInv, Settled

(* The copying ends with the last byte.                                    *)
LEMMA EndCopyKeeps ==
    ASSUME KernelInv, pc = "booted", K!EndCopy, UNCHANGED <<imageVars, loaderSize>>
    PROVE  KernelInv'
<1>1. /\ stage = "copy" /\ stage' = "loaded" /\ kernelIndex = Len(raw)
      /\ UNCHANGED <<headers, kernelIndex, end, raw, kernelPages, memory, pc, tries, loaderSize>>
  BY DEF K!EndCopy, imageVars
<1>2. KernelTypes'
  BY <1>1 DEF KernelInv, KernelTypes, Stages
<1>3. CopyInv'
  BY <1>1 DEF KernelInv, CopyInv, K!CopiedIntoPages
<1> QED
  BY <1>1, <1>2, <1>3 DEF KernelInv, Turns, EndInv, RawInv, Settled
-----------------------------------------------------------------------------
(* The image. An entry is set where there is one, and nothing else changes.*)
LEMMA EntrySet ==
    ASSUME NEW t \in Seq(Int), NEW c \in Nat, NEW v \in Int
    PROVE  /\ SetEntry(t, c, v) \in Seq(Int)
           /\ c < Len(t) =>
                 /\ Len(SetEntry(t, c, v)) = Len(t)
                 /\ SetEntry(t, c, v)[c + 1] = v
                 /\ \A k \in 1..Len(t) : k # c + 1 => SetEntry(t, c, v)[k] = t[k]
<1>1. Len(t) \in Nat /\ DOMAIN t = 1..Len(t)
  OBVIOUS
<1>2. CASE c < Len(t)
  <2> DEFINE u == [t EXCEPT ![c + 1] = v]
  <2>1. SetEntry(t, c, v) = u
    BY <1>2 DEF SetEntry
  <2>2. c + 1 \in 1..Len(t)
    BY <1>1, <1>2
  <2>3. u \in Seq(Int) /\ Len(u) = Len(t)
    BY <1>1, <2>2
  <2>4. u[c + 1] = v /\ \A k \in 1..Len(t) : k # c + 1 => u[k] = t[k]
    BY <1>1, <2>2
  <2> HIDE DEF u
  <2> QED
    BY <2>1, <2>3, <2>4
<1>3. CASE ~(c < Len(t))
  BY <1>3 DEF SetEntry
<1> QED
  BY <1>2, <1>3

Tables == [1..Fats -> Seq(Int)]

(* An entry is set in both FATs.                                           *)
LEMMA BothSet ==
    ASSUME NEW t \in Tables, NEW c \in Nat, NEW v \in Int
    PROVE  /\ SetBoth(t, c, v) \in Tables
           /\ \A n \in 1..Fats : SetBoth(t, c, v)[n] = SetEntry(t[n], c, v)
<1>1. \A n \in 1..Fats : SetEntry(t[n], c, v) \in Seq(Int)
  BY EntrySet DEF Tables
<1> QED
  BY <1>1 DEF SetBoth, Tables

(* Following the chain leads through the clusters in order.                *)
LEMMA ChainFollowed ==
    ASSUME NEW t, Needed \in Nat \ {0},
           \A j \in 0..Needed - 2 : t[FirstCluster + j + 1] = FirstCluster + j + 1
    PROVE  \A k \in 1..Needed : Cluster(t)[k] = FirstCluster + k - 1
<1> DEFINE N == Needed
           Is(g) == g = [k \in 1..N |-> IF k = 1 THEN FirstCluster ELSE t[g[k - 1] + 1]]
           right == [k \in 1..N |-> FirstCluster + k - 1]
<1>1. FirstCluster = 4
  BY DEF FirstCluster
<1>2. ASSUME NEW k \in 1..N, k # 1
      PROVE  k - 1 \in 1..N /\ k - 2 \in 0..N - 2 /\ t[FirstCluster + (k - 1) - 1 + 1] = FirstCluster + k - 1
  <2>1. k - 1 \in 1..N /\ k - 2 \in 0..N - 2
    BY <1>2
  <2>2. t[FirstCluster + (k - 2) + 1] = FirstCluster + (k - 2) + 1
    BY <2>1
  <2>3. FirstCluster + (k - 2) + 1 = FirstCluster + (k - 1) - 1 + 1
        /\ FirstCluster + (k - 2) + 1 = FirstCluster + k - 1
    BY <1>1, <2>1
  <2> QED
    BY <2>1, <2>2, <2>3
<1> HIDE DEF N
<1>3. N \in Nat \ {0}
  BY DEF N
<1>4. Is(right)
  <2>1. ASSUME NEW k \in 1..N
        PROVE  FirstCluster + k - 1 = IF k = 1 THEN FirstCluster ELSE t[right[k - 1] + 1]
    <3>1. CASE k = 1
      BY <1>1, <3>1
    <3>2. CASE k # 1
      BY <1>2, <3>2
    <3> QED
      BY <3>1, <3>2
  <2>2. right = [k \in 1..N |-> IF k = 1 THEN FirstCluster ELSE t[right[k - 1] + 1]]
    BY <2>1
  <2> QED
    BY <2>2
<1>5. Cluster(t) = CHOOSE g : Is(g)
  BY DEF Cluster, N
<1>6. ASSUME NEW g, Is(g), NEW l \in 1..N, g[l] # FirstCluster + l - 1 PROVE FALSE
  <2> DEFINE T == {k \in 1..N : g[k] # FirstCluster + k - 1}
  <2>1. T \subseteq Nat /\ T # {}
    <3>1. l \in T
      BY <1>6
    <3>2. T \subseteq Nat
      BY <1>3
    <3> QED
      BY <3>1, <3>2
  <2>2. PICK k \in T : \A y \in T : k <= y
    <3> HIDE DEF T
    <3> QED
      BY <2>1, LeastNat
  <2>3. k \in 1..N /\ g[k] # FirstCluster + k - 1
    BY <2>2
  <2>4. g[k] = IF k = 1 THEN FirstCluster ELSE t[g[k - 1] + 1]
    BY <1>6, <2>3
  <2>5. k # 1
    BY <1>1, <2>3, <2>4
  <2>6. k - 1 \in 1..N /\ ~(k <= k - 1) /\ t[FirstCluster + (k - 1) - 1 + 1] = FirstCluster + k - 1
    BY <1>2, <2>3, <2>5
  <2>7. g[k - 1] = FirstCluster + (k - 1) - 1
    BY <2>2, <2>6
  <2> QED
    BY <2>3, <2>4, <2>5, <2>6, <2>7
<1>7. Is(CHOOSE g : Is(g))
  <2> HIDE DEF Is
  <2> QED
    BY <1>4
<1>8. \A l \in 1..N : (CHOOSE g : Is(g))[l] = FirstCluster + l - 1
  <2> DEFINE c == CHOOSE g : Is(g)
  <2>1. Is(c)
    BY <1>7
  <2> HIDE DEF c, Is
  <2> QED
    BY <1>6, <2>1 DEF c
<1> HIDE DEF Is
<1> QED
  BY <1>5, <1>8 DEF N
-----------------------------------------------------------------------------
(* The image so far.                                                       *)
Working == pc \in {"chain", "directories", "file", "made", "booted"}
Blks == {Empty} \cup {<<"dir", c>> : c \in Nat} \cup {<<"file", k>> : k \in Nat}
Fits == Needed + 2 <= DataSectors(fatSectors)

FatTypes ==
    /\ total \in Nat /\ file \in Nat /\ i \in Nat /\ tries \in Nat
    /\ pc \in PcValues /\ fatSectors \in Int /\ clusterCount \in Int
    /\ Working => fat \in Tables /\ data \in [1..DataSectors(fatSectors) -> Blks]

(* The sizes depend on each other as they should when the iteration has    *)
(* settled, and an error has its reason.                                   *)
SizeInv ==
    /\ pc = "read" => tries = 0
    /\ (pc = "check" \/ Working) =>
          /\ fatSectors = FatFor(clusterCount)
          /\ Settled => clusterCount = DataSectors(fatSectors)
    /\ Working => ~CannotBeMade
    /\ RefusedOnlyWhenTooLarge
    /\ pc # "read" => file = Blocks(loaderSize + Len(raw))

(* Where the loops stand.                                                  *)
Chained == IF pc = "chain" THEN i ELSE Needed
Written == IF pc = "file" THEN i ELSE IF pc \in {"made", "booted"} THEN Needed ELSE 0
IndexInv ==
    /\ pc \notin {"chain", "file", "made", "booted", "error"} => i = 0
    /\ pc \in {"chain", "file"} => i < Needed
    /\ pc \in {"made", "booted"} => Fits

(* The file is chained in both FATs, which have not grown, if it fits.     *)
ChainInv ==
    (Working /\ Settled /\ Fits) =>
        \A n \in 1..Fats :
            /\ Len(fat[n]) = fatSectors * EntriesPerSector
            /\ \A j \in 0..Chained - 1 :
                  fat[n][FirstCluster + j + 1] =
                      IF j + 1 = Needed THEN EOC ELSE FirstCluster + j + 1

(* The directories and the blocks of the file are in their sectors.        *)
BlockInv ==
    /\ (pc \in {"file", "made", "booted"} /\ Fits) =>
          data[1] = <<"dir", BootDir>> /\ data[2] = <<"dir", FirstCluster>>
    /\ Working => \A j \in 0..Written - 1 :
          j + 3 \in 1..DataSectors(fatSectors) /\ data[j + 3] = <<"file", j + 1>>

ImageInv == FatTypes /\ SizeInv /\ IndexInv /\ ChainInv /\ BlockInv

(* Nothing is made at the start.                                           *)
LEMMA ImageStarts == BootInit => ImageInv
<1> SUFFICES ASSUME BootInit PROVE ImageInv
  OBVIOUS
<1>1. total \in Nat /\ file = 0 /\ pc = "read" /\ tries = 0 /\ i = 0 /\ fatSectors = 1 /\ clusterCount = 0
  BY FatAssumption DEF BootInit, Init
<1> QED
  BY <1>1 DEF ImageInv, FatTypes, SizeInv, IndexInv, ChainInv, BlockInv, Working, PcValues,
              RefusedOnlyWhenTooLarge

(* A file takes at least one cluster.                                      *)
LEMMA NeededType == file \in Nat => Needed \in Nat \ {0}
  BY DEF Needed

(* The number of data sectors is an integer.                               *)
LEMMA SectorsType ==
    ASSUME FatTypes, NEW f \in Int
    PROVE  DataSectors(f) \in Int
  BY FatAssumption DEF FatTypes, DataSectors, Reserved, Fats

(* A FAT has an entry for each cluster and the two reserved ones.          *)
LEMMA FatIsEnough ==
    ASSUME NEW n \in Int
    PROVE  /\ FatFor(n) \in Int
           /\ n >= 0 => /\ FatFor(n) \in Nat /\ FatFor(n) * EntriesPerSector \in Nat
                        /\ n + 2 <= FatFor(n) * EntriesPerSector
<1> DEFINE m == n + 2
           E == EntriesPerSector
           q == (m + E - 1) \div E
<1>1. E \in Nat \ {0} /\ m \in Int
  BY FatAssumption
<1>2. FatFor(n) = q
  BY DEF FatFor
<1>3. q \in Int /\ q * E \in Int /\ m <= q * E
  <2> HIDE DEF m, E
  <2> QED
    BY <1>1, RoundedUp
<1> HIDE DEF q, E
<1>4. n >= 0 => q \in Nat /\ q * E \in Nat
  BY <1>1, <1>3
<1> QED
  BY <1>2, <1>3, <1>4 DEF E

(* The file read has the size of loader and blob.                          *)
LEMMA ReadKeeps ==
    ASSUME ImageInv, KernelInv, stage = "alloc", ReadFile(Blocks(loaderSize + Len(raw))),
           UNCHANGED <<kernelVars, loaderSize>>
    PROVE  ImageInv'
<1>1. /\ pc = "read" /\ pc' = "size" /\ file' = Blocks(loaderSize + Len(raw))
      /\ UNCHANGED <<total, fatSectors, clusterCount, tries, i, fat, data, raw, loaderSize>>
  BY DEF ReadFile, kernelVars
<1>2. file' \in Nat
  <2> DEFINE n == loaderSize + Len(raw)
  <2>1. n \in Nat /\ SectorBytes \in Nat \ {0}
    BY PageFacts DEF KernelInv, KernelTypes
  <2> HIDE DEF n
  <2>2. Blocks(n) \in Int /\ Blocks(n) * SectorBytes \in Int /\ n <= Blocks(n) * SectorBytes
    BY <2>1, RoundedUp DEF Blocks
  <2>3. Blocks(n) >= 0
    BY <2>1, <2>2
  <2> QED
    BY <1>1, <2>2, <2>3 DEF n
<1>3. i = 0
  BY <1>1 DEF ImageInv, IndexInv
<1> QED
  BY <1>1, <1>2, <1>3 DEF ImageInv, FatTypes, SizeInv, IndexInv, ChainInv, BlockInv, Working, PcValues,
              RefusedOnlyWhenTooLarge, Blocks

(* When the iteration ends before its limit, the two sizes fit each other. *)
LEMMA SizeFatKeeps ==
    ASSUME ImageInv, SizeFat, UNCHANGED <<kernelVars, loaderSize>>
    PROVE  ImageInv'
<1>1. /\ pc = "size" /\ clusterCount' = DataSectors(fatSectors)
      /\ fatSectors' = FatFor(clusterCount') /\ tries' = tries + 1
      /\ pc' = IF fatSectors' = fatSectors \/ tries' = 20 THEN "check" ELSE "size"
      /\ UNCHANGED <<total, file, i, fat, data, raw, loaderSize>>
  BY DEF SizeFat, kernelVars
<1>2. clusterCount' \in Int /\ fatSectors' \in Int
  BY <1>1, SectorsType, FatIsEnough DEF ImageInv, FatTypes
<1>3. FatTypes'
  BY <1>1, <1>2 DEF ImageInv, FatTypes, Working, PcValues
<1>4. (pc' = "check" /\ Settled') => clusterCount' = DataSectors(fatSectors)'
  <2>1. (pc' = "check" /\ Settled') => fatSectors' = fatSectors
    BY <1>1 DEF Settled
  <2> QED
    BY <1>1, <2>1 DEF DataSectors
<1>5. SizeInv'
  BY <1>1, <1>4 DEF ImageInv, SizeInv, Working, RefusedOnlyWhenTooLarge, FatFor, Blocks
<1> QED
  BY <1>1, <1>3, <1>5 DEF ImageInv, IndexInv, ChainInv, BlockInv, Working

(* A refusal has its reason.                                               *)
LEMMA RefuseKeeps ==
    ASSUME ImageInv, Refuse, UNCHANGED <<kernelVars, loaderSize>>
    PROVE  ImageInv'
<1>1. /\ pc = "check" /\ CannotBeMade /\ pc' = "error"
      /\ UNCHANGED <<total, file, fatSectors, clusterCount, tries, i, fat, data, raw, loaderSize>>
  BY DEF Refuse, kernelVars, geometry
<1>2. CannotBeMade'
  BY <1>1 DEF CannotBeMade, DataSectors, Needed
<1> QED
  BY <1>1, <1>2 DEF ImageInv, FatTypes, SizeInv, IndexInv, ChainInv, BlockInv, Working, PcValues,
              RefusedOnlyWhenTooLarge, Blocks

(* While the image is made: the sizes, and that they are large enough.     *)
LEMMA SizesWorking ==
    ASSUME FatTypes, pc = "check" \/ Working, ~CannotBeMade,
           fatSectors = FatFor(clusterCount)
    PROVE  /\ clusterCount >= 10 /\ fatSectors \in Nat
           /\ fatSectors * EntriesPerSector \in Nat
           /\ clusterCount + 2 <= fatSectors * EntriesPerSector
           /\ DataSectors(fatSectors) \in Nat \ {0}
<1>1. clusterCount \in Int /\ clusterCount >= 10
  BY DEF FatTypes, CannotBeMade
<1>2. /\ fatSectors \in Nat /\ fatSectors * EntriesPerSector \in Nat
      /\ clusterCount + 2 <= fatSectors * EntriesPerSector
  BY <1>1, FatIsEnough
<1>3. DataSectors(fatSectors) \in Int /\ ~(DataSectors(fatSectors) < 1)
  BY <1>2, SectorsType DEF CannotBeMade
<1> QED
  BY <1>1, <1>2, <1>3

(* What a step that leaves the sizes alone keeps of them.                  *)
LEMMA SizesKept ==
    ASSUME ImageInv, Working, Working', UNCHANGED <<geometry, tries, raw, loaderSize>>
    PROVE  SizeInv'
<1>1. UNCHANGED <<total, file, fatSectors, clusterCount, tries>>
  BY DEF geometry
<1>2. ~CannotBeMade' /\ UNCHANGED <<DataSectors(fatSectors), FatFor(clusterCount), Settled, Needed>>
  BY <1>1 DEF ImageInv, SizeInv, CannotBeMade, DataSectors, FatFor, Settled, Needed
<1>3. pc # "read" /\ pc' \notin {"read", "error"}
  BY DEF Working
<1> QED
  BY <1>1, <1>2, <1>3 DEF ImageInv, SizeInv, RefusedOnlyWhenTooLarge, Blocks

(* The FATs begin with as many entries as their sectors have.              *)
LEMMA BeginImageKeeps ==
    ASSUME ImageInv, BeginImage, UNCHANGED <<kernelVars, loaderSize>>
    PROVE  ImageInv'
<1> DEFINE D == DataSectors(fatSectors)
           M == fatSectors * EntriesPerSector
           t0 == [k \in 1..Fats |-> Zeroes(M)]
           t1 == SetBoth(t0, EfiDir, EOC)
           t2 == SetBoth(t1, BootDir, EOC)
           d == [k \in 1..D |-> Empty]
<1>1. /\ pc = "check" /\ ~CannotBeMade /\ fat' = t2 /\ data' = d /\ pc' = "chain"
      /\ UNCHANGED <<total, file, fatSectors, clusterCount, tries, i, raw, loaderSize>>
  BY DEF BeginImage, kernelVars, geometry
<1>2. fatSectors = FatFor(clusterCount) /\ FatTypes
  BY <1>1 DEF ImageInv, SizeInv
<1>3. M \in Nat /\ clusterCount + 2 <= M /\ clusterCount >= 10 /\ D \in Nat \ {0}
  BY <1>1, <1>2, SizesWorking
<1>4. M \in Nat /\ 12 <= M
  BY <1>2, <1>3 DEF FatTypes
<1>5. UNCHANGED D
  BY <1>1 DEF DataSectors
<1> HIDE DEF D, M
<1>6. t0 \in Tables /\ \A n \in 1..Fats : Len(t0[n]) = M
  <2>1. Zeroes(M) \in Seq(Int) /\ Len(Zeroes(M)) = M
    BY <1>4 DEF Zeroes
  <2> QED
    BY <2>1 DEF Tables
<1> HIDE DEF t0
<1>7. EfiDir \in Nat /\ BootDir \in Nat /\ EOC \in Int /\ EfiDir < M /\ BootDir < M
  BY <1>4 DEF EfiDir, BootDir, EOC
<1>8. t1 \in Tables /\ \A n \in 1..Fats : Len(t1[n]) = M
  <2>1. t1 \in Tables /\ \A n \in 1..Fats : t1[n] = SetEntry(t0[n], EfiDir, EOC)
    BY <1>6, <1>7, BothSet
  <2>2. \A n \in 1..Fats : t0[n] \in Seq(Int)
    BY <1>6 DEF Tables
  <2> QED
    BY <1>6, <1>7, <2>1, <2>2, EntrySet
<1> HIDE DEF t1
<1>9. t2 \in Tables /\ \A n \in 1..Fats : Len(t2[n]) = M
  <2>1. t2 \in Tables /\ \A n \in 1..Fats : t2[n] = SetEntry(t1[n], BootDir, EOC)
    BY <1>7, <1>8, BothSet
  <2>2. \A n \in 1..Fats : t1[n] \in Seq(Int)
    BY <1>8 DEF Tables
  <2> QED
    BY <1>7, <1>8, <2>1, <2>2, EntrySet
<1> HIDE DEF t2
<1>10. d \in [1..D -> Blks]
  BY DEF Blks
<1> HIDE DEF d
<1>11. FatTypes'
  <2>1. data' \in [1..DataSectors(fatSectors)' -> Blks]
    BY <1>1, <1>5, <1>10 DEF D
  <2> QED
    BY <1>1, <1>2, <1>9, <2>1 DEF FatTypes, PcValues
<1>12. SizeInv'
  <2>1. ~CannotBeMade' /\ UNCHANGED <<FatFor(clusterCount), Settled>>
    BY <1>1 DEF CannotBeMade, DataSectors, FatFor, Settled, Needed
  <2>2. UNCHANGED DataSectors(fatSectors)
    BY <1>5 DEF D
  <2> QED
    BY <1>1, <2>1, <2>2 DEF ImageInv, SizeInv, RefusedOnlyWhenTooLarge, Blocks
<1>13. i = 0 /\ Needed' = Needed /\ Needed \in Nat \ {0}
  BY <1>1, <1>2, NeededType DEF ImageInv, IndexInv, FatTypes, Needed
<1>14. IndexInv'
  BY <1>1, <1>13 DEF IndexInv
<1>15. ChainInv'
  BY <1>1, <1>9, <1>13 DEF ChainInv, Chained, M
<1>16. BlockInv'
  BY <1>1 DEF BlockInv, Written
<1> QED
  BY <1>11, <1>12, <1>14, <1>15, <1>16 DEF ImageInv

(* One more cluster is chained, and no FAT grows if the file fits.         *)
LEMMA ChainKeeps ==
    ASSUME ImageInv, Chain, UNCHANGED <<kernelVars, loaderSize>>
    PROVE  ImageInv'
<1> DEFINE c == FirstCluster + i
           v == IF i + 1 = Needed THEN EOC ELSE c + 1
           M == fatSectors * EntriesPerSector
<1>1. /\ pc = "chain" /\ fat' = SetBoth(fat, c, v)
      /\ i' = IF i + 1 = Needed THEN 0 ELSE i + 1
      /\ pc' = IF i + 1 = Needed THEN "directories" ELSE "chain"
      /\ UNCHANGED <<geometry, total, file, fatSectors, clusterCount, tries, data, raw, loaderSize>>
  BY DEF Chain, kernelVars, geometry
<1>2. /\ FatTypes /\ Working /\ Working' /\ i \in Nat /\ i < Needed
      /\ Needed \in Nat \ {0} /\ fat \in Tables
  BY <1>1, NeededType DEF ImageInv, IndexInv, FatTypes, Working
<1>3. c = i + 4 /\ c \in Nat /\ v \in Int
  BY <1>2 DEF FirstCluster, EOC
<1>4. SizeInv'
  BY <1>1, <1>2, SizesKept
<1>5. UNCHANGED <<DataSectors(fatSectors), Needed, Settled, Fits>>
  BY <1>1 DEF DataSectors, Needed, Settled, Fits
<1>6. SetBoth(fat, c, v) \in Tables /\ \A n \in 1..Fats : SetBoth(fat, c, v)[n] = SetEntry(fat[n], c, v)
  <2> HIDE DEF c, v
  <2> QED
    BY <1>2, <1>3, BothSet
<1>7. FatTypes'
  BY <1>1, <1>2, <1>5, <1>6 DEF FatTypes, Working, PcValues
<1>8. IndexInv'
  BY <1>1, <1>2, <1>5 DEF IndexInv
<1>9. BlockInv'
  BY <1>1 DEF BlockInv, Written
<1>10. ChainInv'
  <2> SUFFICES ASSUME Settled, Fits, NEW n \in 1..Fats
               PROVE  /\ Len(fat'[n]) = M
                      /\ \A j \in 0..Chained' - 1 :
                            fat'[n][FirstCluster + j + 1] =
                                IF j + 1 = Needed THEN EOC ELSE FirstCluster + j + 1
    BY <1>1, <1>5 DEF ChainInv
  <2>1. /\ Len(fat[n]) = M /\ fat[n] \in Seq(Int)
        /\ \A j \in 0..i - 1 : fat[n][FirstCluster + j + 1] =
                                  IF j + 1 = Needed THEN EOC ELSE FirstCluster + j + 1
    BY <1>1, <1>2 DEF ImageInv, ChainInv, Chained, Tables
  <2>2. clusterCount + 2 <= M /\ clusterCount = DataSectors(fatSectors) /\ M \in Nat
    BY <1>1, <1>2, SizesWorking DEF ImageInv, SizeInv
  <2>3. c < M
    <3>1. Needed + 2 <= clusterCount /\ clusterCount \in Int
      BY <1>2, <2>2 DEF Fits, FatTypes
    <3> QED
      BY <1>2, <1>3, <2>2, <3>1
  <2> HIDE DEF M
  <2>4. /\ Len(fat'[n]) = M /\ fat'[n][c + 1] = v
        /\ \A k \in 1..M : k # c + 1 => fat'[n][k] = fat[n][k]
    <3> HIDE DEF c, v
    <3>1. fat'[n] = SetEntry(fat[n], c, v)
      BY <1>1, <1>6
    <3>2. /\ Len(SetEntry(fat[n], c, v)) = Len(fat[n])
          /\ SetEntry(fat[n], c, v)[c + 1] = v
          /\ \A k \in 1..Len(fat[n]) : k # c + 1 => SetEntry(fat[n], c, v)[k] = fat[n][k]
      BY <1>3, <2>1, <2>3, EntrySet
    <3> QED
      BY <2>1, <3>1, <3>2
  <2>5. Chained' - 1 = i
    BY <1>1, <1>2, <1>5 DEF Chained
  <2>6. ASSUME NEW j \in 0..i
        PROVE  fat'[n][FirstCluster + j + 1] = IF j + 1 = Needed THEN EOC ELSE FirstCluster + j + 1
    <3>1. CASE j = i
      BY <2>4, <3>1
    <3>2. CASE j # i
      <4>1. j \in 0..i - 1 /\ FirstCluster + j + 1 \in 1..M /\ FirstCluster + j + 1 # c + 1
        BY <1>2, <1>3, <2>2, <2>3, <3>2 DEF FirstCluster
      <4> QED
        BY <2>1, <2>4, <4>1
    <3> QED
      BY <3>1, <3>2
  <2> QED
    BY <2>4, <2>5, <2>6
<1> QED
  BY <1>4, <1>7, <1>8, <1>9, <1>10 DEF ImageInv

(* The directories go into the first two data sectors.                     *)
LEMMA DirectoriesKeep ==
    ASSUME ImageInv, WriteDirectories, UNCHANGED <<kernelVars, loaderSize>>
    PROVE  ImageInv'
<1> DEFINE D == DataSectors(fatSectors)
           x == <<"dir", BootDir>>
           y == <<"dir", FirstCluster>>
           e == [data EXCEPT ![1] = x, ![2] = y]
<1>1. /\ pc = "directories" /\ pc' = "file" /\ data' = e
      /\ UNCHANGED <<geometry, total, file, fatSectors, clusterCount, tries, i, fat, raw, loaderSize>>
  BY DEF WriteDirectories, kernelVars, geometry, SectorOf, EfiDir, BootDir
<1>2. /\ FatTypes /\ Working /\ Working' /\ i = 0 /\ Needed \in Nat \ {0}
      /\ fat \in Tables /\ data \in [1..D -> Blks]
  BY <1>1, NeededType DEF ImageInv, IndexInv, FatTypes, Working
<1>3. SizeInv'
  BY <1>1, <1>2, SizesKept
<1>4. UNCHANGED <<D, Needed, Settled, Fits>>
  BY <1>1 DEF DataSectors, Needed, Settled, Fits
<1>5. x \in Blks /\ y \in Blks
  BY DEF Blks, BootDir, FirstCluster
<1>6. D \in Int
  BY <1>2, SectorsType DEF FatTypes
<1>7. Fits => D >= 3
  BY <1>2, <1>6 DEF Fits
<1> HIDE DEF D, x, y
<1>8. e \in [1..D -> Blks] /\ (D >= 3 => e[1] = x /\ e[2] = y)
  <2>1. e \in [1..D -> Blks]
    BY <1>2, <1>5
  <2>2. D >= 3 => 1 \in 1..D /\ 2 \in 1..D
    BY <1>6
  <2>3. ASSUME 1 \in 1..D, 2 \in 1..D PROVE e[1] = x /\ e[2] = y
    BY <1>2, <2>3
  <2> QED
    BY <2>1, <2>2, <2>3
<1>9. FatTypes'
  <2>1. data' \in [1..DataSectors(fatSectors)' -> Blks]
    BY <1>1, <1>4, <1>8 DEF D
  <2> QED
    BY <1>1, <1>2, <2>1 DEF FatTypes, Working, PcValues
<1>10. IndexInv'
  BY <1>1, <1>2, <1>4 DEF IndexInv
<1>11. ChainInv'
  BY <1>1, <1>2, <1>4 DEF ImageInv, ChainInv, Chained
<1>12. BlockInv'
  <2>1. Written' = 0
    BY <1>1, <1>2 DEF Written
  <2>2. Fits' => data'[1] = <<"dir", BootDir>> /\ data'[2] = <<"dir", FirstCluster>>
    BY <1>1, <1>4, <1>7, <1>8 DEF x, y
  <2> QED
    BY <2>1, <2>2 DEF BlockInv
<1> QED
  BY <1>3, <1>9, <1>10, <1>11, <1>12 DEF ImageInv

(* A block goes into the sector of its cluster, or the file is refused     *)
(* because it does not fit.                                                *)
LEMMA WriteFileKeeps ==
    ASSUME ImageInv, WriteFile, UNCHANGED <<kernelVars, loaderSize>>
    PROVE  ImageInv'
<1> DEFINE D == DataSectors(fatSectors)
           s == i + 3
           b == <<"file", i + 1>>
<1>1. /\ pc = "file" /\ UNCHANGED <<total, file, fatSectors, clusterCount, geometry, tries, fat, raw, loaderSize>>
      /\ \/ /\ s \in DOMAIN data /\ data' = [data EXCEPT ![s] = b] /\ i' = i + 1
            /\ pc' = IF i + 1 = Needed THEN "made" ELSE "file"
         \/ s \notin DOMAIN data /\ pc' = "error" /\ UNCHANGED <<i, data>>
  <2>1. i \in Nat
    BY DEF ImageInv, FatTypes
  <2>2. SectorOf(FirstCluster + i) = s
    BY <2>1 DEF SectorOf, FirstCluster
  <2> QED
    BY <2>2 DEF WriteFile, kernelVars, geometry
<1>2. /\ FatTypes /\ Working /\ i \in Nat /\ i < Needed /\ Needed \in Nat \ {0}
      /\ fat \in Tables /\ data \in [1..D -> Blks] /\ D \in Int
  <2>1. FatTypes /\ Working /\ i < Needed
    BY <1>1 DEF ImageInv, IndexInv, Working
  <2> QED
    BY <2>1, NeededType, SectorsType DEF FatTypes
<1>3. UNCHANGED <<D, Needed, Settled, Fits>>
  BY <1>1 DEF DataSectors, Needed, Settled, Fits
<1>4. /\ Fits => data[1] = <<"dir", BootDir>> /\ data[2] = <<"dir", FirstCluster>>
      /\ \A j \in 0..i - 1 : j + 3 \in 1..D /\ data[j + 3] = <<"file", j + 1>>
  BY <1>1, <1>2 DEF ImageInv, BlockInv, Written
<1>5. Fits <=> Needed + 2 <= D
  BY DEF Fits
<1> HIDE DEF D
<1>6. CASE s \in DOMAIN data
  <2>1. /\ data' = [data EXCEPT ![s] = b] /\ i' = i + 1 /\ s \in 1..D
        /\ pc' = IF i + 1 = Needed THEN "made" ELSE "file"
    BY <1>1, <1>2, <1>6
  <2>2. Working'
    BY <2>1 DEF Working
  <2>3. b \in Blks
    BY <1>2 DEF Blks
  <2> HIDE DEF b
  <2>4. data' \in [1..D -> Blks] /\ data'[s] = b /\ \A k \in 1..D : k # s => data'[k] = data[k]
    BY <1>2, <2>1, <2>3
  <2>5. FatTypes'
    <3>1. data' \in [1..DataSectors(fatSectors)' -> Blks]
      BY <1>3, <2>4 DEF D
    <3>2. i' \in Nat /\ pc' \in PcValues
      BY <1>2, <2>1 DEF PcValues
    <3> QED
      BY <1>1, <1>2, <3>1, <3>2 DEF FatTypes
  <2>6. SizeInv'
    BY <1>1, <1>2, <2>2, SizesKept
  <2>7. i + 1 <= Needed /\ (i + 1 = Needed => Fits)
    BY <1>2, <1>5, <2>1
  <2>8. IndexInv'
    BY <1>2, <1>3, <2>1, <2>7 DEF IndexInv
  <2>9. ChainInv'
    BY <1>1, <1>2, <1>3, <2>1 DEF ImageInv, ChainInv, Chained
  <2>10. Written' = i + 1
    BY <1>3, <2>1 DEF Written
  <2>11. ASSUME NEW j \in 0..i PROVE j + 3 \in 1..D /\ data'[j + 3] = <<"file", j + 1>>
    <3>1. CASE j = i
      BY <2>1, <2>4, <3>1 DEF b
    <3>2. CASE j # i
      <4>1. j \in 0..i - 1 /\ j + 3 # s
        BY <1>2, <3>2
      <4>2. j + 3 \in 1..D /\ data[j + 3] = <<"file", j + 1>>
        BY <1>4, <4>1
      <4> QED
        BY <2>4, <4>1, <4>2
    <3> QED
      BY <3>1, <3>2
  <2>12. \A j \in 0..Written' - 1 : j + 3 \in 1..D /\ data'[j + 3] = <<"file", j + 1>>
    <3>1. Written' - 1 = i
      BY <1>2, <2>10
    <3> QED
      BY <2>11, <3>1
  <2>13. Fits => data'[1] = data[1] /\ data'[2] = data[2]
    <3>1. s # 1 /\ s # 2
      BY <1>2
    <3>2. Fits => 1 \in 1..D /\ 2 \in 1..D
      BY <1>2, <1>5
    <3> QED
      BY <2>4, <3>1, <3>2
  <2>14. BlockInv'
    BY <1>3, <1>4, <2>12, <2>13 DEF BlockInv, D
  <2> QED
    BY <2>5, <2>6, <2>8, <2>9, <2>14 DEF ImageInv
<1>7. CASE s \notin DOMAIN data
  <2>1. pc' = "error" /\ UNCHANGED <<i, data>>
    BY <1>1, <1>7
  <2>2. ~(s \in 1..D)
    BY <1>2, <1>7
  <2>3. Needed + 2 > D
    BY <1>2, <2>2
  <2>4. (Needed + 2 > DataSectors(fatSectors))'
    BY <1>3, <2>3 DEF D
  <2>5. UNCHANGED <<FatFor(clusterCount), Blocks(loaderSize + Len(raw))>>
    BY <1>1 DEF FatFor, Blocks
  <2>6. SizeInv'
    BY <1>1, <2>1, <2>4, <2>5 DEF ImageInv, SizeInv, Working, RefusedOnlyWhenTooLarge
  <2>7. FatTypes'
    BY <1>1, <1>2, <2>1 DEF FatTypes, Working, PcValues
  <2> QED
    BY <2>1, <2>6, <2>7 DEF ImageInv, IndexInv, ChainInv, BlockInv, Written, Working
<1> QED
  BY <1>6, <1>7

(* The image that is made can be read, where the file fits.                *)
LEMMA MadeIsReadable ==
    ASSUME ImageInv, pc \in {"made", "booted"}, Settled
    PROVE  /\ \A n \in 1..Fats : \A k \in 1..Needed : Cluster(fat[n])[k] = FirstCluster + k - 1
           /\ \A k \in 1..Needed : data[k + 2] = <<"file", k>>
           /\ \A n \in 1..Fats : Len(fat[n]) = fatSectors * EntriesPerSector
           /\ \A n \in 1..Fats : fat[n][FirstCluster + Needed] = EOC
           /\ data[1] = <<"dir", BootDir>> /\ data[2] = <<"dir", FirstCluster>>
<1>1. Working /\ Fits /\ Needed \in Nat \ {0} /\ FirstCluster = 4
  BY NeededType DEF ImageInv, FatTypes, IndexInv, Working, FirstCluster
<1>2. /\ \A n \in 1..Fats :
            /\ Len(fat[n]) = fatSectors * EntriesPerSector
            /\ \A j \in 0..Needed - 1 : fat[n][FirstCluster + j + 1] =
                      IF j + 1 = Needed THEN EOC ELSE FirstCluster + j + 1
      /\ \A j \in 0..Needed - 1 : data[j + 3] = <<"file", j + 1>>
      /\ data[1] = <<"dir", BootDir>> /\ data[2] = <<"dir", FirstCluster>>
  BY <1>1 DEF ImageInv, ChainInv, BlockInv, Chained, Written
<1>3. ASSUME NEW n \in 1..Fats
      PROVE  \A j \in 0..Needed - 2 : fat[n][FirstCluster + j + 1] = FirstCluster + j + 1
  <2> TAKE j \in 0..Needed - 2
  <2>1. j \in 0..Needed - 1 /\ j + 1 # Needed
    BY <1>1
  <2> QED
    BY <1>2, <2>1
<1>4. ASSUME NEW n \in 1..Fats
      PROVE  \A k \in 1..Needed : Cluster(fat[n])[k] = FirstCluster + k - 1
  BY <1>1, <1>3, ChainFollowed
<1>5. ASSUME NEW k \in 1..Needed PROVE data[k + 2] = <<"file", k>>
  <2>1. k - 1 \in 0..Needed - 1 /\ (k - 1) + 3 = k + 2 /\ (k - 1) + 1 = k
    BY <1>1
  <2> QED
    BY <1>2, <2>1
<1>6. ASSUME NEW n \in 1..Fats PROVE fat[n][FirstCluster + Needed] = EOC
  <2>1. Needed - 1 \in 0..Needed - 1 /\ FirstCluster + (Needed - 1) + 1 = FirstCluster + Needed
        /\ (Needed - 1) + 1 = Needed
    BY <1>1
  <2> QED
    BY <1>2, <2>1
<1> QED
  BY <1>2, <1>4, <1>5, <1>6

(* What the firmware finds behind either FAT is the file.                  *)
LEMMA InvReadable == ImageInv => ReadableWhenSettled
<1> SUFFICES ASSUME ImageInv, Settled, pc = "made"
             PROVE  /\ data[SectorOf(EfiDir)] = <<"dir", BootDir>>
                    /\ data[SectorOf(BootDir)] = <<"dir", FirstCluster>>
                    /\ \A n \in 1..Fats :
                          /\ Len(fat[n]) = fatSectors * EntriesPerSector
                          /\ \A k \in 1..Needed :
                                data[Cluster(fat[n])[k] - 1] = <<"file", k>>
                          /\ fat[n][Cluster(fat[n])[Needed] + 1] = EOC
  BY DEF ReadableWhenSettled, Readable
<1>1. SectorOf(EfiDir) = 1 /\ SectorOf(BootDir) = 2 /\ FirstCluster = 4
  BY DEF SectorOf, EfiDir, BootDir, FirstCluster
<1>2. Needed \in Nat \ {0}
  BY NeededType DEF ImageInv, FatTypes
<1>3. ASSUME NEW n \in 1..Fats
      PROVE  /\ \A k \in 1..Needed : data[Cluster(fat[n])[k] - 1] = <<"file", k>>
             /\ fat[n][Cluster(fat[n])[Needed] + 1] = EOC
  <2>1. ASSUME NEW k \in 1..Needed PROVE data[Cluster(fat[n])[k] - 1] = <<"file", k>>
    <3>1. Cluster(fat[n])[k] = FirstCluster + k - 1 /\ data[k + 2] = <<"file", k>>
      BY MadeIsReadable
    <3>2. (FirstCluster + k - 1) - 1 = k + 2
      BY <1>1, <1>2
    <3>3. Cluster(fat[n])[k] - 1 = k + 2
      BY <3>1, <3>2
    <3> QED
      BY <3>1, <3>3
  <2>2. Needed \in 1..Needed /\ FirstCluster + Needed - 1 + 1 = FirstCluster + Needed
    BY <1>1, <1>2
  <2>3. Cluster(fat[n])[Needed] = FirstCluster + Needed - 1 /\ fat[n][FirstCluster + Needed] = EOC
    BY <2>2, MadeIsReadable
  <2> QED
    BY <2>1, <2>2, <2>3
<1> QED
  BY <1>1, <1>3, MadeIsReadable

(* Rounding up is monotone.                                                *)
LEMMA BlocksOrdered ==
    ASSUME NEW n \in Nat, NEW m \in Nat, n > 0, n <= m
    PROVE  Blocks(n) \in 1..Blocks(m) /\ Blocks(m) \in Nat
<1> DEFINE S == SectorBytes
           p == Blocks(n)
           q == Blocks(m)
<1>1. S \in Nat \ {0}
  BY PageFacts
<1>2. /\ p \in Int /\ p * S \in Int /\ n <= p * S /\ p * S < n + S
      /\ q \in Int /\ q * S \in Int /\ m <= q * S /\ q * S < m + S
  BY <1>1, RoundedUp DEF Blocks
<1> HIDE DEF p, q, S
<1>3. p > 0
  <2>1. p * S > 0
    BY <1>2
  <2> QED
    BY <1>1, <1>2, <2>1
<1>4. p <= q
  <2>1. p * S < q * S + S
    BY <1>1, <1>2
  <2>2. p * S < (q + 1) * S
    BY <1>1, <1>2, <2>1
  <2>3. p < q + 1
    BY <1>1, <1>2, <2>2
  <2> QED
    BY <1>2, <2>3
<1> QED
  BY <1>2, <1>3, <1>4 DEF p, q

(* The firmware reads the file as it was.                                  *)
LEMMA FirmwareKeeps ==
    ASSUME ImageInv, KernelInv, FirmwareLoad
    PROVE  ImageInv' /\ KernelInv'
<1> DEFINE newRaw == [b \in 1..Len(raw) |->
                        LET k == Blocks(loaderSize + b)
                        IN  IF BlockRead(k) = <<"file", k>> THEN raw[b] ELSE <<"other">>]
<1>1. /\ pc = "made" /\ pc' = "booted" /\ raw' = newRaw
      /\ UNCHANGED <<geometry, total, file, fatSectors, clusterCount, tries, i, fat, data>>
      /\ UNCHANGED <<loaderSize, headers, stage, kernelIndex, end, kernelPages, memory>>
  BY DEF FirmwareLoad, geometry
<1>2. raw \in Seq(Bytes) /\ Len(raw) \in Nat /\ loaderSize \in Nat \ {0}
  BY PageFacts DEF KernelInv, KernelTypes
<1>3. newRaw \in Seq(Bytes) /\ Len(newRaw) = Len(raw)
  <2>1. \A b \in 1..Len(raw) : raw[b] \in Bytes
    BY <1>2
  <2>2. <<"other">> \in Bytes
    BY DEF Bytes
  <2>3. newRaw \in [1..Len(raw) -> Bytes]
    BY <2>1, <2>2
  <2> HIDE DEF newRaw
  <2> QED
    BY <1>2, <2>3
<1>4. stage = "alloc"
  BY <1>1 DEF KernelInv, KernelTypes, Turns, Stages
<1>5. ASSUME Settled, NEW b \in 1..Len(raw) PROVE newRaw[b] = raw[b]
  <2> DEFINE k == Blocks(loaderSize + b)
  <2>1. loaderSize + b \in Nat /\ loaderSize + Len(raw) \in Nat /\ loaderSize + b > 0
        /\ loaderSize + b <= loaderSize + Len(raw)
    BY <1>2
  <2>2. k \in 1..Blocks(loaderSize + Len(raw)) /\ Blocks(loaderSize + Len(raw)) \in Nat
    BY <2>1, BlocksOrdered
  <2>3. file = Blocks(loaderSize + Len(raw))
    BY <1>1 DEF ImageInv, SizeInv
  <2>4. k \in 1..Needed
    BY <2>2, <2>3 DEF Needed
  <2>5. newRaw[b] = IF BlockRead(k) = <<"file", k>> THEN raw[b] ELSE <<"other">>
    OBVIOUS
  <2> HIDE DEF k, newRaw
  <2>6. Cluster(fat[1])[k] = FirstCluster + k - 1 /\ data[k + 2] = <<"file", k>>
    BY <1>1, <1>5, <2>4, MadeIsReadable DEF Fats
  <2>7. SectorOf(FirstCluster + k - 1) = k + 2
    BY <2>2, <2>4 DEF SectorOf, FirstCluster
  <2>8. BlockRead(k) = <<"file", k>>
    BY <2>6, <2>7 DEF BlockRead
  <2> QED
    BY <2>5, <2>8
<1> HIDE DEF newRaw
<1>6. KernelInv'
  <2>1. KernelTypes'
    BY <1>1, <1>3 DEF KernelInv, KernelTypes
  <2>2. Turns' /\ EndInv'
    BY <1>1, <1>4 DEF KernelInv, Turns, EndInv
  <2>3. RawInv'
    <3>1. /\ Len(raw) = end
          /\ K!LinkedAtZero(headers) => \A k \in 1..Len(raw) : raw[k] = K!FileByte(headers, k - 1)
      BY <1>1, <1>4 DEF KernelInv, RawInv
    <3> QED
      BY <1>1, <1>3, <1>4, <1>5, <3>1 DEF RawInv, Settled
  <2>4. CopyInv'
    BY <1>1, <1>4 DEF CopyInv, K!CopiedIntoPages
  <2> QED
    BY <2>1, <2>2, <2>3, <2>4 DEF KernelInv
<1>7. ImageInv'
  <2>1. Working /\ Working' /\ UNCHANGED <<DataSectors(fatSectors), Needed, Settled, Fits>>
    BY <1>1 DEF Working, DataSectors, Needed, Settled, Fits
  <2>2. FatTypes'
    BY <1>1, <2>1 DEF ImageInv, FatTypes, PcValues
  <2>3. SizeInv'
    <3>1. UNCHANGED <<FatFor(clusterCount), CannotBeMade>>
      BY <1>1, <2>1 DEF FatFor, CannotBeMade
    <3>2. Blocks(loaderSize + Len(raw))' = Blocks(loaderSize + Len(raw))
      BY <1>1, <1>3 DEF Blocks
    <3> QED
      BY <1>1, <2>1, <3>1, <3>2 DEF ImageInv, SizeInv, RefusedOnlyWhenTooLarge
  <2>4. IndexInv' /\ ChainInv' /\ BlockInv'
    BY <1>1, <2>1 DEF ImageInv, IndexInv, ChainInv, BlockInv, Chained, Written
  <2> QED
    BY <2>2, <2>3, <2>4 DEF ImageInv
<1> QED
  BY <1>6, <1>7

(* The tools' and the loader's steps leave the image alone.                *)
LEMMA ImageLeftAlone ==
    ASSUME ImageInv, UNCHANGED <<imageVars, loaderSize>>, pc = "read" \/ raw' = raw
    PROVE  ImageInv'
<1>1. UNCHANGED <<total, file, fatSectors, clusterCount, pc, tries, i, fat, data, loaderSize>>
  BY DEF imageVars, geometry
<1>2. UNCHANGED <<DataSectors(fatSectors), Needed, Settled, Fits, FatFor(clusterCount), CannotBeMade,
                  Working, Chained, Written>>
  BY <1>1 DEF DataSectors, Needed, Settled, Fits, FatFor, CannotBeMade, Working, Chained, Written
<1>3. pc # "read" => UNCHANGED Blocks(loaderSize + Len(raw))
  BY <1>1 DEF Blocks
<1>4. SizeInv'
  BY <1>1, <1>2, <1>3 DEF ImageInv, SizeInv, RefusedOnlyWhenTooLarge
<1> QED
  BY <1>1, <1>2, <1>4 DEF ImageInv, FatTypes, IndexInv, ChainInv, BlockInv

(* The image tool's steps leave the kernel alone.                          *)
LEMMA KernelLeftAlone ==
    ASSUME KernelInv, UNCHANGED <<kernelVars, loaderSize>>,
           \/ pc' = pc
           \/ stage = "alloc" /\ pc = "read" /\ pc' # "booted"
           \/ pc \notin {"read", "booted"} /\ pc' \notin {"read", "booted"},
           pc = "booted" => tries' = tries
    PROVE  KernelInv'
<1>1. UNCHANGED <<headers, stage, kernelIndex, end, raw, kernelPages, memory, loaderSize>>
  BY DEF kernelVars
<1>2. KernelTypes' /\ EndInv' /\ CopyInv'
  BY <1>1 DEF KernelInv, KernelTypes, EndInv, CopyInv, K!CopiedIntoPages
<1>3. Turns'
  BY <1>1 DEF KernelInv, Turns
<1>4. RawInv'
  BY <1>1 DEF KernelInv, RawInv, Settled, Turns
<1> QED
  BY <1>2, <1>3, <1>4 DEF KernelInv

BootInv == KernelInv /\ ImageInv

(* Every step of the tools, the firmware and the loader keeps the          *)
(* invariant.                                                              *)
LEMMA BootStep == BootInv /\ [BootNext]_bootVars => BootInv'
<1> SUFFICES ASSUME BootInv, [BootNext]_bootVars PROVE BootInv'
  OBVIOUS
<1> USE DEF BootInv
<1>1. CASE BuildKernel
  <2>1. UNCHANGED <<imageVars, loaderSize>> /\ (K!ScanHeader \/ K!EndScan \/ K!Pad)
    BY <1>1 DEF BuildKernel, K!MakeBlob
  <2>2. KernelInv'
    BY <2>1, ScanHeaderKeeps, EndScanKeeps, PadKeeps
  <2>3. stage \in {"scan", "pad"}
    BY <2>1 DEF K!ScanHeader, K!EndScan, K!Pad
  <2>4. pc = "read"
    BY <2>3 DEF KernelInv, Turns
  <2> QED
    BY <2>1, <2>2, <2>4, ImageLeftAlone
<1>2. CASE Link
  <2>1. /\ stage = "alloc" /\ ReadFile(Blocks(loaderSize + Len(raw)))
        /\ UNCHANGED <<kernelVars, loaderSize>>
    BY <1>2 DEF Link
  <2>2. ImageInv'
    BY <2>1, ReadKeeps
  <2>3. pc = "read" /\ pc' = "size"
    BY <2>1 DEF ReadFile
  <2> QED
    BY <2>1, <2>2, <2>3, KernelLeftAlone
<1>3. CASE BuildImage
  <2>1. /\ SizeFat \/ Refuse \/ BeginImage \/ Chain \/ WriteDirectories \/ WriteFile
        /\ UNCHANGED <<kernelVars, loaderSize>>
    BY <1>3 DEF BuildImage, MakeImage
  <2>2. ImageInv'
    BY <2>1, SizeFatKeeps, RefuseKeeps, BeginImageKeeps, ChainKeeps, DirectoriesKeep,
       WriteFileKeeps
  <2>3. pc \notin {"read", "booted"} /\ pc' \notin {"read", "booted"}
    BY <2>1 DEF SizeFat, Refuse, BeginImage, Chain, WriteDirectories, WriteFile
  <2> QED
    BY <2>1, <2>2, <2>3, KernelLeftAlone
<1>4. CASE FirmwareLoad
  BY <1>4, FirmwareKeeps
<1>5. CASE RunLoader
  <2>1. /\ pc = "booted" /\ UNCHANGED <<imageVars, loaderSize>>
        /\ K!AllocKernel \/ K!CopyByte \/ K!EndCopy
    BY <1>5 DEF RunLoader, K!LoadKernel
  <2>2. KernelInv'
    BY <2>1, AllocKernelKeeps, CopyByteKeeps, EndCopyKeeps
  <2>3. raw' = raw
    BY <2>1 DEF K!AllocKernel, K!CopyByte, K!EndCopy
  <2> QED
    BY <2>1, <2>2, <2>3, ImageLeftAlone
<1>6. CASE UNCHANGED bootVars
  <2>1. UNCHANGED <<imageVars, kernelVars, loaderSize>>
    BY <1>6 DEF bootVars
  <2>2. raw' = raw /\ pc' = pc /\ tries' = tries
    BY <2>1 DEF kernelVars, imageVars
  <2> QED
    BY <2>1, <2>2, ImageLeftAlone, KernelLeftAlone
<1> QED
  BY <1>1, <1>2, <1>3, <1>4, <1>5, <1>6 DEF BootNext, Ended

(* The invariant of the tools, the firmware and the loader.                *)
THEOREM ImageSafe == BootSpec => []BootInv
<1>1. BootInit => BootInv
  BY KernelStarts, ImageStarts DEF BootInv
<1> QED
  BY <1>1, BootStep, PTL DEF BootSpec

(* Every image made from sizes that settled can be read through either FAT *)
(* (make_fat16_image.py:105-175).                                          *)
THEOREM ImageCanBeRead == BootSpec => []ReadableWhenSettled
<1>1. BootInv => ReadableWhenSettled
  BY InvReadable DEF BootInv
<1> QED
  BY <1>1, ImageSafe, PTL

(* The tools refuse only a kernel without memory of its own and a loader   *)
(* that does not fit (pad_kernel_raw.py, make_fat16_image.py).             *)
THEOREM RefusalsHaveReason == BootSpec => []RefusedWithReason
<1>1. BootInv => RefusedWithReason
  <2> SUFFICES ASSUME BootInv PROVE RefusedWithReason
    OBVIOUS
  <2>1. RefusedOnlyWhenTooLarge
    BY DEF BootInv, ImageInv, SizeInv
  <2>2. ASSUME stage = "error", NEW h \in K!Loads(headers) PROVE h.vaddr + h.memsz = 0
    <3>1. h.vaddr + h.memsz <= 0
      BY <2>2 DEF BootInv, KernelInv, EndInv
    <3>2. headers \in HeaderLists
      BY DEF BootInv, KernelInv, KernelTypes
    <3>3. h.vaddr \in Nat /\ h.memsz \in Nat
      BY <3>2, HeaderTypes DEF K!Loads
    <3> QED
      BY <3>1, <3>3
  <2> QED
    BY <2>1, <2>2 DEF RefusedWithReason, K!RefusedOnlyWhenEmpty
<1> QED
  BY <1>1, ImageSafe, PTL

(* From the ELF file of a kernel linked at 0 (ld.ld:15) to the pages the   *)
(* loader copies it into, every byte of every segment arrives at its       *)
(* address, and .bss is zero (pad_kernel_raw.py:45, efi_main.cpp).         *)
THEOREM KernelIsComplete == BootSpec => []KernelArrives
<1>1. BootInv => KernelArrives
  <2> SUFFICES ASSUME BootInv PROVE KernelArrives
    OBVIOUS
  <2>1. K!CopiedIntoPages
    BY DEF BootInv, KernelInv, CopyInv
  <2>2. ASSUME Settled, stage = "loaded", K!LinkedAtZero(headers),
               NEW h \in K!Loads(headers), NEW a \in K!Extent(h)
        PROVE  a + 1 \in DOMAIN memory /\ memory[a + 1] = K!FileByte(headers, a)
    <3>1. /\ headers \in HeaderLists /\ end \in Nat /\ memory \in Seq(Bytes)
          /\ h.vaddr + h.memsz <= end
          /\ Len(raw) = end /\ Len(memory) = end
          /\ \A k \in 1..end : memory[k] = raw[k]
          /\ \A k \in 1..end : raw[k] = K!FileByte(headers, k - 1)
      BY <2>2 DEF BootInv, KernelInv, KernelTypes, EndInv, RawInv, CopyInv
    <3>2. h.vaddr \in Nat /\ h.memsz \in Nat
      BY <3>1, HeaderTypes DEF K!Loads
    <3>3. a \in Nat /\ a + 1 \in 1..end /\ (a + 1) - 1 = a
      BY <3>1, <3>2 DEF K!Extent
    <3>4. DOMAIN memory = 1..end
      BY <3>1
    <3> QED
      BY <3>1, <3>3, <3>4
  <2> QED
    BY <2>1, <2>2 DEF KernelArrives, K!ImageComplete
<1> QED
  BY <1>1, ImageSafe, PTL
-----------------------------------------------------------------------------
(* The sizes of the code: the iteration goes 1, 128, 127, 127.             *)
CodeSizes == Totals = {32768} /\ EntriesPerSector = 256 /\ RootSectors = 4
RoundsInv ==
    /\ total = 32768 /\ tries \in 0..3
    /\ tries = 0 => fatSectors = 1
    /\ tries = 1 => fatSectors = 128
    /\ tries \in {2, 3} => fatSectors = 127
    /\ pc \in {"read", "size"} => tries < 3

(* One round after the other, as the code's sizes give.                    *)
LEMMA CodeRounds ==
    ASSUME CodeSizes, RoundsInv, [BootNext]_bootVars
    PROVE  RoundsInv'
<1>1. CASE SizeFat
  <2>1. /\ pc = "size" /\ clusterCount' = DataSectors(fatSectors)
        /\ fatSectors' = FatFor(clusterCount') /\ tries' = tries + 1 /\ total' = total
        /\ pc' = IF fatSectors' = fatSectors \/ tries' = 20 THEN "check" ELSE "size"
    BY <1>1 DEF SizeFat
  <2>2. FatFor(DataSectors(1)) = 128 /\ FatFor(DataSectors(128)) = 127 /\ FatFor(DataSectors(127)) = 127
    BY DEF CodeSizes, RoundsInv, FatFor, DataSectors, Reserved, Fats
  <2>3. tries \in {0, 1, 2} /\ total = 32768
    BY <2>1 DEF RoundsInv
  <2>4. CASE tries = 0
    BY <2>1, <2>2, <2>3, <2>4 DEF RoundsInv
  <2>5. CASE tries = 1
    BY <2>1, <2>2, <2>3, <2>5 DEF RoundsInv
  <2>6. CASE tries = 2
    BY <2>1, <2>2, <2>3, <2>6 DEF RoundsInv
  <2> QED
    BY <2>3, <2>4, <2>5, <2>6
<1>2. CASE Link
  <2>1. pc = "read" /\ pc' = "size" /\ UNCHANGED <<total, tries, fatSectors>>
    BY <1>2 DEF Link, ReadFile
  <2> QED
    BY <2>1 DEF RoundsInv
<1>3. CASE Refuse \/ BeginImage \/ Chain \/ WriteDirectories \/ WriteFile \/ FirmwareLoad
  <2>1. pc' \notin {"read", "size"} /\ UNCHANGED <<total, tries, fatSectors>>
    BY <1>3 DEF Refuse, BeginImage, Chain, WriteDirectories, WriteFile, FirmwareLoad, geometry
  <2> QED
    BY <2>1 DEF RoundsInv
<1>4. CASE BuildKernel \/ RunLoader \/ UNCHANGED bootVars
  <2>1. UNCHANGED <<total, tries, fatSectors, pc>>
    BY <1>4 DEF BuildKernel, RunLoader, bootVars, imageVars, geometry
  <2> QED
    BY <2>1 DEF RoundsInv
<1> QED
  BY <1>1, <1>2, <1>3, <1>4 DEF BootNext, BuildImage, MakeImage, Ended

(* With the sizes of make_fat16_image.py the iteration settles, so every   *)
(* image it makes can be read and every kernel it carries that is linked   *)
(* at 0 is complete.                                                       *)
THEOREM CodeImageComplete ==
    ASSUME CodeSizes
    PROVE  BootSpec => [](Readable /\ K!ImageComplete)
<1>1. BootInit => RoundsInv
  BY DEF BootInit, Init, RoundsInv, CodeSizes
<1>2. RoundsInv /\ [BootNext]_bootVars => RoundsInv'
  BY CodeRounds
<1>3. RoundsInv /\ ReadableWhenSettled /\ KernelArrives => Readable /\ K!ImageComplete
  <2>1. RoundsInv => Settled
    BY DEF RoundsInv, Settled
  <2> QED
    BY <2>1 DEF ReadableWhenSettled, KernelArrives
<1> QED
  BY <1>1, <1>2, <1>3, ImageCanBeRead, KernelIsComplete, PTL DEF BootSpec
=============================================================================
