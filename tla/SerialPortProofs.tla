-------------------------- MODULE SerialPortProofs --------------------------
(* The serial line, for every number of characters and every depth of the  *)
(* FIFO: nothing is lost in transit but possibly the loader's last         *)
(* character, and every character leaves with one divisor. The invariant   *)
(* says what the driver's polling keeps: at most one character waits, and  *)
(* it is the one written last; and where in the two runs of init_115200    *)
(* the latch is open.                                                      *)
EXTENDS SerialPort, SequenceTheorems, TLAPS

L == LoaderChars
End == 12 + LoaderChars + KernelChars
Writes == [port : Nat, value : Nat]

(* The operation at each position of the program.                          *)
InitAt(n) == IF n <= 6 THEN n ELSE n - 6 - L
ProgramIs ==
    /\ Len(Program) = End
    /\ \A n \in 1..End :
          /\ IsChar(n) <=> n \in 7..6 + L \/ n > 12 + L
          /\ IsChar(n) => Program[n] = Out(REG_THR, IF n <= 6 + L THEN n - 6 ELSE n - 12)
          /\ ~IsChar(n) => /\ InitAt(n) \in 1..6
                           /\ Program[n] = init_115200[InitAt(n)]

LEMMA InitType == init_115200 \in Seq(Writes) /\ Len(init_115200) = 6
  BY DEF init_115200, Writes, Out, REG_IER, REG_LCR, REG_DLL, REG_DLM, REG_FCR

LEMMA ProgramShape == ProgramIs
<1> DEFINE A == init_115200
           B == [c \in 1..LoaderChars |-> write_char(c)]
           D == [c \in 1..KernelChars |-> write_char(LoaderChars + c)]
<1>1. LoaderChars \in Nat /\ KernelChars \in Nat
  BY SerialAssumption
<1>2. A \in Seq(Writes) /\ Len(A) = 6
  BY InitType
<1>3. B \in Seq(Writes) /\ Len(B) = L /\ \A c \in 1..L : B[c] = Out(REG_THR, c)
  BY <1>1 DEF write_char, Out, Writes, REG_THR, L
<1>4. D \in Seq(Writes) /\ Len(D) = KernelChars
      /\ \A c \in 1..KernelChars : D[c] = Out(REG_THR, L + c)
  BY <1>1 DEF write_char, Out, Writes, REG_THR, L
<1>5. Program = ((A \o B) \o A) \o D
  BY DEF Program
<1> HIDE DEF A, B, D
<1>6. /\ A \o B \in Seq(Writes) /\ Len(A \o B) = 6 + L
      /\ \A n \in 1..6 + L : (A \o B)[n] = IF n <= 6 THEN A[n] ELSE B[n - 6]
  <2>1. /\ A \o B \in Seq(Writes) /\ Len(A \o B) = Len(A) + Len(B)
        /\ \A n \in 1..Len(A) + Len(B) :
              (A \o B)[n] = IF n <= Len(A) THEN A[n] ELSE B[n - Len(A)]
    BY <1>2, <1>3, ConcatProperties
  <2> QED
    BY <2>1, <1>2, <1>3
<1> DEFINE AB == A \o B
<1> HIDE DEF AB
<1>7. /\ AB \in Seq(Writes) /\ Len(AB) = 6 + L
      /\ \A n \in 1..6 + L : AB[n] = IF n <= 6 THEN A[n] ELSE B[n - 6]
  BY <1>6 DEF AB
<1>8. /\ AB \o A \in Seq(Writes) /\ Len(AB \o A) = (6 + L) + 6
      /\ \A n \in 1..(6 + L) + 6 : (AB \o A)[n] = IF n <= 6 + L THEN AB[n] ELSE A[n - (6 + L)]
  <2>1. /\ AB \o A \in Seq(Writes) /\ Len(AB \o A) = Len(AB) + Len(A)
        /\ \A n \in 1..Len(AB) + Len(A) :
              (AB \o A)[n] = IF n <= Len(AB) THEN AB[n] ELSE A[n - Len(AB)]
    BY <1>2, <1>7, ConcatProperties
  <2> QED
    BY <2>1, <1>2, <1>7
<1> DEFINE ABA == AB \o A
<1> HIDE DEF ABA
<1>9. /\ ABA \in Seq(Writes) /\ Len(ABA) = 12 + L
      /\ \A n \in 1..12 + L : ABA[n] = IF n <= 6 + L THEN AB[n] ELSE A[n - (6 + L)]
  BY <1>1, <1>8 DEF ABA, L
<1>10. /\ Len(ABA \o D) = (12 + L) + KernelChars
       /\ \A n \in 1..(12 + L) + KernelChars :
             (ABA \o D)[n] = IF n <= 12 + L THEN ABA[n] ELSE D[n - (12 + L)]
  <2>1. /\ Len(ABA \o D) = Len(ABA) + Len(D)
        /\ \A n \in 1..Len(ABA) + Len(D) :
              (ABA \o D)[n] = IF n <= Len(ABA) THEN ABA[n] ELSE D[n - Len(ABA)]
    BY <1>4, <1>9, ConcatProperties
  <2> QED
    BY <2>1, <1>4, <1>9
<1>11. Program = ABA \o D
  BY <1>5 DEF ABA, AB
<1>12. Len(Program) = End
  BY <1>1, <1>10, <1>11 DEF End, L
<1>13. ASSUME NEW n \in 1..End
       PROVE  /\ IsChar(n) <=> n \in 7..6 + L \/ n > 12 + L
              /\ IsChar(n) => Program[n] = Out(REG_THR, IF n <= 6 + L THEN n - 6 ELSE n - 12)
              /\ ~IsChar(n) => /\ InitAt(n) \in 1..6
                               /\ Program[n] = init_115200[InitAt(n)]
  <2>1. IsChar(n) <=> n \in 7..6 + L \/ n > 12 + L
    BY <1>1, InitType DEF IsChar, L
  <2>2. Program[n] = IF n <= 12 + L THEN ABA[n] ELSE D[n - (12 + L)]
    BY <1>1, <1>10, <1>11 DEF End, L
  <2>3. CASE n <= 6
    <3>1. Program[n] = A[n]
      BY <1>1, <2>2, <2>3, <1>9, <1>7 DEF L
    <3> QED
      BY <1>1, <2>1, <2>3, <3>1 DEF InitAt, A, L
  <2>4. CASE n \in 7..6 + L
    <3>1. Program[n] = B[n - 6] /\ n - 6 \in 1..L
      BY <1>1, <2>2, <2>4, <1>9, <1>7 DEF L
    <3> QED
      BY <1>1, <2>1, <2>4, <3>1, <1>3 DEF L
  <2>5. CASE n \in 7 + L..12 + L
    <3>1. Program[n] = A[n - (6 + L)]
      BY <1>1, <2>2, <2>5, <1>9 DEF L
    <3> QED
      BY <1>1, <2>1, <2>5, <3>1 DEF InitAt, A, L
  <2>6. CASE n > 12 + L
    <3>1. Program[n] = D[n - (12 + L)] /\ n - (12 + L) \in 1..KernelChars
      BY <1>1, <2>2, <2>6 DEF End, L
    <3>2. D[n - (12 + L)] = Out(REG_THR, L + (n - (12 + L)))
      BY <3>1, <1>4
    <3>3. L + (n - (12 + L)) = n - 12
      BY <1>1 DEF L
    <3> QED
      BY <1>1, <2>1, <2>6, <3>1, <3>2, <3>3 DEF L
  <2> QED
    BY <1>1, <2>3, <2>4, <2>5, <2>6 DEF L
<1> QED
  BY <1>12, <1>13 DEF ProgramIs
-----------------------------------------------------------------------------
(* What is on the line, in the shift register and in the FIFO, as one      *)
(* sequence of characters.                                                 *)
Entries == [char : Chars, divisor : {16}]
Queue(w, s, f) ==
    [n \in DOMAIN w |-> w[n].char] \o (IF s = 0 THEN << >> ELSE << s >>) \o f
One(s) == IF s = 0 THEN 0 ELSE 1

LEMMA QueueShape ==
    ASSUME NEW w \in Seq(Entries), NEW s \in Chars \cup {0}, NEW f \in Seq(Chars)
    PROVE  /\ Queue(w, s, f) \in Seq(Chars)
           /\ Len(Queue(w, s, f)) = Len(w) + One(s) + Len(f)
           /\ \A n \in 1..Len(w) + One(s) + Len(f) :
                 Queue(w, s, f)[n] = IF n <= Len(w) THEN w[n].char
                                     ELSE IF n <= Len(w) + One(s) THEN s
                                     ELSE f[n - (Len(w) + One(s))]
<1> DEFINE A == [n \in DOMAIN w |-> w[n].char]
           B == IF s = 0 THEN << >> ELSE << s >>
<1>1. Len(w) \in Nat /\ DOMAIN w = 1..Len(w) /\ \A n \in 1..Len(w) : w[n] \in Entries
  BY LenProperties, ElementOfSeq
<1>2. A \in Seq(Chars) /\ Len(A) = Len(w) /\ \A n \in 1..Len(w) : A[n] = w[n].char
  <2>1. \A n \in 1..Len(w) : w[n].char \in Chars
    BY <1>1 DEF Entries
  <2> QED
    BY <1>1, <2>1
<1>3. B \in Seq(Chars) /\ Len(B) = One(s) /\ (s # 0 => B[1] = s)
  BY DEF One
<1>4. Len(f) \in Nat
  BY LenProperties
<1> HIDE DEF A, B
<1>5. /\ A \o B \in Seq(Chars) /\ Len(A \o B) = Len(A) + Len(B)
      /\ \A n \in 1..Len(A) + Len(B) :
            (A \o B)[n] = IF n <= Len(A) THEN A[n] ELSE B[n - Len(A)]
  <2>1. A \in Seq(Chars) /\ B \in Seq(Chars)
    BY <1>2, <1>3
  <2> QED
    BY <2>1, ConcatProperties, ZenonT(60)
<1> DEFINE AB == A \o B
<1>6. /\ AB \in Seq(Chars) /\ Len(AB) = Len(w) + One(s)
      /\ \A n \in 1..Len(w) + One(s) : AB[n] = IF n <= Len(w) THEN w[n].char ELSE s
  <2>1. \A n \in 1..Len(w) + One(s) : n > Len(w) => n = Len(w) + 1 /\ s # 0
    BY <1>1 DEF One
  <2> QED
    BY <1>1, <1>2, <1>3, <1>5, <2>1
<1> HIDE DEF AB
<1>7. /\ AB \o f \in Seq(Chars) /\ Len(AB \o f) = Len(AB) + Len(f)
      /\ \A n \in 1..Len(AB) + Len(f) :
            (AB \o f)[n] = IF n <= Len(AB) THEN AB[n] ELSE f[n - Len(AB)]
  BY <1>6, ConcatProperties
<1>8. Queue(w, s, f) = AB \o f
  BY DEF Queue, AB, A, B
<1>9. One(s) \in {0, 1}
  BY DEF One
<1>10. ASSUME NEW n \in 1..Len(w) + One(s) + Len(f)
       PROVE  (AB \o f)[n] = IF n <= Len(w) THEN w[n].char
                             ELSE IF n <= Len(w) + One(s) THEN s
                             ELSE f[n - (Len(w) + One(s))]
  BY <1>1, <1>4, <1>6, <1>7, <1>9
<1> QED
  BY <1>6, <1>7, <1>8, <1>10

-----------------------------------------------------------------------------
(* How many characters are written before position n, and whether the      *)
(* latch is open there.                                                    *)
CharAt(n) == n \in 7..6 + L \/ n \in 13 + L..End
Count(n) == IF n <= 7 THEN 0
            ELSE IF n <= 7 + L THEN n - 7
            ELSE IF n <= 13 + L THEN L
            ELSE n - 13
Latch(n) == n \in 3..5 \/ n \in 9 + L..11 + L

LineTypes ==
    /\ at \in 1..End + 1 /\ polls \in BOOLEAN
    /\ low \in 0..255 /\ high \in 0..255
    /\ wire \in Seq(Entries)
    /\ shift \in 0..Count(at)
    /\ fifo = << >> \/ (fifo = << Count(at) >> /\ Count(at) > 0)
Polled == CharAt(at) /\ ~polls => fifo = << >>
Latched ==
    /\ dlab \in BOOLEAN /\ (dlab <=> Latch(at))
    /\ at >= 4 => low = 16
    /\ at >= 5 => high = 0
Ordered ==
    /\ \A m, n \in 1..Len(wire) : m < n => wire[m].char < wire[n].char
    /\ \A n \in 1..Len(wire) :
          /\ wire[n].char <= Count(at)
          /\ shift # 0 => wire[n].char < shift
          /\ fifo # << >> => wire[n].char < Count(at)
    /\ fifo # << >> => shift < Count(at)
Somewhere(c) == c = shift \/ fifo = << c >> \/ \E n \in 1..Len(wire) : wire[n].char = c
Kept == \A c \in 1..Count(at) : c # L => Somewhere(c)

(* The inductive invariant.                                                *)
LineInv == LineTypes /\ Polled /\ Latched /\ Ordered /\ Kept

LEMMA Sizes == L \in Nat \ {0} /\ KernelChars \in Nat \ {0} /\ FifoDepth \in Nat \ {0}
               /\ End = 12 + L + KernelChars /\ Chars = 1..L + KernelChars
  BY SerialAssumption DEF L, End, Chars

(* Count counts the characters: they are numbered in writing order.        *)
LEMMA CountIs ==
    ASSUME NEW n \in 1..End + 1
    PROVE  /\ Count(n) \in 0..L + KernelChars
           /\ n \in 1..End => /\ CharAt(n) => Count(n + 1) = Count(n) + 1
                              /\ ~CharAt(n) => Count(n + 1) = Count(n)
           /\ Count(n) > 0 => n >= 8
  BY Sizes DEF Count, CharAt

LEMMA ProgramAt ==
    ASSUME NEW n \in 1..End
    PROVE  /\ IsChar(n) <=> CharAt(n)
           /\ CharAt(n) => Program[n] = Out(REG_THR, Count(n) + 1)
           /\ ~CharAt(n) => InitAt(n) \in 1..6 /\ Program[n] = init_115200[InitAt(n)]
<1>1. /\ IsChar(n) <=> n \in 7..6 + L \/ n > 12 + L
      /\ IsChar(n) => Program[n] = Out(REG_THR, IF n <= 6 + L THEN n - 6 ELSE n - 12)
      /\ ~IsChar(n) => InitAt(n) \in 1..6 /\ Program[n] = init_115200[InitAt(n)]
  BY ProgramShape DEF ProgramIs
<1>2. IsChar(n) <=> CharAt(n)
  BY <1>1, Sizes DEF CharAt
<1>3. CharAt(n) => (IF n <= 6 + L THEN n - 6 ELSE n - 12) = Count(n) + 1
  BY Sizes DEF CharAt, Count
<1> QED
  BY <1>1, <1>2, <1>3

LEMMA NextIsChar ==
    ASSUME NEW n \in 1..End
    PROVE  n + 1 <= End => (IsChar(n + 1) <=> CharAt(n + 1))
<1> SUFFICES ASSUME n + 1 <= End PROVE IsChar(n + 1) <=> CharAt(n + 1)
  OBVIOUS
<1>1. n + 1 \in 1..End
  BY Sizes
<1> QED
  BY <1>1, ProgramAt
-----------------------------------------------------------------------------
LEMMA LineInit == Init => LineInv
<1> SUFFICES ASSUME Init PROVE LineInv
  OBVIOUS
<1>1. at = 1 /\ Count(at) = 0 /\ ~CharAt(at) /\ ~Latch(at) /\ Len(wire) = 0
      /\ at \in 1..End + 1
  BY Sizes DEF Init, Count, CharAt, Latch
<1>2. wire \in Seq(Entries)
  BY DEF Init
<1>3. LineTypes
  <2>1. fifo = << >> /\ shift = 0 /\ low = 1 /\ high = 0 /\ polls \in BOOLEAN
    BY DEF Init
  <2>2. shift \in 0..Count(at) /\ low \in 0..255 /\ high \in 0..255
    BY <1>1, <2>1
  <2> QED
    BY <1>1, <1>2, <2>1, <2>2 DEF LineTypes
<1>4. Polled /\ Latched
  <2>1. Polled
    BY <1>1 DEF Init, Polled
  <2>2. dlab = FALSE /\ ~(at >= 4) /\ ~(at >= 5)
    BY <1>1 DEF Init
  <2> QED
    BY <1>1, <2>1, <2>2 DEF Latched
<1>5. Ordered /\ Kept
  BY <1>1 DEF Init, Ordered, Kept
<1> QED
  BY <1>3, <1>4, <1>5 DEF LineInv

(* What a write of init_115200 leaves behind.                              *)
LEMMA InitWriteEffect ==
    ASSUME LineInv, InitWrite
    PROVE  /\ at \in 1..End /\ ~CharAt(at) /\ at' = at + 1
           /\ polls' = IsChar(at + 1) /\ shift' = shift /\ wire' = wire
           /\ fifo' = (IF InitAt(at) = 6 THEN << >> ELSE fifo)
           /\ dlab' \in BOOLEAN /\ (dlab' <=> Latch(at + 1))
           /\ low' \in 0..255 /\ high' \in 0..255
           /\ at + 1 >= 4 => low' = 16
           /\ at + 1 >= 5 => high' = 0
<1>1. at \in 1..End /\ ~CharAt(at) /\ at' = at + 1 /\ polls' = IsChar(at + 1)
  <2>1. at \in 1..End
    BY ProgramShape, Sizes DEF InitWrite, LineInv, LineTypes, ProgramIs
  <2> QED
    BY <2>1, ProgramAt DEF InitWrite, NextOp
<1>2. InitAt(at) \in 1..6 /\ Program[at] = init_115200[InitAt(at)]
  BY <1>1, ProgramAt
<1> DEFINE o == Program[at]
<1>3. /\ wire' = wire /\ shift' = shift
      /\ dlab' = (IF o.port = REG_LCR THEN o.value >= 128 ELSE dlab)
      /\ low' = (IF o.port = REG_DLL /\ dlab THEN o.value ELSE low)
      /\ high' = (IF o.port = REG_DLM /\ dlab THEN o.value ELSE high)
      /\ fifo' = (IF o.port = REG_FCR /\ o.value = 7 THEN << >>
                  ELSE IF o.port = REG_THR /\ ~dlab /\ Len(fifo) < FifoDepth
                  THEN Append(fifo, o.value) ELSE fifo)
  BY DEF InitWrite, outb
<1>4. /\ dlab \in BOOLEAN /\ (dlab <=> Latch(at)) /\ low \in 0..255 /\ high \in 0..255
      /\ at >= 4 => low = 16
      /\ at >= 5 => high = 0
  BY DEF LineInv, LineTypes, Latched
<1>5. at = InitAt(at) \/ at = InitAt(at) + 6 + L
  BY <1>1, Sizes DEF InitAt
<1>6. /\ Latch(at) <=> InitAt(at) \in 3..5
      /\ Latch(at + 1) <=> InitAt(at) + 1 \in 3..5
  BY <1>1, <1>2, <1>5, Sizes DEF Latch
<1> HIDE DEF o
<1>7. CASE InitAt(at) = 1
  <2>1. o.port = 1 /\ o.value = 0
    BY <1>2, <1>7 DEF o, init_115200, Out, REG_IER
  <2> QED
    BY <1>1, <1>3, <1>4, <1>5, <1>6, <1>7, <2>1, Sizes
       DEF REG_LCR, REG_DLL, REG_DLM, REG_FCR, REG_THR
<1>8. CASE InitAt(at) = 2
  <2>1. o.port = 3 /\ o.value = 128
    BY <1>2, <1>8 DEF o, init_115200, Out, REG_LCR
  <2>2. dlab' = TRUE
    <3>1. o.port = REG_LCR /\ (o.value >= 128)
      BY <2>1, SMT DEF REG_LCR
    <3>2. dlab' = (o.value >= 128)
      BY <1>3, <3>1, Zenon
    <3> QED
      BY <3>1, <3>2, Zenon
  <2> QED
    BY <1>1, <1>3, <1>4, <1>5, <1>6, <1>8, <2>1, <2>2, Sizes
       DEF REG_LCR, REG_DLL, REG_DLM, REG_FCR, REG_THR
<1>9. CASE InitAt(at) = 3
  <2>1. o.port = 0 /\ o.value = 16
    BY <1>2, <1>9 DEF o, init_115200, Out, REG_DLL
  <2> QED
    BY <1>1, <1>3, <1>4, <1>5, <1>6, <1>9, <2>1, Sizes
       DEF REG_LCR, REG_DLL, REG_DLM, REG_FCR, REG_THR
<1>10. CASE InitAt(at) = 4
  <2>1. o.port = 1 /\ o.value = 0
    BY <1>2, <1>10 DEF o, init_115200, Out, REG_DLM
  <2> QED
    BY <1>1, <1>3, <1>4, <1>5, <1>6, <1>10, <2>1, Sizes
       DEF REG_LCR, REG_DLL, REG_DLM, REG_FCR, REG_THR
<1>11. CASE InitAt(at) = 5
  <2>1. o.port = 3 /\ o.value = 3
    BY <1>2, <1>11 DEF o, init_115200, Out, REG_LCR
  <2>2. dlab' \in BOOLEAN /\ ~dlab'
    <3>1. o.port = REG_LCR /\ (~(o.value >= 128))
      BY <2>1, SMT DEF REG_LCR
    <3>2. dlab' = (o.value >= 128)
      BY <1>3, <3>1, Zenon
    <3>3. (o.value >= 128) = FALSE
      BY <2>1, SMT
    <3> QED
      BY <3>2, <3>3, Zenon
  <2> QED
    BY <1>1, <1>3, <1>4, <1>5, <1>6, <1>11, <2>1, <2>2, Sizes
       DEF REG_LCR, REG_DLL, REG_DLM, REG_FCR, REG_THR
<1>12. CASE InitAt(at) = 6
  <2>1. o.port = 2 /\ o.value = 7
    BY <1>2, <1>12 DEF o, init_115200, Out, REG_FCR
  <2> QED
    BY <1>1, <1>3, <1>4, <1>5, <1>6, <1>12, <2>1, Sizes
       DEF REG_LCR, REG_DLL, REG_DLM, REG_FCR, REG_THR
<1> QED
  BY <1>2, <1>7, <1>8, <1>9, <1>10, <1>11, <1>12
-----------------------------------------------------------------------------
LEMMA StepInitWrite == LineInv /\ InitWrite => LineInv'
<1> SUFFICES ASSUME LineInv, InitWrite PROVE LineInv'
  OBVIOUS
<1>1. /\ at \in 1..End /\ ~CharAt(at) /\ at' = at + 1
      /\ polls' = IsChar(at + 1) /\ shift' = shift /\ wire' = wire
      /\ fifo' = (IF InitAt(at) = 6 THEN << >> ELSE fifo)
      /\ dlab' \in BOOLEAN /\ (dlab' <=> Latch(at + 1))
      /\ low' \in 0..255 /\ high' \in 0..255
      /\ at + 1 >= 4 => low' = 16
      /\ at + 1 >= 5 => high' = 0
  BY InitWriteEffect
<1>2. Count(at + 1) = Count(at) /\ at + 1 \in 1..End + 1
  BY <1>1, CountIs, Sizes
<1>3. LineTypes /\ Ordered /\ Kept
  BY DEF LineInv
<1>4. fifo' = << >> \/ fifo' = fifo
  BY <1>1
<1>5. LineTypes'
  <2>1. polls' \in BOOLEAN
    BY <1>1 DEF IsChar
  <2> QED
    BY <1>1, <1>2, <1>3, <1>4, <2>1 DEF LineTypes
<1>6. Polled'
  <2>1. CharAt(at + 1) => at + 1 <= End
    BY Sizes DEF CharAt
  <2> QED
    BY <1>1, <2>1, NextIsChar DEF Polled
<1>7. Latched'
  BY <1>1 DEF Latched
<1>8. Ordered'
  BY <1>1, <1>2, <1>3, <1>4 DEF Ordered
<1>9. Kept'
  <2> SUFFICES ASSUME NEW c \in 1..Count(at), c # L PROVE Somewhere(c)'
    BY <1>1, <1>2 DEF Kept
  <2>1. Somewhere(c)
    BY <1>3 DEF Kept
  <2>2. CASE InitAt(at) # 6
    BY <1>1, <2>1, <2>2 DEF Somewhere
  <2>3. CASE InitAt(at) = 6
    <3>1. Count(at) \in {0, L} /\ Count(at) \in Nat
      BY <1>1, <2>3, Sizes DEF InitAt, Count, CharAt
    <3>2. fifo # << c >>
      <4>1. fifo = << >> \/ fifo = << Count(at) >>
        BY <1>3 DEF LineTypes
      <4>2. c # Count(at)
        BY <3>1
      <4> QED
        BY <4>1, <4>2
    <3> QED
      BY <1>1, <2>1, <3>2 DEF Somewhere
  <2> QED
    BY <2>2, <2>3
<1> QED
  BY <1>5, <1>6, <1>7, <1>8, <1>9 DEF LineInv

LEMMA StepPollReady == LineInv /\ PollReady => LineInv'
<1> SUFFICES ASSUME LineInv, PollReady PROVE LineInv'
  OBVIOUS
<1>1. /\ polls /\ fifo = << >> /\ polls' = FALSE
      /\ at' = at /\ dlab' = dlab /\ low' = low /\ high' = high
      /\ fifo' = fifo /\ shift' = shift /\ wire' = wire
  BY DEF PollReady, THRE, uart
<1>2. LineTypes' /\ Polled'
  BY <1>1 DEF LineInv, LineTypes, Polled
<1>3. Latched' /\ Ordered' /\ Kept'
  BY <1>1 DEF LineInv, Latched, Ordered, Kept, Somewhere
<1> QED
  BY <1>2, <1>3 DEF LineInv

LEMMA StepWriteThr == LineInv /\ WriteThr => LineInv'
<1> SUFFICES ASSUME LineInv, WriteThr PROVE LineInv'
  OBVIOUS
<1>1. at \in 1..End /\ IsChar(at) /\ ~polls /\ at' = at + 1 /\ polls' = IsChar(at + 1)
  BY ProgramShape, Sizes DEF WriteThr, NextOp, LineInv, LineTypes, ProgramIs
<1>2. CharAt(at) /\ Program[at] = Out(REG_THR, Count(at) + 1)
  BY <1>1, ProgramAt
<1>3. fifo = << >>
  BY <1>1, <1>2 DEF LineInv, Polled
<1>4. ~dlab /\ at >= 5
  <2>1. ~Latch(at) /\ at >= 5
    BY <1>1, <1>2, Sizes DEF Latch, CharAt
  <2> QED
    BY <2>1 DEF LineInv, Latched
<1>5. /\ wire' = wire /\ shift' = shift /\ dlab' = dlab /\ low' = low /\ high' = high
      /\ fifo' = << Count(at) + 1 >>
  <2>1. Program[at].port = 0 /\ Program[at].value = Count(at) + 1
    BY <1>2 DEF Out, REG_THR
  <2>2. Len(fifo) < FifoDepth /\ Append(fifo, Count(at) + 1) = << Count(at) + 1 >>
    BY <1>3, Sizes
  <2> QED
    BY <1>4, <2>1, <2>2
       DEF WriteThr, outb, REG_LCR, REG_DLL, REG_DLM, REG_FCR, REG_THR
<1>6. Count(at + 1) = Count(at) + 1 /\ at + 1 \in 1..End + 1 /\ Count(at) \in Nat
  BY <1>1, <1>2, CountIs, Sizes
<1>7. LineTypes'
  <2>1. polls' \in BOOLEAN
    BY <1>1 DEF IsChar
  <2>2. shift' \in 0..Count(at')
    BY <1>1, <1>5, <1>6 DEF LineInv, LineTypes
  <2> QED
    BY <1>1, <1>5, <1>6, <2>1, <2>2 DEF LineInv, LineTypes
<1>8. Polled'
  <2>1. CharAt(at + 1) => at + 1 <= End
    BY Sizes DEF CharAt
  <2> QED
    BY <1>1, <2>1, NextIsChar DEF Polled
<1>9. Latched'
  <2>1. ~Latch(at + 1)
    BY <1>1, <1>2, Sizes DEF Latch, CharAt
  <2> QED
    BY <1>1, <1>4, <1>5, <2>1 DEF LineInv, Latched
<1>10. Ordered'
  <2>1. \A n \in 1..Len(wire) : wire[n].char \in Nat
    <3> SUFFICES ASSUME NEW n \in 1..Len(wire) PROVE wire[n].char \in Nat
      OBVIOUS
    <3>1. wire[n] \in Entries
      BY ElementOfSeq DEF LineInv, LineTypes
    <3> QED
      BY <3>1, Sizes DEF Entries
  <2> QED
    BY <1>1, <1>3, <1>5, <1>6, <2>1 DEF LineInv, LineTypes, Ordered
<1>11. Kept'
  <2> SUFFICES ASSUME NEW c \in 1..Count(at) + 1, c # L PROVE Somewhere(c)'
    BY <1>1, <1>6 DEF Kept
  <2>1. CASE c = Count(at) + 1
    BY <1>5, <2>1 DEF Somewhere
  <2>2. CASE c \in 1..Count(at)
    <3>1. Somewhere(c)
      BY <2>2 DEF LineInv, Kept
    <3> QED
      BY <1>3, <1>5, <3>1 DEF Somewhere
  <2> QED
    BY <1>6, <2>1, <2>2
<1> QED
  BY <1>7, <1>8, <1>9, <1>10, <1>11 DEF LineInv

LEMMA StepLoad == LineInv /\ Load => LineInv'
<1> SUFFICES ASSUME LineInv, Load PROVE LineInv'
  OBVIOUS
<1>1. /\ shift = 0 /\ fifo # << >> /\ shift' = Head(fifo) /\ fifo' = Tail(fifo)
      /\ at' = at /\ polls' = polls /\ dlab' = dlab /\ low' = low /\ high' = high
      /\ wire' = wire
  BY DEF Load
<1>2. fifo = << Count(at) >> /\ Count(at) > 0 /\ at \in 1..End + 1
  BY <1>1 DEF LineInv, LineTypes
<1>3. shift' = Count(at) /\ fifo' = << >> /\ Count(at) \in Nat
  BY <1>1, <1>2, CountIs
<1>4. LineTypes'
  BY <1>1, <1>2, <1>3 DEF LineInv, LineTypes
<1>5. Polled' /\ Latched'
  BY <1>1, <1>3 DEF LineInv, Polled, Latched
<1>6. Ordered'
  BY <1>1, <1>3 DEF LineInv, Ordered
<1>7. Kept'
  <2> SUFFICES ASSUME NEW c \in 1..Count(at), c # L PROVE Somewhere(c)'
    BY <1>1 DEF Kept
  <2>1. Somewhere(c)
    BY DEF LineInv, Kept
  <2> QED
    BY <1>1, <1>2, <1>3, <2>1 DEF Somewhere
<1> QED
  BY <1>4, <1>5, <1>6, <1>7 DEF LineInv

LEMMA StepSend == LineInv /\ Send => LineInv'
<1> SUFFICES ASSUME LineInv, Send PROVE LineInv'
  OBVIOUS
<1> DEFINE e == [char |-> shift, divisor |-> divisor]
<1>1. /\ shift # 0 /\ shift' = 0 /\ wire' = Append(wire, e)
      /\ at' = at /\ polls' = polls /\ dlab' = dlab /\ low' = low /\ high' = high
      /\ fifo' = fifo
  BY DEF Send
<1>2. /\ at \in 1..End + 1 /\ shift \in 0..Count(at) /\ wire \in Seq(Entries)
      /\ Count(at) \in 0..L + KernelChars /\ at >= 8
  BY <1>1, CountIs DEF LineInv, LineTypes
<1>3. e \in Entries /\ e.char = shift
  <2>1. divisor = 16
    BY <1>2 DEF LineInv, Latched, divisor
  <2>2. shift \in Chars
    BY <1>1, <1>2, Sizes
  <2> QED
    BY <2>1, <2>2 DEF Entries
<1> HIDE DEF e
<1>4. /\ wire' \in Seq(Entries) /\ Len(wire') = Len(wire) + 1 /\ Len(wire) \in Nat
      /\ \A n \in 1..Len(wire) : wire'[n] = wire[n]
      /\ wire'[Len(wire) + 1] = e
  BY <1>1, <1>2, <1>3, AppendProperties, LenProperties
<1>5. LineTypes'
  BY <1>1, <1>2, <1>4 DEF LineInv, LineTypes
<1>6. Polled' /\ Latched'
  BY <1>1 DEF LineInv, Polled, Latched
<1>7. Ordered'
  <2>1. \A m, n \in 1..Len(wire') : m < n => wire'[m].char < wire'[n].char
    <3> SUFFICES ASSUME NEW m \in 1..Len(wire'), NEW n \in 1..Len(wire'), m < n
                 PROVE  wire'[m].char < wire'[n].char
      OBVIOUS
    <3>1. m \in 1..Len(wire) /\ (n \in 1..Len(wire) \/ n = Len(wire) + 1)
      BY <1>4
    <3> QED
      BY <1>1, <1>3, <1>4, <3>1 DEF LineInv, Ordered
  <2>2. \A n \in 1..Len(wire') :
          /\ wire'[n].char <= Count(at)
          /\ fifo # << >> => wire'[n].char < Count(at)
    <3> SUFFICES ASSUME NEW n \in 1..Len(wire')
                 PROVE  /\ wire'[n].char <= Count(at)
                        /\ fifo # << >> => wire'[n].char < Count(at)
      OBVIOUS
    <3>1. n \in 1..Len(wire) \/ n = Len(wire) + 1
      BY <1>4
    <3> QED
      BY <1>2, <1>3, <1>4, <3>1 DEF LineInv, Ordered
  <2>3. fifo # << >> => 0 < Count(at)
    BY DEF LineInv, LineTypes
  <2> QED
    BY <1>1, <2>1, <2>2, <2>3 DEF Ordered
<1>8. Kept'
  <2> SUFFICES ASSUME NEW c \in 1..Count(at), c # L PROVE Somewhere(c)'
    BY <1>1 DEF Kept
  <2>1. Somewhere(c)
    BY DEF LineInv, Kept
  <2>2. CASE c = shift
    <3>1. Len(wire) + 1 \in 1..Len(wire')
      BY <1>4
    <3> QED
      BY <1>3, <1>4, <2>2, <3>1 DEF Somewhere
  <2>3. CASE fifo = << c >>
    BY <1>1, <2>3 DEF Somewhere
  <2>4. CASE \E n \in 1..Len(wire) : wire[n].char = c
    BY <1>4, <2>4 DEF Somewhere
  <2> QED
    BY <2>1, <2>2, <2>3, <2>4 DEF Somewhere
<1> QED
  BY <1>5, <1>6, <1>7, <1>8 DEF LineInv
-----------------------------------------------------------------------------
LEMMA StepLine == LineInv /\ [Next]_vars => LineInv'
<1> SUFFICES ASSUME LineInv, [Next]_vars PROVE LineInv'
  OBVIOUS
<1>1. CASE InitWrite
  BY <1>1, StepInitWrite
<1>2. CASE PollReady
  BY <1>2, StepPollReady
<1>3. CASE WriteThr
  BY <1>3, StepWriteThr
<1>4. CASE Load
  BY <1>4, StepLoad
<1>5. CASE Send
  BY <1>5, StepSend
<1>6. CASE UNCHANGED vars
  BY <1>6 DEF vars, uart, LineInv, LineTypes, Polled, Latched, Ordered, Kept, Somewhere
<1> QED
  BY <1>1, <1>2, <1>3, <1>4, <1>5, <1>6 DEF Next, Software, Stopped

LEMMA LineInvariant == Spec => []LineInv
<1>1. Init => LineInv
  BY LineInit
<1>2. LineInv /\ [Next]_vars => LineInv'
  BY StepLine
<1> QED
  BY <1>1, <1>2, PTL DEF Spec

(* The characters written so far are the first Count(at).                  *)
LEMMA WrittenIs == at \in 1..End + 1 => Written = 1..Count(at)
<1> SUFFICES ASSUME at \in 1..End + 1 PROVE Written = 1..Count(at)
  OBVIOUS
<1>1. ASSUME NEW c \in Chars, NEW n \in 1..at - 1, Program[n] = write_char(c), IsChar(n)
      PROVE  c \in 1..Count(at)
  <2>1. n \in 1..End /\ CharAt(n) /\ Program[n] = Out(REG_THR, Count(n) + 1)
    BY <1>1, Sizes, ProgramAt
  <2>2. c = Count(n) + 1
    BY <1>1, <2>1 DEF write_char, Out
  <2> QED
    BY <2>1, <2>2, Sizes DEF Count, CharAt
<1>2. ASSUME NEW c \in 1..Count(at)
      PROVE  c \in Chars /\ \E n \in 1..at - 1 : Program[n] = write_char(c) /\ IsChar(n)
  <2> DEFINE n == IF c <= L THEN c + 6 ELSE c + 12
  <2>1. n \in 1..at - 1 /\ n \in 1..End /\ CharAt(n) /\ Count(n) + 1 = c /\ c \in Chars
    BY Sizes DEF Count, CharAt
  <2> HIDE DEF n
  <2>2. IsChar(n) /\ Program[n] = write_char(c)
    BY <2>1, ProgramAt DEF write_char
  <2> QED
    BY <2>1, <2>2
<1>3. Count(at) \in Nat
  BY CountIs
<1> QED
  BY <1>1, <1>2, <1>3 DEF Written

(* The types are part of the invariant.                                    *)
THEOREM SerialTypes == Spec => []TypeOK
<1>1. LineInv => TypeOK
  <2> SUFFICES ASSUME LineInv PROVE TypeOK
    OBVIOUS
  <2>1. at \in 1 .. Len(Program) + 1 /\ Count(at) \in 0..L + KernelChars
    BY ProgramShape, CountIs DEF ProgramIs, LineInv, LineTypes
  <2>2. fifo \in Seq(Chars) /\ Len(fifo) <= FifoDepth
    <3>1. CASE fifo = << >>
      BY <3>1, Sizes
    <3>2. CASE fifo = << Count(at) >> /\ Count(at) > 0
      BY <2>1, <3>2, Sizes
    <3> QED
      BY <3>1, <3>2 DEF LineInv, LineTypes
  <2>3. shift \in Chars \cup {0}
    BY <2>1, Sizes DEF LineInv, LineTypes
  <2>4. wire \in Seq([char : Chars, divisor : Nat])
    <3>1. Entries \subseteq [char : Chars, divisor : Nat]
      BY DEF Entries
    <3>2. wire \in Seq(Entries)
      BY DEF LineInv, LineTypes
    <3> QED
      BY <3>1, <3>2, SeqMonotonic
  <2> QED
    BY <2>1, <2>2, <2>3, <2>4 DEF TypeOK, LineInv, LineTypes, Latched
<1> QED
  BY <1>1, LineInvariant, PTL

(* Whatever the pace of the UART, however deep its FIFO and however much   *)
(* is written: what was written is on the line, in the shift register or   *)
(* in the FIFO, in order and once, but possibly the loader's last          *)
(* character.                                                              *)
THEOREM SerialKeeps == Spec => []NothingLostInTransit
<1>1. LineInv => NothingLostInTransit
  <2> SUFFICES ASSUME LineInv PROVE NothingLostInTransit
    OBVIOUS
  <2>1. /\ at \in 1..End + 1 /\ Count(at) \in 0..L + KernelChars
        /\ wire \in Seq(Entries) /\ Len(wire) \in Nat
        /\ shift \in 0..Count(at) /\ shift \in Chars \cup {0}
    BY CountIs, LenProperties, Sizes DEF LineInv, LineTypes
  <2>2. Written = 1..Count(at)
    BY <2>1, WrittenIs
  <2>3. /\ fifo \in Seq(Chars) /\ Len(fifo) \in {0, 1}
        /\ fifo # << >> <=> Len(fifo) = 1
        /\ Len(fifo) = 1 => fifo[1] = Count(at) /\ Count(at) > 0 /\ fifo = << fifo[1] >>
    <3>1. CASE fifo = << >>
      BY <3>1
    <3>2. CASE fifo = << Count(at) >> /\ Count(at) > 0
      BY <2>1, <3>2, Sizes
    <3> QED
      BY <3>1, <3>2 DEF LineInv, LineTypes
  <2>4. Line = Queue(wire, shift, fifo)
    BY DEF Line, Queue
  <2>5. /\ Line \in Seq(Chars)
        /\ Len(Line) = Len(wire) + One(shift) + Len(fifo)
        /\ \A n \in 1..Len(wire) + One(shift) + Len(fifo) :
              Line[n] = IF n <= Len(wire) THEN wire[n].char
                        ELSE IF n <= Len(wire) + One(shift) THEN shift
                        ELSE fifo[n - (Len(wire) + One(shift))]
    BY <2>1, <2>3, <2>4, QueueShape
  <2>6. DOMAIN Line = 1..Len(Line) /\ Len(Line) \in Nat
    BY <2>5, LenProperties
  <2>7. One(shift) \in {0, 1} /\ (One(shift) = 1 <=> shift # 0)
    BY DEF One
  <2>8. ASSUME NEW n \in 1..Len(Line)
        PROVE  \/ n \in 1..Len(wire) /\ Line[n] = wire[n].char
               \/ n = Len(wire) + 1 /\ shift # 0 /\ Line[n] = shift
               \/ n = Len(Line) /\ n > Len(wire) + One(shift) /\ fifo # << >> /\ Line[n] = Count(at)
    <3>1. CASE n <= Len(wire)
      BY <2>1, <2>3, <2>5, <2>7, <3>1
    <3>2. CASE n > Len(wire) /\ n <= Len(wire) + One(shift)
      BY <2>1, <2>3, <2>5, <2>7, <3>2
    <3>3. CASE n > Len(wire) + One(shift)
      <4> DEFINE k == Len(wire) + One(shift)
      <4>1. k \in Nat /\ Len(Line) = k + Len(fifo) /\ n \in 1..k + Len(fifo) /\ n > k
            /\ Len(fifo) \in {0, 1}
        BY <2>1, <2>3, <2>5, <2>7, <2>8, <3>3
      <4> HIDE DEF k
      <4>2. n = k + 1 /\ Len(fifo) = 1 /\ n = Len(Line)
        <5>1. n \in Nat /\ n <= k + Len(fifo)
          BY <4>1
        <5>2. Len(fifo) = 1
          BY <4>1, <5>1
        <5> QED
          BY <4>1, <5>1, <5>2
      <4>3. n - k = 1
        BY <4>1, <4>2
      <4>4. Line[n] = fifo[1]
        BY <2>1, <2>5, <2>7, <3>3, <4>3 DEF k
      <4> QED
        BY <2>3, <3>3, <4>2, <4>4
    <3> QED
      BY <2>1, <2>7, <3>1, <3>2, <3>3
  <2>9. \A n \in 1..Len(wire) : wire[n].char \in Chars
    <3> SUFFICES ASSUME NEW n \in 1..Len(wire) PROVE wire[n].char \in Chars
      OBVIOUS
    <3>1. wire[n] \in Entries
      BY <2>1, ElementOfSeq
    <3> QED
      BY <3>1 DEF Entries
  <2>10. ASSUME NEW m \in 1..Len(Line), NEW n \in 1..Len(Line), m < n
         PROVE  Line[m] < Line[n]
    <3>1. CASE n \in 1..Len(wire) /\ Line[n] = wire[n].char
      <4>1. m \in 1..Len(wire) /\ Line[m] = wire[m].char
        BY <2>1, <2>8, <2>10, <3>1
      <4> QED
        BY <2>10, <3>1, <4>1 DEF LineInv, Ordered
    <3>2. CASE n = Len(wire) + 1 /\ shift # 0 /\ Line[n] = shift
      <4>1. m \in 1..Len(wire) /\ Line[m] = wire[m].char
        BY <2>1, <2>7, <2>8, <2>10, <3>2
      <4> QED
        BY <3>2, <4>1 DEF LineInv, Ordered
    <3>3. CASE /\ n = Len(Line) /\ n > Len(wire) + One(shift)
               /\ fifo # << >> /\ Line[n] = Count(at)
      <4>1. \/ m \in 1..Len(wire) /\ Line[m] = wire[m].char
            \/ Line[m] = shift
        BY <2>1, <2>8, <2>10, <3>3
      <4> QED
        BY <3>3, <4>1 DEF LineInv, Ordered
    <3> QED
      BY <2>8, <3>1, <3>2, <3>3
  <2>11. ASSUME NEW n \in 1..Len(Line) PROVE Line[n] \in Written
    <3>1. \A k \in 1..Len(wire) : wire[k].char \in 1..Count(at)
      BY <2>1, <2>9, Sizes DEF LineInv, Ordered
    <3> QED
      BY <2>1, <2>2, <2>3, <2>8, <3>1
  <2>12. ASSUME NEW c \in Written \ {LoaderChars}
         PROVE  \E n \in 1..Len(Line) : Line[n] = c
    <3>1. c \in 1..Count(at) /\ c # L
      BY <2>2 DEF L
    <3>2. Somewhere(c)
      BY <3>1 DEF LineInv, Kept
    <3>3. CASE \E n \in 1..Len(wire) : wire[n].char = c
      BY <2>1, <2>3, <2>5, <2>7, <3>3
    <3>4. CASE c = shift
      <4>1. One(shift) = 1
        BY <2>7, <3>1, <3>4
      <4>2. Len(wire) + 1 \in 1..Len(Line) /\ Line[Len(wire) + 1] = shift
        BY <2>1, <2>3, <2>5, <4>1, SMTT(30)
      <4> QED
        BY <3>4, <4>2
    <3>5. CASE fifo = << c >>
      <4>1. Len(fifo) = 1 /\ fifo[1] = c
        BY <3>5
      <4>2. Len(Line) \in 1..Len(Line) /\ Line[Len(Line)] = fifo[1]
        <5>1. Len(Line) = Len(wire) + One(shift) + 1
          BY <2>5, <4>1
        <5>2. Len(Line) - (Len(wire) + One(shift)) = 1
          BY <2>1, <2>7, <5>1
        <5> QED
          BY <2>1, <2>5, <2>7, <4>1, <5>1, <5>2
      <4> QED
        BY <4>1, <4>2
    <3> QED
      BY <3>2, <3>3, <3>4, <3>5 DEF Somewhere
  <2> QED
    BY <2>6, <2>10, <2>11, <2>12 DEF NothingLostInTransit
<1> QED
  BY <1>1, LineInvariant, PTL

(* No character leaves with another divisor than init_115200's, although   *)
(* the kernel programs the divisor anew while the loader's output may      *)
(* still be on its way.                                                    *)
THEOREM SerialDivisor == Spec => []OneDivisor
<1>1. LineInv => OneDivisor
  <2> SUFFICES ASSUME LineInv PROVE OneDivisor
    OBVIOUS
  <2>1. wire \in Seq(Entries) /\ DOMAIN wire = 1..Len(wire)
    BY LenProperties DEF LineInv, LineTypes
  <2>2. \A n \in 1..Len(wire) : wire[n] \in Entries
    BY <2>1, ElementOfSeq
  <2> QED
    BY <2>1, <2>2 DEF OneDivisor, Entries
<1> QED
  BY <1>1, LineInvariant, PTL
=============================================================================
