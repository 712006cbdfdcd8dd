------------------------- MODULE KernelStagesProofs -------------------------
(***************************************************************************)
(* kernel_entry and its handlers under every timing of the timers: where   *)
(* the kernel is tells which gates are in place, which controller may      *)
(* interrupt it and what it has printed.                                   *)
(***************************************************************************)
EXTENDS KernelStages, TLAPS

(* Any set the operations of kernel_entry belong to.                        *)
Ops == {Stage1Ops[k] : k \in 1..5}
       \cup {Stage2Ops[k] : k \in 1..9}
       \cup {Stage3Ops[k] : k \in 1..14}
       \cup {Stage4Ops[k] : k \in 1..19}
       \cup {Stage5Ops[k] : k \in 1..8}

(* Where the operations of two joined sequences are.                       *)
LEMMA Joined ==
    ASSUME NEW s \in Seq(Ops), NEW t \in Seq(Ops)
    PROVE  /\ s \o t \in Seq(Ops) /\ Len(s \o t) = Len(s) + Len(t)
           /\ \A k \in 1..Len(s) : (s \o t)[k] = s[k]
           /\ \A k \in 1..Len(t) : (s \o t)[Len(s) + k] = t[k]
<1>1. s \o t \in Seq(Ops) /\ Len(s \o t) = Len(s) + Len(t)
  OBVIOUS
<1>2. \A k \in 1..Len(s) : (s \o t)[k] = s[k]
  OBVIOUS
<1>3. \A k \in 1..Len(t) : (s \o t)[Len(s) + k] = t[k]
  OBVIOUS
<1> QED
  BY <1>1, <1>2, <1>3

(* How many operations each stage has, and that all of them are in Ops.    *)
LEMMA StageOps ==
    /\ Stage1Ops \in Seq(Ops) /\ Len(Stage1Ops) = 5
    /\ Stage2Ops \in Seq(Ops) /\ Len(Stage2Ops) = 9
    /\ Stage3Ops \in Seq(Ops) /\ Len(Stage3Ops) = 14
    /\ Stage4Ops \in Seq(Ops) /\ Len(Stage4Ops) = 19
    /\ Stage5Ops \in Seq(Ops) /\ Len(Stage5Ops) = 8
<1>1. Len(Stage1Ops) = 5 /\ DOMAIN Stage1Ops = 1..5
      /\ Stage1Ops = [k \in 1..5 |-> Stage1Ops[k]]
  BY DEF Stage1Ops
<1>2. Len(Stage2Ops) = 9 /\ DOMAIN Stage2Ops = 1..9
      /\ Stage2Ops = [k \in 1..9 |-> Stage2Ops[k]]
  BY DEF Stage2Ops
<1>3. Len(Stage3Ops) = 14 /\ DOMAIN Stage3Ops = 1..14
      /\ Stage3Ops = [k \in 1..14 |-> Stage3Ops[k]]
  BY DEF Stage3Ops
<1>4. Len(Stage4Ops) = 19 /\ DOMAIN Stage4Ops = 1..19
      /\ Stage4Ops = [k \in 1..19 |-> Stage4Ops[k]]
  BY DEF Stage4Ops
<1>5. Len(Stage5Ops) = 8 /\ DOMAIN Stage5Ops = 1..8
      /\ Stage5Ops = [k \in 1..8 |-> Stage5Ops[k]]
  BY DEF Stage5Ops
<1>6. /\ \A k \in 1..5 : Stage1Ops[k] \in Ops
      /\ \A k \in 1..9 : Stage2Ops[k] \in Ops
      /\ \A k \in 1..14 : Stage3Ops[k] \in Ops
      /\ \A k \in 1..19 : Stage4Ops[k] \in Ops
      /\ \A k \in 1..8 : Stage5Ops[k] \in Ops
  BY DEF Ops
<1> QED
  BY <1>1, <1>2, <1>3, <1>4, <1>5, <1>6


(* kernel_entry without its last stages.                                   *)
UpTo2 == Stage1Ops \o Stage2Ops
UpTo3 == UpTo2 \o Stage3Ops
UpTo4 == UpTo3 \o Stage4Ops
UpTo5 == UpTo4 \o Stage5Ops

(* kernel_entry as the stages joined one after the other: up to Stage 2.   *)
LEMMA UpTo2Is ==
    /\ UpTo2 \in Seq(Ops) /\ Len(UpTo2) = 14
    /\ \A k \in 1..5 : UpTo2[k] = Stage1Ops[k]
    /\ \A k \in 1..9 : UpTo2[5 + k] = Stage2Ops[k]
<1> DEFINE m == 5
           n == 9
<1>1. m = 5 /\ n = 9 /\ m + n = 14
  OBVIOUS
<1>6. m \in Nat /\ n \in Nat
  OBVIOUS
<1> HIDE DEF m, n
<1>2. Len(Stage1Ops) = m /\ Stage1Ops \in Seq(Ops)
  BY <1>1, StageOps
<1>3. Len(Stage2Ops) = n /\ Stage2Ops \in Seq(Ops)
  BY <1>1, StageOps
<1>4. /\ UpTo2 \in Seq(Ops) /\ Len(UpTo2) = Len(Stage1Ops) + Len(Stage2Ops)
      /\ \A k \in 1..Len(Stage1Ops) : UpTo2[k] = Stage1Ops[k]
      /\ \A k \in 1..Len(Stage2Ops) : UpTo2[Len(Stage1Ops) + k] = Stage2Ops[k]
  BY <1>2, <1>3, Joined DEF UpTo2
<1>5. /\ UpTo2 \in Seq(Ops) /\ Len(UpTo2) = m + n
      /\ \A k \in 1..m : UpTo2[k] = Stage1Ops[k]
      /\ \A k \in 1..n : UpTo2[m + k] = Stage2Ops[k]
  BY <1>2, <1>3, <1>4, Zenon
<1> QED
  BY <1>1, <1>5, Zenon

(* Up to Stage 3.                                                          *)
LEMMA UpTo3Is ==
    /\ UpTo3 \in Seq(Ops) /\ Len(UpTo3) = 28
    /\ \A k \in 1..14 : UpTo3[k] = UpTo2[k]
    /\ \A k \in 1..14 : UpTo3[14 + k] = Stage3Ops[k]
<1> DEFINE m == 14
           n == 14
<1>1. m = 14 /\ n = 14 /\ m + n = 28
  OBVIOUS
<1>6. m \in Nat /\ n \in Nat
  OBVIOUS
<1> HIDE DEF m, n
<1>2. Len(UpTo2) = m /\ UpTo2 \in Seq(Ops)
  BY <1>1, UpTo2Is
<1>3. Len(Stage3Ops) = n /\ Stage3Ops \in Seq(Ops)
  BY <1>1, StageOps
<1>4. /\ UpTo3 \in Seq(Ops) /\ Len(UpTo3) = Len(UpTo2) + Len(Stage3Ops)
      /\ \A k \in 1..Len(UpTo2) : UpTo3[k] = UpTo2[k]
      /\ \A k \in 1..Len(Stage3Ops) : UpTo3[Len(UpTo2) + k] = Stage3Ops[k]
  BY <1>2, <1>3, Joined DEF UpTo3
<1>5. /\ UpTo3 \in Seq(Ops) /\ Len(UpTo3) = m + n
      /\ \A k \in 1..m : UpTo3[k] = UpTo2[k]
      /\ \A k \in 1..n : UpTo3[m + k] = Stage3Ops[k]
  BY <1>2, <1>3, <1>4, Zenon
<1> QED
  BY <1>1, <1>5, Zenon

(* Up to Stage 4.                                                          *)
LEMMA UpTo4Is ==
    /\ UpTo4 \in Seq(Ops) /\ Len(UpTo4) = 47
    /\ \A k \in 1..28 : UpTo4[k] = UpTo3[k]
    /\ \A k \in 1..19 : UpTo4[28 + k] = Stage4Ops[k]
<1> DEFINE m == 28
           n == 19
<1>1. m = 28 /\ n = 19 /\ m + n = 47
  OBVIOUS
<1>6. m \in Nat /\ n \in Nat
  OBVIOUS
<1> HIDE DEF m, n
<1>2. Len(UpTo3) = m /\ UpTo3 \in Seq(Ops)
  BY <1>1, UpTo3Is
<1>3. Len(Stage4Ops) = n /\ Stage4Ops \in Seq(Ops)
  BY <1>1, StageOps
<1>4. /\ UpTo4 \in Seq(Ops) /\ Len(UpTo4) = Len(UpTo3) + Len(Stage4Ops)
      /\ \A k \in 1..Len(UpTo3) : UpTo4[k] = UpTo3[k]
      /\ \A k \in 1..Len(Stage4Ops) : UpTo4[Len(UpTo3) + k] = Stage4Ops[k]
  BY <1>2, <1>3, Joined DEF UpTo4
<1>5. /\ UpTo4 \in Seq(Ops) /\ Len(UpTo4) = m + n
      /\ \A k \in 1..m : UpTo4[k] = UpTo3[k]
      /\ \A k \in 1..n : UpTo4[m + k] = Stage4Ops[k]
  BY <1>2, <1>3, <1>4, Zenon
<1> QED
  BY <1>1, <1>5, Zenon

(* Up to Stage 5.                                                          *)
LEMMA UpTo5Is ==
    /\ UpTo5 \in Seq(Ops) /\ Len(UpTo5) = 55
    /\ \A k \in 1..47 : UpTo5[k] = UpTo4[k]
    /\ \A k \in 1..8 : UpTo5[47 + k] = Stage5Ops[k]
<1> DEFINE m == 47
           n == 8
<1>1. m = 47 /\ n = 8 /\ m + n = 55
  OBVIOUS
<1>6. m \in Nat /\ n \in Nat
  OBVIOUS
<1> HIDE DEF m, n
<1>2. Len(UpTo4) = m /\ UpTo4 \in Seq(Ops)
  BY <1>1, UpTo4Is
<1>3. Len(Stage5Ops) = n /\ Stage5Ops \in Seq(Ops)
  BY <1>1, StageOps
<1>4. /\ UpTo5 \in Seq(Ops) /\ Len(UpTo5) = Len(UpTo4) + Len(Stage5Ops)
      /\ \A k \in 1..Len(UpTo4) : UpTo5[k] = UpTo4[k]
      /\ \A k \in 1..Len(Stage5Ops) : UpTo5[Len(UpTo4) + k] = Stage5Ops[k]
  BY <1>2, <1>3, Joined DEF UpTo5
<1>5. /\ UpTo5 \in Seq(Ops) /\ Len(UpTo5) = m + n
      /\ \A k \in 1..m : UpTo5[k] = UpTo4[k]
      /\ \A k \in 1..n : UpTo5[m + k] = Stage5Ops[k]
  BY <1>2, <1>3, <1>4, Zenon
<1> QED
  BY <1>1, <1>5, Zenon

(* kernel_entry has 55 operations.                                         *)
LEMMA EntryLength == Len(kernel_entry) = 55 /\ DOMAIN kernel_entry = 1..55
<1>1. kernel_entry = UpTo5
  BY DEF kernel_entry, UpTo5, UpTo4, UpTo3, UpTo2
<1> QED
  BY <1>1, UpTo5Is

(* Stage 1 is operations 1 to 5 of kernel_entry.                           *)
LEMMA Stage1Starts == ASSUME NEW p \in 1..5 PROVE kernel_entry[p] = Stage1Ops[p]
<1>1. kernel_entry = UpTo5
  BY DEF kernel_entry, UpTo5, UpTo4, UpTo3, UpTo2
<1> DEFINE k == p
<1>2. p \in 1..5 /\ p \in 1..14 /\ p \in 1..28 /\ p \in 1..47
  OBVIOUS
<1> HIDE DEF k
<1>3. UpTo2[p] = Stage1Ops[p]
  BY <1>2, UpTo2Is, Zenon
<1>4. UpTo3[p] = UpTo2[p]
  BY <1>2, UpTo3Is, Zenon
<1>5. UpTo4[p] = UpTo3[p]
  BY <1>2, UpTo4Is, Zenon
<1>6. UpTo5[p] = UpTo4[p]
  BY <1>2, UpTo5Is, Zenon
<1> QED
  BY <1>1, <1>3, <1>4, <1>5, <1>6 DEF k

(* Stage 2 is operations 6 to 14.                                          *)
LEMMA Stage2Starts == ASSUME NEW p \in 6..14 PROVE kernel_entry[p] = Stage2Ops[p - 5]
<1>1. kernel_entry = UpTo5
  BY DEF kernel_entry, UpTo5, UpTo4, UpTo3, UpTo2
<1> DEFINE k == p - 5
<1>2. p \in 1..14 /\ p \in 1..28 /\ p \in 1..47 /\ k \in 1..9 /\ 5 + k = p
  OBVIOUS
<1> HIDE DEF k
<1>3. UpTo2[p] = Stage2Ops[k]
  BY <1>2, UpTo2Is
<1>4. UpTo3[p] = UpTo2[p]
  BY <1>2, UpTo3Is, Zenon
<1>5. UpTo4[p] = UpTo3[p]
  BY <1>2, UpTo4Is, Zenon
<1>6. UpTo5[p] = UpTo4[p]
  BY <1>2, UpTo5Is, Zenon
<1> QED
  BY <1>1, <1>3, <1>4, <1>5, <1>6 DEF k

(* Stage 3 is operations 15 to 28.                                         *)
LEMMA Stage3Starts == ASSUME NEW p \in 15..28 PROVE kernel_entry[p] = Stage3Ops[p - 14]
<1>1. kernel_entry = UpTo5
  BY DEF kernel_entry, UpTo5, UpTo4, UpTo3, UpTo2
<1> DEFINE k == p - 14
<1>2. p \in 1..28 /\ p \in 1..47 /\ k \in 1..14 /\ 14 + k = p
  OBVIOUS
<1> HIDE DEF k
<1>3. UpTo3[p] = Stage3Ops[k]
  BY <1>2, UpTo3Is
<1>4. UpTo4[p] = UpTo3[p]
  BY <1>2, UpTo4Is, Zenon
<1>5. UpTo5[p] = UpTo4[p]
  BY <1>2, UpTo5Is, Zenon
<1> QED
  BY <1>1, <1>3, <1>4, <1>5 DEF k

(* Stage 4 is operations 29 to 47.                                         *)
LEMMA Stage4Starts == ASSUME NEW p \in 29..47 PROVE kernel_entry[p] = Stage4Ops[p - 28]
<1>1. kernel_entry = UpTo5
  BY DEF kernel_entry, UpTo5, UpTo4, UpTo3, UpTo2
<1> DEFINE k == p - 28
<1>2. p \in 1..47 /\ k \in 1..19 /\ 28 + k = p
  OBVIOUS
<1> HIDE DEF k
<1>3. UpTo4[p] = Stage4Ops[k]
  BY <1>2, UpTo4Is
<1>4. UpTo5[p] = UpTo4[p]
  BY <1>2, UpTo5Is, Zenon
<1> QED
  BY <1>1, <1>3, <1>4 DEF k

(* Stage 5 is operations 48 to 55.                                         *)
LEMMA Stage5Starts == ASSUME NEW p \in 48..55 PROVE kernel_entry[p] = Stage5Ops[p - 47]
<1>1. kernel_entry = UpTo5
  BY DEF kernel_entry, UpTo5, UpTo4, UpTo3, UpTo2
<1> DEFINE k == p - 47
<1>2. k \in 1..8 /\ 47 + k = p
  OBVIOUS
<1> HIDE DEF k
<1>3. UpTo5[p] = Stage5Ops[k]
  BY <1>2, UpTo5Is
<1> QED
  BY <1>1, <1>3 DEF k

(* The operations of Stage 1, each with its argument.                      *)
LEMMA Stage1At ==
    /\ kernel_entry[1].op = "mark" /\ kernel_entry[1].arg = "HELLO INIT"
    /\ kernel_entry[2].op = "mark" /\ kernel_entry[2].arg = "STAGE 1: build paging"
    /\ kernel_entry[3].op = "mark" /\ kernel_entry[3].arg = "STAGE 1: touch memory"
    /\ kernel_entry[4].op = "mark" /\ kernel_entry[4].arg = "STAGE 1: paging done"
    /\ kernel_entry[5].op = "lgdt"
<1>1. /\ kernel_entry[1].op = "mark" /\ kernel_entry[1].arg = "HELLO INIT"
      /\ kernel_entry[2].op = "mark" /\ kernel_entry[2].arg = "STAGE 1: build paging"
      /\ kernel_entry[3].op = "mark" /\ kernel_entry[3].arg = "STAGE 1: touch memory"
      /\ kernel_entry[4].op = "mark" /\ kernel_entry[4].arg = "STAGE 1: paging done"
      /\ kernel_entry[5].op = "lgdt"
  <2>1. /\ kernel_entry[1] = Stage1Ops[1]
        /\ kernel_entry[2] = Stage1Ops[2]
        /\ kernel_entry[3] = Stage1Ops[3]
        /\ kernel_entry[4] = Stage1Ops[4]
        /\ kernel_entry[5] = Stage1Ops[5]
    BY Stage1Starts
  <2>2. /\ Stage1Ops[1] = Mark("HELLO INIT")
        /\ Stage1Ops[2] = Mark("STAGE 1: build paging")
        /\ Stage1Ops[3] = Mark("STAGE 1: touch memory")
        /\ Stage1Ops[4] = Mark("STAGE 1: paging done")
        /\ Stage1Ops[5] = Op("lgdt", "")
    BY DEF Stage1Ops
  <2>3. /\ Mark("HELLO INIT").op = "mark" /\ Mark("HELLO INIT").arg = "HELLO INIT"
        /\ Mark("STAGE 1: build paging").op = "mark" /\ Mark("STAGE 1: build paging").arg = "STAGE 1: build paging"
        /\ Mark("STAGE 1: touch memory").op = "mark" /\ Mark("STAGE 1: touch memory").arg = "STAGE 1: touch memory"
        /\ Mark("STAGE 1: paging done").op = "mark" /\ Mark("STAGE 1: paging done").arg = "STAGE 1: paging done"
        /\ Op("lgdt", "").op = "lgdt"
    BY DEF Op, Mark, SetGate, Lapic
  <2> QED
    BY <2>1, <2>2, <2>3
<1> QED
  BY <1>1

(* The operations of Stage 2.                                              *)
LEMMA Stage2At ==
    /\ kernel_entry[6].op = "mark" /\ kernel_entry[6].arg = "STAGE 2: begin"
    /\ kernel_entry[7].op = "cli"
    /\ kernel_entry[8].op = "idtClearAll"
    /\ kernel_entry[9].op = "idtSetGate" /\ kernel_entry[9].arg = <<Breakpoint, "trap">>
    /\ kernel_entry[10].op = "idtLoad"
    /\ kernel_entry[11].op = "mark" /\ kernel_entry[11].arg = "STAGE 2: install idt"
    /\ kernel_entry[12].op = "mark" /\ kernel_entry[12].arg = "STAGE 2: int3"
    /\ kernel_entry[13].op = "int3"
    /\ kernel_entry[14].op = "mark" /\ kernel_entry[14].arg = "STAGE 2: done"
<1>1. /\ kernel_entry[6].op = "mark" /\ kernel_entry[6].arg = "STAGE 2: begin"
      /\ kernel_entry[7].op = "cli"
      /\ kernel_entry[8].op = "idtClearAll"
      /\ kernel_entry[9].op = "idtSetGate" /\ kernel_entry[9].arg = <<Breakpoint, "trap">>
      /\ kernel_entry[10].op = "idtLoad"
  <2>1. /\ kernel_entry[6] = Stage2Ops[1]
        /\ kernel_entry[7] = Stage2Ops[2]
        /\ kernel_entry[8] = Stage2Ops[3]
        /\ kernel_entry[9] = Stage2Ops[4]
        /\ kernel_entry[10] = Stage2Ops[5]
    BY Stage2Starts
  <2>2. /\ Stage2Ops[1] = Mark("STAGE 2: begin")
        /\ Stage2Ops[2] = Op("cli", "")
        /\ Stage2Ops[3] = Op("idtClearAll", "")
        /\ Stage2Ops[4] = SetGate(Breakpoint, "trap")
        /\ Stage2Ops[5] = Op("idtLoad", "")
    BY DEF Stage2Ops
  <2>3. /\ Mark("STAGE 2: begin").op = "mark" /\ Mark("STAGE 2: begin").arg = "STAGE 2: begin"
        /\ Op("cli", "").op = "cli"
        /\ Op("idtClearAll", "").op = "idtClearAll"
        /\ SetGate(Breakpoint, "trap").op = "idtSetGate" /\ SetGate(Breakpoint, "trap").arg = <<Breakpoint, "trap">>
        /\ Op("idtLoad", "").op = "idtLoad"
    BY DEF Op, Mark, SetGate, Lapic
  <2> QED
    BY <2>1, <2>2, <2>3
<1>2. /\ kernel_entry[11].op = "mark" /\ kernel_entry[11].arg = "STAGE 2: install idt"
      /\ kernel_entry[12].op = "mark" /\ kernel_entry[12].arg = "STAGE 2: int3"
      /\ kernel_entry[13].op = "int3"
      /\ kernel_entry[14].op = "mark" /\ kernel_entry[14].arg = "STAGE 2: done"
  <2>1. /\ kernel_entry[11] = Stage2Ops[6]
        /\ kernel_entry[12] = Stage2Ops[7]
        /\ kernel_entry[13] = Stage2Ops[8]
        /\ kernel_entry[14] = Stage2Ops[9]
    BY Stage2Starts
  <2>2. /\ Stage2Ops[6] = Mark("STAGE 2: install idt")
        /\ Stage2Ops[7] = Mark("STAGE 2: int3")
        /\ Stage2Ops[8] = Op("int3", "")
        /\ Stage2Ops[9] = Mark("STAGE 2: done")
    BY DEF Stage2Ops
  <2>3. /\ Mark("STAGE 2: install idt").op = "mark" /\ Mark("STAGE 2: install idt").arg = "STAGE 2: install idt"
        /\ Mark("STAGE 2: int3").op = "mark" /\ Mark("STAGE 2: int3").arg = "STAGE 2: int3"
        /\ Op("int3", "").op = "int3"
        /\ Mark("STAGE 2: done").op = "mark" /\ Mark("STAGE 2: done").arg = "STAGE 2: done"
    BY DEF Op, Mark, SetGate, Lapic
  <2> QED
    BY <2>1, <2>2, <2>3
<1> QED
  BY <1>1, <1>2

(* The operations of Stage 3.                                              *)
LEMMA Stage3At ==
    /\ kernel_entry[15].op = "mark" /\ kernel_entry[15].arg = "STAGE 3: begin"
    /\ kernel_entry[16].op = "pic_remap_and_mask"
    /\ kernel_entry[17].op = "mark" /\ kernel_entry[17].arg = "STAGE 3: pic ok"
    /\ kernel_entry[18].op = "pit_set_frequency"
    /\ kernel_entry[19].op = "mark" /\ kernel_entry[19].arg = "STAGE 3: pit ok"
    /\ kernel_entry[20].op = "idtSetGate" /\ kernel_entry[20].arg = <<IRQ0, "interrupt">>
    /\ kernel_entry[21].op = "idtLoad"
    /\ kernel_entry[22].op = "mark" /\ kernel_entry[22].arg = "STAGE 3: sti"
    /\ kernel_entry[23].op = "zero" /\ kernel_entry[23].arg = "timer"
    /\ kernel_entry[24].op = "sti"
    /\ kernel_entry[25].op = "while" /\ kernel_entry[25].arg = "timer"
    /\ kernel_entry[26].op = "hlt" /\ kernel_entry[26].arg = "timer"
    /\ kernel_entry[27].op = "cli"
    /\ kernel_entry[28].op = "mark" /\ kernel_entry[28].arg = "STAGE 3: done"
<1>1. /\ kernel_entry[15].op = "mark" /\ kernel_entry[15].arg = "STAGE 3: begin"
      /\ kernel_entry[16].op = "pic_remap_and_mask"
      /\ kernel_entry[17].op = "mark" /\ kernel_entry[17].arg = "STAGE 3: pic ok"
      /\ kernel_entry[18].op = "pit_set_frequency"
      /\ kernel_entry[19].op = "mark" /\ kernel_entry[19].arg = "STAGE 3: pit ok"
  <2>1. /\ kernel_entry[15] = Stage3Ops[1]
        /\ kernel_entry[16] = Stage3Ops[2]
        /\ kernel_entry[17] = Stage3Ops[3]
        /\ kernel_entry[18] = Stage3Ops[4]
        /\ kernel_entry[19] = Stage3Ops[5]
    BY Stage3Starts
  <2>2. /\ Stage3Ops[1] = Mark("STAGE 3: begin")
        /\ Stage3Ops[2] = Op("pic_remap_and_mask", "")
        /\ Stage3Ops[3] = Mark("STAGE 3: pic ok")
        /\ Stage3Ops[4] = Op("pit_set_frequency", "")
        /\ Stage3Ops[5] = Mark("STAGE 3: pit ok")
    BY DEF Stage3Ops
  <2>3. /\ Mark("STAGE 3: begin").op = "mark" /\ Mark("STAGE 3: begin").arg = "STAGE 3: begin"
        /\ Op("pic_remap_and_mask", "").op = "pic_remap_and_mask"
        /\ Mark("STAGE 3: pic ok").op = "mark" /\ Mark("STAGE 3: pic ok").arg = "STAGE 3: pic ok"
        /\ Op("pit_set_frequency", "").op = "pit_set_frequency"
        /\ Mark("STAGE 3: pit ok").op = "mark" /\ Mark("STAGE 3: pit ok").arg = "STAGE 3: pit ok"
    BY DEF Op, Mark, SetGate, Lapic
  <2> QED
    BY <2>1, <2>2, <2>3
<1>2. /\ kernel_entry[20].op = "idtSetGate" /\ kernel_entry[20].arg = <<IRQ0, "interrupt">>
      /\ kernel_entry[21].op = "idtLoad"
      /\ kernel_entry[22].op = "mark" /\ kernel_entry[22].arg = "STAGE 3: sti"
      /\ kernel_entry[23].op = "zero" /\ kernel_entry[23].arg = "timer"
      /\ kernel_entry[24].op = "sti"
  <2>1. /\ kernel_entry[20] = Stage3Ops[6]
        /\ kernel_entry[21] = Stage3Ops[7]
        /\ kernel_entry[22] = Stage3Ops[8]
        /\ kernel_entry[23] = Stage3Ops[9]
        /\ kernel_entry[24] = Stage3Ops[10]
    BY Stage3Starts
  <2>2. /\ Stage3Ops[6] = SetGate(IRQ0, "interrupt")
        /\ Stage3Ops[7] = Op("idtLoad", "")
        /\ Stage3Ops[8] = Mark("STAGE 3: sti")
        /\ Stage3Ops[9] = Op("zero", "timer")
        /\ Stage3Ops[10] = Op("sti", "")
    BY DEF Stage3Ops
  <2>3. /\ SetGate(IRQ0, "interrupt").op = "idtSetGate" /\ SetGate(IRQ0, "interrupt").arg = <<IRQ0, "interrupt">>
        /\ Op("idtLoad", "").op = "idtLoad"
        /\ Mark("STAGE 3: sti").op = "mark" /\ Mark("STAGE 3: sti").arg = "STAGE 3: sti"
        /\ Op("zero", "timer").op = "zero" /\ Op("zero", "timer").arg = "timer"
        /\ Op("sti", "").op = "sti"
    BY DEF Op, Mark, SetGate, Lapic
  <2> QED
    BY <2>1, <2>2, <2>3
<1>3. /\ kernel_entry[25].op = "while" /\ kernel_entry[25].arg = "timer"
      /\ kernel_entry[26].op = "hlt" /\ kernel_entry[26].arg = "timer"
      /\ kernel_entry[27].op = "cli"
      /\ kernel_entry[28].op = "mark" /\ kernel_entry[28].arg = "STAGE 3: done"
  <2>1. /\ kernel_entry[25] = Stage3Ops[11]
        /\ kernel_entry[26] = Stage3Ops[12]
        /\ kernel_entry[27] = Stage3Ops[13]
        /\ kernel_entry[28] = Stage3Ops[14]
    BY Stage3Starts
  <2>2. /\ Stage3Ops[11] = Op("while", "timer")
        /\ Stage3Ops[12] = Op("hlt", "timer")
        /\ Stage3Ops[13] = Op("cli", "")
        /\ Stage3Ops[14] = Mark("STAGE 3: done")
    BY DEF Stage3Ops
  <2>3. /\ Op("while", "timer").op = "while" /\ Op("while", "timer").arg = "timer"
        /\ Op("hlt", "timer").op = "hlt" /\ Op("hlt", "timer").arg = "timer"
        /\ Op("cli", "").op = "cli"
        /\ Mark("STAGE 3: done").op = "mark" /\ Mark("STAGE 3: done").arg = "STAGE 3: done"
    BY DEF Op, Mark, SetGate, Lapic
  <2> QED
    BY <2>1, <2>2, <2>3
<1> QED
  BY <1>1, <1>2, <1>3

(* The operations of Stage 4.                                              *)
LEMMA Stage4At ==
    /\ kernel_entry[29].op = "mark" /\ kernel_entry[29].arg = "STAGE 4: begin"
    /\ kernel_entry[30].op = "pic_mask_all"
    /\ kernel_entry[31].op = "mark" /\ kernel_entry[31].arg = "STAGE 4: pic mask"
    /\ kernel_entry[32].op = "mark" /\ kernel_entry[32].arg = "STAGE 4: lapic mmio"
    /\ kernel_entry[33].op = "lapic_mmio_write" /\ kernel_entry[33].arg = "SVR"
    /\ kernel_entry[34].op = "mark" /\ kernel_entry[34].arg = "STAGE 4: svr"
    /\ kernel_entry[35].op = "lapic_mmio_write" /\ kernel_entry[35].arg = "LVT timer"
    /\ kernel_entry[36].op = "lapic_mmio_write" /\ kernel_entry[36].arg = "timer init"
    /\ kernel_entry[37].op = "mark" /\ kernel_entry[37].arg = "STAGE 4: timer"
    /\ kernel_entry[38].op = "idtSetGate" /\ kernel_entry[38].arg = <<LapicTimer, "interrupt">>
    /\ kernel_entry[39].op = "idtLoad"
    /\ kernel_entry[40].op = "mark" /\ kernel_entry[40].arg = "STAGE 4: sti"
    /\ kernel_entry[41].op = "zero" /\ kernel_entry[41].arg = "lapic"
    /\ kernel_entry[42].op = "sti"
    /\ kernel_entry[43].op = "while" /\ kernel_entry[43].arg = "lapic"
    /\ kernel_entry[44].op = "hlt" /\ kernel_entry[44].arg = "lapic"
    /\ kernel_entry[45].op = "cli"
    /\ kernel_entry[46].op = "lapic_mmio_write" /\ kernel_entry[46].arg = "LVT masked"
    /\ kernel_entry[47].op = "mark" /\ kernel_entry[47].arg = "STAGE 4: done"
<1>1. /\ kernel_entry[29].op = "mark" /\ kernel_entry[29].arg = "STAGE 4: begin"
      /\ kernel_entry[30].op = "pic_mask_all"
      /\ kernel_entry[31].op = "mark" /\ kernel_entry[31].arg = "STAGE 4: pic mask"
      /\ kernel_entry[32].op = "mark" /\ kernel_entry[32].arg = "STAGE 4: lapic mmio"
      /\ kernel_entry[33].op = "lapic_mmio_write" /\ kernel_entry[33].arg = "SVR"
  <2>1. /\ kernel_entry[29] = Stage4Ops[1]
        /\ kernel_entry[30] = Stage4Ops[2]
        /\ kernel_entry[31] = Stage4Ops[3]
        /\ kernel_entry[32] = Stage4Ops[4]
        /\ kernel_entry[33] = Stage4Ops[5]
    BY Stage4Starts
  <2>2. /\ Stage4Ops[1] = Mark("STAGE 4: begin")
        /\ Stage4Ops[2] = Op("pic_mask_all", "")
        /\ Stage4Ops[3] = Mark("STAGE 4: pic mask")
        /\ Stage4Ops[4] = Mark("STAGE 4: lapic mmio")
        /\ Stage4Ops[5] = Lapic("SVR")
    BY DEF Stage4Ops
  <2>3. /\ Mark("STAGE 4: begin").op = "mark" /\ Mark("STAGE 4: begin").arg = "STAGE 4: begin"
        /\ Op("pic_mask_all", "").op = "pic_mask_all"
        /\ Mark("STAGE 4: pic mask").op = "mark" /\ Mark("STAGE 4: pic mask").arg = "STAGE 4: pic mask"
        /\ Mark("STAGE 4: lapic mmio").op = "mark" /\ Mark("STAGE 4: lapic mmio").arg = "STAGE 4: lapic mmio"
        /\ Lapic("SVR").op = "lapic_mmio_write" /\ Lapic("SVR").arg = "SVR"
    BY DEF Op, Mark, SetGate, Lapic
  <2> QED
    BY <2>1, <2>2, <2>3
<1>2. /\ kernel_entry[34].op = "mark" /\ kernel_entry[34].arg = "STAGE 4: svr"
      /\ kernel_entry[35].op = "lapic_mmio_write" /\ kernel_entry[35].arg = "LVT timer"
      /\ kernel_entry[36].op = "lapic_mmio_write" /\ kernel_entry[36].arg = "timer init"
      /\ kernel_entry[37].op = "mark" /\ kernel_entry[37].arg = "STAGE 4: timer"
      /\ kernel_entry[38].op = "idtSetGate" /\ kernel_entry[38].arg = <<LapicTimer, "interrupt">>
  <2>1. /\ kernel_entry[34] = Stage4Ops[6]
        /\ kernel_entry[35] = Stage4Ops[7]
        /\ kernel_entry[36] = Stage4Ops[8]
        /\ kernel_entry[37] = Stage4Ops[9]
        /\ kernel_entry[38] = Stage4Ops[10]
    BY Stage4Starts
  <2>2. /\ Stage4Ops[6] = Mark("STAGE 4: svr")
        /\ Stage4Ops[7] = Lapic("LVT timer")
        /\ Stage4Ops[8] = Lapic("timer init")
        /\ Stage4Ops[9] = Mark("STAGE 4: timer")
        /\ Stage4Ops[10] = SetGate(LapicTimer, "interrupt")
    BY DEF Stage4Ops
  <2>3. /\ Mark("STAGE 4: svr").op = "mark" /\ Mark("STAGE 4: svr").arg = "STAGE 4: svr"
        /\ Lapic("LVT timer").op = "lapic_mmio_write" /\ Lapic("LVT timer").arg = "LVT timer"
        /\ Lapic("timer init").op = "lapic_mmio_write" /\ Lapic("timer init").arg = "timer init"
        /\ Mark("STAGE 4: timer").op = "mark" /\ Mark("STAGE 4: timer").arg = "STAGE 4: timer"
        /\ SetGate(LapicTimer, "interrupt").op = "idtSetGate" /\ SetGate(LapicTimer, "interrupt").arg = <<LapicTimer, "interrupt">>
    BY DEF Op, Mark, SetGate, Lapic
  <2> QED
    BY <2>1, <2>2, <2>3
<1>3. /\ kernel_entry[39].op = "idtLoad"
      /\ kernel_entry[40].op = "mark" /\ kernel_entry[40].arg = "STAGE 4: sti"
      /\ kernel_entry[41].op = "zero" /\ kernel_entry[41].arg = "lapic"
      /\ kernel_entry[42].op = "sti"
      /\ kernel_entry[43].op = "while" /\ kernel_entry[43].arg = "lapic"
  <2>1. /\ kernel_entry[39] = Stage4Ops[11]
        /\ kernel_entry[40] = Stage4Ops[12]
        /\ kernel_entry[41] = Stage4Ops[13]
        /\ kernel_entry[42] = Stage4Ops[14]
        /\ kernel_entry[43] = Stage4Ops[15]
    BY Stage4Starts
  <2>2. /\ Stage4Ops[11] = Op("idtLoad", "")
        /\ Stage4Ops[12] = Mark("STAGE 4: sti")
        /\ Stage4Ops[13] = Op("zero", "lapic")
        /\ Stage4Ops[14] = Op("sti", "")
        /\ Stage4Ops[15] = Op("while", "lapic")
    BY DEF Stage4Ops
  <2>3. /\ Op("idtLoad", "").op = "idtLoad"
        /\ Mark("STAGE 4: sti").op = "mark" /\ Mark("STAGE 4: sti").arg = "STAGE 4: sti"
        /\ Op("zero", "lapic").op = "zero" /\ Op("zero", "lapic").arg = "lapic"
        /\ Op("sti", "").op = "sti"
        /\ Op("while", "lapic").op = "while" /\ Op("while", "lapic").arg = "lapic"
    BY DEF Op, Mark, SetGate, Lapic
  <2> QED
    BY <2>1, <2>2, <2>3
<1>4. /\ kernel_entry[44].op = "hlt" /\ kernel_entry[44].arg = "lapic"
      /\ kernel_entry[45].op = "cli"
      /\ kernel_entry[46].op = "lapic_mmio_write" /\ kernel_entry[46].arg = "LVT masked"
      /\ kernel_entry[47].op = "mark" /\ kernel_entry[47].arg = "STAGE 4: done"
  <2>1. /\ kernel_entry[44] = Stage4Ops[16]
        /\ kernel_entry[45] = Stage4Ops[17]
        /\ kernel_entry[46] = Stage4Ops[18]
        /\ kernel_entry[47] = Stage4Ops[19]
    BY Stage4Starts
  <2>2. /\ Stage4Ops[16] = Op("hlt", "lapic")
        /\ Stage4Ops[17] = Op("cli", "")
        /\ Stage4Ops[18] = Lapic("LVT masked")
        /\ Stage4Ops[19] = Mark("STAGE 4: done")
    BY DEF Stage4Ops
  <2>3. /\ Op("hlt", "lapic").op = "hlt" /\ Op("hlt", "lapic").arg = "lapic"
        /\ Op("cli", "").op = "cli"
        /\ Lapic("LVT masked").op = "lapic_mmio_write" /\ Lapic("LVT masked").arg = "LVT masked"
        /\ Mark("STAGE 4: done").op = "mark" /\ Mark("STAGE 4: done").arg = "STAGE 4: done"
    BY DEF Op, Mark, SetGate, Lapic
  <2> QED
    BY <2>1, <2>2, <2>3
<1> QED
  BY <1>1, <1>2, <1>3, <1>4, ZenonT(60)

(* The operations of Stage 5 and the final halt.                           *)
LEMMA Stage5At ==
    /\ kernel_entry[48].op = "mark" /\ kernel_entry[48].arg = "STAGE 5: begin"
    /\ kernel_entry[49].op = "idtSetGate" /\ kernel_entry[49].arg = <<PageFault, "trap">>
    /\ kernel_entry[50].op = "idtLoad"
    /\ kernel_entry[51].op = "mark" /\ kernel_entry[51].arg = "STAGE 5: pf gate"
    /\ kernel_entry[52].op = "mark" /\ kernel_entry[52].arg = "STAGE 5: probe"
    /\ kernel_entry[53].op = "probe"
    /\ kernel_entry[54].op = "mark" /\ kernel_entry[54].arg = "STAGE 5: done"
    /\ kernel_entry[55].op = "halt"
<1>1. /\ kernel_entry[48].op = "mark" /\ kernel_entry[48].arg = "STAGE 5: begin"
      /\ kernel_entry[49].op = "idtSetGate" /\ kernel_entry[49].arg = <<PageFault, "trap">>
      /\ kernel_entry[50].op = "idtLoad"
      /\ kernel_entry[51].op = "mark" /\ kernel_entry[51].arg = "STAGE 5: pf gate"
      /\ kernel_entry[52].op = "mark" /\ kernel_entry[52].arg = "STAGE 5: probe"
  <2>1. /\ kernel_entry[48] = Stage5Ops[1]
        /\ kernel_entry[49] = Stage5Ops[2]
        /\ kernel_entry[50] = Stage5Ops[3]
        /\ kernel_entry[51] = Stage5Ops[4]
        /\ kernel_entry[52] = Stage5Ops[5]
    BY Stage5Starts
  <2>2. /\ Stage5Ops[1] = Mark("STAGE 5: begin")
        /\ Stage5Ops[2] = SetGate(PageFault, "trap")
        /\ Stage5Ops[3] = Op("idtLoad", "")
        /\ Stage5Ops[4] = Mark("STAGE 5: pf gate")
        /\ Stage5Ops[5] = Mark("STAGE 5: probe")
    BY DEF Stage5Ops
  <2>3. /\ Mark("STAGE 5: begin").op = "mark" /\ Mark("STAGE 5: begin").arg = "STAGE 5: begin"
        /\ SetGate(PageFault, "trap").op = "idtSetGate" /\ SetGate(PageFault, "trap").arg = <<PageFault, "trap">>
        /\ Op("idtLoad", "").op = "idtLoad"
        /\ Mark("STAGE 5: pf gate").op = "mark" /\ Mark("STAGE 5: pf gate").arg = "STAGE 5: pf gate"
        /\ Mark("STAGE 5: probe").op = "mark" /\ Mark("STAGE 5: probe").arg = "STAGE 5: probe"
    BY DEF Op, Mark, SetGate, Lapic
  <2> QED
    BY <2>1, <2>2, <2>3
<1>2. /\ kernel_entry[53].op = "probe"
      /\ kernel_entry[54].op = "mark" /\ kernel_entry[54].arg = "STAGE 5: done"
      /\ kernel_entry[55].op = "halt"
  <2>1. /\ kernel_entry[53] = Stage5Ops[6]
        /\ kernel_entry[54] = Stage5Ops[7]
        /\ kernel_entry[55] = Stage5Ops[8]
    BY Stage5Starts
  <2>2. /\ Stage5Ops[6] = Op("probe", "")
        /\ Stage5Ops[7] = Mark("STAGE 5: done")
        /\ Stage5Ops[8] = Op("halt", "")
    BY DEF Stage5Ops
  <2>3. /\ Op("probe", "").op = "probe"
        /\ Mark("STAGE 5: done").op = "mark" /\ Mark("STAGE 5: done").arg = "STAGE 5: done"
        /\ Op("halt", "").op = "halt"
    BY DEF Op, Mark, SetGate, Lapic
  <2> QED
    BY <2>1, <2>2, <2>3
<1> QED
  BY <1>1, <1>2

(* Which operation of Stage 1 is where.                                    *)
LEMMA Stage1Places ==
    ASSUME NEW p \in 1..5
    PROVE  /\ kernel_entry[p].op \in {"mark", "lgdt"}
           /\ kernel_entry[p].op = "mark" => p \in {1, 2, 3, 4}
           /\ kernel_entry[p].op = "lgdt" => p = 5
<1>1. p \in {1, 2, 3, 4, 5}
  OBVIOUS
<1> QED
  BY <1>1, Stage1At

(* Which operation of Stage 2 is where.                                    *)
LEMMA Stage2Places ==
    ASSUME NEW p \in 6..14
    PROVE  /\ kernel_entry[p].op \in {"mark", "cli", "idtClearAll", "idtSetGate", "idtLoad", "int3"}
           /\ kernel_entry[p].op = "mark" => p \in {6, 11, 12, 14}
           /\ kernel_entry[p].op = "cli" => p = 7
           /\ kernel_entry[p].op = "idtClearAll" => p = 8
           /\ kernel_entry[p].op = "idtSetGate" => p = 9
           /\ kernel_entry[p].op = "idtLoad" => p = 10
           /\ kernel_entry[p].op = "int3" => p = 13
<1>1. p \in {6, 7, 8, 9, 10, 11, 12, 13, 14}
  OBVIOUS
<1>2. /\ kernel_entry[6].op = "mark"
      /\ kernel_entry[7].op = "cli"
      /\ kernel_entry[8].op = "idtClearAll"
      /\ kernel_entry[9].op = "idtSetGate"
      /\ kernel_entry[10].op = "idtLoad"
      /\ kernel_entry[11].op = "mark"
      /\ kernel_entry[12].op = "mark"
      /\ kernel_entry[13].op = "int3"
      /\ kernel_entry[14].op = "mark"
  BY Stage2At, ZenonT(60)
<1> QED
  BY <1>1, <1>2, SMTT(30)

(* Which operation of Stage 3 is where.                                    *)
LEMMA Stage3Places ==
    ASSUME NEW p \in 15..28
    PROVE  /\ kernel_entry[p].op \in {"mark", "pic_remap_and_mask", "pit_set_frequency", "idtSetGate", "idtLoad", "zero", "sti", "while", "hlt", "cli"}
           /\ kernel_entry[p].op = "mark" => p \in {15, 17, 19, 22, 28}
           /\ kernel_entry[p].op = "pic_remap_and_mask" => p = 16
           /\ kernel_entry[p].op = "pit_set_frequency" => p = 18
           /\ kernel_entry[p].op = "idtSetGate" => p = 20
           /\ kernel_entry[p].op = "idtLoad" => p = 21
           /\ kernel_entry[p].op = "zero" => p = 23
           /\ kernel_entry[p].op = "sti" => p = 24
           /\ kernel_entry[p].op = "while" => p = 25
           /\ kernel_entry[p].op = "hlt" => p = 26
           /\ kernel_entry[p].op = "cli" => p = 27
<1>1. p \in {15, 16, 17, 18, 19, 20, 21, 22, 23, 24, 25, 26, 27, 28}
  OBVIOUS
<1>2. /\ kernel_entry[15].op = "mark"
      /\ kernel_entry[16].op = "pic_remap_and_mask"
      /\ kernel_entry[17].op = "mark"
      /\ kernel_entry[18].op = "pit_set_frequency"
      /\ kernel_entry[19].op = "mark"
      /\ kernel_entry[20].op = "idtSetGate"
      /\ kernel_entry[21].op = "idtLoad"
      /\ kernel_entry[22].op = "mark"
      /\ kernel_entry[23].op = "zero"
      /\ kernel_entry[24].op = "sti"
      /\ kernel_entry[25].op = "while"
      /\ kernel_entry[26].op = "hlt"
      /\ kernel_entry[27].op = "cli"
      /\ kernel_entry[28].op = "mark"
  BY Stage3At, ZenonT(60)
<1> QED
  BY <1>1, <1>2, SMTT(30)

(* Which operation of Stage 4 is where.                                    *)
LEMMA Stage4Places ==
    ASSUME NEW p \in 29..47
    PROVE  /\ kernel_entry[p].op \in {"mark", "pic_mask_all", "lapic_mmio_write", "idtSetGate", "idtLoad", "zero", "sti", "while", "hlt", "cli"}
           /\ kernel_entry[p].op = "mark" => p \in {29, 31, 32, 34, 37, 40, 47}
           /\ kernel_entry[p].op = "pic_mask_all" => p = 30
           /\ kernel_entry[p].op = "lapic_mmio_write" => p \in {33, 35, 36, 46}
           /\ kernel_entry[p].op = "idtSetGate" => p = 38
           /\ kernel_entry[p].op = "idtLoad" => p = 39
           /\ kernel_entry[p].op = "zero" => p = 41
           /\ kernel_entry[p].op = "sti" => p = 42
           /\ kernel_entry[p].op = "while" => p = 43
           /\ kernel_entry[p].op = "hlt" => p = 44
           /\ kernel_entry[p].op = "cli" => p = 45
<1>1. p \in {29, 30, 31, 32, 33, 34, 35, 36, 37, 38, 39, 40, 41, 42, 43, 44, 45, 46, 47}
  OBVIOUS
<1>2. /\ kernel_entry[29].op = "mark"
      /\ kernel_entry[30].op = "pic_mask_all"
      /\ kernel_entry[31].op = "mark"
      /\ kernel_entry[32].op = "mark"
      /\ kernel_entry[33].op = "lapic_mmio_write"
      /\ kernel_entry[34].op = "mark"
      /\ kernel_entry[35].op = "lapic_mmio_write"
      /\ kernel_entry[36].op = "lapic_mmio_write"
      /\ kernel_entry[37].op = "mark"
      /\ kernel_entry[38].op = "idtSetGate"
      /\ kernel_entry[39].op = "idtLoad"
      /\ kernel_entry[40].op = "mark"
      /\ kernel_entry[41].op = "zero"
      /\ kernel_entry[42].op = "sti"
      /\ kernel_entry[43].op = "while"
      /\ kernel_entry[44].op = "hlt"
      /\ kernel_entry[45].op = "cli"
      /\ kernel_entry[46].op = "lapic_mmio_write"
      /\ kernel_entry[47].op = "mark"
  BY Stage4At, ZenonT(60)
<1> QED
  BY <1>1, <1>2, SMTT(30)

(* Which operation of Stage 5 is where.                                    *)
LEMMA Stage5Places ==
    ASSUME NEW p \in 48..55
    PROVE  /\ kernel_entry[p].op \in {"mark", "idtSetGate", "idtLoad", "probe", "halt"}
           /\ kernel_entry[p].op = "mark" => p \in {48, 51, 52, 54}
           /\ kernel_entry[p].op = "idtSetGate" => p = 49
           /\ kernel_entry[p].op = "idtLoad" => p = 50
           /\ kernel_entry[p].op = "probe" => p = 53
           /\ kernel_entry[p].op = "halt" => p = 55
<1>1. p \in {48, 49, 50, 51, 52, 53, 54, 55}
  OBVIOUS
<1>2. /\ kernel_entry[48].op = "mark"
      /\ kernel_entry[49].op = "idtSetGate"
      /\ kernel_entry[50].op = "idtLoad"
      /\ kernel_entry[51].op = "mark"
      /\ kernel_entry[52].op = "mark"
      /\ kernel_entry[53].op = "probe"
      /\ kernel_entry[54].op = "mark"
      /\ kernel_entry[55].op = "halt"
  BY Stage5At, ZenonT(60)
<1> QED
  BY <1>1, <1>2, SMTT(30)

(* Where each operation of kernel_entry is; no operation of a dispatcher is *)
(* among them.                                                             *)
Marks == {1, 2, 3, 4, 6, 11, 12, 14, 15, 17, 19, 22, 28, 29, 31, 32, 34, 37, 40, 47, 48, 51, 52, 54}

(* The only positions of kernel_entry that hold a given operation; the     *)
(* operations of the handlers are not among them.                          *)
LEMMA Places ==
    ASSUME NEW p \in 1..55
    PROVE  /\ kernel_entry[p].op = "mark" => p \in Marks
           /\ kernel_entry[p].op = "lgdt" => p = 5
           /\ kernel_entry[p].op = "cli" => p \in {7, 27, 45}
           /\ kernel_entry[p].op = "idtClearAll" => p = 8
           /\ kernel_entry[p].op = "idtSetGate" => p \in {9, 20, 38, 49}
           /\ kernel_entry[p].op = "idtLoad" => p \in {10, 21, 39, 50}
           /\ kernel_entry[p].op = "int3" => p = 13
           /\ kernel_entry[p].op = "pic_remap_and_mask" => p = 16
           /\ kernel_entry[p].op = "pit_set_frequency" => p = 18
           /\ kernel_entry[p].op = "zero" => p \in {23, 41}
           /\ kernel_entry[p].op = "sti" => p \in {24, 42}
           /\ kernel_entry[p].op = "while" => p \in {25, 43}
           /\ kernel_entry[p].op = "hlt" => p \in {26, 44}
           /\ kernel_entry[p].op = "pic_mask_all" => p = 30
           /\ kernel_entry[p].op = "lapic_mmio_write" => p \in {33, 35, 36, 46}
           /\ kernel_entry[p].op = "probe" => p = 53
           /\ kernel_entry[p].op = "halt" => p = 55
           /\ kernel_entry[p].op \notin {"tick", "cr2", "skip", "iretq", "count", "eoi"}
<1>1. CASE p \in 1..5
  BY <1>1, Stage1Places DEF Marks
<1>2. CASE p \in 6..14
  BY <1>2, Stage2Places DEF Marks
<1>3. CASE p \in 15..28
  BY <1>3, Stage3Places DEF Marks
<1>4. CASE p \in 29..47
  BY <1>4, Stage4Places DEF Marks
<1>5. CASE p \in 48..55
  BY <1>5, Stage5Places DEF Marks
<1> QED
  BY <1>1, <1>2, <1>3, <1>4, <1>5

(* What the gates, the counters and the APIC writes are for.               *)
LEMMA GatesAt ==
    /\ kernel_entry[9].arg = <<Breakpoint, "trap">> /\ kernel_entry[20].arg = <<IRQ0, "interrupt">>
    /\ kernel_entry[38].arg = <<LapicTimer, "interrupt">> /\ kernel_entry[49].arg = <<PageFault, "trap">>
<1>1. kernel_entry[9].arg = <<Breakpoint, "trap">>
  BY Stage2At, ZenonT(60)
<1>2. kernel_entry[20].arg = <<IRQ0, "interrupt">>
  BY Stage3At, ZenonT(60)
<1>3. kernel_entry[38].arg = <<LapicTimer, "interrupt">>
  BY Stage4At, ZenonT(60)
<1>4. kernel_entry[49].arg = <<PageFault, "trap">>
  BY Stage5At, ZenonT(60)
<1> QED
  BY <1>1, <1>2, <1>3, <1>4

(* Which counter each stage zeroes.                                        *)
LEMMA CountersAt == kernel_entry[23].arg = "timer" /\ kernel_entry[41].arg = "lapic"
<1>1. kernel_entry[23].arg = "timer"
  BY Stage3At, ZenonT(60)
<1>2. kernel_entry[41].arg = "lapic"
  BY Stage4At, ZenonT(60)
<1> QED
  BY <1>1, <1>2

(* Which APIC register each lapic_mmio_write of Stage 4 sets.              *)
LEMMA RegistersAt ==
    /\ kernel_entry[33].arg = "SVR" /\ kernel_entry[35].arg = "LVT timer"
    /\ kernel_entry[36].arg = "timer init" /\ kernel_entry[46].arg = "LVT masked"
  BY Stage4At, ZenonT(60)

(* The dispatchers.                                                        *)
LEMMA CodeIs ==
    /\ Code[Main] = kernel_entry /\ Code[Breakpoint] = breakpoint_dispatch
    /\ Code[IRQ0] = timer_irq_dispatch /\ Code[LapicTimer] = lapic_timer_dispatch
    /\ Code[PageFault] = page_fault_dispatch
  BY DEF Code, Main, Vectors, Breakpoint, DoubleFault, PageFault, IRQ0, LapicTimer

(* The instructions of breakpoint_dispatch.                                *)
LEMMA BreakpointAt ==
    /\ DOMAIN Code[Breakpoint] = 1..2
    /\ Code[Breakpoint][1].op = "mark" /\ Code[Breakpoint][1].arg = "STAGE 2: #BP dispatcher"
    /\ Code[Breakpoint][2].op = "iretq"
<1> DEFINE s == breakpoint_dispatch
<1>1. Code[Breakpoint] = s
  BY CodeIs
<1>2. /\ DOMAIN s = 1..2
      /\ s[1] = Mark("STAGE 2: #BP dispatcher")
      /\ s[2] = Op("iretq", "")
  BY DEF breakpoint_dispatch
<1> HIDE DEF s
<1>3. /\ Mark("STAGE 2: #BP dispatcher").op = "mark" /\ Mark("STAGE 2: #BP dispatcher").arg = "STAGE 2: #BP dispatcher"
      /\ Op("iretq", "").op = "iretq"
  BY DEF Op, Mark
<1> QED
  BY <1>1, <1>2, <1>3

(* The instructions of timer_irq_dispatch.                                 *)
LEMMA IRQ0At ==
    /\ DOMAIN Code[IRQ0] = 1..4
    /\ Code[IRQ0][1].op = "eoi" /\ Code[IRQ0][1].arg = "pic"
    /\ Code[IRQ0][2].op = "count" /\ Code[IRQ0][2].arg = "timer"
    /\ Code[IRQ0][3].op = "tick" /\ Code[IRQ0][3].arg = "timer"
    /\ Code[IRQ0][4].op = "iretq"
<1> DEFINE s == timer_irq_dispatch
<1>1. Code[IRQ0] = s
  BY CodeIs
<1>2. /\ DOMAIN s = 1..4
      /\ s[1] = Op("eoi", "pic")
      /\ s[2] = Op("count", "timer")
      /\ s[3] = Op("tick", "timer")
      /\ s[4] = Op("iretq", "")
  BY DEF timer_irq_dispatch
<1> HIDE DEF s
<1>3. /\ Op("eoi", "pic").op = "eoi" /\ Op("eoi", "pic").arg = "pic"
      /\ Op("count", "timer").op = "count" /\ Op("count", "timer").arg = "timer"
      /\ Op("tick", "timer").op = "tick" /\ Op("tick", "timer").arg = "timer"
      /\ Op("iretq", "").op = "iretq"
  BY DEF Op, Mark
<1> QED
  BY <1>1, <1>2, <1>3

(* The instructions of lapic_timer_dispatch.                               *)
LEMMA LapicTimerAt ==
    /\ DOMAIN Code[LapicTimer] = 1..4
    /\ Code[LapicTimer][1].op = "eoi" /\ Code[LapicTimer][1].arg = "lapic"
    /\ Code[LapicTimer][2].op = "count" /\ Code[LapicTimer][2].arg = "lapic"
    /\ Code[LapicTimer][3].op = "tick" /\ Code[LapicTimer][3].arg = "lapic"
    /\ Code[LapicTimer][4].op = "iretq"
<1> DEFINE s == lapic_timer_dispatch
<1>1. Code[LapicTimer] = s
  BY CodeIs
<1>2. /\ DOMAIN s = 1..4
      /\ s[1] = Op("eoi", "lapic")
      /\ s[2] = Op("count", "lapic")
      /\ s[3] = Op("tick", "lapic")
      /\ s[4] = Op("iretq", "")
  BY DEF lapic_timer_dispatch
<1> HIDE DEF s
<1>3. /\ Op("eoi", "lapic").op = "eoi" /\ Op("eoi", "lapic").arg = "lapic"
      /\ Op("count", "lapic").op = "count" /\ Op("count", "lapic").arg = "lapic"
      /\ Op("tick", "lapic").op = "tick" /\ Op("tick", "lapic").arg = "lapic"
      /\ Op("iretq", "").op = "iretq"
  BY DEF Op, Mark
<1> QED
  BY <1>1, <1>2, <1>3

(* The instructions of page_fault_dispatch.                                *)
LEMMA PageFaultAt ==
    /\ DOMAIN Code[PageFault] = 1..4
    /\ Code[PageFault][1].op = "mark" /\ Code[PageFault][1].arg = "STAGE 5: #PF dispatch"
    /\ Code[PageFault][2].op = "cr2"
    /\ Code[PageFault][3].op = "skip"
    /\ Code[PageFault][4].op = "iretq"
<1> DEFINE s == page_fault_dispatch
<1>1. Code[PageFault] = s
  BY CodeIs
<1>2. /\ DOMAIN s = 1..4
      /\ s[1] = Mark("STAGE 5: #PF dispatch")
      /\ s[2] = Op("cr2", "")
      /\ s[3] = Op("skip", "")
      /\ s[4] = Op("iretq", "")
  BY DEF page_fault_dispatch
<1> HIDE DEF s
<1>3. /\ Mark("STAGE 5: #PF dispatch").op = "mark" /\ Mark("STAGE 5: #PF dispatch").arg = "STAGE 5: #PF dispatch"
      /\ Op("cr2", "").op = "cr2"
      /\ Op("skip", "").op = "skip"
      /\ Op("iretq", "").op = "iretq"
  BY DEF Op, Mark
<1> QED
  BY <1>1, <1>2, <1>3

-----------------------------------------------------------------------------
(* The inductive invariant.                                                *)

Place == ctx[1].at
Waits == {25, 26, 27, 43, 44, 45}       \* where interrupts are on
Frame == [code : {Main} \cup Vectors, at : 1..55, half : 0..1, n : 0..CountBound, flag : BOOLEAN]

(* Where the handlers interrupted kernel_entry.                            *)
Interrupts(h, p) ==
    \/ h.code = Breakpoint /\ h.at \in 1..2 /\ p = 14 /\ h.flag = FALSE
    \/ h.code = PageFault /\ h.at \in 1..3 /\ p = 53 /\ h.flag = FALSE
    \/ h.code = PageFault /\ h.at = 4 /\ p = 54 /\ h.flag = FALSE
    \/ h.code = IRQ0 /\ h.at \in 1..4 /\ p \in 25..27 /\ h.flag = TRUE
    \/ h.code = LapicTimer /\ h.at \in 1..4 /\ p \in 43..45 /\ h.flag = TRUE

StackInv ==
    /\ ctx \in Seq(Frame) /\ Len(ctx) \in 1..2
    /\ ctx[1].code = Main
    /\ Len(ctx) = 2 => Interrupts(ctx[2], Place)

FlagInv ==
    /\ IF_ \in BOOLEAN /\ halted \in BOOLEAN /\ crashed = FALSE
    /\ IF_ = TRUE <=> Len(ctx) = 1 /\ Place \in Waits
    /\ halted = TRUE => Len(ctx) = 1 /\ Place \in {25, 43}

GateInv ==
    /\ gdt \in BOOLEAN /\ idtr \in BOOLEAN /\ cr2 \in {"none", "probe"}
    /\ idt \in [Vectors -> {"none", "trap", "interrupt"}]
    /\ Place > 5 => gdt = TRUE
    /\ Place > 10 => idtr = TRUE
    /\ Place > 9 => idt[Breakpoint] = "trap"
    /\ Place > 20 => idt[IRQ0] = "interrupt"
    /\ Place > 38 => idt[LapicTimer] = "interrupt"
    /\ Place > 49 => idt[PageFault] = "trap"

DeviceInv ==
    /\ pic \in [remapped : BOOLEAN, masked : BOOLEAN, irr : BOOLEAN, isr : BOOLEAN]
    /\ pit \in BOOLEAN
    /\ apic \in [enabled : BOOLEAN, lvt : {"masked", "periodic"},
                 count : BOOLEAN, irr : BOOLEAN, isr : BOOLEAN]
    /\ Place > 16 => pic.remapped = TRUE
    /\ Place > 30 => pic.masked = TRUE
    /\ pic.isr = TRUE => Len(ctx) = 2 /\ ctx[2].code = IRQ0 /\ ctx[2].at = 1
    /\ apic.isr = TRUE => Len(ctx) = 2 /\ ctx[2].code = LapicTimer /\ ctx[2].at = 1
    /\ apic.count = TRUE => Place > 36
    /\ apic.irr = TRUE => Place > 36

(* What the loops have counted, and the n a handler is about to print.     *)
CountInv ==
    /\ count \in [timer : 0..CountBound, lapic : 0..CountBound]
    /\ Place = 24 => count.timer = 0
    /\ Place = 27 => count.timer >= TicksWanted
    /\ Place = 42 => count.lapic = 0
    /\ Place = 45 => count.lapic >= TicksWanted
    /\ Len(ctx) = 2 /\ ctx[2].code = IRQ0 /\ ctx[2].at = 3 => ctx[2].n = count.timer /\ ctx[2].n > 0
    /\ Len(ctx) = 2 /\ ctx[2].code = LapicTimer /\ ctx[2].at = 3 => ctx[2].n = count.lapic /\ ctx[2].n > 0

(* When a handler is at an instruction that writes to the serial line.     *)
Writes(h) ==
    \/ h.code = Breakpoint /\ h.at = 1
    \/ h.code = PageFault /\ h.at \in 1..2
    \/ h.code \in {IRQ0, LapicTimer} /\ h.at = 3 /\ h.n <= TicksWanted

(* What the stack of running code holds, and which of it runs.             *)
LEMMA StackFacts ==
    ASSUME StackInv
    PROVE  /\ ctx[1] \in Frame /\ Place \in 1..55 /\ ctx[1].code = Main
           /\ Len(ctx) = 1 => Top = ctx[1] /\ Instr = kernel_entry[Place] /\ DOMAIN ctx = {1}
           /\ Len(ctx) = 2 => /\ Top = ctx[2] /\ ctx[2] \in Frame /\ DOMAIN ctx = {1, 2}
                              /\ Instr = Code[ctx[2].code][ctx[2].at]
           /\ Len(ctx) = 1 \/ Len(ctx) = 2
<1>1. ctx \in Seq(Frame) /\ Len(ctx) \in 1..2 /\ ctx[1].code = Main
  BY DEF StackInv
<1>2. ctx[1] \in Frame /\ (Len(ctx) = 2 => ctx[2] \in Frame) /\ DOMAIN ctx = 1..Len(ctx)
  BY <1>1
<1>3. Place \in 1..55
  BY <1>2 DEF Place, Frame
<1>4. Len(ctx) = 1 \/ Len(ctx) = 2
  BY <1>1
<1>5. Len(ctx) = 1 => Top = ctx[1] /\ Instr = kernel_entry[Place] /\ DOMAIN ctx = {1}
  BY <1>1, <1>2, CodeIs DEF Top, Instr, Place
<1>6. Len(ctx) = 2 => Top = ctx[2] /\ Instr = Code[ctx[2].code][ctx[2].at] /\ DOMAIN ctx = {1, 2}
  BY <1>1, <1>2 DEF Top, Instr
<1> QED
  BY <1>1, <1>2, <1>3, <1>4, <1>5, <1>6

(* Which handler, and where in it, an operation is.                        *)
LEMMA HandlerOps ==
    ASSUME StackInv, Len(ctx) = 2
    PROVE  LET h == ctx[2] IN
           /\ Instr.op = "mark" => h.code \in {Breakpoint, PageFault} /\ h.at = 1
           /\ Instr.op = "cr2" => h.code = PageFault /\ h.at = 2
           /\ Instr.op = "skip" => h.code = PageFault /\ h.at = 3
           /\ Instr.op = "eoi" => /\ h.at = 1
                                  /\ \/ h.code = IRQ0 /\ Instr.arg = "pic"
                                     \/ h.code = LapicTimer /\ Instr.arg = "lapic"
           /\ Instr.op = "count" => /\ h.at = 2
                                    /\ \/ h.code = IRQ0 /\ Instr.arg = "timer"
                                       \/ h.code = LapicTimer /\ Instr.arg = "lapic"
           /\ Instr.op = "tick" => /\ h.at = 3
                                   /\ \/ h.code = IRQ0 /\ Instr.arg = "timer"
                                      \/ h.code = LapicTimer /\ Instr.arg = "lapic"
           /\ Instr.op = "iretq" => \/ h.code = Breakpoint /\ h.at = 2
                                    \/ h.code \in {PageFault, IRQ0, LapicTimer} /\ h.at = 4
           /\ Instr.op \in {"mark", "cr2", "skip", "eoi", "count", "tick", "iretq"}
<1> DEFINE h == ctx[2]
<1>1. Instr = Code[h.code][h.at]
  BY StackFacts
<1>2. Interrupts(h, Place)
  BY DEF StackInv
<1> HIDE DEF h
<1>3. CASE h.code = Breakpoint /\ h.at \in 1..2
  <2>1. h.at = 1 \/ h.at = 2
    BY <1>3
  <2>2. CASE h.at = 1
    BY <1>1, <1>3, <2>2, BreakpointAt DEF h
  <2>3. CASE h.at = 2
    BY <1>1, <1>3, <2>3, BreakpointAt DEF h
  <2> QED
    BY <2>1, <2>2, <2>3
<1>4. CASE h.code = PageFault /\ h.at \in 1..4
  <2>1. h.at = 1 \/ h.at = 2 \/ h.at = 3 \/ h.at = 4
    BY <1>4
  <2>2. CASE h.at = 1
    BY <1>1, <1>4, <2>2, PageFaultAt DEF h
  <2>3. CASE h.at = 2
    BY <1>1, <1>4, <2>3, PageFaultAt DEF h
  <2>4. CASE h.at = 3
    BY <1>1, <1>4, <2>4, PageFaultAt DEF h
  <2>5. CASE h.at = 4
    BY <1>1, <1>4, <2>5, PageFaultAt DEF h
  <2> QED
    BY <2>1, <2>2, <2>3, <2>4, <2>5
<1>5. CASE h.code = IRQ0 /\ h.at \in 1..4
  <2>1. h.at = 1 \/ h.at = 2 \/ h.at = 3 \/ h.at = 4
    BY <1>5
  <2>2. CASE h.at = 1
    BY <1>1, <1>5, <2>2, IRQ0At DEF h
  <2>3. CASE h.at = 2
    BY <1>1, <1>5, <2>3, IRQ0At DEF h
  <2>4. CASE h.at = 3
    BY <1>1, <1>5, <2>4, IRQ0At DEF h
  <2>5. CASE h.at = 4
    BY <1>1, <1>5, <2>5, IRQ0At DEF h
  <2> QED
    BY <2>1, <2>2, <2>3, <2>4, <2>5
<1>6. CASE h.code = LapicTimer /\ h.at \in 1..4
  <2>1. h.at = 1 \/ h.at = 2 \/ h.at = 3 \/ h.at = 4
    BY <1>6
  <2>2. CASE h.at = 1
    BY <1>1, <1>6, <2>2, LapicTimerAt DEF h
  <2>3. CASE h.at = 2
    BY <1>1, <1>6, <2>3, LapicTimerAt DEF h
  <2>4. CASE h.at = 3
    BY <1>1, <1>6, <2>4, LapicTimerAt DEF h
  <2>5. CASE h.at = 4
    BY <1>1, <1>6, <2>5, LapicTimerAt DEF h
  <2> QED
    BY <2>1, <2>2, <2>3, <2>4, <2>5
<1> QED
  BY <1>2, <1>3, <1>4, <1>5, <1>6 DEF Interrupts

(* A frame at another place.                                               *)
LEMMA FrameWith ==
    ASSUME NEW f \in Frame, NEW q \in 1..55, NEW b \in 0..1
    PROVE  [f EXCEPT !.at = q, !.half = b] \in Frame
<1> DEFINE C == {Main} \cup Vectors
           R == 0..CountBound
<1>1. Frame = [code : C, at : 1..55, half : 0..1, n : R, flag : BOOLEAN]
  BY DEF Frame
<1> HIDE DEF C, R
<1> QED
  BY <1>1

(* The code goes on at q.                                                  *)
LEMMA JumpFacts ==
    ASSUME StackInv, NEW q \in 1..55
    PROVE  /\ Jump(q) \in Seq(Frame) /\ Len(Jump(q)) = Len(ctx)
           /\ Jump(q)[Len(ctx)] = [Top EXCEPT !.at = q, !.half = 0]
           /\ Len(ctx) = 2 => Jump(q)[1] = ctx[1]
<1>1. ctx \in Seq(Frame) /\ Len(ctx) \in 1..2
  BY DEF StackInv
<1>2. Top \in Frame
  BY StackFacts
<1>3. [[Top EXCEPT !.at = q] EXCEPT !.half = 0] = [Top EXCEPT !.at = q, !.half = 0]
  BY <1>2 DEF Frame
<1>4. [Top EXCEPT !.at = q, !.half = 0] \in Frame
  <2>1. 0 \in 0..1
    OBVIOUS
  <2> QED
    BY <1>2, <2>1, FrameWith, Zenon
<1> DEFINE f == [Top EXCEPT !.at = q, !.half = 0]
<1>5. Jump(q) = [ctx EXCEPT ![Len(ctx)] = f]
  BY <1>3 DEF Jump, Top
<1> HIDE DEF f
<1>6. f \in Frame
  BY <1>4 DEF f
<1> QED
  BY <1>1, <1>5, <1>6 DEF f

(* kernel_entry goes on at q.                                              *)
LEMMA MainMoves ==
    ASSUME StackInv, Len(ctx) = 1, NEW q \in 1..55, ctx' = Jump(q)
    PROVE  /\ StackInv' /\ Len(ctx') = 1 /\ Place' = q
           /\ ctx'[1].half = 0
<1>1. ctx' \in Seq(Frame) /\ Len(ctx') = 1 /\ ctx'[1] = [Top EXCEPT !.at = q, !.half = 0]
  BY JumpFacts
<1>2. Top \in Frame /\ Top.code = Main
  BY StackFacts
<1>3. ctx'[1].code = Main /\ ctx'[1].at = q /\ ctx'[1].half = 0
  BY <1>1, <1>2 DEF Frame
<1> QED
  BY <1>1, <1>3 DEF StackInv, Place

(* The top frame is replaced by f.                                         *)
LEMMA FrameReplaced ==
    ASSUME StackInv, NEW f \in Frame, ctx' = [ctx EXCEPT ![Len(ctx)] = f]
    PROVE  /\ ctx' \in Seq(Frame) /\ Len(ctx') = Len(ctx) /\ ctx'[Len(ctx)] = f
           /\ Len(ctx) = 2 => ctx'[1] = ctx[1]
  BY DEF StackInv

(* A handler goes on at q.                                                 *)
LEMMA HandlerMoves ==
    ASSUME StackInv, Len(ctx) = 2, NEW q \in 1..4, NEW f \in Frame,
           ctx' = [ctx EXCEPT ![2] = f],
           f.code = ctx[2].code, f.at = q, f.flag = ctx[2].flag,
           Interrupts(f, Place)
    PROVE  StackInv' /\ Len(ctx') = 2 /\ ctx'[1] = ctx[1] /\ Place' = Place /\ ctx'[2] = f
<1>1. ctx' \in Seq(Frame) /\ Len(ctx') = 2 /\ ctx'[2] = f /\ ctx'[1] = ctx[1]
  BY FrameReplaced
<1>2. Place' = Place
  BY <1>1 DEF Place
<1>3. ctx'[1].code = Main
  BY <1>1 DEF StackInv
<1> QED
  BY <1>1, <1>2, <1>3 DEF StackInv

(* An operation that no handler has is executed by kernel_entry.           *)
LEMMA RunsMain ==
    ASSUME StackInv,
           Instr.op \notin {"mark", "cr2", "skip", "eoi", "count", "tick", "iretq"}
    PROVE  Len(ctx) = 1 /\ Instr = kernel_entry[Place] /\ Place \in 1..55 /\ Top = ctx[1]
  BY StackFacts, HandlerOps

(* An operation that only handlers have is executed by one.                *)
LEMMA RunsHandler ==
    ASSUME StackInv, Instr.op \in {"cr2", "skip", "eoi", "count", "tick", "iretq"}
    PROVE  Len(ctx) = 2 /\ Top = ctx[2] /\ ctx[2] \in Frame
  BY StackFacts, Places
-----------------------------------------------------------------------------
(* What a step that leaves the variables of a part alone must not pass.    *)
Passes(B) == \A b \in B : Place' > b => Place > b

(* Steps of kernel_entry within, or outside of, the places where interrupts*)
(* are on leave the flag right.                                            *)
LEMMA FlagKept ==
    ASSUME FlagInv, Len(ctx) = 1, Len(ctx') = 1, UNCHANGED <<IF_, crashed>>, halted' = FALSE,
           Place \in Waits <=> Place' \in Waits
    PROVE  FlagInv'
  BY DEF FlagInv

(* A step that leaves the tables alone must not pass a place behind which a*)
(* gate is needed.                                                         *)
LEMMA GateKept ==
    ASSUME GateInv, UNCHANGED tableVars, Passes({5, 9, 10, 20, 38, 49})
    PROVE  GateInv'
<1>1. /\ Place' > 5 => Place > 5
      /\ Place' > 9 => Place > 9
      /\ Place' > 10 => Place > 10
      /\ Place' > 20 => Place > 20
      /\ Place' > 38 => Place > 38
      /\ Place' > 49 => Place > 49
  BY DEF Passes
<1>2. UNCHANGED <<gdt, idtr, idt, cr2>>
  BY DEF tableVars
<1> QED
  BY <1>1, <1>2 DEF GateInv

(* A step that leaves the devices alone must not pass the remapping of the *)
(* PIC or its masking, nor end a handler that still owes an EOI.           *)
LEMMA DeviceKept ==
    ASSUME DeviceInv, UNCHANGED deviceVars, Passes({16, 30}), Place > 36 => Place' > 36,
           \/ Len(ctx) = 1
           \/ Len(ctx') = 2 /\ ctx'[2].code = ctx[2].code /\ ctx'[2].at = ctx[2].at
           \/ Len(ctx) = 2 /\ ctx[2].at # 1
           \/ Len(ctx) = 2 /\ ctx[2].code \notin {IRQ0, LapicTimer}
    PROVE  DeviceInv'
<1>1. /\ Place' > 16 => Place > 16
      /\ Place' > 30 => Place > 30
  BY DEF Passes
<1>2. UNCHANGED <<pic, pit, apic>>
  BY DEF deviceVars
<1> QED
  BY <1>1, <1>2 DEF DeviceInv

(* A step of kernel_entry that leaves the counters alone must not arrive at*)
(* the edges of the loops.                                                 *)
LEMMA CountKept ==
    ASSUME CountInv, count' = count, Len(ctx') = 1,
           Place' \in {24, 27, 42, 45} => Place' = Place
    PROVE  CountInv'
  BY DEF CountInv

MachineInv == StackInv /\ FlagInv /\ GateInv /\ DeviceInv /\ CountInv

(* kernel_entry goes on to its next operation.                             *)
LEMMA MainGoesOn ==
    ASSUME StackInv, Len(ctx) = 1, Place \in 1..54, ctx' = Jump(Top.at + 1)
    PROVE  StackInv' /\ Len(ctx') = 1 /\ Place' = Place + 1 /\ ctx'[1].half = 0
<1>1. Top.at = Place
  BY StackFacts DEF Place
<1>2. Place + 1 \in 1..55 /\ ctx' = Jump(Place + 1)
  BY <1>1
<1> QED
  BY <1>2, MainMoves

(* Code only runs while the processor neither waits nor has crashed.       *)
LEMMA IsRunning ==
    ASSUME FlagInv, Running
    PROVE  halted = FALSE /\ crashed = FALSE
  BY DEF FlagInv, Running

APICs == [enabled : BOOLEAN, lvt : {"masked", "periodic"},
          count : BOOLEAN, irr : BOOLEAN, isr : BOOLEAN]

(* The vectors that get a gate are different ones.                         *)
LEMMA GateVectors ==
    /\ {Breakpoint, IRQ0, LapicTimer, PageFault} \subseteq Vectors
    /\ Breakpoint # IRQ0 /\ Breakpoint # LapicTimer /\ Breakpoint # PageFault
    /\ IRQ0 # LapicTimer /\ IRQ0 # PageFault /\ LapicTimer # PageFault
    /\ Main \notin Vectors
  BY DEF Vectors, Breakpoint, DoubleFault, IRQ0, LapicTimer, PageFault, Main

(* lgdt.                                                                 *)
LEMMA LoadGdtStep ==
    ASSUME MachineInv, LoadGdt
    PROVE  /\ MachineInv' /\ Len(ctx) = 1 /\ Len(ctx') = 1 /\ Place \in {5}
           /\ Place' = Place + 1 /\ ctx'[1].half = 0
<1> USE DEF MachineInv
<1>1. Running /\ Instr.op = "lgdt"
  BY DEF LoadGdt, Executes
<1>2. Len(ctx) = 1 /\ Instr = kernel_entry[Place] /\ Place \in 1..55 /\ Top = ctx[1]
  BY <1>1, RunsMain
<1>3. Place \in {5}
  BY <1>1, <1>2, Places
<1>4. halted = FALSE /\ crashed = FALSE
  BY <1>1, IsRunning
<1>5. ctx' = Jump(Top.at + 1) /\ UNCHANGED <<halted, crashed>>
  BY DEF LoadGdt, GoOn, Go
<1>6. StackInv' /\ Len(ctx') = 1 /\ Place' = Place + 1 /\ ctx'[1].half = 0
  BY <1>2, <1>3, <1>5, MainGoesOn
<1>7. FlagInv'
  <2>1. IF_' = IF_
    BY DEF LoadGdt, GoOn, Go
  <2>2. Place \notin Waits /\ Place' \notin Waits
    BY <1>3, <1>6 DEF Waits
  <2> QED
    BY <1>2, <1>4, <1>5, <1>6, <2>1, <2>2, FlagKept
<1>8. GateInv'
  <2>1. gdt' = TRUE /\ UNCHANGED <<idtr, idt, cr2>>
    BY DEF LoadGdt
  <2> QED
    BY <1>3, <1>6, <2>1 DEF GateInv
<1>9. DeviceInv'
  <2>1. UNCHANGED deviceVars
    BY DEF LoadGdt
  <2>2. Passes({16, 30}) /\ (Place > 36 => Place' > 36)
    BY <1>3, <1>6 DEF Passes
  <2> QED
    BY <1>2, <2>1, <2>2, DeviceKept
<1>10. CountInv'
  <2>1. count' = count
    BY DEF LoadGdt
  <2>2. Place' \notin {24, 27, 42, 45}
    BY <1>3, <1>6
  <2> QED
    BY <1>6, <2>1, <2>2, CountKept
<1> QED
  BY <1>2, <1>3, <1>6, <1>7, <1>8, <1>9, <1>10

(* idtClearAll: no gate was installed before.                            *)
LEMMA IdtClearAllStep ==
    ASSUME MachineInv, idtClearAll
    PROVE  /\ MachineInv' /\ Len(ctx) = 1 /\ Len(ctx') = 1 /\ Place \in {8}
           /\ Place' = Place + 1 /\ ctx'[1].half = 0
<1> USE DEF MachineInv
<1>1. Running /\ Instr.op = "idtClearAll"
  BY DEF idtClearAll, Executes
<1>2. Len(ctx) = 1 /\ Instr = kernel_entry[Place] /\ Place \in 1..55 /\ Top = ctx[1]
  BY <1>1, RunsMain
<1>3. Place \in {8}
  BY <1>1, <1>2, Places
<1>4. halted = FALSE /\ crashed = FALSE
  BY <1>1, IsRunning
<1>5. ctx' = Jump(Top.at + 1) /\ UNCHANGED <<halted, crashed>>
  BY DEF idtClearAll, GoOn, Go
<1>6. StackInv' /\ Len(ctx') = 1 /\ Place' = Place + 1 /\ ctx'[1].half = 0
  BY <1>2, <1>3, <1>5, MainGoesOn
<1>7. FlagInv'
  <2>1. IF_' = IF_
    BY DEF idtClearAll, GoOn, Go
  <2>2. Place \notin Waits /\ Place' \notin Waits
    BY <1>3, <1>6 DEF Waits
  <2> QED
    BY <1>2, <1>4, <1>5, <1>6, <2>1, <2>2, FlagKept
<1>8. GateInv'
  <2>1. idt' = [v \in Vectors |-> "none"] /\ UNCHANGED <<gdt, idtr, cr2>>
    BY DEF idtClearAll
  <2>2. idt' \in [Vectors -> {"none", "trap", "interrupt"}]
    BY <2>1
  <2> QED
    BY <1>3, <1>6, <2>1, <2>2 DEF GateInv
<1>9. DeviceInv'
  <2>1. UNCHANGED deviceVars
    BY DEF idtClearAll
  <2>2. Passes({16, 30}) /\ (Place > 36 => Place' > 36)
    BY <1>3, <1>6 DEF Passes
  <2> QED
    BY <1>2, <2>1, <2>2, DeviceKept
<1>10. CountInv'
  <2>1. count' = count
    BY DEF idtClearAll
  <2>2. Place' \notin {24, 27, 42, 45}
    BY <1>3, <1>6
  <2> QED
    BY <1>6, <2>1, <2>2, CountKept
<1> QED
  BY <1>2, <1>3, <1>6, <1>7, <1>8, <1>9, <1>10

(* idtSetGate: at each place, that gate.                                 *)
LEMMA IdtSetGateStep ==
    ASSUME MachineInv, idtSetGate
    PROVE  /\ MachineInv' /\ Len(ctx) = 1 /\ Len(ctx') = 1 /\ Place \in {9, 20, 38, 49}
           /\ Place' = Place + 1 /\ ctx'[1].half = 0
<1> USE DEF MachineInv
<1>1. Running /\ Instr.op = "idtSetGate"
  BY DEF idtSetGate, Executes
<1>2. Len(ctx) = 1 /\ Instr = kernel_entry[Place] /\ Place \in 1..55 /\ Top = ctx[1]
  BY <1>1, RunsMain
<1>3. Place \in {9, 20, 38, 49}
  BY <1>1, <1>2, Places
<1>4. halted = FALSE /\ crashed = FALSE
  BY <1>1, IsRunning
<1>5. ctx' = Jump(Top.at + 1) /\ UNCHANGED <<halted, crashed>>
  BY DEF idtSetGate, GoOn, Go
<1>6. StackInv' /\ Len(ctx') = 1 /\ Place' = Place + 1 /\ ctx'[1].half = 0
  BY <1>2, <1>3, <1>5, MainGoesOn
<1>7. FlagInv'
  <2>1. IF_' = IF_
    BY DEF idtSetGate, GoOn, Go
  <2>2. Place \notin Waits /\ Place' \notin Waits
    BY <1>3, <1>6 DEF Waits
  <2> QED
    BY <1>2, <1>4, <1>5, <1>6, <2>1, <2>2, FlagKept
<1>8. GateInv'
  <2>1. idt' = [idt EXCEPT ![Instr.arg[1]] = Instr.arg[2]] /\ UNCHANGED <<gdt, idtr, cr2>>
    BY DEF idtSetGate
  <2>2. idt \in [Vectors -> {"none", "trap", "interrupt"}]
    BY DEF GateInv
  <2>3. CASE Place = 9
    <3>1. idt' = [idt EXCEPT ![Breakpoint] = "trap"]
      BY <1>2, <2>1, <2>3, GatesAt
    <3>2. /\ idt' \in [Vectors -> {"none", "trap", "interrupt"}]
          /\ idt'[Breakpoint] = "trap"
      BY <2>2, <3>1, GateVectors
    <3> QED
      BY <1>6, <2>1, <2>3, <3>2 DEF GateInv
  <2>4. CASE Place = 20
    <3>1. idt' = [idt EXCEPT ![IRQ0] = "interrupt"]
      BY <1>2, <2>1, <2>4, GatesAt
    <3>2. /\ idt' \in [Vectors -> {"none", "trap", "interrupt"}]
          /\ idt'[Breakpoint] = idt[Breakpoint] /\ idt'[IRQ0] = "interrupt"
      BY <2>2, <3>1, GateVectors
    <3> QED
      BY <1>6, <2>1, <2>4, <3>2 DEF GateInv
  <2>5. CASE Place = 38
    <3>1. idt' = [idt EXCEPT ![LapicTimer] = "interrupt"]
      BY <1>2, <2>1, <2>5, GatesAt
    <3>2. /\ idt' \in [Vectors -> {"none", "trap", "interrupt"}]
          /\ idt'[Breakpoint] = idt[Breakpoint] /\ idt'[IRQ0] = idt[IRQ0]
          /\ idt'[LapicTimer] = "interrupt"
      BY <2>2, <3>1, GateVectors
    <3> QED
      BY <1>6, <2>1, <2>5, <3>2 DEF GateInv
  <2>6. CASE Place = 49
    <3>1. idt' = [idt EXCEPT ![PageFault] = "trap"]
      BY <1>2, <2>1, <2>6, GatesAt
    <3>2. /\ idt' \in [Vectors -> {"none", "trap", "interrupt"}]
          /\ idt'[Breakpoint] = idt[Breakpoint] /\ idt'[IRQ0] = idt[IRQ0]
          /\ idt'[LapicTimer] = idt[LapicTimer] /\ idt'[PageFault] = "trap"
      BY <2>2, <3>1, GateVectors
    <3> QED
      BY <1>6, <2>1, <2>6, <3>2 DEF GateInv
  <2> QED
    BY <1>3, <2>3, <2>4, <2>5, <2>6
<1>9. DeviceInv'
  <2>1. UNCHANGED deviceVars
    BY DEF idtSetGate
  <2>2. Passes({16, 30}) /\ (Place > 36 => Place' > 36)
    BY <1>3, <1>6 DEF Passes
  <2> QED
    BY <1>2, <2>1, <2>2, DeviceKept
<1>10. CountInv'
  <2>1. count' = count
    BY DEF idtSetGate
  <2>2. Place' \notin {24, 27, 42, 45}
    BY <1>3, <1>6
  <2> QED
    BY <1>6, <2>1, <2>2, CountKept
<1> QED
  BY <1>2, <1>3, <1>6, <1>7, <1>8, <1>9, <1>10

(* idtLoad.                                                              *)
LEMMA IdtLoadStep ==
    ASSUME MachineInv, idtLoad
    PROVE  /\ MachineInv' /\ Len(ctx) = 1 /\ Len(ctx') = 1 /\ Place \in {10, 21, 39, 50}
           /\ Place' = Place + 1 /\ ctx'[1].half = 0
<1> USE DEF MachineInv
<1>1. Running /\ Instr.op = "idtLoad"
  BY DEF idtLoad, Executes
<1>2. Len(ctx) = 1 /\ Instr = kernel_entry[Place] /\ Place \in 1..55 /\ Top = ctx[1]
  BY <1>1, RunsMain
<1>3. Place \in {10, 21, 39, 50}
  BY <1>1, <1>2, Places
<1>4. halted = FALSE /\ crashed = FALSE
  BY <1>1, IsRunning
<1>5. ctx' = Jump(Top.at + 1) /\ UNCHANGED <<halted, crashed>>
  BY DEF idtLoad, GoOn, Go
<1>6. StackInv' /\ Len(ctx') = 1 /\ Place' = Place + 1 /\ ctx'[1].half = 0
  BY <1>2, <1>3, <1>5, MainGoesOn
<1>7. FlagInv'
  <2>1. IF_' = IF_
    BY DEF idtLoad, GoOn, Go
  <2>2. Place \notin Waits /\ Place' \notin Waits
    BY <1>3, <1>6 DEF Waits
  <2> QED
    BY <1>2, <1>4, <1>5, <1>6, <2>1, <2>2, FlagKept
<1>8. GateInv'
  <2>1. idtr' = TRUE /\ UNCHANGED <<gdt, idt, cr2>>
    BY DEF idtLoad
  <2> QED
    BY <1>3, <1>6, <2>1 DEF GateInv
<1>9. DeviceInv'
  <2>1. UNCHANGED deviceVars
    BY DEF idtLoad
  <2>2. Passes({16, 30}) /\ (Place > 36 => Place' > 36)
    BY <1>3, <1>6 DEF Passes
  <2> QED
    BY <1>2, <2>1, <2>2, DeviceKept
<1>10. CountInv'
  <2>1. count' = count
    BY DEF idtLoad
  <2>2. Place' \notin {24, 27, 42, 45}
    BY <1>3, <1>6
  <2> QED
    BY <1>6, <2>1, <2>2, CountKept
<1> QED
  BY <1>2, <1>3, <1>6, <1>7, <1>8, <1>9, <1>10

(* cli, before the gates and behind each loop.                           *)
LEMMA CliStep ==
    ASSUME MachineInv, Cli
    PROVE  /\ MachineInv' /\ Len(ctx) = 1 /\ Len(ctx') = 1 /\ Place \in {7, 27, 45}
           /\ Place' = Place + 1 /\ ctx'[1].half = 0
<1> USE DEF MachineInv
<1>1. Running /\ Instr.op = "cli"
  BY DEF Cli, Executes
<1>2. Len(ctx) = 1 /\ Instr = kernel_entry[Place] /\ Place \in 1..55 /\ Top = ctx[1]
  BY <1>1, RunsMain
<1>3. Place \in {7, 27, 45}
  BY <1>1, <1>2, Places
<1>4. halted = FALSE /\ crashed = FALSE
  BY <1>1, IsRunning
<1>5. ctx' = Jump(Top.at + 1) /\ UNCHANGED <<halted, crashed>>
  BY DEF Cli, GoOn, Go
<1>6. StackInv' /\ Len(ctx') = 1 /\ Place' = Place + 1 /\ ctx'[1].half = 0
  BY <1>2, <1>3, <1>5, MainGoesOn
<1>7. FlagInv'
  <2>1. IF_' = FALSE
    BY DEF Cli
  <2>2. Place' \notin Waits
    BY <1>3, <1>6 DEF Waits
  <2> QED
    BY <1>4, <1>5, <1>6, <2>1, <2>2 DEF FlagInv
<1>8. GateInv'
  <2>1. UNCHANGED tableVars
    BY DEF Cli
  <2>2. Passes({5, 9, 10, 20, 38, 49})
    BY <1>3, <1>6 DEF Passes
  <2> QED
    BY <2>1, <2>2, GateKept
<1>9. DeviceInv'
  <2>1. UNCHANGED deviceVars
    BY DEF Cli
  <2>2. Passes({16, 30}) /\ (Place > 36 => Place' > 36)
    BY <1>3, <1>6 DEF Passes
  <2> QED
    BY <1>2, <2>1, <2>2, DeviceKept
<1>10. CountInv'
  <2>1. count' = count
    BY DEF Cli
  <2>2. Place' \notin {24, 27, 42, 45}
    BY <1>3, <1>6
  <2> QED
    BY <1>6, <2>1, <2>2, CountKept
<1> QED
  BY <1>2, <1>3, <1>6, <1>7, <1>8, <1>9, <1>10

(* sti, before each loop.                                                *)
LEMMA StiStep ==
    ASSUME MachineInv, Sti
    PROVE  /\ MachineInv' /\ Len(ctx) = 1 /\ Len(ctx') = 1 /\ Place \in {24, 42}
           /\ Place' = Place + 1 /\ ctx'[1].half = 0
<1> USE DEF MachineInv
<1>1. Running /\ Instr.op = "sti"
  BY DEF Sti, Executes
<1>2. Len(ctx) = 1 /\ Instr = kernel_entry[Place] /\ Place \in 1..55 /\ Top = ctx[1]
  BY <1>1, RunsMain
<1>3. Place \in {24, 42}
  BY <1>1, <1>2, Places
<1>4. halted = FALSE /\ crashed = FALSE
  BY <1>1, IsRunning
<1>5. ctx' = Jump(Top.at + 1) /\ UNCHANGED <<halted, crashed>>
  BY DEF Sti, GoOn, Go
<1>6. StackInv' /\ Len(ctx') = 1 /\ Place' = Place + 1 /\ ctx'[1].half = 0
  BY <1>2, <1>3, <1>5, MainGoesOn
<1>7. FlagInv'
  <2>1. IF_' = TRUE
    BY DEF Sti
  <2>2. Place' \in Waits
    BY <1>3, <1>6 DEF Waits
  <2> QED
    BY <1>4, <1>5, <1>6, <2>1, <2>2 DEF FlagInv
<1>8. GateInv'
  <2>1. UNCHANGED tableVars
    BY DEF Sti
  <2>2. Passes({5, 9, 10, 20, 38, 49})
    BY <1>3, <1>6 DEF Passes
  <2> QED
    BY <2>1, <2>2, GateKept
<1>9. DeviceInv'
  <2>1. UNCHANGED deviceVars
    BY DEF Sti
  <2>2. Passes({16, 30}) /\ (Place > 36 => Place' > 36)
    BY <1>3, <1>6 DEF Passes
  <2> QED
    BY <1>2, <2>1, <2>2, DeviceKept
<1>10. CountInv'
  <2>1. count' = count
    BY DEF Sti
  <2>2. Place' \notin {24, 27, 42, 45}
    BY <1>3, <1>6
  <2> QED
    BY <1>6, <2>1, <2>2, CountKept
<1> QED
  BY <1>2, <1>3, <1>6, <1>7, <1>8, <1>9, <1>10

(* The counter of a loop is set to zero.                                 *)
LEMMA ZeroCountStep ==
    ASSUME MachineInv, ZeroCount
    PROVE  /\ MachineInv' /\ Len(ctx) = 1 /\ Len(ctx') = 1 /\ Place \in {23, 41}
           /\ Place' = Place + 1 /\ ctx'[1].half = 0
<1> USE DEF MachineInv
<1>1. Running /\ Instr.op = "zero"
  BY DEF ZeroCount, Executes
<1>2. Len(ctx) = 1 /\ Instr = kernel_entry[Place] /\ Place \in 1..55 /\ Top = ctx[1]
  BY <1>1, RunsMain
<1>3. Place \in {23, 41}
  BY <1>1, <1>2, Places
<1>4. halted = FALSE /\ crashed = FALSE
  BY <1>1, IsRunning
<1>5. ctx' = Jump(Top.at + 1) /\ UNCHANGED <<halted, crashed>>
  BY DEF ZeroCount, GoOn, Go
<1>6. StackInv' /\ Len(ctx') = 1 /\ Place' = Place + 1 /\ ctx'[1].half = 0
  BY <1>2, <1>3, <1>5, MainGoesOn
<1>7. FlagInv'
  <2>1. IF_' = IF_
    BY DEF ZeroCount, GoOn, Go
  <2>2. Place \notin Waits /\ Place' \notin Waits
    BY <1>3, <1>6 DEF Waits
  <2> QED
    BY <1>2, <1>4, <1>5, <1>6, <2>1, <2>2, FlagKept
<1>8. GateInv'
  <2>1. UNCHANGED tableVars
    BY DEF ZeroCount
  <2>2. Passes({5, 9, 10, 20, 38, 49})
    BY <1>3, <1>6 DEF Passes
  <2> QED
    BY <2>1, <2>2, GateKept
<1>9. DeviceInv'
  <2>1. UNCHANGED deviceVars
    BY DEF ZeroCount
  <2>2. Passes({16, 30}) /\ (Place > 36 => Place' > 36)
    BY <1>3, <1>6 DEF Passes
  <2> QED
    BY <1>2, <2>1, <2>2, DeviceKept
<1>10. CountInv'
  <2>1. count' = [count EXCEPT ![Instr.arg] = 0]
    BY DEF ZeroCount
  <2>2. count \in [timer : 0..CountBound, lapic : 0..CountBound]
    BY DEF CountInv
  <2>3. CASE Place = 23
    <3>1. count' = [count EXCEPT !.timer = 0]
      BY <1>2, <2>1, <2>3, CountersAt
    <3>2. count' \in [timer : 0..CountBound, lapic : 0..CountBound] /\ count'.timer = 0
      BY <2>2, <3>1 DEF CountBound, TicksWanted
    <3> QED
      BY <1>6, <2>3, <3>2 DEF CountInv
  <2>4. CASE Place = 41
    <3>1. count' = [count EXCEPT !.lapic = 0]
      BY <1>2, <2>1, <2>4, CountersAt
    <3>2. count' \in [timer : 0..CountBound, lapic : 0..CountBound] /\ count'.lapic = 0
      BY <2>2, <3>1 DEF CountBound, TicksWanted
    <3> QED
      BY <1>6, <2>4, <3>2 DEF CountInv
  <2> QED
    BY <1>3, <2>3, <2>4
<1> QED
  BY <1>2, <1>3, <1>6, <1>7, <1>8, <1>9, <1>10

(* pic_remap_and_mask.                                                   *)
LEMMA Pic_remap_and_maskStep ==
    ASSUME MachineInv, pic_remap_and_mask
    PROVE  /\ MachineInv' /\ Len(ctx) = 1 /\ Len(ctx') = 1 /\ Place \in {16}
           /\ Place' = Place + 1 /\ ctx'[1].half = 0
<1> USE DEF MachineInv
<1>1. Running /\ Instr.op = "pic_remap_and_mask"
  BY DEF pic_remap_and_mask, Executes
<1>2. Len(ctx) = 1 /\ Instr = kernel_entry[Place] /\ Place \in 1..55 /\ Top = ctx[1]
  BY <1>1, RunsMain
<1>3. Place \in {16}
  BY <1>1, <1>2, Places
<1>4. halted = FALSE /\ crashed = FALSE
  BY <1>1, IsRunning
<1>5. ctx' = Jump(Top.at + 1) /\ UNCHANGED <<halted, crashed>>
  BY DEF pic_remap_and_mask, GoOn, Go
<1>6. StackInv' /\ Len(ctx') = 1 /\ Place' = Place + 1 /\ ctx'[1].half = 0
  BY <1>2, <1>3, <1>5, MainGoesOn
<1>7. FlagInv'
  <2>1. IF_' = IF_
    BY DEF pic_remap_and_mask, GoOn, Go
  <2>2. Place \notin Waits /\ Place' \notin Waits
    BY <1>3, <1>6 DEF Waits
  <2> QED
    BY <1>2, <1>4, <1>5, <1>6, <2>1, <2>2, FlagKept
<1>8. GateInv'
  <2>1. UNCHANGED tableVars
    BY DEF pic_remap_and_mask
  <2>2. Passes({5, 9, 10, 20, 38, 49})
    BY <1>3, <1>6 DEF Passes
  <2> QED
    BY <2>1, <2>2, GateKept
<1>9. DeviceInv'
  <2>1. /\ pic' = [remapped |-> TRUE, masked |-> FALSE, irr |-> FALSE, isr |-> FALSE]
        /\ UNCHANGED <<pit, apic>>
    BY DEF pic_remap_and_mask
  <2>2. /\ pic' \in [remapped : BOOLEAN, masked : BOOLEAN, irr : BOOLEAN, isr : BOOLEAN]
        /\ pic'.remapped = TRUE /\ pic'.isr = FALSE
    BY <2>1
  <2> QED
    BY <1>2, <1>3, <1>6, <2>1, <2>2 DEF DeviceInv
<1>10. CountInv'
  <2>1. count' = count
    BY DEF pic_remap_and_mask
  <2>2. Place' \notin {24, 27, 42, 45}
    BY <1>3, <1>6
  <2> QED
    BY <1>6, <2>1, <2>2, CountKept
<1> QED
  BY <1>2, <1>3, <1>6, <1>7, <1>8, <1>9, <1>10

(* pic_mask_all.                                                         *)
LEMMA Pic_mask_allStep ==
    ASSUME MachineInv, pic_mask_all
    PROVE  /\ MachineInv' /\ Len(ctx) = 1 /\ Len(ctx') = 1 /\ Place \in {30}
           /\ Place' = Place + 1 /\ ctx'[1].half = 0
<1> USE DEF MachineInv
<1>1. Running /\ Instr.op = "pic_mask_all"
  BY DEF pic_mask_all, Executes
<1>2. Len(ctx) = 1 /\ Instr = kernel_entry[Place] /\ Place \in 1..55 /\ Top = ctx[1]
  BY <1>1, RunsMain
<1>3. Place \in {30}
  BY <1>1, <1>2, Places
<1>4. halted = FALSE /\ crashed = FALSE
  BY <1>1, IsRunning
<1>5. ctx' = Jump(Top.at + 1) /\ UNCHANGED <<halted, crashed>>
  BY DEF pic_mask_all, GoOn, Go
<1>6. StackInv' /\ Len(ctx') = 1 /\ Place' = Place + 1 /\ ctx'[1].half = 0
  BY <1>2, <1>3, <1>5, MainGoesOn
<1>7. FlagInv'
  <2>1. IF_' = IF_
    BY DEF pic_mask_all, GoOn, Go
  <2>2. Place \notin Waits /\ Place' \notin Waits
    BY <1>3, <1>6 DEF Waits
  <2> QED
    BY <1>2, <1>4, <1>5, <1>6, <2>1, <2>2, FlagKept
<1>8. GateInv'
  <2>1. UNCHANGED tableVars
    BY DEF pic_mask_all
  <2>2. Passes({5, 9, 10, 20, 38, 49})
    BY <1>3, <1>6 DEF Passes
  <2> QED
    BY <2>1, <2>2, GateKept
<1>9. DeviceInv'
  <2>1. pic' = [pic EXCEPT !.masked = TRUE] /\ UNCHANGED <<pit, apic>>
    BY DEF pic_mask_all
  <2>2. pic \in [remapped : BOOLEAN, masked : BOOLEAN, irr : BOOLEAN, isr : BOOLEAN]
    BY DEF DeviceInv
  <2>3. /\ pic' \in [remapped : BOOLEAN, masked : BOOLEAN, irr : BOOLEAN, isr : BOOLEAN]
        /\ pic'.masked = TRUE /\ pic'.remapped = pic.remapped /\ pic'.isr = pic.isr
    BY <2>1, <2>2
  <2> QED
    BY <1>2, <1>3, <1>6, <2>1, <2>3 DEF DeviceInv
<1>10. CountInv'
  <2>1. count' = count
    BY DEF pic_mask_all
  <2>2. Place' \notin {24, 27, 42, 45}
    BY <1>3, <1>6
  <2> QED
    BY <1>6, <2>1, <2>2, CountKept
<1> QED
  BY <1>2, <1>3, <1>6, <1>7, <1>8, <1>9, <1>10

(* pit_set_frequency.                                                    *)
LEMMA Pit_set_frequencyStep ==
    ASSUME MachineInv, pit_set_frequency
    PROVE  /\ MachineInv' /\ Len(ctx) = 1 /\ Len(ctx') = 1 /\ Place \in {18}
           /\ Place' = Place + 1 /\ ctx'[1].half = 0
<1> USE DEF MachineInv
<1>1. Running /\ Instr.op = "pit_set_frequency"
  BY DEF pit_set_frequency, Executes
<1>2. Len(ctx) = 1 /\ Instr = kernel_entry[Place] /\ Place \in 1..55 /\ Top = ctx[1]
  BY <1>1, RunsMain
<1>3. Place \in {18}
  BY <1>1, <1>2, Places
<1>4. halted = FALSE /\ crashed = FALSE
  BY <1>1, IsRunning
<1>5. ctx' = Jump(Top.at + 1) /\ UNCHANGED <<halted, crashed>>
  BY DEF pit_set_frequency, GoOn, Go
<1>6. StackInv' /\ Len(ctx') = 1 /\ Place' = Place + 1 /\ ctx'[1].half = 0
  BY <1>2, <1>3, <1>5, MainGoesOn
<1>7. FlagInv'
  <2>1. IF_' = IF_
    BY DEF pit_set_frequency, GoOn, Go
  <2>2. Place \notin Waits /\ Place' \notin Waits
    BY <1>3, <1>6 DEF Waits
  <2> QED
    BY <1>2, <1>4, <1>5, <1>6, <2>1, <2>2, FlagKept
<1>8. GateInv'
  <2>1. UNCHANGED tableVars
    BY DEF pit_set_frequency
  <2>2. Passes({5, 9, 10, 20, 38, 49})
    BY <1>3, <1>6 DEF Passes
  <2> QED
    BY <2>1, <2>2, GateKept
<1>9. DeviceInv'
  <2>1. pit' = TRUE /\ UNCHANGED <<pic, apic>>
    BY DEF pit_set_frequency
  <2> QED
    BY <1>2, <1>3, <1>6, <2>1 DEF DeviceInv
<1>10. CountInv'
  <2>1. count' = count
    BY DEF pit_set_frequency
  <2>2. Place' \notin {24, 27, 42, 45}
    BY <1>3, <1>6
  <2> QED
    BY <1>6, <2>1, <2>2, CountKept
<1> QED
  BY <1>2, <1>3, <1>6, <1>7, <1>8, <1>9, <1>10

(* The writes to the local APIC: the timer counts only from 36 on.       *)
LEMMA Lapic_mmio_writeStep ==
    ASSUME MachineInv, lapic_mmio_write
    PROVE  /\ MachineInv' /\ Len(ctx) = 1 /\ Len(ctx') = 1 /\ Place \in {33, 35, 36, 46}
           /\ Place' = Place + 1 /\ ctx'[1].half = 0
<1> USE DEF MachineInv
<1>1. Running /\ Instr.op = "lapic_mmio_write"
  BY DEF lapic_mmio_write, Executes
<1>2. Len(ctx) = 1 /\ Instr = kernel_entry[Place] /\ Place \in 1..55 /\ Top = ctx[1]
  BY <1>1, RunsMain
<1>3. Place \in {33, 35, 36, 46}
  BY <1>1, <1>2, Places
<1>4. halted = FALSE /\ crashed = FALSE
  BY <1>1, IsRunning
<1>5. ctx' = Jump(Top.at + 1) /\ UNCHANGED <<halted, crashed>>
  BY DEF lapic_mmio_write, GoOn, Go
<1>6. StackInv' /\ Len(ctx') = 1 /\ Place' = Place + 1 /\ ctx'[1].half = 0
  BY <1>2, <1>3, <1>5, MainGoesOn
<1>7. FlagInv'
  <2>1. IF_' = IF_
    BY DEF lapic_mmio_write, GoOn, Go
  <2>2. Place \notin Waits /\ Place' \notin Waits
    BY <1>3, <1>6 DEF Waits
  <2> QED
    BY <1>2, <1>4, <1>5, <1>6, <2>1, <2>2, FlagKept
<1>8. GateInv'
  <2>1. UNCHANGED tableVars
    BY DEF lapic_mmio_write
  <2>2. Passes({5, 9, 10, 20, 38, 49})
    BY <1>3, <1>6 DEF Passes
  <2> QED
    BY <2>1, <2>2, GateKept
<1>9. DeviceInv'
  <2>1. UNCHANGED <<pic, pit>>
    BY DEF lapic_mmio_write
  <2>2. apic \in APICs
    BY DEF DeviceInv, APICs
  <2>3. /\ apic' \in APICs /\ apic'.irr = apic.irr /\ apic'.isr = apic.isr
        /\ Place # 36 => apic'.count = apic.count
    <3>1. CASE Place = 33
      <4>1. apic' = [apic EXCEPT !.enabled = TRUE]
        BY <1>2, <3>1, RegistersAt DEF lapic_mmio_write
      <4> QED
        BY <2>2, <4>1 DEF APICs
    <3>2. CASE Place = 35
      <4>1. apic' = [apic EXCEPT !.lvt = IF apic.enabled THEN "periodic" ELSE @]
        BY <1>2, <3>2, RegistersAt DEF lapic_mmio_write
      <4> QED
        BY <2>2, <4>1 DEF APICs
    <3>3. CASE Place = 36
      <4>1. apic' = [apic EXCEPT !.count = TRUE]
        BY <1>2, <3>3, RegistersAt DEF lapic_mmio_write
      <4> QED
        BY <2>2, <3>3, <4>1 DEF APICs
    <3>4. CASE Place = 46
      <4>1. apic' = [apic EXCEPT !.lvt = "masked"]
        BY <1>2, <3>4, RegistersAt DEF lapic_mmio_write
      <4> QED
        BY <2>2, <4>1 DEF APICs
    <3> QED
      BY <1>3, <3>1, <3>2, <3>3, <3>4
  <2> QED
    BY <1>2, <1>3, <1>6, <2>1, <2>3 DEF DeviceInv, APICs
<1>10. CountInv'
  <2>1. count' = count
    BY DEF lapic_mmio_write
  <2>2. Place' \notin {24, 27, 42, 45}
    BY <1>3, <1>6
  <2> QED
    BY <1>6, <2>1, <2>2, CountKept
<1> QED
  BY <1>2, <1>3, <1>6, <1>7, <1>8, <1>9, <1>10

(* The test of a loop, which leaves it only once the ticks have come.      *)
LEMMA LoopTestStep ==
    ASSUME MachineInv, LoopTest
    PROVE  /\ MachineInv' /\ Len(ctx) = 1 /\ Len(ctx') = 1 /\ ctx'[1].half = 0
           /\ Place \in {25, 43} /\ Place' \in {Place + 1, Place + 2}
<1> USE DEF MachineInv
<1>1. Running /\ Instr.op = "while"
  BY DEF LoopTest, Executes
<1>2. Len(ctx) = 1 /\ Instr = kernel_entry[Place] /\ Place \in 1..55 /\ Top = ctx[1]
  BY <1>1, RunsMain
<1>3. Place \in {25, 43}
  BY <1>1, <1>2, Places
<1>4. halted = FALSE /\ crashed = FALSE
  BY <1>1, IsRunning
<1> DEFINE q == IF count[Instr.arg] < TicksWanted THEN Top.at + 1 ELSE Top.at + 2
<1>5. ctx' = Jump(q) /\ UNCHANGED <<IF_, halted, crashed, tableVars, deviceVars, count>>
  BY DEF LoopTest, Go
<1>6. Top.at = Place
  BY <1>2 DEF Place
<1>7. q \in 1..55 /\ q \in {Place + 1, Place + 2}
  BY <1>3, <1>6
<1>8. q = Place + 2 => ~(count[Instr.arg] < TicksWanted)
  BY <1>3, <1>6
<1> HIDE DEF q
<1>9. StackInv' /\ Len(ctx') = 1 /\ Place' = q /\ ctx'[1].half = 0
  BY <1>2, <1>5, <1>7, MainMoves
<1>10. FlagInv'
  <2>1. Place \in Waits /\ Place' \in Waits
    BY <1>3, <1>7, <1>9 DEF Waits
  <2> QED
    BY <1>2, <1>4, <1>5, <1>9, <2>1, FlagKept
<1>11. GateInv'
  <2>1. Passes({5, 9, 10, 20, 38, 49})
    BY <1>3, <1>7, <1>9 DEF Passes
  <2> QED
    BY <1>5, <2>1, GateKept
<1>12. DeviceInv'
  <2>1. Passes({16, 30}) /\ (Place > 36 => Place' > 36)
    BY <1>3, <1>7, <1>9 DEF Passes
  <2> QED
    BY <1>2, <1>5, <2>1, DeviceKept
<1>13. CountInv'
  <2>1. count \in [timer : 0..CountBound, lapic : 0..CountBound] /\ count' = count
    BY <1>5 DEF CountInv
  <2>2. Place' = 27 => count.timer >= TicksWanted
    <3>1. SUFFICES ASSUME Place' = 27 PROVE count.timer >= TicksWanted
      OBVIOUS
    <3>2. Place = 25 /\ q = Place + 2
      BY <1>3, <1>7, <1>9, <3>1
    <3>3. Instr.arg = "timer"
      BY <1>2, <3>2, Stage3At
    <3> QED
      BY <1>8, <2>1, <3>2, <3>3 DEF TicksWanted, CountBound
  <2>3. Place' = 45 => count.lapic >= TicksWanted
    <3>1. SUFFICES ASSUME Place' = 45 PROVE count.lapic >= TicksWanted
      OBVIOUS
    <3>2. Place = 43 /\ q = Place + 2
      BY <1>3, <1>7, <1>9, <3>1
    <3>3. kernel_entry[43].arg = "lapic"
      BY Stage4At, Zenon
    <3>4. Instr.arg = "lapic"
      BY <1>2, <3>2, <3>3
    <3> QED
      BY <1>8, <2>1, <3>2, <3>4 DEF TicksWanted, CountBound
  <2>4. Place' \notin {24, 42}
    BY <1>3, <1>7, <1>9
  <2> QED
    BY <1>9, <2>1, <2>2, <2>3, <2>4 DEF CountInv
<1> QED
  BY <1>2, <1>3, <1>7, <1>9, <1>10, <1>11, <1>12, <1>13

(* hlt, and back to the test of the loop.                                  *)
LEMMA HltStep ==
    ASSUME MachineInv, Hlt
    PROVE  /\ MachineInv' /\ Len(ctx) = 1 /\ Len(ctx') = 1 /\ ctx'[1].half = 0
           /\ Place \in {26, 44} /\ Place' = Place - 1
<1> USE DEF MachineInv
<1>1. Running /\ Instr.op = "hlt"
  BY DEF Hlt, Executes
<1>2. Len(ctx) = 1 /\ Instr = kernel_entry[Place] /\ Place \in 1..55 /\ Top = ctx[1]
  BY <1>1, RunsMain
<1>3. Place \in {26, 44}
  BY <1>1, <1>2, Places
<1>4. crashed = FALSE
  BY <1>1, IsRunning
<1>5. /\ ctx' = Jump(Top.at - 1) /\ halted' = TRUE
      /\ UNCHANGED <<IF_, crashed, tableVars, deviceVars, count>>
  BY DEF Hlt
<1>6. Top.at = Place /\ Place - 1 \in 1..55
  BY <1>2, <1>3 DEF Place
<1>7. StackInv' /\ Len(ctx') = 1 /\ Place' = Place - 1 /\ ctx'[1].half = 0
  BY <1>2, <1>5, <1>6, MainMoves
<1>8. FlagInv'
  <2>1. Place \in Waits /\ Place' \in {25, 43} /\ Place' \in Waits
    BY <1>3, <1>7 DEF Waits
  <2> QED
    BY <1>2, <1>4, <1>5, <1>7, <2>1 DEF FlagInv
<1>9. GateInv'
  <2>1. Passes({5, 9, 10, 20, 38, 49})
    BY <1>3, <1>7 DEF Passes
  <2> QED
    BY <1>5, <2>1, GateKept
<1>10. DeviceInv'
  <2>1. Passes({16, 30}) /\ (Place > 36 => Place' > 36)
    BY <1>3, <1>7 DEF Passes
  <2> QED
    BY <1>2, <1>5, <2>1, DeviceKept
<1>11. CountInv'
  <2>1. Place' \notin {24, 27, 42, 45}
    BY <1>3, <1>7
  <2> QED
    BY <1>5, <1>7, <2>1, CountKept
<1> QED
  BY <1>2, <1>3, <1>7, <1>8, <1>9, <1>10, <1>11

(* A write of half a line, or of its other half and on.                    *)
LEMMA HalfWritten ==
    ASSUME StackInv, NEW line, WriteHalf(line), Top.at \in 1..54
    PROVE  \E f \in Frame :
              /\ ctx' = [ctx EXCEPT ![Len(ctx)] = f]
              /\ f.code = Top.code /\ f.n = Top.n /\ f.flag = Top.flag
              /\ Top.half = 0 => f.at = Top.at /\ f.half = 1
              /\ Top.half = 1 => f.at = Top.at + 1 /\ f.half = 0
<1>1. Top \in Frame
  BY StackFacts
<1>2. Top.half = 0 \/ Top.half = 1
  BY <1>1 DEF Frame
<1> DEFINE g == [Top EXCEPT !.at = Top.at, !.half = 1]
           h == [Top EXCEPT !.at = Top.at + 1, !.half = 0]
<1>3. Top.at \in 1..55 /\ Top.at + 1 \in 1..55 /\ 0 \in 0..1 /\ 1 \in 0..1
  OBVIOUS
<1>4. g \in Frame /\ h \in Frame
  BY <1>1, <1>3, FrameWith, Zenon
<1>5. CASE Top.half = 0
  <2>1. ctx' = [ctx EXCEPT ![Len(ctx)].half = 1]
    BY <1>5 DEF WriteHalf
  <2>2. g = [Top EXCEPT !.half = 1]
    BY <1>1 DEF Frame
  <2>3. ctx' = [ctx EXCEPT ![Len(ctx)] = g]
    BY <2>1, <2>2 DEF Top
  <2>4. g.code = Top.code /\ g.n = Top.n /\ g.flag = Top.flag /\ g.at = Top.at /\ g.half = 1
    BY <1>1 DEF Frame
  <2>5. Top.half # 1
    BY <1>5
  <2> HIDE DEF g
  <2> QED
    BY <1>4, <2>3, <2>4, <2>5, Zenon
<1>6. CASE Top.half = 1
  <2>1. ctx' = Jump(Top.at + 1)
    BY <1>6 DEF WriteHalf
  <2>2. h = [[Top EXCEPT !.at = Top.at + 1] EXCEPT !.half = 0]
    BY <1>1 DEF Frame
  <2>3. Jump(Top.at + 1) = [ctx EXCEPT ![Len(ctx)] = h]
    BY <2>2 DEF Jump, Top
  <2>4. h.code = Top.code /\ h.n = Top.n /\ h.flag = Top.flag /\ h.at = Top.at + 1 /\ h.half = 0
    BY <1>1 DEF Frame
  <2>5. Top.half # 0
    BY <1>6
  <2>6. ctx' = [ctx EXCEPT ![Len(ctx)] = h]
    BY <2>1, <2>3
  <2> HIDE DEF h
  <2> QED
    BY <1>4, <2>4, <2>5, <2>6, Zenon
<1> QED
  BY <1>2, <1>5, <1>6

(* A handler leaves the interrupt flag as it found it.                     *)
LEMMA HandlerFlag ==
    ASSUME FlagInv, Len(ctx) = 2, Len(ctx') = 2, UNCHANGED <<IF_, halted, crashed>>
    PROVE  FlagInv'
  BY DEF FlagInv

(* A handler's local n is the counter's value from the count to the write  *)
(* of the tick.                                                            *)
LEMMA HandlerCount ==
    ASSUME CountInv, count' = count, Len(ctx) = 2, Len(ctx') = 2, Place' = Place,
           \/ ctx'[2].at # 3
           \/ ctx'[2].code \notin {IRQ0, LapicTimer}
           \/ /\ ctx'[2].code = ctx[2].code
              /\ ctx'[2].at = ctx[2].at /\ ctx'[2].n = ctx[2].n
    PROVE  CountInv'
  BY DEF CountInv

(* A step of a handler other than its last.                                *)
LEMMA HandlerStep ==
    ASSUME MachineInv, Len(ctx) = 2, NEW f \in Frame, ctx' = [ctx EXCEPT ![2] = f],
           f.code = ctx[2].code, f.flag = ctx[2].flag, f.at \in 1..4, Interrupts(f, Place),
           UNCHANGED <<IF_, halted, crashed, tableVars>>
    PROVE  /\ StackInv' /\ FlagInv' /\ GateInv'
           /\ Len(ctx') = 2 /\ ctx'[1] = ctx[1] /\ Place' = Place /\ ctx'[2] = f
<1> USE DEF MachineInv
<1>1. StackInv' /\ Len(ctx') = 2 /\ ctx'[1] = ctx[1] /\ Place' = Place /\ ctx'[2] = f
  BY HandlerMoves
<1>2. FlagInv'
  BY <1>1, HandlerFlag
<1>3. GateInv'
  <2>1. Passes({5, 9, 10, 20, 38, 49})
    BY <1>1 DEF Passes
  <2> QED
    BY <2>1, GateKept
<1> QED
  BY <1>1, <1>2, <1>3

(* A handler that leaves the devices alone, other than in the place of its *)
(* EOI.                                                                    *)
LEMMA HandlerDevices ==
    ASSUME DeviceInv, UNCHANGED deviceVars, Place' = Place, Len(ctx) = 2,
           \/ Len(ctx') = 2 /\ ctx'[2].code = ctx[2].code /\ ctx'[2].at = ctx[2].at
           \/ ctx[2].at # 1
           \/ ctx[2].code \notin {IRQ0, LapicTimer}
    PROVE  DeviceInv'
<1>1. Passes({16, 30})
  BY DEF Passes
<1> QED
  BY <1>1, DeviceKept

(* The place of a handler tells what it may do next.                       *)
LEMMA HandlerPlace ==
    ASSUME StackInv, Len(ctx) = 2
    PROVE  /\ ctx[2].code \in {Breakpoint, PageFault, IRQ0, LapicTimer}
           /\ ctx[2].at \in 1..4 /\ Interrupts(ctx[2], Place)
           /\ \A f : /\ f.code = ctx[2].code /\ f.flag = ctx[2].flag
                     /\ \/ f.at = ctx[2].at
                        \/ f.at = ctx[2].at + 1 /\ ctx[2].at < 3 /\ ctx[2].code # Breakpoint
                        \/ f.at = 2 /\ ctx[2].at = 1
                        \/ f.at = 4 /\ ctx[2].at = 3 /\ ctx[2].code \in {IRQ0, LapicTimer}
                     => Interrupts(f, Place) /\ f.at \in 1..4
<1>1. Interrupts(ctx[2], Place)
  BY DEF StackInv
<1>2. ctx[2].code \in {Breakpoint, PageFault, IRQ0, LapicTimer} /\ ctx[2].at \in 1..4
  BY <1>1 DEF Interrupts
<1> SUFFICES ASSUME NEW f, f.code = ctx[2].code, f.flag = ctx[2].flag,
                    \/ f.at = ctx[2].at
                    \/ f.at = ctx[2].at + 1 /\ ctx[2].at < 3 /\ ctx[2].code # Breakpoint
                    \/ f.at = 2 /\ ctx[2].at = 1
                    \/ f.at = 4 /\ ctx[2].at = 3 /\ ctx[2].code \in {IRQ0, LapicTimer}
             PROVE  Interrupts(f, Place) /\ f.at \in 1..4
  BY <1>1, <1>2
<1>3. CASE ctx[2].code = Breakpoint
  BY <1>1, <1>3, GateVectors DEF Interrupts
<1>4. CASE ctx[2].code = PageFault
  BY <1>1, <1>4, GateVectors DEF Interrupts
<1>5. CASE ctx[2].code = IRQ0
  BY <1>1, <1>5, GateVectors DEF Interrupts
<1>6. CASE ctx[2].code = LapicTimer
  BY <1>1, <1>6, GateVectors DEF Interrupts
<1> QED
  BY <1>2, <1>3, <1>4, <1>5, <1>6

(* Half a line of a marker, by kernel_entry.                               *)
LEMMA MainMarkStep ==
    ASSUME MachineInv, WriteMark, Len(ctx) = 1
    PROVE  /\ MachineInv' /\ Len(ctx') = 1 /\ Place \in Marks /\ Top = ctx[1]
           /\ Instr = kernel_entry[Place]
           /\ ctx[1].half = 0 => Place' = Place /\ ctx'[1].half = 1
           /\ ctx[1].half = 1 => Place' = Place + 1 /\ ctx'[1].half = 0
           /\ ctx[1].half \in 0..1
<1> USE DEF MachineInv
<1>1. Running /\ Instr.op = "mark" /\ WriteHalf(Instr.arg)
      /\ UNCHANGED <<IF_, halted, crashed, tableVars, deviceVars, count>>
  BY DEF WriteMark, Executes, WriteHalf
<1>2. Top = ctx[1] /\ Instr = kernel_entry[Place] /\ Place \in 1..55 /\ ctx[1] \in Frame
  BY StackFacts
<1>3. Place \in Marks
  BY <1>1, <1>2, Places
<1>4. Top.at = Place /\ Place \in 1..54
  BY <1>2, <1>3 DEF Place, Marks
<1>5. PICK f \in Frame :
         /\ ctx' = [ctx EXCEPT ![Len(ctx)] = f]
         /\ f.code = Top.code /\ f.n = Top.n /\ f.flag = Top.flag
         /\ Top.half = 0 => f.at = Top.at /\ f.half = 1
         /\ Top.half = 1 => f.at = Top.at + 1 /\ f.half = 0
  BY <1>1, <1>4, HalfWritten
<1>6. ctx' \in Seq(Frame) /\ Len(ctx') = 1 /\ ctx'[1] = f
  BY <1>5, FrameReplaced
<1>7. ctx[1].half \in 0..1
  BY <1>2 DEF Frame
<1>8. /\ ctx[1].half = 0 => Place' = Place /\ ctx'[1].half = 1
      /\ ctx[1].half = 1 => Place' = Place + 1 /\ ctx'[1].half = 0
  BY <1>2, <1>4, <1>5, <1>6 DEF Place
<1>9. Place' = Place \/ Place' = Place + 1
  BY <1>7, <1>8
<1>10. StackInv'
  <2>1. ctx'[1].code = Main
    BY <1>5, <1>6, StackFacts
  <2> QED
    BY <1>6, <2>1 DEF StackInv
<1>11. FlagInv'
  <2>1. Place \notin Waits /\ Place' \notin Waits
    BY <1>3, <1>9 DEF Waits, Marks
  <2>2. halted' = FALSE
    BY <1>1, IsRunning
  <2> QED
    BY <1>1, <1>6, <2>1, <2>2, FlagKept
<1>12. GateInv'
  <2>1. Passes({5, 9, 10, 20, 38, 49})
    BY <1>3, <1>9 DEF Passes, Marks
  <2> QED
    BY <1>1, <2>1, GateKept
<1>13. DeviceInv'
  <2>1. Passes({16, 30}) /\ (Place > 36 => Place' > 36)
    BY <1>3, <1>9 DEF Passes, Marks
  <2> QED
    BY <1>1, <2>1, DeviceKept
<1>14. CountInv'
  <2>1. Place' \notin {24, 27, 42, 45}
    BY <1>3, <1>9 DEF Marks
  <2> QED
    BY <1>1, <1>6, <2>1, CountKept
<1> QED
  BY <1>2, <1>3, <1>6, <1>7, <1>8, <1>10, <1>11, <1>12, <1>13, <1>14

(* Half a line, by a handler: the exceptions' lines and the ticks.         *)
LEMMA HandlerWriteStep ==
    ASSUME MachineInv, Len(ctx) = 2, NEW line, WriteHalf(line),
           Writes(ctx[2]), UNCHANGED <<crashed, tableVars, deviceVars, count>>
    PROVE  /\ MachineInv' /\ Len(ctx') = 2 /\ Place' = Place /\ ctx'[1] = ctx[1]
           /\ ctx[2].half \in 0..1 /\ Top = ctx[2]
           /\ ctx'[2].code = ctx[2].code /\ ctx'[2].n = ctx[2].n
           /\ ctx[2].half = 0 => ctx'[2].at = ctx[2].at /\ ctx'[2].half = 1
           /\ ctx[2].half = 1 => ctx'[2].at = ctx[2].at + 1 /\ ctx'[2].half = 0
<1> USE DEF MachineInv
<1> DEFINE h == ctx[2]
<1>1. Top = h /\ h \in Frame
  BY StackFacts
<1>2. h.half \in 0..1 /\ (h.half = 0 \/ h.half = 1)
  BY <1>1 DEF Frame
<1>3. h.at \in 1..3
  BY HandlerPlace DEF Writes
<1>4. PICK f \in Frame :
         /\ ctx' = [ctx EXCEPT ![Len(ctx)] = f]
         /\ f.code = Top.code /\ f.n = Top.n /\ f.flag = Top.flag
         /\ Top.half = 0 => f.at = Top.at /\ f.half = 1
         /\ Top.half = 1 => f.at = Top.at + 1 /\ f.half = 0
  <2>1. Top.at \in 1..54
    BY <1>1, <1>3
  <2> QED
    BY <2>1, HalfWritten
<1>5. UNCHANGED <<IF_, halted>>
  BY DEF WriteHalf
<1>6. f.at = h.at \/ (f.at = h.at + 1 /\ h.half = 1)
  BY <1>1, <1>2, <1>4
<1>7. Interrupts(f, Place) /\ f.at \in 1..4
  <2>1. \/ f.at = h.at
        \/ f.at = h.at + 1 /\ h.at < 3 /\ h.code # Breakpoint
        \/ f.at = 2 /\ h.at = 1
        \/ f.at = 4 /\ h.at = 3 /\ h.code \in {IRQ0, LapicTimer}
    <3>1. CASE h.code = Breakpoint /\ h.at = 1
      BY <1>6, <3>1
    <3>2. CASE h.code = PageFault /\ h.at \in 1..2
      BY <1>6, <3>2, GateVectors
    <3>3. CASE h.code \in {IRQ0, LapicTimer} /\ h.at = 3
      BY <1>6, <3>3
    <3> QED
      BY <3>1, <3>2, <3>3 DEF Writes
  <2>2. f.code = h.code /\ f.flag = h.flag
    BY <1>1, <1>4
  <2> QED
    BY <2>1, <2>2, HandlerPlace
<1>8. /\ StackInv' /\ FlagInv' /\ GateInv'
      /\ Len(ctx') = 2 /\ ctx'[1] = ctx[1] /\ Place' = Place /\ ctx'[2] = f
  BY <1>1, <1>4, <1>5, <1>7, HandlerStep
<1>9. /\ h.half = 0 => f.at = h.at /\ f.half = 1
      /\ h.half = 1 => f.at = h.at + 1 /\ f.half = 0
      /\ f.code = h.code /\ f.n = h.n
  BY <1>1, <1>4
<1>10. DeviceInv'
  <2>1. f.at = h.at \/ h.at # 1 \/ h.code \notin {IRQ0, LapicTimer}
    BY <1>6, GateVectors DEF Writes
  <2> QED
    BY <1>8, <1>9, <2>1, HandlerDevices
<1>11. CountInv'
  <2>1. f.at = h.at \/ f.at # 3 \/ h.code \notin {IRQ0, LapicTimer}
    BY <1>6, GateVectors DEF Writes
  <2> QED
    BY <1>8, <1>9, <2>1, HandlerCount
<1> QED
  BY <1>1, <1>2, <1>8, <1>9, <1>10, <1>11

(* The frame of a handler behind its current operation.                    *)
Behind(h) == [h EXCEPT !.at = h.at + 1, !.half = 0]

(* The frame of a handler behind its current operation.                    *)
LEMMA BehindFacts ==
    ASSUME StackInv, Len(ctx) = 2
    PROVE  LET h == ctx[2] IN
           /\ Top = h /\ Jump(Top.at + 1) = [ctx EXCEPT ![2] = Behind(h)]
           /\ Behind(h) \in Frame /\ Behind(h).code = h.code /\ Behind(h).n = h.n
           /\ Behind(h).flag = h.flag /\ Behind(h).at = h.at + 1 /\ Behind(h).half = 0
<1> DEFINE h == ctx[2]
<1>1. Top = h /\ h \in Frame /\ h.at \in 1..4
  BY StackFacts, HandlerPlace
<1>2. h.at + 1 \in 1..55 /\ 0 \in 0..1
  BY <1>1
<1>3. Behind(h) \in Frame
  BY <1>1, <1>2, FrameWith, Zenon DEF Behind
<1>4. Behind(h) = [[h EXCEPT !.at = h.at + 1] EXCEPT !.half = 0]
  BY <1>1 DEF Behind, Frame
<1>5. Jump(Top.at + 1) = [ctx EXCEPT ![2] = Behind(h)]
  BY <1>1, <1>4 DEF Jump
<1>6. /\ Behind(h).code = h.code /\ Behind(h).n = h.n
      /\ Behind(h).flag = h.flag /\ Behind(h).at = h.at + 1 /\ Behind(h).half = 0
  BY <1>1 DEF Behind, Frame
<1> QED
  BY <1>1, <1>3, <1>5, <1>6

(* What a handler's step leaves of the rest of its frame.                  *)
Advances == /\ Len(ctx) = 2 /\ Len(ctx') = 2 /\ ctx'[1] = ctx[1] /\ Place' = Place
            /\ ctx'[2].code = ctx[2].code /\ ctx'[2].at = ctx[2].at + 1 /\ ctx'[2].half = 0

(* Later ticks print nothing.                                              *)
LEMMA SkipTickStep ==
    ASSUME MachineInv, SkipTick
    PROVE  /\ MachineInv' /\ Advances /\ ctx[2].code \in {IRQ0, LapicTimer}
           /\ ctx[2].at = 3 /\ ctx[2].n > TicksWanted /\ ctx'[2].n = ctx[2].n
<1> USE DEF MachineInv
<1>1. Running /\ Instr.op = "tick" /\ Top.n > TicksWanted /\ ctx' = Jump(Top.at + 1)
      /\ UNCHANGED <<IF_, halted, crashed, tableVars, deviceVars, count>>
  BY DEF SkipTick, Executes, GoOn, Go
<1>2. Len(ctx) = 2 /\ Top = ctx[2]
  BY <1>1, RunsHandler
<1>3. ctx[2].at = 3 /\ ctx[2].code \in {IRQ0, LapicTimer}
  BY <1>1, <1>2, HandlerOps
<1> DEFINE f == Behind(ctx[2])
<1>4. /\ f \in Frame /\ ctx' = [ctx EXCEPT ![2] = f] /\ f.code = ctx[2].code
      /\ f.flag = ctx[2].flag /\ f.at = 4 /\ f.half = 0 /\ f.n = ctx[2].n
  BY <1>1, <1>2, <1>3, BehindFacts
<1> HIDE DEF f
<1>5. Interrupts(f, Place) /\ f.at \in 1..4
  BY <1>2, <1>3, <1>4, HandlerPlace
<1>6. /\ StackInv' /\ FlagInv' /\ GateInv'
      /\ Len(ctx') = 2 /\ ctx'[1] = ctx[1] /\ Place' = Place /\ ctx'[2] = f
  BY <1>1, <1>2, <1>4, <1>5, HandlerStep
<1>7. DeviceInv'
  BY <1>1, <1>2, <1>3, <1>6, HandlerDevices
<1>8. CountInv'
  BY <1>1, <1>2, <1>4, <1>6, HandlerCount
<1> QED
  BY <1>1, <1>2, <1>3, <1>4, <1>6, <1>7, <1>8 DEF Advances

(* The end of interrupt, written before all else.                          *)
LEMMA EoiStep ==
    ASSUME MachineInv, Eoi
    PROVE  /\ MachineInv' /\ Advances /\ ctx[2].code \in {IRQ0, LapicTimer} /\ ctx[2].at = 1
<1> USE DEF MachineInv
<1>1. Running /\ Instr.op = "eoi" /\ ctx' = Jump(Top.at + 1)
      /\ UNCHANGED <<IF_, halted, crashed, tableVars, pit, count>>
  BY DEF Eoi, Executes, GoOn, Go
<1>2. Len(ctx) = 2 /\ Top = ctx[2]
  BY <1>1, RunsHandler
<1>3. /\ ctx[2].at = 1
      /\ \/ ctx[2].code = IRQ0 /\ Instr.arg = "pic"
         \/ ctx[2].code = LapicTimer /\ Instr.arg = "lapic"
  BY <1>1, <1>2, HandlerOps
<1> DEFINE f == Behind(ctx[2])
<1>4. /\ f \in Frame /\ ctx' = [ctx EXCEPT ![2] = f] /\ f.code = ctx[2].code
      /\ f.flag = ctx[2].flag /\ f.at = 2 /\ f.half = 0
  BY <1>1, <1>2, <1>3, BehindFacts
<1> HIDE DEF f
<1>5. Interrupts(f, Place) /\ f.at \in 1..4
  BY <1>2, <1>3, <1>4, HandlerPlace
<1>6. /\ StackInv' /\ FlagInv' /\ GateInv'
      /\ Len(ctx') = 2 /\ ctx'[1] = ctx[1] /\ Place' = Place /\ ctx'[2] = f
  BY <1>1, <1>2, <1>4, <1>5, HandlerStep
<1>7. DeviceInv'
  <2>1. /\ pic \in [remapped : BOOLEAN, masked : BOOLEAN, irr : BOOLEAN, isr : BOOLEAN]
        /\ apic \in APICs
    BY DEF DeviceInv, APICs
  <2>2. CASE ctx[2].code = IRQ0 /\ Instr.arg = "pic"
    <3>1. pic' = [pic EXCEPT !.isr = FALSE] /\ apic' = apic
      BY <2>2 DEF Eoi
    <3>2. /\ pic' \in [remapped : BOOLEAN, masked : BOOLEAN, irr : BOOLEAN, isr : BOOLEAN]
          /\ pic'.remapped = pic.remapped /\ pic'.masked = pic.masked /\ pic'.isr = FALSE
      BY <2>1, <3>1
    <3>3. apic.isr = TRUE => FALSE
      BY <2>2, GateVectors DEF DeviceInv
    <3> QED
      BY <1>1, <1>6, <3>1, <3>2, <3>3 DEF DeviceInv
  <2>3. CASE ctx[2].code = LapicTimer /\ Instr.arg = "lapic"
    <3>1. apic' = [apic EXCEPT !.isr = FALSE] /\ pic' = pic
      BY <2>3 DEF Eoi
    <3>2. /\ apic' \in APICs /\ apic'.isr = FALSE
          /\ apic'.count = apic.count /\ apic'.irr = apic.irr
      BY <2>1, <3>1 DEF APICs
    <3>3. pic.isr = TRUE => FALSE
      BY <2>3, GateVectors DEF DeviceInv
    <3> QED
      BY <1>1, <1>6, <3>1, <3>2, <3>3 DEF DeviceInv, APICs
  <2> QED
    BY <1>3, <2>2, <2>3
<1>8. CountInv'
  BY <1>1, <1>2, <1>4, <1>6, HandlerCount
<1> QED
  BY <1>2, <1>3, <1>4, <1>6, <1>7, <1>8 DEF Advances

(* The capped counter moves as the code's does up to its cap.              *)
LEMMA CappedFacts ==
    ASSUME NEW c \in 0..CountBound
    PROVE  /\ Capped(c + 1) \in 0..CountBound /\ Capped(c + 1) > 0 /\ Capped(c + 1) >= c
           /\ c < TicksWanted + 1 => Capped(c + 1) = c + 1
           /\ c = TicksWanted + 1 => Capped(c + 1) = TicksWanted + 1
  BY DEF Capped, CountBound, TicksWanted

(* n = ++count.                                                            *)
LEMMA CountStep ==
    ASSUME MachineInv, Count
    PROVE  /\ MachineInv' /\ Advances /\ ctx[2].at = 2
           /\ \/ /\ ctx[2].code = IRQ0 /\ count.timer \in 0..CountBound
                 /\ count'.timer = Capped(count.timer + 1) /\ count'.lapic = count.lapic
                 /\ ctx'[2].n = count'.timer
              \/ /\ ctx[2].code = LapicTimer /\ count.lapic \in 0..CountBound
                 /\ count'.lapic = Capped(count.lapic + 1) /\ count'.timer = count.timer
                 /\ ctx'[2].n = count'.lapic
<1> USE DEF MachineInv
<1> DEFINE n == Capped(count[Instr.arg] + 1)
<1>1. Running /\ Instr.op = "count" /\ ctx' = [Jump(Top.at + 1) EXCEPT ![Len(ctx)].n = n]
      /\ count' = [count EXCEPT ![Instr.arg] = n]
      /\ UNCHANGED <<IF_, halted, crashed, tableVars, deviceVars>>
  BY DEF Count, Executes
<1>2. Len(ctx) = 2 /\ Top = ctx[2]
  BY <1>1, RunsHandler
<1>3. /\ ctx[2].at = 2
      /\ \/ ctx[2].code = IRQ0 /\ Instr.arg = "timer"
         \/ ctx[2].code = LapicTimer /\ Instr.arg = "lapic"
  BY <1>1, <1>2, HandlerOps
<1>4. count \in [timer : 0..CountBound, lapic : 0..CountBound]
  BY DEF CountInv
<1>5. count[Instr.arg] \in 0..CountBound /\ count.timer \in 0..CountBound /\ count.lapic \in 0..CountBound
  BY <1>3, <1>4
<1>6. n \in 0..CountBound /\ n > 0 /\ n >= count[Instr.arg]
  BY <1>5, CappedFacts
<1> DEFINE f == [Behind(ctx[2]) EXCEPT !.n = n]
<1>7. /\ f \in Frame /\ f.code = ctx[2].code
      /\ f.flag = ctx[2].flag /\ f.at = 3 /\ f.half = 0 /\ f.n = n
  <2> DEFINE g == Behind(ctx[2])
             C == {Main} \cup Vectors
             R == 0..CountBound
  <2>1. g \in Frame /\ g.code = ctx[2].code /\ g.flag = ctx[2].flag /\ g.at = 3 /\ g.half = 0
    BY <1>2, <1>3, BehindFacts
  <2>2. Frame = [code : C, at : 1..55, half : 0..1, n : R, flag : BOOLEAN] /\ n \in R
    BY <1>6 DEF Frame
  <2> HIDE DEF g, C, R, n
  <2>3. [g EXCEPT !.n = n] \in Frame
    BY <2>1, <2>2
  <2>4. /\ [g EXCEPT !.n = n].code = g.code /\ [g EXCEPT !.n = n].flag = g.flag
        /\ [g EXCEPT !.n = n].at = g.at /\ [g EXCEPT !.n = n].half = g.half
        /\ [g EXCEPT !.n = n].n = n
    BY <2>1, <2>2
  <2> QED
    BY <2>1, <2>3, <2>4 DEF g
<1>8. ctx' = [ctx EXCEPT ![2] = f]
  <2>1. Jump(Top.at + 1) = [ctx EXCEPT ![2] = Behind(ctx[2])] /\ ctx \in Seq(Frame)
    BY <1>2, BehindFacts DEF StackInv
  <2>2. ctx' = [[ctx EXCEPT ![2] = Behind(ctx[2])] EXCEPT ![2].n = n]
    BY <1>1, <1>2, <2>1
  <2> HIDE DEF n
  <2> QED
    BY <1>2, <2>1, <2>2
<1> HIDE DEF f
<1>9. Interrupts(f, Place) /\ f.at \in 1..4
  <2>1. ctx[2].code # Breakpoint /\ f.at = ctx[2].at + 1 /\ ctx[2].at < 3
    BY <1>3, <1>7, GateVectors
  <2> QED
    BY <1>2, <1>7, <2>1, HandlerPlace
<1>10. /\ StackInv' /\ FlagInv' /\ GateInv'
       /\ Len(ctx') = 2 /\ ctx'[1] = ctx[1] /\ Place' = Place /\ ctx'[2] = f
  BY <1>1, <1>2, <1>7, <1>8, <1>9, HandlerStep
<1>11. DeviceInv'
  BY <1>1, <1>2, <1>3, <1>10, HandlerDevices
<1> HIDE DEF n
<1>12. CASE ctx[2].code = IRQ0 /\ Instr.arg = "timer"
  <2>1. count' = [count EXCEPT !.timer = n] /\ n >= count.timer
    BY <1>1, <1>6, <1>12
  <2>2. /\ count' \in [timer : 0..CountBound, lapic : 0..CountBound]
        /\ count'.timer = n /\ count'.lapic = count.lapic
    BY <1>4, <1>6, <2>1
  <2>3. n = Capped(count.timer + 1)
    BY <1>12 DEF n
  <2>4. Place \in 25..27 /\ f.code = IRQ0 /\ f.code # LapicTimer
    BY <1>2, <1>7, <1>12, HandlerPlace, GateVectors DEF Interrupts
  <2>5. CountInv'
    <3>1. count.timer >= TicksWanted => n >= TicksWanted
      BY <1>5, <1>6, <2>1 DEF TicksWanted, CountBound
    <3>2. Place' = 27 => count'.timer >= TicksWanted
      BY <1>10, <2>2, <3>1 DEF CountInv
    <3>3. Place' \notin {24, 42, 45}
      BY <1>10, <2>4
    <3> QED
      BY <1>6, <1>7, <1>10, <2>2, <2>4, <3>2, <3>3 DEF CountInv
  <2> QED
    BY <1>2, <1>3, <1>5, <1>7, <1>10, <1>11, <1>12, <2>2, <2>3, <2>5 DEF Advances
<1>13. CASE ctx[2].code = LapicTimer /\ Instr.arg = "lapic"
  <2>1. count' = [count EXCEPT !.lapic = n] /\ n >= count.lapic
    BY <1>1, <1>6, <1>13
  <2>2. /\ count' \in [timer : 0..CountBound, lapic : 0..CountBound]
        /\ count'.lapic = n /\ count'.timer = count.timer
    BY <1>4, <1>6, <2>1
  <2>3. n = Capped(count.lapic + 1)
    BY <1>13 DEF n
  <2>4. Place \in 43..45 /\ f.code = LapicTimer /\ f.code # IRQ0
    BY <1>2, <1>7, <1>13, HandlerPlace, GateVectors DEF Interrupts
  <2>5. CountInv'
    <3>1. count.lapic >= TicksWanted => n >= TicksWanted
      BY <1>5, <1>6, <2>1 DEF TicksWanted, CountBound
    <3>2. Place' = 45 => count'.lapic >= TicksWanted
      BY <1>10, <2>2, <3>1 DEF CountInv
    <3>3. Place' \notin {24, 42, 27}
      BY <1>10, <2>4
    <3> QED
      BY <1>6, <1>7, <1>10, <2>2, <2>4, <3>2, <3>3 DEF CountInv
  <2> QED
    BY <1>2, <1>3, <1>5, <1>7, <1>10, <1>11, <1>13, <2>2, <2>3, <2>5 DEF Advances
<1> QED
  BY <1>3, <1>12, <1>13

(* The page-fault handler moves the return address.                        *)
LEMMA SkipProbeStep ==
    ASSUME MachineInv, SkipProbe
    PROVE  /\ MachineInv' /\ Len(ctx) = 2 /\ Len(ctx') = 2 /\ ctx[2].code = PageFault
           /\ ctx[2].at = 3 /\ ctx'[2].code = PageFault /\ ctx'[2].at = 4 /\ ctx'[2].half = 0
           /\ Place = 53 /\ Place' = 54 /\ ctx'[1].half = ctx[1].half
<1> USE DEF MachineInv
<1>1. /\ Running /\ Instr.op = "skip"
      /\ ctx' = [Jump(Top.at + 1) EXCEPT ![Len(ctx) - 1].at = @ + 1]
      /\ UNCHANGED <<IF_, halted, crashed, tableVars, deviceVars, count>>
  BY DEF SkipProbe, Executes
<1>2. Len(ctx) = 2 /\ Top = ctx[2]
  BY <1>1, RunsHandler
<1>3. ctx[2].at = 3 /\ ctx[2].code = PageFault
  BY <1>1, <1>2, HandlerOps
<1>4. Place = 53 /\ ctx[2].flag = FALSE
  <2>1. Interrupts(ctx[2], Place)
    BY <1>2 DEF StackInv
  <2> QED
    BY <1>3, <2>1, GateVectors DEF Interrupts
<1> DEFINE f == Behind(ctx[2])
           m == [ctx[1] EXCEPT !.at = 54]
<1>5. /\ f \in Frame /\ Jump(Top.at + 1) = [ctx EXCEPT ![2] = f] /\ f.code = PageFault
      /\ f.flag = FALSE /\ f.at = 4 /\ f.half = 0
  BY <1>1, <1>2, <1>3, <1>4, BehindFacts
<1>6. m \in Frame /\ m.code = Main /\ m.at = 54 /\ m.half = ctx[1].half
  <2>1. ctx[1] \in Frame /\ ctx[1].code = Main
    BY StackFacts
  <2>2. 54 \in 1..55 /\ ctx[1].half \in 0..1
    BY <2>1 DEF Frame
  <2>3. m = [ctx[1] EXCEPT !.at = 54, !.half = ctx[1].half]
    BY <2>1 DEF Frame
  <2>4. m \in Frame
    BY <2>1, <2>2, <2>3, FrameWith, Zenon
  <2>5. m.code = Main /\ m.at = 54 /\ m.half = ctx[1].half
    BY <2>1 DEF Frame
  <2> QED
    BY <2>4, <2>5
<1> HIDE DEF f
<1>7. ctx' \in Seq(Frame) /\ Len(ctx') = 2 /\ ctx'[1] = m /\ ctx'[2] = f
  <2>1. ctx \in Seq(Frame) /\ ctx[1].at = 53
    BY <1>4 DEF StackInv, Place
  <2>2. [ctx EXCEPT ![2] = f] \in Seq(Frame) /\ Len([ctx EXCEPT ![2] = f]) = 2
        /\ [ctx EXCEPT ![2] = f][1] = ctx[1] /\ [ctx EXCEPT ![2] = f][2] = f
    BY <1>2, <1>5, <2>1
  <2> DEFINE s == [ctx EXCEPT ![2] = f]
  <2>7. Len(ctx) - 1 = 1
    BY <1>2
  <2>8. ctx' = [Jump(Top.at + 1) EXCEPT ![1].at = @ + 1]
    BY <1>1, <2>7
  <2>3. ctx' = [s EXCEPT ![1] = [s[1] EXCEPT !.at = s[1].at + 1]]
    BY <1>5, <2>8
  <2>4. s \in Seq(Frame) /\ Len(s) = 2 /\ s[1] = ctx[1] /\ s[2] = f
    BY <2>2
  <2> HIDE DEF s
  <2>5. [s[1] EXCEPT !.at = s[1].at + 1] = m
    BY <2>1, <2>4
  <2>6. ctx' = [s EXCEPT ![1] = m]
    BY <2>3, <2>5
  <2> HIDE DEF m
  <2> QED
    BY <1>6, <2>4, <2>6
<1> HIDE DEF m
<1>8. Place' = 54
  BY <1>6, <1>7 DEF Place
<1>9. StackInv'
  <2>1. Interrupts(f, 54)
    BY <1>5 DEF Interrupts
  <2>2. Interrupts(ctx'[2], Place')
    BY <1>7, <1>8, <2>1
  <2> QED
    BY <1>6, <1>7, <2>2 DEF StackInv
<1>10. FlagInv'
  BY <1>1, <1>2, <1>7, HandlerFlag
<1>11. GateInv'
  <2>1. Passes({5, 9, 10, 20, 38, 49})
    BY <1>4, <1>8 DEF Passes
  <2> QED
    BY <1>1, <2>1, GateKept
<1>12. DeviceInv'
  <2>1. Passes({16, 30}) /\ (Place > 36 => Place' > 36)
    BY <1>4, <1>8 DEF Passes
  <2> QED
    BY <1>1, <1>2, <1>3, <2>1, DeviceKept
<1>13. CountInv'
  <2>1. ctx'[2].at # 3
    BY <1>5, <1>7
  <2> QED
    BY <1>1, <1>8, <2>1 DEF CountInv
<1> QED
  BY <1>2, <1>3, <1>4, <1>5, <1>6, <1>7, <1>8, <1>9, <1>10, <1>11, <1>12, <1>13

(* The return from a handler, with the interrupt flag it found.            *)
LEMMA IretqStep ==
    ASSUME MachineInv, Iretq
    PROVE  /\ MachineInv' /\ Len(ctx) = 2 /\ Len(ctx') = 1 /\ ctx'[1] = ctx[1] /\ Place' = Place
           /\ \/ ctx[2].code = Breakpoint /\ ctx[2].at = 2
              \/ ctx[2].code \in {PageFault, IRQ0, LapicTimer} /\ ctx[2].at = 4
<1> USE DEF MachineInv
<1>1. /\ Running /\ Instr.op = "iretq" /\ ctx' = SubSeq(ctx, 1, Len(ctx) - 1) /\ IF_' = Top.flag
      /\ UNCHANGED <<halted, crashed, tableVars, deviceVars, count>>
  BY DEF Iretq, Executes
<1>2. Len(ctx) = 2 /\ Top = ctx[2]
  BY <1>1, RunsHandler
<1>3. \/ ctx[2].code = Breakpoint /\ ctx[2].at = 2
      \/ ctx[2].code \in {PageFault, IRQ0, LapicTimer} /\ ctx[2].at = 4
  BY <1>1, <1>2, HandlerOps
<1>4. ctx' \in Seq(Frame) /\ Len(ctx') = 1 /\ ctx'[1] = ctx[1]
  <2>1. ctx \in Seq(Frame) /\ ctx' = SubSeq(ctx, 1, 1)
    BY <1>1, <1>2 DEF StackInv
  <2> QED
    BY <1>2, <2>1
<1>5. Place' = Place
  BY <1>4 DEF Place
<1>6. StackInv'
  BY <1>4 DEF StackInv
<1>7. FlagInv'
  <2>1. halted = FALSE /\ crashed = FALSE
    BY <1>1, IsRunning
  <2>2. ctx[2].flag \in BOOLEAN /\ (ctx[2].flag = TRUE <=> Place \in Waits)
    <3>1. Interrupts(ctx[2], Place)
      BY <1>2 DEF StackInv
    <3>2. \/ ctx[2].flag = FALSE /\ (Place = 14 \/ Place = 53 \/ Place = 54)
          \/ ctx[2].flag = TRUE /\ (Place \in 25..27 \/ Place \in 43..45)
      BY <3>1 DEF Interrupts
    <3>3. CASE ctx[2].flag = FALSE /\ (Place = 14 \/ Place = 53 \/ Place = 54)
      <4>1. Place \notin Waits
        BY <3>3 DEF Waits
      <4> QED
        BY <3>3, <4>1
    <3>4. CASE ctx[2].flag = TRUE /\ (Place \in 25..27 \/ Place \in 43..45)
      <4>1. Place \in Waits
        BY <3>4 DEF Waits
      <4> QED
        BY <3>4, <4>1
    <3> QED
      BY <3>2, <3>3, <3>4
  <2> QED
    BY <1>1, <1>2, <1>4, <1>5, <2>1, <2>2 DEF FlagInv
<1>8. GateInv'
  <2>1. Passes({5, 9, 10, 20, 38, 49})
    BY <1>5 DEF Passes
  <2> QED
    BY <1>1, <2>1, GateKept
<1>9. DeviceInv'
  <2>1. Passes({16, 30}) /\ (Place > 36 => Place' > 36)
    BY <1>5 DEF Passes
  <2>2. ctx[2].at # 1
    BY <1>3
  <2> QED
    BY <1>1, <1>2, <2>1, <2>2, DeviceKept
<1>10. CountInv'
  BY <1>1, <1>4, <1>5, CountKept
<1> QED
  BY <1>2, <1>3, <1>4, <1>5, <1>6, <1>7, <1>8, <1>9, <1>10

(* The processor enters a handler whose gate is in place.                  *)
Entered(v, flag) == [code |-> v, at |-> 1, half |-> 0, n |-> 0, flag |-> flag]

(* What Append makes of a sequence.                                        *)
LEMMA Appended ==
    ASSUME NEW S, NEW s \in Seq(S), NEW h \in S
    PROVE  /\ Append(s, h) \in Seq(S) /\ Len(Append(s, h)) = Len(s) + 1
           /\ \A k \in 1..Len(s) : Append(s, h)[k] = s[k]
           /\ Append(s, h)[Len(s) + 1] = h
  OBVIOUS

(* The stack with a handler on kernel_entry.                               *)
LEMMA Pushed ==
    ASSUME NEW S, NEW s \in Seq(S), NEW h \in S, Len(s) = 1
    PROVE  /\ Append(s, h) \in Seq(S) /\ Len(Append(s, h)) = 2
           /\ Append(s, h)[1] = s[1] /\ Append(s, h)[2] = h
<1>1. /\ Append(s, h) \in Seq(S) /\ Len(Append(s, h)) = Len(s) + 1
      /\ \A k \in 1..Len(s) : Append(s, h)[k] = s[k]
      /\ Append(s, h)[Len(s) + 1] = h
  BY Appended, Zenon
<1>2. 1 \in 1..Len(s)
  OBVIOUS
<1>3. Append(s, h)[1] = s[1]
  BY <1>1, <1>2, Zenon
<1> QED
  BY <1>1, <1>3

(* With the GDT, the IDT and the vector's gate in place, the handler is    *)
(* entered with the position to return to.                                 *)
LEMMA Taken ==
    ASSUME StackInv, Len(ctx) = 1, NEW v \in Vectors, NEW ret \in 1..55, IF_ \in BOOLEAN,
           gdt = TRUE, idtr = TRUE, idt[v] # "none", Take(v, ret), Interrupts(Entered(v, IF_), ret)
    PROVE  /\ StackInv' /\ Len(ctx') = 2 /\ Place' = ret /\ ctx'[1].half = ctx[1].half
           /\ ctx'[2] = Entered(v, IF_)
           /\ IF_' = (IF_ /\ idt[v] = "trap") /\ halted' = FALSE /\ crashed' = crashed
<1> DEFINE h == Entered(v, IF_)
           m == [ctx[1] EXCEPT !.at = ret]
<1>1. /\ ctx' = Append([ctx EXCEPT ![1].at = ret], h)
      /\ IF_' = (IF_ /\ idt[v] = "trap") /\ halted' = FALSE /\ crashed' = crashed
  BY DEF Take, Entered
<1>2. h \in Frame
  <2>1. v \in {Main} \cup Vectors /\ 0 \in 0..CountBound
    BY DEF CountBound, TicksWanted
  <2> QED
    BY <2>1 DEF Entered, Frame
<1>3. m \in Frame /\ m.code = Main /\ m.at = ret /\ m.half = ctx[1].half
  <2>1. ctx[1] \in Frame /\ ctx[1].code = Main
    BY StackFacts
  <2>2. ctx[1].half \in 0..1
    BY <2>1 DEF Frame
  <2>3. m = [ctx[1] EXCEPT !.at = ret, !.half = ctx[1].half]
    BY <2>1 DEF Frame
  <2>4. m \in Frame
    BY <2>1, <2>2, <2>3, FrameWith, Zenon
  <2>5. m.code = Main /\ m.at = ret /\ m.half = ctx[1].half
    BY <2>1 DEF Frame
  <2> QED
    BY <2>4, <2>5
<1>4. ctx \in Seq(Frame) /\ ctx' = Append([ctx EXCEPT ![1] = m], h)
  BY <1>1 DEF StackInv
<1> HIDE DEF m, h
<1>5. ctx' \in Seq(Frame) /\ Len(ctx') = 2 /\ ctx'[1] = m /\ ctx'[2] = h
  <2> DEFINE s == [ctx EXCEPT ![1] = m]
  <2>1. s \in Seq(Frame) /\ Len(s) = 1 /\ s[1] = m
    BY <1>3, <1>4
  <2>2. ctx' = Append(s, h)
    BY <1>4
  <2> HIDE DEF s
  <2>3. /\ Append(s, h) \in Seq(Frame) /\ Len(Append(s, h)) = 2
        /\ Append(s, h)[1] = s[1] /\ Append(s, h)[2] = h
    BY <1>2, <2>1, Pushed
  <2> QED
    BY <2>1, <2>2, <2>3
<1>6. Place' = ret
  BY <1>3, <1>5 DEF Place
<1>7. StackInv'
  <2>1. Interrupts(ctx'[2], Place')
    BY <1>5, <1>6 DEF h
  <2> QED
    BY <1>3, <1>5, <2>1 DEF StackInv
<1> QED
  BY <1>1, <1>3, <1>5, <1>6, <1>7 DEF h

(* The frame of a handler that has just been entered.                      *)
LEMMA EnteredFields ==
    ASSUME NEW v, NEW flag
    PROVE  /\ Entered(v, flag).code = v /\ Entered(v, flag).at = 1 /\ Entered(v, flag).half = 0
           /\ Entered(v, flag).n = 0 /\ Entered(v, flag).flag = flag
  BY DEF Entered

(* int3.                                                                   *)
LEMMA Int3Step ==
    ASSUME MachineInv, Int3
    PROVE  /\ MachineInv' /\ Len(ctx) = 1 /\ Len(ctx') = 2 /\ Place = 13 /\ Place' = 14
           /\ ctx'[1].half = ctx[1].half /\ ctx'[2] = Entered(Breakpoint, FALSE)
<1> USE DEF MachineInv
<1>1. /\ Running /\ Instr.op = "int3" /\ Take(Breakpoint, Top.at + 1)
      /\ UNCHANGED <<tableVars, deviceVars, count>>
  BY DEF Int3, Executes
<1>2. Len(ctx) = 1 /\ Instr = kernel_entry[Place] /\ Place \in 1..55 /\ Top = ctx[1]
  BY <1>1, RunsMain
<1>3. Place = 13
  BY <1>1, <1>2, Places
<1>4. Top.at + 1 = 14 /\ 14 \in 1..55
  BY <1>2, <1>3 DEF Place
<1>5. IF_ = FALSE /\ IF_ \in BOOLEAN /\ crashed = FALSE
  BY <1>2, <1>3 DEF FlagInv, Waits
<1>6. gdt = TRUE /\ idtr = TRUE /\ idt[Breakpoint] = "trap"
  BY <1>3 DEF GateInv
<1> DEFINE h == Entered(Breakpoint, IF_)
<1>7. h.code = Breakpoint /\ h.at = 1 /\ h.flag = FALSE /\ h.n = 0
  BY <1>5, EnteredFields
<1> HIDE DEF h
<1>8. /\ StackInv' /\ Len(ctx') = 2 /\ Place' = 14 /\ ctx'[1].half = ctx[1].half
      /\ ctx'[2] = h /\ IF_' = (IF_ /\ idt[Breakpoint] = "trap")
      /\ halted' = FALSE /\ crashed' = crashed
  <2>1. Interrupts(h, 14)
    BY <1>7 DEF Interrupts
  <2>2. Take(Breakpoint, 14) /\ idt[Breakpoint] # "none" /\ Breakpoint \in Vectors
    BY <1>1, <1>4, <1>6, GateVectors
  <2> QED
    BY <1>2, <1>4, <1>5, <1>6, <2>1, <2>2, Taken DEF h
<1>9. FlagInv'
  <2>1. IF_' = FALSE /\ halted' = FALSE /\ crashed' = FALSE
    BY <1>5, <1>8
  <2> QED
    <3>1. Len(ctx') # 1
      BY <1>8
    <3> QED
      BY <2>1, <3>1 DEF FlagInv
<1>10. GateInv'
  <2>1. Passes({5, 9, 10, 20, 38, 49})
    BY <1>3, <1>8 DEF Passes
  <2> QED
    BY <1>1, <2>1, GateKept
<1>11. DeviceInv'
  <2>1. Passes({16, 30}) /\ (Place > 36 => Place' > 36)
    BY <1>3, <1>8 DEF Passes
  <2> QED
    BY <1>1, <1>2, <2>1, DeviceKept
<1>12. CountInv'
  BY <1>1, <1>7, <1>8 DEF CountInv
<1> QED
  BY <1>2, <1>3, <1>5, <1>8, <1>9, <1>10, <1>11, <1>12 DEF h

(* The instruction that faults.                                            *)
LEMMA ProbeStep ==
    ASSUME MachineInv, Probe
    PROVE  /\ MachineInv' /\ Len(ctx) = 1 /\ Len(ctx') = 2 /\ Place = 53 /\ Place' = 53
           /\ ctx'[1].half = ctx[1].half /\ ctx'[2] = Entered(PageFault, FALSE) /\ cr2' = "probe"
<1> USE DEF MachineInv
<1>1. /\ Running /\ Instr.op = "probe" /\ Take(PageFault, Top.at) /\ cr2' = "probe"
      /\ UNCHANGED <<gdt, idtr, idt, deviceVars, count>>
  BY DEF Probe, Executes
<1>2. Len(ctx) = 1 /\ Instr = kernel_entry[Place] /\ Place \in 1..55 /\ Top = ctx[1]
  BY <1>1, RunsMain
<1>3. Place = 53
  BY <1>1, <1>2, Places
<1>4. Top.at = 53 /\ 53 \in 1..55
  BY <1>2, <1>3 DEF Place
<1>5. IF_ = FALSE /\ IF_ \in BOOLEAN /\ crashed = FALSE
  BY <1>2, <1>3 DEF FlagInv, Waits
<1>6. gdt = TRUE /\ idtr = TRUE /\ idt[PageFault] = "trap"
  BY <1>3 DEF GateInv
<1> DEFINE h == Entered(PageFault, IF_)
<1>7. h.code = PageFault /\ h.at = 1 /\ h.flag = FALSE /\ h.n = 0
  BY <1>5, EnteredFields
<1> HIDE DEF h
<1>8. /\ StackInv' /\ Len(ctx') = 2 /\ Place' = 53 /\ ctx'[1].half = ctx[1].half
      /\ ctx'[2] = h /\ IF_' = (IF_ /\ idt[PageFault] = "trap")
      /\ halted' = FALSE /\ crashed' = crashed
  <2>1. Interrupts(h, 53)
    BY <1>7 DEF Interrupts
  <2>2. Take(PageFault, 53) /\ idt[PageFault] # "none" /\ PageFault \in Vectors
    BY <1>1, <1>4, <1>6, GateVectors
  <2> QED
    BY <1>2, <1>4, <1>5, <1>6, <2>1, <2>2, Taken DEF h
<1>9. FlagInv'
  <2>1. IF_' = FALSE /\ halted' = FALSE /\ crashed' = FALSE
    BY <1>5, <1>8
  <2> QED
    <3>1. Len(ctx') # 1
      BY <1>8
    <3> QED
      BY <2>1, <3>1 DEF FlagInv
<1>10. GateInv'
  BY <1>1, <1>3, <1>8 DEF GateInv
<1>11. DeviceInv'
  <2>1. Passes({16, 30}) /\ (Place > 36 => Place' > 36)
    BY <1>3, <1>8 DEF Passes
  <2> QED
    BY <1>1, <1>2, <2>1, DeviceKept
<1>12. CountInv'
  BY <1>1, <1>7, <1>8 DEF CountInv
<1> QED
  BY <1>1, <1>2, <1>3, <1>5, <1>8, <1>9, <1>10, <1>11, <1>12 DEF h

(* The PIC's interrupt comes while kernel_entry waits in the loop of       *)
(* Stage 3: before, interrupts are off; later the PIC is masked.           *)
LEMMA DeliverIrq0Step ==
    ASSUME MachineInv, DeliverIrq0
    PROVE  /\ MachineInv' /\ Len(ctx) = 1 /\ Len(ctx') = 2 /\ Place \in 25..27 /\ Place' = Place
           /\ ctx'[1].half = ctx[1].half /\ ctx'[2] = Entered(IRQ0, TRUE)
<1> USE DEF MachineInv
<1>1. /\ IF_ /\ ~pic.masked
      /\ pic' = [pic EXCEPT !.irr = FALSE, !.isr = TRUE]
      /\ Take(IF pic.remapped THEN IRQ0 ELSE DoubleFault, Top.at)
      /\ UNCHANGED <<tableVars, pit, apic, count>>
  BY DEF DeliverIrq0
<1>2. pic \in [remapped : BOOLEAN, masked : BOOLEAN, irr : BOOLEAN, isr : BOOLEAN]
  BY DEF DeviceInv
<1>3. Len(ctx) = 1 /\ Place \in Waits /\ IF_ = TRUE /\ IF_ \in BOOLEAN /\ crashed = FALSE
  BY <1>1 DEF FlagInv
<1>4. Place \in 25..27 /\ Place \in 1..55
  BY <1>1, <1>2, <1>3 DEF DeviceInv, Waits
<1>5. Top.at = Place /\ pic.remapped = TRUE
  BY <1>3, <1>4, StackFacts DEF Place, DeviceInv
<1>6. gdt = TRUE /\ idtr = TRUE /\ idt[IRQ0] = "interrupt"
  BY <1>4 DEF GateInv
<1> DEFINE h == Entered(IRQ0, IF_)
<1>7. h.code = IRQ0 /\ h.at = 1 /\ h.flag = TRUE /\ h.n = 0
  <2>1. h.code = IRQ0 /\ h.at = 1 /\ h.flag = IF_ /\ h.n = 0
    BY EnteredFields
  <2> QED
    BY <1>3, <2>1
<1> HIDE DEF h
<1>8. /\ StackInv' /\ Len(ctx') = 2 /\ Place' = Place /\ ctx'[1].half = ctx[1].half
      /\ ctx'[2] = h /\ IF_' = (IF_ /\ idt[IRQ0] = "trap")
      /\ halted' = FALSE /\ crashed' = crashed
  <2>1. Interrupts(h, Place)
    BY <1>4, <1>7 DEF Interrupts
  <2>2. Take(IRQ0, Place) /\ idt[IRQ0] # "none" /\ IRQ0 \in Vectors
    BY <1>1, <1>5, <1>6, GateVectors
  <2> QED
    BY <1>3, <1>4, <1>6, <2>1, <2>2, Taken DEF h
<1>9. FlagInv'
  <2>1. IF_' = FALSE /\ halted' = FALSE /\ crashed' = FALSE
    BY <1>3, <1>6, <1>8
  <2>2. Len(ctx') # 1
    BY <1>8
  <2> QED
    BY <2>1, <2>2 DEF FlagInv
<1>10. GateInv'
  <2>1. Passes({5, 9, 10, 20, 38, 49})
    BY <1>8 DEF Passes
  <2> QED
    BY <1>1, <2>1, GateKept
<1>11. DeviceInv'
  <2>1. /\ pic' \in [remapped : BOOLEAN, masked : BOOLEAN, irr : BOOLEAN, isr : BOOLEAN]
        /\ pic'.remapped = pic.remapped /\ pic'.masked = pic.masked
    BY <1>1, <1>2
  <2> QED
    BY <1>1, <1>3, <1>7, <1>8, <2>1 DEF DeviceInv
<1>12. CountInv'
  BY <1>1, <1>4, <1>7, <1>8 DEF CountInv
<1> QED
  BY <1>3, <1>4, <1>8, <1>9, <1>10, <1>11, <1>12 DEF h

(* The APIC's interrupt comes while kernel_entry waits in the loop of      *)
(* Stage 4.                                                                *)
LEMMA DeliverApicTimerStep ==
    ASSUME MachineInv, DeliverApicTimer
    PROVE  /\ MachineInv' /\ Len(ctx) = 1 /\ Len(ctx') = 2 /\ Place \in 43..45 /\ Place' = Place
           /\ ctx'[1].half = ctx[1].half /\ ctx'[2] = Entered(LapicTimer, TRUE)
<1> USE DEF MachineInv
<1>1. /\ IF_ /\ apic.irr
      /\ apic' = [apic EXCEPT !.irr = FALSE, !.isr = TRUE]
      /\ Take(LapicTimer, Top.at)
      /\ UNCHANGED <<tableVars, pic, pit, count>>
  BY DEF DeliverApicTimer
<1>2. apic \in APICs
  BY DEF DeviceInv, APICs
<1>3. Len(ctx) = 1 /\ Place \in Waits /\ IF_ = TRUE /\ IF_ \in BOOLEAN /\ crashed = FALSE
  BY <1>1 DEF FlagInv
<1>4. Place \in 43..45 /\ Place \in 1..55
  <2>1. apic.irr = TRUE
    BY <1>1, <1>2 DEF APICs
  <2> QED
    BY <1>3, <2>1 DEF DeviceInv, Waits
<1>5. Top.at = Place
  BY <1>3, StackFacts DEF Place
<1>6. gdt = TRUE /\ idtr = TRUE /\ idt[LapicTimer] = "interrupt"
  BY <1>4 DEF GateInv
<1> DEFINE h == Entered(LapicTimer, IF_)
<1>7. h.code = LapicTimer /\ h.at = 1 /\ h.flag = TRUE /\ h.n = 0
  <2>1. h.code = LapicTimer /\ h.at = 1 /\ h.flag = IF_ /\ h.n = 0
    BY EnteredFields
  <2> QED
    BY <1>3, <2>1
<1> HIDE DEF h
<1>8. /\ StackInv' /\ Len(ctx') = 2 /\ Place' = Place /\ ctx'[1].half = ctx[1].half
      /\ ctx'[2] = h /\ IF_' = (IF_ /\ idt[LapicTimer] = "trap")
      /\ halted' = FALSE /\ crashed' = crashed
  <2>1. Interrupts(h, Place)
    BY <1>4, <1>7 DEF Interrupts
  <2>2. Take(LapicTimer, Place) /\ idt[LapicTimer] # "none" /\ LapicTimer \in Vectors
    BY <1>1, <1>5, <1>6, GateVectors
  <2> QED
    BY <1>3, <1>4, <1>6, <2>1, <2>2, Taken DEF h
<1>9. FlagInv'
  <2>1. IF_' = FALSE /\ halted' = FALSE /\ crashed' = FALSE
    BY <1>3, <1>6, <1>8
  <2>2. Len(ctx') # 1
    BY <1>8
  <2> QED
    BY <2>1, <2>2 DEF FlagInv
<1>10. GateInv'
  <2>1. Passes({5, 9, 10, 20, 38, 49})
    BY <1>8 DEF Passes
  <2> QED
    BY <1>1, <2>1, GateKept
<1>11. DeviceInv'
  <2>1. apic' \in APICs /\ apic'.irr = FALSE /\ apic'.count = apic.count
    BY <1>1, <1>2 DEF APICs
  <2> QED
    BY <1>1, <1>3, <1>4, <1>7, <1>8, <2>1 DEF DeviceInv, APICs
<1>12. CountInv'
  BY <1>1, <1>4, <1>7, <1>8 DEF CountInv
<1> QED
  BY <1>3, <1>4, <1>8, <1>9, <1>10, <1>11, <1>12 DEF h

(* The timers tick.                                                        *)
LEMMA TimerStep ==
    ASSUME MachineInv, PitTick \/ ApicTick
    PROVE  MachineInv' /\ ctx' = ctx /\ Place' = Place /\ count' = count
<1> USE DEF MachineInv
<1>1. UNCHANGED <<ctx, IF_, halted, crashed, tableVars, count>>
  BY DEF PitTick, ApicTick, cpuVars
<1>2. Place' = Place
  BY <1>1 DEF Place
<1>3. StackInv'
  BY <1>1 DEF StackInv, Place
<1>4. FlagInv'
  BY <1>1, <1>2 DEF FlagInv
<1>5. GateInv'
  BY <1>1, <1>2 DEF GateInv, tableVars
<1>6. CountInv'
  BY <1>1, <1>2 DEF CountInv
<1>7. /\ pic \in [remapped : BOOLEAN, masked : BOOLEAN, irr : BOOLEAN, isr : BOOLEAN]
      /\ apic \in APICs
  BY DEF DeviceInv, APICs
<1>8. CASE PitTick
  <2>1. pic' = [pic EXCEPT !.irr = TRUE] /\ UNCHANGED <<pit, apic>>
    BY <1>8 DEF PitTick
  <2>2. /\ pic' \in [remapped : BOOLEAN, masked : BOOLEAN, irr : BOOLEAN, isr : BOOLEAN]
        /\ pic'.remapped = pic.remapped /\ pic'.masked = pic.masked /\ pic'.isr = pic.isr
    BY <1>7, <2>1
  <2>3. DeviceInv'
    BY <1>1, <1>2, <2>1, <2>2 DEF DeviceInv
  <2> QED
    BY <1>1, <1>2, <1>3, <1>4, <1>5, <1>6, <2>3
<1>9. CASE ApicTick
  <2>1. apic' = [apic EXCEPT !.irr = TRUE] /\ apic.count /\ UNCHANGED <<pit, pic>>
    BY <1>9 DEF ApicTick
  <2>2. apic' \in APICs /\ apic'.count = apic.count /\ apic'.isr = apic.isr /\ apic.count = TRUE
    BY <1>7, <2>1 DEF APICs
  <2>3. DeviceInv'
    BY <1>1, <1>2, <2>1, <2>2 DEF DeviceInv, APICs
  <2> QED
    BY <1>1, <1>2, <1>3, <1>4, <1>5, <1>6, <2>3
<1> QED
  BY <1>8, <1>9

(* Half a line of a handler's marker, of a tick, of the page fault's CR2.  *)
LEMMA HandlerMarkStep ==
    ASSUME MachineInv, WriteMark, Len(ctx) = 2
    PROVE  /\ WriteHalf(Instr.arg) /\ Writes(ctx[2]) /\ UNCHANGED <<crashed, tableVars, deviceVars, count>>
           /\ ctx[2].code \in {Breakpoint, PageFault} /\ ctx[2].at = 1
<1>1. StackInv /\ Instr.op = "mark" /\ WriteHalf(Instr.arg)
      /\ UNCHANGED <<crashed, tableVars, deviceVars, count>>
  BY DEF WriteMark, Executes, MachineInv
<1>2. ctx[2].code \in {Breakpoint, PageFault} /\ ctx[2].at = 1
  BY <1>1, HandlerOps
<1> QED
  BY <1>1, <1>2 DEF Writes

(* A timer handler writes the line of its tick.                            *)
LEMMA TickStep ==
    ASSUME MachineInv, WriteTick
    PROVE  /\ WriteHalf(TickLine[Instr.arg][Top.n]) /\ UNCHANGED <<crashed, tableVars, deviceVars, count>>
           /\ Len(ctx) = 2 /\ Writes(ctx[2]) /\ ctx[2].at = 3 /\ Top = ctx[2]
           /\ ctx[2].n <= TicksWanted
           /\ \/ ctx[2].code = IRQ0 /\ Instr.arg = "timer"
              \/ ctx[2].code = LapicTimer /\ Instr.arg = "lapic"
<1>1. StackInv /\ Instr.op = "tick" /\ WriteHalf(TickLine[Instr.arg][Top.n]) /\ Top.n <= TicksWanted
      /\ UNCHANGED <<crashed, tableVars, deviceVars, count>>
  BY DEF WriteTick, Executes, MachineInv
<1>2. Len(ctx) = 2 /\ Top = ctx[2]
  BY <1>1, RunsHandler
<1>3. /\ ctx[2].at = 3
      /\ \/ ctx[2].code = IRQ0 /\ Instr.arg = "timer"
         \/ ctx[2].code = LapicTimer /\ Instr.arg = "lapic"
  BY <1>1, <1>2, HandlerOps
<1> QED
  BY <1>1, <1>2, <1>3 DEF Writes

(* The page-fault handler writes what it found in CR2.                     *)
LEMMA Cr2Step ==
    ASSUME MachineInv, WriteCr2
    PROVE  /\ WriteHalf(IF cr2 = "probe" THEN "STAGE 5: cr2 ok" ELSE "STAGE 5: cr2 bad")
           /\ UNCHANGED <<crashed, tableVars, deviceVars, count>>
           /\ Len(ctx) = 2 /\ Writes(ctx[2]) /\ ctx[2].code = PageFault /\ ctx[2].at = 2
<1>1. /\ StackInv /\ Instr.op = "cr2"
      /\ WriteHalf(IF cr2 = "probe" THEN "STAGE 5: cr2 ok" ELSE "STAGE 5: cr2 bad")
      /\ UNCHANGED <<crashed, tableVars, deviceVars, count>>
  BY DEF WriteCr2, Executes, MachineInv
<1>2. Len(ctx) = 2
  BY <1>1, RunsHandler
<1>3. ctx[2].code = PageFault /\ ctx[2].at = 2
  BY <1>1, <1>2, HandlerOps
<1>4. 2 \in 1..2
  OBVIOUS
<1>5. Writes(ctx[2])
  BY <1>3, <1>4, Zenon DEF Writes
<1> QED
  BY <1>1, <1>2, <1>3, <1>5

(* The machine starts in kernel_entry, interrupts off and nothing          *)
(* installed, with whatever the firmware left in the PIC and the PIT.      *)
LEMMA MachineStarts == Init => MachineInv
<1> SUFFICES ASSUME Init PROVE MachineInv
  OBVIOUS
<1>1. ctx = << [code |-> Main, at |-> 1, half |-> 0, n |-> 0, flag |-> FALSE] >>
  BY DEF Init
<1> DEFINE f == [code |-> Main, at |-> 1, half |-> 0, n |-> 0, flag |-> FALSE]
<1>2. f \in Frame /\ f.code = Main /\ f.at = 1
  <2>1. Main \in {Main} \cup Vectors /\ 0 \in 0..CountBound
    BY DEF CountBound, TicksWanted
  <2> QED
    BY <2>1 DEF Frame
<1> HIDE DEF f
<1>3. ctx \in Seq(Frame) /\ Len(ctx) = 1 /\ ctx[1] = f
  <2>1. ctx = <<f>>
    BY <1>1 DEF f
  <2> QED
    BY <1>2, <2>1
<1>4. Place = 1 /\ StackInv
  BY <1>2, <1>3 DEF StackInv, Place
<1>5. FlagInv
  <2>1. IF_ = FALSE /\ halted = FALSE /\ crashed = FALSE
    BY DEF Init
  <2>2. 1 \notin Waits
    BY DEF Waits
  <2>3. Place \notin Waits
    BY <1>4, <2>2
  <2> QED
    BY <2>1, <2>3 DEF FlagInv
<1>6. GateInv
  <2>1. idt \in [Vectors -> {"none", "trap", "interrupt"}]
    BY DEF Init
  <2>2. gdt = FALSE /\ idtr = FALSE /\ cr2 = "none"
    BY DEF Init
  <2>3. ~ (1 > 5) /\ ~ (1 > 10) /\ ~ (1 > 9) /\ ~ (1 > 20) /\ ~ (1 > 38) /\ ~ (1 > 49)
    OBVIOUS
  <2>4. /\ ~ (Place > 5) /\ ~ (Place > 10) /\ ~ (Place > 9)
        /\ ~ (Place > 20) /\ ~ (Place > 38) /\ ~ (Place > 49)
    BY <1>4, <2>3
  <2> HIDE DEF f
  <2> QED
    BY <2>1, <2>2, <2>4 DEF GateInv
<1>7. DeviceInv
  <2>1. /\ pic \in [remapped : BOOLEAN, masked : BOOLEAN, irr : BOOLEAN, isr : BOOLEAN]
        /\ pic.isr = FALSE /\ pit \in BOOLEAN
    BY DEF Init
  <2>2. apic \in APICs /\ apic.isr = FALSE /\ apic.irr = FALSE /\ apic.count = FALSE
    BY DEF Init, APICs
  <2> QED
    BY <1>4, <2>1, <2>2 DEF DeviceInv, APICs
<1>8. CountInv
  <2>1. count \in [timer : 0..CountBound, lapic : 0..CountBound]
    BY DEF Init, CountBound, TicksWanted
  <2> QED
    BY <1>3, <1>4, <2>1 DEF CountInv
<1> QED
  BY <1>4, <1>5, <1>6, <1>7, <1>8 DEF MachineInv

(* Every step keeps what the position tells of the machine.                *)
LEMMA MachineStep == MachineInv /\ [Next]_vars => MachineInv'
<1> SUFFICES ASSUME MachineInv, [Next]_vars PROVE MachineInv'
  OBVIOUS
<1>1. Len(ctx) = 1 \/ Len(ctx) = 2
  BY StackFacts DEF MachineInv
<1>2. CASE WriteMark
  <2>1. CASE Len(ctx) = 1
    BY <1>2, <2>1, MainMarkStep
  <2>2. CASE Len(ctx) = 2
    BY <1>2, <2>2, HandlerMarkStep, HandlerWriteStep
  <2> QED
    BY <1>1, <2>1, <2>2
<1>3. CASE WriteTick
  BY <1>3, TickStep, HandlerWriteStep
<1>4. CASE WriteCr2
  BY <1>4, Cr2Step, HandlerWriteStep
<1>5. CASE SkipTick
  BY <1>5, SkipTickStep
<1>6. CASE LoadGdt
  BY <1>6, LoadGdtStep
<1>7. CASE idtClearAll
  BY <1>7, IdtClearAllStep
<1>8. CASE idtSetGate
  BY <1>8, IdtSetGateStep
<1>9. CASE idtLoad
  BY <1>9, IdtLoadStep
<1>10. CASE Cli
  BY <1>10, CliStep
<1>11. CASE Sti
  BY <1>11, StiStep
<1>12. CASE Int3
  BY <1>12, Int3Step
<1>13. CASE Probe
  BY <1>13, ProbeStep
<1>14. CASE SkipProbe
  BY <1>14, SkipProbeStep
<1>15. CASE Iretq
  BY <1>15, IretqStep
<1>16. CASE ZeroCount
  BY <1>16, ZeroCountStep
<1>17. CASE Count
  BY <1>17, CountStep
<1>18. CASE LoopTest
  BY <1>18, LoopTestStep
<1>19. CASE Hlt
  BY <1>19, HltStep
<1>20. CASE pic_remap_and_mask
  BY <1>20, Pic_remap_and_maskStep
<1>21. CASE pic_mask_all
  BY <1>21, Pic_mask_allStep
<1>22. CASE pit_set_frequency
  BY <1>22, Pit_set_frequencyStep
<1>23. CASE lapic_mmio_write
  BY <1>23, Lapic_mmio_writeStep
<1>24. CASE Eoi
  BY <1>24, EoiStep
<1>25. CASE PitTick \/ ApicTick
  BY <1>25, TimerStep
<1>26. CASE DeliverIrq0
  BY <1>26, DeliverIrq0Step
<1>27. CASE DeliverApicTimer
  BY <1>27, DeliverApicTimerStep
<1>28. CASE UNCHANGED vars
  <2>1. UNCHANGED <<ctx, IF_, halted, gdt, idtr, idt, cr2, pic, pit, apic, count, crashed>>
    BY <1>28 DEF vars, cpuVars, tableVars, deviceVars
  <2>2. StackInv' /\ FlagInv'
    BY <2>1 DEF MachineInv, StackInv, FlagInv, Place
  <2>3. GateInv' /\ CountInv'
    BY <2>1 DEF MachineInv, GateInv, CountInv, Place
  <2>4. DeviceInv'
    BY <2>1 DEF MachineInv, DeviceInv, Place
  <2> QED
    BY <2>2, <2>3, <2>4 DEF MachineInv
<1> QED
  BY <1>2, <1>3, <1>4, <1>5, <1>6, <1>7, <1>8, <1>9, <1>10, <1>11, <1>12, <1>13, <1>14, <1>15,
     <1>16, <1>17, <1>18, <1>19, <1>20, <1>21, <1>22, <1>23, <1>24, <1>25, <1>26, <1>27, <1>28
     DEF Next, Cpu, Deliver, Stopped

(* Where kernel_entry is tells, at every moment, which gates are in place, *)
(* whether interrupts are on and which controller may interrupt.           *)
THEOREM MachineSafe == Spec => []MachineInv
  BY MachineStarts, MachineStep, PTL DEF Spec

(* There is kernel_entry and at most one handler.                          *)
LEMMA DepthOfCtx ==
    ASSUME StackInv, NEW d \in DOMAIN ctx
    PROVE  ctx[d] \in Frame /\ (d = 1 \/ (d = 2 /\ Len(ctx) = 2))
<1>1. ctx \in Seq(Frame) /\ (Len(ctx) = 1 \/ Len(ctx) = 2) /\ DOMAIN ctx = 1..Len(ctx)
  BY DEF StackInv
<1>2. 1..1 = {1} /\ 1..2 = {1, 2}
  OBVIOUS
<1>3. ctx[d] \in Frame
  BY <1>1
<1>4. CASE Len(ctx) = 1
  BY <1>1, <1>2, <1>3, <1>4
<1>5. CASE Len(ctx) = 2
  BY <1>1, <1>2, <1>3, <1>5
<1> QED
  BY <1>1, <1>4, <1>5

(* Where kernel_entry waits for each counter.                              *)
LEMMA WhilesAt == Op("while", "timer") = kernel_entry[25] /\ Op("while", "lapic") = kernel_entry[43]
<1>1. kernel_entry[25] = Stage3Ops[11] /\ kernel_entry[43] = Stage4Ops[15]
  BY Stage3Starts, Stage4Starts
<1>2. Stage3Ops[11] = Op("while", "timer") /\ Stage4Ops[15] = Op("while", "lapic")
  BY DEF Stage3Ops, Stage4Ops
<1> QED
  BY <1>1, <1>2

(* Every variable has its type and every position lies in its code.        *)
THEOREM StagesTypes == Spec => []TypeOK
<1>1. MachineInv => TypeOK
  <2> SUFFICES ASSUME MachineInv PROVE TypeOK
    OBVIOUS
  <2>1. ASSUME NEW d \in DOMAIN ctx
        PROVE  /\ ctx[d].code \in {Main} \cup Vectors
               /\ ctx[d].at \in DOMAIN Code[ctx[d].code]
               /\ ctx[d].half \in 0..1
               /\ ctx[d].n \in 0..CountBound
               /\ ctx[d].flag \in BOOLEAN
    <3>1. ctx \in Seq(Frame) /\ StackInv
      BY DEF MachineInv, StackInv
    <3>2. ctx[d] \in Frame /\ (d = 1 \/ (d = 2 /\ Len(ctx) = 2))
      BY <3>1, StackFacts, DepthOfCtx
    <3>3. ctx[d].at \in DOMAIN Code[ctx[d].code]
      <4>1. CASE d = 1
        BY <3>1, <4>1, StackFacts, CodeIs, EntryLength DEF Place
      <4>2. CASE d = 2 /\ Len(ctx) = 2
        <5>1. Interrupts(ctx[2], Place)
          BY <3>1, <4>2 DEF StackInv
        <5>2. \/ ctx[2].code = Breakpoint /\ ctx[2].at \in 1..2
              \/ ctx[2].code \in {PageFault, IRQ0, LapicTimer} /\ ctx[2].at \in 1..4
          BY <5>1 DEF Interrupts
        <5>3. /\ DOMAIN Code[Breakpoint] = 1..2 /\ DOMAIN Code[PageFault] = 1..4
              /\ DOMAIN Code[IRQ0] = 1..4 /\ DOMAIN Code[LapicTimer] = 1..4
          BY BreakpointAt, PageFaultAt, IRQ0At, LapicTimerAt
        <5> QED
          BY <4>2, <5>2, <5>3
      <4> QED
        BY <3>2, <4>1, <4>2
    <3>4. /\ ctx[d].code \in {Main} \cup Vectors
          /\ ctx[d].half \in 0..1
          /\ ctx[d].n \in 0..CountBound
          /\ ctx[d].flag \in BOOLEAN
      BY <3>2 DEF Frame
    <3> QED
      BY <3>3, <3>4
  <2>2. {IF_, halted, gdt, idtr, pit, crashed} \subseteq BOOLEAN
    BY DEF MachineInv, FlagInv, GateInv, DeviceInv
  <2> QED
    BY <2>1, <2>2 DEF TypeOK, MachineInv, GateInv, DeviceInv, CountInv
<1> QED
  BY <1>1, MachineSafe, PTL

(* No interrupt or exception ever finds its gate, the IDT or the GDT       *)
(* missing, whatever the firmware's timers left pending.                   *)
THEOREM NeverTripleFaults == Spec => []NoTripleFault
<1>1. MachineInv => NoTripleFault
  BY DEF MachineInv, FlagInv, NoTripleFault
<1> QED
  BY <1>1, MachineSafe, PTL

(* Handlers never nest.                                                    *)
THEOREM NeverNests == Spec => []NoNesting
<1>1. MachineInv => NoNesting
  <2> SUFFICES ASSUME MachineInv PROVE Len(ctx) <= 2
    BY DEF NoNesting
  <2>1. Len(ctx) \in 1..2
    BY DEF MachineInv, StackInv
  <2>2. \A n \in 1..2 : n <= 2
    OBVIOUS
  <2> QED
    BY <2>1, <2>2
<1> QED
  BY <1>1, MachineSafe, PTL

(* A timer's handler runs only while kernel_entry waits for that timer.    *)
THEOREM TicksAwaited == Spec => []TicksOnlyAwaited
<1>1. MachineInv => TicksOnlyAwaited
  <2> SUFFICES ASSUME MachineInv, NEW d \in DOMAIN ctx
               PROVE  /\ ctx[d].code = IRQ0 => WaitingFor(ctx[1].at, "timer")
                      /\ ctx[d].code = LapicTimer => WaitingFor(ctx[1].at, "lapic")
    BY DEF TicksOnlyAwaited
  <2>1. StackInv
    BY DEF MachineInv
  <2>2. ctx[1].code = Main /\ (d = 1 \/ (d = 2 /\ Len(ctx) = 2))
    BY <2>1, StackFacts, DepthOfCtx
  <2>3. Op("while", "timer") = kernel_entry[25] /\ Op("while", "lapic") = kernel_entry[43]
    BY WhilesAt
  <2>4. ASSUME ctx[d].code = IRQ0 PROVE WaitingFor(ctx[1].at, "timer")
    <3>1. Place \in 25..27
      BY <2>1, <2>2, <2>4, HandlerPlace, GateVectors DEF Interrupts
    <3>2. 25 \in DOMAIN kernel_entry /\ ctx[1].at \in 25..25 + 2
      BY <3>1, EntryLength DEF Place
    <3> QED
      BY <2>3, <3>2 DEF WaitingFor
  <2>5. ASSUME ctx[d].code = LapicTimer PROVE WaitingFor(ctx[1].at, "lapic")
    <3>1. Place \in 43..45
      BY <2>1, <2>2, <2>5, HandlerPlace, GateVectors DEF Interrupts
    <3>2. 43 \in DOMAIN kernel_entry /\ ctx[1].at \in 43..43 + 2
      BY <3>1, EntryLength DEF Place
    <3> QED
      BY <2>3, <3>2 DEF WaitingFor
  <2> QED
    BY <2>4, <2>5
<1> QED
  BY <1>1, MachineSafe, PTL

(* Every interrupt in service has a handler that has yet to write its EOI. *)
THEOREM EoiForEveryInterrupt == Spec => []InServiceOnlyUntilEoi
<1>1. MachineInv => InServiceOnlyUntilEoi
  <2> SUFFICES ASSUME MachineInv PROVE InServiceOnlyUntilEoi
    OBVIOUS
  <2>1. Len(ctx) = 2 => 2 \in DOMAIN ctx
    BY StackFacts DEF MachineInv
  <2>2. /\ pic.isr \in BOOLEAN /\ apic.isr \in BOOLEAN
        /\ pic.isr = TRUE => Len(ctx) = 2 /\ ctx[2].code = IRQ0 /\ ctx[2].at = 1
        /\ apic.isr = TRUE => Len(ctx) = 2 /\ ctx[2].code = LapicTimer /\ ctx[2].at = 1
    BY DEF MachineInv, DeviceInv
  <2> QED
    BY <2>1, <2>2 DEF InServiceOnlyUntilEoi
<1> QED
  BY <1>1, MachineSafe, PTL

-----------------------------------------------------------------------------
(* The transcript: how much of it is on the line tells where the kernel is. *)

(* The lines written before each position of kernel_entry, those of its    *)
(* handlers included.                                                      *)
Before ==
    << 0, 1, 2, 3, 4, 4, 5, 5, 5, 5, 5, 6, 7, 8, 9, 10, 10, 11, 11, 12, 12, 12, 13, 13,
       13, 13, 13, 16, 17, 18, 18, 19, 20, 20, 21, 21, 21, 22, 22, 22, 23, 23, 23, 23, 23,
       26, 26, 27, 28, 28, 28, 29, 30, 32, 33 >>
Counts == [timer : 0..CountBound, lapic : 0..CountBound]
Ticks(c) == IF c > TicksWanted THEN TicksWanted ELSE c
LinesAt(p, c) ==
    Before[p] + (IF p \in 25..27 THEN Ticks(c.timer)
                 ELSE IF p \in 43..45 THEN Ticks(c.lapic) ELSE 0)

(* What a handler has yet to print of the lines counted for its return,    *)
(* and what the page-fault handler printed before it moved the return      *)
(* address.                                                                *)
Pending(h) ==
    IF \/ h.code = Breakpoint /\ h.at = 1
       \/ h.code \in {IRQ0, LapicTimer} /\ h.at = 3 /\ h.n <= TicksWanted
    THEN 1 ELSE 0
Printed(h) == IF h.code = PageFault /\ h.at \in 2..3 THEN h.at - 1 ELSE 0
LinesIn(h, p, c) == LinesAt(p, c) + Printed(h) - Pending(h)
LinesDone == IF Len(ctx) = 2 THEN LinesIn(ctx[2], Place, count) ELSE LinesAt(Place, count)

WriteSet == {Transcript!Whole[k] : k \in 1..66}
LogInv ==
    /\ log \in Seq(WriteSet)
    /\ LinesDone \in Nat
    /\ Len(log) = 2 * LinesDone + Top.half
    /\ ctx[1].half = 1 => Len(ctx) = 1 /\ Place \in Marks
    /\ Len(ctx) = 2 /\ ctx[2].half = 1 => Writes(ctx[2])
    /\ Place = 53 /\ Len(ctx) = 2 => cr2 = "probe"

(* The entries of Before.                                                  *)
LEMMA BeforeIs ==
    /\ Before[1] = 0 /\ Before[2] = 1 /\ Before[3] = 2 /\ Before[4] = 3 /\ Before[5] = 4
    /\ Before[6] = 4 /\ Before[7] = 5 /\ Before[8] = 5 /\ Before[9] = 5 /\ Before[10] = 5
    /\ Before[11] = 5 /\ Before[12] = 6 /\ Before[13] = 7 /\ Before[14] = 8 /\ Before[15] = 9
    /\ Before[16] = 10 /\ Before[17] = 10 /\ Before[18] = 11 /\ Before[19] = 11 /\ Before[20] = 12
    /\ Before[21] = 12 /\ Before[22] = 12 /\ Before[23] = 13 /\ Before[24] = 13 /\ Before[25] = 13
    /\ Before[26] = 13 /\ Before[27] = 13 /\ Before[28] = 16 /\ Before[29] = 17 /\ Before[30] = 18
    /\ Before[31] = 18 /\ Before[32] = 19 /\ Before[33] = 20 /\ Before[34] = 20 /\ Before[35] = 21
    /\ Before[36] = 21 /\ Before[37] = 21 /\ Before[38] = 22 /\ Before[39] = 22 /\ Before[40] = 22
    /\ Before[41] = 23 /\ Before[42] = 23 /\ Before[43] = 23 /\ Before[44] = 23 /\ Before[45] = 23
    /\ Before[46] = 26 /\ Before[47] = 26 /\ Before[48] = 27 /\ Before[49] = 28 /\ Before[50] = 28
    /\ Before[51] = 28 /\ Before[52] = 29 /\ Before[53] = 30 /\ Before[54] = 32 /\ Before[55] = 33
  BY DEF Before

(* The lines of the transcript.                                            *)
LEMMA LinesAre ==
    /\ Transcript!Lines[1] = "HELLO INIT"
    /\ Transcript!Lines[2] = "STAGE 1: build paging"
    /\ Transcript!Lines[3] = "STAGE 1: touch memory"
    /\ Transcript!Lines[4] = "STAGE 1: paging done"
    /\ Transcript!Lines[5] = "STAGE 2: begin"
    /\ Transcript!Lines[6] = "STAGE 2: install idt"
    /\ Transcript!Lines[7] = "STAGE 2: int3"
    /\ Transcript!Lines[8] = "STAGE 2: #BP dispatcher"
    /\ Transcript!Lines[9] = "STAGE 2: done"
    /\ Transcript!Lines[10] = "STAGE 3: begin"
    /\ Transcript!Lines[11] = "STAGE 3: pic ok"
    /\ Transcript!Lines[12] = "STAGE 3: pit ok"
    /\ Transcript!Lines[13] = "STAGE 3: sti"
    /\ Transcript!Lines[14] = "STAGE 3: irq 1"
    /\ Transcript!Lines[15] = "STAGE 3: irq 2"
    /\ Transcript!Lines[16] = "STAGE 3: irq 3"
    /\ Transcript!Lines[17] = "STAGE 3: done"
    /\ Transcript!Lines[18] = "STAGE 4: begin"
    /\ Transcript!Lines[19] = "STAGE 4: pic mask"
    /\ Transcript!Lines[20] = "STAGE 4: lapic mmio"
    /\ Transcript!Lines[21] = "STAGE 4: svr"
    /\ Transcript!Lines[22] = "STAGE 4: timer"
    /\ Transcript!Lines[23] = "STAGE 4: sti"
    /\ Transcript!Lines[24] = "STAGE 4: irq 1"
    /\ Transcript!Lines[25] = "STAGE 4: irq 2"
    /\ Transcript!Lines[26] = "STAGE 4: irq 3"
    /\ Transcript!Lines[27] = "STAGE 4: done"
    /\ Transcript!Lines[28] = "STAGE 5: begin"
    /\ Transcript!Lines[29] = "STAGE 5: pf gate"
    /\ Transcript!Lines[30] = "STAGE 5: probe"
    /\ Transcript!Lines[31] = "STAGE 5: #PF dispatch"
    /\ Transcript!Lines[32] = "STAGE 5: cr2 ok"
    /\ Transcript!Lines[33] = "STAGE 5: done"
  BY DEF Transcript!Lines

(* The transcript's writes are the two halves of each line in turn.        *)
LEMMA WholeIs ==
    /\ Len(Transcript!Whole) = 66
    /\ \A d \in 0..32, b \in 0..1 :
          /\ 2 * d + b + 1 \in 1..66
          /\ Transcript!Whole[2 * d + b + 1] = <<Transcript!Lines[d + 1], b>>
<1>1. Len(Transcript!Lines) = 33
  BY DEF Transcript!Lines
<1>2. Transcript!Whole = [n \in 1..66 |-> << Transcript!Lines[(n + 1) \div 2], (n + 1) % 2 >>]
  <2>1. 2 * 33 = 66
    OBVIOUS
  <2> QED
    BY <1>1, <2>1, Zenon DEF Transcript!Whole
<1>3. Len(Transcript!Whole) = 66
  BY <1>2
<1>4. ASSUME NEW d \in 0..32, NEW b \in 0..1
      PROVE  /\ 2 * d + b + 1 \in 1..66
             /\ (2 * d + b + 1 + 1) \div 2 = d + 1
             /\ (2 * d + b + 1 + 1) % 2 = b
  <2>1. b = 0 \/ b = 1
    OBVIOUS
  <2> QED
    BY <2>1
<1>5. ASSUME NEW d \in 0..32, NEW b \in 0..1
      PROVE  /\ 2 * d + b + 1 \in 1..66
             /\ Transcript!Whole[2 * d + b + 1] = <<Transcript!Lines[d + 1], b>>
  <2> DEFINE k == 2 * d + b + 1
  <2>1. k \in 1..66 /\ (k + 1) \div 2 = d + 1 /\ (k + 1) % 2 = b
    BY <1>4
  <2> HIDE DEF k
  <2>2. Transcript!Whole[k] = << Transcript!Lines[(k + 1) \div 2], (k + 1) % 2 >>
    BY <1>2, <2>1, Zenon
  <2>3. Transcript!Whole[k] = << Transcript!Lines[d + 1], b >>
    BY <2>1, <2>2, Zenon
  <2> QED
    BY <2>1, <2>3 DEF k
<1> QED
  BY <1>3, <1>5

(* How many lines are written at a position, given the counters.           *)
LEMMA LinesAtIs ==
    ASSUME NEW c \in Counts, NEW p \in 1..55
    PROVE  /\ p \in 25..27 => LinesAt(p, c) = 13 + Ticks(c.timer)
           /\ p \in 43..45 => LinesAt(p, c) = 23 + Ticks(c.lapic)
           /\ p \notin 25..27 /\ p \notin 43..45 => LinesAt(p, c) = Before[p]
           /\ LinesAt(p, c) \in Nat /\ Before[p] \in Nat
           /\ Ticks(c.timer) \in 0..3 /\ Ticks(c.lapic) \in 0..3
<1>1. Ticks(c.timer) \in 0..3 /\ Ticks(c.lapic) \in 0..3
  BY DEF Ticks, TicksWanted, CountBound, Counts
<1>2. Before[p] \in Nat
  BY DEF Before
<1>3. p \in 25..27 => Before[p] = 13 /\ p \notin 43..45
  <2> SUFFICES ASSUME p \in 25..27 PROVE Before[p] = 13 /\ p \notin 43..45
    OBVIOUS
  <2>1. p \in {25, 26, 27} /\ p \notin 43..45
    OBVIOUS
  <2> QED
    BY <2>1, BeforeIs
<1>4. p \in 43..45 => Before[p] = 23 /\ p \notin 25..27
  <2> SUFFICES ASSUME p \in 43..45 PROVE Before[p] = 23 /\ p \notin 25..27
    OBVIOUS
  <2>1. p \in {43, 44, 45} /\ p \notin 25..27
    OBVIOUS
  <2> QED
    BY <2>1, BeforeIs
<1> DEFINE t == Ticks(c.timer)
           l == Ticks(c.lapic)
           b == Before[p]
           A == p \in 25..27
           Z == p \in 43..45
<1>5. LinesAt(p, c) = b + (IF A THEN t ELSE IF Z THEN l ELSE 0)
  BY DEF LinesAt
<1>6. t \in 0..3 /\ l \in 0..3 /\ b \in Nat /\ (A => b = 13 /\ ~Z) /\ (Z => b = 23 /\ ~A)
  BY <1>1, <1>2, <1>3, <1>4
<1> HIDE DEF t, l, b, A, Z
<1>7. /\ A => LinesAt(p, c) = 13 + t
      /\ Z => LinesAt(p, c) = 23 + l
      /\ ~A /\ ~Z => LinesAt(p, c) = b
      /\ LinesAt(p, c) \in Nat
  BY <1>5, <1>6
<1> QED
  BY <1>1, <1>2, <1>7 DEF t, l, b, A, Z

(* What a handler and kernel_entry have printed together.                  *)
LEMMA LinesInIs ==
    ASSUME NEW h \in Frame, NEW p \in 1..55, NEW c \in Counts, Interrupts(h, p)
    PROVE  /\ h.code = Breakpoint /\ h.at = 1 => LinesIn(h, p, c) = 7
           /\ h.code = Breakpoint /\ h.at = 2 => LinesIn(h, p, c) = 8
           /\ h.code = PageFault /\ h.at = 1 => LinesIn(h, p, c) = 30
           /\ h.code = PageFault /\ h.at = 2 => LinesIn(h, p, c) = 31
           /\ h.code = PageFault /\ h.at \in 3..4 => LinesIn(h, p, c) = 32
           /\ h.code = IRQ0 => LinesIn(h, p, c) = 13 + Ticks(c.timer) - Pending(h)
           /\ h.code = LapicTimer => LinesIn(h, p, c) = 23 + Ticks(c.lapic) - Pending(h)
<1>1. /\ Before[14] = 8 /\ Before[53] = 30 /\ Before[54] = 32
      /\ LinesAt(14, c) = Before[14] /\ LinesAt(53, c) = Before[53] /\ LinesAt(54, c) = Before[54]
  BY BeforeIs, LinesAtIs
<1>2. LinesAt(14, c) = 8 /\ LinesAt(53, c) = 30 /\ LinesAt(54, c) = 32
  BY <1>1
<1>3. LinesIn(h, p, c) = LinesAt(p, c) + Printed(h) - Pending(h)
  BY DEF LinesIn
<1>4. CASE h.code = Breakpoint
  <2>1. p = 14 /\ h.at \in 1..2
    BY <1>4, GateVectors DEF Interrupts
  <2>2. Printed(h) = 0 /\ (h.at = 1 => Pending(h) = 1) /\ (h.at = 2 => Pending(h) = 0)
    BY <1>4, GateVectors DEF Printed, Pending
  <2>3. LinesIn(h, p, c) = 8 + 0 - Pending(h)
    BY <1>2, <1>3, <2>1, <2>2
  <2> QED
    BY <1>4, <2>2, <2>3, GateVectors
<1>5. CASE h.code = PageFault
  <2>1. (h.at \in 1..3 /\ p = 53) \/ (h.at = 4 /\ p = 54)
    BY <1>5, GateVectors DEF Interrupts
  <2>2. /\ Pending(h) = 0 /\ (h.at = 1 => Printed(h) = 0) /\ (h.at = 2 => Printed(h) = 1)
        /\ (h.at = 3 => Printed(h) = 2) /\ (h.at = 4 => Printed(h) = 0)
    BY <1>5, GateVectors DEF Printed, Pending
  <2>3. CASE h.at \in 1..3 /\ p = 53
    <3>1. LinesIn(h, p, c) = 30 + Printed(h) - 0
      BY <1>2, <1>3, <2>2, <2>3
    <3> QED
      BY <1>5, <2>2, <2>3, <3>1, GateVectors
  <2>4. CASE h.at = 4 /\ p = 54
    <3>1. LinesIn(h, p, c) = 32 + 0 - 0
      BY <1>2, <1>3, <2>2, <2>4
    <3> QED
      BY <1>5, <2>4, <3>1, GateVectors
  <2> QED
    BY <2>1, <2>3, <2>4
<1>6. CASE h.code = IRQ0
  <2>1. p \in 25..27 /\ Printed(h) = 0
    BY <1>6, GateVectors DEF Interrupts, Printed
  <2>2. LinesAt(p, c) = 13 + Ticks(c.timer) /\ Ticks(c.timer) \in 0..3
    BY <2>1, LinesAtIs
  <2>3. Pending(h) \in 0..1
    BY DEF Pending
  <2>4. LinesIn(h, p, c) = 13 + Ticks(c.timer) - Pending(h)
    BY <1>3, <2>1, <2>2, <2>3
  <2> QED
    BY <1>6, <2>4, GateVectors
<1>7. CASE h.code = LapicTimer
  <2>1. p \in 43..45 /\ Printed(h) = 0
    BY <1>7, GateVectors DEF Interrupts, Printed
  <2>2. LinesAt(p, c) = 23 + Ticks(c.lapic) /\ Ticks(c.lapic) \in 0..3
    BY <2>1, LinesAtIs
  <2>3. Pending(h) \in 0..1
    BY DEF Pending
  <2>4. LinesIn(h, p, c) = 23 + Ticks(c.lapic) - Pending(h)
    BY <1>3, <2>1, <2>2, <2>3
  <2> QED
    BY <1>7, <2>4, GateVectors
<1> QED
  BY <1>4, <1>5, <1>6, <1>7

(* Each marker line of kernel_entry is the next line of the transcript.    *)
LEMMA Stage1Lines ==
    ASSUME NEW p \in {1, 2, 3, 4}
    PROVE  /\ Before[p] \in 0..32 /\ Before[p + 1] = Before[p] + 1
           /\ kernel_entry[p].arg = Transcript!Lines[Before[p] + 1]
<1>1. /\ kernel_entry[1].arg = "HELLO INIT"
      /\ kernel_entry[2].arg = "STAGE 1: build paging"
      /\ kernel_entry[3].arg = "STAGE 1: touch memory"
      /\ kernel_entry[4].arg = "STAGE 1: paging done"
  BY Stage1At, ZenonT(60)
<1>2. /\ Transcript!Lines[1] = "HELLO INIT"
      /\ Transcript!Lines[2] = "STAGE 1: build paging"
      /\ Transcript!Lines[3] = "STAGE 1: touch memory"
      /\ Transcript!Lines[4] = "STAGE 1: paging done"
  BY LinesAre, ZenonT(60)
<1>3. /\ Before[1] = 0 /\ Before[2] = 1
      /\ Before[2] = 1 /\ Before[3] = 2
      /\ Before[3] = 2 /\ Before[4] = 3
      /\ Before[4] = 3 /\ Before[5] = 4
  BY BeforeIs
<1>4. /\ kernel_entry[1].arg = Transcript!Lines[1]
      /\ kernel_entry[2].arg = Transcript!Lines[2]
      /\ kernel_entry[3].arg = Transcript!Lines[3]
      /\ kernel_entry[4].arg = Transcript!Lines[4]
  BY <1>1, <1>2, ZenonT(60)
<1>5. CASE p = 1
  BY <1>3, <1>4, <1>5
<1>6. CASE p = 2
  BY <1>3, <1>4, <1>6
<1>7. CASE p = 3
  BY <1>3, <1>4, <1>7
<1>8. CASE p = 4
  BY <1>3, <1>4, <1>8
<1> QED
  BY <1>5, <1>6, <1>7, <1>8

(* The marker lines of Stage 2.                                            *)
LEMMA Stage2Lines ==
    ASSUME NEW p \in {6, 11, 12, 14}
    PROVE  /\ Before[p] \in 0..32 /\ Before[p + 1] = Before[p] + 1
           /\ kernel_entry[p].arg = Transcript!Lines[Before[p] + 1]
<1>1. /\ kernel_entry[6].arg = "STAGE 2: begin"
      /\ kernel_entry[11].arg = "STAGE 2: install idt"
      /\ kernel_entry[12].arg = "STAGE 2: int3"
      /\ kernel_entry[14].arg = "STAGE 2: done"
  BY Stage2At, ZenonT(60)
<1>2. /\ Transcript!Lines[5] = "STAGE 2: begin"
      /\ Transcript!Lines[6] = "STAGE 2: install idt"
      /\ Transcript!Lines[7] = "STAGE 2: int3"
      /\ Transcript!Lines[9] = "STAGE 2: done"
  BY LinesAre, ZenonT(60)
<1>3. /\ Before[6] = 4 /\ Before[7] = 5
      /\ Before[11] = 5 /\ Before[12] = 6
      /\ Before[12] = 6 /\ Before[13] = 7
      /\ Before[14] = 8 /\ Before[15] = 9
  BY BeforeIs
<1>4. /\ kernel_entry[6].arg = Transcript!Lines[5]
      /\ kernel_entry[11].arg = Transcript!Lines[6]
      /\ kernel_entry[12].arg = Transcript!Lines[7]
      /\ kernel_entry[14].arg = Transcript!Lines[9]
  BY <1>1, <1>2, ZenonT(60)
<1>5. CASE p = 6
  BY <1>3, <1>4, <1>5
<1>6. CASE p = 11
  BY <1>3, <1>4, <1>6
<1>7. CASE p = 12
  BY <1>3, <1>4, <1>7
<1>8. CASE p = 14
  BY <1>3, <1>4, <1>8
<1> QED
  BY <1>5, <1>6, <1>7, <1>8

(* The marker lines of Stage 3.                                            *)
LEMMA Stage3Lines ==
    ASSUME NEW p \in {15, 17, 19, 22, 28}
    PROVE  /\ Before[p] \in 0..32 /\ Before[p + 1] = Before[p] + 1
           /\ kernel_entry[p].arg = Transcript!Lines[Before[p] + 1]
<1>1. /\ kernel_entry[15].arg = "STAGE 3: begin"
      /\ kernel_entry[17].arg = "STAGE 3: pic ok"
      /\ kernel_entry[19].arg = "STAGE 3: pit ok"
      /\ kernel_entry[22].arg = "STAGE 3: sti"
      /\ kernel_entry[28].arg = "STAGE 3: done"
  BY Stage3At, ZenonT(60)
<1>2. /\ Transcript!Lines[10] = "STAGE 3: begin"
      /\ Transcript!Lines[11] = "STAGE 3: pic ok"
      /\ Transcript!Lines[12] = "STAGE 3: pit ok"
      /\ Transcript!Lines[13] = "STAGE 3: sti"
      /\ Transcript!Lines[17] = "STAGE 3: done"
  BY LinesAre, ZenonT(60)
<1>3. /\ Before[15] = 9 /\ Before[16] = 10
      /\ Before[17] = 10 /\ Before[18] = 11
      /\ Before[19] = 11 /\ Before[20] = 12
      /\ Before[22] = 12 /\ Before[23] = 13
      /\ Before[28] = 16 /\ Before[29] = 17
  BY BeforeIs
<1>4. /\ kernel_entry[15].arg = Transcript!Lines[10]
      /\ kernel_entry[17].arg = Transcript!Lines[11]
      /\ kernel_entry[19].arg = Transcript!Lines[12]
      /\ kernel_entry[22].arg = Transcript!Lines[13]
      /\ kernel_entry[28].arg = Transcript!Lines[17]
  BY <1>1, <1>2, ZenonT(60)
<1>5. CASE p = 15
  BY <1>3, <1>4, <1>5
<1>6. CASE p = 17
  BY <1>3, <1>4, <1>6
<1>7. CASE p = 19
  BY <1>3, <1>4, <1>7
<1>8. CASE p = 22
  BY <1>3, <1>4, <1>8
<1>9. CASE p = 28
  BY <1>3, <1>4, <1>9
<1> QED
  BY <1>5, <1>6, <1>7, <1>8, <1>9

(* The marker lines of Stage 4.                                            *)
LEMMA Stage4Lines ==
    ASSUME NEW p \in {29, 31, 32, 34, 37, 40, 47}
    PROVE  /\ Before[p] \in 0..32 /\ Before[p + 1] = Before[p] + 1
           /\ kernel_entry[p].arg = Transcript!Lines[Before[p] + 1]
<1>1. /\ kernel_entry[29].arg = "STAGE 4: begin"
      /\ kernel_entry[31].arg = "STAGE 4: pic mask"
      /\ kernel_entry[32].arg = "STAGE 4: lapic mmio"
      /\ kernel_entry[34].arg = "STAGE 4: svr"
      /\ kernel_entry[37].arg = "STAGE 4: timer"
      /\ kernel_entry[40].arg = "STAGE 4: sti"
      /\ kernel_entry[47].arg = "STAGE 4: done"
  BY Stage4At, ZenonT(60)
<1>2. /\ Transcript!Lines[18] = "STAGE 4: begin"
      /\ Transcript!Lines[19] = "STAGE 4: pic mask"
      /\ Transcript!Lines[20] = "STAGE 4: lapic mmio"
      /\ Transcript!Lines[21] = "STAGE 4: svr"
      /\ Transcript!Lines[22] = "STAGE 4: timer"
      /\ Transcript!Lines[23] = "STAGE 4: sti"
      /\ Transcript!Lines[27] = "STAGE 4: done"
  BY LinesAre, ZenonT(60)
<1>3. /\ Before[29] = 17 /\ Before[30] = 18
      /\ Before[31] = 18 /\ Before[32] = 19
      /\ Before[32] = 19 /\ Before[33] = 20
      /\ Before[34] = 20 /\ Before[35] = 21
      /\ Before[37] = 21 /\ Before[38] = 22
      /\ Before[40] = 22 /\ Before[41] = 23
      /\ Before[47] = 26 /\ Before[48] = 27
  BY BeforeIs
<1>4. /\ kernel_entry[29].arg = Transcript!Lines[18]
      /\ kernel_entry[31].arg = Transcript!Lines[19]
      /\ kernel_entry[32].arg = Transcript!Lines[20]
      /\ kernel_entry[34].arg = Transcript!Lines[21]
      /\ kernel_entry[37].arg = Transcript!Lines[22]
      /\ kernel_entry[40].arg = Transcript!Lines[23]
      /\ kernel_entry[47].arg = Transcript!Lines[27]
  BY <1>1, <1>2, ZenonT(60)
<1>5. CASE p = 29
  BY <1>3, <1>4, <1>5
<1>6. CASE p = 31
  BY <1>3, <1>4, <1>6
<1>7. CASE p = 32
  BY <1>3, <1>4, <1>7
<1>8. CASE p = 34
  BY <1>3, <1>4, <1>8
<1>9. CASE p = 37
  BY <1>3, <1>4, <1>9
<1>10. CASE p = 40
  BY <1>3, <1>4, <1>10
<1>11. CASE p = 47
  BY <1>3, <1>4, <1>11
<1> QED
  BY <1>5, <1>6, <1>7, <1>8, <1>9, <1>10, <1>11

(* The marker lines of Stage 5.                                            *)
LEMMA Stage5Lines ==
    ASSUME NEW p \in {48, 51, 52, 54}
    PROVE  /\ Before[p] \in 0..32 /\ Before[p + 1] = Before[p] + 1
           /\ kernel_entry[p].arg = Transcript!Lines[Before[p] + 1]
<1>1. /\ kernel_entry[48].arg = "STAGE 5: begin"
      /\ kernel_entry[51].arg = "STAGE 5: pf gate"
      /\ kernel_entry[52].arg = "STAGE 5: probe"
      /\ kernel_entry[54].arg = "STAGE 5: done"
  BY Stage5At, ZenonT(60)
<1>2. /\ Transcript!Lines[28] = "STAGE 5: begin"
      /\ Transcript!Lines[29] = "STAGE 5: pf gate"
      /\ Transcript!Lines[30] = "STAGE 5: probe"
      /\ Transcript!Lines[33] = "STAGE 5: done"
  BY LinesAre, ZenonT(60)
<1>3. /\ Before[48] = 27 /\ Before[49] = 28
      /\ Before[51] = 28 /\ Before[52] = 29
      /\ Before[52] = 29 /\ Before[53] = 30
      /\ Before[54] = 32 /\ Before[55] = 33
  BY BeforeIs
<1>4. /\ kernel_entry[48].arg = Transcript!Lines[28]
      /\ kernel_entry[51].arg = Transcript!Lines[29]
      /\ kernel_entry[52].arg = Transcript!Lines[30]
      /\ kernel_entry[54].arg = Transcript!Lines[33]
  BY <1>1, <1>2, ZenonT(60)
<1>5. CASE p = 48
  BY <1>3, <1>4, <1>5
<1>6. CASE p = 51
  BY <1>3, <1>4, <1>6
<1>7. CASE p = 52
  BY <1>3, <1>4, <1>7
<1>8. CASE p = 54
  BY <1>3, <1>4, <1>8
<1> QED
  BY <1>5, <1>6, <1>7, <1>8

(* At each marker of kernel_entry its line is the next one of the          *)
(* transcript.                                                             *)
LEMMA MarkLines ==
    ASSUME NEW p \in Marks
    PROVE  /\ Before[p] \in 0..32 /\ Before[p + 1] = Before[p] + 1
           /\ kernel_entry[p].arg = Transcript!Lines[Before[p] + 1]
<1>1. \/ p \in {1, 2, 3, 4} \/ p \in {6, 11, 12, 14} \/ p \in {15, 17, 19, 22, 28}
      \/ p \in {29, 31, 32, 34, 37, 40, 47} \/ p \in {48, 51, 52, 54}
  BY DEF Marks
<1>2. CASE p \in {1, 2, 3, 4}
  BY <1>2, Stage1Lines, Zenon
<1>3. CASE p \in {6, 11, 12, 14}
  BY <1>3, Stage2Lines, Zenon
<1>4. CASE p \in {15, 17, 19, 22, 28}
  BY <1>4, Stage3Lines, Zenon
<1>5. CASE p \in {29, 31, 32, 34, 37, 40, 47}
  BY <1>5, Stage4Lines, Zenon
<1>6. CASE p \in {48, 51, 52, 54}
  BY <1>6, Stage5Lines, Zenon
<1> QED
  BY <1>1, <1>2, <1>3, <1>4, <1>5, <1>6

(* The next write of the transcript.                                       *)
LEMMA OneWrite ==
    ASSUME log \in Seq(WriteSet), NEW d \in 0..32, NEW b \in 0..1, Len(log) = 2 * d + b,
           log' = Append(log, <<Transcript!Lines[d + 1], b>>)
    PROVE  Transcript!Write /\ log' \in Seq(WriteSet) /\ Len(log') = 2 * d + b + 1
<1> DEFINE w == Transcript!Whole[2 * d + b + 1]
<1>1. w = <<Transcript!Lines[d + 1], b>> /\ 2 * d + b + 1 \in 1..66 /\ Len(Transcript!Whole) = 66
  BY WholeIs, Zenon
<1>2. 2 * d + b < 66 /\ w \in WriteSet
  <2>1. 2 * d + b < 66
    OBVIOUS
  <2>2. w \in WriteSet
    BY <1>1, Zenon DEF WriteSet
  <2> QED
    BY <2>1, <2>2
<1>3. w = Transcript!Whole[Len(log) + 1]
  OBVIOUS
<1>4. log' = Append(log, w)
  BY <1>1
<1> HIDE DEF w
<1>5. log' \in Seq(WriteSet) /\ Len(log') = Len(log) + 1
  BY <1>2, <1>4
<1>6. Len(log) < Len(Transcript!Whole)
  BY <1>1, <1>2
<1>7. Transcript!Write
  BY <1>3, <1>4, <1>6 DEF Transcript!Write
<1> QED
  BY <1>5, <1>7

(* Steps of kernel_entry that print nothing.                               *)
LEMMA QuietKept ==
    ASSUME StackInv, LogInv, StackInv', Len(ctx) = 1, Len(ctx') = 1, log' = log,
           ctx'[1].half = 0, Place \notin Marks, LinesAt(Place', count') = LinesAt(Place, count)
    PROVE  LogInv'
<1>1. ctx[1].half = 0
  BY StackFacts DEF LogInv, Frame
<1>2. Top = ctx[1] /\ Top' = ctx'[1]
  BY DEF Top
<1>3. LinesDone = LinesAt(Place, count) /\ LinesDone' = LinesAt(Place', count')
  BY DEF LinesDone
<1> QED
  BY <1>1, <1>2, <1>3 DEF LogInv

(* The positions of kernel_entry that neither print nor wait, and not next *)
(* to a wait.                                                              *)
Silent == {5, 7, 8, 9, 10, 16, 18, 20, 21, 23, 30, 33, 35, 36, 38, 39, 41, 46, 49, 50}

(* No line is due between such a position and the next.                    *)
LEMMA SilentPlaces ==
    ASSUME NEW p \in Silent
    PROVE  /\ p \in 1..55 /\ p + 1 \in 1..55 /\ p \notin Marks
           /\ p \notin 25..27 /\ p \notin 43..45 /\ p + 1 \notin 25..27 /\ p + 1 \notin 43..45
           /\ Before[p + 1] = Before[p]
<1>1. CASE p \in {5, 7, 8, 9, 10}
  BY <1>1, BeforeIs DEF Marks
<1>2. CASE p \in {16, 18, 20, 21, 23}
  BY <1>2, BeforeIs DEF Marks
<1>3. CASE p \in {30, 33, 35, 36, 38}
  BY <1>3, BeforeIs DEF Marks
<1>4. CASE p \in {39, 41, 46, 49, 50}
  BY <1>4, BeforeIs DEF Marks
<1> QED
  BY <1>1, <1>2, <1>3, <1>4 DEF Silent

(* The step from such a position to the next.                              *)
LEMMA SilentKept ==
    ASSUME MachineInv, MachineInv', LogInv, Len(ctx) = 1, Len(ctx') = 1, log' = log,
           ctx'[1].half = 0, Place \in Silent, Place' = Place + 1
    PROVE  LogInv'
<1>1. StackInv /\ StackInv' /\ count \in Counts /\ count' \in Counts
  BY DEF MachineInv, CountInv, Counts
<1>2. /\ Place \in 1..55 /\ Place' \in 1..55 /\ Place \notin Marks /\ Before[Place'] = Before[Place]
      /\ Place \notin 25..27 /\ Place \notin 43..45 /\ Place' \notin 25..27 /\ Place' \notin 43..45
  BY SilentPlaces
<1>3. LinesAt(Place, count) = Before[Place]
  BY <1>1, <1>2, LinesAtIs
<1>4. ASSUME NEW c \in Counts, NEW p \in 1..55, p \notin 25..27, p \notin 43..45
      PROVE  LinesAt(p, c) = Before[p]
  BY <1>4, LinesAtIs
<1>5. LinesAt(Place', count') = Before[Place']
  BY <1>1, <1>2, <1>4
<1> QED
  BY <1>1, <1>2, <1>3, <1>5, QuietKept

(* sti in front of a loop, and cli behind it.                              *)
LEMMA EdgeKept ==
    ASSUME MachineInv, MachineInv', LogInv, Len(ctx) = 1, Len(ctx') = 1, log' = log,
           ctx'[1].half = 0, Place \in {24, 27, 42, 45}, Place' = Place + 1, count' = count
    PROVE  LogInv'
<1>1. StackInv /\ StackInv' /\ count \in Counts
  BY DEF MachineInv, CountInv, Counts
<1>2. /\ Place = 24 => count.timer = 0
      /\ Place = 27 => count.timer >= TicksWanted
      /\ Place = 42 => count.lapic = 0
      /\ Place = 45 => count.lapic >= TicksWanted
  BY DEF MachineInv, CountInv
<1>3. count.timer \in 0..4 /\ count.lapic \in 0..4
  BY <1>1 DEF Counts, CountBound, TicksWanted
<1>4. /\ Place = 24 => Ticks(count.timer) = 0
      /\ Place = 27 => Ticks(count.timer) = 3
      /\ Place = 42 => Ticks(count.lapic) = 0
      /\ Place = 45 => Ticks(count.lapic) = 3
  BY <1>2, <1>3 DEF Ticks, TicksWanted
<1>5. /\ LinesAt(24, count) = 13 /\ LinesAt(25, count) = 13 + Ticks(count.timer)
      /\ LinesAt(27, count) = 13 + Ticks(count.timer) /\ LinesAt(28, count) = 16
  <2>1. 25 \in 25..27 /\ 27 \in 25..27 /\ 24 \notin 25..27 /\ 24 \notin 43..45
        /\ 28 \notin 25..27 /\ 28 \notin 43..45 /\ {24, 25, 27, 28} \subseteq 1..55
    OBVIOUS
  <2>2. Before[24] = 13 /\ Before[28] = 16
    BY BeforeIs
  <2> QED
    BY <1>1, <2>1, <2>2, LinesAtIs
<1>6. /\ LinesAt(42, count) = 23 /\ LinesAt(43, count) = 23 + Ticks(count.lapic)
      /\ LinesAt(45, count) = 23 + Ticks(count.lapic) /\ LinesAt(46, count) = 26
  <2>1. 43 \in 43..45 /\ 45 \in 43..45 /\ 42 \notin 25..27 /\ 42 \notin 43..45
        /\ 46 \notin 25..27 /\ 46 \notin 43..45 /\ {42, 43, 45, 46} \subseteq 1..55
    OBVIOUS
  <2>2. Before[42] = 23 /\ Before[46] = 26
    BY BeforeIs
  <2> QED
    BY <1>1, <2>1, <2>2, LinesAtIs
<1>7. LinesAt(Place', count) = LinesAt(Place, count)
  <2>1. CASE Place = 24
    <3>1. Place' = 25
      BY <2>1
    <3> QED
      BY <1>4, <1>5, <2>1, <3>1
  <2>2. CASE Place = 27
    <3>1. Place' = 28
      BY <2>2
    <3> QED
      BY <1>4, <1>5, <2>2, <3>1
  <2>3. CASE Place = 42
    <3>1. Place' = 43
      BY <2>3
    <3> QED
      BY <1>4, <1>6, <2>3, <3>1
  <2>4. CASE Place = 45
    <3>1. Place' = 46
      BY <2>4
    <3> QED
      BY <1>4, <1>6, <2>4, <3>1
  <2> QED
    BY <2>1, <2>2, <2>3, <2>4
<1>8. Place \notin Marks
  BY DEF Marks
<1> QED
  BY <1>1, <1>7, <1>8, QuietKept

(* A step within a loop that waits.                                        *)
LEMMA LoopKept ==
    ASSUME MachineInv, MachineInv', LogInv, Len(ctx) = 1, Len(ctx') = 1, log' = log,
           ctx'[1].half = 0, count' = count,
           \/ Place \in 25..27 /\ Place' \in 25..27
           \/ Place \in 43..45 /\ Place' \in 43..45
    PROVE  LogInv'
<1>1. StackInv /\ StackInv' /\ count \in Counts
  BY DEF MachineInv, CountInv, Counts
<1>2. Place \notin Marks /\ Place \in 1..55 /\ Place' \in 1..55
  BY DEF Marks
<1>3. ASSUME NEW p \in 1..55
      PROVE  /\ p \in 25..27 => LinesAt(p, count) = 13 + Ticks(count.timer)
             /\ p \in 43..45 => LinesAt(p, count) = 23 + Ticks(count.lapic)
  BY <1>1, LinesAtIs
<1>4. LinesAt(Place', count) = LinesAt(Place, count)
  BY <1>2, <1>3
<1> QED
  BY <1>1, <1>2, <1>4, QuietKept

(* kernel_entry is interrupted.                                            *)
LEMMA EnterKept ==
    ASSUME StackInv, LogInv, Len(ctx) = 1, Len(ctx') = 2, log' = log, Place \notin Marks,
           ctx'[1].half = ctx[1].half, ctx'[2].half = 0, Place' = 53 => cr2' = "probe",
           LinesIn(ctx'[2], Place', count') = LinesAt(Place, count)
    PROVE  LogInv'
<1>1. ctx[1].half = 0
  BY StackFacts DEF LogInv, Frame
<1>2. Top = ctx[1] /\ Top' = ctx'[2]
  BY DEF Top
<1>3. LinesDone = LinesAt(Place, count) /\ LinesDone' = LinesIn(ctx'[2], Place', count')
  BY DEF LinesDone
<1> QED
  BY <1>1, <1>2, <1>3 DEF LogInv

(* A handler that prints nothing, and its return.                          *)
LEMMA HandlerKept ==
    ASSUME StackInv, LogInv, Len(ctx) = 2, Len(ctx') = 2, log' = log, ~Writes(ctx[2]),
           ctx'[1].half = ctx[1].half, ctx'[2].half = 0, Place' = 53 => Place = 53, cr2' = cr2,
           LinesIn(ctx'[2], Place', count') = LinesIn(ctx[2], Place, count)
    PROVE  LogInv'
<1>1. ctx[1].half = 0 /\ ctx[2].half = 0
  BY StackFacts DEF LogInv, Frame
<1>2. Top = ctx[2] /\ Top' = ctx'[2]
  BY DEF Top
<1>3. LinesDone = LinesIn(ctx[2], Place, count) /\ LinesDone' = LinesIn(ctx'[2], Place', count')
  BY DEF LinesDone
<1> QED
  BY <1>1, <1>2, <1>3 DEF LogInv

(* A handler that prints nothing returns.                                  *)
LEMMA ReturnKept ==
    ASSUME StackInv, LogInv, Len(ctx) = 2, Len(ctx') = 1, log' = log, ~Writes(ctx[2]),
           ctx'[1].half = ctx[1].half,
           LinesAt(Place', count') = LinesIn(ctx[2], Place, count)
    PROVE  LogInv'
<1>1. ctx[1].half = 0 /\ ctx[2].half = 0
  BY StackFacts DEF LogInv, Frame
<1>2. Top = ctx[2] /\ Top' = ctx'[1]
  BY DEF Top
<1>3. LinesDone = LinesIn(ctx[2], Place, count) /\ LinesDone' = LinesAt(Place', count')
  BY DEF LinesDone
<1> QED
  BY <1>1, <1>2, <1>3 DEF LogInv

(* The next write of the transcript, by kernel_entry and by a handler.     *)
LEMMA MainWrites ==
    ASSUME MachineInv, LogInv, WriteMark, Len(ctx) = 1
    PROVE  Transcript!Write /\ LogInv'
<1>1. /\ MachineInv' /\ Len(ctx') = 1 /\ Place \in Marks /\ Top = ctx[1] /\ Instr = kernel_entry[Place]
      /\ ctx[1].half = 0 => Place' = Place /\ ctx'[1].half = 1
      /\ ctx[1].half = 1 => Place' = Place + 1 /\ ctx'[1].half = 0
      /\ ctx[1].half \in 0..1
  BY MainMarkStep
<1>2. log' = Append(log, <<Instr.arg, Top.half>>) /\ count' = count
  BY DEF WriteMark, WriteHalf
<1>3. count \in Counts /\ Top' = ctx'[1]
  BY <1>1 DEF MachineInv, CountInv, Counts, Top
<1> DEFINE d == Before[Place]
           b == ctx[1].half
<1>4. d \in 0..32 /\ Before[Place + 1] = d + 1 /\ kernel_entry[Place].arg = Transcript!Lines[d + 1]
  BY <1>1, MarkLines
<1>5. /\ Place \in 1..55 /\ Place + 1 \in 1..55 /\ Place \notin 25..27 /\ Place \notin 43..45
      /\ Place + 1 \notin 25..27 /\ Place + 1 \notin 43..45
  BY <1>1 DEF Marks
<1>6. LinesAt(Place, count) = d /\ LinesAt(Place + 1, count) = d + 1
  <2>1. LinesAt(Place + 1, count) = Before[Place + 1]
    BY <1>3, <1>5, LinesAtIs
  <2> QED
    BY <1>3, <1>4, <1>5, <2>1, LinesAtIs
<1>7. LinesDone = LinesAt(Place, count) /\ LinesDone' = LinesAt(Place', count)
  BY <1>1, <1>2 DEF LinesDone
<1>8. Len(log) = 2 * d + b /\ log \in Seq(WriteSet)
  BY <1>1, <1>6, <1>7 DEF LogInv
<1>9. log' = Append(log, <<Transcript!Lines[d + 1], b>>)
  BY <1>1, <1>2, <1>4
<1> HIDE DEF d, b
<1>10. b \in 0..1
  BY <1>1 DEF b
<1>11. Transcript!Write /\ log' \in Seq(WriteSet) /\ Len(log') = 2 * d + b + 1
  BY <1>4, <1>8, <1>9, <1>10, OneWrite
<1>12. CASE b = 0
  <2>1. Place' = Place /\ ctx'[1].half = 1
    BY <1>1, <1>12 DEF b
  <2>2. LinesDone' = d
    BY <1>6, <1>7, <2>1
  <2> QED
    BY <1>1, <1>3, <1>4, <1>11, <1>12, <2>1, <2>2 DEF LogInv
<1>13. CASE b = 1
  <2>1. Place' = Place + 1 /\ ctx'[1].half = 0
    BY <1>1, <1>13 DEF b
  <2>2. LinesDone' = d + 1
    BY <1>6, <1>7, <2>1
  <2> QED
    BY <1>1, <1>3, <1>4, <1>11, <1>13, <2>1, <2>2 DEF LogInv
<1> QED
  BY <1>10, <1>12, <1>13

(* A handler writes the next write of the transcript.                      *)
LEMMA HandlerWrites ==
    ASSUME MachineInv, LogInv, Len(ctx) = 2, NEW line, WriteHalf(line), Writes(ctx[2]),
           UNCHANGED <<crashed, tableVars, deviceVars, count>>,
           NEW d \in 0..32, LinesIn(ctx[2], Place, count) = d, line = Transcript!Lines[d + 1]
    PROVE  Transcript!Write /\ LogInv'
<1> DEFINE h == ctx[2]
           g == ctx'[2]
           b == h.half
<1>1. /\ MachineInv' /\ Len(ctx') = 2 /\ Place' = Place /\ ctx'[1] = ctx[1]
      /\ b \in 0..1 /\ Top = h /\ g.code = h.code /\ g.n = h.n
      /\ b = 0 => g.at = h.at /\ g.half = 1
      /\ b = 1 => g.at = h.at + 1 /\ g.half = 0
  BY HandlerWriteStep
<1>2. log' = Append(log, <<line, b>>) /\ Top' = g /\ count' = count /\ cr2' = cr2
  BY <1>1 DEF WriteHalf, Top, tableVars
<1>3. /\ count \in Counts /\ h \in Frame /\ g \in Frame /\ Place \in 1..55
      /\ Interrupts(h, Place) /\ Interrupts(g, Place)
  <2>1. StackInv /\ StackInv' /\ count \in Counts
    BY <1>1 DEF MachineInv, CountInv, Counts
  <2>2. Interrupts(h, Place) /\ Interrupts(g, Place)
    BY <1>1, <2>1 DEF StackInv
  <2>3. g \in Frame
    BY <1>1, <2>1 DEF StackInv
  <2> QED
    BY <2>1, <2>2, <2>3, StackFacts
<1>4. LinesDone = d /\ LinesDone' = LinesIn(g, Place, count)
  BY <1>1, <1>2 DEF LinesDone
<1>5. Len(log) = 2 * d + b /\ log \in Seq(WriteSet)
  BY <1>1, <1>4 DEF LogInv
<1>6. ctx'[1].half = 0
  BY <1>1, StackFacts DEF LogInv, Frame, MachineInv
<1>7. Place = 53 => cr2 = "probe"
  BY DEF LogInv
<1>8. h.code = Breakpoint \/ h.code = PageFault \/ h.code = IRQ0 \/ h.code = LapicTimer
  BY DEF Writes
<1>9. /\ h.code = Breakpoint => h.at = 1
      /\ h.code = PageFault => h.at = 1 \/ h.at = 2
      /\ h.code = IRQ0 \/ h.code = LapicTimer => h.at = 3 /\ h.n <= TicksWanted
  BY GateVectors DEF Writes
<1> HIDE DEF h, g, b
<1>10. Transcript!Write /\ log' \in Seq(WriteSet) /\ Len(log') = 2 * d + b + 1
  BY <1>1, <1>2, <1>5, OneWrite
<1>13. /\ h.code = Breakpoint /\ h.at = 1 => LinesIn(h, Place, count) = 7
       /\ h.code = Breakpoint /\ h.at = 2 => LinesIn(h, Place, count) = 8
       /\ h.code = PageFault /\ h.at = 1 => LinesIn(h, Place, count) = 30
       /\ h.code = PageFault /\ h.at = 2 => LinesIn(h, Place, count) = 31
       /\ h.code = PageFault /\ h.at \in 3..4 => LinesIn(h, Place, count) = 32
       /\ h.code = IRQ0 => LinesIn(h, Place, count) = 13 + Ticks(count.timer) - Pending(h)
       /\ h.code = LapicTimer => LinesIn(h, Place, count) = 23 + Ticks(count.lapic) - Pending(h)
  BY <1>3, LinesInIs, Zenon
<1>14. /\ g.code = Breakpoint /\ g.at = 1 => LinesIn(g, Place, count) = 7
       /\ g.code = Breakpoint /\ g.at = 2 => LinesIn(g, Place, count) = 8
       /\ g.code = PageFault /\ g.at = 1 => LinesIn(g, Place, count) = 30
       /\ g.code = PageFault /\ g.at = 2 => LinesIn(g, Place, count) = 31
       /\ g.code = PageFault /\ g.at \in 3..4 => LinesIn(g, Place, count) = 32
       /\ g.code = IRQ0 => LinesIn(g, Place, count) = 13 + Ticks(count.timer) - Pending(g)
       /\ g.code = LapicTimer => LinesIn(g, Place, count) = 23 + Ticks(count.lapic) - Pending(g)
  BY <1>3, LinesInIs, Zenon
<1>15. g.code = h.code
  BY <1>1
<1>11. CASE b = 0
  <2>1. Printed(g) = Printed(h) /\ Pending(g) = Pending(h)
    BY <1>1, <1>11 DEF Printed, Pending
  <2>2. LinesIn(g, Place, count) = LinesIn(h, Place, count)
    BY <2>1 DEF LinesIn
  <2>3. LinesDone' = d /\ Writes(g)
    BY <1>1, <1>4, <1>11, <2>2 DEF Writes, h
  <2>4. Len(log') = 2 * d + 1
    BY <1>10, <1>11
  <2> QED
    BY <1>1, <1>2, <1>6, <1>7, <1>10, <1>11, <2>3, <2>4 DEF LogInv, g
<1>12. CASE b = 1
  <2>1. g.at = h.at + 1 /\ g.half = 0
    BY <1>1, <1>12
  <2>2. LinesIn(g, Place, count) = LinesIn(h, Place, count) + 1
    <3>1. CASE h.code = Breakpoint
      <4>1. g.at = 2
        BY <1>9, <2>1, <3>1
      <4>2. LinesIn(h, Place, count) = 7
        BY <1>9, <1>13, <3>1, Zenon
      <4>3. LinesIn(g, Place, count) = 8
        BY <1>14, <1>15, <3>1, <4>1, Zenon
      <4> QED
        BY <4>2, <4>3
    <3>2. CASE h.code = PageFault /\ h.at = 1
      <4>1. g.at = 2
        BY <2>1, <3>2
      <4>2. LinesIn(h, Place, count) = 30
        BY <1>13, <3>2, Zenon
      <4>3. LinesIn(g, Place, count) = 31
        BY <1>14, <1>15, <3>2, <4>1, Zenon
      <4> QED
        BY <4>2, <4>3
    <3>3. CASE h.code = PageFault /\ h.at = 2
      <4>1. g.at \in 3..4
        BY <2>1, <3>3
      <4>2. LinesIn(h, Place, count) = 31
        BY <1>13, <3>3, Zenon
      <4>3. LinesIn(g, Place, count) = 32
        BY <1>14, <1>15, <3>3, <4>1, Zenon
      <4> QED
        BY <4>2, <4>3
    <3>4. CASE h.code = IRQ0 \/ h.code = LapicTimer
      <4>1. h.at = 3 /\ h.n <= TicksWanted /\ g.at = 4
        BY <1>9, <2>1, <3>4
      <4>2. Pending(h) = 1 /\ Pending(g) = 0
        BY <1>1, <3>4, <4>1, GateVectors DEF Pending
      <4>3. Ticks(count.timer) \in 0..3 /\ Ticks(count.lapic) \in 0..3
        BY <1>3, LinesAtIs
      <4>4. /\ h.code = IRQ0 => /\ LinesIn(h, Place, count) = 13 + Ticks(count.timer) - 1
                                /\ LinesIn(g, Place, count) = 13 + Ticks(count.timer) - 0
            /\ h.code = LapicTimer => /\ LinesIn(h, Place, count) = 23 + Ticks(count.lapic) - 1
                                      /\ LinesIn(g, Place, count) = 23 + Ticks(count.lapic) - 0
        BY <1>13, <1>14, <1>15, <4>2, Zenon
      <4> QED
        BY <3>4, <4>3, <4>4
    <3> QED
      BY <1>8, <1>9, <3>1, <3>2, <3>3, <3>4
  <2>3. LinesDone' = d + 1
    BY <1>4, <2>2 DEF h
  <2>4. Len(log') = 2 * (d + 1) + 0
    BY <1>10, <1>12
  <2>5. Top'.half = 0 /\ ctx'[2].half = 0 /\ LinesDone' \in Nat
    BY <1>2, <2>1, <2>3 DEF g
  <2>6. Len(log') = 2 * LinesDone' + Top'.half
    BY <2>3, <2>4, <2>5
  <2> QED
    BY <1>1, <1>2, <1>6, <1>7, <1>10, <2>5, <2>6 DEF LogInv
<1> QED
  BY <1>1, <1>11, <1>12

(* A marker line of a handler.                                             *)
LEMMA HandlerMarks ==
    ASSUME MachineInv, LogInv, WriteMark, Len(ctx) = 2
    PROVE  Transcript!Write /\ LogInv'
<1>1. /\ WriteHalf(Instr.arg) /\ Writes(ctx[2]) /\ UNCHANGED <<crashed, tableVars, deviceVars, count>>
      /\ ctx[2].code \in {Breakpoint, PageFault} /\ ctx[2].at = 1
  BY HandlerMarkStep
<1>2. /\ count \in Counts /\ ctx[2] \in Frame /\ Place \in 1..55 /\ Interrupts(ctx[2], Place)
      /\ Instr = Code[ctx[2].code][ctx[2].at]
  <2>1. StackInv /\ count \in Counts
    BY DEF MachineInv, CountInv, Counts
  <2> QED
    BY <2>1, StackFacts DEF StackInv
<1>3. CASE ctx[2].code = Breakpoint
  <2>1. Instr.arg = "STAGE 2: #BP dispatcher"
    BY <1>1, <1>2, <1>3, BreakpointAt
  <2>2. 7 \in 0..32 /\ 7 + 1 = 8
    OBVIOUS
  <2>3. LinesIn(ctx[2], Place, count) = 7
    BY <1>1, <1>2, <1>3, LinesInIs
  <2>4. Transcript!Lines[7 + 1] = "STAGE 2: #BP dispatcher"
    BY <2>2, LinesAre
  <2> QED
    BY <1>1, <2>1, <2>2, <2>3, <2>4, HandlerWrites
<1>4. CASE ctx[2].code = PageFault
  <2>1. Instr.arg = "STAGE 5: #PF dispatch"
    BY <1>1, <1>2, <1>4, PageFaultAt
  <2>2. 30 \in 0..32 /\ 30 + 1 = 31
    OBVIOUS
  <2>3. LinesIn(ctx[2], Place, count) = 30
    BY <1>1, <1>2, <1>4, LinesInIs
  <2>4. Transcript!Lines[30 + 1] = "STAGE 5: #PF dispatch"
    BY <2>2, LinesAre
  <2> QED
    BY <1>1, <2>1, <2>2, <2>3, <2>4, HandlerWrites
<1> QED
  BY <1>1, <1>3, <1>4

(* The page-fault handler finds the probe's address in CR2.                *)
LEMMA Cr2Writes ==
    ASSUME MachineInv, LogInv, WriteCr2
    PROVE  Transcript!Write /\ LogInv'
<1>1. /\ WriteHalf(IF cr2 = "probe" THEN "STAGE 5: cr2 ok" ELSE "STAGE 5: cr2 bad")
      /\ UNCHANGED <<crashed, tableVars, deviceVars, count>>
      /\ Len(ctx) = 2 /\ Writes(ctx[2]) /\ ctx[2].code = PageFault /\ ctx[2].at = 2
  BY Cr2Step
<1>2. count \in Counts /\ ctx[2] \in Frame /\ Place \in 1..55 /\ Interrupts(ctx[2], Place)
  <2>1. StackInv /\ count \in Counts
    BY DEF MachineInv, CountInv, Counts
  <2> QED
    BY <1>1, <2>1, StackFacts DEF StackInv
<1>3. Place = 53
  <2>1. ctx[2].at = 2 /\ ctx[2].code = PageFault
    BY <1>1
  <2>2. ctx[2].at # 4
    BY <2>1
  <2> QED
    BY <1>2, <2>1, <2>2, GateVectors DEF Interrupts
<1>4. WriteHalf("STAGE 5: cr2 ok")
  BY <1>1, <1>3 DEF LogInv
<1>5. 31 \in 0..32 /\ 31 + 1 = 32
  OBVIOUS
<1>6. LinesIn(ctx[2], Place, count) = 31
  BY <1>1, <1>2, LinesInIs
<1>7. Transcript!Lines[31 + 1] = "STAGE 5: cr2 ok"
  BY <1>5, LinesAre
<1> QED
  BY <1>1, <1>4, <1>5, <1>6, <1>7, HandlerWrites

(* The n-th tick of Stage 3 and of Stage 4.                                *)
LEMMA TickLines ==
    ASSUME NEW n \in 1..3
    PROVE  /\ TickLine["timer"][n] = Transcript!Lines[13 + n]
           /\ TickLine["lapic"][n] = Transcript!Lines[23 + n]
<1>1. /\ TickLine["timer"][1] = "STAGE 3: irq 1" /\ TickLine["timer"][2] = "STAGE 3: irq 2"
      /\ TickLine["timer"][3] = "STAGE 3: irq 3"
      /\ TickLine["lapic"][1] = "STAGE 4: irq 1" /\ TickLine["lapic"][2] = "STAGE 4: irq 2"
      /\ TickLine["lapic"][3] = "STAGE 4: irq 3"
  BY DEF TickLine
<1>2. /\ Transcript!Lines[14] = "STAGE 3: irq 1" /\ Transcript!Lines[15] = "STAGE 3: irq 2"
      /\ Transcript!Lines[16] = "STAGE 3: irq 3"
      /\ Transcript!Lines[24] = "STAGE 4: irq 1" /\ Transcript!Lines[25] = "STAGE 4: irq 2"
      /\ Transcript!Lines[26] = "STAGE 4: irq 3"
  BY LinesAre
<1>3. CASE n = 1
  <2>1. 13 + n = 14 /\ 23 + n = 24
    BY <1>3
  <2> QED
    BY <1>1, <1>2, <1>3, <2>1, Zenon
<1>4. CASE n = 2
  <2>1. 13 + n = 15 /\ 23 + n = 25
    BY <1>4
  <2> QED
    BY <1>1, <1>2, <1>4, <2>1, Zenon
<1>5. CASE n = 3
  <2>1. 13 + n = 16 /\ 23 + n = 26
    BY <1>5
  <2> QED
    BY <1>1, <1>2, <1>5, <2>1, Zenon
<1> QED
  BY <1>3, <1>4, <1>5

(* A timer handler writes the line of its tick: the next of the transcript.*)
LEMMA TickWrites ==
    ASSUME MachineInv, LogInv, WriteTick
    PROVE  Transcript!Write /\ LogInv'
<1> DEFINE n == ctx[2].n
<1>1. /\ WriteHalf(TickLine[Instr.arg][n]) /\ UNCHANGED <<crashed, tableVars, deviceVars, count>>
      /\ Len(ctx) = 2 /\ Writes(ctx[2]) /\ ctx[2].at = 3 /\ n <= TicksWanted
      /\ \/ ctx[2].code = IRQ0 /\ Instr.arg = "timer"
         \/ ctx[2].code = LapicTimer /\ Instr.arg = "lapic"
  BY TickStep
<1>2. count \in Counts /\ ctx[2] \in Frame /\ Place \in 1..55 /\ Interrupts(ctx[2], Place)
  <2>1. StackInv /\ count \in Counts
    BY DEF MachineInv, CountInv, Counts
  <2> QED
    BY <1>1, <2>1, StackFacts DEF StackInv
<1>3. /\ ctx[2].code = IRQ0 => n = count.timer /\ n > 0
      /\ ctx[2].code = LapicTimer => n = count.lapic /\ n > 0
  BY <1>1 DEF MachineInv, CountInv
<1>4. n \in 1..3 /\ Ticks(n) = n
  <2>1. n \in 0..CountBound /\ n > 0 /\ n <= TicksWanted
    BY <1>1, <1>2, <1>3 DEF Frame
  <2> HIDE DEF n
  <2> QED
    BY <2>1 DEF CountBound, TicksWanted, Ticks
<1>5. Pending(ctx[2]) = 1
  BY <1>1 DEF Pending
<1>8. /\ ctx[2].code = IRQ0 => LinesIn(ctx[2], Place, count) = 13 + Ticks(count.timer) - Pending(ctx[2])
      /\ ctx[2].code = LapicTimer => LinesIn(ctx[2], Place, count) = 23 + Ticks(count.lapic) - Pending(ctx[2])
  BY <1>2, LinesInIs, Zenon
<1>9. /\ ctx[2].code = IRQ0 => LinesIn(ctx[2], Place, count) = 13 + n - 1
      /\ ctx[2].code = LapicTimer => LinesIn(ctx[2], Place, count) = 23 + n - 1
  BY <1>3, <1>4, <1>5, <1>8
<1>10. /\ ctx[2].code = IRQ0 => Instr.arg = "timer"
       /\ ctx[2].code = LapicTimer => Instr.arg = "lapic"
  BY <1>1, GateVectors
<1>6. CASE ctx[2].code = IRQ0
  <2>1. LinesIn(ctx[2], Place, count) = 13 + n - 1 /\ Instr.arg = "timer"
    BY <1>6, <1>9, <1>10
  <2>2. TickLine["timer"][n] = Transcript!Lines[13 + n]
    BY <1>4, TickLines
  <2>3. 13 + n - 1 \in 0..32 /\ (13 + n - 1) + 1 = 13 + n
    BY <1>4
  <2>4. Transcript!Lines[(13 + n - 1) + 1] = TickLine["timer"][n]
    BY <2>2, <2>3
  <2> QED
    BY <1>1, <2>1, <2>3, <2>4, HandlerWrites
<1>7. CASE ctx[2].code = LapicTimer
  <2>1. LinesIn(ctx[2], Place, count) = 23 + n - 1 /\ Instr.arg = "lapic"
    BY <1>7, <1>9, <1>10
  <2>2. TickLine["lapic"][n] = Transcript!Lines[23 + n]
    BY <1>4, TickLines
  <2>3. 23 + n - 1 \in 0..32 /\ (23 + n - 1) + 1 = 23 + n
    BY <1>4
  <2>4. Transcript!Lines[(23 + n - 1) + 1] = TickLine["lapic"][n]
    BY <2>2, <2>3
  <2> QED
    BY <1>1, <2>1, <2>3, <2>4, HandlerWrites
<1> QED
  BY <1>1, <1>6, <1>7

(* Nothing is written at the start.                                        *)
LEMMA LogStarts == Init => LogInv /\ Transcript!Init
<1> SUFFICES ASSUME Init PROVE LogInv /\ Transcript!Init
  OBVIOUS
<1>1. MachineInv /\ log = << >>
  BY MachineStarts DEF Init
<1>2. Len(ctx) = 1 /\ ctx[1] = [code |-> Main, at |-> 1, half |-> 0, n |-> 0, flag |-> FALSE]
  BY DEF Init
<1>3. Place = 1 /\ ctx[1].half = 0
  BY <1>2 DEF Place
<1>4. LinesAt(1, count) = 0
  <2>1. count \in Counts
    BY <1>1 DEF MachineInv, CountInv, Counts
  <2>2. 1 \in 1..55 /\ 1 \notin 25..27 /\ 1 \notin 43..45
    OBVIOUS
  <2>3. Before[1] = 0
    BY BeforeIs
  <2> QED
    BY <2>1, <2>2, <2>3, LinesAtIs
<1>5. LinesDone = 0 /\ Top.half = 0
  BY <1>2, <1>3, <1>4 DEF LinesDone, Top
<1>6. log \in Seq(WriteSet) /\ Len(log) = 0
  BY <1>1
<1>7. LogInv
  BY <1>2, <1>3, <1>5, <1>6 DEF LogInv
<1> QED
  BY <1>1, <1>7 DEF Transcript!Init

(* The straight steps of kernel_entry.                                     *)
LEMMA StraightPrints ==
    ASSUME MachineInv, LogInv,
           \/ LoadGdt \/ idtClearAll \/ idtSetGate \/ idtLoad \/ Cli \/ Sti \/ ZeroCount
           \/ pic_remap_and_mask \/ pic_mask_all \/ pit_set_frequency \/ lapic_mmio_write
    PROVE  LogInv' /\ log' = log
<1>1. CASE LoadGdt \/ idtClearAll \/ idtSetGate \/ idtLoad
  <2>1. log' = log
    BY <1>1 DEF LoadGdt, idtClearAll, idtSetGate, idtLoad
  <2>2. /\ MachineInv' /\ Len(ctx) = 1 /\ Len(ctx') = 1 /\ Place' = Place + 1 /\ ctx'[1].half = 0
        /\ Place \in {5, 8, 9, 20, 38, 49, 10, 21, 39, 50}
    BY <1>1, LoadGdtStep, IdtClearAllStep, IdtSetGateStep, IdtLoadStep
  <2>3. Place \in Silent
    BY <2>2 DEF Silent
  <2> QED
    BY <2>1, <2>2, <2>3, SilentKept
<1>2. CASE Cli
  <2>1. log' = log /\ count' = count
    BY <1>2 DEF Cli
  <2>2. /\ MachineInv' /\ Len(ctx) = 1 /\ Len(ctx') = 1 /\ Place' = Place + 1 /\ ctx'[1].half = 0
        /\ Place \in {7, 27, 45}
    BY <1>2, CliStep
  <2>3. Place \in Silent \/ Place \in {24, 27, 42, 45}
    BY <2>2 DEF Silent
  <2> QED
    BY <2>1, <2>2, <2>3, SilentKept, EdgeKept
<1>3. CASE Sti
  <2>1. log' = log /\ count' = count
    BY <1>3 DEF Sti
  <2>2. /\ MachineInv' /\ Len(ctx) = 1 /\ Len(ctx') = 1 /\ Place' = Place + 1 /\ ctx'[1].half = 0
        /\ Place \in {24, 42}
    BY <1>3, StiStep
  <2> QED
    BY <2>1, <2>2, EdgeKept
<1>4. CASE ZeroCount
  <2>1. log' = log
    BY <1>4 DEF ZeroCount
  <2>2. /\ MachineInv' /\ Len(ctx) = 1 /\ Len(ctx') = 1 /\ Place' = Place + 1 /\ ctx'[1].half = 0
        /\ Place \in {23, 41}
    BY <1>4, ZeroCountStep
  <2>3. Place \in Silent
    BY <2>2 DEF Silent
  <2> QED
    BY <2>1, <2>2, <2>3, SilentKept
<1>5. CASE pic_remap_and_mask \/ pic_mask_all \/ pit_set_frequency \/ lapic_mmio_write
  <2>1. log' = log
    BY <1>5 DEF pic_remap_and_mask, pic_mask_all, pit_set_frequency, lapic_mmio_write
  <2>2. /\ MachineInv' /\ Len(ctx) = 1 /\ Len(ctx') = 1 /\ Place' = Place + 1 /\ ctx'[1].half = 0
        /\ Place \in {16, 30, 18, 33, 35, 36, 46}
    BY <1>5, Pic_remap_and_maskStep, Pic_mask_allStep, Pit_set_frequencyStep, Lapic_mmio_writeStep
  <2>3. Place \in Silent
    BY <2>2 DEF Silent
  <2> QED
    BY <2>1, <2>2, <2>3, SilentKept
<1> QED
  BY <1>1, <1>2, <1>3, <1>4, <1>5

(* The loops.                                                              *)
LEMMA LoopPrints ==
    ASSUME MachineInv, LogInv, LoopTest \/ Hlt
    PROVE  LogInv' /\ log' = log
<1>1. log' = log /\ count' = count
  BY DEF LoopTest, Hlt
<1>2. /\ MachineInv' /\ Len(ctx) = 1 /\ Len(ctx') = 1 /\ ctx'[1].half = 0
      /\ \/ Place \in {25, 43} /\ Place' \in {Place + 1, Place + 2}
         \/ Place \in {26, 44} /\ Place' = Place - 1
  BY LoopTestStep, HltStep
<1>3. \/ Place \in 25..27 /\ Place' \in 25..27
      \/ Place \in 43..45 /\ Place' \in 43..45
  BY <1>2
<1> QED
  BY <1>1, <1>2, <1>3, LoopKept

(* Interrupts and exceptions.                                              *)
LEMMA EnteredKept ==
    ASSUME MachineInv, LogInv, MachineInv', log' = log, count' = count,
           Len(ctx) = 1, Len(ctx') = 2, ctx'[1].half = ctx[1].half,
           NEW v \in {Breakpoint, PageFault, IRQ0, LapicTimer}, NEW flag \in BOOLEAN,
           ctx'[2] = Entered(v, flag), Place \notin Marks, Place' = 53 => cr2' = "probe",
           v = Breakpoint => LinesAt(Place, count) = 7,
           v = PageFault => LinesAt(Place, count) = 30,
           v = IRQ0 => LinesAt(Place, count) = 13 + Ticks(count.timer),
           v = LapicTimer => LinesAt(Place, count) = 23 + Ticks(count.lapic)
    PROVE  LogInv'
<1> DEFINE h == ctx'[2]
<1>1. h.code = v /\ h.at = 1 /\ h.half = 0
  BY EnteredFields
<1>2. StackInv /\ StackInv' /\ count \in Counts
  BY DEF MachineInv, CountInv, Counts
<1>3. h \in Frame /\ Place' \in 1..55 /\ Interrupts(h, Place')
  <2>1. ctx' \in Seq(Frame) /\ Len(ctx') = 2 /\ Interrupts(ctx'[2], Place')
    BY <1>2 DEF StackInv
  <2>2. ctx'[1] \in Frame /\ ctx'[2] \in Frame
    BY <2>1
  <2>3. ctx'[1].code = Main
    BY <1>2 DEF StackInv
  <2>4. Place' \in 1..55
    BY <2>2, <2>3 DEF Place, Frame
  <2> QED
    BY <2>1, <2>2, <2>4
<1>4. LinesIn(ctx'[2], Place', count') = LinesIn(h, Place', count) /\ ctx'[2].half = 0
  BY <1>1
<1> HIDE DEF h
<1>5. v \in {IRQ0, LapicTimer} => Pending(h) = 0
  <2>1. h.at # 3 /\ (v \in {IRQ0, LapicTimer} => h.code # Breakpoint)
    BY <1>1, GateVectors
  <2> QED
    BY <1>1, <2>1 DEF Pending
<1>6. Ticks(count.timer) \in 0..3 /\ Ticks(count.lapic) \in 0..3
  BY <1>2, <1>3, LinesAtIs
<1>7. /\ v = Breakpoint => LinesIn(h, Place', count) = 7
      /\ v = PageFault => LinesIn(h, Place', count) = 30
      /\ v = IRQ0 => LinesIn(h, Place', count) = 13 + Ticks(count.timer) - Pending(h)
      /\ v = LapicTimer => LinesIn(h, Place', count) = 23 + Ticks(count.lapic) - Pending(h)
  BY <1>1, <1>2, <1>3, LinesInIs
<1>8. LinesIn(h, Place', count) = LinesAt(Place, count)
  <2>1. CASE v = Breakpoint
    BY <1>7, <2>1
  <2>2. CASE v = PageFault
    BY <1>7, <2>2
  <2>3. CASE v = IRQ0
    BY <1>5, <1>6, <1>7, <2>3
  <2>4. CASE v = LapicTimer
    BY <1>5, <1>6, <1>7, <2>4
  <2> QED
    BY <2>1, <2>2, <2>3, <2>4
<1> QED
  BY <1>2, <1>4, <1>8, EnterKept

(* Entering a handler prints nothing and loses no line.                    *)
LEMMA EnterPrints ==
    ASSUME MachineInv, LogInv, Int3 \/ Probe \/ DeliverIrq0 \/ DeliverApicTimer
    PROVE  LogInv' /\ log' = log
<1>1. log' = log /\ count' = count
  BY DEF Int3, Probe, DeliverIrq0, DeliverApicTimer
<1>2. count \in Counts
  BY DEF MachineInv, CountInv, Counts
<1>3. /\ Breakpoint # PageFault /\ Breakpoint # IRQ0 /\ Breakpoint # LapicTimer
      /\ PageFault # IRQ0 /\ PageFault # LapicTimer /\ IRQ0 # LapicTimer
  BY GateVectors
<1>4. CASE Int3
  <2>1. /\ MachineInv' /\ Len(ctx) = 1 /\ Len(ctx') = 2 /\ Place = 13 /\ Place' = 14
        /\ ctx'[1].half = ctx[1].half /\ ctx'[2] = Entered(Breakpoint, FALSE)
    BY <1>4, Int3Step
  <2>2. LinesAt(13, count) = 7
    <3>1. 13 \in 1..55 /\ 13 \notin 25..27 /\ 13 \notin 43..45 /\ Before[13] = 7
      BY BeforeIs
    <3> QED
      BY <1>2, <3>1, LinesAtIs
  <2>3. Place \notin Marks /\ Place' # 53 /\ LinesAt(Place, count) = 7
    BY <2>1, <2>2 DEF Marks
  <2>4. Breakpoint \in {Breakpoint, PageFault, IRQ0, LapicTimer} /\ FALSE \in BOOLEAN
    OBVIOUS
  <2> QED
    BY <1>1, <1>3, <2>1, <2>3, <2>4, EnteredKept
<1>5. CASE Probe
  <2>1. /\ MachineInv' /\ Len(ctx) = 1 /\ Len(ctx') = 2 /\ Place = 53 /\ cr2' = "probe"
        /\ ctx'[1].half = ctx[1].half /\ ctx'[2] = Entered(PageFault, FALSE)
    BY <1>5, ProbeStep
  <2>2. LinesAt(53, count) = 30
    <3>1. 53 \in 1..55 /\ 53 \notin 25..27 /\ 53 \notin 43..45 /\ Before[53] = 30
      BY BeforeIs
    <3> QED
      BY <1>2, <3>1, LinesAtIs
  <2>3. Place \notin Marks /\ LinesAt(Place, count) = 30
    BY <2>1, <2>2 DEF Marks
  <2>4. PageFault \in {Breakpoint, PageFault, IRQ0, LapicTimer} /\ FALSE \in BOOLEAN
    OBVIOUS
  <2> QED
    BY <1>1, <1>3, <2>1, <2>3, <2>4, EnteredKept
<1>6. CASE DeliverIrq0
  <2>1. /\ MachineInv' /\ Len(ctx) = 1 /\ Len(ctx') = 2 /\ Place \in 25..27 /\ Place' = Place
        /\ ctx'[1].half = ctx[1].half /\ ctx'[2] = Entered(IRQ0, TRUE)
    BY <1>6, DeliverIrq0Step
  <2>2. Place \notin Marks /\ Place' # 53 /\ Place \in 1..55
    BY <2>1 DEF Marks
  <2>3. LinesAt(Place, count) = 13 + Ticks(count.timer)
    BY <1>2, <2>1, <2>2, LinesAtIs
  <2>4. IRQ0 \in {Breakpoint, PageFault, IRQ0, LapicTimer} /\ TRUE \in BOOLEAN
    OBVIOUS
  <2> QED
    BY <1>1, <1>3, <2>1, <2>2, <2>3, <2>4, EnteredKept
<1>7. CASE DeliverApicTimer
  <2>1. /\ MachineInv' /\ Len(ctx) = 1 /\ Len(ctx') = 2 /\ Place \in 43..45 /\ Place' = Place
        /\ ctx'[1].half = ctx[1].half /\ ctx'[2] = Entered(LapicTimer, TRUE)
    BY <1>7, DeliverApicTimerStep
  <2>2. Place \notin Marks /\ Place' # 53 /\ Place \in 1..55
    BY <2>1 DEF Marks
  <2>3. LinesAt(Place, count) = 23 + Ticks(count.lapic)
    BY <1>2, <2>1, <2>2, LinesAtIs
  <2>4. LapicTimer \in {Breakpoint, PageFault, IRQ0, LapicTimer} /\ TRUE \in BOOLEAN
    OBVIOUS
  <2> QED
    BY <1>1, <1>3, <2>1, <2>2, <2>3, <2>4, EnteredKept
<1> QED
  BY <1>1, <1>4, <1>5, <1>6, <1>7

(* What a timer handler has yet to print, at each of its instructions.     *)
LEMMA TimerPending ==
    ASSUME NEW h, h.code \in {IRQ0, LapicTimer}
    PROVE  /\ h.at # 3 => Pending(h) = 0
           /\ h.at = 3 /\ h.n > TicksWanted /\ h.n \in Nat => Pending(h) = 0
           /\ h.at = 3 /\ h.n <= TicksWanted => Pending(h) = 1
<1>1. h.code # Breakpoint
  BY GateVectors
<1>2. h.n > TicksWanted /\ h.n \in Nat => ~(h.n <= TicksWanted)
  BY DEF TicksWanted
<1> QED
  BY <1>1, <1>2 DEF Pending

(* n = ++count: the line of a tick is due as soon as it is counted.        *)
LEMMA TickCounted ==
    ASSUME NEW c \in 0..CountBound
    PROVE  LET n == Capped(c + 1) IN
           /\ n \in 0..CountBound
           /\ n <= TicksWanted => Ticks(n) - 1 = Ticks(c)
           /\ n > TicksWanted => Ticks(n) = Ticks(c)
  BY DEF Capped, CountBound, TicksWanted, Ticks

(* Both contexts and the frames they hold, with a handler running.         *)
LEMMA HandlerFrames ==
    ASSUME MachineInv, MachineInv', Len(ctx) = 2, Len(ctx') = 2
    PROVE  /\ StackInv /\ count \in Counts /\ count' \in Counts
           /\ ctx[2] \in Frame /\ Place \in 1..55 /\ Interrupts(ctx[2], Place)
           /\ ctx'[2] \in Frame /\ Place' \in 1..55 /\ Interrupts(ctx'[2], Place')
<1>1. StackInv /\ StackInv' /\ count \in Counts /\ count' \in Counts
  BY DEF MachineInv, CountInv, Counts
<1>2. ctx[2] \in Frame /\ Place \in 1..55 /\ Interrupts(ctx[2], Place)
  BY <1>1, StackFacts DEF StackInv
<1>3. ctx' \in Seq(Frame) /\ Len(ctx') = 2
  BY <1>1 DEF StackInv
<1>4. ctx'[1] \in Frame /\ ctx'[2] \in Frame
  BY <1>3
<1>5. Place' \in 1..55
  BY <1>4 DEF Place, Frame
<1>6. Interrupts(ctx'[2], Place')
  BY <1>1, <1>3 DEF StackInv
<1> QED
  BY <1>1, <1>2, <1>4, <1>5, <1>6

(* A timer handler that prints nothing: its eoi, its count, a later tick.  *)
LEMMA AdvancePrints ==
    ASSUME MachineInv, LogInv, SkipTick \/ Eoi \/ Count
    PROVE  LogInv' /\ log' = log
<1>1. log' = log /\ cr2' = cr2
  BY DEF SkipTick, Eoi, Count, tableVars
<1>2. MachineInv' /\ Advances /\ ctx[2].code \in {IRQ0, LapicTimer}
  BY SkipTickStep, EoiStep, CountStep
<1> DEFINE h == ctx[2]
           g == ctx'[2]
<1>3. /\ StackInv /\ count \in Counts /\ count' \in Counts
      /\ h \in Frame /\ Place \in 1..55 /\ Interrupts(h, Place)
      /\ g \in Frame /\ Place' \in 1..55 /\ Interrupts(g, Place')
  BY <1>2, HandlerFrames DEF Advances
<1>4. /\ Len(ctx) = 2 /\ Len(ctx') = 2 /\ ctx'[1].half = ctx[1].half /\ Place' = Place
      /\ g.code = h.code /\ g.at = h.at + 1 /\ g.half = 0
  BY <1>2 DEF Advances
<1>5. /\ h.at = 1 \/ h.at = 2 \/ (h.at = 3 /\ h.n > TicksWanted)
      /\ h.at # 2 => count' = count
      /\ h.at = 2 => Count
  <2>1. CASE SkipTick
    BY <2>1, SkipTickStep DEF SkipTick
  <2>2. CASE Eoi
    <3>1. h.at = 1
      BY <2>2, EoiStep
    <3>2. count' = count
      BY <2>2 DEF Eoi
    <3>3. h.at # 2
      BY <3>1
    <3> QED
      BY <3>1, <3>2, <3>3, Zenon
  <2>3. CASE Count
    <3>1. h.at = 2
      BY <2>3, CountStep
    <3> QED
      BY <2>3, <3>1, Zenon
  <2> QED
    BY <2>1, <2>2, <2>3
<1>6. h.n \in Nat /\ g.n \in Nat
  BY <1>3 DEF Frame, CountBound, TicksWanted
<1>7. ~Writes(h)
  <2>1. h.code # Breakpoint /\ h.code # PageFault
    BY <1>2, GateVectors
  <2>2. ~(h.at = 3 /\ h.n <= TicksWanted)
    BY <1>5, <1>6 DEF TicksWanted
  <2> QED
    BY <2>1, <2>2 DEF Writes
<1>8. /\ h.code = IRQ0 => LinesIn(h, Place, count) = 13 + Ticks(count.timer) - Pending(h)
      /\ h.code = LapicTimer => LinesIn(h, Place, count) = 23 + Ticks(count.lapic) - Pending(h)
      /\ g.code = IRQ0 => LinesIn(g, Place', count') = 13 + Ticks(count'.timer) - Pending(g)
      /\ g.code = LapicTimer => LinesIn(g, Place', count') = 23 + Ticks(count'.lapic) - Pending(g)
  BY <1>3, LinesInIs
<1>9. /\ Ticks(count.timer) \in 0..3 /\ Ticks(count.lapic) \in 0..3
      /\ Ticks(count'.timer) \in 0..3 /\ Ticks(count'.lapic) \in 0..3
  BY <1>3, LinesAtIs
<1>10. LinesIn(g, Place', count') = LinesIn(h, Place, count)
  <2>1. CASE h.at # 2
    <3>1. Pending(h) = 0
      BY <1>2, <1>5, <1>6, <2>1, TimerPending
    <3>2. g.at # 3
      BY <1>3, <1>4, <2>1 DEF Frame
    <3>3. Pending(g) = 0
      BY <1>2, <1>4, <3>2, TimerPending
    <3>4. count' = count
      BY <1>5, <2>1
    <3> QED
      BY <1>2, <1>4, <1>8, <3>1, <3>3, <3>4
  <2>2. CASE h.at = 2
    <3>1. Pending(h) = 0
      BY <1>2, <2>2, TimerPending
    <3>2. /\ g.at = 3
          /\ \/ /\ h.code = IRQ0 /\ count.timer \in 0..CountBound
                /\ count'.timer = Capped(count.timer + 1) /\ g.n = count'.timer
             \/ /\ h.code = LapicTimer /\ count.lapic \in 0..CountBound
                /\ count'.lapic = Capped(count.lapic + 1) /\ g.n = count'.lapic
      BY <1>4, <1>5, <2>2, CountStep
    <3>3. \/ g.n <= TicksWanted /\ Pending(g) = 1
          \/ g.n > TicksWanted /\ Pending(g) = 0
      <4>1. g.n <= TicksWanted \/ g.n > TicksWanted
        BY <1>6 DEF TicksWanted
      <4> QED
        BY <1>2, <1>4, <1>6, <3>2, <4>1, TimerPending
    <3>4. CASE h.code = IRQ0
      <4>1. count.timer \in 0..CountBound /\ g.n = Capped(count.timer + 1) /\ count'.timer = g.n
        BY <3>2, <3>4, GateVectors
      <4>2. /\ g.n <= TicksWanted => Ticks(count'.timer) - 1 = Ticks(count.timer)
            /\ g.n > TicksWanted => Ticks(count'.timer) = Ticks(count.timer)
        BY <4>1, TickCounted
      <4>3. /\ LinesIn(h, Place, count) = 13 + Ticks(count.timer) - 0
            /\ LinesIn(g, Place', count') = 13 + Ticks(count'.timer) - Pending(g)
        BY <1>4, <1>8, <3>1, <3>4
      <4> HIDE DEF h, g
      <4> QED
        BY <1>9, <3>3, <4>2, <4>3
    <3>5. CASE h.code = LapicTimer
      <4>1. count.lapic \in 0..CountBound /\ g.n = Capped(count.lapic + 1) /\ count'.lapic = g.n
        BY <3>2, <3>5, GateVectors
      <4>2. /\ g.n <= TicksWanted => Ticks(count'.lapic) - 1 = Ticks(count.lapic)
            /\ g.n > TicksWanted => Ticks(count'.lapic) = Ticks(count.lapic)
        BY <4>1, TickCounted
      <4>3. /\ LinesIn(h, Place, count) = 23 + Ticks(count.lapic) - 0
            /\ LinesIn(g, Place', count') = 23 + Ticks(count'.lapic) - Pending(g)
        BY <1>4, <1>8, <3>1, <3>5
      <4> HIDE DEF h, g
      <4> QED
        BY <1>9, <3>3, <4>2, <4>3
    <3> QED
      BY <1>2, <3>4, <3>5
  <2> QED
    BY <2>1, <2>2
<1> QED
  BY <1>1, <1>3, <1>4, <1>7, <1>10, HandlerKept

(* The page-fault handler moves the return address behind the probe.       *)
LEMMA SkipProbePrints ==
    ASSUME MachineInv, LogInv, SkipProbe
    PROVE  LogInv' /\ log' = log
<1>1. log' = log /\ cr2' = cr2 /\ count' = count
  BY DEF SkipProbe, tableVars
<1>2. /\ MachineInv' /\ Len(ctx) = 2 /\ Len(ctx') = 2 /\ ctx[2].code = PageFault
      /\ ctx[2].at = 3 /\ ctx'[2].code = PageFault /\ ctx'[2].at = 4 /\ ctx'[2].half = 0
      /\ Place = 53 /\ Place' = 54 /\ ctx'[1].half = ctx[1].half
  BY SkipProbeStep
<1>3. /\ StackInv /\ count \in Counts /\ count' \in Counts
      /\ ctx[2] \in Frame /\ Place \in 1..55 /\ Interrupts(ctx[2], Place)
      /\ ctx'[2] \in Frame /\ Place' \in 1..55 /\ Interrupts(ctx'[2], Place')
  BY <1>2, HandlerFrames
<1>4. 3 \in 3..4 /\ 4 \in 3..4
  OBVIOUS
<1>5. LinesIn(ctx[2], Place, count) = 32 /\ LinesIn(ctx'[2], Place', count') = 32
  BY <1>2, <1>3, <1>4, LinesInIs
<1>6. ~Writes(ctx[2])
  BY <1>2, GateVectors DEF Writes
<1> QED
  BY <1>1, <1>2, <1>3, <1>5, <1>6, HandlerKept

(* A handler returns: every line it owed is printed.                       *)
LEMMA IretqPrints ==
    ASSUME MachineInv, LogInv, Iretq
    PROVE  LogInv' /\ log' = log
<1>1. log' = log /\ count' = count
  BY DEF Iretq
<1>2. /\ Len(ctx) = 2 /\ Len(ctx') = 1 /\ ctx'[1] = ctx[1] /\ Place' = Place
      /\ \/ ctx[2].code = Breakpoint /\ ctx[2].at = 2
         \/ ctx[2].code \in {PageFault, IRQ0, LapicTimer} /\ ctx[2].at = 4
  BY IretqStep
<1>3. StackInv
  BY DEF MachineInv
<1>4. count \in Counts /\ Place \in 1..55
  BY <1>3, StackFacts DEF MachineInv, CountInv, Counts
<1> DEFINE h == ctx[2]
<1>5. ~Writes(h) /\ Pending(h) = 0 /\ Printed(h) = 0
  BY <1>2, GateVectors DEF Writes, Pending, Printed
<1>6. LinesAt(Place, count) \in Nat
  BY <1>4, LinesAtIs
<1>7. LinesIn(h, Place, count) = LinesAt(Place, count) + 0 - 0
  BY <1>5 DEF LinesIn
<1>8. LinesAt(Place', count') = LinesIn(ctx[2], Place, count)
  BY <1>1, <1>2, <1>6, <1>7
<1> QED
  BY <1>1, <1>2, <1>3, <1>5, <1>8, ReturnKept

(* A timer ticks, and nothing happens.                                     *)
LEMMA DevicePrints ==
    ASSUME MachineInv, LogInv, PitTick \/ ApicTick \/ UNCHANGED vars
    PROVE  LogInv' /\ log' = log
<1>1. ctx' = ctx /\ count' = count /\ log' = log /\ cr2' = cr2
  BY DEF PitTick, ApicTick, vars, cpuVars, tableVars
<1>2. Place' = Place /\ Top' = Top /\ LinesDone' = LinesDone
  BY <1>1 DEF Place, Top, LinesDone
<1> QED
  BY <1>1, <1>2 DEF LogInv

(* Every step prints the next write of the transcript or nothing.          *)
LEMMA LogStep ==
    MachineInv /\ LogInv /\ [Next]_vars => LogInv' /\ [Transcript!Write]_log
<1> SUFFICES ASSUME MachineInv, LogInv, [Next]_vars PROVE LogInv' /\ [Transcript!Write]_log
  OBVIOUS
<1>1. CASE WriteMark
  <2>1. Len(ctx) = 1 \/ Len(ctx) = 2
    BY DEF MachineInv, StackInv
  <2> QED
    BY <1>1, <2>1, MainWrites, HandlerMarks
<1>2. CASE WriteTick \/ WriteCr2
  BY <1>2, TickWrites, Cr2Writes
<1>3. CASE SkipTick \/ Eoi \/ Count
  BY <1>3, AdvancePrints
<1>4. CASE \/ LoadGdt \/ idtClearAll \/ idtSetGate \/ idtLoad \/ Cli \/ Sti \/ ZeroCount
           \/ pic_remap_and_mask \/ pic_mask_all \/ pit_set_frequency \/ lapic_mmio_write
  BY <1>4, StraightPrints
<1>5. CASE LoopTest \/ Hlt
  BY <1>5, LoopPrints
<1>6. CASE Int3 \/ Probe \/ DeliverIrq0 \/ DeliverApicTimer
  BY <1>6, EnterPrints
<1>7. CASE SkipProbe \/ Iretq
  BY <1>7, SkipProbePrints, IretqPrints
<1>8. CASE PitTick \/ ApicTick \/ Stopped \/ UNCHANGED vars
  BY <1>8, DevicePrints DEF Stopped
<1> QED
  BY <1>1, <1>2, <1>3, <1>4, <1>5, <1>6, <1>7, <1>8 DEF Next, Cpu, Deliver

(* Where the kernel is tells how much of the transcript it has written.    *)
THEOREM LogSafe == Spec => []LogInv
<1>1. Init => LogInv
  BY LogStarts
<1>2. MachineInv /\ LogInv /\ [Next]_vars => LogInv'
  BY LogStep
<1> QED
  BY <1>1, <1>2, MachineSafe, PTL DEF Spec

(* The serial output is the documented transcript in its order, each line  *)
(* once, whatever the timing of the ticks: the safety part of              *)
(* PrintsTranscript.                                                       *)
THEOREM PrintsInOrder == Spec => Transcript!Init /\ [][Transcript!Write]_log
<1>1. Init => Transcript!Init
  BY LogStarts
<1>2. MachineInv /\ LogInv /\ [Next]_vars => [Transcript!Write]_log
  BY LogStep
<1> QED
  BY <1>1, <1>2, MachineSafe, LogSafe, PTL DEF Spec

(* What is on the line so far is a beginning of the transcript.            *)
PrefixInv ==
    log \in Seq(WriteSet) /\ \A k \in 1..Len(log) : log[k] = Transcript!Whole[k]

(* A write of the transcript keeps what is on the line its beginning.      *)
LEMMA PrefixGrows == PrefixInv /\ [Transcript!Write]_log => PrefixInv'
<1> SUFFICES ASSUME PrefixInv, Transcript!Write PROVE PrefixInv'
  BY DEF PrefixInv
<1> DEFINE n == Len(log)
           w == Transcript!Whole[n + 1]
<1>1. log' = Append(log, w) /\ n \in Nat /\ n < 66 /\ log \in Seq(WriteSet)
  BY WholeIs DEF Transcript!Write, PrefixInv
<1>2. w \in WriteSet
  <2>1. n + 1 \in 1..66
    <3>1. n \in Nat /\ n < 66
      BY <1>1
    <3> HIDE DEF n
    <3> QED
      BY <3>1
  <2> QED
    BY <2>1, Zenon DEF WriteSet
<1>3. \A k \in 1..n : log[k] = Transcript!Whole[k]
  BY DEF PrefixInv
<1>4. w = Transcript!Whole[n + 1]
  OBVIOUS
<1> HIDE DEF w
<1>5. log' \in Seq(WriteSet) /\ Len(log') = n + 1 /\ log'[n + 1] = w
      /\ \A k \in 1..n : log'[k] = log[k]
  BY <1>1, <1>2
<1> HIDE DEF n
<1>6. ASSUME NEW k \in 1..Len(log') PROVE log'[k] = Transcript!Whole[k]
  <2>1. k \in 1..n \/ k = n + 1
    BY <1>1, <1>5
  <2> QED
    BY <1>3, <1>4, <1>5, <2>1
<1> QED
  BY <1>5, <1>6 DEF PrefixInv

(* When kernel_entry has come to its final halt, interrupts are off and    *)
(* all of the transcript is on the line: Finishes, but for its arrival.    *)
THEOREM HaltsComplete ==
    Spec => [](Len(ctx) = 1 /\ Instr.op = "halt" => ~IF_ /\ log = Transcript!Whole)
<1>1. Init => PrefixInv
  <2>1. ASSUME log = << >> PROVE PrefixInv
    BY <2>1 DEF PrefixInv
  <2> QED
    BY <2>1 DEF Init
<1>2. PrefixInv /\ [Transcript!Write]_log => PrefixInv'
  BY PrefixGrows
<1>3. Spec => []PrefixInv
  BY <1>1, <1>2, PrintsInOrder, PTL DEF Spec
<1>4. MachineInv /\ LogInv /\ PrefixInv
        => (Len(ctx) = 1 /\ Instr.op = "halt" => ~IF_ /\ log = Transcript!Whole)
  <2> SUFFICES ASSUME MachineInv, LogInv, PrefixInv, Len(ctx) = 1, Instr.op = "halt"
               PROVE  ~IF_ /\ log = Transcript!Whole
    OBVIOUS
  <2>1. Place = 55
    <3>1. StackInv
      BY DEF MachineInv
    <3>2. Instr = kernel_entry[Place] /\ Place \in 1..55
      BY <3>1, RunsMain
    <3> QED
      BY <3>2, Places
  <2>2. ~IF_
    <3>1. Place \notin Waits
      BY <2>1 DEF Waits
    <3> QED
      BY <3>1 DEF MachineInv, FlagInv
  <2>3. Len(log) = 66
    <3>1. LinesAt(Place, count) = 33
      <4>1. count \in Counts
        BY DEF MachineInv, CountInv, Counts
      <4>2. 55 \in 1..55 /\ 55 \notin 25..27 /\ 55 \notin 43..45 /\ Before[55] = 33
        BY BeforeIs
      <4> QED
        BY <2>1, <4>1, <4>2, LinesAtIs
    <3>2. Place \notin Marks
      BY <2>1 DEF Marks
    <3>3. ctx[1].half = 0
      BY <3>2, StackFacts DEF LogInv, MachineInv, Frame
    <3>4. Top.half = 0 /\ LinesDone = 33
      BY <3>1, <3>3 DEF Top, LinesDone
    <3> QED
      BY <3>4 DEF LogInv
  <2>4. log = [k \in 1..66 |-> log[k]]
    <3>1. log \in Seq(WriteSet)
      BY DEF PrefixInv
    <3> QED
      BY <2>3, <3>1
  <2>5. \A k \in 1..66 : log[k] = Transcript!Whole[k]
    BY <2>3 DEF PrefixInv
  <2>6. Transcript!Whole = [k \in 1..66 |-> Transcript!Whole[k]]
    <3>1. Len(Transcript!Lines) = 33
      BY DEF Transcript!Lines
    <3>2. 2 * 33 = 66
      OBVIOUS
    <3> QED
      BY <3>1, <3>2, Zenon DEF Transcript!Whole
  <2>7. [k \in 1..66 |-> log[k]] = [k \in 1..66 |-> Transcript!Whole[k]]
    BY <2>5, Zenon
  <2> QED
    BY <2>2, <2>4, <2>6, <2>7
<1> QED
  BY <1>3, <1>4, MachineSafe, LogSafe, PTL
====
