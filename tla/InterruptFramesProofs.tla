----------------------- MODULE InterruptFramesProofs -----------------------
(***************************************************************************)
(* For every stack size, every content of the registers and every point of *)
(* interruption, the stubs of module InterruptFrames give kernel_entry     *)
(* back its registers, flag, stack and instruction pointer.                *)
(***************************************************************************)
EXTENDS InterruptFrames, TLAPS

(* Where the frame of the running stub ends and where its registers begin. *)
Base == AlignDown(own.rsp)
Bottom == Base - FrameWords(vector)

(* Registers 1..k of the push order are in their words.                    *)
SavedUpTo(k) == \A i \in 1..k : mem[Bottom - i] = own.regs[Pushed[i]]

(* The return address in the frame, before and after the dispatcher ran.   *)
ReturnsTo ==
    IF vector = PageFault /\ pc \in {"push", "align", "call"}
    THEN own.rip - kPfProbeInsnLen ELSE own.rip

(* What the words of the frame hold while a stub runs.                     *)
FrameHeld ==
    /\ mem[Base - 1] = DataSel
    /\ mem[Base - 2] = own.rsp
    /\ mem[Base - 3] = own.IF_
    /\ mem[Base - 5] = ReturnsTo
    /\ (vector = PageFault /\ pc \in {"push", "align", "call"}) =>
           mem[Base - 6] = ErrorCode

(* Where the stub is: its stack pointer and registers.                     *)
Progress ==
    /\ pc = "push" => n < Saves /\ rsp = Bottom - n /\ regs = own.regs /\ SavedUpTo(n)
    /\ pc = "align" => rsp = Bottom - Saves /\ regs = own.regs /\ SavedUpTo(Saves)
    /\ pc = "call" => rsp = Bottom - Saves - 1 /\ SavedUpTo(Saves)
                      /\ (vector = PageFault => regs["rdi"] = Bottom)
    /\ pc = "unalign" => rsp = Bottom - Saves - 1 /\ SavedUpTo(Saves)
    /\ pc \in {"align", "call", "unalign"} => n = Saves
    /\ pc = "pop" =>
           /\ n > 0 /\ rsp = Bottom - n /\ SavedUpTo(n)
           /\ \A i \in n + 1..Saves : regs[Pushed[i]] = own.regs[Pushed[i]]
    /\ pc = "error" => vector = PageFault /\ rsp = Bottom /\ regs = own.regs
    /\ pc \in {"patch", "iretq"} => rsp = Base - 5 /\ regs = own.regs

InStub == pc \notin {"boot", "kernel"}

FramesInv ==
    /\ TypeOK
    /\ FrameRoom <= own.rsp
    /\ ContextRestored
    /\ StackSpared
    /\ pc # "boot" => ss = DataSel
    /\ InStub => FrameHeld /\ Progress
-----------------------------------------------------------------------------
(* The pop instructions undo the push instructions, each register once.    *)
LEMMA PopsUndoPushes ==
    /\ \A k \in 1..Saves : Pushed[k] \in Registers /\ Popped[Saves - k + 1] = Pushed[k]
    /\ \A i, k \in 1..Saves : Pushed[i] = Pushed[k] => i = k
    /\ \A r \in Registers : \E k \in 1..Saves : r = Pushed[k]
<1>1. ASSUME NEW k \in 1..Saves
      PROVE  Popped[Saves - k + 1] = Pushed[k]
  <2>1. k \in {1, 2, 3, 4, 5, 6, 7, 8, 9, 10, 11, 12, 13, 14, 15}
    BY DEF Saves
  <2> QED BY <2>1 DEF Saves, Pushed, Popped
<1>2. ASSUME NEW i \in 1..Saves, NEW k \in 1..Saves, i # k
      PROVE  Pushed[i] # Pushed[k]
  <2>1. /\ i \in {1, 2, 3, 4, 5, 6, 7, 8, 9, 10, 11, 12, 13, 14, 15}
        /\ k \in {1, 2, 3, 4, 5, 6, 7, 8, 9, 10, 11, 12, 13, 14, 15}
    BY DEF Saves
  <2> QED BY <2>1, <1>2 DEF Pushed
<1> QED BY <1>1, <1>2 DEF Registers

(* Aligning moves the stack pointer down by at most a word.                *)
LEMMA AlignDownRange ==
    ASSUME NEW w \in Nat
    PROVE  AlignDown(w) \in Int /\ w - 1 <= AlignDown(w) /\ AlignDown(w) <= w
BY DEF AlignDown

(* A stub's words lie in the stack, below the kernel's part of it.         *)
LEMMA Layout ==
    ASSUME TypeOK, FrameRoom <= own.rsp
    PROVE  /\ Base \in Int /\ Bottom \in Int /\ StackTop \in Nat
           /\ own.rsp \in Nat /\ own.rsp <= StackTop /\ FrameWords(vector) \in {5, 6}
           /\ Base <= own.rsp /\ own.rsp - 1 <= Base
           /\ Bottom = Base - FrameWords(vector)
           /\ Saves + 2 <= Bottom
           /\ \A w \in Int : (1 <= w /\ w < own.rsp) => w \in Words
<1>1. own.rsp \in Nat /\ own.rsp <= StackTop /\ StackTop \in Nat
  BY FramesAssumption DEF TypeOK
<1>2. Base \in Int /\ own.rsp - 1 <= Base /\ Base <= own.rsp
  BY <1>1, AlignDownRange DEF Base
<1>3. FrameWords(vector) \in {5, 6}
  BY DEF FrameWords
<1>4. Bottom = Base - FrameWords(vector) /\ Bottom \in Int
  BY <1>2, <1>3 DEF Bottom
<1>5. FrameRoom = 24 /\ Saves = 15
  BY DEF FrameRoom, Saves
<1>6. Saves + 2 <= Bottom
  BY <1>1, <1>2, <1>3, <1>4, <1>5
<1>7. \A w \in Int : (1 <= w /\ w < own.rsp) => w \in Words
  BY <1>1 DEF Words
<1> QED BY <1>1, <1>2, <1>3, <1>4, <1>6, <1>7
-----------------------------------------------------------------------------
LEMMA FramesInit == Init => FramesInv
BY FramesAssumption DEF Init, FramesInv, TypeOK, ContextRestored, StackSpared,
    InStub, Labels, Vectors, Words, FrameRoom, Saves, FirmwareSs

(* kernel_entry's own instructions change its context as it expects.       *)
LEMMA KernelStep ==
    ASSUME FramesInv, Kernel
    PROVE  FramesInv'
<1>1. /\ pc \in {"boot", "kernel"} /\ pc' = "kernel"
      /\ ss' \in {FirmwareSs, DataSel} /\ ss' = DataSel
      /\ UNCHANGED <<n, vector>>
  BY DEF FramesInv, Kernel, LoadBootGdt, Compute, Push, Pop, StiCli, ContextRestored
<1>2. /\ regs = own.regs /\ rsp = own.rsp /\ rip = own.rip /\ IF_ = own.IF_
      /\ own.regs \in [Registers -> Int] /\ own.mem \in [Words -> Int]
      /\ mem \in [Words -> Int] /\ rsp \in FrameRoom..StackTop
      /\ rip \in Int /\ IF_ \in {0, 1} /\ StackTop \in Nat /\ FrameRoom = 24
      /\ own = [regs |-> own.regs, rsp |-> own.rsp, rip |-> own.rip,
                IF_ |-> own.IF_, mem |-> own.mem]
  BY <1>1, FramesAssumption
     DEF FramesInv, TypeOK, ContextRestored, FrameRoom, Saves
<1> DEFINE Agrees ==
        /\ own'.regs = regs' /\ own'.rsp = rsp' /\ own'.rip = rip' /\ own'.IF_ = IF_'
        /\ regs' \in [Registers -> Int] /\ rsp' \in FrameRoom..StackTop
        /\ rip' \in Int /\ IF_' \in {0, 1}
        /\ mem' \in [Words -> Int] /\ own'.mem \in [Words -> Int]
        /\ \A w \in rsp'..StackTop - 1 : mem'[w] = own'.mem[w]
        /\ own' = [regs |-> own'.regs, rsp |-> own'.rsp, rip |-> own'.rip,
                   IF_ |-> own'.IF_, mem |-> own'.mem]
<1>3. \A w \in rsp..StackTop - 1 : mem[w] = own.mem[w]
  BY <1>2 DEF FramesInv, StackSpared
<1>4. ASSUME LoadBootGdt PROVE Agrees
  BY <1>2, <1>3, <1>4 DEF LoadBootGdt, machine
<1>5. ASSUME Compute PROVE Agrees
  <2>1. /\ own' = [regs |-> regs', rsp |-> own.rsp, rip |-> rip',
                   IF_ |-> own.IF_, mem |-> own.mem]
        /\ regs' \in [Registers -> Int] /\ rip' \in Int
        /\ UNCHANGED <<rsp, IF_, mem>>
    <3>1. regs' \in [Registers -> Int] /\ rip' \in Int
      BY <1>5, FramesAssumption DEF Compute
    <3>2. own' = [own EXCEPT !.regs = regs', !.rip = rip']
      BY <1>5 DEF Compute
    <3>3. UNCHANGED <<rsp, IF_, mem>>
      BY <1>5 DEF Compute
    <3> QED BY <1>2, <3>1, <3>2, <3>3
  <2> QED BY <1>2, <1>3, <2>1
<1>6. ASSUME Push PROVE Agrees
  <2>1. rsp' = rsp - 1 /\ rsp' \in Words /\ rsp' \in FrameRoom..StackTop
    BY <1>2, <1>6 DEF Push, Words
  <2>2. "rax" \in Registers
    BY DEF Registers, Saves, Pushed
  <2>3. /\ mem' = [mem EXCEPT ![rsp'] = regs["rax"]]
        /\ own'.mem = [own.mem EXCEPT ![rsp'] = regs["rax"]]
    BY <1>2, <1>6 DEF Push
  <2>4. /\ mem' \in [Words -> Int] /\ own'.mem \in [Words -> Int]
        /\ \A w \in rsp'..StackTop - 1 : mem'[w] = own'.mem[w]
    BY <1>2, <1>3, <2>1, <2>2, <2>3 DEF Words
  <2>5. /\ own'.regs = regs' /\ own'.rsp = rsp' /\ own'.rip = rip' /\ own'.IF_ = IF_'
        /\ regs' = regs /\ rip' = rip /\ IF_' = IF_
        /\ own' = [regs |-> own'.regs, rsp |-> own'.rsp, rip |-> own'.rip,
                   IF_ |-> own'.IF_, mem |-> own'.mem]
    BY <1>2, <1>6 DEF Push
  <2> QED BY <1>2, <2>1, <2>4, <2>5
<1>7. ASSUME Pop PROVE Agrees
  <2>1. /\ own' = [regs |-> own.regs, rsp |-> rsp', rip |-> own.rip,
                   IF_ |-> own.IF_, mem |-> own.mem]
        /\ rsp' = rsp + 1 /\ rsp < StackTop
        /\ UNCHANGED <<regs, rip, IF_, mem>>
    BY <1>2, <1>7 DEF Pop
  <2> QED BY <1>2, <1>3, <2>1
<1>8. ASSUME StiCli PROVE Agrees
  <2>1. /\ own' = [regs |-> own.regs, rsp |-> own.rsp, rip |-> own.rip,
                   IF_ |-> IF_', mem |-> own.mem]
        /\ IF_' = 1 - IF_
        /\ UNCHANGED <<regs, rsp, rip, mem>>
    BY <1>2, <1>8 DEF StiCli
  <2> QED BY <1>2, <1>3, <2>1
<1>9. Agrees
  BY <1>4, <1>5, <1>6, <1>7, <1>8 DEF Kernel
<1>10. TypeOK'
  <2>1. own' \in [regs : [Registers -> Int], rsp : 0..StackTop, rip : Int,
                  IF_ : {0, 1}, mem : [Words -> Int]]
    BY <1>2, <1>9
  <2>2. n \in 0..Saves /\ vector \in Vectors
    BY DEF FramesInv, TypeOK
  <2> QED BY <1>1, <1>2, <1>9, <2>1, <2>2 DEF TypeOK, Labels
<1> QED BY <1>1, <1>2, <1>9, <1>10 DEF FramesInv, ContextRestored, StackSpared, InStub

(* The frame pushed by the processor holds the kernel's context.           *)
LEMMA DeliverStep ==
    ASSUME FramesInv, Processor
    PROVE  FramesInv'
<1>1. PICK v \in Vectors, ret \in Int :
        /\ pc = "kernel" /\ Deliver(v, ret)
        /\ IF_' \in {0, 1} /\ UNCHANGED <<regs, rip>>
        /\ own' = [own EXCEPT !.rip = own'.rip]
        /\ own'.rip = IF v = PageFault THEN ret + kPfProbeInsnLen ELSE ret
  <2>1. rip \in Int /\ (rip = own.rip \/ pc # "kernel")
    BY DEF FramesInv, TypeOK, ContextRestored
  <2>2. own = [own EXCEPT !.rip = own.rip] /\ IF_ \in {0, 1} /\ rip \in Int
    BY DEF FramesInv, TypeOK
  <2>3. CASE Int3
    BY <2>2, <2>3 DEF Int3, Vectors, Breakpoint, PageFault, FramesInv, TypeOK
  <2>4. CASE Probe
    BY <2>2, <2>4 DEF Probe, Vectors, FramesInv, TypeOK
  <2>5. ASSUME NEW v \in {IRQ0, LapicTimer}, Tick(v)
        PROVE  /\ pc = "kernel" /\ Deliver(v, rip)
               /\ IF_' \in {0, 1} /\ UNCHANGED <<regs, rip>>
               /\ own' = [own EXCEPT !.rip = own'.rip]
               /\ own'.rip = IF v = PageFault THEN rip + kPfProbeInsnLen ELSE rip
               /\ v \in Vectors
    BY <2>1, <2>2, <2>5 DEF Tick, Vectors, IRQ0, LapicTimer, PageFault
  <2> QED BY <2>2, <2>3, <2>4, <2>5 DEF Processor
<1>2. /\ own'.rsp = own.rsp /\ own'.IF_ = own.IF_ /\ own'.mem = own.mem
      /\ own'.regs = own.regs /\ own'.rip \in Int
      /\ own' \in [regs : [Registers -> Int], rsp : 0..StackTop, rip : Int,
                   IF_ : {0, 1}, mem : [Words -> Int]]
  BY <1>1 DEF FramesInv, TypeOK, kPfProbeInsnLen
<1>3. /\ rsp = own.rsp /\ regs = own.regs /\ IF_ = own.IF_ /\ ss = DataSel
      /\ mem \in [Words -> Int] /\ rsp \in FrameRoom..StackTop
      /\ StackTop \in Nat
  BY <1>1, FramesAssumption DEF FramesInv, TypeOK, ContextRestored, FrameRoom, Saves
<1>4. vector' = v /\ n' = 0 /\ pc' = "push" /\ ss' = ss
  BY <1>1 DEF Deliver
<1>5. Base' = AlignDown(rsp) /\ Bottom' = Base' - FrameWords(v)
  BY <1>2, <1>3, <1>4 DEF Base, Bottom
<1>6. /\ Base' \in Int /\ Base' <= rsp /\ rsp - 1 <= Base'
      /\ FrameWords(v) \in {5, 6} /\ (v = PageFault => FrameWords(v) = 6)
      /\ 24 <= rsp /\ rsp <= StackTop /\ rsp \in Int /\ Saves = 15
      /\ Bottom' \in Int /\ StackTop \in Int
  BY <1>3, <1>5, AlignDownRange DEF FrameWords, FrameRoom, Saves
<1>7. /\ rsp' = Bottom'
      /\ mem' = [w \in Words |-> IF w \in Bottom'..Base' - 1
                                THEN Frame(v, ret)[Base' - w] ELSE mem[w]]
  BY <1>1, <1>5 DEF Deliver
<1>8. /\ \A i \in 1..5 : Frame(v, ret)[i] = <<DataSel, own.rsp, own.IF_, CodeSel, ret>>[i]
      /\ v = PageFault => Frame(v, ret)[6] = ErrorCode
  BY <1>3 DEF Frame
<1>9. \A i \in 1..FrameWords(v) :
         /\ Base' - i \in Words /\ mem'[Base' - i] = Frame(v, ret)[i]
         /\ Frame(v, ret)[i] \in Int
  <2> SUFFICES ASSUME NEW i \in 1..FrameWords(v)
               PROVE  /\ Base' - i \in Words /\ mem'[Base' - i] = Frame(v, ret)[i]
                      /\ Frame(v, ret)[i] \in Int
    OBVIOUS
  <2>1. Base' - i \in Words /\ Base' - i \in Bottom'..Base' - 1
        /\ Base' - (Base' - i) = i
    <3>1. i \in Int /\ 1 <= i /\ i <= FrameWords(v)
      BY <1>6
    <3> DEFINE b == Base'
               k == FrameWords(v)
    <3>2. b \in Int /\ k \in Int /\ k <= 6 /\ b <= rsp /\ rsp - 1 <= b /\ Bottom' = b - k
      BY <1>5, <1>6
    <3> HIDE DEF b, k
    <3>3. b - i \in Words /\ b - i \in b - k..b - 1 /\ b - (b - i) = i
      BY <1>6, <3>1, <3>2 DEF Words, k
    <3> QED BY <3>2, <3>3 DEF b
  <2>2. i \in 1..5 \/ (v = PageFault /\ i = 6)
    BY <1>6 DEF FrameWords
  <2>3. Frame(v, ret)[i] \in Int
    BY <1>3, <1>8, <2>2, <1>2 DEF DataSel, CodeSel, ErrorCode
  <2>4. \A w \in Words : w \in Bottom'..Base' - 1 => mem'[w] = Frame(v, ret)[Base' - w]
    BY <1>7
  <2> DEFINE w == Base' - i
  <2>5. w \in Words /\ w \in Bottom'..Base' - 1 /\ Base' - w = i
    BY <2>1
  <2> HIDE DEF w
  <2>6. mem'[w] = Frame(v, ret)[Base' - w]
    BY <2>4, <2>5
  <2>7. mem'[w] = Frame(v, ret)[i]
    BY <2>5, <2>6
  <2> QED BY <2>3, <2>5, <2>7 DEF w
<1>10. \A w \in own'.rsp..StackTop - 1 : mem'[w] = own'.mem[w]
  <2> SUFFICES ASSUME NEW w \in rsp..StackTop - 1
               PROVE  mem'[w] = own.mem[w]
    BY <1>2, <1>3
  <2>1. w \in Words /\ w \notin Bottom'..Base' - 1
    <3>1. w \in Int /\ rsp <= w /\ w <= StackTop - 1
      BY <1>6
    <3>2. w \in Words
      BY <1>6, <3>1 DEF Words
    <3> DEFINE b == Base'
    <3>3. b \in Int /\ b <= rsp /\ rsp \in Int /\ Bottom' \in Int
      BY <1>6
    <3> HIDE DEF b
    <3>4. w \notin Bottom'..b - 1
      BY <3>1, <3>3
    <3> QED BY <3>2, <3>4 DEF b
  <2>2. mem[w] = own.mem[w]
    BY <1>3 DEF FramesInv, StackSpared
  <2> QED BY <1>7, <2>1, <2>2
<1>11. mem' \in [Words -> Int]
  <2>1. \A w \in Words : mem'[w] \in Int
    <3> SUFFICES ASSUME NEW w \in Words
                 PROVE  mem'[w] \in Int
      OBVIOUS
    <3>1. CASE w \in Bottom'..Base' - 1
      <4>1. Base' - w \in 1..FrameWords(v) /\ w = Base' - (Base' - w)
        BY <1>5, <1>6, <3>1 DEF Words
      <4> QED BY <1>9, <4>1
    <3>2. CASE w \notin Bottom'..Base' - 1
      BY <1>3, <1>7, <3>2
    <3> QED BY <3>1, <3>2
  <2> QED BY <1>7, <2>1
<1>12. TypeOK'
  BY <1>1, <1>2, <1>3, <1>4, <1>5, <1>6, <1>7, <1>11
     DEF TypeOK, FramesInv, Labels
<1>13. FrameHeld'
  <2>1. {1, 2, 3, 5} \subseteq 1..FrameWords(v)
    BY <1>6
  <2>2. v = PageFault => 6 \in 1..FrameWords(v)
    BY <1>6
  <2>3. ReturnsTo' = ret
    BY <1>1, <1>2, <1>4 DEF ReturnsTo, kPfProbeInsnLen
  <2> QED BY <1>2, <1>3, <1>4, <1>8, <1>9, <2>1, <2>2, <2>3 DEF FrameHeld
<1>14. Progress'
  <2>1. rsp' = Bottom' - 0 /\ 0 < Saves /\ regs' = own'.regs
    BY <1>1, <1>2, <1>3, <1>6, <1>7
  <2>2. \A i \in 1..0 : mem'[Bottom' - i] = own'.regs[Pushed[i]]
    OBVIOUS
  <2> QED BY <1>4, <2>1, <2>2 DEF Progress, SavedUpTo
<1> QED BY <1>2, <1>3, <1>4, <1>10, <1>12, <1>13, <1>14
        DEF FramesInv, ContextRestored, StackSpared, InStub
-----------------------------------------------------------------------------
(* The instructions of a stub.                                             *)

(* While a stub runs: where its words are, and types.                      *)
LEMMA StubLayout ==
    ASSUME FramesInv, InStub
    PROVE  /\ Base \in Int /\ Bottom \in Int /\ own.rsp \in Int /\ StackTop \in Int
           /\ own.rsp <= StackTop /\ Base <= own.rsp
           /\ Bottom = Base - FrameWords(vector)
           /\ (vector = PageFault /\ Bottom = Base - 6)
                  \/ (vector # PageFault /\ Bottom = Base - 5)
           /\ 17 <= Bottom
           /\ \A w \in Int : (1 <= w /\ w < own.rsp) => w \in Words
           /\ FrameHeld /\ Progress
           /\ mem \in [Words -> Int] /\ regs \in [Registers -> Int]
           /\ n \in Int /\ 0 <= n /\ n <= 15 /\ Saves = 15
BY Layout DEF FramesInv, FrameWords, Saves, TypeOK

(* A step that keeps the kernel's view, and words of a frame that a step   *)
(* leaves alone.                                                           *)
Quiet == UNCHANGED <<own, vector>> /\ Base' = Base /\ Bottom' = Bottom

LEMMA StubQuiet ==
    ASSUME FramesInv, Stub
    PROVE  Quiet /\ InStub
BY DEF Stub, PushRegister, AlignStack, CallDispatcher, UnalignStack, PopRegister,
    DropErrorCode, PatchSs, Iretq, Quiet, Base, Bottom, InStub

(* An instruction that writes only below the frame, or nothing, keeps the  *)
(* frame and the kernel's part of the stack.                               *)
LEMMA BelowFrame ==
    ASSUME FramesInv, InStub, Quiet, InStub', ReturnsTo' = ReturnsTo,
           mem' \in [Words -> Int],
           \A w \in Words : w >= Bottom => mem'[w] = mem[w],
           pc' \in {"push", "align", "call"} => pc \in {"push", "align", "call"}
    PROVE  FrameHeld' /\ StackSpared'
<1> USE StubLayout
<1>1. \A i \in 1..5 : Base - i \in Words /\ Base - i >= Bottom
  <2> SUFFICES ASSUME NEW i \in 1..5
               PROVE  Base - i \in Words /\ Base - i >= Bottom
    OBVIOUS
  <2>1. 1 <= Base - i /\ Base - i < own.rsp /\ Base - i \in Int /\ Base - i >= Bottom
    OBVIOUS
  <2> QED BY <2>1
<1>2. vector = PageFault => Base - 6 \in Words /\ Base - 6 >= Bottom
  <2> SUFFICES ASSUME vector = PageFault
               PROVE  Base - 6 \in Words /\ Base - 6 >= Bottom
    OBVIOUS
  <2>1. 1 <= Base - 6 /\ Base - 6 < own.rsp /\ Base - 6 \in Int /\ Base - 6 >= Bottom
    OBVIOUS
  <2> QED BY <2>1
<1>3. \A i \in 1..5 : mem'[Base - i] = mem[Base - i]
  BY <1>1
<1>4. vector = PageFault => mem'[Base - 6] = mem[Base - 6]
  BY <1>2
<1>5. FrameHeld'
  BY <1>3, <1>4 DEF FrameHeld, Quiet
<1>6. StackSpared'
  <2> SUFFICES ASSUME NEW w \in own.rsp..StackTop - 1
               PROVE  mem'[w] = own.mem[w]
    BY DEF StackSpared, Quiet
  <2>1. w \in Words /\ w >= Bottom
    BY DEF Words
  <2> QED BY <2>1 DEF FramesInv, StackSpared
<1> QED BY <1>5, <1>6

LEMMA PushStep ==
    ASSUME FramesInv, PushRegister
    PROVE  FramesInv'
<1>1. InStub /\ InStub' /\ pc = "push" /\ Quiet /\ ReturnsTo' = ReturnsTo
  BY StubQuiet DEF PushRegister, InStub, Stub, ReturnsTo, Quiet
<1> USE StubLayout, <1>1
<1>2. /\ n < 15 /\ rsp = Bottom - n /\ regs = own.regs /\ SavedUpTo(n)
      /\ rsp' = Bottom - (n + 1) /\ rsp' \in Int
      /\ 1 <= rsp' /\ rsp' < Bottom /\ n' = n + 1 /\ UNCHANGED <<regs, rip, IF_, ss>>
  BY DEF Progress, PushRegister
<1>3. rsp' \in Words
  BY <1>2
<1>4. n + 1 \in 1..Saves
  BY <1>2
<1>5. /\ mem' = [mem EXCEPT ![rsp'] = own.regs[Pushed[n + 1]]]
      /\ own.regs[Pushed[n + 1]] \in Int
  BY <1>2, <1>4, PopsUndoPushes DEF PushRegister, FramesInv, TypeOK
<1>6. /\ mem' \in [Words -> Int]
      /\ \A w \in Words : w >= Bottom => mem'[w] = mem[w]
  BY <1>2, <1>3, <1>5, SMTT(30) DEF Words
<1>7. pc' \in {"push", "align"} /\ (pc' = "push" => n' < 15) /\ (pc' = "align" => n' = 15)
  BY <1>2 DEF PushRegister
<1>8. FrameHeld' /\ StackSpared'
  BY <1>6, BelowFrame
<1>9. \A i \in 1..n + 1 : mem'[Bottom - i] = own.regs[Pushed[i]]
  <2> SUFFICES ASSUME NEW i \in 1..n + 1
               PROVE  mem'[Bottom - i] = own.regs[Pushed[i]]
    OBVIOUS
  <2>1. CASE i = n + 1
    BY <1>2, <1>3, <1>5, <2>1
  <2>2. CASE i # n + 1
    <3>1. i \in 1..n
      BY <2>2
    <3>2. Bottom - i # rsp' /\ 1 <= Bottom - i /\ Bottom - i < own.rsp /\ Bottom - i \in Int
      BY <1>2, <3>1
    <3>3. Bottom - i \in Words
      BY <3>2
    <3> QED BY <1>2, <1>5, <3>1, <3>2, <3>3 DEF SavedUpTo
  <2> QED BY <2>1, <2>2
<1>10. Progress'
  <2>1. \A i \in 1..n' : mem'[Bottom' - i] = own'.regs[Pushed[i]]
    BY <1>2, <1>9 DEF Quiet
  <2>2. rsp' = Bottom' - n' /\ regs' = own'.regs
    BY <1>2 DEF Quiet
  <2>3. pc' = "align" => \A i \in 1..Saves : mem'[Bottom' - i] = own'.regs[Pushed[i]]
    BY <1>7, <2>1
  <2> QED BY <1>7, <2>1, <2>2, <2>3 DEF Progress, SavedUpTo
<1>11. TypeOK'
  BY <1>2, <1>6, <1>7 DEF FramesInv, TypeOK, Quiet, Labels
<1> QED BY <1>2, <1>7, <1>8, <1>10, <1>11
        DEF FramesInv, ContextRestored, Quiet, InStub

LEMMA AlignStep ==
    ASSUME FramesInv, AlignStack
    PROVE  FramesInv'
<1>1. InStub /\ InStub' /\ pc = "align" /\ pc' = "call" /\ Quiet /\ ReturnsTo' = ReturnsTo
  BY StubQuiet DEF AlignStack, InStub, Stub, ReturnsTo, Quiet
<1> USE StubLayout, <1>1
<1>2. /\ rsp = Bottom - Saves /\ SavedUpTo(Saves) /\ n = Saves
      /\ rsp' = Bottom - Saves - 1 /\ UNCHANGED <<rip, IF_, ss, n, mem>>
      /\ regs' = IF vector = PageFault THEN [regs EXCEPT !["rdi"] = Bottom] ELSE regs
  <2>1. rsp = Bottom - 15 /\ SavedUpTo(Saves) /\ n = Saves
    BY DEF Progress
  <2>2. rsp' = Bottom - 15 - 1 /\ rsp' + 16 = Bottom /\ UNCHANGED <<rip, IF_, ss, n, mem>>
    BY <2>1 DEF AlignStack
  <2>3. regs' = IF vector = PageFault THEN [regs EXCEPT !["rdi"] = rsp' + 16] ELSE regs
    BY DEF AlignStack
  <2> QED BY <2>1, <2>2, <2>3
<1>3. regs' \in [Registers -> Int]
  BY <1>2
<1>4. vector = PageFault => regs'["rdi"] = Bottom
  <2>1. "rdi" \in Registers
    BY DEF Registers, Saves, Pushed
  <2> QED BY <1>2, <2>1
<1>5. FrameHeld' /\ StackSpared'
  BY <1>2, BelowFrame
<1>6. Progress'
  BY <1>2, <1>4 DEF Progress, SavedUpTo, Quiet
<1>7. rsp' \in 0..StackTop
  BY <1>2
<1>8. TypeOK'
  BY <1>2, <1>3, <1>7 DEF FramesInv, TypeOK, Quiet, Labels
<1> QED BY <1>2, <1>5, <1>6, <1>8
        DEF FramesInv, ContextRestored, Quiet, InStub

(* The dispatcher works below the frame, but for the return address of a   *)
(* page fault.                                                             *)
LEMMA CallStep ==
    ASSUME FramesInv, CallDispatcher
    PROVE  FramesInv'
<1>1. InStub /\ InStub' /\ pc = "call" /\ pc' = "unalign" /\ Quiet
  BY StubQuiet DEF CallDispatcher, InStub, Stub, Quiet
<1> USE StubLayout, <1>1
<1>2. /\ rsp = Bottom - 16 /\ SavedUpTo(Saves) /\ n = Saves
      /\ UNCHANGED <<rip, IF_, ss, n, rsp>>
      /\ (vector = PageFault => regs["rdi"] = Bottom)
      /\ regs' = [r \in Registers |-> IF r \in CallerSaved THEN Junk ELSE regs[r]]
  BY DEF Progress, CallDispatcher
<1>3. /\ mem' = [w \in Words |->
                    IF w < rsp THEN Junk
                    ELSE IF vector = PageFault /\ w = regs["rdi"] + 1
                         THEN mem[w] + kPfProbeInsnLen ELSE mem[w]]
      /\ Junk \in Int
  BY FramesAssumption DEF CallDispatcher
<1>4. regs' \in [Registers -> Int] /\ mem' \in [Words -> Int]
  BY <1>2, <1>3 DEF kPfProbeInsnLen
<1>5. \A w \in Words : (w >= rsp /\ (vector # PageFault \/ w # Base - 5)) => mem'[w] = mem[w]
  <2> SUFFICES ASSUME NEW w \in Words, w >= rsp, vector # PageFault \/ w # Base - 5
               PROVE  mem'[w] = mem[w]
    OBVIOUS
  <2>1. ~(w < rsp)
    BY <1>2 DEF Words
  <2>2. ~(vector = PageFault /\ w = regs["rdi"] + 1)
    BY <1>2
  <2> QED BY <1>3, <2>1, <2>2
<1>6. \A i \in 1..5 : Base - i \in Words /\ Base - i >= rsp
  <2> SUFFICES ASSUME NEW i \in 1..5
               PROVE  Base - i \in Words /\ Base - i >= rsp
    OBVIOUS
  <2>1. 1 <= Base - i /\ Base - i < own.rsp /\ Base - i \in Int /\ Base - i >= rsp
    BY <1>2
  <2> QED BY <2>1
<1>7. \A i \in 1..3 : mem'[Base - i] = mem[Base - i]
  BY <1>5, <1>6
<1>8. mem'[Base - 5] = own.rip
  <2>1. CASE vector = PageFault
    <3>1. Base - 5 \in Words /\ ~(Base - 5 < rsp) /\ Base - 5 = regs["rdi"] + 1
      BY <1>2, <1>6, <2>1
    <3>2. mem[Base - 5] = own.rip - kPfProbeInsnLen /\ own.rip \in Int
      BY <2>1 DEF FrameHeld, ReturnsTo, FramesInv, TypeOK
    <3>3. mem'[Base - 5] = mem[Base - 5] + kPfProbeInsnLen
      BY <1>3, <2>1, <3>1
    <3> QED BY <3>2, <3>3 DEF kPfProbeInsnLen
  <2>2. CASE vector # PageFault
    BY <1>5, <1>6, <2>2 DEF FrameHeld, ReturnsTo
  <2> QED BY <2>1, <2>2
<1>9. FrameHeld'
  BY <1>7, <1>8 DEF FrameHeld, ReturnsTo, Quiet
<1>10. StackSpared'
  <2> SUFFICES ASSUME NEW w \in own.rsp..StackTop - 1
               PROVE  mem'[w] = own.mem[w]
    BY DEF StackSpared, Quiet
  <2>1. w \in Words /\ w >= rsp /\ w # Base - 5
    BY <1>2, SMTT(30) DEF Words
  <2> QED BY <1>5, <2>1 DEF FramesInv, StackSpared
<1>11. \A i \in 1..15 : mem'[Bottom - i] = own.regs[Pushed[i]]
  <2> SUFFICES ASSUME NEW i \in 1..15
               PROVE  mem'[Bottom - i] = own.regs[Pushed[i]]
    OBVIOUS
  <2>1. 1 <= Bottom - i /\ Bottom - i < own.rsp /\ Bottom - i \in Int
        /\ Bottom - i >= rsp /\ Bottom - i # Base - 5
    BY <1>2
  <2>2. Bottom - i \in Words
    BY <2>1
  <2>3. mem[Bottom - i] = own.regs[Pushed[i]]
    BY <1>2 DEF SavedUpTo
  <2> QED BY <1>5, <2>1, <2>2, <2>3
<1>12. Progress'
  BY <1>2, <1>11 DEF Progress, SavedUpTo, Quiet
<1>13. TypeOK'
  BY <1>2, <1>4 DEF FramesInv, TypeOK, Quiet, Labels
<1> QED BY <1>2, <1>9, <1>10, <1>12, <1>13
        DEF FramesInv, ContextRestored, Quiet, InStub

LEMMA UnalignStep ==
    ASSUME FramesInv, UnalignStack
    PROVE  FramesInv'
<1>1. InStub /\ InStub' /\ pc = "unalign" /\ pc' = "pop" /\ Quiet /\ ReturnsTo' = ReturnsTo
  BY StubQuiet DEF UnalignStack, InStub, Stub, ReturnsTo, Quiet
<1> USE StubLayout, <1>1
<1>2. /\ SavedUpTo(Saves) /\ n = Saves
      /\ rsp' = Bottom - Saves /\ UNCHANGED <<regs, rip, IF_, ss, n, mem>>
  BY DEF Progress, UnalignStack
<1>3. FrameHeld' /\ StackSpared'
  BY <1>2, BelowFrame
<1>4. Progress'
  BY <1>2 DEF Progress, SavedUpTo, Quiet
<1>5. rsp' \in 0..StackTop
  BY <1>2
<1>6. TypeOK'
  BY <1>2, <1>5 DEF FramesInv, TypeOK, Quiet, Labels
<1> QED BY <1>2, <1>3, <1>4, <1>6 DEF FramesInv, ContextRestored, Quiet, InStub

LEMMA PopStep ==
    ASSUME FramesInv, PopRegister
    PROVE  FramesInv'
<1>1. InStub /\ InStub' /\ pc = "pop" /\ Quiet /\ ReturnsTo' = ReturnsTo
      /\ pc' \in {"pop", "error", "patch"}
  BY StubQuiet DEF PopRegister, InStub, Stub, ReturnsTo, Quiet
<1> USE StubLayout, <1>1
<1>2. /\ 0 < n /\ rsp = Bottom - n /\ SavedUpTo(n)
      /\ \A i \in n + 1..15 : regs[Pushed[i]] = own.regs[Pushed[i]]
      /\ rsp' = Bottom - (n - 1) /\ n' = n - 1 /\ UNCHANGED <<rip, IF_, ss, mem>>
  BY DEF Progress, PopRegister
<1>3. n \in 1..Saves
  BY <1>2
<1>4. Popped[Saves - n + 1] = Pushed[n] /\ Pushed[n] \in Registers
  BY <1>3, PopsUndoPushes
<1>5. mem[rsp] = own.regs[Pushed[n]] /\ own.regs \in [Registers -> Int]
  BY <1>2, <1>3 DEF SavedUpTo, FramesInv, TypeOK
<1>6. regs' = [regs EXCEPT ![Pushed[n]] = own.regs[Pushed[n]]]
  BY <1>4, <1>5 DEF PopRegister
<1>7. regs' \in [Registers -> Int]
  BY <1>4, <1>5, <1>6
<1>8. \A i \in n..15 : regs'[Pushed[i]] = own.regs[Pushed[i]]
  <2> SUFFICES ASSUME NEW i \in n..15
               PROVE  regs'[Pushed[i]] = own.regs[Pushed[i]]
    OBVIOUS
  <2>1. i \in 1..Saves /\ Pushed[i] \in Registers
    BY <1>2, PopsUndoPushes
  <2>2. CASE i = n
    BY <1>4, <1>6, <2>2
  <2>3. CASE i # n
    <3>1. Pushed[i] # Pushed[n]
      BY <1>3, <2>1, <2>3, PopsUndoPushes
    <3>2. regs[Pushed[i]] = own.regs[Pushed[i]]
      BY <1>2, <2>3
    <3> QED BY <1>6, <2>1, <3>1, <3>2
  <2> QED BY <2>2, <2>3
<1>9. /\ pc' = "pop" => n' > 0
      /\ pc' # "pop" => n = 1
      /\ pc' = "error" => vector = PageFault
      /\ pc' = "patch" => vector # PageFault
  BY <1>2 DEF PopRegister
<1>10. n = 1 => regs' = own.regs
  <2> SUFFICES ASSUME n = 1
               PROVE  regs' = own.regs
    OBVIOUS
  <2>1. \A r \in Registers : regs'[r] = own.regs[r]
    BY <1>8, PopsUndoPushes
  <2> QED BY <1>5, <1>7, <2>1
<1>11. FrameHeld' /\ StackSpared'
  BY <1>2, BelowFrame
<1>12. Progress'
  <2>1. pc' = "pop" => /\ \A i \in 1..n' : mem'[Bottom' - i] = own'.regs[Pushed[i]]
                       /\ \A i \in n' + 1..Saves : regs'[Pushed[i]] = own'.regs[Pushed[i]]
    BY <1>2, <1>8 DEF SavedUpTo, Quiet
  <2>2. pc' = "error" => rsp' = Bottom' /\ regs' = own'.regs
    BY <1>2, <1>9, <1>10 DEF Quiet
  <2>3. pc' = "patch" => rsp' = Base' - 5 /\ regs' = own'.regs
    BY <1>2, <1>9, <1>10 DEF Quiet
  <2> QED BY <1>2, <1>9, <2>1, <2>2, <2>3 DEF Progress, SavedUpTo, Quiet
<1>13. rsp' \in 0..StackTop /\ n' \in 0..Saves
  BY <1>2
<1>14. TypeOK'
  BY <1>2, <1>7, <1>13 DEF FramesInv, TypeOK, Quiet, Labels
<1> QED BY <1>2, <1>11, <1>12, <1>14 DEF FramesInv, ContextRestored, Quiet, InStub

LEMMA DropErrorStep ==
    ASSUME FramesInv, DropErrorCode
    PROVE  FramesInv'
<1>1. InStub /\ InStub' /\ pc = "error" /\ pc' = "patch" /\ Quiet /\ ReturnsTo' = ReturnsTo
  BY StubQuiet DEF DropErrorCode, InStub, Stub, ReturnsTo, Quiet
<1> USE StubLayout, <1>1
<1>2. /\ vector = PageFault /\ regs = own.regs /\ rsp' = Base - 5
      /\ UNCHANGED <<regs, rip, IF_, ss, n, mem>>
  BY DEF Progress, DropErrorCode
<1>3. FrameHeld' /\ StackSpared'
  BY <1>2, BelowFrame
<1>4. Progress'
  BY <1>2 DEF Progress, Quiet
<1>5. rsp' \in 0..StackTop
  BY <1>2
<1>6. TypeOK'
  BY <1>2, <1>5 DEF FramesInv, TypeOK, Quiet, Labels
<1> QED BY <1>2, <1>3, <1>4, <1>6 DEF FramesInv, ContextRestored, Quiet, InStub

LEMMA PatchStep ==
    ASSUME FramesInv, PatchSs
    PROVE  FramesInv'
<1>1. InStub /\ InStub' /\ pc = "patch" /\ pc' = "iretq" /\ Quiet /\ ReturnsTo' = ReturnsTo
  BY StubQuiet DEF PatchSs, InStub, Stub, ReturnsTo, Quiet
<1> USE StubLayout, <1>1
<1>2. /\ regs = own.regs /\ rsp = Base - 5 /\ rsp + 4 = Base - 1
      /\ UNCHANGED <<regs, rip, IF_, ss, n, rsp>>
      /\ mem' = [mem EXCEPT ![Base - 1] = DataSel]
  <2>1. regs = own.regs /\ rsp = Base - 5 /\ rsp + 4 = Base - 1
    BY DEF Progress
  <2> QED BY <2>1 DEF PatchSs
<1>3. mem' = mem
  <2>1. mem[Base - 1] = DataSel
    BY DEF FrameHeld
  <2> QED BY <1>2, <2>1
<1>4. FrameHeld' /\ StackSpared'
  BY <1>3, BelowFrame
<1>5. Progress'
  BY <1>2 DEF Progress, Quiet
<1>6. TypeOK'
  BY <1>2, <1>3 DEF FramesInv, TypeOK, Quiet, Labels
<1> QED BY <1>2, <1>4, <1>5, <1>6 DEF FramesInv, ContextRestored, Quiet, InStub

LEMMA IretqStep ==
    ASSUME FramesInv, Iretq
    PROVE  FramesInv'
<1>1. InStub /\ pc = "iretq" /\ pc' = "kernel" /\ UNCHANGED <<own, vector, regs, mem, n>>
  BY DEF Iretq, InStub
<1> USE StubLayout, <1>1
<1>2. regs = own.regs /\ rsp = Base - 5 /\ rsp + 2 = Base - 3 /\ rsp + 3 = Base - 2
      /\ rsp + 4 = Base - 1
  BY DEF Progress
<1>3. rip' = own.rip /\ IF_' = own.IF_ /\ rsp' = own.rsp /\ ss' = DataSel
  BY <1>2 DEF FrameHeld, ReturnsTo, Iretq
<1>4. TypeOK'
  BY <1>2, <1>3 DEF FramesInv, TypeOK, Labels
<1> QED BY <1>2, <1>3, <1>4 DEF FramesInv, ContextRestored, StackSpared, InStub
-----------------------------------------------------------------------------
(* The invariant, inductive.                                               *)
THEOREM FramesSafe == Spec => []FramesInv
<1>1. FramesInv /\ [Next]_vars => FramesInv'
  <2> SUFFICES ASSUME FramesInv, [Next]_vars
               PROVE  FramesInv'
    OBVIOUS
  <2>1. CASE Kernel
    BY <2>1, KernelStep
  <2>2. CASE Processor
    BY <2>2, DeliverStep
  <2>3. CASE Stub
    BY <2>3, PushStep, AlignStep, CallStep, UnalignStep, PopStep, DropErrorStep,
       PatchStep, IretqStep DEF Stub
  <2>4. CASE UNCHANGED vars
    BY <2>4 DEF vars, machine, FramesInv, TypeOK, ContextRestored, StackSpared,
       InStub, FrameHeld, Progress, SavedUpTo, ReturnsTo, Base, Bottom
  <2> QED BY <2>1, <2>2, <2>3, <2>4 DEF Next
<1> QED BY <1>1, FramesInit, PTL DEF Spec

(* An interrupt is invisible to the code it interrupts: registers, flag,   *)
(* stack pointer, instruction pointer and ss are back after iretq.         *)
THEOREM InterruptsAreInvisible == Spec => []ContextRestored
<1>1. FramesInv => ContextRestored
  BY DEF FramesInv
<1> QED BY <1>1, FramesSafe, PTL

(* The kernel's part of the stack is never written by a stub or dispatcher.*)
THEOREM StackOfKernelSpared == Spec => []StackSpared
<1>1. FramesInv => StackSpared
  BY DEF FramesInv
<1> QED BY <1>1, FramesSafe, PTL

(* page_fault_dispatch gets the address of the error code, with the return *)
(* address above it.                                                       *)
THEOREM FaultFrameIsPassed == Spec => []FaultFramePassed
<1>1. FramesInv => FaultFramePassed
  <2> SUFFICES ASSUME FramesInv, pc = "call", vector = PageFault
               PROVE  /\ mem[regs["rdi"]] = ErrorCode
                      /\ mem[regs["rdi"] + 1] = own.rip - kPfProbeInsnLen
    BY DEF FaultFramePassed
  <2>1. InStub
    BY DEF InStub
  <2>2. regs["rdi"] = Base - 6 /\ regs["rdi"] + 1 = Base - 5
    BY <2>1, StubLayout DEF Progress
  <2> QED BY <2>1, <2>2, StubLayout DEF FrameHeld, ReturnsTo
<1> QED BY <1>1, FramesSafe, PTL
=============================================================================
