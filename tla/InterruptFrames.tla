-------------------------- MODULE InterruptFrames --------------------------
(***************************************************************************)
(* The four interrupt stubs (src-os/kernel/*_entry.S), instruction by      *)
(* instruction, and the stack they work on. kernel_entry runs and is       *)
(* interrupted anywhere, with its stack pointer anywhere; the processor    *)
(* pushes a frame, the stub saves the registers, calls its dispatcher,     *)
(* restores them and executes iretq.                                       *)
(*                                                                         *)
(* Addresses are counted in words of 8 bytes, so an address is a multiple  *)
(* of 16 bytes when it is even. The stack grows towards 0. Everything in a *)
(* word or a register is an integer. Interrupts are off while a stub runs  *)
(* (KernelStages!NoNesting), so there is one stub at a time.               *)
(***************************************************************************)
EXTENDS Integers, Sequences

CONSTANTS
    StackTop,       \* the words of the stack are 0..StackTop-1
    CodeEnd,        \* bound: the kernel code modelled is 0..CodeEnd
    RegisterFiles,  \* what the general-purpose registers of the kernel may hold
    Junk            \* what a dispatcher leaves in registers and words it uses

(* The order of the push instructions, and that of the pop instructions.   *)
Pushed == <<"rax", "rcx", "rdx", "rbx", "rbp", "rsi", "rdi", "r8", "r9",
            "r10", "r11", "r12", "r13", "r14", "r15">>
(* Mutant of Popped: rdi and rsi are restored in the order they were saved.*)
PoppedSwapped == <<"r15", "r14", "r13", "r12", "r11", "r10", "r9", "r8", "rsi",
            "rdi", "rbp", "rbx", "rdx", "rcx", "rax">>
Popped == <<"r15", "r14", "r13", "r12", "r11", "r10", "r9", "r8", "rdi",
            "rsi", "rbp", "rbx", "rdx", "rcx", "rax">>
Saves == 15

Registers == {Pushed[i] : i \in 1..Saves}
(* What a function may change, by the calling convention of the dispatchers.*)
CallerSaved == {"rax", "rcx", "rdx", "rsi", "rdi", "r8", "r9", "r10", "r11"}

Breakpoint == 3
PageFault == 14
IRQ0 == 32
LapicTimer == 34
Vectors == {Breakpoint, PageFault, IRQ0, LapicTimer}

FirmwareSs == 48        \* 0x30
DataSel == 16           \* 0x10
CodeSel == 8            \* 0x08
ErrorCode == 0          \* page not present, supervisor read
kPfProbeInsnLen == 2

FrameWords(v) == IF v = PageFault THEN 6 ELSE 5
FrameRoom == 6 + Saves + 3  \* frame, registers, alignment on both sides, call

ASSUME FramesAssumption ==
    /\ StackTop \in Nat /\ FrameRoom < StackTop
    /\ CodeEnd \in Nat
    /\ RegisterFiles # {} /\ RegisterFiles \subseteq [Registers -> Int]
    /\ Junk \in Int

Words == 0..StackTop - 1
AlignDown(w) == w - (w % 2)      \* to 16 bytes

VARIABLES
    regs,       \* the general-purpose registers
    rsp, rip,
    IF_,        \* the interrupt flag, as 0 or 1
    ss,         \* the stack segment selector
    mem,        \* the words of the stack
    pc,         \* "boot" and "kernel", or what the stub does next
    n,          \* registers saved on the stack
    vector,     \* of the stub that runs, or last ran
    own         \* history: what kernel_entry takes its registers, stack and
                \* flags to be

machine == <<regs, rsp, rip, IF_, mem>>
vars == <<machine, ss, pc, n, vector, own>>

Init ==
    /\ regs \in RegisterFiles
    /\ rsp = StackTop /\ rip = 0 /\ IF_ = 0
    /\ ss = FirmwareSs
    /\ mem = [w \in Words |-> 0]
    /\ pc = "boot" /\ n = 0 /\ vector = Breakpoint
    /\ own = [regs |-> regs, rsp |-> rsp, rip |-> rip, IF_ |-> IF_, mem |-> mem]
-----------------------------------------------------------------------------
(* kernel_entry, which knows of its own instructions only.                 *)

(* The boot GDT is loaded, and ss from it.                                 *)
LoadBootGdt ==
    /\ pc = "boot"
    /\ pc' = "kernel"
    /\ ss' = DataSel
    /\ UNCHANGED <<machine, n, vector, own>>

(* Instructions between two interrupts: registers change, a word is pushed *)
(* or popped, interrupts are turned on or off, the kernel goes on anywhere.*)
Compute ==
    /\ pc = "kernel"
    /\ regs' \in RegisterFiles
    /\ rip' \in 0..CodeEnd
    /\ own' = [own EXCEPT !.regs = regs', !.rip = rip']
    /\ UNCHANGED <<rsp, IF_, ss, mem, pc, n, vector>>
Push ==
    /\ pc = "kernel" /\ rsp > FrameRoom
    /\ rsp' = rsp - 1
    /\ mem' = [mem EXCEPT ![rsp'] = regs["rax"]]
    /\ own' = [own EXCEPT !.rsp = rsp', !.mem = [own.mem EXCEPT ![rsp'] = own.regs["rax"]]]
    /\ UNCHANGED <<regs, rip, IF_, ss, pc, n, vector>>
Pop ==
    /\ pc = "kernel" /\ rsp < StackTop
    /\ rsp' = rsp + 1
    /\ own' = [own EXCEPT !.rsp = rsp']
    /\ UNCHANGED <<regs, rip, IF_, mem, ss, pc, n, vector>>
StiCli ==
    /\ pc = "kernel"
    /\ IF_' = 1 - IF_
    /\ own' = [own EXCEPT !.IF_ = IF_']
    /\ UNCHANGED <<regs, rsp, rip, mem, ss, pc, n, vector>>
-----------------------------------------------------------------------------
(* The processor enters a stub.                                            *)

(* The frame, in the order it is pushed, for a return to address ret.      *)
Frame(v, ret) ==
    <<ss, rsp, IF_, CodeSel, ret>> \o (IF v = PageFault THEN <<ErrorCode>> ELSE << >>)

Deliver(v, ret) ==
    LET base == AlignDown(rsp)
    IN  /\ rsp' = base - FrameWords(v)
        /\ mem' = [w \in Words |-> IF w \in rsp'..base - 1 THEN Frame(v, ret)[base - w]
                                                          ELSE mem[w]]
        /\ pc' = "push" /\ n' = 0 /\ vector' = v
        /\ UNCHANGED ss

(* int3 is a trap: the return address is that of the next instruction. It  *)
(* and the page fault come while interrupts are off.                       *)
Int3 ==
    /\ pc = "kernel" /\ IF_ = 0 /\ rip <= CodeEnd
    /\ Deliver(Breakpoint, rip + 1)
    /\ own' = [own EXCEPT !.rip = rip + 1]
    /\ UNCHANGED <<regs, rip, IF_>>

(* A page fault returns to the instruction that faulted; kernel_entry      *)
(* counts on coming back behind it.                                        *)
Probe ==
    /\ pc = "kernel" /\ IF_ = 0 /\ rip <= CodeEnd
    /\ Deliver(PageFault, rip)
    /\ own' = [own EXCEPT !.rip = rip + kPfProbeInsnLen]
    /\ UNCHANGED <<regs, rip, IF_>>

(* A timer interrupt, through an interrupt gate.                           *)
Tick(v) ==
    /\ pc = "kernel" /\ IF_ = 1
    /\ Deliver(v, rip)
    /\ IF_' = 0
    /\ UNCHANGED <<regs, rip, own>>
-----------------------------------------------------------------------------
(* The stub.                                                               *)

PushRegister ==
    /\ pc = "push"
    /\ rsp' = rsp - 1
    /\ mem' = [mem EXCEPT ![rsp'] = regs[Pushed[n + 1]]]
    /\ n' = n + 1
    /\ pc' = IF n' = Saves THEN "align" ELSE "push"
    /\ UNCHANGED <<regs, rip, IF_, ss, vector, own>>

(* subq $8, %rsp, and for the page fault leaq 128(%rsp), %rdi.             *)
(* Mutant of AlignStack: 120 instead of 128.                               *)
AlignStackLea120 ==
    /\ pc = "align"
    /\ rsp' = rsp - 1
    /\ regs' = IF vector = PageFault THEN [regs EXCEPT !["rdi"] = rsp' + 15] ELSE regs
    /\ pc' = "call"
    /\ UNCHANGED <<rip, IF_, mem, ss, n, vector, own>>
AlignStack ==
    /\ pc = "align"
    /\ rsp' = rsp - 1
    /\ regs' = IF vector = PageFault THEN [regs EXCEPT !["rdi"] = rsp' + 16] ELSE regs
    /\ pc' = "call"
    /\ UNCHANGED <<rip, IF_, mem, ss, n, vector, own>>

(* The dispatcher uses the stack below rsp and the registers a function    *)
(* may change; page_fault_dispatch moves frame[1] behind the instruction.  *)
CallDispatcher ==
    /\ pc = "call"
    /\ regs' = [r \in Registers |-> IF r \in CallerSaved THEN Junk ELSE regs[r]]
    /\ mem' = [w \in Words |->
                  IF w < rsp THEN Junk
                  ELSE IF vector = PageFault /\ w = regs["rdi"] + 1
                       THEN mem[w] + kPfProbeInsnLen
                       ELSE mem[w]]
    /\ pc' = "unalign"
    /\ UNCHANGED <<rsp, rip, IF_, ss, n, vector, own>>

(* addq $8, %rsp. Mutant of UnalignStack: subq.                            *)
UnalignStackSub ==
    /\ pc = "unalign"
    /\ rsp' = rsp - 1
    /\ pc' = "pop"
    /\ UNCHANGED <<regs, rip, IF_, mem, ss, n, vector, own>>
UnalignStack ==
    /\ pc = "unalign"
    /\ rsp' = rsp + 1
    /\ pc' = "pop"
    /\ UNCHANGED <<regs, rip, IF_, mem, ss, n, vector, own>>

PopRegister ==
    /\ pc = "pop"
    /\ regs' = [regs EXCEPT ![Popped[Saves - n + 1]] = mem[rsp]]
    /\ rsp' = rsp + 1
    /\ n' = n - 1
    /\ pc' = IF n' > 0 THEN "pop" ELSE IF vector = PageFault THEN "error" ELSE "patch"
    /\ UNCHANGED <<rip, IF_, mem, ss, vector, own>>

(* Only the page fault has an error code to drop.                          *)
DropErrorCode ==
    /\ pc = "error"
    /\ rsp' = rsp + 1
    /\ pc' = "patch"
    /\ UNCHANGED <<regs, rip, IF_, mem, ss, n, vector, own>>

(* movw $0x10, 32(%rsp). Mutant of PatchSs: 40, one word too far.          *)
PatchSs40 ==
    /\ pc = "patch"
    /\ mem' = [mem EXCEPT ![rsp + 5] = DataSel]
    /\ pc' = "iretq"
    /\ UNCHANGED <<regs, rsp, rip, IF_, ss, n, vector, own>>
PatchSs ==
    /\ pc = "patch"
    /\ mem' = [mem EXCEPT ![rsp + 4] = DataSel]
    /\ pc' = "iretq"
    /\ UNCHANGED <<regs, rsp, rip, IF_, ss, n, vector, own>>

Iretq ==
    /\ pc = "iretq"
    /\ rip' = mem[rsp]
    /\ IF_' = mem[rsp + 2]
    /\ rsp' = mem[rsp + 3]
    /\ ss' = mem[rsp + 4]
    /\ pc' = "kernel"
    /\ UNCHANGED <<regs, mem, n, vector, own>>
-----------------------------------------------------------------------------
Kernel == LoadBootGdt \/ Compute \/ Push \/ Pop \/ StiCli
Processor == Int3 \/ Probe \/ (\E v \in {IRQ0, LapicTimer} : Tick(v))
Stub ==
    \/ PushRegister \/ AlignStack \/ CallDispatcher \/ UnalignStack
    \/ PopRegister \/ DropErrorCode \/ PatchSs \/ Iretq

Next == Kernel \/ Processor \/ Stub
Spec == Init /\ [][Next]_vars
-----------------------------------------------------------------------------
(* Properties.                                                             *)

Labels == {"boot", "kernel", "push", "align", "call", "unalign", "pop",
           "error", "patch", "iretq"}

(* Every variable has its type; the stack pointer stays in the stack.      *)
TypeOK ==
    /\ regs \in [Registers -> Int] /\ rip \in Int
    /\ rsp \in 0..StackTop /\ IF_ \in {0, 1} /\ ss \in {FirmwareSs, DataSel}
    /\ mem \in [Words -> Int]
    /\ pc \in Labels /\ n \in 0..Saves /\ vector \in Vectors
    /\ own \in [regs : [Registers -> Int], rsp : 0..StackTop, rip : Int,
                IF_ : {0, 1}, mem : [Words -> Int]]

(* An interrupt is invisible to the code it interrupts: whenever that code *)
(* runs, registers, stack pointer, flag and instruction pointer are what   *)
(* its own instructions made them, a page fault's instruction counting as  *)
(* executed; and iretq never loads a selector beyond the kernel's GDT.     *)
ContextRestored ==
    /\ pc \in {"boot", "kernel"} =>
           <<regs, rsp, rip, IF_>> = <<own.regs, own.rsp, own.rip, own.IF_>>
    /\ pc = "kernel" => ss = DataSel

(* No stub, and no dispatcher, writes into the kernel's part of the stack. *)
StackSpared == \A w \in own.rsp..StackTop - 1 : mem[w] = own.mem[w]

(* page_fault_dispatch is called with the frame it expects: frame[0] is    *)
(* the error code, frame[1] the address of the instruction that faulted.   *)
FaultFramePassed ==
    (pc = "call" /\ vector = PageFault) =>
        /\ mem[regs["rdi"]] = ErrorCode
        /\ mem[regs["rdi"] + 1] = own.rip - kPfProbeInsnLen
=============================================================================
