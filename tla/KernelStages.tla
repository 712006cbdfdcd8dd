---------------------------- MODULE KernelStages ----------------------------
(***************************************************************************)
(* kernel_entry (src-os/kernel/init.cpp) from its first line to its final  *)
(* halt, with the interrupts and exceptions it provokes: Stage 2 (int3),   *)
(* Stage 3 (PIC and PIT), Stage 4 (local APIC timer), Stage 5 (page fault).*)
(* Stage 1 is here only the marker lines it prints and the boot GDT it     *)
(* loads; module Stage1Paging has the rest.                                *)
(*                                                                         *)
(* The processor executes the straight-line programs below, one operation  *)
(* of kernel_entry or of a dispatcher per step; the timers tick, and       *)
(* interrupts are delivered, between any two steps. A marker line takes    *)
(* two steps, so that an interrupt could come in the middle of it.         *)
(***************************************************************************)
EXTENDS Integers, Sequences

TicksWanted == 3    \* ticks each of Stages 3 and 4 waits for and prints

Breakpoint == 3
DoubleFault == 8    \* also IRQ0 of a PIC that was not remapped
PageFault == 14
IRQ0 == 32
LapicTimer == 34
Vectors == {Breakpoint, DoubleFault, PageFault, IRQ0, LapicTimer}

Op(op, arg) == [op |-> op, arg |-> arg]
Mark(line) == Op("mark", line)
SetGate(vector, type) == Op("idtSetGate", <<vector, type>>)
Lapic(register) == Op("lapic_mmio_write", register)

(* The body of kernel_entry.                                               *)
Stage1Ops ==
    << Mark("HELLO INIT"), Mark("STAGE 1: build paging"),
       Mark("STAGE 1: touch memory"), Mark("STAGE 1: paging done"),
       Op("lgdt", "") >>

Stage2Ops ==
    << Mark("STAGE 2: begin"), Op("cli", ""), Op("idtClearAll", ""),
       SetGate(Breakpoint, "trap"), Op("idtLoad", ""),
       Mark("STAGE 2: install idt"), Mark("STAGE 2: int3"), Op("int3", ""),
       Mark("STAGE 2: done") >>

Stage3Ops ==
    << Mark("STAGE 3: begin"), Op("pic_remap_and_mask", ""),
       Mark("STAGE 3: pic ok"), Op("pit_set_frequency", ""),
       Mark("STAGE 3: pit ok"), SetGate(IRQ0, "interrupt"), Op("idtLoad", ""),
       Mark("STAGE 3: sti"), Op("zero", "timer"), Op("sti", ""),
       Op("while", "timer"), Op("hlt", "timer"), Op("cli", ""),
       Mark("STAGE 3: done") >>

Stage4Ops ==
    << Mark("STAGE 4: begin"), Op("pic_mask_all", ""),
       Mark("STAGE 4: pic mask"), Mark("STAGE 4: lapic mmio"),
       Lapic("SVR"), Mark("STAGE 4: svr"), Lapic("LVT timer"),
       Lapic("timer init"), Mark("STAGE 4: timer"),
       SetGate(LapicTimer, "interrupt"), Op("idtLoad", ""),
       Mark("STAGE 4: sti"), Op("zero", "lapic"), Op("sti", ""),
       Op("while", "lapic"), Op("hlt", "lapic"), Op("cli", ""),
       Lapic("LVT masked"), Mark("STAGE 4: done") >>

Stage5Ops ==
    << Mark("STAGE 5: begin"), SetGate(PageFault, "trap"), Op("idtLoad", ""),
       Mark("STAGE 5: pf gate"), Mark("STAGE 5: probe"), Op("probe", ""),
       Mark("STAGE 5: done"), Op("halt", "") >>

kernel_entry == Stage1Ops \o Stage2Ops \o Stage3Ops \o Stage4Ops \o Stage5Ops

(* The dispatchers, with the iretq of the stub that calls them.            *)
breakpoint_dispatch == << Mark("STAGE 2: #BP dispatcher"), Op("iretq", "") >>

(* Mutant of timer_irq_dispatch: the stub falls through its iretq.         *)
timer_irq_dispatch_no_iretq ==
    << Op("eoi", "pic"), Op("count", "timer"), Op("tick", "timer") >>

timer_irq_dispatch ==
    << Op("eoi", "pic"), Op("count", "timer"), Op("tick", "timer"),
       Op("iretq", "") >>

(* Mutant of lapic_timer_dispatch: copied with the EOI of the PIC.         *)
lapic_timer_dispatch_pic_eoi ==
    << Op("eoi", "pic"), Op("count", "lapic"), Op("tick", "lapic"),
       Op("iretq", "") >>

lapic_timer_dispatch ==
    << Op("eoi", "lapic"), Op("count", "lapic"), Op("tick", "lapic"),
       Op("iretq", "") >>

page_fault_dispatch ==
    << Mark("STAGE 5: #PF dispatch"), Op("cr2", ""), Op("skip", ""),
       Op("iretq", "") >>

Main == 0
Code == [c \in {Main} \cup Vectors |->
            CASE c = Main -> kernel_entry
              [] c = Breakpoint -> breakpoint_dispatch
              [] c = IRQ0 -> timer_irq_dispatch
              [] c = LapicTimer -> lapic_timer_dispatch
              [] c = PageFault -> page_fault_dispatch
              [] c = DoubleFault -> << >>]

(* write_stage3_irq_tick and write_stage4_irq_tick.                        *)
TickLine ==
    [timer |-> << "STAGE 3: irq 1", "STAGE 3: irq 2", "STAGE 3: irq 3" >>,
     lapic |-> << "STAGE 4: irq 1", "STAGE 4: irq 2", "STAGE 4: irq 3" >>]

(* Counters stop at one more than the ticks wanted: the code only compares *)
(* them with TicksWanted.                                                  *)
CountBound == TicksWanted + 1
Capped(n) == IF n > CountBound THEN CountBound ELSE n

VARIABLES
    ctx,        \* the stack of running code: kernel_entry, then handlers;
                \* each with its position, the half of a line it has written,
                \* its local n and the IF it will restore
    IF_,        \* the interrupt flag
    halted,     \* the processor waits in hlt
    gdt, idtr,  \* the kernel's GDT and IDT are loaded
    idt,        \* the gate of each vector: "none", "trap" or "interrupt"
    cr2,        \* "probe" once the probe faulted
    pic,        \* 8259 and IRQ0: remapped, masked, request and in service
    pit,        \* is channel 0 programmed? (the firmware may leave it running)
    apic,       \* local APIC: enabled, timer LVT, count loaded, irr, isr
    count,      \* g_timer_irq_count and g_lapic_irq_count
    log,        \* what was written to the serial line
    crashed     \* an exception or interrupt found no handler: triple fault

cpuVars == <<ctx, IF_, halted>>
tableVars == <<gdt, idtr, idt, cr2>>
deviceVars == <<pic, pit, apic>>
vars == <<cpuVars, tableVars, deviceVars, count, log, crashed>>

Init ==
    /\ ctx = << [code |-> Main, at |-> 1, half |-> 0, n |-> 0, flag |-> FALSE] >>
    /\ IF_ = FALSE      \* a successful ExitBootServices turns interrupts off
    /\ halted = FALSE
    /\ gdt = FALSE /\ idtr = FALSE /\ cr2 = "none"
    /\ idt = [v \in Vectors |-> "none"]
    /\ pic \in [remapped : {FALSE}, masked : BOOLEAN, irr : BOOLEAN, isr : {FALSE}]
    /\ pit \in BOOLEAN
    /\ apic = [enabled |-> FALSE, lvt |-> "masked", count |-> FALSE,
               irr |-> FALSE, isr |-> FALSE]
    /\ count = [timer |-> 0, lapic |-> 0]
    /\ log = << >>
    /\ crashed = FALSE
-----------------------------------------------------------------------------
(* The processor.                                                          *)

Top == ctx[Len(ctx)]
Instr == Code[Top.code][Top.at]
Running == ~halted /\ ~crashed
Executes(op) == Running /\ Instr.op = op

Jump(at) == [ctx EXCEPT ![Len(ctx)] = [@ EXCEPT !.at = at, !.half = 0]]
Go(at) == ctx' = Jump(at) /\ UNCHANGED <<IF_, halted>>
GoOn == Go(Top.at + 1)

(* The processor takes vector v and will return to position ret; without a *)
(* usable gate it takes a double and then a triple fault. The stub saves   *)
(* all registers before it calls the dispatcher.                           *)
Take(v, ret) ==
    IF gdt /\ idtr /\ idt[v] # "none"
    THEN /\ ctx' = Append([ctx EXCEPT ![Len(ctx)].at = ret],
                          [code |-> v, at |-> 1, half |-> 0, n |-> 0, flag |-> IF_])
         /\ IF_' = (IF_ /\ idt[v] = "trap")
         /\ halted' = FALSE
         /\ UNCHANGED crashed
    ELSE /\ crashed' = TRUE
         /\ UNCHANGED cpuVars

(* Marker lines: written in two halves.                                    *)
WriteHalf(line) ==
    /\ log' = Append(log, <<line, Top.half>>)
    /\ ctx' = IF Top.half = 0 THEN [ctx EXCEPT ![Len(ctx)].half = 1]
              ELSE Jump(Top.at + 1)
    /\ UNCHANGED <<IF_, halted>>

WriteMark ==
    /\ Executes("mark")
    /\ WriteHalf(Instr.arg)
    /\ UNCHANGED <<tableVars, deviceVars, count, crashed>>

(* if (n <= 3): later ticks print nothing.                                 *)
WriteTick ==
    /\ Executes("tick")
    /\ Top.n <= TicksWanted
    /\ WriteHalf(TickLine[Instr.arg][Top.n])
    /\ UNCHANGED <<tableVars, deviceVars, count, crashed>>

SkipTick ==
    /\ Executes("tick")
    /\ Top.n > TicksWanted
    /\ GoOn
    /\ UNCHANGED <<tableVars, deviceVars, count, log, crashed>>

WriteCr2 ==
    /\ Executes("cr2")
    /\ WriteHalf(IF cr2 = "probe" THEN "STAGE 5: cr2 ok" ELSE "STAGE 5: cr2 bad")
    /\ UNCHANGED <<tableVars, deviceVars, count, crashed>>

LoadGdt ==
    /\ Executes("lgdt")
    /\ gdt' = TRUE
    /\ GoOn
    /\ UNCHANGED <<idtr, idt, cr2, deviceVars, count, log, crashed>>

idtClearAll ==
    /\ Executes("idtClearAll")
    /\ idt' = [v \in Vectors |-> "none"]
    /\ GoOn
    /\ UNCHANGED <<gdt, idtr, cr2, deviceVars, count, log, crashed>>

(* Mutant of idtSetGate: the type is ignored, every gate is a trap gate.   *)
idtSetTrapGate ==
    /\ Executes("idtSetGate")
    /\ idt' = [idt EXCEPT ![Instr.arg[1]] = "trap"]
    /\ GoOn
    /\ UNCHANGED <<gdt, idtr, cr2, deviceVars, count, log, crashed>>

idtSetGate ==
    /\ Executes("idtSetGate")
    /\ idt' = [idt EXCEPT ![Instr.arg[1]] = Instr.arg[2]]
    /\ GoOn
    /\ UNCHANGED <<gdt, idtr, cr2, deviceVars, count, log, crashed>>

idtLoad ==
    /\ Executes("idtLoad")
    /\ idtr' = TRUE
    /\ GoOn
    /\ UNCHANGED <<gdt, idt, cr2, deviceVars, count, log, crashed>>

Cli ==
    /\ Executes("cli")
    /\ IF_' = FALSE
    /\ ctx' = Jump(Top.at + 1)
    /\ UNCHANGED <<halted, tableVars, deviceVars, count, log, crashed>>

Sti ==
    /\ Executes("sti")
    /\ IF_' = TRUE
    /\ ctx' = Jump(Top.at + 1)
    /\ UNCHANGED <<halted, tableVars, deviceVars, count, log, crashed>>

(* int3 returns to the next instruction, a fault to the faulting one.      *)
Int3 ==
    /\ Executes("int3")
    /\ Take(Breakpoint, Top.at + 1)
    /\ UNCHANGED <<tableVars, deviceVars, count, log>>

Probe ==
    /\ Executes("probe")
    /\ cr2' = "probe"
    /\ Take(PageFault, Top.at)
    /\ UNCHANGED <<gdt, idtr, idt, deviceVars, count, log>>

(* frame[1] += kPfProbeInsnLen: return behind the probing instruction.     *)
SkipProbe ==
    /\ Executes("skip")
    /\ ctx' = [Jump(Top.at + 1) EXCEPT ![Len(ctx) - 1].at = @ + 1]
    /\ UNCHANGED <<IF_, halted, tableVars, deviceVars, count, log, crashed>>

Iretq ==
    /\ Executes("iretq")
    /\ ctx' = SubSeq(ctx, 1, Len(ctx) - 1)
    /\ IF_' = Top.flag
    /\ UNCHANGED <<halted, tableVars, deviceVars, count, log, crashed>>

ZeroCount ==
    /\ Executes("zero")
    /\ count' = [count EXCEPT ![Instr.arg] = 0]
    /\ GoOn
    /\ UNCHANGED <<tableVars, deviceVars, log, crashed>>

(* n = ++count.                                                            *)
Count ==
    /\ Executes("count")
    /\ LET n == Capped(count[Instr.arg] + 1) IN
          /\ count' = [count EXCEPT ![Instr.arg] = n]
          /\ ctx' = [Jump(Top.at + 1) EXCEPT ![Len(ctx)].n = n]
    /\ UNCHANGED <<IF_, halted, tableVars, deviceVars, log, crashed>>

(* while (count < 3) hlt: the test, and the hlt that waits for an          *)
(* interrupt and then goes back to the test.                               *)
(* Mutants of LoopTest: it leaves one tick early; it does not see the      *)
(* counter change (not volatile); it leaves behind the cli.                *)
LoopTestOneEarly ==
    /\ Executes("while")
    /\ Go(IF count[Instr.arg] < TicksWanted - 1 THEN Top.at + 1 ELSE Top.at + 2)
    /\ UNCHANGED <<tableVars, deviceVars, count, log, crashed>>
LoopTestCached ==
    /\ Executes("while")
    /\ Go(Top.at + 1)
    /\ UNCHANGED <<tableVars, deviceVars, count, log, crashed>>
LoopTestPastCli ==
    /\ Executes("while")
    /\ Go(IF count[Instr.arg] < TicksWanted THEN Top.at + 1 ELSE Top.at + 3)
    /\ UNCHANGED <<tableVars, deviceVars, count, log, crashed>>

LoopTest ==
    /\ Executes("while")
    /\ Go(IF count[Instr.arg] < TicksWanted THEN Top.at + 1 ELSE Top.at + 2)
    /\ UNCHANGED <<tableVars, deviceVars, count, log, crashed>>

Hlt ==
    /\ Executes("hlt")
    /\ halted' = TRUE
    /\ ctx' = Jump(Top.at - 1)
    /\ UNCHANGED <<IF_, tableVars, deviceVars, count, log, crashed>>

(* for (;;) cli; hlt at the end of kernel_entry, and after a triple fault. *)
Stopped ==
    /\ crashed \/ Executes("halt")
    /\ UNCHANGED vars
-----------------------------------------------------------------------------
(* The devices, as far as the kernel programs them.                        *)

(* Mutant of pic_remap_and_mask: the firmware's vectors stay.              *)
pic_mask_only ==
    /\ Executes("pic_remap_and_mask")
    /\ pic' = [pic EXCEPT !.masked = FALSE]
    /\ GoOn
    /\ UNCHANGED <<tableVars, pit, apic, count, log, crashed>>

pic_remap_and_mask ==
    /\ Executes("pic_remap_and_mask")
    /\ pic' = [remapped |-> TRUE, masked |-> FALSE, irr |-> FALSE, isr |-> FALSE]
    /\ GoOn
    /\ UNCHANGED <<tableVars, pit, apic, count, log, crashed>>

pic_mask_all ==
    /\ Executes("pic_mask_all")
    /\ pic' = [pic EXCEPT !.masked = TRUE]
    /\ GoOn
    /\ UNCHANGED <<tableVars, pit, apic, count, log, crashed>>

pit_set_frequency ==
    /\ Executes("pit_set_frequency")
    /\ pit' = TRUE
    /\ GoOn
    /\ UNCHANGED <<tableVars, pic, apic, count, log, crashed>>

(* A disabled APIC keeps its LVT entries masked.                           *)
lapic_mmio_write ==
    /\ Executes("lapic_mmio_write")
    /\ apic' = CASE Instr.arg = "SVR" -> [apic EXCEPT !.enabled = TRUE]
                 [] Instr.arg = "LVT timer" ->
                        [apic EXCEPT !.lvt = IF apic.enabled THEN "periodic" ELSE @]
                 [] Instr.arg = "timer init" -> [apic EXCEPT !.count = TRUE]
                 [] Instr.arg = "LVT masked" -> [apic EXCEPT !.lvt = "masked"]
    /\ GoOn
    /\ UNCHANGED <<tableVars, pic, pit, count, log, crashed>>

(* End of interrupt: written to the PIC or to the APIC.                    *)
Eoi ==
    /\ Executes("eoi")
    /\ pic' = IF Instr.arg = "pic" THEN [pic EXCEPT !.isr = FALSE] ELSE pic
    /\ apic' = IF Instr.arg = "lapic" THEN [apic EXCEPT !.isr = FALSE] ELSE apic
    /\ GoOn
    /\ UNCHANGED <<tableVars, pit, count, log, crashed>>

(* A tick while the last one is still requested is lost.                   *)
PitTick ==
    /\ pit /\ ~pic.irr
    /\ pic' = [pic EXCEPT !.irr = TRUE]
    /\ UNCHANGED <<cpuVars, tableVars, pit, apic, count, log, crashed>>

ApicTick ==
    /\ apic.count /\ apic.lvt = "periodic" /\ ~apic.irr
    /\ apic' = [apic EXCEPT !.irr = TRUE]
    /\ UNCHANGED <<cpuVars, tableVars, pic, pit, count, log, crashed>>

DeliverIrq0 ==
    /\ ~crashed /\ IF_
    /\ pic.irr /\ ~pic.masked /\ ~pic.isr
    /\ pic' = [pic EXCEPT !.irr = FALSE, !.isr = TRUE]
    /\ Take(IF pic.remapped THEN IRQ0 ELSE DoubleFault, Top.at)
    /\ UNCHANGED <<tableVars, pit, apic, count, log>>

DeliverApicTimer ==
    /\ ~crashed /\ IF_
    /\ apic.enabled /\ apic.irr /\ ~apic.isr
    /\ apic' = [apic EXCEPT !.irr = FALSE, !.isr = TRUE]
    /\ Take(LapicTimer, Top.at)
    /\ UNCHANGED <<tableVars, pic, pit, count, log>>

Cpu ==
    \/ WriteMark \/ WriteTick \/ SkipTick \/ WriteCr2
    \/ LoadGdt \/ idtClearAll \/ idtSetGate \/ idtLoad
    \/ Cli \/ Sti \/ Int3 \/ Probe \/ SkipProbe \/ Iretq
    \/ ZeroCount \/ Count \/ LoopTest \/ Hlt
    \/ pic_remap_and_mask \/ pic_mask_all \/ pit_set_frequency
    \/ lapic_mmio_write \/ Eoi

Deliver == DeliverIrq0 \/ DeliverApicTimer

Next == Cpu \/ PitTick \/ ApicTick \/ Deliver \/ Stopped

(* kernel_entry itself, rather than a handler, executes.                   *)
MainStep == Len(ctx) = 1 /\ Cpu

(* The processor keeps executing and takes pending interrupts, the timers  *)
(* keep ticking, and their period is long enough for kernel_entry to get   *)
(* on between two interrupts.                                              *)
Fairness ==
    /\ WF_vars(Cpu)
    /\ SF_vars(MainStep)
    /\ WF_vars(Deliver)
    /\ WF_vars(PitTick)
    /\ WF_vars(ApicTick)

Spec == Init /\ [][Next]_vars /\ Fairness
-----------------------------------------------------------------------------
(* Properties.                                                             *)

(* Every variable has its type, and code positions stay inside the code.   *)
TypeOK ==
    /\ \A d \in DOMAIN ctx :
          /\ ctx[d].code \in {Main} \cup Vectors
          /\ ctx[d].at \in DOMAIN Code[ctx[d].code]
          /\ ctx[d].half \in 0..1
          /\ ctx[d].n \in 0..CountBound
          /\ ctx[d].flag \in BOOLEAN
    /\ {IF_, halted, gdt, idtr, pit, crashed} \subseteq BOOLEAN
    /\ idt \in [Vectors -> {"none", "trap", "interrupt"}]
    /\ cr2 \in {"none", "probe"}
    /\ pic \in [remapped : BOOLEAN, masked : BOOLEAN, irr : BOOLEAN, isr : BOOLEAN]
    /\ apic \in [enabled : BOOLEAN, lvt : {"masked", "periodic"},
                 count : BOOLEAN, irr : BOOLEAN, isr : BOOLEAN]
    /\ count \in [timer : 0..CountBound, lapic : 0..CountBound]

(* No interrupt or exception ever arrives before its gate, the IDT and the *)
(* GDT are in place: not a tick the firmware's timers left pending, not    *)
(* the APIC timer, which is armed before its gate is installed.            *)
NoTripleFault == ~crashed

(* Handlers never nest: a tick that arrives while one runs waits, so the   *)
(* counters and the serial line have one user at a time.                   *)
NoNesting == Len(ctx) <= 2

(* A timer handler runs only while kernel_entry waits for that timer (at   *)
(* the loop or at the cli that ends it): no tick of Stage 3 reaches Stage  *)
(* 4, none of Stage 4 reaches the page-fault probe.                        *)
WaitingFor(at, c) ==
    \E loop \in DOMAIN kernel_entry :
        /\ kernel_entry[loop] = Op("while", c)
        /\ at \in loop .. loop + 2
TicksOnlyAwaited ==
    \A d \in DOMAIN ctx :
        /\ ctx[d].code = IRQ0 => WaitingFor(ctx[1].at, "timer")
        /\ ctx[d].code = LapicTimer => WaitingFor(ctx[1].at, "lapic")

(* The controllers are told of the end of every interrupt they delivered:  *)
(* an in-service bit belongs to a handler that has yet to write its EOI.   *)
InServiceOnlyUntilEoi ==
    /\ pic.isr => \E d \in DOMAIN ctx : ctx[d].code = IRQ0 /\ ctx[d].at = 1
    /\ apic.isr => \E d \in DOMAIN ctx : ctx[d].code = LapicTimer /\ ctx[d].at = 1

(* The serial output is the documented transcript, line by line, whatever  *)
(* the timing of the ticks, and is completed.                              *)
Transcript == INSTANCE BootTranscript WITH written <- log
PrintsTranscript == Transcript!Spec

(* kernel_entry comes to its final halt with interrupts off, all lines     *)
(* printed and no tick awaited: no wakeup is lost between the test of the  *)
(* counter and the hlt.                                                    *)
Finishes == <>[](Len(ctx) = 1 /\ Instr.op = "halt" /\ ~IF_ /\ log = Transcript!Whole)
=============================================================================
