--------------------------- MODULE BootTranscript ---------------------------
(***************************************************************************)
(* What a user sees of the kernel on the serial line: the lines that       *)
(* src-os/README.md lists under "Expected output" from HELLO INIT on, each *)
(* whole, in this order, once. A line is sent in several writes, here two: *)
(* its beginning and its end.                                              *)
(***************************************************************************)
EXTENDS Integers, Sequences

Lines ==
    << "HELLO INIT", "STAGE 1: build paging", "STAGE 1: touch memory",
       "STAGE 1: paging done",
       "STAGE 2: begin", "STAGE 2: install idt", "STAGE 2: int3",
       "STAGE 2: #BP dispatcher", "STAGE 2: done",
       "STAGE 3: begin", "STAGE 3: pic ok", "STAGE 3: pit ok", "STAGE 3: sti",
       "STAGE 3: irq 1", "STAGE 3: irq 2", "STAGE 3: irq 3", "STAGE 3: done",
       "STAGE 4: begin", "STAGE 4: pic mask", "STAGE 4: lapic mmio",
       "STAGE 4: svr", "STAGE 4: timer", "STAGE 4: sti",
       "STAGE 4: irq 1", "STAGE 4: irq 2", "STAGE 4: irq 3", "STAGE 4: done",
       "STAGE 5: begin", "STAGE 5: pf gate", "STAGE 5: probe",
       "STAGE 5: #PF dispatch", "STAGE 5: cr2 ok", "STAGE 5: done" >>

(* The writes of the whole transcript.                                     *)
Whole == [n \in 1..2 * Len(Lines) |-> << Lines[(n + 1) \div 2], (n + 1) % 2 >>]

VARIABLE written        \* the writes made so far

Init == written = << >>

Write ==
    /\ Len(written) < Len(Whole)
    /\ written' = Append(written, Whole[Len(written) + 1])

Spec == Init /\ [][Write]_written /\ WF_written(Write)
=============================================================================
