---------------------------- MODULE MCBootChain ----------------------------
(* Thirty pages of memory: the kernel, the stack and a buffer of 25 pages  *)
(* fit unless the firmware fragments them; its events take and free pages  *)
(* next to each of these and in the middle of the buffer. As in the code   *)
(* the headroom is twice the extra pages. The addresses reach as far as    *)
(* the headroom of the last page; the APIC is at page 77, behind the       *)
(* memory.                                                                 *)
EXTENDS BootChain

MCRam == 1..30
MCReserved == {3}
MCFrames == 0..77
MCEventPages == {1, 3, 4, 9, 16, 28, 30}
MCGarbage == {[type |-> "unusable", start |-> 0, pages |-> 0],
              [type |-> "conventional", start |-> 1, pages |-> 30]}
=============================================================================
