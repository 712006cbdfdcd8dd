----------------------------- MODULE SerialPort -----------------------------
(***************************************************************************)
(* The serial line (src-os/common/serial.hpp): the loader and then the     *)
(* kernel each program the UART with init_115200 and write characters with *)
(* write_char. The UART (external) is a 16550: a transmit FIFO that port   *)
(* writes fill and a shift register that empties it at its own pace.       *)
(***************************************************************************)
EXTENDS Integers, Sequences, FiniteSets

CONSTANTS
    LoaderChars,    \* how many characters the loader writes
    KernelChars,    \* how many characters the kernel writes
    FifoDepth       \* characters the transmit FIFO holds (16)

ASSUME SerialAssumption ==
    {LoaderChars, KernelChars, FifoDepth} \subseteq Nat \ {0}

(* Ports relative to COM1_BASE; ports 0 and 1 have two meanings each.      *)
REG_THR == 0
REG_DLL == 0
REG_IER == 1
REG_DLM == 1
REG_FCR == 2
REG_LCR == 3

Out(port, value) == [port |-> port, value |-> value]

(* Mutants of init_115200: the divisor before its latch is open, the two   *)
(* halves of the divisor swapped, the latch left open.                     *)
init_latch_late ==
    << Out(REG_IER, 0), Out(REG_DLL, 16), Out(REG_DLM, 0), Out(REG_LCR, 128),
       Out(REG_LCR, 3), Out(REG_FCR, 7) >>
init_swapped ==
    << Out(REG_IER, 0), Out(REG_LCR, 128), Out(REG_DLL, 0), Out(REG_DLM, 16),
       Out(REG_LCR, 3), Out(REG_FCR, 7) >>
init_latch_open ==
    << Out(REG_IER, 0), Out(REG_LCR, 128), Out(REG_DLL, 16), Out(REG_DLM, 0),
       Out(REG_FCR, 7) >>

init_115200 ==
    << Out(REG_IER, 0), Out(REG_LCR, 128), Out(REG_DLL, 16), Out(REG_DLM, 0),
       Out(REG_LCR, 3), Out(REG_FCR, 7) >>

(* Character c is the c-th written on this boot; the loader's come first.  *)
write_char(c) == Out(REG_THR, c)
Chars == 1 .. LoaderChars + KernelChars
Program ==
    init_115200 \o [c \in 1..LoaderChars |-> write_char(c)]
        \o init_115200 \o [c \in 1..KernelChars |-> write_char(LoaderChars + c)]

VARIABLES
    at,             \* position in Program
    polls,          \* the operation at hand is a write_char that has yet to
                    \* see the transmitter empty
    dlab,           \* ports 0 and 1 are the divisor latch
    low, high,      \* the divisor latch
    fifo,           \* characters waiting
    shift,          \* the character being sent; 0: none
    wire            \* the characters sent, with the divisor they left at

uart == <<dlab, low, high, fifo, shift, wire>>
vars == <<at, polls, uart>>

divisor == high * 256 + low

Init ==
    /\ at = 1 /\ polls = FALSE
    /\ dlab = FALSE             \* as the firmware's console left it
    /\ low = 1 /\ high = 0
    /\ fifo = << >> /\ shift = 0 /\ wire = << >>
-----------------------------------------------------------------------------
(* What a write to a port does.                                            *)
outb(o) ==
    /\ dlab' = IF o.port = REG_LCR THEN o.value >= 128 ELSE dlab
    /\ low' = IF o.port = REG_DLL /\ dlab THEN o.value ELSE low
    /\ high' = IF o.port = REG_DLM /\ dlab THEN o.value ELSE high
    /\ fifo' = IF o.port = REG_FCR /\ o.value = 7 THEN << >>
               ELSE IF o.port = REG_THR /\ ~dlab /\ Len(fifo) < FifoDepth
               THEN Append(fifo, o.value)
               ELSE fifo
    /\ UNCHANGED <<shift, wire>>

IsChar(n) ==
    \/ n \in Len(init_115200) + 1 .. Len(init_115200) + LoaderChars
    \/ n > 2 * Len(init_115200) + LoaderChars

NextOp ==
    /\ at' = at + 1
    /\ polls' = IsChar(at + 1)

(* A write of init_115200: nothing is polled.                              *)
InitWrite ==
    /\ at <= Len(Program) /\ ~IsChar(at)
    /\ outb(Program[at])
    /\ NextOp

(* The loop of write_char: LSR bit 5 says that the FIFO is empty (the      *)
(* shift register may still be busy).                                      *)
THRE == fifo = << >>

PollReady ==
    /\ at <= Len(Program) /\ polls
    /\ THRE
    /\ polls' = FALSE
    /\ UNCHANGED <<at, uart>>

(* Mutant of WriteThr: the status is not waited for.                       *)
WriteThrBlind ==
    /\ at <= Len(Program) /\ IsChar(at)
    /\ outb(Program[at])
    /\ NextOp

WriteThr ==
    /\ at <= Len(Program) /\ IsChar(at) /\ ~polls
    /\ outb(Program[at])
    /\ NextOp

(* The UART sends: FIFO to shift register, shift register to the line.     *)
Load ==
    /\ shift = 0 /\ fifo # << >>
    /\ shift' = Head(fifo)
    /\ fifo' = Tail(fifo)
    /\ UNCHANGED <<at, polls, dlab, low, high, wire>>

Send ==
    /\ shift # 0
    /\ wire' = Append(wire, [char |-> shift, divisor |-> divisor])
    /\ shift' = 0
    /\ UNCHANGED <<at, polls, dlab, low, high, fifo>>

Idle == at > Len(Program) /\ fifo = << >> /\ shift = 0

Stopped ==
    /\ Idle
    /\ UNCHANGED vars

Software == InitWrite \/ PollReady \/ WriteThr
Next == Software \/ Load \/ Send \/ Stopped

(* The processor and the UART both keep going.                             *)
Spec == Init /\ [][Next]_vars /\ WF_vars(Software) /\ WF_vars(Load) /\ WF_vars(Send)
-----------------------------------------------------------------------------
(* Properties.                                                             *)

(* Every variable has its type; the FIFO never overflows.                  *)
TypeOK ==
    /\ at \in 1 .. Len(Program) + 1
    /\ polls \in BOOLEAN /\ dlab \in BOOLEAN
    /\ low \in 0..255 /\ high \in 0..255
    /\ fifo \in Seq(Chars) /\ Len(fifo) <= FifoDepth
    /\ shift \in Chars \cup {0}
    /\ wire \in Seq([char : Chars, divisor : Nat])

(* At any time every character written is on the line, in the shift        *)
(* register or in the FIFO, in the order of writing and once; only the     *)
(* loader's last one may have been dropped, by the kernel's init_115200.   *)
Written == {c \in Chars : \E n \in 1 .. at - 1 :
                              Program[n] = write_char(c) /\ IsChar(n)}
Line ==
    [n \in DOMAIN wire |-> wire[n].char]
        \o (IF shift = 0 THEN << >> ELSE << shift >>) \o fifo
NothingLostInTransit ==
    /\ \A m, n \in DOMAIN Line : m < n => Line[m] < Line[n]
    /\ \A n \in DOMAIN Line : Line[n] \in Written
    /\ \A c \in Written \ {LoaderChars} : \E n \in DOMAIN Line : Line[n] = c

(* Every character is sent with the divisor that init_115200 sets: no      *)
(* character is on its way while another divisor is in the latch, and none *)
(* is taken for a divisor.                                                 *)
OneDivisor == \A n \in DOMAIN wire : wire[n].divisor = 16

(* Every character arrives, except possibly the loader's last one.         *)
OnlyLoaderTailLost ==
    <>(\A c \in Chars \ {LoaderChars} : \E n \in DOMAIN wire : wire[n].char = c)

(* All of the expected output arrives (src-os/README.md, "Expected         *)
(* output"): the kernel's lines follow whole loader lines.                 *)
EverythingArrives ==
    Idle => \A c \in Chars : \E n \in DOMAIN wire : wire[n].char = c
=============================================================================
