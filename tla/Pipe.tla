-------------------------------- MODULE Pipe --------------------------------
(***************************************************************************)
(* The pipe of src-c/09/01-pipe-listener-wait-sim: poll reports whether    *)
(* there is something to read and room to write; write and read themselves *)
(* check nothing. Its users (external: readAsync and writeAsync of the     *)
(* lab's text) poll first, and call read or write, later, when the signal  *)
(* they wait for was reported. The lab's own main writes without polling,  *)
(* twice, within the capacity.                                             *)
(***************************************************************************)
EXTENDS Integers, Sequences

CONSTANTS
    Bytes,          \* what is written
    Capacities,     \* capacities of the pipes constructed
    Users           \* "reader", "writer"

PipeConstants ==
    /\ Capacities \subseteq Nat
    /\ Users \subseteq {"reader", "writer"}

VARIABLES
    cap, bytes,     \* struct Pipe
    seen,           \* per user: the signals its last poll reported
    last            \* history: which call came last

vars == <<cap, bytes, seen, last>>

Init ==
    /\ cap \in Capacities
    /\ bytes = << >>
    /\ seen = [u \in Users |-> {}]
    /\ last = "none"

(* Mutants of Signals: a full pipe reports WRITABLE; a single byte is not  *)
(* reported.                                                               *)
SignalsWhenFull ==
    {s \in {"READABLE", "WRITABLE"} :
        \/ s = "READABLE" /\ bytes # << >>
        \/ s = "WRITABLE" /\ Len(bytes) <= cap}

SignalsLate ==
    {s \in {"READABLE", "WRITABLE"} :
        \/ s = "READABLE" /\ Len(bytes) > 1
        \/ s = "WRITABLE" /\ Len(bytes) < cap}

Signals ==
    {s \in {"READABLE", "WRITABLE"} :
        \/ s = "READABLE" /\ bytes # << >>
        \/ s = "WRITABLE" /\ Len(bytes) < cap}

poll(u) ==
    /\ seen' = [seen EXCEPT ![u] = Signals]
    /\ UNCHANGED <<cap, bytes, last>>

write(v) ==
    /\ bytes' = Append(bytes, v)
    /\ last' = "put"
    /\ UNCHANGED cap

(* The first byte of an empty vector is undefined.                         *)
read ==
    /\ IF bytes = << >>
       THEN bytes' = bytes /\ last' = "undefined"
       ELSE bytes' = Tail(bytes) /\ last' = "taken"
    /\ UNCHANGED cap

(* A user waits for its signal, and acts once on what its poll reported.   *)
writeAsync(u, v) ==
    /\ u = "writer" /\ "WRITABLE" \in seen[u]
    /\ write(v)
    /\ seen' = [seen EXCEPT ![u] = {}]

readAsync(u) ==
    /\ u = "reader" /\ "READABLE" \in seen[u]
    /\ read
    /\ seen' = [seen EXCEPT ![u] = {}]

Next ==
    \E u \in Users : poll(u) \/ (\E v \in Bytes : writeAsync(u, v)) \/ readAsync(u)

(* Each end polls again and again, and acts on what it saw.                *)
Spec ==
    /\ Init /\ [][Next]_vars
    /\ \A u \in Users : WF_vars(poll(u)) /\ WF_vars(readAsync(u))
-----------------------------------------------------------------------------
(* Properties.                                                             *)

(* A pipe has room for a byte below its capacity; a reader takes any byte. *)
InRoom(q, capacity) == Len(q) <= capacity
AnyByte(offer, v) == TRUE
Fifo == INSTANCE BoundedQueue WITH
    Items <- Bytes, Offers <- {"byte"}, Fits <- InRoom, LargeEnough <- AnyByte,
    queue <- bytes, room <- cap, answer <- last

(* With one reader and one writer, a signal seen is still true when it is  *)
(* acted on, and the pipe is a bounded FIFO queue: never more than cap     *)
(* bytes, none lost, none read from an empty pipe.                         *)
ImplementsQueue == Fifo!Spec

(* What was written is read: a byte is seen by a later poll, so as long as *)
(* there are bytes the reader goes on reading, and none stays for ever.    *)
ReadGoesOn == ([]<>(bytes # << >>)) => []<><<\E u \in Users : readAsync(u)>>_vars
=============================================================================
