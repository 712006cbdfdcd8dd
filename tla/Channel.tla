------------------------------- MODULE Channel -------------------------------
(***************************************************************************)
(* The channel of src-c/09/02-channel-send-recv-sim: struct Channel counts *)
(* the bytes, the capabilities and the messages it holds against three     *)
(* capacities. It keeps no messages; the model keeps them as history, to   *)
(* say what the counters should count.                                     *)
(***************************************************************************)
EXTENDS Integers, Sequences

CONSTANTS
    SizeMod,        \* size_t counts modulo this (2^64)
    Rooms,          \* capacities of the channels constructed
    Messages,       \* what is sent: [bytes, caps]
    Offers          \* what recv is called with: [bytes, caps]

Sizes == 0..SizeMod - 1
Lengths == [bytes : Sizes, caps : Sizes]

ChannelConstants ==
    /\ SizeMod \in Nat \ {0}
    /\ Rooms \subseteq [bytes : Sizes, caps : Sizes, msgs : 0..SizeMod - 2]
    /\ Messages \subseteq Lengths
    /\ Offers \subseteq Lengths

VARIABLES
    room,           \* bufCap, capsCap, msgQueueCap
    bytesUsed, capsUsed, msgQueueUsed,
    queue,          \* history: the messages sent and not received
    answer          \* which call came last, and what it returned

used == <<bytesUsed, capsUsed, msgQueueUsed>>
vars == <<room, used, queue, answer>>

Plus(a, b) == (a + b) % SizeMod
Minus(a, b) == (a - b) % SizeMod

Init ==
    /\ room \in Rooms
    /\ bytesUsed = 0 /\ capsUsed = 0 /\ msgQueueUsed = 0
    /\ queue = << >> /\ answer = "none"

Refused(what) ==
    /\ answer' = what
    /\ UNCHANGED <<room, used, queue>>

(* Mutant of HasRoom: the bytes are tested before the message is added.    *)
HasRoomBefore(m) ==
    /\ Plus(msgQueueUsed, 1) <= room.msgs
    /\ bytesUsed <= room.bytes
    /\ Plus(capsUsed, m.caps) <= room.caps

HasRoom(m) ==
    /\ Plus(msgQueueUsed, 1) <= room.msgs
    /\ Plus(bytesUsed, m.bytes) <= room.bytes
    /\ Plus(capsUsed, m.caps) <= room.caps

send(m) ==
    \/ /\ HasRoom(m)
       /\ bytesUsed' = Plus(bytesUsed, m.bytes)
       /\ capsUsed' = Plus(capsUsed, m.caps)
       /\ msgQueueUsed' = msgQueueUsed + 1
       /\ queue' = Append(queue, m)
       /\ answer' = "put"
       /\ UNCHANGED room
    \/ ~HasRoom(m) /\ Refused("not put")

(* recv takes every message to hold two bytes and one capability.          *)
PoppedBytes == 2
PoppedCaps == 1

CanRecv(offer) ==
    /\ msgQueueUsed # 0
    /\ offer.bytes >= PoppedBytes
    /\ offer.caps >= PoppedCaps

Popped ==
    /\ bytesUsed' = Minus(bytesUsed, PoppedBytes)
    /\ capsUsed' = Minus(capsUsed, PoppedCaps)

recv(offer) ==
    \/ /\ CanRecv(offer)
       /\ Popped
       /\ msgQueueUsed' = Minus(msgQueueUsed, 1)
       /\ queue' = IF queue = << >> THEN << >> ELSE Tail(queue)
       /\ answer' = "taken"
       /\ UNCHANGED room
    \/ ~CanRecv(offer) /\ Refused("not taken")

Next == (\E m \in Messages : send(m)) \/ (\E offer \in Offers : recv(offer))

Spec == Init /\ [][Next]_vars
-----------------------------------------------------------------------------
(* Properties.                                                             *)

(* Every variable has its type, and the counters stay within the           *)
(* capacities.                                                             *)
TypeOK ==
    /\ room \in Rooms
    /\ bytesUsed \in 0..room.bytes
    /\ capsUsed \in 0..room.caps
    /\ msgQueueUsed \in 0..room.msgs
    /\ queue \in Seq(Messages)
    /\ answer \in {"none", "put", "not put", "taken", "not taken"}

(* The bytes and the capabilities of a queue, summed.                      *)
BytesOf[q \in Seq(Lengths)] == IF q = << >> THEN 0 ELSE Head(q).bytes + BytesOf[Tail(q)]
CapsOf[q \in Seq(Lengths)] == IF q = << >> THEN 0 ELSE Head(q).caps + CapsOf[Tail(q)]

(* "A message record so recv knows how many bytes/caps to pop" (lab text,  *)
(* line 8): over any sequence of sends and receives the three counters are *)
(* those of the messages sent and not yet received. It fails for every     *)
(* message of another size than the one recv pops.                         *)
CountersMatch ==
    /\ msgQueueUsed = Len(queue)
    /\ bytesUsed = BytesOf[queue]
    /\ capsUsed = CapsOf[queue]

(* While nothing counts past SizeMod and no message is smaller than what   *)
(* recv pops for it, the channel never holds more messages, bytes or       *)
(* capabilities than its capacities, whatever is sent and received: what   *)
(* recv gives back is at most what the message took.                       *)
NothingWraps ==
    \A m \in Messages : /\ m.bytes \in PoppedBytes .. SizeMod - 1 - room.bytes
                        /\ m.caps \in PoppedCaps .. SizeMod - 1 - room.caps
NeverOverfull ==
    NothingWraps =>
        /\ Len(queue) <= room.msgs
        /\ BytesOf[queue] <= room.bytes /\ CapsOf[queue] <= room.caps
=============================================================================
