---------------------------- MODULE BoundedQueue ----------------------------
(***************************************************************************)
(* What a bounded queue between two parties promises: what is put in while *)
(* it fits is taken out once, whole and in order; what does not fit is     *)
(* refused and changes nothing. Implemented by module Pipe.                *)
(***************************************************************************)
EXTENDS Sequences

CONSTANTS
    Items,              \* what may be put
    Offers,             \* what a taker may offer to receive into
    Fits(_, _),         \* does a queue fit a room?
    LargeEnough(_, _)   \* can an item be received into an offer?

VARIABLES queue, room, answer

Init == queue = << >> /\ answer = "none"

Put(x) ==
    /\ IF Fits(Append(queue, x), room)
       THEN queue' = Append(queue, x) /\ answer' = "put"
       ELSE queue' = queue /\ answer' = "not put"
    /\ UNCHANGED room

Take(offer) ==
    /\ IF queue # << >> /\ LargeEnough(offer, Head(queue))
       THEN queue' = Tail(queue) /\ answer' = "taken"
       ELSE queue' = queue /\ answer' = "not taken"
    /\ UNCHANGED room

Next == (\E x \in Items : Put(x)) \/ (\E offer \in Offers : Take(offer))

Spec == Init /\ [][Next]_<<queue, room, answer>>
=============================================================================
