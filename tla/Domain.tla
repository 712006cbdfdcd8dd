------------------------------- MODULE Domain -------------------------------
(***************************************************************************)
(* The domain of src-c/08/01-cap-pledge-sim: objects kept in fixed slots   *)
(* and named by a capability, the index of the slot. Slot 0 stays unused:  *)
(* Cap 0 is the null capability. An object id of 0 marks an empty slot.    *)
(***************************************************************************)
EXTENDS Integers, Sequences

CONSTANTS
    SlotCounts,     \* sizes of the domains constructed
    Ids             \* ids of the objects added

DomainConstants ==
    /\ SlotCounts \subseteq Nat
    /\ Ids \subseteq Nat \ {0}

VARIABLES
    n,              \* slots.size()
    slots,
    issued,         \* history: what add was given and returned, [obj, cap]
    answer          \* the last call's result, or -1

vars == <<n, slots, issued, answer>>

Indices == 0..n - 1

Init ==
    /\ n \in SlotCounts
    /\ slots = [i \in Indices |-> 0]
    /\ issued = << >>
    /\ answer = -1

(* Mutants of Empty: slots are not looked at; the last slot is left out.   *)
EmptyUntested == 1..n - 1
EmptyButLast == {i \in 1..n - 2 : slots[i] = 0}

Empty == {i \in 1..n - 1 : slots[i] = 0}

add(obj) ==
    /\ IF Empty = {}
       THEN answer' = 0 /\ UNCHANGED slots
       ELSE \E i \in Empty :
               /\ \A j \in Empty : i <= j
               /\ slots' = [slots EXCEPT ![i] = obj]
               /\ answer' = i
    /\ issued' = Append(issued, [obj |-> obj, cap |-> answer'])
    /\ UNCHANGED n

Lookup(c) == IF c < n THEN slots[c] ELSE 0

get(c) ==
    /\ answer' = Lookup(c)
    /\ UNCHANGED <<n, slots, issued>>

(* Bound: calls of add are two more than there are slots.                  *)
Next ==
    \/ Len(issued) < n + 2 /\ \E obj \in Ids : add(obj)
    \/ \E c \in 0..n : get(c)

Spec == Init /\ [][Next]_vars
-----------------------------------------------------------------------------
(* Properties.                                                             *)

(* Every variable has its type; slot 0 is never used.                      *)
TypeOK ==
    /\ n \in SlotCounts
    /\ slots \in [Indices -> Ids \cup {0}]
    /\ n > 0 => slots[0] = 0
    /\ issued \in Seq([obj : Ids, cap : Nat])
    /\ answer \in Int

(* A capability names one object for ever: no two adds return the same     *)
(* one, and looking it up gives the object it was returned for, whatever   *)
(* is added after it. A capability never returned names nothing.           *)
Names(c) == {k \in DOMAIN issued : issued[k].cap = c}
CapsName ==
    \A c \in 0..n :
        /\ c = 0 => Lookup(c) = 0
        /\ c # 0 /\ Names(c) = {} => Lookup(c) = 0
        /\ c # 0 => \A k \in Names(c) :
                       Names(c) = {k} /\ Lookup(c) = issued[k].obj

(* The null capability is returned only by a full domain, and then nothing *)
(* has changed: every slot but slot 0 holds what an earlier add put there. *)
NullOnlyWhenFull ==
    \A k \in DOMAIN issued :
        issued[k].cap = 0 => k >= n /\ \A i \in 1..n - 1 : slots[i] = issued[i].obj
=============================================================================
