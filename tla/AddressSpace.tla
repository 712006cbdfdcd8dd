---------------------------- MODULE AddressSpace ----------------------------
(***************************************************************************)
(* What Stage 1 of the kernel promises, without page tables: it builds a   *)
(* partial map from virtual pages to physical pages one mapping at a time, *)
(* never changes a mapping it has made, and activates the map when, and    *)
(* only when, it is exactly the map the later stages run on.               *)
(***************************************************************************)
EXTENDS FiniteSets

CONSTANT Goals          \* the maps that may be asked for

VARIABLES goal,         \* the map to build: [virtual pages -> physical pages]
          space,        \* the mappings made so far
          live          \* has the map been activated?

Init ==
    /\ goal \in Goals
    /\ space = [v \in {} |-> 0]
    /\ live = FALSE

(* One more virtual page is mapped, to the physical page it should have.   *)
Map ==
    /\ ~live
    /\ \E v \in DOMAIN goal \ DOMAIN space :
          space' = [u \in DOMAIN space \cup {v} |->
                       IF u = v THEN goal[v] ELSE space[u]]
    /\ UNCHANGED <<goal, live>>

(* The complete map becomes the one the processor translates with.         *)
Activate ==
    /\ ~live
    /\ space = goal
    /\ live' = TRUE
    /\ UNCHANGED <<goal, space>>

Next == Map \/ Activate

Spec == Init /\ [][Next]_<<goal, space, live>>
=============================================================================
