----------------------------- MODULE TaskChoice -----------------------------
(***************************************************************************)
(* The choice of the next task, chooseNext of                              *)
(* src-c/07/01-sched-selection-sim: one pass over the tasks, one step per  *)
(* task. Time is a 64-bit counter. Tasks are numbered from 0, as in the    *)
(* code, which returns 0 also when it chose none.                          *)
(***************************************************************************)
EXTENDS Integers

CONSTANTS
    N,              \* number of tasks
    TimeMod         \* times count modulo this (2^64)

ASSUME TaskChoiceAssumption ==
    /\ N \in Nat
    /\ TimeMod \in Nat \ {0}

Tasks == 0..N - 1
Times == 0..TimeMod - 1
States == {"RUNNABLE", "BLOCKED", "EXITED"}

VARIABLES
    now, state, sliceEnd,   \* the arguments
    bestEnd, best, i,       \* the locals of chooseNext
    chosen                  \* what it returned, or -1

arguments == <<now, state, sliceEnd>>
vars == <<arguments, bestEnd, best, i, chosen>>

Init ==
    /\ now \in Times
    /\ state \in [Tasks -> States]
    /\ sliceEnd \in [Tasks -> Times]
    /\ bestEnd = (now + 1) % TimeMod
    /\ best = 0 /\ i = 0
    /\ chosen = -1

(* Mutants of Better: blocked tasks take part; the idle task is not passed *)
(* by a task that is due with it.                                          *)
BetterBlocked(t) == state[t] # "EXITED" /\ sliceEnd[t] <= bestEnd
BetterStrict(t) == state[t] = "RUNNABLE" /\ sliceEnd[t] < bestEnd

Better(t) == state[t] = "RUNNABLE" /\ sliceEnd[t] <= bestEnd

(* An iteration of the loop.                                               *)
Consider ==
    /\ i < N
    /\ IF Better(i)
       THEN bestEnd' = sliceEnd[i] /\ best' = i
       ELSE UNCHANGED <<bestEnd, best>>
    /\ i' = i + 1
    /\ UNCHANGED <<arguments, chosen>>

Return ==
    /\ i = N /\ chosen = -1
    /\ chosen' = best
    /\ UNCHANGED <<arguments, bestEnd, best, i>>

Returned ==
    /\ chosen # -1
    /\ UNCHANGED vars

Next == Consider \/ Return \/ Returned

Spec == Init /\ [][Next]_vars
-----------------------------------------------------------------------------
(* Properties.                                                             *)

(* Every variable has its type.                                            *)
TypeOK ==
    /\ now \in Times /\ state \in [Tasks -> States] /\ sliceEnd \in [Tasks -> Times]
    /\ bestEnd \in Times
    /\ i \in 0..N
    /\ best \in Tasks \cup {0}
    /\ chosen \in Tasks \cup {0, -1}

(* The tasks that may run: runnable, and due no later than the idle task,  *)
(* which is always due at now + 1 (a sum that wraps at the end of time).   *)
Eligible == {t \in Tasks : state[t] = "RUNNABLE" /\ sliceEnd[t] <= (now + 1) % TimeMod}

(* When a task may run, the task returned may run, none that may run is    *)
(* due before it, and it is the last of those due when it is: "the         *)
(* RUNNABLE task with the earliest (<=) sliceEnd" (lab text, line 13).     *)
EarliestChosen ==
    (chosen # -1 /\ Eligible # {}) =>
        /\ chosen \in Eligible
        /\ \A t \in Eligible :
              /\ sliceEnd[chosen] <= sliceEnd[t]
              /\ sliceEnd[t] = sliceEnd[chosen] => t <= chosen

(* The loop's invariant: best and bestEnd are right for the tasks seen.    *)
Seen == {t \in Eligible : t < i}
LoopInv ==
    /\ TypeOK
    /\ Seen = {} => best = 0 /\ bestEnd = (now + 1) % TimeMod
    /\ Seen # {} =>
          /\ best \in Seen /\ bestEnd = sliceEnd[best]
          /\ \A t \in Seen : /\ sliceEnd[best] <= sliceEnd[t]
                             /\ sliceEnd[t] = sliceEnd[best] => t <= best
    /\ chosen # -1 => i = N /\ chosen = best
=============================================================================
