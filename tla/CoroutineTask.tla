---------------------------- MODULE CoroutineTask ----------------------------
(***************************************************************************)
(* The coroutine task of src-c/02/02-coroutine-task: a Task object holds   *)
(* the handle of a coroutine frame, hands it on when it is moved, and      *)
(* destroys the frame when it ends. A frame is suspended at its start,     *)
(* runs to its end when it is resumed, and stays suspended there.          *)
(*                                                                         *)
(* What C++ leaves undefined is modelled as the frame's state "broken":    *)
(* resuming a frame at its end, resuming or destroying one that is gone.   *)
(***************************************************************************)
EXTENDS FiniteSets

CONSTANTS
    Objects,        \* the Task objects of a program, alive or not
    Frames,         \* the coroutine frames it may create
    NoFrame         \* the null handle

ASSUME NoFrameAssumption == NoFrame \notin Frames

VARIABLES
    alive,          \* the objects whose lifetime has begun and not ended
    h,              \* the handle in each object
    frame,          \* the state of each frame
    value           \* promise().value of each frame

tasksVars == <<alive, h, frame, value>>

FrameStates == {"none", "start", "end", "destroyed", "broken"}
Result == "42"      \* what the coroutine returns
Initial == "0"      \* value{}

TasksInit ==
    /\ alive = {}
    /\ h = [t \in Objects |-> NoFrame]
    /\ frame = [f \in Frames |-> "none"]
    /\ value = [f \in Frames |-> Initial]

(* Mutant of compute: the body runs at once (initial_suspend: never).      *)
computeEager(t, f) ==
    /\ t \notin alive /\ frame[f] = "none"
    /\ alive' = alive \cup {t}
    /\ h' = [h EXCEPT ![t] = f]
    /\ frame' = [frame EXCEPT ![f] = "start"]
    /\ value' = [value EXCEPT ![f] = Result]

(* A call of the coroutine: a frame is made, suspended before its body,    *)
(* and get_return_object wraps its handle in a new Task.                   *)
compute(t, f) ==
    /\ t \notin alive /\ frame[f] = "none"
    /\ alive' = alive \cup {t}
    /\ h' = [h EXCEPT ![t] = f]
    /\ frame' = [frame EXCEPT ![f] = "start"]
    /\ UNCHANGED value

(* Mutant of Move: the handle of the object moved from is kept.            *)
MoveKeep(t, o) ==
    /\ o \in alive /\ t \notin alive
    /\ alive' = alive \cup {t}
    /\ h' = [h EXCEPT ![t] = h[o]]
    /\ UNCHANGED <<frame, value>>

(* Task(Task&& o): t is constructed from o.                                *)
Move(t, o) ==
    /\ o \in alive /\ t \notin alive
    /\ alive' = alive \cup {t}
    /\ h' = [h EXCEPT ![t] = h[o], ![o] = NoFrame]
    /\ UNCHANGED <<frame, value>>

(* Mutant of Destroy: a frame that has run is thought to be gone.          *)
DestroyUnlessRun(t) ==
    /\ t \in alive
    /\ alive' = alive \ {t}
    /\ h' = [h EXCEPT ![t] = NoFrame]
    /\ frame' = [f \in Frames |->
                    IF f = h[t] /\ frame[f] # "end" THEN "destroyed" ELSE frame[f]]
    /\ UNCHANGED value

(* ~Task(): the frame, if there is one, is destroyed.                      *)
Destroy(t) ==
    /\ t \in alive
    /\ alive' = alive \ {t}
    /\ h' = [h EXCEPT ![t] = NoFrame]
    /\ frame' = [f \in Frames |->
                    IF f # h[t] THEN frame[f]
                    ELSE IF frame[f] \in {"start", "end"} THEN "destroyed" ELSE "broken"]
    /\ UNCHANGED value

(* run(): the body runs, co_return sets the value, and the frame suspends  *)
(* at its end. The code tests nothing: resuming through the null handle, a *)
(* frame at its end or one that is gone is undefined.                      *)
run(t) ==
    /\ t \in alive
    /\ IF h[t] = NoFrame
       THEN frame' = [f \in Frames |-> "broken"] /\ value' = value
       ELSE /\ frame' = [frame EXCEPT ![h[t]] = IF @ = "start" THEN "end" ELSE "broken"]
            /\ value' = [value EXCEPT ![h[t]] = Result]
    /\ UNCHANGED <<alive, h>>

(* The caller (external; main is one) runs a task that holds a frame, and  *)
(* runs it at most once.                                                   *)
RunOnce(t) ==
    /\ h[t] # NoFrame /\ frame[h[t]] # "end"
    /\ run(t)

TasksDone ==
    /\ alive = {} /\ \A f \in Frames : frame[f] # "none"
    /\ UNCHANGED tasksVars

TasksNext ==
    \/ \E t \in Objects, f \in Frames : compute(t, f)
    \/ \E t, o \in Objects : Move(t, o)
    \/ \E t \in Objects : Destroy(t) \/ RunOnce(t)
    \/ TasksDone

TasksSpec == TasksInit /\ [][TasksNext]_tasksVars
-----------------------------------------------------------------------------
(* Properties.                                                             *)

(* Every variable has its type, and nothing undefined has happened: no     *)
(* frame is resumed or destroyed after it is gone, whatever the order in   *)
(* which objects are moved, run and ended.                                 *)
TasksTypeOK ==
    /\ alive \subseteq Objects
    /\ h \in [Objects -> Frames \cup {NoFrame}]
    /\ frame \in [Frames -> FrameStates \ {"broken"}]
    /\ value \in [Frames -> {Initial, Result}]

(* A frame that exists has exactly one owner, an object that is alive; a   *)
(* frame that does not has none. So no frame leaks and none is destroyed   *)
(* twice.                                                                  *)
Owners(f) == {t \in Objects : h[t] = f}
OneOwner ==
    \A f \in Frames :
        IF frame[f] \in {"start", "end"}
        THEN \E t \in alive : Owners(f) = {t}
        ELSE Owners(f) = {}

(* A frame at its end holds the result, one that has not run the initial   *)
(* value: what run returns is what the coroutine returned.                 *)
ValueDelivered ==
    \A f \in Frames :
        /\ frame[f] = "end" => value[f] = Result
        /\ frame[f] \in {"none", "start"} => value[f] = Initial

(* However many tasks are made, moved and ended, and run once by callers   *)
(* that hold a frame, in whatever order: no frame is destroyed twice or    *)
(* resumed when it is gone, each has one owner until it is destroyed, and  *)
(* its value is what it returned.                                          *)
FramesSound == TasksTypeOK /\ OneOwner /\ ValueDelivered
=============================================================================
