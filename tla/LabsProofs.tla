----------------------------- MODULE LabsProofs -----------------------------
(***************************************************************************)
(* The book's labs: the loop of chooseNext, for every number of tasks; the *)
(* ownership of coroutine frames, for any number of objects and frames;    *)
(* the capabilities of a domain of any size; the decision about an address *)
(* space of any number of ranges; the pipe as a bounded queue and the      *)
(* channel's capacities, whatever they are. The first two are proved of    *)
(* the lab's own specification and carried over to LabsSpec, in which one  *)
(* lab runs.                                                               *)
(***************************************************************************)
EXTENDS Labs, Sequences, WellFoundedInduction, TLAPS

(* chooseNext: LoopInv is inductive, and gives what it returns.            *)
IdleEnd == (now + 1) % TimeMod

(* The time at which the idle task is due is a time.                       *)
LEMMA IdleEndType ==
    ASSUME now \in Times
    PROVE  IdleEnd \in Times
  BY TaskChoiceAssumption DEF IdleEnd, Times

(* A call begins with no task seen.                                        *)
LEMMA LoopInit == Init => LoopInv
<1> SUFFICES ASSUME Init PROVE LoopInv
  OBVIOUS
<1>1. Seen = {}
  BY DEF Init, Seen, Eligible, Tasks
<1>2. TypeOK
  <2>1. bestEnd \in Times
    BY IdleEndType DEF Init, IdleEnd
  <2> QED
    BY <2>1, TaskChoiceAssumption DEF Init, TypeOK, Tasks
<1> QED
  BY <1>1, <1>2 DEF Init, LoopInv

(* A task seen joins the tasks seen when it may run, and only then does it *)
(* become the best.                                                        *)
LEMMA ConsiderKeeps == LoopInv /\ Consider => LoopInv'
<1> SUFFICES ASSUME LoopInv, Consider PROVE LoopInv'
  OBVIOUS
<1> DEFINE newSeen == Seen'
<1>1. TypeOK /\ i \in Tasks /\ i' = i + 1 /\ now' = now /\ chosen' = chosen
    /\ state' = state /\ sliceEnd' = sliceEnd /\ chosen = -1
  BY TaskChoiceAssumption DEF LoopInv, TypeOK, Consider, arguments, Tasks
<1>16. Times \subseteq Int
  BY DEF Times
<1>17. sliceEnd[i] \in Times /\ bestEnd \in Times
  BY <1>1 DEF TypeOK
<1>2. IdleEnd \in Int /\ sliceEnd[i] \in Int /\ bestEnd \in Int
  BY <1>1, <1>16, <1>17, IdleEndType DEF TypeOK
<1>3. TypeOK'
  BY <1>1, <1>17, TaskChoiceAssumption DEF TypeOK, Consider, Tasks
<1>4. Eligible' = Eligible /\ Eligible \subseteq Tasks
  BY <1>1 DEF Eligible
<1>7. Tasks \subseteq Int
  BY TaskChoiceAssumption DEF Tasks
<1>5. newSeen = IF i \in Eligible THEN Seen \cup {i} ELSE Seen
  <2>1. newSeen = {t \in Eligible : t < i + 1}
    BY <1>1, <1>4 DEF Seen
  <2>2. \A t \in Eligible : t < i + 1 <=> (t < i \/ t = i)
    BY <1>1, <1>4, <1>7
  <2> HIDE DEF newSeen
  <2> QED
    BY <2>1, <2>2 DEF Seen
<1>6. \A t \in Seen : t \in Int /\ t < i /\ sliceEnd[t] \in Int
  BY <1>1, <1>7, <1>16 DEF Seen, Eligible, TypeOK
<1>8. (i \in Eligible) <=> (state[i] = "RUNNABLE" /\ sliceEnd[i] <= IdleEnd)
  BY <1>1 DEF Eligible, IdleEnd
<1>9. Seen = {} => best = 0 /\ bestEnd = IdleEnd
  BY DEF LoopInv, IdleEnd
<1>10. Seen # {} =>
          /\ best \in Seen /\ bestEnd = sliceEnd[best]
          /\ \A t \in Seen : /\ sliceEnd[best] <= sliceEnd[t]
                             /\ sliceEnd[t] = sliceEnd[best] => t <= best
  BY DEF LoopInv
<1>11. bestEnd <= IdleEnd
  <2>1. CASE Seen = {}
    BY <2>1, <1>2, <1>9
  <2>2. CASE Seen # {}
    BY <2>2, <1>10 DEF Seen, Eligible, IdleEnd
  <2> QED
    BY <2>1, <2>2
<1> DEFINE NewBest ==
        /\ best' \in newSeen /\ bestEnd' = sliceEnd[best']
        /\ \A t \in newSeen : /\ sliceEnd[best'] <= sliceEnd[t]
                              /\ sliceEnd[t] = sliceEnd[best'] => t <= best'
<1>12. newSeen = {} => best' = 0 /\ bestEnd' = IdleEnd
  <2> SUFFICES ASSUME newSeen = {} PROVE best' = 0 /\ bestEnd' = IdleEnd
    OBVIOUS
  <2>1. Seen = {} /\ i \notin Eligible
    BY <1>5
  <2>2. ~Better(i)
    BY <2>1, <1>8, <1>9 DEF Better
  <2> QED
    BY <2>1, <2>2, <1>9 DEF Consider
<1>13. newSeen # {} => NewBest
  <2> SUFFICES ASSUME newSeen # {} PROVE NewBest
    OBVIOUS
  <2>1. CASE Better(i)
    <3>1. best' = i /\ bestEnd' = sliceEnd[i] /\ sliceEnd[i] <= bestEnd
      BY <2>1 DEF Consider, Better
    <3>4. IdleEnd \in Int /\ sliceEnd[i] <= IdleEnd
      BY <3>1, <1>2, <1>11
    <3>2. i \in Eligible /\ newSeen = Seen \cup {i}
      BY <2>1, <3>4, <1>5, <1>8 DEF Better
    <3>3. \A t \in Seen : sliceEnd[i] <= sliceEnd[t] /\ t <= i
      <4> SUFFICES ASSUME NEW t \in Seen PROVE sliceEnd[i] <= sliceEnd[t] /\ t <= i
        OBVIOUS
      <4>1. t \in Int /\ t < i /\ sliceEnd[t] \in Int /\ i \in Int
        BY <1>1, <1>6, <1>7
      <4>2. sliceEnd[i] <= bestEnd /\ bestEnd <= sliceEnd[t]
        BY <3>1, <1>10
      <4> QED
        BY <4>1, <4>2, <1>2
    <3>5. i \in Int
      BY <1>1, <1>7
    <3> HIDE DEF newSeen
    <3> QED
      BY <3>1, <3>2, <3>3, <3>5, <1>2
  <2>2. CASE ~Better(i)
    <3>1. best' = best /\ bestEnd' = bestEnd
      BY <2>2 DEF Consider
    <3>2. CASE i \notin Eligible
      <4>1. newSeen = Seen
        BY <3>2, <1>5
      <4> HIDE DEF newSeen
      <4> QED
        BY <3>1, <4>1, <1>10
    <3>3. CASE i \in Eligible
      <4>1. sliceEnd[i] > bestEnd
        <5>1. ~(sliceEnd[i] <= bestEnd)
          BY <3>3, <2>2, <1>8 DEF Better
        <5> QED
          BY <5>1, <1>2
      <4>2. Seen # {}
        <5>1. sliceEnd[i] <= IdleEnd
          BY <3>3, <1>8
        <5>2. bestEnd # IdleEnd
          BY <5>1, <4>1, <1>2
        <5> QED
          BY <5>2, <1>9
      <4>3. newSeen = Seen \cup {i}
        BY <3>3, <1>5
      <4>4. sliceEnd[best] < sliceEnd[i]
        BY <4>1, <4>2, <1>10, <1>2
      <4>5. sliceEnd[best] \in Int /\ sliceEnd[i] \in Int
        BY <4>2, <1>2, <1>6, <1>10
      <4> HIDE DEF newSeen
      <4> QED
        BY <3>1, <4>2, <4>3, <4>4, <4>5, <1>10
    <3> QED
      BY <3>2, <3>3
  <2> QED
    BY <2>1, <2>2
<1>14. IdleEnd' = IdleEnd
  BY <1>1 DEF IdleEnd
<1>15. chosen' = -1
  BY <1>1
<1> QED
  BY <1>1, <1>3, <1>12, <1>13, <1>14, <1>15 DEF LoopInv, IdleEnd

(* Every step keeps the loop's invariant.                                  *)
LEMMA LoopStep == LoopInv /\ [Next]_vars => LoopInv'
<1> SUFFICES ASSUME LoopInv, [Next]_vars PROVE LoopInv'
  OBVIOUS
<1>1. CASE Consider
  BY <1>1, ConsiderKeeps
<1>2. CASE Return
  <2>1. best \in Tasks \cup {0}
    BY DEF LoopInv, TypeOK
  <2> QED
    BY <1>2, <2>1 DEF Return, LoopInv, TypeOK, arguments, Seen, Eligible
<1>3. CASE UNCHANGED vars
  BY <1>3 DEF vars, arguments, LoopInv, TypeOK, Seen, Eligible
<1> QED
  BY <1>1, <1>2, <1>3 DEF Next, Returned

(* The loop's invariant holds in every state.                              *)
THEOREM LoopCorrect == Spec => []LoopInv
  BY LoopInit, LoopStep, PTL DEF Spec

(* Whatever the tasks, chooseNext returns the last of the earliest tasks   *)
(* that may run, if one may.                                               *)
THEOREM ChoosesEarliest == Spec => []EarliestChosen
<1>1. LoopInv => EarliestChosen
  <2> SUFFICES ASSUME LoopInv, chosen # -1, Eligible # {} PROVE
          /\ chosen \in Eligible
          /\ \A t \in Eligible :
                /\ sliceEnd[chosen] <= sliceEnd[t]
                /\ sliceEnd[t] = sliceEnd[chosen] => t <= chosen
    BY DEF EarliestChosen
  <2>1. i = N /\ chosen = best
    BY DEF LoopInv
  <2>2. Seen = Eligible
    BY <2>1, TaskChoiceAssumption DEF Seen, Eligible, Tasks
  <2> QED
    BY <2>1, <2>2 DEF LoopInv
<1> QED
  BY <1>1, LoopCorrect, PTL
-----------------------------------------------------------------------------
(* The coroutine task: the three parts of OneOwner are inductive together  *)
(* with the types.                                                         *)
Live == {"start", "end"}
HandlesLive == \A t \in Objects : h[t] # NoFrame => t \in alive /\ frame[h[t]] \in Live
HandlesApart == \A t, u \in Objects : h[t] # NoFrame /\ h[t] = h[u] => t = u
FramesHeld == \A f \in Frames : frame[f] \in Live => \E t \in Objects : h[t] = f
OwnerInv == TasksTypeOK /\ HandlesLive /\ HandlesApart /\ FramesHeld /\ ValueDelivered

(* At the start there are no objects and no frames.                        *)
LEMMA OwnerInit == TasksInit => OwnerInv
  BY NoFrameAssumption DEF TasksInit, OwnerInv, TasksTypeOK, HandlesLive, HandlesApart, FramesHeld,
     ValueDelivered, FrameStates, Live, Initial, Result

(* A new frame has the new object as its only owner.                       *)
LEMMA ComputeKeeps ==
    ASSUME OwnerInv, NEW t \in Objects, NEW f \in Frames, compute(t, f)
    PROVE  OwnerInv'
<1>1. /\ t \notin alive /\ frame[f] = "none" /\ alive' = alive \cup {t}
      /\ h' = [h EXCEPT ![t] = f] /\ frame' = [frame EXCEPT ![f] = "start"]
      /\ value' = value
  BY DEF compute
<1>2. TasksTypeOK /\ HandlesLive /\ HandlesApart /\ FramesHeld /\ ValueDelivered
  BY DEF OwnerInv
<1>3. TasksTypeOK'
  BY <1>1, <1>2 DEF TasksTypeOK, FrameStates
<1>4. \A u \in Objects : h[u] # f
  BY <1>1, <1>2, NoFrameAssumption DEF HandlesLive, Live
<1>5. h[t] = NoFrame
  BY <1>1, <1>2 DEF HandlesLive
<1>6. HandlesLive'
  BY <1>1, <1>2, <1>4, NoFrameAssumption DEF HandlesLive, TasksTypeOK, Live
<1>7. HandlesApart'
  BY <1>1, <1>2, <1>4 DEF HandlesApart, TasksTypeOK
<1>8. FramesHeld'
  <2> SUFFICES ASSUME NEW g \in Frames, frame'[g] \in Live
               PROVE  \E u \in Objects : h'[u] = g
    BY DEF FramesHeld
  <2>1. CASE g = f
    BY <2>1, <1>1, <1>2 DEF TasksTypeOK
  <2>2. CASE g # f
    <3>1. frame[g] \in Live
      BY <2>2, <1>1, <1>2 DEF TasksTypeOK
    <3>2. PICK u \in Objects : h[u] = g
      BY <3>1, <1>2 DEF FramesHeld
    <3>3. u # t
      BY <3>2, <1>5, NoFrameAssumption
    <3> QED
      BY <3>2, <3>3, <1>1, <1>2 DEF TasksTypeOK
  <2> QED
    BY <2>1, <2>2
<1>9. ValueDelivered'
  BY <1>1, <1>2 DEF ValueDelivered, TasksTypeOK
<1> QED
  BY <1>3, <1>6, <1>7, <1>8, <1>9 DEF OwnerInv

(* Moving hands the frame on: it has one owner before and after.           *)
LEMMA MoveKeeps ==
    ASSUME OwnerInv, NEW t \in Objects, NEW o \in Objects, Move(t, o)
    PROVE  OwnerInv'
<1>1. /\ o \in alive /\ t \notin alive /\ alive' = alive \cup {t}
      /\ h' = [h EXCEPT ![t] = h[o], ![o] = NoFrame]
      /\ frame' = frame /\ value' = value
  BY DEF Move
<1>2. TasksTypeOK /\ HandlesLive /\ HandlesApart /\ FramesHeld /\ ValueDelivered
  BY DEF OwnerInv
<1>3. t # o
  BY <1>1
<1>4. /\ h' \in [Objects -> Frames \cup {NoFrame}]
      /\ h'[t] = h[o] /\ h'[o] = NoFrame
      /\ \A u \in Objects \ {t, o} : h'[u] = h[u]
  BY <1>1, <1>2, <1>3 DEF TasksTypeOK
<1>5. TasksTypeOK'
  BY <1>1, <1>2, <1>4 DEF TasksTypeOK
<1>6. HandlesLive'
  BY <1>1, <1>2, <1>4 DEF HandlesLive
<1>7. HandlesApart'
  BY <1>2, <1>4 DEF HandlesApart
<1>8. FramesHeld'
  <2> SUFFICES ASSUME NEW g \in Frames, frame[g] \in Live
               PROVE  \E u \in Objects : h'[u] = g
    BY <1>1 DEF FramesHeld
  <2>1. PICK u \in Objects : h[u] = g
    BY <1>2 DEF FramesHeld
  <2>2. u # t
    BY <2>1, <1>1, <1>2, NoFrameAssumption DEF HandlesLive
  <2> QED
    BY <2>1, <2>2, <1>4
<1>9. ValueDelivered'
  BY <1>1, <1>2 DEF ValueDelivered
<1> QED
  BY <1>5, <1>6, <1>7, <1>8, <1>9 DEF OwnerInv

(* The end of an object destroys the frame it owns, which nobody else does.*)
LEMMA DestroyKeeps ==
    ASSUME OwnerInv, NEW t \in Objects, Destroy(t)
    PROVE  OwnerInv'
<1>1. /\ t \in alive /\ alive' = alive \ {t}
      /\ h' = [h EXCEPT ![t] = NoFrame] /\ value' = value
      /\ frame' = [f \in Frames |->
                      IF f # h[t] THEN frame[f]
                      ELSE IF frame[f] \in {"start", "end"} THEN "destroyed" ELSE "broken"]
  BY DEF Destroy
<1>2. TasksTypeOK /\ HandlesLive /\ HandlesApart /\ FramesHeld /\ ValueDelivered
  BY DEF OwnerInv
<1>3. /\ h' \in [Objects -> Frames \cup {NoFrame}]
      /\ h'[t] = NoFrame /\ \A u \in Objects \ {t} : h'[u] = h[u]
  BY <1>1, <1>2 DEF TasksTypeOK
<1>4. \A f \in Frames : frame'[f] = IF f # h[t] THEN frame[f] ELSE "destroyed"
  BY <1>1, <1>2, NoFrameAssumption DEF HandlesLive, Live
<1>5. TasksTypeOK'
  <2>1. frame' \in [Frames -> FrameStates \ {"broken"}]
    BY <1>1, <1>2, <1>4 DEF TasksTypeOK, FrameStates
  <2> QED
    BY <2>1, <1>1, <1>2, <1>3 DEF TasksTypeOK
<1>6. HandlesLive'
  <2> SUFFICES ASSUME NEW u \in Objects, h'[u] # NoFrame
               PROVE  u \in alive' /\ frame'[h'[u]] \in Live
    BY DEF HandlesLive
  <2>1. u # t /\ h'[u] = h[u] /\ h[u] # h[t]
    BY <1>2, <1>3 DEF HandlesApart
  <2>2. u \in alive /\ frame[h[u]] \in Live /\ h[u] \in Frames
    BY <2>1, <1>2 DEF HandlesLive, TasksTypeOK
  <2> QED
    BY <2>1, <2>2, <1>1, <1>4
<1>7. HandlesApart'
  BY <1>2, <1>3 DEF HandlesApart
<1>8. FramesHeld'
  <2> SUFFICES ASSUME NEW g \in Frames, frame'[g] \in Live
               PROVE  \E u \in Objects : h'[u] = g
    BY DEF FramesHeld
  <2>1. g # h[t] /\ frame[g] \in Live
    BY <1>4 DEF Live
  <2>2. PICK u \in Objects : h[u] = g
    BY <2>1, <1>2 DEF FramesHeld
  <2> QED
    BY <2>1, <2>2, <1>3
<1>9. ValueDelivered'
  BY <1>1, <1>2, <1>4 DEF ValueDelivered
<1> QED
  BY <1>5, <1>6, <1>7, <1>8, <1>9 DEF OwnerInv

(* A run takes the frame to its end and sets the value.                    *)
LEMMA RunKeeps ==
    ASSUME OwnerInv, NEW t \in Objects, RunOnce(t)
    PROVE  OwnerInv'
<1>1. /\ h[t] # NoFrame /\ frame[h[t]] # "end" /\ alive' = alive /\ h' = h
      /\ frame' = [frame EXCEPT ![h[t]] = IF @ = "start" THEN "end" ELSE "broken"]
      /\ value' = [value EXCEPT ![h[t]] = Result]
  BY DEF run, RunOnce
<1>2. TasksTypeOK /\ HandlesLive /\ HandlesApart /\ FramesHeld /\ ValueDelivered
  BY DEF OwnerInv
<1> DEFINE f == h[t]
<1>3. f \in Frames /\ frame[f] = "start"
  BY <1>1, <1>2 DEF HandlesLive, TasksTypeOK, Live
<1>4. /\ frame' \in [Frames -> FrameStates \ {"broken"}]
      /\ frame'[f] = "end" /\ \A g \in Frames \ {f} : frame'[g] = frame[g]
  BY <1>1, <1>2, <1>3 DEF TasksTypeOK, FrameStates
<1>5. /\ value' \in [Frames -> {Initial, Result}]
      /\ value'[f] = Result /\ \A g \in Frames \ {f} : value'[g] = value[g]
  BY <1>1, <1>2, <1>3 DEF TasksTypeOK
<1> HIDE DEF f
<1>6. TasksTypeOK'
  BY <1>1, <1>2, <1>4, <1>5 DEF TasksTypeOK
<1>7. \A g \in Frames : frame'[g] \in Live <=> frame[g] \in Live
  BY <1>3, <1>4 DEF Live
<1>8. HandlesLive'
  BY <1>1, <1>2, <1>7 DEF HandlesLive, TasksTypeOK
<1>9. HandlesApart'
  BY <1>1, <1>2 DEF HandlesApart
<1>10. FramesHeld'
  BY <1>1, <1>2, <1>7 DEF FramesHeld
<1>11. ValueDelivered'
  BY <1>2, <1>4, <1>5 DEF ValueDelivered
<1> QED
  BY <1>6, <1>8, <1>9, <1>10, <1>11 DEF OwnerInv

(* Every step keeps the invariant.                                         *)
LEMMA OwnerStep == OwnerInv /\ [TasksNext]_tasksVars => OwnerInv'
<1> SUFFICES ASSUME OwnerInv, [TasksNext]_tasksVars PROVE OwnerInv'
  OBVIOUS
<1>1. ASSUME NEW t \in Objects, NEW f \in Frames, compute(t, f) PROVE OwnerInv'
  BY <1>1, ComputeKeeps
<1>2. ASSUME NEW t \in Objects, NEW o \in Objects, Move(t, o) PROVE OwnerInv'
  BY <1>2, MoveKeeps
<1>3. ASSUME NEW t \in Objects, Destroy(t) PROVE OwnerInv'
  BY <1>3, DestroyKeeps
<1>4. ASSUME NEW t \in Objects, RunOnce(t) PROVE OwnerInv'
  BY <1>4, RunKeeps
<1>5. CASE UNCHANGED tasksVars
  BY <1>5 DEF tasksVars, OwnerInv, TasksTypeOK, HandlesLive, HandlesApart, FramesHeld, ValueDelivered
<1> QED
  BY <1>1, <1>2, <1>3, <1>4, <1>5 DEF TasksNext, TasksDone

(* The invariant holds in every state.                                     *)
THEOREM OwnersInvariant == TasksSpec => []OwnerInv
  BY OwnerInit, OwnerStep, PTL DEF TasksSpec

(* The invariant gives each living frame one owner, and the others none.   *)
LEMMA InvOneOwner == OwnerInv => OneOwner
<1> SUFFICES ASSUME OwnerInv, NEW f \in Frames
             PROVE  IF frame[f] \in {"start", "end"}
                    THEN \E t \in alive : Owners(f) = {t}
                    ELSE Owners(f) = {}
  BY DEF OneOwner
<1>1. CASE frame[f] \in {"start", "end"}
  <2>1. PICK t \in Objects : h[t] = f
    BY <1>1 DEF OwnerInv, FramesHeld, Live
  <2>2. t \in alive /\ \A u \in Objects : h[u] = f => u = t
    BY <2>1, NoFrameAssumption DEF OwnerInv, HandlesLive, HandlesApart
  <2> QED
    BY <1>1, <2>1, <2>2 DEF Owners
<1>2. CASE frame[f] \notin {"start", "end"}
  BY <1>2, NoFrameAssumption DEF OwnerInv, HandlesLive, Live, Owners
<1> QED
  BY <1>1, <1>2

(* However many tasks are made, moved, run and ended, in whatever order:   *)
(* no frame is destroyed twice or resumed after its end, none leaks, and   *)
(* its value is what the coroutine returned.                               *)
THEOREM FramesOwned == TasksSpec => []FramesSound
<1>1. OwnerInv => FramesSound
  BY InvOneOwner DEF OwnerInv, FramesSound
<1> QED
  BY <1>1, OwnersInvariant, PTL
-----------------------------------------------------------------------------
(* In LabsSpec each lab goes its own way or stands still.                  *)
LEMMA LabsSteps ==
    ASSUME [LabsNext]_labsVars
    PROVE  /\ [Next]_vars /\ [TasksNext]_tasksVars
           /\ [D!Next]_domainVars /\ [S!Next]_spaceVars
           /\ [P!Next]_pipeVars /\ [C!Next]_channelVars
<1>1. CASE ChannelStep
  BY <1>1 DEF ChannelStep
<1>2. CASE PipeStep(P!Next)
  BY <1>2 DEF PipeStep
<1>3. CASE DomainStep
  BY <1>3 DEF DomainStep
<1>4. CASE SpaceStep
  BY <1>4 DEF SpaceStep
<1>5. CASE ChoiceStep
  BY <1>5 DEF ChoiceStep
<1>6. CASE CoroutineStep
  BY <1>6 DEF CoroutineStep
<1>7. CASE UNCHANGED labsVars
  BY <1>7 DEF labsVars
<1> QED
  BY <1>1, <1>2, <1>3, <1>4, <1>5, <1>6, <1>7 DEF LabsNext

(* The choice of the next task, as one of the labs.                        *)
THEOREM LabChooses == LabsSpec => []EarliestChosen
<1>1. LabsInit => Init
  BY DEF LabsInit
<1>2. [LabsNext]_labsVars => [Next]_vars
  BY LabsSteps
<1>3. LabsSpec => Spec
  BY <1>1, <1>2, PTL DEF LabsSpec, Spec
<1> QED
  BY <1>3, ChoosesEarliest, PTL

(* The coroutine task, as one of the labs.                                 *)
THEOREM LabFrames == LabsSpec => []FramesSound
<1>1. LabsInit => TasksInit
  BY DEF LabsInit
<1>2. [LabsNext]_labsVars => [TasksNext]_tasksVars
  BY LabsSteps
<1>3. LabsSpec => TasksSpec
  BY <1>1, <1>2, PTL DEF LabsSpec, TasksSpec
<1> QED
  BY <1>3, FramesOwned, PTL
-----------------------------------------------------------------------------
(* The domain: add fills the slots from 1 on, one for each call, and gives *)
(* the null capability from the call on that finds them full.              *)
Count == Len(issued)
DomainInv ==
    /\ slotCount \in Nat
    /\ issued \in Seq([obj : Ids, cap : Nat])
    /\ slots = [c \in 0..slotCount - 1 |-> IF c \in 1..Count THEN issued[c].obj ELSE 0]
    /\ \A c \in 1..Count : issued[c].cap = IF c < slotCount THEN c ELSE 0

(* A new domain is empty.                                                  *)
LEMMA DomainInit == LabsInit => DomainInv
<1> SUFFICES ASSUME LabsInit PROVE DomainInv
  OBVIOUS
<1>1. slotCount \in SlotCounts
  BY LabsAssumption DEF LabsInit, Given, Some
<1>2. slotCount \in Nat
  BY <1>1, LabsAssumption DEF D!DomainConstants
<1>3. issued = << >> /\ slots = [c \in 0..slotCount - 1 |-> 0]
  BY DEF LabsInit, D!Init, D!Indices
<1> QED
  BY <1>2, <1>3 DEF DomainInv, Count

(* The elements of a sequence with one more at its end.                    *)
LEMMA AppendFacts ==
    ASSUME NEW T, NEW s \in Seq(T), NEW x \in T
    PROVE  /\ Append(s, x) \in Seq(T) /\ Len(s) \in Nat
           /\ Len(Append(s, x)) = Len(s) + 1
           /\ \A c \in 1..Len(s) : s[c] \in T /\ Append(s, x)[c] = s[c]
           /\ Append(s, x)[Len(s) + 1] = x
  OBVIOUS

(* add takes the next slot, or gives the null capability.                  *)
LEMMA AddKeeps ==
    ASSUME DomainInv, NEW obj \in Ids, D!add(obj)
    PROVE  DomainInv'
<1> DEFINE n == slotCount
           next == Count + 1
           result == found'
           R == [obj : Ids, cap : Nat]
           r == [obj |-> obj, cap |-> result]
<1>1. obj \in Nat \ {0} /\ \A o \in Ids : o # 0
  BY LabsAssumption DEF D!DomainConstants
<1>2. n \in Nat /\ issued \in Seq(R)
  BY DEF DomainInv
<1>3. Count \in Nat /\ \A c \in 1..Count : issued[c] \in R
  <2> HIDE DEF R
  <2> QED
    BY <1>2 DEF Count
<1>4. slotCount' = slotCount /\ issued' = Append(issued, r)
  BY DEF D!add
<1>5. \A c \in 1..n - 1 : (slots[c] = 0) <=> (c > Count)
  <2> SUFFICES ASSUME NEW c \in 1..n - 1 PROVE (slots[c] = 0) <=> (c > Count)
    OBVIOUS
  <2>1. slots[c] = IF c \in 1..Count THEN issued[c].obj ELSE 0
    BY <1>2 DEF DomainInv
  <2>2. c \in 1..Count => issued[c].obj # 0
    BY <1>1, <1>3
  <2>3. c \in 1..Count <=> ~(c > Count)
    BY <1>3
  <2> QED
    BY <2>1, <2>2, <2>3
<1>6. D!Empty = {c \in 1..n - 1 : c > Count}
  BY <1>5 DEF D!Empty
<1>7. /\ next < n => result = next /\ slots' = [slots EXCEPT ![next] = obj]
      /\ ~(next < n) => result = 0 /\ slots' = slots
  <2>1. CASE next < n
    <3>1. next \in D!Empty /\ \A c \in D!Empty : next <= c
      BY <1>2, <1>3, <1>6, <2>1
    <3>2. PICK c \in D!Empty : /\ \A d \in D!Empty : c <= d
                               /\ slots' = [slots EXCEPT ![c] = obj] /\ result = c
      BY <3>1 DEF D!add
    <3>3. c = next
      <4>1. c \in Nat /\ next \in Nat /\ c <= next /\ next <= c
        BY <1>2, <1>3, <3>1, <3>2, <1>6
      <4> QED
        BY <4>1
    <3> QED
      BY <2>1, <3>2, <3>3
  <2>2. CASE ~(next < n)
    <3>1. D!Empty = {}
      BY <1>2, <1>3, <1>6, <2>2
    <3> QED
      BY <2>2, <3>1 DEF D!add
  <2> QED
    BY <2>1, <2>2
<1>8. r \in R /\ r.obj = obj /\ r.cap = result
  BY <1>2, <1>3, <1>7
<1> HIDE DEF r, R, result
<1>9. /\ issued' \in Seq(R) /\ Count' = next
      /\ \A c \in 1..Count : issued'[c] = issued[c]
      /\ issued'[next] = r
  BY <1>2, <1>4, <1>8, AppendFacts DEF Count
<1>10. \A c \in 1..next : c \in 1..Count \/ c = next
  BY <1>3
<1>11. ASSUME NEW c \in 1..next PROVE issued'[c].cap = IF c < n THEN c ELSE 0
  <2>1. CASE c \in 1..Count
    BY <1>9, <2>1 DEF DomainInv
  <2>2. CASE c = next
    BY <1>7, <1>8, <1>9, <2>2
  <2> QED
    BY <1>10, <2>1, <2>2
<1>12. slots' = [c \in 0..n - 1 |-> IF c \in 1..next THEN issued'[c].obj ELSE 0]
  <2> DEFINE new == [c \in 0..n - 1 |-> IF c \in 1..next THEN issued'[c].obj ELSE 0]
  <2>1. slots = [c \in 0..n - 1 |-> IF c \in 1..Count THEN issued[c].obj ELSE 0]
    BY DEF DomainInv
  <2>2. DOMAIN slots' = 0..n - 1
    BY <1>7, <2>1
  <2>3. ASSUME NEW c \in 0..n - 1 PROVE slots'[c] = new[c]
    <3>1. CASE c = next
      <4>1. next < n /\ next \in 1..next
        BY <1>2, <1>3, <3>1
      <4> QED
        BY <1>7, <1>8, <1>9, <2>1, <3>1, <4>1
    <3>2. CASE c # next
      <4>1. slots'[c] = slots[c]
        BY <1>7, <2>1, <3>2
      <4>2. c \in 1..next <=> c \in 1..Count
        BY <1>3, <3>2
      <4> QED
        BY <1>9, <2>1, <4>1, <4>2
    <3> QED
      BY <3>1, <3>2
  <2>4. slots' = [c \in 0..n - 1 |-> slots'[c]]
    BY <1>7, <2>1, <2>2
  <2> QED
    BY <2>3, <2>4
<1> QED
  BY <1>2, <1>4, <1>9, <1>11, <1>12 DEF DomainInv, R

(* Every step of the domain keeps its invariant.                           *)
LEMMA DomainStepKeeps == DomainInv /\ [D!Next]_domainVars => DomainInv'
<1> SUFFICES ASSUME DomainInv, [D!Next]_domainVars PROVE DomainInv'
  OBVIOUS
<1>1. CASE \E obj \in Ids : D!add(obj)
  BY <1>1, AddKeeps
<1>2. CASE UNCHANGED <<slotCount, slots, issued>>
  BY <1>2 DEF DomainInv, Count
<1>3. (\E c \in 0..slotCount : D!get(c)) => UNCHANGED <<slotCount, slots, issued>>
  BY DEF D!get
<1> QED
  BY <1>1, <1>2, <1>3 DEF D!Next, domainVars

(* A capability names one object for ever, and the null capability is only *)
(* given by a full domain, for every number of slots and calls.            *)
THEOREM CapabilitiesKept == LabsSpec => []CapabilitiesHold
<1>1. DomainInv => CapabilitiesHold
  <2> SUFFICES ASSUME DomainInv PROVE CapabilitiesHold
    OBVIOUS
  <2>1. Count \in Nat /\ DOMAIN issued = 1..Count /\ slotCount \in Nat
    <3> DEFINE R == [obj : Ids, cap : Nat]
    <3>1. issued \in Seq(R)
      BY DEF DomainInv
    <3> HIDE DEF R
    <3> QED
      BY <3>1 DEF DomainInv, Count
  <2>2. \A c \in 0..slotCount - 1 : slots[c] = IF c \in 1..Count THEN issued[c].obj ELSE 0
    BY DEF DomainInv
  <2>3. \A c \in 1..Count : issued[c].cap = IF c < slotCount THEN c ELSE 0
    BY DEF DomainInv
  <2>4. \A c \in 1..slotCount : D!Names(c) = IF c \in 1..Count /\ c < slotCount THEN {c} ELSE {}
    BY <2>1, <2>3 DEF D!Names
  <2>5. \A c \in 0..slotCount :
           D!Lookup(c) = IF c \in 1..Count /\ c < slotCount THEN issued[c].obj ELSE 0
    <3> SUFFICES ASSUME NEW c \in 0..slotCount
                 PROVE  D!Lookup(c) = IF c \in 1..Count /\ c < slotCount
                                      THEN issued[c].obj ELSE 0
      OBVIOUS
    <3>1. c < slotCount => c \in 0..slotCount - 1
      BY <2>1
    <3> QED
      BY <2>1, <2>2, <3>1 DEF D!Lookup
  <2>6. D!CapsName
    <3> SUFFICES ASSUME NEW c \in 0..slotCount
                 PROVE  /\ c = 0 => D!Lookup(c) = 0
                        /\ c # 0 /\ D!Names(c) = {} => D!Lookup(c) = 0
                        /\ c # 0 => \A k \in D!Names(c) :
                               D!Names(c) = {k} /\ D!Lookup(c) = issued[k].obj
      BY DEF D!CapsName
    <3>1. c # 0 => c \in 1..slotCount
      BY <2>1
    <3>2. 0 \notin 1..Count
      OBVIOUS
    <3> QED
      BY <2>4, <2>5, <3>1, <3>2
  <2>7. D!NullOnlyWhenFull
    <3> SUFFICES ASSUME NEW k \in 1..Count, issued[k].cap = 0
                 PROVE  k >= slotCount /\ \A c \in 1..slotCount - 1 : slots[c] = issued[c].obj
      BY <2>1 DEF D!NullOnlyWhenFull
    <3>1. k >= slotCount
      BY <2>1, <2>3
    <3>2. ASSUME NEW c \in 1..slotCount - 1 PROVE slots[c] = issued[c].obj
      <4>1. c \in 1..Count /\ c \in 0..slotCount - 1
        BY <2>1, <3>1
      <4> QED
        BY <2>2, <4>1
    <3> QED
      BY <3>1, <3>2
  <2> QED
    BY <2>6, <2>7 DEF CapabilitiesHold
<1>2. [LabsNext]_labsVars => [D!Next]_domainVars
  BY LabsSteps
<1> QED
  BY <1>1, <1>2, DomainInit, DomainStepKeeps, PTL DEF LabsSpec
-----------------------------------------------------------------------------
(* The decision about an address space. Multiples differ by a whole one.   *)
LEMMA MultiplesApart ==
    ASSUME NEW p \in Nat, NEW q \in Nat, NEW n \in Nat \ {0}, p * n < q * n
    PROVE  p * n + n <= q * n
<1>1. p < q
  <2> SUFFICES ASSUME q <= p PROVE FALSE
    OBVIOUS
  <2>1. PICK d \in Nat : p = q + d
    BY p = q + (p - q)
  <2>2. p * n = q * n + d * n /\ d * n >= 0
    BY <2>1
  <2> QED
    BY <2>2
<1>2. PICK d \in Nat : q = p + 1 + d
  BY <1>1, q = p + 1 + (q - p - 1)
<1>3. q * n = p * n + n + d * n /\ d * n >= 0
  BY <1>2
<1> QED
  BY <1>3

(* The multiples of a page at or below an address.                         *)
LEMMA PageFacts ==
    ASSUME NEW x \in Nat
    PROVE  LET q == x \div PAGE
           IN  /\ q \in Nat /\ q * PAGE \in Nat
               /\ q * PAGE <= x /\ x < q * PAGE + PAGE
               /\ \A p \in Nat : /\ p * PAGE <= x => p * PAGE <= q * PAGE
                                 /\ x < p * PAGE => q * PAGE + PAGE <= p * PAGE
<1> DEFINE q == x \div PAGE
<1>1. PAGE \in Nat \ {0}
  BY LabsAssumption DEF S!SpaceMapConstants
<1>2. q \in Nat /\ q * PAGE \in Nat /\ q * PAGE <= x /\ x < q * PAGE + PAGE
  BY <1>1
<1> HIDE DEF q
<1>3. ASSUME NEW p \in Nat
      PROVE  /\ p * PAGE <= x => p * PAGE <= q * PAGE
             /\ x < p * PAGE => q * PAGE + PAGE <= p * PAGE
  <2>1. p * PAGE \in Nat
    BY <1>1
  <2>2. q * PAGE < p * PAGE => q * PAGE + PAGE <= p * PAGE
    BY <1>1, <1>2, MultiplesApart
  <2> QED
    BY <1>1, <1>2, <2>1, <2>2
<1> QED
  BY <1>2, <1>3 DEF q

(* A page is the page of its first byte.                                   *)
LEMMA PageOfMultiple ==
    ASSUME NEW q \in Nat
    PROVE  (q * PAGE) \div PAGE = q
<1>1. PAGE \in Nat \ {0}
  BY LabsAssumption DEF S!SpaceMapConstants
<1> DEFINE x == q * PAGE
           p == x \div PAGE
<1>2. x \in Nat
  BY <1>1
<1>3. p \in Nat /\ p * PAGE <= q * PAGE /\ q * PAGE < p * PAGE + PAGE
  BY <1>2, PageFacts
<1> HIDE DEF p, x
<1>4. ~(p * PAGE < q * PAGE)
  <2>1. p * PAGE \in Nat /\ q * PAGE \in Nat
    BY <1>1, <1>3
  <2> QED
    BY <1>1, <1>3, <2>1, MultiplesApart
<1>5. p * PAGE = q * PAGE
  <2>1. p * PAGE \in Nat /\ q * PAGE \in Nat
    BY <1>1, <1>3
  <2> QED
    BY <1>3, <1>4, <2>1
<1>6. p = q
  BY <1>1, <1>3, <1>5
<1> QED
  BY <1>6 DEF p, x

(* Rounding up gives whole pages, less than a page above, and what is a    *)
(* whole number of pages it keeps, as long as nothing wraps.               *)
LEMMA AlignUp ==
    ASSUME NEW x \in Nat, x + PAGE <= SizeMod
    PROVE  /\ S!alignUp(x) \in Nat /\ x <= S!alignUp(x) /\ S!alignUp(x) < x + PAGE
           /\ \E k \in Nat : S!alignUp(x) = k * PAGE
           /\ x % PAGE = 0 => S!alignUp(x) = x
<1> DEFINE y == x + (PAGE - 1)
           q == y \div PAGE
<1>1. PAGE \in Nat \ {0} /\ SizeMod \in Nat
  BY LabsAssumption DEF S!SpaceMapConstants
<1>2. y \in Nat /\ y < SizeMod /\ S!Plus(x, PAGE - 1) = y
  BY <1>1 DEF S!Plus
<1>3. /\ q \in Nat /\ q * PAGE \in Nat /\ q * PAGE <= y /\ y < q * PAGE + PAGE
      /\ \A p \in Nat : /\ p * PAGE <= y => p * PAGE <= q * PAGE
                        /\ y < p * PAGE => q * PAGE + PAGE <= p * PAGE
  <2> HIDE DEF y
  <2> QED
    BY <1>2, PageFacts
<1>4. S!alignUp(x) = (q * PAGE) % SizeMod
  BY <1>2 DEF S!alignUp
<1> HIDE DEF q
<1>5. (q * PAGE) % SizeMod = q * PAGE
  BY <1>1, <1>2, <1>3
<1>6. ASSUME x % PAGE = 0 PROVE q * PAGE = x
  <2> DEFINE p == x \div PAGE
  <2>1. p \in Nat /\ x = p * PAGE
    BY <1>1, <1>6
  <2> HIDE DEF p
  <2>2. x <= q * PAGE
    BY <1>1, <1>3, <2>1
  <2>3. ~(x < q * PAGE)
    <3>1. p * PAGE < q * PAGE => p * PAGE + PAGE <= q * PAGE
      BY <1>1, <1>3, <2>1, MultiplesApart
    <3> QED
      BY <1>1, <1>3, <2>1, <3>1
  <2> QED
    BY <1>3, <2>2, <2>3
<1> QED
  BY <1>1, <1>3, <1>4, <1>5, <1>6

(* The ranges compared so far share no byte with the request, or ok is off.*)
SpaceInv ==
    /\ mapped \in Spaces /\ asked \in Requests
    /\ compared \in 0..Len(mapped)
    /\ pc \in {"align", "compare", "decided"}
    /\ pc = "align" => compared = 0
    /\ pc # "align" => req = [start |-> S!alignUp(asked.start), size |-> S!alignUp(asked.size)]
    /\ pc = "decided" => compared = Len(mapped)
    /\ ok <=> \A c \in 1..compared : ~S!overlaps(mapped[c], req)

(* Nothing is compared at the start.                                       *)
LEMMA SpaceInit == LabsInit => SpaceInv
<1> SUFFICES ASSUME LabsInit PROVE SpaceInv
  OBVIOUS
<1>1. mapped \in Spaces /\ asked \in Requests
  BY LabsAssumption DEF LabsInit, Given, Some
<1>2. mapped \in Seq(S!Range)
  BY <1>1, LabsAssumption DEF S!SpaceMapConstants
<1>3. Len(mapped) \in Nat
  BY <1>2
<1> QED
  BY <1>1, <1>3 DEF LabsInit, S!Init, SpaceInv

(* Every step of the decision keeps its invariant.                         *)
LEMMA SpaceStepKeeps == SpaceInv /\ [S!Next]_spaceVars => SpaceInv'
<1> SUFFICES ASSUME SpaceInv, [S!Next]_spaceVars PROVE SpaceInv'
  OBVIOUS
<1>1. CASE S!Align
  BY <1>1 DEF S!Align, SpaceInv
<1>2. CASE S!Compare
  <2>1. /\ pc = "compare" /\ compared < Len(mapped) /\ compared' = compared + 1
        /\ ok' = (ok /\ ~S!overlaps(mapped[compared + 1], req))
        /\ UNCHANGED <<mapped, asked, req, pc>>
    BY <1>2 DEF S!Compare
  <2>2. compared \in Nat /\ Len(mapped) \in Nat
    <3>1. mapped \in Seq(S!Range)
      BY LabsAssumption DEF SpaceInv, S!SpaceMapConstants
    <3>2. Len(mapped) \in Nat
      BY <3>1
    <3> QED
      BY <3>2 DEF SpaceInv
  <2>3. compared + 1 \in 0..Len(mapped)
    BY <2>1, <2>2
  <2>4. \A c : c \in 1..compared + 1 <=> c \in 1..compared \/ c = compared + 1
    BY <2>2
  <2> DEFINE Apart(c) == ~S!overlaps(mapped[c], req)
  <2>5. ok <=> \A c \in 1..compared : Apart(c)
    BY DEF SpaceInv
  <2>6. ok' <=> ok /\ Apart(compared + 1)
    BY <2>1
  <2> HIDE DEF Apart
  <2>7. ok' <=> \A c \in 1..compared + 1 : Apart(c)
    BY <2>4, <2>5, <2>6, Zenon
  <2>8. ok' <=> \A c \in 1..compared' : ~S!overlaps(mapped'[c], req')
    BY <2>1, <2>7 DEF Apart, S!overlaps, S!Plus
  <2> QED
    BY <2>1, <2>3, <2>8 DEF SpaceInv
<1>3. CASE S!Decide
  BY <1>3 DEF S!Decide, SpaceInv
<1>4. CASE S!Decided
  BY <1>4 DEF S!Decided, S!vars, SpaceInv
<1>5. CASE UNCHANGED spaceVars
  BY <1>5 DEF spaceVars, SpaceInv
<1> QED
  BY <1>1, <1>2, <1>3, <1>4, <1>5 DEF S!Next

(* Two ranges that are not empty and do not wrap overlap, as the code      *)
(* tests it, exactly when they share a byte.                               *)
LEMMA OverlapsIsShared ==
    ASSUME NEW r, NEW o, {r.start, r.size, o.start, o.size} \subseteq Nat,
           r.size > 0, o.size > 0,
           r.start + r.size < SizeMod, o.start + o.size < SizeMod
    PROVE  S!overlaps(r, o) <=> S!Covered(o) \cap S!Covered(r) # {}
<1> DEFINE a == r.start
           b == r.start + r.size
           c == o.start
           d == o.start + o.size
<1>1. SizeMod \in Nat
  BY LabsAssumption DEF S!SpaceMapConstants
<1>2. {a, b, c, d} \subseteq Nat /\ a < b /\ c < d /\ b < SizeMod /\ d < SizeMod
  OBVIOUS
<1>3. S!Plus(r.start, r.size) = b /\ S!Plus(o.start, o.size) = d
  BY <1>1, <1>2 DEF S!Plus
<1>4. S!overlaps(r, o) <=> a < d /\ c < b
  BY <1>3 DEF S!overlaps
<1>5. S!Covered(r) = {x \in a .. b - 1 : x < SizeMod}
  BY DEF S!Covered
<1>6. S!Covered(o) = {x \in c .. d - 1 : x < SizeMod}
  BY DEF S!Covered
<1> HIDE DEF a, b, c, d
<1>7. (\E x \in a .. b - 1 : x \in c .. d - 1 /\ x < SizeMod) <=> a < d /\ c < b
  <2>1. ASSUME NEW x \in a .. b - 1, x \in c .. d - 1 PROVE a < d /\ c < b
    BY <1>2, <2>1
  <2>2. ASSUME a < d, c < b, a <= c PROVE c \in a .. b - 1 /\ c \in c .. d - 1 /\ c < SizeMod
    BY <1>1, <1>2, <2>2
  <2>3. ASSUME a < d, c < b, c <= a PROVE a \in a .. b - 1 /\ a \in c .. d - 1 /\ a < SizeMod
    BY <1>1, <1>2, <2>3
  <2>4. a <= c \/ c <= a
    BY <1>2
  <2> QED
    BY <2>1, <2>2, <2>3, <2>4
<1>8. S!Covered(o) \cap S!Covered(r) # {}
         <=> \E x \in a .. b - 1 : x \in c .. d - 1 /\ x < SizeMod
  BY <1>5, <1>6
<1> QED
  BY <1>4, <1>7, <1>8

(* The whole pages of a request that starts at a page share a byte with a  *)
(* range exactly when the request as asked for reaches into a page of it.  *)
LEMMA SharedIsPageShared ==
    ASSUME NEW x \in S!Range, S!Regular(x), x.start % PAGE = 0,
           NEW m \in S!Range, S!Regular(m),
           NEW r, r.start = x.start, r.size \in Nat,
           x.size <= r.size, r.size < x.size + PAGE, NEW k \in Nat, r.size = k * PAGE
    PROVE  S!Covered(r) \cap S!Covered(m) # {} <=> S!PagesOf(x) \cap S!PagesOf(m) # {}
<1> DEFINE s == x.start
           z == x.size
           w == r.size
           Page(a) == a \div PAGE
<1>1. PAGE \in Nat \ {0} /\ SizeMod \in Nat
  BY LabsAssumption DEF S!SpaceMapConstants
<1>2. s \in Nat /\ z \in Nat /\ z > 0 /\ s + z + PAGE <= SizeMod /\ w \in Nat
      /\ z <= w /\ w < z + PAGE
  BY <1>1 DEF S!Range, S!Sizes, S!Regular
<1>3. PICK p \in Nat : s = p * PAGE
  <2>1. s \div PAGE \in Nat /\ s = (s \div PAGE) * PAGE
    BY <1>1, <1>2
  <2> QED
    BY <2>1
<1>4. \A a : a \in S!Covered(x) <=> a \in Nat /\ s <= a /\ a < s + z
  <2>1. \A a \in s .. s + z - 1 : a < SizeMod
    BY <1>1, <1>2
  <2>2. S!Covered(x) = s .. s + z - 1
    BY <2>1 DEF S!Covered
  <2> QED
    BY <1>2, <2>2
<1>5. \A a : a \in S!Covered(r) <=> a \in Nat /\ s <= a /\ a < s + w
  <2>1. \A a \in s .. s + w - 1 : a < SizeMod
    BY <1>1, <1>2
  <2>2. S!Covered(r) = s .. s + w - 1
    BY <2>1 DEF S!Covered
  <2> QED
    BY <1>2, <2>2
<1>6. \A a \in S!Covered(m) : a \in Nat
  BY DEF S!Covered, S!Range, S!Sizes
<1>7. s + w = (p + k) * PAGE /\ p + k \in Nat
  BY <1>1, <1>3
<1> HIDE DEF s, z, w
<1>8. ASSUME NEW a \in S!Covered(r), a \in S!Covered(m)
      PROVE  S!PagesOf(x) \cap S!PagesOf(m) # {}
  <2> DEFINE q == Page(a)
             f == q * PAGE
  <2>1. a \in Nat /\ s <= a /\ a < s + w
    BY <1>5, <1>8
  <2>2. q \in Nat /\ f \in Nat /\ p * PAGE <= f /\ f + PAGE <= (p + k) * PAGE
    BY <1>3, <1>7, <2>1, PageFacts
  <2>3. Page(f) = q
    BY <2>2, PageOfMultiple
  <2> HIDE DEF q, f
  <2>4. f \in S!Covered(x)
    BY <1>1, <1>2, <1>3, <1>4, <1>7, <2>2
  <2>5. Page(f) \in S!PagesOf(x) /\ Page(a) \in S!PagesOf(m)
    BY <1>8, <2>4 DEF S!PagesOf
  <2> QED
    BY <2>3, <2>5 DEF q
<1>9. ASSUME NEW a \in S!Covered(x), NEW d \in S!Covered(m), Page(a) = Page(d)
      PROVE  S!Covered(r) \cap S!Covered(m) # {}
  <2> DEFINE q == Page(a)
             f == q * PAGE
  <2>1. a \in Nat /\ s <= a /\ a < s + w /\ d \in Nat
    BY <1>2, <1>4, <1>6
  <2>2. f \in Nat /\ p * PAGE <= f /\ f + PAGE <= (p + k) * PAGE
    BY <1>3, <1>7, <2>1, PageFacts
  <2>3. f <= d /\ d < f + PAGE
    BY <1>9, <2>1, PageFacts
  <2> HIDE DEF q, f, Page
  <2>4. d \in S!Covered(r)
    BY <1>1, <1>2, <1>3, <1>5, <1>7, <2>1, <2>2, <2>3
  <2> QED
    BY <2>4
<1>10. S!PagesOf(x) \cap S!PagesOf(m) # {}
          <=> \E a \in S!Covered(x), d \in S!Covered(m) : Page(a) = Page(d)
  BY DEF S!PagesOf
<1> QED
  BY <1>8, <1>9, <1>10

(* For every page size, every set of ranges mapped and every request that  *)
(* starts at a page, none of them reaching the top of the addresses: the   *)
(* request as asked for is refused exactly when a page it reaches into is  *)
(* mapped already.                                                         *)
THEOREM SpaceDecided == LabsSpec => []SpaceDecisionRight
<1>1. SpaceInv => SpaceDecisionRight
  <2> SUFFICES ASSUME SpaceInv, pc = "decided", asked.start % PAGE = 0, S!Regular(asked),
                      \A c \in DOMAIN mapped : S!Regular(mapped[c])
               PROVE  ok <=> \A c \in DOMAIN mapped :
                                S!PagesOf(asked) \cap S!PagesOf(mapped[c]) = {}
    BY DEF SpaceDecisionRight, S!DecisionRight
  <2>1. mapped \in Seq(S!Range) /\ asked \in S!Range
    BY LabsAssumption DEF SpaceInv, S!SpaceMapConstants
  <2>2. DOMAIN mapped = 1..Len(mapped) /\ compared = Len(mapped)
        /\ \A c \in 1..Len(mapped) : mapped[c] \in S!Range
    <3>1. DOMAIN mapped = 1..Len(mapped) /\ \A c \in 1..Len(mapped) : mapped[c] \in S!Range
      BY <2>1
    <3> QED
      BY <3>1 DEF SpaceInv
  <2>3. SizeMod \in Nat /\ PAGE \in Nat \ {0}
    BY LabsAssumption DEF S!SpaceMapConstants
  <2>4. asked.start \in Nat /\ asked.size \in Nat
        /\ asked.size > 0 /\ asked.start + asked.size + PAGE <= SizeMod
    BY <2>1, <2>3 DEF S!Range, S!Sizes, S!Regular
  <2>5. req = [start |-> S!alignUp(asked.start), size |-> S!alignUp(asked.size)]
    BY DEF SpaceInv
  <2>6. /\ req.start = asked.start /\ req.size \in Nat
        /\ asked.size <= req.size /\ req.size < asked.size + PAGE
        /\ \E k \in Nat : req.size = k * PAGE
    <3>1. asked.start + PAGE <= SizeMod /\ asked.size + PAGE <= SizeMod
      BY <2>3, <2>4
    <3>2. S!alignUp(asked.start) = asked.start
      BY <2>4, <3>1, AlignUp
    <3>3. /\ S!alignUp(asked.size) \in Nat
          /\ asked.size <= S!alignUp(asked.size) /\ S!alignUp(asked.size) < asked.size + PAGE
          /\ \E k \in Nat : S!alignUp(asked.size) = k * PAGE
      BY <2>4, <3>1, AlignUp
    <3>4. req.start = S!alignUp(asked.start) /\ req.size = S!alignUp(asked.size)
      BY <2>5
    <3> QED
      BY <3>2, <3>3, <3>4
  <2>7. req.start + req.size < SizeMod /\ req.size > 0
    <3> DEFINE s == asked.start
               z == asked.size
               w == req.size
    <3>1. /\ s \in Nat /\ z \in Nat /\ z > 0 /\ s + z + PAGE <= SizeMod
          /\ w \in Nat /\ z <= w /\ w < z + PAGE /\ req.start = s
      BY <2>4, <2>6
    <3> HIDE DEF s, z, w
    <3>2. s + w < SizeMod /\ w > 0
      BY <2>3, <3>1
    <3> QED
      BY <3>1, <3>2 DEF w
  <2>8. ASSUME NEW c \in 1..Len(mapped)
        PROVE  S!overlaps(mapped[c], req)
                  <=> S!PagesOf(asked) \cap S!PagesOf(mapped[c]) # {}
    <3>1. mapped[c] \in S!Range /\ S!Regular(mapped[c])
      BY <2>2
    <3>2. /\ mapped[c].start \in Nat /\ mapped[c].size \in Nat
          /\ mapped[c].size > 0 /\ mapped[c].start + mapped[c].size < SizeMod
      BY <2>3, <3>1 DEF S!Range, S!Sizes, S!Regular
    <3>3. S!overlaps(mapped[c], req) <=> S!Covered(req) \cap S!Covered(mapped[c]) # {}
      BY <2>4, <2>6, <2>7, <3>2, OverlapsIsShared
    <3>4. S!Covered(req) \cap S!Covered(mapped[c]) # {}
             <=> S!PagesOf(asked) \cap S!PagesOf(mapped[c]) # {}
      BY <2>1, <2>6, <3>1, SharedIsPageShared
    <3> QED
      BY <3>3, <3>4
  <2> QED
    BY <2>2, <2>8 DEF SpaceInv
<1>2. [LabsNext]_labsVars => [S!Next]_spaceVars
  BY LabsSteps
<1> QED
  BY <1>1, <1>2, SpaceInit, SpaceStepKeeps, PTL DEF LabsSpec
-----------------------------------------------------------------------------
(* The pipe: a signal its user has seen is still true, because only the    *)
(* other user has moved since, and that one made room or added bytes.      *)
PipeInv ==
    /\ cap \in Nat /\ bytes \in Seq(Bytes) /\ Len(bytes) <= cap
    /\ seen \in [Users -> SUBSET {"READABLE", "WRITABLE"}]
    /\ "reader" \in Users => ("READABLE" \in seen["reader"] => bytes # << >>)
    /\ "writer" \in Users => ("WRITABLE" \in seen["writer"] => Len(bytes) < cap)

(* A new pipe is empty, and nothing has been polled.                       *)
LEMMA PipeInit == LabsInit => PipeInv
<1> SUFFICES ASSUME LabsInit PROVE PipeInv
  OBVIOUS
<1>1. cap \in Capacities
  BY LabsAssumption DEF LabsInit, Given, Some
<1>2. cap \in Nat
  BY <1>1, LabsAssumption DEF P!PipeConstants
<1>3. bytes = << >> /\ seen = [u \in Users |-> {}]
  BY DEF LabsInit, P!Init
<1>4. bytes \in Seq(Bytes) /\ Len(bytes) <= cap
  BY <1>2, <1>3
<1> QED
  BY <1>2, <1>3, <1>4 DEF PipeInv

(* Every step of a user keeps it, and is a step of the queue.              *)
LEMMA PipeStepIsQueueStep ==
    ASSUME PipeInv, [P!Next]_pipeVars
    PROVE  PipeInv' /\ [P!Fifo!Next]_<<bytes, cap, last>>
<1>1. /\ cap \in Nat /\ bytes \in Seq(Bytes) /\ Len(bytes) \in Nat /\ Len(bytes) <= cap
      /\ seen \in [Users -> SUBSET {"READABLE", "WRITABLE"}]
  BY DEF PipeInv
<1>2. ASSUME NEW u \in Users, P!poll(u)
      PROVE  PipeInv' /\ UNCHANGED <<bytes, cap, last>>
  <2>1. UNCHANGED <<bytes, cap, last>> /\ seen' = [seen EXCEPT ![u] = P!Signals]
    BY <1>2 DEF P!poll
  <2>2. /\ P!Signals \subseteq {"READABLE", "WRITABLE"}
        /\ "READABLE" \in P!Signals => bytes # << >>
        /\ "WRITABLE" \in P!Signals => Len(bytes) < cap
    BY DEF P!Signals
  <2> QED
    BY <2>1, <2>2 DEF PipeInv
<1>3. ASSUME NEW u \in Users, NEW v \in Bytes, P!writeAsync(u, v)
      PROVE  PipeInv' /\ P!Fifo!Put(v)
  <2>1. /\ u = "writer" /\ "WRITABLE" \in seen[u] /\ cap' = cap /\ last' = "put"
        /\ bytes' = Append(bytes, v) /\ seen' = [seen EXCEPT ![u] = {}]
    BY <1>3 DEF P!writeAsync, P!write
  <2>2. Len(bytes) < cap
    BY <2>1 DEF PipeInv
  <2>3. Append(bytes, v) \in Seq(Bytes) /\ Len(Append(bytes, v)) <= cap
        /\ Append(bytes, v) # << >>
    BY <1>1, <2>2, AppendFacts
  <2>4. PipeInv'
    BY <1>1, <2>1, <2>3 DEF PipeInv
  <2>5. P!Fifo!Put(v)
    BY <2>1, <2>3 DEF P!Fifo!Put, P!InRoom
  <2> QED
    BY <2>4, <2>5
<1>4. ASSUME NEW u \in Users, P!readAsync(u)
      PROVE  PipeInv' /\ P!Fifo!Take("byte")
  <2>2. u = "reader" /\ "READABLE" \in seen[u] /\ bytes # << >>
    BY <1>4 DEF P!readAsync, PipeInv
  <2>1. /\ u = "reader" /\ "READABLE" \in seen[u] /\ cap' = cap /\ last' = "taken"
        /\ bytes' = Tail(bytes) /\ seen' = [seen EXCEPT ![u] = {}]
    BY <1>4, <2>2 DEF P!readAsync, P!read
  <2>3. Tail(bytes) \in Seq(Bytes) /\ Len(Tail(bytes)) = Len(bytes) - 1
    BY <1>1, <2>2
  <2>4. Len(Tail(bytes)) < cap /\ Len(Tail(bytes)) <= cap
    BY <1>1, <2>3
  <2>5. PipeInv'
    BY <1>1, <2>1, <2>3, <2>4 DEF PipeInv
  <2>6. P!Fifo!Take("byte")
    BY <2>1, <2>2 DEF P!Fifo!Take, P!AnyByte
  <2> QED
    BY <2>5, <2>6
<1>5. CASE UNCHANGED pipeVars
  BY <1>5 DEF PipeInv, pipeVars
<1> QED
  BY <1>2, <1>3, <1>4, <1>5 DEF P!Next, P!Fifo!Next

(* For every capacity and every byte, the pipe implements the bounded FIFO *)
(* queue: nothing is lost, and nothing is read from an empty pipe.         *)
THEOREM PipeImplementsQueue == LabsSpec => PipeIsQueue
<1>1. LabsInit => P!Fifo!Init
  BY DEF LabsInit, P!Init, P!Fifo!Init
<1>2. [LabsNext]_labsVars => [P!Next]_pipeVars
  BY LabsSteps
<1>3. PipeInv /\ [P!Next]_pipeVars => PipeInv' /\ [P!Fifo!Next]_<<bytes, cap, last>>
  BY PipeStepIsQueueStep
<1> QED
  BY <1>1, <1>2, <1>3, PipeInit, PTL
     DEF LabsSpec, PipeIsQueue, P!ImplementsQueue, P!Fifo!Spec
-----------------------------------------------------------------------------
(* Induction over the naturals: a set that is not empty has a least        *)
(* element.                                                                *)
LEMMA LeastNat ==
    ASSUME NEW T, T \subseteq Nat, T # {}
    PROVE  \E x \in T : \A y \in T : x <= y
<1> DEFINE R == OpToRel(<, Nat)
<1>1. IsWellFoundedOn(R, Nat)
  BY NatLessThanWellFounded
<1>2. \E x \in T : \A y \in T : ~(<<y, x>> \in R)
  <2> HIDE DEF R
  <2> QED
    BY <1>1, WFMin
<1>3. PICK x \in T : \A y \in T : ~(<<y, x>> \in R)
  BY <1>2
<1>4. ASSUME NEW y \in T PROVE x <= y
  <2>1. x \in Nat /\ y \in Nat
    OBVIOUS
  <2>2. <<y, x>> \in Nat \X Nat /\ ~(<<y, x>> \in R)
    BY <2>1, <1>3
  <2>3. ~(y < x)
    BY <2>2 DEF OpToRel
  <2> QED
    BY <2>1, <2>3
<1> QED
  BY <1>4

(* A recursive sum over sequences: it exists, for sequences up to any      *)
(* length, and what two such sums give is the same.                        *)
Short(T, n) == {q \in Seq(T) : Len(q) <= n}
Sums(T, w, n) ==
    {f \in [Short(T, n) -> Nat] : \A q \in Short(T, n) :
        f[q] = IF q = << >> THEN 0 ELSE w[Head(q)] + f[Tail(q)]}

(* The tail of a sequence is shorter.                                      *)
LEMMA ShortTail ==
    ASSUME NEW T, NEW n \in Nat, NEW q \in Seq(T), q # << >>
    PROVE  /\ Head(q) \in T /\ Tail(q) \in Seq(T) /\ Len(q) \in Nat \ {0}
           /\ Len(Tail(q)) = Len(q) - 1
           /\ q \in Short(T, n + 1) => Tail(q) \in Short(T, n)
           /\ q \in Short(T, n) => Tail(q) \in Short(T, n)
<1>1. Head(q) \in T /\ Tail(q) \in Seq(T) /\ Len(q) \in Nat \ {0} /\ Len(Tail(q)) = Len(q) - 1
  OBVIOUS
<1>2. Len(q) <= n + 1 => Len(q) - 1 <= n
  BY <1>1
<1>3. Len(q) <= n => Len(q) - 1 <= n
  BY <1>1
<1> QED
  BY <1>1, <1>2, <1>3 DEF Short

(* By induction on the length.                                             *)
LEMMA SumsExist ==
    ASSUME NEW T, NEW w \in [T -> Nat]
    PROVE  \A n \in Nat : Sums(T, w, n) # {}
<1> DEFINE Missing == {n \in Nat : Sums(T, w, n) = {}}
<1> SUFFICES ASSUME Missing # {} PROVE FALSE
  OBVIOUS
<1>1. PICK n \in Missing : \A m \in Missing : n <= m
  BY LeastNat
<1>2. CASE n = 0
  <2> DEFINE f == [q \in Short(T, 0) |-> 0]
  <2>1. \A q \in Short(T, 0) : q = << >>
    BY DEF Short
  <2>2. f \in [Short(T, 0) -> Nat] /\ \A q \in Short(T, 0) : f[q] = 0
    OBVIOUS
  <2> HIDE DEF f
  <2>3. f \in Sums(T, w, 0)
    BY <2>1, <2>2 DEF Sums
  <2> QED
    BY <1>2, <2>3
<1>3. CASE n # 0
  <2> DEFINE m == n - 1
  <2>1. m \in Nat /\ n = m + 1 /\ ~(n <= m)
    BY <1>3
  <2>2. PICK g : g \in Sums(T, w, m)
    BY <1>1, <2>1
  <2> HIDE DEF m
  <2> DEFINE f == [q \in Short(T, n) |-> IF q = << >> THEN 0 ELSE w[Head(q)] + g[Tail(q)]]
  <2>3. /\ g \in [Short(T, m) -> Nat]
        /\ \A q \in Short(T, m) : g[q] = IF q = << >> THEN 0 ELSE w[Head(q)] + g[Tail(q)]
    BY <2>2 DEF Sums
  <2>4. ASSUME NEW q \in Short(T, n), q # << >>
        PROVE  /\ Head(q) \in T /\ Tail(q) \in Short(T, m) /\ Tail(q) \in Short(T, n)
               /\ w[Head(q)] \in Nat /\ g[Tail(q)] \in Nat
    <3>1. q \in Seq(T)
      BY DEF Short
    <3>2. Head(q) \in T /\ Tail(q) \in Short(T, m) /\ Tail(q) \in Short(T, n)
      BY <2>1, <2>4, <3>1, ShortTail
    <3> QED
      BY <2>3, <3>2
  <2>5. f \in [Short(T, n) -> Nat]
    <3>1. ASSUME NEW q \in Short(T, n)
          PROVE  (IF q = << >> THEN 0 ELSE w[Head(q)] + g[Tail(q)]) \in Nat
      BY <2>4
    <3> QED
      BY <3>1
  <2>6. ASSUME NEW q \in Short(T, m), q \in Short(T, n) PROVE f[q] = g[q]
    BY <2>3, <2>6
  <2>7. ASSUME NEW q \in Short(T, n)
        PROVE  f[q] = IF q = << >> THEN 0 ELSE w[Head(q)] + f[Tail(q)]
    <3>1. CASE q = << >>
      BY <3>1
    <3>2. CASE q # << >>
      <4>1. f[Tail(q)] = g[Tail(q)]
        BY <2>4, <2>6, <3>2
      <4> QED
        BY <3>2, <4>1
    <3> QED
      BY <3>1, <3>2
  <2> HIDE DEF f
  <2>8. f \in Sums(T, w, n)
    BY <2>5, <2>7 DEF Sums
  <2> QED
    BY <2>8
<1> QED
  BY <1>2, <1>3

(* By induction on the length of the sequence.                             *)
LEMMA SumsAgree ==
    ASSUME NEW T, NEW w, NEW m \in Nat, NEW n \in Nat,
           NEW f \in Sums(T, w, m), NEW g \in Sums(T, w, n),
           NEW q \in Short(T, m), q \in Short(T, n)
    PROVE  f[q] = g[q]
<1> DEFINE Apart == {r \in Short(T, m) \cap Short(T, n) : f[r] # g[r]}
           lengths == {Len(r) : r \in Apart}
<1> SUFFICES ASSUME Apart # {} PROVE FALSE
  OBVIOUS
<1>1. lengths \subseteq Nat /\ lengths # {}
  <2>1. \A r \in Apart : Len(r) \in Nat
    BY DEF Short
  <2> QED
    BY <2>1
<1>2. PICK l \in lengths : \A k \in lengths : l <= k
  <2> HIDE DEF lengths
  <2> QED
    BY <1>1, LeastNat
<1>3. PICK r \in Apart : l = Len(r)
  BY <1>2
<1>4. /\ f[r] = IF r = << >> THEN 0 ELSE w[Head(r)] + f[Tail(r)]
      /\ g[r] = IF r = << >> THEN 0 ELSE w[Head(r)] + g[Tail(r)]
      /\ f[r] # g[r] /\ r \in Seq(T)
  BY <1>3 DEF Sums, Short
<1>5. r # << >> /\ f[Tail(r)] # g[Tail(r)]
  BY <1>4
<1>6. /\ Tail(r) \in Short(T, m) /\ Tail(r) \in Short(T, n)
      /\ Len(Tail(r)) = l - 1 /\ l \in Nat \ {0}
  BY <1>3, <1>4, <1>5, ShortTail
<1>7. Tail(r) \in Apart
  BY <1>5, <1>6
<1>8. l <= l - 1
  BY <1>2, <1>6, <1>7
<1> QED
  BY <1>6, <1>8

(* So there is the sum over all sequences.                                 *)
LEMMA SumExists ==
    ASSUME NEW T, NEW w \in [T -> Nat]
    PROVE  \E f \in [Seq(T) -> Nat] :
              f = [q \in Seq(T) |-> IF q = << >> THEN 0 ELSE w[Head(q)] + f[Tail(q)]]
<1> DEFINE g(n) == CHOOSE f : f \in Sums(T, w, n)
           f == [q \in Seq(T) |-> g(Len(q))[q]]
<1>1. \A n \in Nat : g(n) \in Sums(T, w, n)
  BY SumsExist
<1>2. \A q \in Seq(T) : Len(q) \in Nat /\ q \in Short(T, Len(q))
  BY DEF Short
<1> HIDE DEF g
<1>3. ASSUME NEW q \in Seq(T)
      PROVE  /\ g(Len(q))[q] \in Nat
             /\ g(Len(q))[q] = IF q = << >> THEN 0 ELSE w[Head(q)] + g(Len(q))[Tail(q)]
  <2> DEFINE n == Len(q)
  <2>1. n \in Nat /\ q \in Short(T, n) /\ g(n) \in Sums(T, w, n)
    BY <1>1, <1>2
  <2> HIDE DEF n
  <2>2. g(n)[q] \in Nat /\ g(n)[q] = IF q = << >> THEN 0 ELSE w[Head(q)] + g(n)[Tail(q)]
    BY <2>1 DEF Sums
  <2> QED
    BY <2>2 DEF n
<1>4. ASSUME NEW q \in Seq(T), q # << >>
      PROVE  Tail(q) \in Seq(T) /\ g(Len(q))[Tail(q)] = g(Len(Tail(q)))[Tail(q)]
  <2> DEFINE n == Len(q)
             m == Len(Tail(q))
  <2>1. n \in Nat /\ Tail(q) \in Seq(T) /\ Tail(q) \in Short(T, n)
    BY <1>2, <1>4, ShortTail
  <2>2. m \in Nat /\ Tail(q) \in Short(T, m)
    BY <1>2, <2>1
  <2> HIDE DEF n, m
  <2>3. g(n)[Tail(q)] = g(m)[Tail(q)]
    BY <1>1, <2>1, <2>2, SumsAgree
  <2> QED
    BY <2>1, <2>3 DEF n, m
<1>5. f \in [Seq(T) -> Nat]
  BY <1>3
<1>6. ASSUME NEW q \in Seq(T)
      PROVE  f[q] = IF q = << >> THEN 0 ELSE w[Head(q)] + f[Tail(q)]
  BY <1>3, <1>4
<1>7. f = [q \in Seq(T) |-> IF q = << >> THEN 0 ELSE w[Head(q)] + f[Tail(q)]]
  <2> HIDE DEF f
  <2>1. f = [q \in Seq(T) |-> f[q]]
    BY <1>5
  <2> QED
    BY <1>6, <2>1
<1> QED
  BY <1>5, <1>7
-----------------------------------------------------------------------------
(* The channel never holds more than its capacities, as long as nothing    *)
(* counts past SizeMod and no message is smaller than what recv pops.      *)

(* The recursive sums of module Channel are sums.                          *)
LEMMA ChannelSums ==
    ASSUME NEW q \in Seq(C!Lengths)
    PROVE  /\ C!BytesOf[q] = IF q = << >> THEN 0 ELSE Head(q).bytes + C!BytesOf[Tail(q)]
           /\ C!CapsOf[q] = IF q = << >> THEN 0 ELSE Head(q).caps + C!CapsOf[Tail(q)]
<1> DEFINE T == C!Lengths
<1>1. \A m \in T : m.bytes \in Nat /\ m.caps \in Nat
  BY DEF C!Lengths, C!Sizes
<1> HIDE DEF T
<1>2. \A r \in Seq(T) : r # << >> => Head(r) \in T
  OBVIOUS
<1>3. C!BytesOf = [r \in Seq(T) |-> IF r = << >> THEN 0 ELSE Head(r).bytes + C!BytesOf[Tail(r)]]
  <2> DEFINE w == [m \in T |-> m.bytes]
             Is(f) == f = [r \in Seq(T) |-> IF r = << >> THEN 0 ELSE Head(r).bytes + f[Tail(r)]]
  <2>1. w \in [T -> Nat]
    BY <1>1
  <2>2. PICK f \in [Seq(T) -> Nat] :
           f = [r \in Seq(T) |-> IF r = << >> THEN 0 ELSE w[Head(r)] + f[Tail(r)]]
    BY <2>1, SumExists
  <2>3. \A r \in Seq(T) : r # << >> => w[Head(r)] = Head(r).bytes
    BY <1>2
  <2> HIDE DEF w
  <2>4. [r \in Seq(T) |-> IF r = << >> THEN 0 ELSE w[Head(r)] + f[Tail(r)]]
          = [r \in Seq(T) |-> IF r = << >> THEN 0 ELSE Head(r).bytes + f[Tail(r)]]
    BY <2>3
  <2>5. Is(f)
    BY <2>2, <2>4
  <2>6. C!BytesOf = CHOOSE g : Is(g)
    BY DEF C!BytesOf, T
  <2> HIDE DEF Is
  <2>7. Is(C!BytesOf)
    BY <2>5, <2>6
  <2> QED
    BY <2>7 DEF Is
<1>4. C!CapsOf = [r \in Seq(T) |-> IF r = << >> THEN 0 ELSE Head(r).caps + C!CapsOf[Tail(r)]]
  <2> DEFINE w == [m \in T |-> m.caps]
             Is(f) == f = [r \in Seq(T) |-> IF r = << >> THEN 0 ELSE Head(r).caps + f[Tail(r)]]
  <2>1. w \in [T -> Nat]
    BY <1>1
  <2>2. PICK f \in [Seq(T) -> Nat] :
           f = [r \in Seq(T) |-> IF r = << >> THEN 0 ELSE w[Head(r)] + f[Tail(r)]]
    BY <2>1, SumExists
  <2>3. \A r \in Seq(T) : r # << >> => w[Head(r)] = Head(r).caps
    BY <1>2
  <2> HIDE DEF w
  <2>4. [r \in Seq(T) |-> IF r = << >> THEN 0 ELSE w[Head(r)] + f[Tail(r)]]
          = [r \in Seq(T) |-> IF r = << >> THEN 0 ELSE Head(r).caps + f[Tail(r)]]
    BY <2>3
  <2>5. Is(f)
    BY <2>2, <2>4
  <2>6. C!CapsOf = CHOOSE g : Is(g)
    BY DEF C!CapsOf, T
  <2> HIDE DEF Is
  <2>7. Is(C!CapsOf)
    BY <2>5, <2>6
  <2> QED
    BY <2>7 DEF Is
<1> QED
  BY <1>3, <1>4 DEF T

(* A message sent adds its lengths to the sums.                            *)
LEMMA ChannelAppend ==
    ASSUME NEW q \in Seq(C!Lengths), NEW m \in C!Lengths
    PROVE  /\ C!BytesOf[q] \in Nat /\ C!CapsOf[q] \in Nat
           /\ C!BytesOf[Append(q, m)] = C!BytesOf[q] + m.bytes
           /\ C!CapsOf[Append(q, m)] = C!CapsOf[q] + m.caps
<1> DEFINE T == C!Lengths
           B == C!BytesOf
           K == C!CapsOf
           Right(r) == /\ B[r] \in Nat /\ K[r] \in Nat
                       /\ B[Append(r, m)] = B[r] + m.bytes /\ K[Append(r, m)] = K[r] + m.caps
           lengths == {Len(r) : r \in {r \in Seq(T) : ~Right(r)}}
<1>1. \A x \in T : x.bytes \in Nat /\ x.caps \in Nat
  BY DEF C!Lengths, C!Sizes
<1>2. \A r \in Seq(T) :
         /\ B[r] = IF r = << >> THEN 0 ELSE Head(r).bytes + B[Tail(r)]
         /\ K[r] = IF r = << >> THEN 0 ELSE Head(r).caps + K[Tail(r)]
  BY ChannelSums
<1>3. m \in T /\ q \in Seq(T)
  OBVIOUS
<1> HIDE DEF T, B, K
<1>4. \A r \in Seq(T) : Len(r) \in Nat /\ Append(r, m) \in Seq(T) /\ Append(r, m) # << >>
  BY <1>3
<1>5. ASSUME ~Right(q) PROVE FALSE
  <2>1. lengths \subseteq Nat /\ lengths # {}
    <3> HIDE DEF Right
    <3> QED
      BY <1>3, <1>4, <1>5
  <2>2. PICK l \in lengths : \A n \in lengths : l <= n
    <3> HIDE DEF lengths
    <3> QED
      BY <2>1, LeastNat
  <2> HIDE DEF Right
  <2>3. PICK r \in Seq(T) : ~Right(r) /\ l = Len(r)
    BY <2>2
  <2>4. CASE r = << >>
    <3>1. Head(Append(r, m)) = m /\ Tail(Append(r, m)) = r
      BY <2>4, <1>3
    <3>2. B[r] = 0 /\ K[r] = 0
      BY <2>4, <1>2
    <3>3. B[Append(r, m)] = m.bytes + 0 /\ K[Append(r, m)] = m.caps + 0
      <4>1. /\ B[Append(r, m)] = Head(Append(r, m)).bytes + B[Tail(Append(r, m))]
            /\ K[Append(r, m)] = Head(Append(r, m)).caps + K[Tail(Append(r, m))]
        BY <1>2, <1>4
      <4> QED
        BY <3>1, <3>2, <4>1
    <3> QED
      BY <3>2, <3>3, <1>1, <1>3, <2>3 DEF Right
  <2>5. CASE r # << >>
    <3>1. /\ Head(r) \in T /\ Tail(r) \in Seq(T) /\ Len(r) \in Nat \ {0}
          /\ Len(Tail(r)) = Len(r) - 1
      BY <2>5, ShortTail
    <3>2. Right(Tail(r))
      <4>1. ~(Len(r) <= Len(Tail(r)))
        BY <3>1
      <4> QED
        BY <2>2, <2>3, <3>1, <4>1
    <3>3. Head(Append(r, m)) = Head(r) /\ Tail(Append(r, m)) = Append(Tail(r), m)
      BY <2>5, <1>3
    <3>4. /\ B[r] = Head(r).bytes + B[Tail(r)] /\ K[r] = Head(r).caps + K[Tail(r)]
          /\ B[Append(r, m)] = Head(r).bytes + B[Append(Tail(r), m)]
          /\ K[Append(r, m)] = Head(r).caps + K[Append(Tail(r), m)]
      BY <2>5, <3>3, <1>2, <1>4
    <3>5. /\ Head(r).bytes \in Nat /\ Head(r).caps \in Nat /\ m.bytes \in Nat /\ m.caps \in Nat
      BY <3>1, <1>1, <1>3
    <3>6. /\ B[Tail(r)] \in Nat /\ B[Append(Tail(r), m)] = B[Tail(r)] + m.bytes
          /\ K[Tail(r)] \in Nat /\ K[Append(Tail(r), m)] = K[Tail(r)] + m.caps
      BY <3>2 DEF Right
    <3>7. B[r] \in Nat /\ B[Append(r, m)] = B[r] + m.bytes
      BY <3>4, <3>5, <3>6
    <3>8. K[r] \in Nat /\ K[Append(r, m)] = K[r] + m.caps
      BY <3>4, <3>5, <3>6
    <3> QED
      BY <2>3, <3>7, <3>8 DEF Right
  <2> QED
    BY <2>4, <2>5
<1> QED
  BY <1>5 DEF B, K

(* The counters are at least what the queue holds, and within capacity.    *)
ChannelInv ==
    /\ room \in Rooms /\ queue \in Seq(Messages)
    /\ msgQueueUsed = Len(queue) /\ Len(queue) <= room.msgs
    /\ bytesUsed \in Nat /\ C!BytesOf[queue] <= bytesUsed /\ bytesUsed <= room.bytes
    /\ capsUsed \in Nat /\ C!CapsOf[queue] <= capsUsed /\ capsUsed <= room.caps

(* Below the modulus, counting modulo is counting.                         *)
LEMMA ModSmall ==
    ASSUME NEW a \in Nat, NEW m \in Nat, a < m
    PROVE  a % m = a
  OBVIOUS

(* A message that leaves the counter below the modulus.                    *)
LEMMA SumSmall ==
    ASSUME NEW u \in Nat, NEW r \in Nat, NEW n \in Nat, NEW l \in Nat,
           u <= r, NEW x \in l .. n - 1 - r
    PROVE  x \in Nat /\ l <= x /\ u + x \in Nat /\ u + x < n
  OBVIOUS

(* The capacities are numbers below the modulus.                           *)
LEMMA ChannelRoom ==
    ASSUME NEW r \in Rooms
    PROVE  /\ r.bytes \in Nat /\ r.caps \in Nat /\ r.msgs \in Nat /\ SizeMod \in Nat
           /\ r.bytes < SizeMod /\ r.caps < SizeMod /\ r.msgs + 1 < SizeMod
<1>1. SizeMod \in Nat \ {0} /\ r \in [bytes : C!Sizes, caps : C!Sizes, msgs : 0..SizeMod - 2]
  BY LabsAssumption DEF C!ChannelConstants
<1>2. r.bytes \in 0..SizeMod - 1 /\ r.caps \in 0..SizeMod - 1 /\ r.msgs \in 0..SizeMod - 2
  BY <1>1 DEF C!Sizes
<1> QED
  BY <1>1, <1>2

(* What is sent are messages, whose lengths can be summed.                 *)
LEMMA ChannelMessages ==
    ASSUME NEW q \in Seq(Messages)
    PROVE  Messages \subseteq C!Lengths /\ q \in Seq(C!Lengths) /\ Len(q) \in Nat
<1>1. Messages \subseteq C!Lengths
  BY LabsAssumption DEF C!ChannelConstants
<1> QED
  BY <1>1

(* A new channel is empty.                                                 *)
LEMMA ChannelInit == LabsInit => ChannelInv
<1> SUFFICES ASSUME LabsInit PROVE ChannelInv
  OBVIOUS
<1>1. room \in Rooms
  BY LabsAssumption DEF LabsInit, Given, Some
<1>2. room.bytes \in Nat /\ room.caps \in Nat /\ room.msgs \in Nat
  BY <1>1, ChannelRoom
<1>3. queue = << >> /\ bytesUsed = 0 /\ capsUsed = 0 /\ msgQueueUsed = 0
  BY DEF LabsInit, C!Init
<1>4. queue \in Seq(C!Lengths) /\ queue \in Seq(Messages)
  BY <1>3
<1>5. C!BytesOf[queue] = 0 /\ C!CapsOf[queue] = 0
  BY <1>3, <1>4, ChannelSums
<1> QED
  BY <1>1, <1>2, <1>3, <1>4, <1>5 DEF ChannelInv

(* A message that is sent fits.                                            *)
LEMMA SendKeeps ==
    ASSUME ChannelInv, C!NothingWraps, NEW m \in Messages, C!send(m)
    PROVE  ChannelInv'
<1> DEFINE more == Append(queue, m)
           b == C!BytesOf[queue]
           k == C!CapsOf[queue]
<1>1. CASE C!HasRoom(m)
  <2>1. /\ room \in Rooms /\ queue \in Seq(Messages)
        /\ msgQueueUsed = Len(queue) /\ Len(queue) <= room.msgs
        /\ bytesUsed \in Nat /\ b <= bytesUsed /\ bytesUsed <= room.bytes
        /\ capsUsed \in Nat /\ k <= capsUsed /\ capsUsed <= room.caps
    BY DEF ChannelInv
  <2>2. m \in C!Lengths /\ queue \in Seq(C!Lengths) /\ Len(queue) \in Nat
    BY <2>1, ChannelMessages
  <2>3. /\ more \in Seq(Messages) /\ Len(more) = Len(queue) + 1
        /\ b \in Nat /\ k \in Nat
        /\ C!BytesOf[more] = b + m.bytes /\ C!CapsOf[more] = k + m.caps
    BY <2>1, <2>2, ChannelAppend
  <2>4. /\ room.bytes \in Nat /\ room.caps \in Nat /\ room.msgs \in Nat /\ SizeMod \in Nat
        /\ room.msgs + 1 < SizeMod
    BY <2>1, ChannelRoom
  <2>5. /\ m.bytes \in 2 .. SizeMod - 1 - room.bytes /\ m.caps \in 1 .. SizeMod - 1 - room.caps
    BY DEF C!NothingWraps, C!PoppedBytes, C!PoppedCaps
  <2>6. /\ queue' = more /\ room' = room /\ msgQueueUsed' = msgQueueUsed + 1
        /\ bytesUsed' = C!Plus(bytesUsed, m.bytes) /\ capsUsed' = C!Plus(capsUsed, m.caps)
    BY <1>1 DEF C!send
  <2>7. /\ C!Plus(msgQueueUsed, 1) <= room.msgs
        /\ C!Plus(bytesUsed, m.bytes) <= room.bytes /\ C!Plus(capsUsed, m.caps) <= room.caps
    BY <1>1 DEF C!HasRoom
  <2> HIDE DEF more, b, k
  <2>8. /\ C!Plus(msgQueueUsed, 1) = msgQueueUsed + 1
        /\ C!Plus(bytesUsed, m.bytes) = bytesUsed + m.bytes
        /\ C!Plus(capsUsed, m.caps) = capsUsed + m.caps
    <3>1. msgQueueUsed + 1 \in Nat /\ msgQueueUsed + 1 < SizeMod
      BY <2>1, <2>2, <2>4
    <3>2. bytesUsed + m.bytes \in Nat /\ bytesUsed + m.bytes < SizeMod
      BY <2>1, <2>4, <2>5, SumSmall
    <3>3. capsUsed + m.caps \in Nat /\ capsUsed + m.caps < SizeMod
      BY <2>1, <2>4, <2>5, SumSmall
    <3> QED
      BY <2>4, <3>1, <3>2, <3>3, ModSmall DEF C!Plus
  <2>9. /\ bytesUsed' \in Nat /\ C!BytesOf[more] <= bytesUsed' /\ bytesUsed' <= room.bytes
        /\ capsUsed' \in Nat /\ C!CapsOf[more] <= capsUsed' /\ capsUsed' <= room.caps
    BY <2>1, <2>3, <2>5, <2>6, <2>7, <2>8
  <2>10. msgQueueUsed' = Len(more) /\ Len(more) <= room.msgs
    BY <2>1, <2>3, <2>6, <2>7, <2>8
  <2> QED
    BY <2>1, <2>3, <2>6, <2>9, <2>10 DEF ChannelInv
<1>2. CASE ~C!HasRoom(m)
  <2>1. UNCHANGED <<room, bytesUsed, capsUsed, msgQueueUsed, queue>>
    BY <1>2 DEF C!send, C!Refused, C!used
  <2> QED
    BY <2>1 DEF ChannelInv
<1> QED
  BY <1>1, <1>2

(* What recv gives back is at most what the message took.                  *)
LEMMA RecvKeeps ==
    ASSUME ChannelInv, C!NothingWraps, NEW offer \in Offers, C!recv(offer)
    PROVE  ChannelInv'
<1> DEFINE rest == Tail(queue)
           b == C!BytesOf[rest]
           k == C!CapsOf[rest]
<1>1. CASE C!CanRecv(offer)
  <2>1. /\ room \in Rooms /\ queue \in Seq(Messages)
        /\ msgQueueUsed = Len(queue) /\ Len(queue) <= room.msgs
        /\ bytesUsed \in Nat /\ C!BytesOf[queue] <= bytesUsed /\ bytesUsed <= room.bytes
        /\ capsUsed \in Nat /\ C!CapsOf[queue] <= capsUsed /\ capsUsed <= room.caps
    BY DEF ChannelInv
  <2>2. queue # << >> /\ Len(queue) # 0
    BY <1>1, <2>1 DEF C!CanRecv
  <2>3. /\ Head(queue) \in Messages /\ rest \in Seq(Messages)
        /\ Len(queue) \in Nat \ {0} /\ Len(rest) = Len(queue) - 1
    BY <2>1, <2>2, ShortTail
  <2>4. queue \in Seq(C!Lengths) /\ rest \in Seq(C!Lengths) /\ Head(queue) \in C!Lengths
    BY <2>1, <2>3, ChannelMessages
  <2>5. /\ C!BytesOf[queue] = Head(queue).bytes + b /\ C!CapsOf[queue] = Head(queue).caps + k
        /\ b \in Nat /\ k \in Nat
    <3>1. b \in Nat /\ k \in Nat
      BY <2>4, ChannelAppend
    <3> QED
      BY <2>2, <2>4, <3>1, ChannelSums
  <2>6. /\ room.bytes \in Nat /\ room.caps \in Nat /\ room.msgs \in Nat /\ SizeMod \in Nat
        /\ room.bytes < SizeMod /\ room.caps < SizeMod /\ room.msgs + 1 < SizeMod
    BY <2>1, ChannelRoom
  <2>7. /\ Head(queue).bytes \in Nat /\ 2 <= Head(queue).bytes
        /\ Head(queue).caps \in Nat /\ 1 <= Head(queue).caps
    <3>1. /\ Head(queue).bytes \in 2 .. SizeMod - 1 - room.bytes
          /\ Head(queue).caps \in 1 .. SizeMod - 1 - room.caps
      BY <2>3 DEF C!NothingWraps, C!PoppedBytes, C!PoppedCaps
    <3> QED
      BY <2>6, <3>1, SumSmall
  <2>8. /\ bytesUsed' = C!Minus(bytesUsed, 2) /\ capsUsed' = C!Minus(capsUsed, 1)
        /\ msgQueueUsed' = C!Minus(msgQueueUsed, 1)
        /\ queue' = rest /\ room' = room
    BY <1>1, <2>2 DEF C!recv, C!Popped, C!PoppedBytes, C!PoppedCaps
  <2> HIDE DEF rest, b, k
  <2>9. /\ C!Minus(bytesUsed, 2) = bytesUsed - 2 /\ C!Minus(capsUsed, 1) = capsUsed - 1
        /\ C!Minus(msgQueueUsed, 1) = msgQueueUsed - 1
    <3>1. msgQueueUsed - 1 \in Nat /\ msgQueueUsed - 1 < SizeMod
      BY <2>1, <2>3, <2>6
    <3>2. bytesUsed - 2 \in Nat /\ bytesUsed - 2 < SizeMod
      <4>1. 2 <= bytesUsed
        BY <2>1, <2>5, <2>7
      <4> QED
        BY <2>1, <2>6, <4>1
    <3>3. capsUsed - 1 \in Nat /\ capsUsed - 1 < SizeMod
      <4>1. 1 <= capsUsed
        BY <2>1, <2>5, <2>7
      <4> QED
        BY <2>1, <2>6, <4>1
    <3> QED
      BY <2>6, <3>1, <3>2, <3>3, ModSmall DEF C!Minus
  <2>10. /\ bytesUsed' \in Nat /\ b <= bytesUsed' /\ bytesUsed' <= room.bytes
         /\ capsUsed' \in Nat /\ k <= capsUsed' /\ capsUsed' <= room.caps
    <3>1. b <= bytesUsed - 2 /\ bytesUsed - 2 \in Nat /\ bytesUsed - 2 <= room.bytes
      BY <2>1, <2>5, <2>6, <2>7
    <3>2. k <= capsUsed - 1 /\ capsUsed - 1 \in Nat /\ capsUsed - 1 <= room.caps
      BY <2>1, <2>5, <2>6, <2>7
    <3> QED
      BY <2>8, <2>9, <3>1, <3>2
  <2>11. msgQueueUsed' = Len(rest) /\ Len(rest) <= room.msgs
    BY <2>1, <2>3, <2>6, <2>8, <2>9
  <2> QED
    BY <2>1, <2>3, <2>8, <2>10, <2>11 DEF ChannelInv, b, k
<1>2. CASE ~C!CanRecv(offer)
  <2>1. UNCHANGED <<room, bytesUsed, capsUsed, msgQueueUsed, queue>>
    BY <1>2 DEF C!recv, C!Refused, C!used
  <2> QED
    BY <2>1 DEF ChannelInv
<1> QED
  BY <1>1, <1>2

(* For any capacities and any messages no smaller than what recv pops, as  *)
(* long as no sum wraps: the channel never holds more messages, bytes or   *)
(* capabilities than its capacities, whatever is sent and received.        *)
THEOREM ChannelWithinCapacity == LabsSpec => []ChannelNeverOverfull
<1> DEFINE Inv == C!NothingWraps => ChannelInv
<1>1. LabsInit => Inv
  BY ChannelInit
<1>2. [LabsNext]_labsVars => [C!Next]_channelVars
  BY LabsSteps
<1>3. Inv /\ [C!Next]_channelVars => Inv'
  <2> SUFFICES ASSUME Inv, [C!Next]_channelVars, C!NothingWraps' PROVE ChannelInv'
    OBVIOUS
  <2>1. room' = room
    BY DEF C!Next, C!send, C!recv, C!Refused, channelVars
  <2>2. C!NothingWraps
    BY <2>1 DEF C!NothingWraps, C!PoppedBytes, C!PoppedCaps
  <2>3. CASE UNCHANGED channelVars
    BY <2>2, <2>3 DEF channelVars, ChannelInv
  <2>4. CASE C!Next
    BY <2>2, <2>4, SendKeeps, RecvKeeps DEF C!Next
  <2> QED
    BY <2>3, <2>4
<1>4. Inv => ChannelNeverOverfull
  <2> SUFFICES ASSUME ChannelInv
               PROVE  /\ Len(queue) <= room.msgs
                      /\ C!BytesOf[queue] <= room.bytes /\ C!CapsOf[queue] <= room.caps
    BY DEF ChannelNeverOverfull, C!NeverOverfull
  <2>1. room \in Rooms /\ queue \in Seq(C!Lengths)
    BY ChannelMessages DEF ChannelInv
  <2>2. /\ C!BytesOf[queue] \in Nat /\ C!CapsOf[queue] \in Nat
        /\ room.bytes \in Nat /\ room.caps \in Nat
    <3>1. [bytes |-> 0, caps |-> 0] \in C!Lengths
      BY LabsAssumption DEF C!ChannelConstants, C!Lengths, C!Sizes
    <3> QED
      BY <2>1, <3>1, ChannelRoom, ChannelAppend
  <2> QED
    BY <2>2 DEF ChannelInv
<1> QED
  BY <1>1, <1>2, <1>3, <1>4, PTL DEF LabsSpec
=============================================================================
