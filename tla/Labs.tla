-------------------------------- MODULE Labs --------------------------------
(***************************************************************************)
(* The book's labs that keep state (src-c), each a program of its own.     *)
(* They share nothing: a behaviour runs one lab, and the variables of the  *)
(* others stay as they are.                                                *)
(***************************************************************************)
EXTENDS TaskChoice, CoroutineTask

CONSTANTS
    PAGE, SizeMod,                  \* constants of the labs: see SpaceMap,
    Spaces, Requests,
    Rooms, Messages, Offers,        \* Channel,
    Bytes, Capacities, Users,       \* Pipe and
    SlotCounts, Ids                 \* Domain

VARIABLES
    lab,                                            \* the lab that runs
    room, bytesUsed, capsUsed, msgQueueUsed, queue, answer,     \* Channel
    cap, bytes, seen, last,                         \* Pipe
    slotCount, slots, issued, found,                \* Domain
    mapped, asked, req, compared, ok, pc            \* SpaceMap

channelVars == <<room, bytesUsed, capsUsed, msgQueueUsed, queue, answer>>
pipeVars == <<cap, bytes, seen, last>>
domainVars == <<slotCount, slots, issued, found>>
spaceVars == <<mapped, asked, req, compared, ok, pc>>
labsVars == <<lab, channelVars, pipeVars, domainVars, spaceVars, vars, tasksVars>>

C == INSTANCE Channel
P == INSTANCE Pipe
D == INSTANCE Domain WITH n <- slotCount, answer <- found
S == INSTANCE SpaceMap WITH i <- compared

ASSUME LabsAssumption ==
    /\ C!ChannelConstants /\ P!PipeConstants
    /\ D!DomainConstants /\ S!SpaceMapConstants
    \* each lab has something to run with
    /\ {} \notin {Rooms, Capacities, SlotCounts, Spaces, Requests}

Some(s) == CHOOSE x \in s : TRUE

(* The parameters of a lab that does not run do not matter.                *)
Given(name, s) == IF lab = name THEN s ELSE {Some(s)}

LabsInit ==
    /\ lab \in {"channel", "pipe", "domain", "space", "choice", "coroutine"}
    /\ room \in Given("channel", Rooms) /\ C!Init
    /\ cap \in Given("pipe", Capacities) /\ P!Init
    /\ slotCount \in Given("domain", SlotCounts) /\ D!Init
    /\ mapped \in Given("space", Spaces) /\ asked \in Given("space", Requests) /\ S!Init
    /\ now \in Given("choice", Times) /\ state \in Given("choice", [Tasks -> States])
    /\ sliceEnd \in Given("choice", [Tasks -> Times]) /\ Init
    /\ TasksInit

ChannelStep ==
    /\ lab = "channel" /\ C!Next
    /\ UNCHANGED <<lab, pipeVars, domainVars, spaceVars, vars, tasksVars>>
PipeStep(A) ==
    /\ lab = "pipe" /\ A
    /\ UNCHANGED <<lab, channelVars, domainVars, spaceVars, vars, tasksVars>>
DomainStep ==
    /\ lab = "domain" /\ D!Next
    /\ UNCHANGED <<lab, channelVars, pipeVars, spaceVars, vars, tasksVars>>
SpaceStep ==
    /\ lab = "space" /\ S!Next
    /\ UNCHANGED <<lab, channelVars, pipeVars, domainVars, vars, tasksVars>>
ChoiceStep ==
    /\ lab = "choice" /\ Next
    /\ UNCHANGED <<lab, channelVars, pipeVars, domainVars, spaceVars, tasksVars>>
CoroutineStep ==
    /\ lab = "coroutine" /\ TasksNext
    /\ UNCHANGED <<lab, channelVars, pipeVars, domainVars, spaceVars, vars>>

LabsNext ==
    \/ ChannelStep \/ PipeStep(P!Next) \/ DomainStep
    \/ SpaceStep \/ ChoiceStep \/ CoroutineStep

(* The pipe's users poll, and the reader acts, again and again (Pipe!Spec).*)
LabsSpec ==
    /\ LabsInit /\ [][LabsNext]_labsVars
    /\ \A u \in Users :
          WF_labsVars(PipeStep(P!poll(u))) /\ WF_labsVars(PipeStep(P!readAsync(u)))
-----------------------------------------------------------------------------
(* Properties of the labs that are instances; EarliestChosen and          *)
(* FramesSound are stated in TaskChoice and CoroutineTask.                 *)

(* Channel: with messages no smaller than what recv pops, it never holds   *)
(* more than its capacities.                                               *)
ChannelNeverOverfull == C!NeverOverfull

(* Channel: recv pops what the message took (it fails for messages of any  *)
(* size but one).                                                          *)
ChannelCountersMatch == C!CountersMatch

(* Pipe: a bounded queue of bytes, for a reader and a writer that poll.    *)
PipeIsQueue == P!ImplementsQueue

(* Pipe: what is written is read.                                          *)
PipeReadGoesOn == P!ReadGoesOn

(* Domain: a capability names one object for ever, and the null capability *)
(* is given only by a full domain.                                         *)
CapabilitiesHold == D!CapsName /\ D!NullOnlyWhenFull

(* SpaceMap: a request that starts at a page, and wraps nowhere, is        *)
(* refused exactly when a page of it is mapped.                            *)
SpaceDecisionRight == S!DecisionRight
=============================================================================
