---------------------------- MODULE RenderFrontend ----------------------------
(***************************************************************************)
(* RenderFrontend: what the front end believes about scenes and views, and *)
(* the requests it sends.  Most requests wait for their reply in           *)
(* POVMS_Send, which meanwhile dispatches whatever else arrives; after 10  *)
(* seconds the wait is given up, the request stays where it is, and its    *)
(* reply, when it comes, finds nobody.                                     *)
(*                                                                         *)
(* Each request is an action that sends it or is refused at once (the code *)
(* throws); the action of its reply does what the code does after the      *)
(* wait.  Next lets a user of the class issue requests in any order;       *)
(* VirtualFrontEnd is the user this code has.                              *)
(***************************************************************************)
EXTENDS RenderBackend

CONSTANT MaxFaults      \* waits given up, and local failures, in a behaviour

ASSUME MaxFaultsAssumption == MaxFaults \in Nat

(* States of scenes and views.  Working is Scene_Parsing and View_Rendering *)
(* and Finished is Scene_Ready and View_Rendered; Viewing and Closing occur *)
(* for scenes only; the other names are the code's.                         *)
FrontStates == {"Unknown", "Created", "Working", "Paused", "Stopping", "Finished",
                "Viewing", "Closing", "Failed", "Invalid"}

VARIABLES
    front,      \* [Objects -> FrontStates]: GetSceneState and GetViewState
    call,       \* the request whose reply is waited for, or NoCall
    result,     \* how the last request returned: normally or by a throw
    stale,      \* replies still to come to waits that were given up
    faults

frontVars == <<front, call, result, stale, faults>>
NoCall == [op |-> "none", obj |-> Scene(0)]

FrontTypeOK ==
    /\ BackTypeOK
    /\ front \in [Objects -> FrontStates]
    /\ call.op \in Ops \cup {"none"} /\ call.obj \in Objects \cup {Scene(0), View(0)}
    /\ result \in [ok: BOOLEAN, obj: Objects \cup {Scene(0), View(0)}]
    /\ stale \in 0..MaxFaults /\ faults \in 0..MaxFaults

FrontInit ==
    /\ front = [o \in Objects |-> "Unknown"]
    /\ call = NoCall
    /\ result = [ok |-> TRUE, obj |-> Scene(0)]
    /\ stale = 0 /\ faults = 0

(* The state of an id, which may be the default one.                        *)
StateOf(o) == IF o \in Objects THEN front[o] ELSE "Unknown"
BackOnlyUnchanged == UNCHANGED <<toFront, job, scenecounter, viewcounter, view2scene>>

KnownViews(s) == {v \in ViewIds: view2scene[v] = s /\ front[View(v)] # "Unknown"}

-----------------------------------------------------------------------------
(* Sending.                                                                 *)

Send(op, o) == toBack' = Append(toBack, [op |-> op, obj |-> o]) /\ BackOnlyUnchanged

Ask(op, o) ==       \* POVMS_Send with kPOVMSSendMode_WaitReply
    /\ call = NoCall
    /\ Send(op, o)
    /\ call' = [op |-> op, obj |-> o]
    /\ UNCHANGED <<result, stale, faults>>

Tell(op, o) ==      \* with kPOVMSSendMode_NoReply
    /\ call = NoCall
    /\ Send(op, o)
    /\ result' = [ok |-> TRUE, obj |-> o]
    /\ UNCHANGED <<call, stale, faults>>

\* Nothing is sent: an unknown id is passed over in silence, else a throw.
NotSent(o) ==
    /\ call = NoCall
    /\ result' = [ok |-> StateOf(o) = "Unknown", obj |-> o]
    /\ UNCHANGED backVars
    /\ UNCHANGED <<call, stale, faults>>

Request(op, o, allowed, next) ==
    \/ /\ StateOf(o) \in allowed
       /\ Ask(op, o)
       /\ front' = [front EXCEPT ![o] = next]
    \/ /\ StateOf(o) \notin allowed
       /\ NotSent(o)
       /\ UNCHANGED front

RequestCreateScene == Ask("CreateScene", Scene(0)) /\ UNCHANGED front

\* A variant with an error: scenes that were not parsed are accepted.
RequestCreateViewEarly(o) ==
    /\ StateOf(o) \in {"Created", "Finished"}
    /\ Ask("CreateView", o)
    /\ UNCHANGED front

RequestCreateView(o) ==
    \/ /\ StateOf(o) = "Finished"
       /\ Ask("CreateView", o)
       /\ UNCHANGED front
    \/ /\ StateOf(o) # "Finished"       \* throws for unknown scenes as well
       /\ call = NoCall
       /\ result' = [ok |-> FALSE, obj |-> o]
       /\ UNCHANGED <<front, call, stale, faults>>
       /\ UNCHANGED backVars

Begin(op, o, allowed) ==
    \/ /\ StateOf(o) \in allowed
       /\ Tell(op, o)
       /\ front' = [front EXCEPT ![o] = "Working"]
    \/ /\ StateOf(o) \notin allowed
       /\ NotSent(o)
       /\ UNCHANGED front

RequestStartParser(o) == Begin("StartParser", o, {"Created"})
RequestStartRender(o) == Begin("StartRender", o, {"Created", "Finished"})
RequestPauseParser(o) == Request("Pause", o, {"Working"}, "Working")
RequestPauseRender(o) == Request("Pause", o, {"Working"}, "Working")
RequestResumeParser(o) == Request("Resume", o, {"Paused"}, "Paused")
RequestResumeRender(o) == Request("Resume", o, {"Paused"}, "Paused")
RequestStopParser(o) == Request("Stop", o, {"Working", "Paused"}, "Stopping")
RequestStopRender(o) == Request("Stop", o, {"Working", "Paused"}, "Stopping")

RequestCloseView(o) ==
    Request("CloseView", o, {"Created", "Finished", "Failed"}, StateOf(o))

\* The state is Closing before it is known whether there are views.
RequestCloseScene(o) ==
    IF StateOf(o) \in {"Created", "Finished", "Failed"} /\ KnownViews(o[2]) # {}
    THEN front' = [front EXCEPT ![o] = "Closing"] /\ NotSent(o)
    ELSE Request("CloseScene", o, {"Created", "Finished", "Failed"}, "Closing")

-----------------------------------------------------------------------------
(* Receiving, in the loop of POVMS_Send or outside of any request.          *)

Take(kind) ==
    /\ toFront # <<>> /\ Head(toFront).kind = kind
    /\ toFront' = Tail(toFront)
    /\ UNCHANGED <<job, scenecounter, viewcounter, view2scene>>

\* HandleParserMessage and HandleRenderMessage; objects not known are ignored.
VerdictArrives ==
    LET m == Head(toFront) IN
    /\ Take("verdict")
    /\ front' = IF StateOf(m.obj) = "Unknown" THEN front
                ELSE [front EXCEPT ![m.obj] = IF m.code = "Done" THEN "Finished"
                                              ELSE "Failed"]
    /\ UNCHANGED <<toBack, call, result, stale, faults>>

\* No handler is installed for replies.
LateReply ==
    /\ Take("reply")
    /\ stale > 0
    /\ stale' = stale - 1
    /\ UNCHANGED <<toBack, front, call, result, faults>>

Return(ok, o) == call' = NoCall /\ result' = [ok |-> ok, obj |-> o]
Fault == faults < MaxFaults /\ faults' = faults + 1

Replied(op, code) ==
    /\ Take("reply") /\ stale = 0
    /\ call.op = op
    /\ Head(toFront).code \in code
    /\ UNCHANGED stale

\* The object is created; what the front end does next may fail.
SceneCreated ==
    LET o == Head(toFront).obj IN
    /\ Replied("CreateScene", {"Done"})
    /\ \/ /\ front' = [front EXCEPT ![o] = "Created"]
          /\ Return(TRUE, o)
          /\ UNCHANGED <<toBack, faults>>
       \/ \* a stream cannot be opened: the scene's id is not yet known to the
          \* catch clause, and the back end's scene is left behind
          /\ Fault
          /\ Return(FALSE, Scene(0))
          /\ UNCHANGED <<toBack, front>>
       \/ \* no console: the scene is closed again
          /\ Fault
          /\ toBack' = Append(toBack, [op |-> "CloseScene", obj |-> o])
          /\ call' = [op |-> "CloseScene", obj |-> o]
          /\ UNCHANGED <<front, result>>

ViewCreated ==
    LET o == Head(toFront).obj IN
    /\ Replied("CreateView", {"Done"})
    /\ \/ /\ front' = [front EXCEPT ![o] = "Created", ![call.obj] = "Viewing"]
          /\ Return(TRUE, o)
          /\ UNCHANGED <<toBack, faults>>
       \/ \* partial image of the wrong size, no display
          /\ Fault
          /\ toBack' = Append(toBack, [op |-> "CloseView", obj |-> o])
          /\ call' = [op |-> "CloseView", obj |-> o]
          /\ UNCHANGED <<front, result>>

CreateRefused ==
    /\ \E op \in {"CreateScene", "CreateView"}: Replied(op, {"NotNow", "Failed"})
    /\ Return(FALSE, Scene(0))
    /\ UNCHANGED <<toBack, front, faults>>

\* The reply of a close; also of the close that undoes a creation, which
\* then throws.
SceneClosed ==
    /\ Replied("CloseScene", Codes)
    /\ LET o == call.obj
           known == front[o] # "Unknown"
           done == Head(toFront).code = "Done"
       IN /\ front' = IF known THEN [front EXCEPT ![o] = IF done THEN "Unknown"
                                                         ELSE "Invalid"]
                      ELSE front
          /\ Return(known /\ done, o)
    /\ UNCHANGED <<toBack, faults>>

\* Variants with an error: the view is kept in the map, the scene stays as it is.
ViewClosedKept ==
    /\ Replied("CloseView", Codes)
    /\ Return(TRUE, call.obj)
    /\ UNCHANGED <<toBack, front, faults>>

ViewClosedOnly ==
    /\ Replied("CloseView", Codes)
    /\ front' = [front EXCEPT ![call.obj] = "Unknown"]
    /\ Return(TRUE, call.obj)
    /\ UNCHANGED <<toBack, faults>>

\* With its last view gone a scene is ready again, whatever it was.
ViewClosed ==
    /\ Replied("CloseView", Codes)
    /\ LET o == call.obj
           s == view2scene[o[2]]
           known == front[o] # "Unknown"
           done == Head(toFront).code = "Done"
       IN /\ front' =
               IF ~known THEN front
               ELSE IF ~done THEN [front EXCEPT ![o] = "Invalid"]
               ELSE [front EXCEPT ![o] = "Unknown",
                                  ![Scene(s)] = IF KnownViews(s) = {o[2]}
                                                THEN "Finished" ELSE @]
          /\ Return(known /\ done, o)
    /\ UNCHANGED <<toBack, faults>>

\* What is assigned after the wait does not look at what the state has
\* become during the wait.
Controlled(op, next) ==
    /\ \/ /\ Replied(op, {"Done", "NotNow"})
          /\ front' = [front EXCEPT ![call.obj] = IF next = "same" THEN @ ELSE next]
          /\ Return(TRUE, call.obj)
       \/ /\ Replied(op, {"Failed"})
          /\ UNCHANGED front
          /\ Return(FALSE, call.obj)
    /\ UNCHANGED <<toBack, faults>>

PauseReplied == Controlled("Pause", "Paused")
ResumeReplied == Controlled("Resume", "Working")
StopReplied == Controlled("Stop", "same")

TimedOut ==
    /\ call # NoCall
    /\ Fault
    /\ stale' = stale + 1
    /\ Return(FALSE, call.obj)
    /\ front' = IF call.op \in {"CloseScene", "CloseView"} /\ front[call.obj] # "Unknown"
                THEN [front EXCEPT ![call.obj] = "Invalid"] ELSE front
    /\ UNCHANGED backVars

ReplyArrives == \/ SceneCreated \/ ViewCreated \/ CreateRefused \/ SceneClosed
                \/ ViewClosed \/ PauseReplied \/ ResumeReplied \/ StopReplied

Receive == VerdictArrives \/ LateReply \/ ReplyArrives

-----------------------------------------------------------------------------
UserOfFrontend ==
    \/ RequestCreateScene
    \/ \E s \in SceneIds:
        \/ RequestCreateView(Scene(s)) \/ RequestStartParser(Scene(s))
        \/ RequestPauseParser(Scene(s)) \/ RequestResumeParser(Scene(s))
        \/ RequestStopParser(Scene(s)) \/ RequestCloseScene(Scene(s))
    \/ \E v \in ViewIds:
        \/ RequestStartRender(View(v)) \/ RequestPauseRender(View(v))
        \/ RequestResumeRender(View(v)) \/ RequestStopRender(View(v))
        \/ RequestCloseView(View(v))

vars == <<backVars, frontVars>>
Init == BackInit /\ FrontInit
Next ==
    \/ UserOfFrontend
    \/ Receive
    \/ TimedOut
    \/ BackNext /\ UNCHANGED frontVars
Spec == Init /\ [][Next]_vars
-----------------------------------------------------------------------------
(* Properties.                                                              *)

TypeOK == FrontTypeOK

\* A view has a job only while its scene is there and was parsed to the end
\* (Scene::NewView accepts scenes whose parser never ran or was stopped, so
\* this rests on the states of the front end and on what order verdicts and
\* replies come in).
RenderAfterParse == \A v \in ViewIds:
    job[View(v)] # "none" => job[Scene(view2scene[v])] = "done"

\* As long as no wait was given up, front end and back end agree on what
\* exists whenever no request is under way (the maps of RenderFrontend and of
\* RenderBackend are kept by separate code on both sides).
SidesAgree == faults = 0 /\ call = NoCall =>
    \A o \in Objects: front[o] = "Unknown" <=> job[o] = "none"

\* The back end never holds a view of a scene it has closed, whatever was
\* given up or came late (CloseScene refuses while there are views, and the
\* request to create one may still be queued behind it).
NoViewWithoutScene == \A s \in SceneIds:
    job[Scene(s)] = "none" => ViewsOf(s) = {}

\* The state has its type, and no view outlives its scene.
FrontendInv == TypeOK /\ NoViewWithoutScene
=============================================================================
