--------------------------- MODULE VirtualFrontEnd ---------------------------
(***************************************************************************)
(* vfeSession's worker thread and the state machine it drives, the one     *)
(* user RenderFrontend has: a scene and a view per frame, shell-outs       *)
(* around scenes and frames, and requests to cancel, pause and resume from *)
(* the threads of the user interface.                                      *)
(*                                                                         *)
(* The worker delivers a message, calls Process, and looks at the requests *)
(* between calls.  Each state of Process is an action, broken where the    *)
(* front end waits for a reply: the names of pc in Waits say what the wait *)
(* is for.  While it waits other threads act, verdicts are delivered, and  *)
(* the worker's own loop stands still.                                     *)
(***************************************************************************)
EXTENDS RenderFrontend, Shellout

CONSTANTS
    Frames,         \* 1 is a still image, more are an animation
    CommandSets,    \* shell-out commands a render may have
    MaxStarts,      \* renders
    MaxRequests     \* pauses and resumes asked for

ASSUME FramesAssumption == Frames \in Nat \ {0} /\ CommandSets \subseteq Commands
ASSUME BoundsAssumption == MaxStarts \in Nat /\ MaxRequests \in Nat

States == {"Ready", "Starting", "PreSceneShellout", "PreFrameShellout", "Parsing",
           "PausedParsing", "Rendering", "PausedRendering", "PostFrameShellout",
           "PostSceneShellout", "PostShelloutPause", "Stopping", "Stopped", "Failed",
           "Done"}
ShelloutStates == {"PreSceneShellout", "PreFrameShellout", "PostFrameShellout",
                   "PostSceneShellout"}
Waits == {"sceneCreated", "viewCreated", "viewClosed", "sceneClosed", "pausing",
          "resuming", "stopping"}
\* Where the worker goes on after a call of Process.
Places == {"receive", "last", "drain", "stop"}

VARIABLES
    state,      \* VirtualFrontEnd::state
    fe,         \* its other members, the options' frame number among them
    session,    \* vfeSession's flags
    pc, then,   \* the worker; then: the place to go to after Process
    doing,      \* the request the worker carries out
    user,       \* the request a thread waits in, 3 seconds at most
    shellout, commands,
    settled,    \* history: frames written, or skipped as told
    starts, requests

feVars == <<state, fe, session, pc, then, doing, user, shellout, commands, settled,
            starts, requests>>
allVars == <<vars, feVars>>
UserVars == <<user, starts, requests, commands>>

SessionTypeOK ==
    /\ state \in States
    /\ fe \in [postPause: States, pauseRequested: BOOLEAN, pausedAfterFrame: BOOLEAN,
               sceneId: SceneIds \cup {0}, viewId: ViewIds \cup {0}, frame: 1..Frames]
    /\ session \in [succeeded: BOOLEAN, failed: BOOLEAN, cancelRequested: BOOLEAN,
                    request: {"none", "Pause", "Resume"}]
    /\ pc \in Places \cup Waits \cup {"process", "control", "catch"}
    /\ then \in Places
    /\ doing \in {"none", "Pause", "Resume"} /\ user \in {"none", "Pause", "Resume"}
    /\ ShelloutTypeOK(shellout)
    /\ commands \in Commands
    /\ settled \subseteq 1..Frames
    /\ starts \in 0..MaxStarts /\ requests \in 0..MaxRequests
    \* a wait is where a request is under way, and nowhere else
    /\ call # NoCall => pc \in Waits

SessionInit ==
    /\ Init
    /\ state = "Ready"
    /\ fe = [postPause |-> "Ready", pauseRequested |-> FALSE, pausedAfterFrame |-> FALSE,
             sceneId |-> 0, viewId |-> 0, frame |-> 1]
    /\ session = [succeeded |-> FALSE, failed |-> FALSE, cancelRequested |-> FALSE,
                  request |-> "none"]
    /\ pc = "receive" /\ then = "receive" /\ doing = "none" /\ user = "none"
    /\ shellout = NewShellout /\ commands = [e \in Events |-> "unset"]
    /\ settled = {} /\ starts = 0 /\ requests = 0

\* A variant with an error: a frame too few.
OneFrameLess == fe.frame + 1 < Frames
MoreFrames == fe.frame < Frames
Failing == [session EXCEPT !.failed = TRUE]
Succeeding == [session EXCEPT !.succeeded = TRUE]
Closing(s) == pc' = "viewClosed" /\ state' = s

-----------------------------------------------------------------------------
(* The worker's loop.                                                       *)

Idle == UNCHANGED <<state, fe, session, doing, shellout, settled, UserVars>>

\* After a call of Process: the place then names, or past it when there is
\* nothing to do there.
Control == IF session.request # "none" THEN "control" ELSE "receive"
Onward == IF then = "last"
          THEN IF session.cancelRequested THEN "drain" ELSE Control
          ELSE then

Deliver ==      \* in the loop, and in the one that empties the queue for a cancel
    /\ pc \in {"receive", "drain"}
    /\ VerdictArrives \/ LateReply
    /\ pc' = "process" /\ then' = pc
    /\ Idle

\* The queue is empty, or the loop is left for a request; a cancel does not
\* wait for the queue to be emptied for more than 2.5 seconds.
NothingToDeliver ==
    /\ \/ /\ pc = "receive" /\ then' = "last"
          /\ toFront = <<>> \/ session.cancelRequested \/ session.request # "none"
       \/ pc = "drain" /\ then' = "stop"
    /\ pc' = "process"
    /\ UNCHANGED vars
    /\ Idle

WaitForReply ==
    /\ call # NoCall
    /\ Receive \/ TimedOut
    /\ UNCHANGED <<pc, then>>
    /\ Idle

-----------------------------------------------------------------------------
(* VirtualFrontEnd::Process.                                                *)

At(S) == pc = "process" /\ state \in S
HasReturned == call = NoCall
Leave(st) == state' = st /\ pc' = Onward
Local == UNCHANGED vars /\ UNCHANGED <<then, doing, UserVars>>
Remote == UNCHANGED <<then, doing, UserVars>>

\* A variant with an error: the pause is forgotten about until later.
LeaveAnyway(st) == Leave(st) /\ UNCHANGED fe

\* A pause asked for during the shell-out takes effect before state st.
LeaveOrPause(st) ==
    IF fe.pauseRequested
    THEN /\ Leave("PostShelloutPause")
         /\ fe' = [fe EXCEPT !.postPause = st, !.pauseRequested = FALSE]
    ELSE Leave(st) /\ UNCHANGED fe

HandleShelloutCancel(sh) ==
    IF sh.exitCode # 0 THEN Leave("Failed") /\ session' = Failing
                       ELSE Leave("Stopped") /\ session' = Succeeding

\* Nothing changes: ready, paused, or waiting for the back end.
ProcessNothing ==
    /\ pc = "process"
    /\ \/ state \in {"Ready", "PostShelloutPause"}
       \/ /\ state \in {"Parsing", "PausedParsing"}
          /\ LET st == StateOf(Scene(fe.sceneId)) IN
             \/ st \notin {"Paused", "Failed", "Stopping", "Finished"}
             \/ st = "Finished" /\ state = "PausedParsing"
       \/ /\ state \in {"Rendering", "PausedRendering"}
          /\ LET st == StateOf(View(fe.viewId)) IN
             \/ st \notin {"Paused", "Failed", "Stopping", "Finished"}
             \/ st = "Finished" /\ state = "PausedRendering"
       \/ /\ state = "Stopping"
          /\ StateOf(Scene(fe.sceneId)) \notin {"Finished", "Failed"}
          /\ StateOf(View(fe.viewId)) \notin {"Finished", "Failed"}
    /\ Leave(state)
    /\ UNCHANGED <<fe, session, shellout, settled>> /\ Local

\* The pre-frame event, which is the pre-scene event the first time.
ProcessStarting ==
    LET sh == IF Frames > 1 THEN SetFrameClock(shellout, fe.frame) ELSE shellout
        begun == [session EXCEPT !.succeeded = FALSE]
    IN
    /\ At({"Starting"})
    /\ \/ \E r \in HandleProcessEvent(sh, commands, "preFrame", FALSE):
            /\ shellout' = r.sh
            /\ CASE r.err = "failed" ->
                    Leave("Failed") /\ session' = [begun EXCEPT !.failed = TRUE]
                 [] r.err # "failed" /\ r.sh.cancelRender ->
                    HandleShelloutCancel(r.sh)
                 [] OTHER ->
                    /\ Leave(IF shellout.hadPreScene THEN "PreFrameShellout"
                             ELSE "PreSceneShellout")
                    /\ session' = begun
            /\ UNCHANGED vars
       \/ \* the frame's output file may not be written
          /\ Frames > 1 /\ ~sh.skipNextFrame
          /\ Fault
          /\ shellout' = sh
          /\ Leave("Failed") /\ session' = [begun EXCEPT !.failed = TRUE]
          /\ UNCHANGED <<backVars, front, call, result, stale>>
    /\ UNCHANGED <<fe, settled>> /\ Remote

\* The command has ended and nothing it asked for keeps Process from going on.
Completed(r) == ~shellout.running /\ r.err = "none" /\ ~r.sh.cancelRender

\* It runs, or what its result asked for has thrown or cancels the render.
ProcessShellout ==
    /\ At(ShelloutStates \ {"PostSceneShellout"})
    /\ \E r \in ShelloutRunning(shellout, commands):
        /\ ~Completed(r)
        /\ shellout' = r.sh
        /\ CASE shellout.running -> Leave(state) /\ UNCHANGED session
             [] ~shellout.running /\ r.err # "none" ->
                    pc' = "catch" /\ session' = Failing /\ UNCHANGED state
             [] OTHER -> HandleShelloutCancel(r.sh)
    /\ UNCHANGED <<fe, settled>> /\ Local

ProcessPreScene ==
    /\ At({"PreSceneShellout"})
    /\ \E r \in ShelloutRunning(shellout, commands):
        /\ Completed(r)
        /\ shellout' = r.sh
        /\ LeaveOrPause("Starting")
    /\ UNCHANGED <<session, settled>> /\ Local

ProcessPreFrame ==
    /\ At({"PreFrameShellout"})
    /\ \E r \in ShelloutRunning(shellout, commands):
        /\ Completed(r)
        /\ shellout' = r.sh
        /\ \/ /\ ~r.sh.skipNextFrame
              /\ RequestCreateScene
              /\ pc' = "sceneCreated"
              /\ UNCHANGED <<state, fe, session, settled>>
           \/ /\ r.sh.skipNextFrame
              /\ settled' = settled \cup {fe.frame}
              /\ LET st == IF MoreFrames THEN "Starting" ELSE "Stopped"
                     next == [fe EXCEPT !.frame = IF MoreFrames THEN @ + 1 ELSE @]
                 IN /\ Leave(IF fe.pauseRequested THEN "PostShelloutPause" ELSE st)
                    /\ fe' = IF fe.pauseRequested
                             THEN [next EXCEPT !.postPause = st, !.pauseRequested = FALSE]
                             ELSE next
              /\ session' = IF MoreFrames THEN session ELSE Succeeding
              /\ UNCHANGED vars
    /\ Remote

SceneIsCreated ==
    /\ pc = "sceneCreated" /\ HasReturned
    /\ \/ /\ result.ok
          /\ RequestStartParser(result.obj)
          /\ Leave(IF fe.pauseRequested THEN "PostShelloutPause" ELSE "Parsing")
          /\ fe' = [fe EXCEPT !.sceneId = result.obj[2],
                              !.postPause = IF fe.pauseRequested THEN "Parsing" ELSE @,
                              !.pauseRequested = FALSE]
          /\ UNCHANGED session
       \/ /\ ~result.ok
          /\ Leave("Failed") /\ session' = Failing
          /\ UNCHANGED fe /\ UNCHANGED vars
    /\ UNCHANGED <<shellout, settled>> /\ Remote

\* What the front end knows of the scene or view ends the wait for it.
ProcessVerdict(S, o, paused) ==
    /\ At(S)
    /\ \/ StateOf(o) = "Paused" /\ Leave(paused) /\ UNCHANGED session
       \/ StateOf(o) = "Failed" /\ Leave("Stopped") /\ session' = Failing
       \/ StateOf(o) = "Stopping" /\ Leave("Stopping") /\ UNCHANGED session
    /\ UNCHANGED <<fe, shellout, settled>> /\ Local

ProcessParsing ==
    \/ ProcessVerdict({"Parsing", "PausedParsing"}, Scene(fe.sceneId), "PausedParsing")
    \/ /\ At({"Parsing"}) /\ StateOf(Scene(fe.sceneId)) = "Finished"
       /\ RequestCreateView(Scene(fe.sceneId))
       /\ pc' = "viewCreated"
       /\ UNCHANGED <<state, fe, session, shellout, settled>> /\ Remote

ViewIsCreated ==
    /\ pc = "viewCreated" /\ HasReturned
    /\ \/ /\ result.ok
          /\ fe' = [fe EXCEPT !.viewId = result.obj[2]]
          /\ \/ RequestStartRender(result.obj) /\ Leave("Rendering")
                /\ UNCHANGED <<session, settled>>
             \/ \* continued, and the image is there already
                /\ settled' = settled \cup {fe.frame}
                /\ RequestCloseView(result.obj) /\ Closing(state)
                /\ UNCHANGED session
             \/ \* no state file can be made
                /\ Leave("Failed") /\ session' = Failing
                /\ UNCHANGED settled /\ UNCHANGED vars
       \/ /\ ~result.ok
          /\ Leave("Failed") /\ session' = Failing
          /\ UNCHANGED <<fe, settled>> /\ UNCHANGED vars
    /\ UNCHANGED shellout /\ Remote

ProcessRendering ==
    \/ ProcessVerdict({"Rendering", "PausedRendering"}, View(fe.viewId), "PausedRendering")
    \/ /\ At({"Rendering"}) /\ StateOf(View(fe.viewId)) = "Finished"
       /\ \/ /\ settled' = settled \cup {fe.frame}
             /\ \E r \in HandleProcessEvent(shellout, commands, "postFrame", FALSE):
                  /\ shellout' = r.sh
                  /\ CASE r.err = "failed" -> Leave("Failed") /\ session' = Failing
                       [] r.err # "failed" /\ r.sh.cancelRender ->
                            HandleShelloutCancel(r.sh)
                       [] OTHER -> Leave("PostFrameShellout") /\ UNCHANGED session
             /\ UNCHANGED vars
          \/ \* the image cannot be written
             /\ Fault
             /\ Leave("Failed") /\ session' = Failing
             /\ UNCHANGED <<shellout, settled>>
             /\ UNCHANGED <<backVars, front, call, result, stale>>
       /\ UNCHANGED fe /\ Remote

ProcessPostFrame ==
    /\ At({"PostFrameShellout"})
    /\ \E r \in ShelloutRunning(shellout, commands):
        /\ Completed(r)
        /\ shellout' = r.sh
        /\ \/ /\ ~MoreFrames \/ r.sh.skipAllFrames
              /\ session' = Succeeding
              /\ LeaveOrPause("Stopped")
              /\ UNCHANGED vars
           \/ /\ MoreFrames /\ ~r.sh.skipAllFrames
              /\ RequestCloseView(View(fe.viewId)) /\ Closing(state)
              /\ UNCHANGED <<fe, session>>
    /\ UNCHANGED settled /\ Remote

ProcessPostScene ==
    /\ At({"PostSceneShellout"})
    /\ \E r \in ShelloutRunning(shellout, commands):
        /\ shellout' = r.sh
        /\ IF ~shellout.running /\ r.err # "none"
           THEN pc' = "catch" /\ session' = Failing /\ UNCHANGED state
           ELSE Leave(IF shellout.running THEN state ELSE "Done") /\ UNCHANGED session
    /\ UNCHANGED <<fe, settled>> /\ Local

ProcessStopping ==
    /\ At({"Stopping"})
    /\ \/ StateOf(Scene(fe.sceneId)) \in {"Finished", "Failed"}
       \/ StateOf(View(fe.viewId)) \in {"Finished", "Failed"}
    /\ Leave("Stopped")
    /\ UNCHANGED <<fe, session, shellout, settled>> /\ Local

\* A variant with an error: the failure is recorded and the state stays.
ProcessFailedStays ==
    /\ At({"Failed"})
    /\ session' = Failing
    /\ \E r \in HandleProcessEvent(shellout, commands, "fatalError", FALSE):
        shellout' = r.sh
    /\ Leave(state)
    /\ UNCHANGED <<fe, settled>> /\ Local

ProcessFailed ==
    /\ At({"Failed"})
    /\ session' = Failing
    /\ \E r \in HandleProcessEvent(shellout, commands, "fatalError", FALSE):
        shellout' = r.sh
    /\ Leave("Stopped")
    /\ UNCHANGED <<fe, settled>> /\ Local

ProcessStopped ==
    /\ At({"Stopped"})
    /\ RequestCloseView(View(fe.viewId)) /\ Closing(state)
    /\ UNCHANGED <<fe, session, shellout, settled>> /\ Remote

ProcessDone ==
    /\ At({"Done"})
    /\ Leave("Ready")
    /\ UNCHANGED <<fe, session, shellout, settled>> /\ Local

ViewIsClosed ==
    /\ pc = "viewClosed" /\ HasReturned
    /\ RequestCloseScene(Scene(fe.sceneId))
    /\ pc' = "sceneClosed"
    /\ UNCHANGED <<state, fe, session, shellout, settled>> /\ Remote

\* On to the next frame, or to the end if it is not to be rendered.
FrameIsClosed ==
    /\ pc = "sceneClosed" /\ HasReturned
    /\ \/ /\ state = "Parsing"
          /\ Leave(IF MoreFrames THEN "Starting" ELSE "Stopped")
          /\ fe' = [fe EXCEPT !.frame = IF MoreFrames THEN @ + 1 ELSE @]
          /\ session' = IF MoreFrames THEN session ELSE Succeeding
          /\ UNCHANGED requests
       \/ /\ state = "PostFrameShellout"
          /\ UNCHANGED session
          /\ \/ \* the user wants to continue by hand
                /\ requests < MaxRequests /\ requests' = requests + 1
                /\ Leave("PausedRendering")
                /\ fe' = [fe EXCEPT !.frame = @ + 1, !.pausedAfterFrame = TRUE,
                                    !.pauseRequested = FALSE]
             \/ /\ Leave(IF fe.pauseRequested THEN "PostShelloutPause" ELSE "Starting")
                /\ fe' = [fe EXCEPT !.frame = @ + 1, !.pauseRequested = FALSE,
                            !.postPause = IF fe.pauseRequested THEN "Starting" ELSE @]
                /\ UNCHANGED requests
    /\ UNCHANGED vars
    /\ UNCHANGED <<then, doing, shellout, settled, user, starts, commands>>

\* The last actions: of a failure unless it has been reported, and post-scene.
RenderIsClosed ==
    /\ pc = "sceneClosed" /\ HasReturned /\ state = "Stopped"
    /\ IF ~shellout.hadPreScene
       THEN Leave("Done") /\ UNCHANGED shellout
       ELSE \E f \in IF session.failed
                     THEN HandleProcessEvent(shellout, commands, "fatalError", FALSE)
                     ELSE {Outcome(shellout, "none")}:
            /\ \E r \in HandleProcessEvent(f.sh, commands, "postScene", FALSE):
                shellout' = r.sh
            /\ Leave(IF f.sh.hadPostScene THEN "Done" ELSE "PostSceneShellout")
    /\ UNCHANGED <<fe, session, settled>> /\ Local

Process ==
    \/ ProcessNothing \/ ProcessStarting \/ ProcessShellout \/ ProcessPreScene
    \/ ProcessPreFrame \/ SceneIsCreated \/ ProcessParsing \/ ViewIsCreated
    \/ ProcessRendering \/ ProcessPostFrame \/ ProcessPostScene \/ ProcessStopping
    \/ ProcessFailed \/ ProcessStopped \/ ProcessDone
    \/ ViewIsClosed \/ FrameIsClosed \/ RenderIsClosed

-----------------------------------------------------------------------------
(* VirtualFrontEnd::Stop, for a cancel or for an exception out of Process.  *)

\* The cancel is no longer requested when Stop comes back.
Finished(ses) ==
    /\ session' = [ses EXCEPT !.cancelRequested = @ /\ pc = "catch"]
    /\ pc' = IF pc = "catch" THEN "receive" ELSE Control

UserAborts(sh, ses) ==
    \E r \in HandleProcessEvent(sh, commands, "userAbort", FALSE):
        /\ shellout' = r.sh
        /\ Finished([ses EXCEPT !.failed = @ \/ r.err = "failed"])

StopNow ==
    /\ pc \in {"stop", "catch"}
    /\ \/ /\ state = "Ready"
          /\ Finished(session)
          /\ UNCHANGED <<state, fe, shellout>>
       \/ /\ state \in {"Stopping", "Stopped", "Failed", "Done"}
          /\ UserAborts(shellout, session)
          /\ UNCHANGED <<state, fe>>
       \/ /\ state \in {"Starting", "PostShelloutPause"}
          /\ state' = IF state = "Starting" THEN "Stopped" ELSE "Stopping"
          /\ UserAborts(shellout, Failing)
          /\ UNCHANGED fe
       \/ /\ state \in {"Rendering", "PausedRendering"} /\ fe.pausedAfterFrame
          /\ state' = "Stopped"
          /\ fe' = [fe EXCEPT !.pausedAfterFrame = FALSE]
          /\ UserAborts(shellout, Failing)
    /\ UNCHANGED settled /\ Local

\* A command that runs is killed; the post-scene command is the end anyway.
StopShellout ==
    /\ pc \in {"stop", "catch"}
    /\ state \in ShelloutStates
    /\ \E r \in ShelloutRunning(shellout, commands):
        \E sh \in IF shellout.running THEN KillShellouts(r.sh) ELSE {r.sh}:
        \/ /\ r.err # "none"
           /\ UserAborts(sh, Failing)
           /\ UNCHANGED state
        \/ /\ r.err = "none" /\ state = "PostSceneShellout"
           /\ state' = "Done"
           /\ shellout' = sh
           /\ Finished(session)
        \/ /\ r.err = "none" /\ state # "PostSceneShellout"
           /\ state' = "Stopped"
           /\ UserAborts(sh, Failing)
    /\ UNCHANGED <<fe, settled>> /\ Local

StopJob ==
    /\ pc \in {"stop", "catch"}
    /\ \/ state \in {"Parsing", "PausedParsing"} /\ RequestStopParser(Scene(fe.sceneId))
       \/ /\ state \in {"Rendering", "PausedRendering"} /\ ~fe.pausedAfterFrame
          /\ RequestStopRender(View(fe.viewId))
    /\ pc' = "stopping"
    /\ UNCHANGED <<state, fe, session, shellout, settled>> /\ Remote

\* Whether or not the back end has accepted.
JobIsStopped ==
    /\ pc = "stopping" /\ HasReturned
    /\ state' = "Stopping"
    /\ UserAborts(shellout, Failing)
    /\ UNCHANGED <<fe, settled>> /\ Local

-----------------------------------------------------------------------------
(* VirtualFrontEnd::Pause and Resume, and the answer to who asked.          *)

\* The request is answered; who asked for it may have given up.
Answer(ses) ==
    /\ user' = "none" /\ doing' = "none"
    /\ session' = ses
    /\ pc' = "receive"
    /\ UNCHANGED <<then, shellout, settled, starts, requests, commands>>

Taken == [session EXCEPT !.request = "none"]

\* The back end has to be asked.
CarryOut(place) ==
    /\ doing' = session.request
    /\ session' = Taken
    /\ pc' = place
    /\ UNCHANGED <<state, fe, then, shellout, settled, UserVars>>

PauseRequested ==
    /\ pc = "control" /\ session.request = "Pause"
    /\ \/ state = "Parsing" /\ RequestPauseParser(Scene(fe.sceneId)) /\ CarryOut("pausing")
       \/ state = "Rendering" /\ RequestPauseRender(View(fe.viewId)) /\ CarryOut("pausing")
       \/ /\ state \notin {"Parsing", "Rendering"}
          /\ fe' = [fe EXCEPT !.pauseRequested =
                        @ \/ state \in ShelloutStates \ {"PostSceneShellout"}]
          /\ Answer(Taken)
          /\ UNCHANGED state /\ UNCHANGED vars

JobIsPaused ==
    /\ pc = "pausing" /\ HasReturned
    /\ state' = IF ~result.ok THEN state
                ELSE IF state = "Parsing" THEN "PausedParsing" ELSE "PausedRendering"
    /\ Answer(session)
    /\ UNCHANGED fe /\ UNCHANGED vars

ResumeRequested ==
    /\ pc = "control" /\ session.request = "Resume"
    /\ \/ /\ state = "PausedParsing" /\ StateOf(Scene(fe.sceneId)) = "Paused"
          /\ RequestResumeParser(Scene(fe.sceneId)) /\ CarryOut("resuming")
       \/ /\ state = "PausedRendering" /\ ~fe.pausedAfterFrame
          /\ StateOf(View(fe.viewId)) = "Paused"
          /\ RequestResumeRender(View(fe.viewId)) /\ CarryOut("resuming")
       \/ /\ ~\/ state = "PausedParsing" /\ StateOf(Scene(fe.sceneId)) = "Paused"
              \/ state = "PausedRendering" /\ ~fe.pausedAfterFrame
                 /\ StateOf(View(fe.viewId)) = "Paused"
          /\ state' = CASE state = "PostShelloutPause" -> fe.postPause
                        [] state = "PausedParsing" -> "Parsing"
                        [] state = "PausedRendering" /\ fe.pausedAfterFrame -> "Starting"
                        [] state = "PausedRendering" /\ ~fe.pausedAfterFrame -> "Rendering"
                        [] OTHER -> state
          /\ fe' = [fe EXCEPT !.pausedAfterFrame = @ /\ state # "PausedRendering"]
          /\ Answer(Taken)
          /\ UNCHANGED vars

JobIsResumed ==
    /\ pc = "resuming" /\ HasReturned
    /\ state' = IF ~result.ok THEN state
                ELSE IF state = "PausedParsing" THEN "Parsing" ELSE "Rendering"
    /\ Answer(session)
    /\ UNCHANGED fe /\ UNCHANGED vars

\* The request was withdrawn after the worker saw it and before it took it.
NothingAsked ==
    /\ pc = "control" /\ session.request = "none"
    /\ pc' = "receive"
    /\ UNCHANGED <<vars, then>> /\ Idle

Worker ==
    \/ Deliver \/ NothingToDeliver \/ WaitForReply
    \/ Process
    \/ StopNow \/ StopShellout \/ StopJob \/ JobIsStopped
    \/ PauseRequested \/ JobIsPaused \/ ResumeRequested \/ JobIsResumed \/ NothingAsked

-----------------------------------------------------------------------------
(* The threads of the user interface, and the operating system.             *)

OfUser == UNCHANGED vars /\ UNCHANGED <<pc, then, doing, settled>>

StartSession ==
    /\ state = "Ready" /\ starts < MaxStarts
    /\ starts' = starts + 1
    /\ state' = "Starting"
    /\ fe' = [fe EXCEPT !.postPause = "Ready", !.pauseRequested = FALSE,
                        !.pausedAfterFrame = FALSE, !.frame = 1]
    /\ session' = [session EXCEPT !.succeeded = FALSE, !.failed = FALSE,
                                  !.cancelRequested = FALSE]
    /\ shellout' = NewShellout /\ commands' \in CommandSets
    /\ settled' = {}
    /\ UNCHANGED <<pc, then, doing, user, requests>> /\ UNCHANGED vars

CancelRender ==
    /\ state \notin {"Ready", "Stopping", "Stopped", "Failed", "Done"}
    /\ session' = [session EXCEPT !.cancelRequested = TRUE]
    /\ UNCHANGED <<state, fe, shellout, UserVars>> /\ OfUser

RequestPauseOrResume(rq) ==
    /\ user = "none" /\ requests < MaxRequests
    /\ user' = rq /\ requests' = requests + 1
    /\ session' = [session EXCEPT !.request = rq]
    /\ UNCHANGED <<state, fe, shellout, starts, commands>> /\ OfUser

\* After 3 seconds, or when the answer came before the wait for it began.
GiveUp ==
    /\ user # "none"
    /\ user' = "none"
    /\ session' = Taken
    /\ UNCHANGED <<state, fe, shellout, starts, requests, commands>> /\ OfUser

CommandExits ==
    /\ shellout.running
    /\ shellout' = [shellout EXCEPT !.running = FALSE]
    /\ UNCHANGED <<state, fe, session, UserVars>> /\ OfUser

UserInterface ==
    \/ StartSession \/ CancelRender \/ GiveUp
    \/ \E rq \in {"Pause", "Resume"}: RequestPauseOrResume(rq)

SessionNext ==
    \/ Worker
    \/ UserInterface
    \/ CommandExits
    \/ BackNext /\ UNCHANGED frontVars /\ UNCHANGED feVars

JobEnds(o) == JobDone(o) \/ JobFails(o) \/ ReportFailure(o)

\* The worker and the back end's main thread are scheduled, jobs and commands
\* come to an end.  Nobody has to ask for anything.
Fairness ==
    /\ WF_allVars(Worker)
    /\ WF_allVars(BackHandlers /\ UNCHANGED frontVars /\ UNCHANGED feVars)
    /\ \A o \in Objects: WF_allVars(JobEnds(o) /\ UNCHANGED frontVars /\ UNCHANGED feVars)
    /\ WF_allVars(CommandExits)

SessionSpec == SessionInit /\ [][SessionNext]_allVars /\ Fairness
-----------------------------------------------------------------------------
(* Properties.                                                              *)

\* Success is reported for a render only when each of its frames was written,
\* or was skipped as a shell-out or the continue option had asked (the frame
\* counter, the skip flags of ShelloutProcessing and the states of Process are
\* updated in many places, with pauses and cancels in between).
SuccessIsComplete ==
    state = "Done" /\ session.succeeded /\ ~session.failed /\ ~shellout.cancelRender
        => settled = 1..Frames

\* When the session is ready again every scene and view of the render has been
\* closed in the back end, unless a wait or a local step had failed (closing
\* goes by the states the front end holds, and errors of it are ignored).
NothingLeftBehind == state = "Ready" /\ faults = 0 =>
    \A o \in Objects: job[o] = "none"

\* The state has its type, and a session leaves nothing behind.
FrontEndInv == SessionTypeOK /\ NothingLeftBehind

\* A pause accepted while a shell-out ran is still due when it has ended: the
\* next thing is not begun (each way out of the shell-out states tests the flag
\* for itself).
PauseIsKept == fe.pauseRequested =>
    state \notin {"Starting", "Parsing", "Rendering", "PostShelloutPause"}

\* A render that is started comes to its end, however it is cancelled, and
\* whatever fails, unless a pause or resume was asked for.
SessionEnds == state = "Starting" ~> state = "Ready" \/ requests > 0

=============================================================================
