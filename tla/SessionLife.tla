----------------------------- MODULE SessionLife -----------------------------
(***************************************************************************)
(* The life of a vfeSession: Initialize, the start and the end of its      *)
(* worker thread and of the back end's main thread (backend/povray.cpp),   *)
(* Shutdown, and the status events a thread of the host waits for.         *)
(*                                                                         *)
(* Initialize waits three seconds at most under m_InitializeMutex; the     *)
(* worker writes the session's members and notifies without that mutex, so *)
(* each of its accesses is an action, and so is each access to the back    *)
(* end's variables, that two threads share without a lock.  Events go      *)
(* through m_SessionMutex: raising them and returning them is one action.  *)
(* What the worker does for renders (VirtualFrontEnd) is a change of its   *)
(* state now and then.  VfeSession has the next-state relation, with the   *)
(* requests.  A thread that has ended stays at "ended"; an exception that  *)
(* nothing catches ends the program: the worker is at "aborted".           *)
(***************************************************************************)
EXTENDS Integers, FiniteSets

CONSTANTS
    Closers,        \* threads that call Shutdown, once each
    Failures,       \* what may fail: "povms" for the worker's message
                    \* context, "context" and "backend" for the main thread's
    EventMask       \* events a wait ends for, besides stNoIgnore

ASSUME ClosersAssumption == IsFiniteSet(Closers)
ASSUME FailuresAssumption == Failures \subseteq {"povms", "context", "backend"}

NoClear == {"shutdown", "criticalError"}            \* and stNoIgnore
Events == NoClear \cup {"backendStateChanged", "renderShutdown"}
ASSUME EventMaskAssumption == EventMask \subseteq Events

VARIABLES
    session,        \* vfeSession's members
    backend,        \* the back end's static variables
    host,           \* where Initialize is, and what it returned
    worker, main,   \* where the worker and the back end's main thread are
    closer,         \* where each call of Shutdown is
    reader,         \* where the thread is that calls GetStatus
    flags,          \* m_StatusFlags
    unseen,         \* history: events raised and not yet returned by GetStatus
    deletes,        \* history: times the worker's thread object was deleted
    mainFailed,     \* history: the main thread ended without being told to
    overwritten     \* history: another thread wrote m_LastError while the worker
                    \* drained its messages after a critical error

vars == <<session, backend, host, worker, main, closer, reader, flags, unseen,
          deletes, mainFailed, overwritten>>
statusVars == <<reader, flags, unseen>>

Init ==
    /\ session = [initialized |-> FALSE, backendState |-> "unknown", lastError |-> "none",
                  shutdownRequest |-> FALSE, backendExited |-> FALSE,
                  hadCriticalError |-> FALSE,
                  frontend |-> "null", workerThread |-> "null"]
    /\ backend = [context |-> "null", mainThread |-> "null", terminate |-> FALSE]
    /\ host = [at |-> "out", returned |-> "nothing"]
    /\ worker = "none" /\ main = "none"
    /\ closer = [c \in Closers |-> "out"]
    /\ reader = "out" /\ flags = {} /\ unseen = {}
    /\ deletes = 0 /\ mainFailed = FALSE /\ overwritten = FALSE

-----------------------------------------------------------------------------
(* Events.                                                                  *)

Ends(fs) == fs \cap (EventMask \cup NoClear) # {}

WithFlags(S) == flags \cup S
Woken == IF reader = "waiting" THEN "woken" ELSE reader

NotifyEvent(S) ==
    /\ flags' = WithFlags(S)
    /\ unseen' = unseen \cup S
    /\ reader' = IF Ends(flags') THEN Woken ELSE reader

\* GetStatus returns the flags and clears those that can be cleared.  The
\* thread that waits for events ends when it sees that the session does.
ReturnFlags ==
    /\ unseen' = unseen \ flags
    /\ flags' = flags \cap NoClear
    /\ reader' = IF "shutdown" \in flags THEN "ended" ELSE "out"

Others == UNCHANGED <<session, backend, host, worker, main, closer, deletes, mainFailed,
                      overwritten>>

GetStatus ==
    /\ reader = "out" /\ host.returned # "nothing"
    /\ IF Ends(flags) THEN ReturnFlags
       ELSE reader' = "waiting" /\ UNCHANGED <<flags, unseen>>
    /\ Others

\* Woken by an event, or by its time limit.
GetStatusGoesOn == reader \in {"waiting", "woken"} /\ ReturnFlags /\ Others

-----------------------------------------------------------------------------
(* Initialize.                                                              *)

HostOnly == UNCHANGED <<backend, main, closer, deletes, mainFailed, overwritten>>

\* Reset, the members, and the thread.
Initialize ==
    /\ host.at = "out" /\ host.returned = "nothing"
    /\ session' = [session EXCEPT !.initialized = TRUE, !.shutdownRequest = FALSE,
                                  !.lastError = "none", !.workerThread = "live"]
    /\ worker' = "startup"
    /\ host' = [host EXCEPT !.at = "created"]
    /\ flags' = {} /\ UNCHANGED <<reader, unseen>>
    /\ HostOnly

\* m_BackendState == kUnknown, and then the wait.
LookAtState ==
    /\ host.at = "created"
    /\ host' = [host EXCEPT !.at = IF session.backendState = "unknown" THEN "unsure"
                                                                    ELSE "started"]
    /\ UNCHANGED <<session, worker, statusVars>> /\ HostOnly

WaitForWorker ==
    /\ host.at = "unsure"
    /\ host' = [host EXCEPT !.at = "waiting"]
    /\ UNCHANGED <<session, worker, statusVars>> /\ HostOnly

\* timed_wait is called once, in an if: when it returns without a notification
\* and before the time is up, Initialize goes on as if the worker had notified.
InitializeWakesEarly ==
    /\ host.at = "waiting"
    /\ host' = [host EXCEPT !.at = "unnotified"]
    /\ UNCHANGED <<session, worker, statusVars>> /\ HostOnly

\* What a write of m_LastError makes of the history.
Overwrites == overwritten \/ worker = "draining"

InitializeTimesOut ==
    /\ host.at = "waiting"
    /\ session' = [session EXCEPT !.shutdownRequest = TRUE, !.initialized = FALSE,
                                  !.lastError = "initializeTimedOut"]
    /\ host' = [at |-> "out", returned |-> "initializeTimedOut"]
    /\ overwritten' = Overwrites
    /\ UNCHANGED <<worker, backend, main, closer, deletes, mainFailed, statusVars>>

WaitIsOver == host.at \in {"started", "unnotified"}

InitializeFails ==      \* joins the worker
    /\ WaitIsOver /\ session.lastError # "none"
    /\ worker = "ended"
    /\ session' = [session EXCEPT !.workerThread = "null"]
    /\ host' = [at |-> "out", returned |-> session.lastError]
    /\ deletes' = deletes + 1
    /\ UNCHANGED <<worker, backend, main, closer, mainFailed, overwritten,
                   statusVars>>

InitializeSucceeds ==
    /\ WaitIsOver /\ session.lastError = "none"
    /\ NotifyEvent({"backendStateChanged"})
    /\ host' = [at |-> "out", returned |-> "noError"]
    /\ UNCHANGED <<session, worker>> /\ HostOnly

-----------------------------------------------------------------------------
(* The worker.                                                              *)

WorkerOnly == UNCHANGED <<main, closer, deletes, mainFailed, overwritten>>
WorkerGoes(to) == worker' = to /\ WorkerOnly
Notified == IF host.at = "waiting" THEN [host EXCEPT !.at = "started"] ELSE host

Startup ==      \* POVMS_Init, POVMS_OpenContext and POVMS_GetContextAddress
    /\ worker = "startup"
    /\ \/ WorkerGoes("initBackend") /\ UNCHANGED session
       \/ /\ "povms" \in Failures
          /\ session' = [session EXCEPT !.lastError = "povmsFailed"]
          /\ WorkerGoes("failed")
    /\ UNCHANGED <<backend, host, statusVars>>

StartupFails == \* and the worker is over, without what it does at its end
    /\ worker = "failed"
    /\ host' = Notified /\ WorkerGoes("ended")
    /\ UNCHANGED <<session, backend, statusVars>>

PovrayInit ==   \* the main thread is created
    /\ worker = "initBackend"
    /\ backend' = [backend EXCEPT !.mainThread = "live", !.terminate = FALSE]
    /\ main' = "startup" /\ worker' = "polling"
    /\ UNCHANGED <<session, host, closer, deletes, mainFailed, overwritten,
                   statusVars>>

\* The loop with the Delay(50): the context may be gone when it looks next.
PovrayInitSees ==
    /\ worker = "polling" /\ backend.context = "open"
    /\ WorkerGoes("address")
    /\ UNCHANGED <<session, backend, host, statusVars>>

\* POVMS_GetContextAddress; povray_init throws, and nothing catches it.
PovrayInitReturns ==
    /\ worker = "address"
    /\ WorkerGoes(IF backend.context = "open" THEN "newFrontend" ELSE "aborted")
    /\ UNCHANGED <<session, backend, host, statusVars>>

NewFrontend ==
    /\ worker = "newFrontend"
    /\ session' = [session EXCEPT !.frontend = "live"]
    /\ WorkerGoes("frontend")
    /\ UNCHANGED <<backend, host, statusVars>>

BackendState ==
    /\ worker = "frontend"
    /\ session' = [session EXCEPT !.backendState = "ready"]
    /\ WorkerGoes("notify")
    /\ UNCHANGED <<backend, host, statusVars>>

NotifyInitialize ==
    /\ worker = "notify"
    /\ host' = Notified /\ WorkerGoes("loop")
    /\ UNCHANGED <<session, backend, statusVars>>

Loop ==
    /\ worker = "loop" /\ ~session.shutdownRequest /\ ~session.backendExited
    /\ NotifyEvent({"backendStateChanged"})
    /\ WorkerGoes("loop")
    /\ UNCHANGED <<session, backend, host>>

LeaveLoop ==
    /\ worker = "loop" /\ session.shutdownRequest
    /\ WorkerGoes("leaving")
    /\ UNCHANGED <<session, backend, host, statusVars>>

\* "Backend worker thread shut down prematurely"; the rest of the messages
\* is processed before m_LastError is looked at again.
CriticalError ==
    /\ worker = "loop" /\ ~session.shutdownRequest /\ session.backendExited
    /\ session' = [session EXCEPT !.lastError = "critical", !.hadCriticalError = TRUE]
    /\ WorkerGoes("draining")
    /\ UNCHANGED <<backend, host, statusVars>>

CriticalErrorTold ==
    /\ worker = "draining"
    /\ IF session.lastError = "critical"
       THEN NotifyEvent({"criticalError", "renderShutdown"})
       ELSE UNCHANGED statusVars
    /\ WorkerGoes("leaving")
    /\ UNCHANGED <<session, backend, host>>

\* Variant with an error: the back end is told to leave at the same time.
DeleteAndTerminate ==
    /\ worker = "leaving"
    /\ session' = [session EXCEPT !.frontend = "deleted"]
    /\ backend' = [backend EXCEPT !.terminate = TRUE]
    /\ WorkerGoes("leaving2")
    /\ UNCHANGED <<host, statusVars>>

DeleteFrontend ==
    /\ worker = "leaving"
    /\ session' = [session EXCEPT !.frontend = "deleted"]
    /\ WorkerGoes("leaving2")
    /\ UNCHANGED <<backend, host, statusVars>>

ForgetFrontend ==
    /\ worker = "leaving2"
    /\ session' = [session EXCEPT !.frontend = "null", !.initialized = FALSE]
    /\ WorkerGoes("terminate")
    /\ UNCHANGED <<backend, host, statusVars>>

\* Variant with an error: the main thread is not told to leave.
JoinOnly ==
    /\ worker = "terminate"
    /\ WorkerGoes("joinMain")
    /\ UNCHANGED <<session, backend, host, statusVars>>

PovrayTerminate ==
    /\ worker = "terminate"
    /\ backend' = [backend EXCEPT !.terminate = TRUE]
    /\ WorkerGoes("joinMain")
    /\ UNCHANGED <<session, host, statusVars>>

\* The context is gone, the main thread is joined and its object deleted; the
\* worker closes its own context.
WorkerEnds ==
    /\ worker = "joinMain" /\ backend.context = "null" /\ main = "ended"
    /\ backend' = [backend EXCEPT !.mainThread = "null"]
    /\ WorkerGoes("ended")
    /\ UNCHANGED <<session, host, statusVars>>

-----------------------------------------------------------------------------
(* The back end's main thread.                                              *)

MainOnly == UNCHANGED <<host, worker, closer, deletes, overwritten, statusVars>>

MainOpensContext ==
    /\ main = "startup"
    /\ \/ /\ backend' = [backend EXCEPT !.context = "open"] /\ main' = "opened"
          /\ UNCHANGED mainFailed
       \/ /\ "context" \in Failures
          /\ main' = "exiting" /\ mainFailed' = TRUE /\ UNCHANGED backend
    /\ UNCHANGED session /\ MainOnly

MainStarts ==   \* the RenderBackend is constructed
    /\ main = "opened"
    /\ \/ main' = "serving" /\ UNCHANGED mainFailed
       \/ "backend" \in Failures /\ main' = "exiting" /\ mainFailed' = TRUE
    /\ UNCHANGED <<session, backend>> /\ MainOnly

MainLeaves ==
    /\ main = "serving" /\ backend.terminate
    /\ main' = "exiting"
    /\ UNCHANGED <<session, backend>> /\ UNCHANGED mainFailed /\ MainOnly

\* BackendThreadNotify, in three accesses: the flag, the test of the pointer,
\* and the call.
SetExited ==
    /\ main = "exiting"
    /\ session' = [session EXCEPT !.backendExited = TRUE]
    /\ main' = "advising"
    /\ UNCHANGED backend /\ UNCHANGED mainFailed /\ MainOnly

TestFrontend ==
    /\ main = "advising"
    /\ main' = IF session.frontend # "null" THEN "invalidating" ELSE "closing"
    /\ UNCHANGED <<session, backend>> /\ UNCHANGED mainFailed /\ MainOnly

InvalidateBackend ==
    /\ main = "invalidating"
    /\ main' = "closing"
    /\ UNCHANGED <<session, backend>> /\ UNCHANGED mainFailed /\ MainOnly

MainEnds ==
    /\ main = "closing"
    /\ backend' = [backend EXCEPT !.context = "null"]
    /\ main' = "ended"
    /\ UNCHANGED session /\ UNCHANGED mainFailed /\ MainOnly

-----------------------------------------------------------------------------
(* Shutdown.                                                                *)

CloserOnly == UNCHANGED <<backend, host, worker, main, mainFailed, overwritten>>
CloserGoes(c, to) == closer' = [closer EXCEPT ![c] = to]

Shutdown(c) ==
    /\ closer[c] = "out" /\ host.returned # "nothing"
    /\ IF ~session.initialized \/ session.workerThread = "null"
       THEN CloserGoes(c, "returned") /\ UNCHANGED session
       ELSE /\ CloserGoes(c, "notify")
            /\ session' = [session EXCEPT !.shutdownRequest = TRUE]
    /\ UNCHANGED <<deletes, statusVars>> /\ CloserOnly

ShutdownNotifies(c) ==
    /\ closer[c] = "notify"
    /\ NotifyEvent({"shutdown"})
    /\ CloserGoes(c, "join")
    /\ UNCHANGED <<session, deletes>> /\ CloserOnly

\* Variant with an error: nobody waits for the worker.
NoJoin == TRUE

Joinable == worker = "ended"

ShutdownJoins(c) ==
    /\ closer[c] = "join" /\ Joinable
    /\ CloserGoes(c, "joined")
    /\ UNCHANGED <<session, deletes, statusVars>> /\ CloserOnly

ShutdownDeletes(c) ==
    /\ closer[c] = "joined"
    /\ deletes' = deletes + 1
    /\ session' = [session EXCEPT !.workerThread = "null"]
    /\ CloserGoes(c, "returned")
    /\ UNCHANGED statusVars /\ CloserOnly

-----------------------------------------------------------------------------
HostStep == LookAtState \/ WaitForWorker \/ InitializeFails \/ InitializeSucceeds
WorkerStep ==
    \/ Startup \/ StartupFails \/ PovrayInit \/ PovrayInitSees \/ PovrayInitReturns
    \/ NewFrontend \/ BackendState \/ NotifyInitialize
    \/ CriticalErrorTold
    \/ DeleteFrontend \/ ForgetFrontend \/ PovrayTerminate \/ WorkerEnds
MainStep == MainOpensContext \/ MainStarts \/ MainLeaves \/ SetExited \/ TestFrontend
            \/ InvalidateBackend \/ MainEnds
ShutdownStep(c) == ShutdownNotifies(c) \/ ShutdownJoins(c) \/ ShutdownDeletes(c)

-----------------------------------------------------------------------------
Errors == {"none", "povmsFailed", "initializeTimedOut", "critical", "requestTimedOut"}

TypeOK ==
    /\ session \in [initialized : BOOLEAN, backendState : {"unknown", "ready"},
                    lastError : Errors, shutdownRequest : BOOLEAN,
                    backendExited : BOOLEAN, hadCriticalError : BOOLEAN,
                    frontend : {"null", "live", "deleted"},
                    workerThread : {"null", "live"}]
    /\ backend \in [context : {"null", "open"}, mainThread : {"null", "live"},
                    terminate : BOOLEAN]
    /\ host \in [at : {"out", "created", "unsure", "waiting", "unnotified", "started"},
                 returned : {"nothing", "noError"} \cup (Errors \ {"none"})]
    /\ worker \in {"none", "startup", "failed", "initBackend", "polling", "address",
                   "newFrontend", "frontend", "notify", "loop", "draining", "leaving", "leaving2",
                   "terminate", "joinMain", "ended", "aborted"}
    /\ main \in {"none", "startup", "opened", "serving", "exiting", "advising",
                 "invalidating", "closing", "ended"}
    /\ closer \in [Closers -> {"out", "notify", "join", "joined", "returned"}]
    /\ reader \in {"out", "waiting", "woken", "ended"}
    /\ flags \subseteq Events /\ unseen \subseteq Events
    /\ deletes \in 0..(1 + Cardinality(Closers)) /\ mainFailed \in BOOLEAN
    /\ overwritten \in BOOLEAN
    \* a wait for events is over when there is one to return
    /\ reader = "waiting" => ~Ends(flags)

Running == host.returned = "noError" /\ ~session.shutdownRequest
           /\ ~session.hadCriticalError

\* From the moment Initialize is about to report success, because the worker
\* notified it or had come so far before it looked, to the first call of Shutdown
\* or a critical error, the front end that Pause, StartRender and the others use
\* is there (CheckFrontend does not throw).  If its wait ended by itself, that is
\* so from the moment the worker has the back end's state, and not before.
Succeeds == host.at = "started" /\ session.lastError = "none"
RunningHasFrontend ==
    Succeeds \/ (Running /\ session.backendState = "ready") => session.frontend = "live"

\* A main thread that was told to leave does not call a front end that the
\* worker has deleted: the worker forgets the front end before it tells.  One
\* that fails by itself may (README, section 5), but not before the worker is
\* at its own end, and not after: the worker waits for it.
AtItsEnd == {"leaving2", "terminate", "joinMain"}
CallsLiveFrontend ==
    main = "invalidating" => \/ session.frontend = "live"
                             \/ mainFailed /\ worker \in AtItsEnd

\* No event is lost: what GetStatus has not returned yet, the next call does.
NoEventLost == unseen \subseteq flags

\* A critical error is told to the host, and stays told: the only exception is
\* that another thread wrote m_LastError while the worker drained its messages
\* (a request that returned, README section 5, or Initialize whose time was up),
\* whatever else happened to m_LastError and the events before or since.
CriticalErrorIsTold ==
    /\ NoEventLost
    /\ session.hadCriticalError /\ worker # "draining" =>
         "criticalError" \in flags \/ overwritten

\* Shutdown "will set a flag asking the worker thread to exit ... and then wait
\* for the worker thread to exit" (vfesession.cpp:764): after a successful
\* Initialize and without a critical error it does, and then the back end has
\* ended as well, if it was started at all, and nothing of it is left.  (After
\* a wait that ended by itself Initialize returns success although the worker
\* may still fail before it starts the back end.)
ShutdownComplete ==
    /\ \E c \in Closers : closer[c] = "returned"
    /\ host.returned = "noError" /\ ~session.hadCriticalError
    => /\ worker = "ended" /\ session.frontend = "null"
       /\ main = "ended" \/ (main = "none" /\ session.backendState = "unknown")
       /\ backend.context = "null" /\ backend.mainThread = "null"
       /\ session.workerThread = "null"

=============================================================================
