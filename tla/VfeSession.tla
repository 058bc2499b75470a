----------------------------- MODULE VfeSession -----------------------------
(***************************************************************************)
(* SessionLife and SessionRequests together: the worker takes requests in  *)
(* the loop that a shutdown or a critical error ends, and Pause and Resume *)
(* are called, by threads that know of neither, as long as there is a      *)
(* front end.  Both write m_LastError.                                     *)
(***************************************************************************)
EXTENDS SessionLife

CONSTANTS Users, MaxCalls   \* as in SessionRequests

ASSUME UsersAssumption == IsFiniteSet(Users) /\ Users # {}
ASSUME MaxCallsAssumption == MaxCalls \in Nat

VARIABLES requestFlag, requestResult, render, request, rq, caller, call, answer, calls,
          carriedOut, alone

R == INSTANCE SessionRequests WITH worker <- request

requestVars == <<requestFlag, requestResult, render, request, rq, caller, call, answer,
                 calls, carriedOut, alone>>
allVars == <<vars, requestVars>>

SessionInit == Init /\ R!Init

-----------------------------------------------------------------------------
(* The worker in its loop.  It looks at the shutdown request between two   *)
(* iterations, not while it is busy with a request.                        *)
AtTheTop == request = "loop"

LoopStep == AtTheTop /\ (LeaveLoop \/ CriticalError) /\ UNCHANGED requestVars
ProcessFrontend == AtTheTop /\ Loop /\ R!RenderGoesOn
RequestStep == worker = "loop" /\ R!WorkerStep /\ UNCHANGED vars

(* CheckFrontend throws if there is no front end.                          *)
HasFrontend == host.returned = "noError" /\ session.frontend # "null"

LastErrorBecomes(e) ==
  /\ session' = [session EXCEPT !.lastError = e]
  /\ overwritten' = Overwrites
  /\ UNCHANGED <<backend, host, worker, main, closer, deletes, mainFailed, statusVars>>

CallStep(u) ==
  \/ R!Wait(u) /\ UNCHANGED vars
  \/ R!TimeIsUp(u) /\ UNCHANGED vars
  \/ R!ReturnExpired(u) /\ LastErrorBecomes("requestTimedOut")
  \/ R!ReturnWoken(u) /\ LastErrorBecomes("none")

Call(u) == HasFrontend /\ R!Place(u) /\ UNCHANGED vars

(* A wait that ends by itself, in Initialize or in a request.              *)
WakesEarly ==
  \/ InitializeWakesEarly /\ UNCHANGED requestVars
  \/ \E u \in Users : R!WakesEarly(u) /\ UNCHANGED vars

SessionNext ==
  /\ worker # "aborted"
  /\ \/ /\ \/ Initialize \/ HostStep \/ InitializeTimesOut \/ WorkerStep \/ MainStep
           \/ GetStatus \/ GetStatusGoesOn
           \/ \E c \in Closers : Shutdown(c) \/ ShutdownStep(c)
        /\ UNCHANGED requestVars
     \/ LoopStep \/ ProcessFrontend \/ RequestStep
     \/ \E u \in Users : Call(u) \/ CallStep(u)
     \/ WakesEarly

(* Threads that can go on do so, and three seconds pass.  Nobody has to    *)
(* call Initialize, GetStatus, Pause, Resume or Shutdown, and no wait has  *)
(* to end by itself.                                                       *)
NotAborted(A) == worker # "aborted" /\ A
WorkerGoesOn == NotAborted((WorkerStep /\ UNCHANGED requestVars) \/ LoopStep \/ RequestStep)
Fairness ==
  /\ WF_allVars(NotAborted(HostStep /\ UNCHANGED requestVars))
  /\ WF_allVars(NotAborted(InitializeTimesOut /\ UNCHANGED requestVars))
  /\ WF_allVars(WorkerGoesOn)
  /\ WF_allVars(NotAborted(MainStep /\ UNCHANGED requestVars))
  /\ \A c \in Closers : WF_allVars(NotAborted(ShutdownStep(c) /\ UNCHANGED requestVars))
  /\ \A u \in Users : WF_allVars(NotAborted(CallStep(u)))

SessionSpec == SessionInit /\ [][SessionNext]_allVars /\ Fairness

-----------------------------------------------------------------------------
(* The front end is there for whoever was told by the worker that the      *)
(* session runs, and for the back end's main thread                        *)
(* unless that failed; a critical error is told unless m_LastError was     *)
(* overwritten at that very time; and no event is lost.                    *)
SessionInv == TypeOK /\ RunningHasFrontend /\ CallsLiveFrontend /\ CriticalErrorIsTold

(* A request is carried out once at most, whatever the worker and the      *)
(* callers do to the flag at the same time and whenever the session ends;  *)
(* one whose time is up is not left behind for the worker to find; and the *)
(* answer is to the caller's own request if the call had the worker to     *)
(* itself and its wait did not end by itself.                              *)
RequestInv ==
  /\ R!TypeOK /\ R!CarriedOutOnce /\ R!ExpiredIsWithdrawn /\ R!AnswerIsMine
  /\ worker # "loop" => AtTheTop

(* A shutdown comes to an end, and every call of the session returns,      *)
(* whatever is asked for meanwhile; unless the worker waits for a main     *)
(* thread that failed before its context was seen.                         *)
ShutdownReturns ==
  session.shutdownRequest ~>
    \/ worker = "aborted"
    \/ worker = "polling" /\ main = "ended"
    \/ /\ worker = "ended" /\ \A u \in Users : caller[u] = "out"
       /\ \A c \in Closers : closer[c] \in {"out", "returned"}
=============================================================================
