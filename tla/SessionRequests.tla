--------------------------- MODULE SessionRequests ---------------------------
(***************************************************************************)
(* vfeSession::Pause and vfeSession::Resume: a thread of the user          *)
(* interface leaves a request in m_RequestFlag and waits three seconds at  *)
(* most on m_RequestEvent; the worker thread takes the request, has the    *)
(* front end carry it out, and leaves the answer in m_RequestResult.       *)
(*                                                                         *)
(* The callers hold m_RequestMutex but for the wait.  The worker never     *)
(* takes it: it reads and clears the flag, carries the request out and     *)
(* wakes the callers at any moment, so every access of its is an action.   *)
(* Calls are numbered in the order they are made; the numbers are not in   *)
(* the code, they say whose request a flag or a result is.                 *)
(***************************************************************************)
EXTENDS Integers

CONSTANTS
    Users,          \* threads that call Pause and Resume
    MaxCalls        \* bound: calls made

Requests == {"Pause", "Resume"}
CallIds == 1..MaxCalls
NoRequest == [kind |-> "none", id |-> 0]
RequestType == [kind : Requests, id : CallIds] \cup {NoRequest}

VARIABLES
    requestFlag,    \* m_RequestFlag, and whose it is
    requestResult,  \* m_RequestResult, and whose it is
    render,         \* the front end: is there a render, and is it paused
    worker,         \* where the worker is in its loop
    rq,             \* its local copy of the request
    caller,         \* per user thread: where it is in its call
    call,           \* per user thread: the number of its last call
    answer,         \* per user thread: what its last call returned, and whose
                    \* answer that was
    calls,          \* calls made
    carriedOut,     \* history: per call, how often it was carried out
    alone           \* history: per user thread, whether its last call had the
                    \* worker to itself, and its wait did not end by itself

vars == <<requestFlag, requestResult, render, worker, rq, caller, call, answer, calls,
          carriedOut, alone>>

WorkerPlaces == {"loop", "seen", "taken", "cleared", "done"}
CallerPlaces == {"out", "placed", "waiting", "woken", "expired"}
NoAnswer == [is |-> "none", of |-> 0]
Answers == [is : {"none", "TimedOut", "accepted", "rejected"}, of : 0..MaxCalls]

Init ==
    /\ requestFlag = NoRequest
    /\ requestResult = [accepted |-> FALSE, of |-> 0]
    /\ render = "idle"
    /\ worker = "loop" /\ rq = NoRequest
    /\ caller = [u \in Users |-> "out"] /\ call = [u \in Users |-> 0]
    /\ answer = [u \in Users |-> NoAnswer]
    /\ calls = 0 /\ carriedOut = [i \in CallIds |-> 0] /\ alone = [u \in Users |-> FALSE]

-----------------------------------------------------------------------------
(* The callers.  A thread has m_RequestMutex from its entry until it waits, *)
(* and again from the end of the wait until it returns, a single action.    *)

MutexFree == \A u \in Users : caller[u] # "placed"

\* For the history: no request of an earlier call is with the worker, and no
\* other call is under way.
WorkerIsFree == worker \in {"loop", "seen"}
OthersAreOut(u) == \A v \in Users \ {u} : caller[v] = "out"

\* The lock, the time limit, the flag; a request that was there is replaced.
Place(u) ==
    /\ caller[u] = "out" /\ MutexFree /\ calls < MaxCalls
    /\ calls' = calls + 1
    /\ \E kind \in Requests : requestFlag' = [kind |-> kind, id |-> calls + 1]
    /\ call' = [call EXCEPT ![u] = calls + 1]
    /\ caller' = [caller EXCEPT ![u] = "placed"]
    /\ answer' = [answer EXCEPT ![u] = NoAnswer]
    /\ alone' = [v \in Users |-> IF v = u THEN WorkerIsFree /\ OthersAreOut(u)
                                ELSE alone[v] /\ caller[v] = "out"]
    /\ UNCHANGED <<requestResult, render, worker, rq, carriedOut>>

\* timed_wait releases the mutex; a notify_all from here on is heard.
Wait(u) ==
    /\ caller[u] = "placed"
    /\ caller' = [caller EXCEPT ![u] = "waiting"]
    /\ UNCHANGED <<requestFlag, requestResult, render, worker, rq, call, answer, calls,
                   carriedOut, alone>>

TimeIsUp(u) ==
    /\ caller[u] = "waiting"
    /\ caller' = [caller EXCEPT ![u] = "expired"]
    /\ UNCHANGED <<requestFlag, requestResult, render, worker, rq, call, answer, calls,
                   carriedOut, alone>>

\* timed_wait is called once, in an if: it may return without a notification and
\* before the time is up, and the caller goes on as if it had been woken.
WakesEarly(u) ==
    /\ caller[u] = "waiting"
    /\ caller' = [caller EXCEPT ![u] = "woken"]
    /\ alone' = [alone EXCEPT ![u] = FALSE]
    /\ UNCHANGED <<requestFlag, requestResult, render, worker, rq, call, answer, calls,
                   carriedOut>>

\* It withdraws the request, if that is still there.
ReturnExpired(u) ==
    /\ caller[u] = "expired" /\ MutexFree
    /\ requestFlag' = NoRequest
    /\ answer' = [answer EXCEPT ![u] = [is |-> "TimedOut", of |-> call[u]]]
    /\ caller' = [caller EXCEPT ![u] = "out"]
    /\ alone' = [alone EXCEPT ![u] = FALSE]
    /\ UNCHANGED <<requestResult, render, worker, rq, call, calls, carriedOut>>

ReturnWoken(u) ==
    /\ caller[u] = "woken" /\ MutexFree
    /\ answer' = [answer EXCEPT ![u] =
                     [is |-> IF requestResult.accepted THEN "accepted" ELSE "rejected",
                      of |-> requestResult.of]]
    /\ caller' = [caller EXCEPT ![u] = "out"]
    /\ UNCHANGED <<requestFlag, requestResult, render, worker, rq, call, calls, carriedOut,
                   alone>>

-----------------------------------------------------------------------------
(* The worker.                                                              *)

\* The test of the flag, and the second read, which may find another request
\* or none.
SeeRequest ==
    /\ worker = "loop" /\ requestFlag # NoRequest
    /\ worker' = "seen"
    /\ UNCHANGED <<requestFlag, requestResult, render, rq, caller, call, answer, calls,
                   carriedOut, alone>>

TakeRequest ==
    /\ worker = "seen"
    /\ rq' = requestFlag /\ worker' = "taken"
    /\ UNCHANGED <<requestFlag, requestResult, render, caller, call, answer, calls,
                   carriedOut, alone>>

\* What taking a request leaves in the flag, and an error: it is left there.
NotCleared == requestFlag
Cleared == NoRequest

ClearRequest ==
    /\ worker = "taken"
    /\ requestFlag' = Cleared
    /\ worker' = "cleared"
    /\ UNCHANGED <<requestResult, render, rq, caller, call, answer, calls, carriedOut,
                   alone>>

\* VirtualFrontEnd::Pause and Resume: rejected when there is nothing to pause
\* or to resume, or when the back end does not go along.
Accepts(kind) == \/ kind = "Pause" /\ render = "running"
                 \/ kind = "Resume" /\ render = "paused"
After(kind) == IF kind = "Pause" THEN "paused" ELSE "running"

CarryOut ==
    /\ worker = "cleared"
    /\ worker' = "done"
    /\ \/ rq = NoRequest
          /\ UNCHANGED <<requestResult, render, carriedOut>>
       \/ /\ rq # NoRequest
          /\ carriedOut' = [carriedOut EXCEPT ![rq.id] = @ + 1]
          /\ \/ /\ Accepts(rq.kind) /\ render' = After(rq.kind)
                /\ requestResult' = [accepted |-> TRUE, of |-> rq.id]
             \/ /\ requestResult' = [accepted |-> FALSE, of |-> rq.id]
                /\ UNCHANGED render
    /\ UNCHANGED <<requestFlag, rq, caller, call, answer, calls, alone>>

Notify ==
    /\ worker = "done"
    /\ worker' = "loop" /\ rq' = NoRequest
    /\ caller' = [u \in Users |-> IF caller[u] = "waiting" THEN "woken" ELSE caller[u]]
    /\ UNCHANGED <<requestFlag, requestResult, render, call, answer, calls, carriedOut,
                   alone>>

\* In the loop the worker also starts renders and learns of their end.
RenderGoesOn ==
    /\ worker = "loop"
    /\ render' = IF render = "idle" THEN "running" ELSE "idle"
    /\ UNCHANGED <<requestFlag, requestResult, worker, rq, caller, call, answer, calls,
                   carriedOut, alone>>

-----------------------------------------------------------------------------
WorkerStep == SeeRequest \/ TakeRequest \/ ClearRequest \/ CarryOut \/ Notify

-----------------------------------------------------------------------------
TypeOK ==
    /\ requestFlag \in RequestType /\ rq \in RequestType
    /\ requestResult \in [accepted : BOOLEAN, of : 0..MaxCalls]
    /\ render \in {"idle", "running", "paused"}
    /\ worker \in WorkerPlaces /\ caller \in [Users -> CallerPlaces]
    /\ call \in [Users -> 0..MaxCalls] /\ answer \in [Users -> Answers]
    /\ calls \in 0..MaxCalls /\ alone \in [Users -> BOOLEAN]
    /\ carriedOut \in [CallIds -> Nat]
    \* the worker has a request only between taking it and waking its caller
    /\ worker \in {"loop", "seen"} => rq = NoRequest

\* A caller that was told of a time-out may ask for something else: its old
\* request is not left behind for the worker to find.  (The worker may have
\* taken it by then, and carries it out all the same.)
ExpiredIsWithdrawn ==
    \A u \in Users : answer[u].is = "TimedOut" => requestFlag.id # call[u]

\* A request is carried out once at most, whatever the worker and the callers
\* do to the flag at the same time.
CarriedOutOnce == \A i \in CallIds : carriedOut[i] <= 1

Answered(u) == answer[u].is \in {"accepted", "rejected"}

\* "the return value is set according to whether the backend accepted the
\* request" (vfesession.cpp:964): a call that returns an answer returns what
\* became of its own request, if no request of an earlier call was still with
\* the worker when it was made, no other call was made meanwhile, and its wait
\* did not end by itself.  So a time-out spoils the answers of no more than the
\* calls that overtake the request that expired.  (The wait is for an event,
\* not for an answer, so this takes the worker's order of steps.)
AnswerIsMine == \A u \in Users : Answered(u) /\ alone[u] => answer[u].of = call[u]
=============================================================================
