-------------------------- MODULE VfeSessionProofs --------------------------
(***************************************************************************)
(* Proofs about VfeSession for any number of threads that ask, pause, shut *)
(* down and call, and whatever fails.                                      *)
(***************************************************************************)
EXTENDS VfeSession, FiniteSetTheorems, TLAPS

(* Requests: a number is given to one call, is in the flag until it is     *)
(* withdrawn, cleared or replaced, and with the worker once at most.       *)
NoRequest == R!NoRequest
CallIds == R!CallIds

NumbersGiven ==
  /\ requestFlag # NoRequest => requestFlag.id <= calls
  /\ rq # NoRequest => rq.id <= calls
  /\ \A u \in Users : call[u] <= calls /\ (caller[u] # "out" => call[u] # 0)
                      /\ (answer[u].is # "none" => call[u] # 0)

OnceInv ==
  /\ \A i \in CallIds : carriedOut[i] \in {0, 1} /\ (i > calls => carriedOut[i] = 0)
  /\ requestFlag # NoRequest => carriedOut[requestFlag.id] = 0
  /\ rq # NoRequest /\ request \in {"taken", "cleared"} => carriedOut[rq.id] = 0
  /\ rq # NoRequest /\ request \in {"cleared", "done"} => requestFlag.id # rq.id

(* A call that has the worker to itself: its request is in one place, and   *)
(* the result is there before the caller is woken.                          *)
InFlag(u) == /\ requestFlag # NoRequest /\ requestFlag.id = call[u]
             /\ request = "taken" => rq = requestFlag
             /\ request \in {"loop", "seen", "taken"}
AtWork(u) == /\ requestFlag = NoRequest /\ request = "cleared"
             /\ rq # NoRequest /\ rq.id = call[u]
ResultIs(u) == requestFlag = NoRequest /\ requestResult.of = call[u]
OwnRequest(u) ==
  /\ caller[u] # "out" => R!OthersAreOut(u)
  /\ caller[u] \in {"placed", "waiting"} =>
       \/ InFlag(u)
       \/ AtWork(u)
       \/ ResultIs(u) /\ request \in {"done", "loop"}
  /\ caller[u] = "woken" => ResultIs(u) /\ request = "loop"
  /\ R!Answered(u) => answer[u].of = call[u]
OwnInv == \A u \in Users : alone[u] => OwnRequest(u)

Requests == R!TypeOK /\ NumbersGiven /\ OnceInv /\ R!ExpiredIsWithdrawn /\ OwnInv

RequestsMove ==
  \/ \E u \in Users : \/ R!Place(u) \/ R!Wait(u) \/ R!TimeIsUp(u) \/ R!WakesEarly(u)
                      \/ R!ReturnExpired(u) \/ R!ReturnWoken(u)
  \/ R!WorkerStep \/ R!RenderGoesOn

USE DEF NoRequest, CallIds

LEMMA RequestsInit == R!Init => Requests
<1> SUFFICES ASSUME R!Init PROVE Requests
  OBVIOUS
<1> USE MaxCallsAssumption
<1>1. R!TypeOK
  <2>1. NoRequest \in R!RequestType /\ R!NoAnswer \in R!Answers
    BY DEF R!RequestType, R!Answers, R!NoAnswer
  <2>2. requestResult \in [accepted : BOOLEAN, of : 0..MaxCalls] /\ calls \in 0..MaxCalls
    BY DEF R!Init
  <2>3. call \in [Users -> 0..MaxCalls] /\ answer \in [Users -> R!Answers]
        /\ carriedOut \in [CallIds -> Nat]
    BY <2>1 DEF R!Init
  <2> QED
    BY <2>1, <2>2, <2>3 DEF R!Init, R!TypeOK, R!WorkerPlaces, R!CallerPlaces
<1>2. NumbersGiven /\ OnceInv /\ R!ExpiredIsWithdrawn /\ OwnInv
  BY DEF R!Init, NumbersGiven, OnceInv, R!ExpiredIsWithdrawn, OwnInv, OwnRequest,
     R!NoRequest, R!CallIds,
     R!NoAnswer, R!Answered, R!OthersAreOut
<1> QED
  BY <1>1, <1>2 DEF Requests

LEMMA RequestsPlace ==
  ASSUME Requests, NEW u \in Users, R!Place(u) PROVE Requests'
<1> USE MaxCallsAssumption
<1>0. PICK kind \in R!Requests : requestFlag' = [kind |-> kind, id |-> calls + 1]
  BY DEF R!Place
<1>1. calls \in 0..MaxCalls /\ calls < MaxCalls /\ calls' = calls + 1
  BY DEF Requests, R!TypeOK, R!Place
<1>2. requestFlag' \in R!RequestType /\ requestFlag' # NoRequest /\ requestFlag'.id = calls + 1
  BY <1>0, <1>1 DEF R!RequestType, R!NoRequest, R!CallIds
<1>3. R!TypeOK'
  <2>1. alone' \in [Users -> BOOLEAN]
    BY DEF Requests, R!TypeOK, R!Place, R!WorkerIsFree, R!OthersAreOut
  <2>2. calls' \in 0..MaxCalls /\ call' \in [Users -> 0..MaxCalls]
    BY <1>1 DEF Requests, R!TypeOK, R!Place
  <2>3. caller' \in [Users -> R!CallerPlaces] /\ answer' \in [Users -> R!Answers]
    BY DEF Requests, R!TypeOK, R!Place, R!CallerPlaces, R!Answers, R!NoAnswer
  <2> QED
    BY <1>2, <2>1, <2>2, <2>3 DEF Requests, R!TypeOK, R!Place
<1>4. NumbersGiven'
  BY <1>0, <1>1, <1>2 DEF Requests, R!TypeOK, R!Place, NumbersGiven, R!NoRequest,
     R!NoAnswer, R!CallIds, R!RequestType
<1>5. OnceInv'
  BY <1>0, <1>1, <1>2 DEF Requests, R!TypeOK, R!Place, NumbersGiven, OnceInv,
     R!NoRequest, R!CallIds, R!RequestType
<1>6. R!ExpiredIsWithdrawn'
  BY <1>0, <1>1, <1>2 DEF Requests, R!TypeOK, R!Place, NumbersGiven,
     R!ExpiredIsWithdrawn, R!NoRequest, R!NoAnswer, R!CallIds, R!RequestType
<1>7. OwnInv'
  BY <1>0, <1>1, <1>2, ZenonT(60) DEF Requests, R!TypeOK, R!Place, OwnInv, OwnRequest, InFlag, AtWork,
     ResultIs, R!WorkerIsFree, R!OthersAreOut, R!NoAnswer, R!Answered, R!CallerPlaces
<1> QED
  BY <1>3, <1>4, <1>5, <1>6, <1>7 DEF Requests

LEMMA RequestsCaller ==
  ASSUME Requests, NEW u \in Users,
  R!Wait(u) \/ R!TimeIsUp(u) \/ R!WakesEarly(u) \/ R!ReturnExpired(u) \/ R!ReturnWoken(u)
  PROVE  Requests'
<1> USE MaxCallsAssumption DEF R!Wait, R!TimeIsUp, R!WakesEarly, R!ReturnExpired,
R!ReturnWoken
<1>1. R!TypeOK'
  <2>1. answer' \in [Users -> R!Answers]
    <3>1. answer \in [Users -> R!Answers] /\ call[u] \in 0..MaxCalls
          /\ requestResult.of \in 0..MaxCalls
      BY DEF Requests, R!TypeOK
    <3>2. [is |-> "TimedOut", of |-> call[u]] \in R!Answers
          /\ [is |-> IF requestResult.accepted THEN "accepted" ELSE "rejected",
               of |-> requestResult.of] \in R!Answers
      BY <3>1 DEF R!Answers
    <3> QED
      BY <3>1, <3>2
  <2>2. alone' \in [Users -> BOOLEAN] /\ caller' \in [Users -> R!CallerPlaces]
    BY DEF Requests, R!TypeOK, R!CallerPlaces
  <2>3. requestFlag' \in R!RequestType
    BY DEF Requests, R!TypeOK, R!RequestType
  <2> QED
    BY <2>1, <2>2, <2>3 DEF Requests, R!TypeOK
<1>2. NumbersGiven'
  BY SMTT(30) DEF Requests, R!TypeOK, NumbersGiven, R!NoRequest, R!RequestType, R!CallIds,
     R!CallerPlaces, R!Answers
<1>3. OnceInv'
  BY DEF Requests, R!TypeOK, NumbersGiven, OnceInv, R!NoRequest, R!CallIds, R!RequestType
<1>4. R!ExpiredIsWithdrawn'
  <2>1. call' = call
    OBVIOUS
  <2>2. CASE R!Wait(u) \/ R!TimeIsUp(u) \/ R!WakesEarly(u)
    BY <2>2 DEF Requests, R!ExpiredIsWithdrawn
  <2>3. CASE R!ReturnExpired(u)
    <3>1. \A v \in Users : answer'[v].is = "TimedOut" => call[v] # 0
      BY <2>3 DEF Requests, R!TypeOK, NumbersGiven, R!CallerPlaces, R!Answers
    <3> QED
      BY <2>1, <2>3, <3>1 DEF R!ExpiredIsWithdrawn, R!NoRequest
  <2>4. CASE R!ReturnWoken(u)
    BY <2>1, <2>4 DEF Requests, R!TypeOK, R!ExpiredIsWithdrawn
  <2> QED
    BY <2>2, <2>3, <2>4
<1>5. OwnInv'
  BY DEF Requests, R!TypeOK, OwnInv, OwnRequest, InFlag, AtWork, ResultIs,
     R!OthersAreOut, R!Answered,
     R!CallerPlaces, R!Answers
<1> QED
  BY <1>1, <1>2, <1>3, <1>4, <1>5 DEF Requests

LEMMA RequestsWorker == ASSUME Requests, R!WorkerStep \/ R!RenderGoesOn PROVE Requests'
<1> USE MaxCallsAssumption
<1>1. CASE R!SeeRequest \/ R!TakeRequest \/ R!ClearRequest \/ R!RenderGoesOn
  <2> USE DEF R!SeeRequest, R!TakeRequest, R!ClearRequest, R!Cleared, R!RenderGoesOn
  <2>1. R!TypeOK'
    BY <1>1 DEF Requests, R!TypeOK, R!RequestType, R!WorkerPlaces
  <2>2. NumbersGiven'
    BY <1>1 DEF Requests, R!TypeOK, NumbersGiven
  <2>3. OnceInv'
    BY <1>1 DEF Requests, R!TypeOK, NumbersGiven, OnceInv, R!NoRequest, R!CallIds,
       R!RequestType
  <2>4. R!ExpiredIsWithdrawn'
    BY <1>1 DEF Requests, R!TypeOK, NumbersGiven, R!ExpiredIsWithdrawn, R!NoRequest,
       R!CallIds, R!RequestType
  <2>5. OwnInv'
    <3> USE DEF Requests, R!TypeOK, NumbersGiven, OwnInv, OwnRequest, InFlag, AtWork,
    ResultIs, R!OthersAreOut, R!Answered, R!CallerPlaces
    <3>1. CASE R!SeeRequest
      BY <3>1
    <3>2. CASE R!TakeRequest
      BY <3>2
    <3>3. CASE R!ClearRequest
      BY <3>3
    <3>4. CASE R!RenderGoesOn
      BY <3>4
    <3> QED
      BY <1>1, <3>1, <3>2, <3>3, <3>4
  <2> QED
    BY <2>1, <2>2, <2>3, <2>4, <2>5 DEF Requests
<1>2. CASE R!CarryOut
  <2> USE DEF R!CarryOut
  <2>0. rq # NoRequest => rq.id \in CallIds /\ carriedOut[rq.id] = 0 /\ rq.id <= calls
    BY <1>2 DEF Requests, R!TypeOK, NumbersGiven, OnceInv, R!NoRequest, R!CallIds,
       R!RequestType
  <2>1. R!TypeOK'
    <3>1. requestResult' \in [accepted : BOOLEAN, of : 0..MaxCalls]
      <4>1. CASE rq = NoRequest
        BY <1>2, <4>1 DEF Requests, R!TypeOK
      <4>2. CASE rq # NoRequest
        <5>1. rq.id \in 0..MaxCalls
          BY <2>0, <4>2 DEF R!CallIds
        <5>2. \E b \in BOOLEAN : requestResult' = [accepted |-> b, of |-> rq.id]
          BY <1>2, <4>2
        <5> HIDE DEF R!CarryOut
        <5> QED
          BY <5>1, <5>2
      <4> QED
        BY <4>1, <4>2
    <3>2. carriedOut' \in [CallIds -> Nat]
      BY <1>2, <2>0 DEF Requests, R!TypeOK
    <3>3. render' \in {"idle", "running", "paused"}
      BY <1>2 DEF Requests, R!TypeOK, R!After
    <3> QED
      BY <1>2, <3>1, <3>2, <3>3 DEF Requests, R!TypeOK, R!WorkerPlaces
  <2>2. NumbersGiven'
    BY <1>2 DEF Requests, R!TypeOK, NumbersGiven
  <2>3. OnceInv'
    BY <1>2, <2>0 DEF Requests, R!TypeOK, NumbersGiven, OnceInv, R!NoRequest, R!CallIds,
       R!RequestType
  <2>4. R!ExpiredIsWithdrawn'
    BY <1>2 DEF Requests, R!ExpiredIsWithdrawn
  <2>5. OwnInv'
    BY <1>2 DEF Requests, R!TypeOK, NumbersGiven, OwnInv, OwnRequest, InFlag, AtWork,
       ResultIs, R!OthersAreOut, R!Answered, R!CallerPlaces
  <2> QED
    BY <2>1, <2>2, <2>3, <2>4, <2>5 DEF Requests
<1>3. CASE R!Notify
  <2> USE DEF R!Notify
  <2>1. R!TypeOK'
    BY <1>3 DEF Requests, R!TypeOK, R!RequestType, R!WorkerPlaces, R!CallerPlaces
  <2>2. NumbersGiven' /\ OnceInv' /\ R!ExpiredIsWithdrawn'
    BY <1>3 DEF Requests, R!TypeOK, NumbersGiven, OnceInv, R!ExpiredIsWithdrawn
  <2>3. OwnInv'
    BY <1>3 DEF Requests, R!TypeOK, OwnInv, OwnRequest, InFlag, AtWork, ResultIs,
       R!OthersAreOut,
       R!Answered, R!CallerPlaces
  <2> QED
    BY <2>1, <2>2, <2>3 DEF Requests
<1> QED
  BY <1>1, <1>2, <1>3 DEF R!WorkerStep

LEMMA RequestsStep == Requests /\ (RequestsMove \/ UNCHANGED requestVars) => Requests'
<1>1. ASSUME Requests, UNCHANGED requestVars PROVE Requests'
  BY <1>1 DEF Requests, requestVars, R!TypeOK, NumbersGiven, OnceInv,
     R!ExpiredIsWithdrawn, OwnInv,
     OwnRequest, InFlag, AtWork, ResultIs, R!OthersAreOut, R!Answered
<1> QED
  BY <1>1, RequestsPlace, RequestsCaller, RequestsWorker DEF RequestsMove

-----------------------------------------------------------------------------
(* The life of the session.  Before Initialize there is nothing, and until *)
(* it returns nobody but the worker and the main thread is at work.        *)
BeforeInv ==
  /\ worker = "none" <=> host.at = "out" /\ host.returned = "nothing"
  /\ worker = "none" => flags = {} /\ unseen = {} /\ session.lastError = "none"
  /\ host.returned # "nothing" => host.at = "out"
  /\ host.returned = "nothing" =>
       /\ ~session.shutdownRequest
       /\ worker # "none" => session.workerThread = "live"
       /\ worker = "failed" => session.lastError = "povmsFailed"
       /\ session.hadCriticalError => session.lastError = "critical"
       /\ \A c \in Closers : closer[c] = "out"
  /\ host.returned # "noError" => \A u \in Users : caller[u] = "out"

(* What the worker has made, by its place.                                 *)
HasBegun == {"notify", "loop", "draining", "leaving", "leaving2", "terminate", "joinMain"}
PlaceInv ==
  /\ worker \in HasBegun => session.backendState = "ready"
  /\ session.backendState = "ready" => worker \in HasBegun \cup {"ended"}
  /\ session.frontend = "live" <=>
       worker \in {"frontend", "notify", "loop", "draining", "leaving"}
  /\ session.frontend = "deleted" <=> worker = "leaving2"
  /\ host.at = "started" => \/ session.backendState = "ready"
                            \/ worker = "ended" /\ session.lastError = "povmsFailed"
  /\ /\ host.returned \in {"nothing", "noError"}
     /\ worker \notin {"none", "terminate", "joinMain"}
     /\ worker = "ended" => session.backendState = "unknown"
     => session.initialized

(* The worker leaves for a reason, the main thread after it was told to    *)
(* unless it failed, and what ends is cleared away.                        *)
NoBackend == main = "none" /\ backend.context = "null" /\ backend.mainThread = "null"
EndInv ==
  /\ session.hadCriticalError =>
       worker \in {"draining", "leaving", "leaving2", "terminate", "joinMain", "ended"}
  /\ worker = "draining" =>
       session.hadCriticalError /\ (session.lastError = "critical" \/ overwritten)
  /\ \/ worker \in {"leaving", "leaving2", "terminate", "joinMain"}
     \/ worker = "ended" /\ session.backendState = "ready"
     => session.shutdownRequest \/ session.hadCriticalError
  /\ worker \in {"none", "startup", "failed", "initBackend"} => NoBackend
  /\ worker = "ended" /\ session.backendState = "unknown" => NoBackend
  /\ backend.terminate => worker \in {"joinMain", "ended"}
  /\ main \in {"exiting", "advising", "invalidating", "closing", "ended"} =>
       mainFailed \/ backend.terminate
  /\ main = "invalidating" => mainFailed /\ worker \in HasBegun \cup {"frontend"}
  /\ worker = "ended" /\ session.backendState = "ready" =>
       main = "ended" /\ backend.context = "null" /\ backend.mainThread = "null"

Returned == {c \in Closers : closer[c] = "returned"}
DeletesInv == deletes <= (IF host.returned = "nothing" THEN 0 ELSE 1) + Cardinality(Returned)

(* A single call of Shutdown finds a worker to wait for.                   *)
OneShutdownInv ==
  \A c \in Closers : Closers = {c} /\ host.returned = "noError" /\ ~session.hadCriticalError =>
    /\ closer[c] = "out" => ~session.shutdownRequest /\ session.workerThread = "live"
    /\ closer[c] \in {"joined", "returned"} => worker = "ended"
    /\ closer[c] = "returned" => session.workerThread = "null"

Life == /\ TypeOK /\ BeforeInv /\ PlaceInv /\ EndInv /\ CriticalErrorIsTold
        /\ DeletesInv /\ OneShutdownInv

LEMMA ReturnedCount ==
  /\ Cardinality(Closers) \in Nat
  /\ Cardinality(Returned) \in Nat /\ Cardinality(Returned) <= Cardinality(Closers)
<1>1. Returned \subseteq Closers
  BY DEF Returned
<1> QED
  BY <1>1, ClosersAssumption, FS_CardinalityType, FS_Subset

LEMMA LifeInit == Init /\ R!Init => Life
<1> SUFFICES ASSUME Init, R!Init PROVE Life
  OBVIOUS
<1>1. DeletesInv
  BY ReturnedCount DEF Init, DeletesInv
<1>2. TypeOK
  <2>1. deletes \in 0..(1 + Cardinality(Closers))
    BY ReturnedCount DEF Init
  <2>2. flags \subseteq Events /\ unseen \subseteq Events
    BY DEF Init
  <2> QED
    BY <2>1, <2>2 DEF Init, TypeOK, Errors
<1>3. BeforeInv /\ PlaceInv /\ EndInv /\ CriticalErrorIsTold /\ OneShutdownInv
  BY DEF Init, R!Init, BeforeInv, PlaceInv, HasBegun, EndInv, NoBackend,
     CriticalErrorIsTold,
     NoEventLost, OneShutdownInv
<1> QED
  BY <1>1, <1>2, <1>3 DEF Life

(* What all steps but those of Shutdown need for the count of deletions.   *)
LEMMA DeletesKept ==
  ASSUME Life, UNCHANGED closer,
         \/ deletes' = deletes
            /\ (host'.returned = "nothing" => host.returned = "nothing")
         \/ deletes' = deletes + 1 /\ host.returned = "nothing" /\ host'.returned # "nothing"
  PROVE  DeletesInv' /\ deletes' \in 0..(1 + Cardinality(Closers))
<1>1. Returned' = Returned
  BY DEF Returned
<1>2. deletes \in 0..(1 + Cardinality(Closers))
  BY DEF Life, TypeOK
<1> QED
  <2>1. deletes' <= (IF host'.returned = "nothing" THEN 0 ELSE 1) + Cardinality(Returned)
    BY <1>2, ReturnedCount DEF Life, DeletesInv
  <2> QED
    BY <1>1, <1>2, <2>1, ReturnedCount DEF DeletesInv

(* The types that TypeOK has in one piece.                                 *)
SessionType == [initialized : BOOLEAN, backendState : {"unknown", "ready"},
                lastError : Errors, shutdownRequest : BOOLEAN,
                backendExited : BOOLEAN, hadCriticalError : BOOLEAN,
                frontend : {"null", "live", "deleted"},
                workerThread : {"null", "live"}]
BackendType == [context : {"null", "open"}, mainThread : {"null", "live"},
                terminate : BOOLEAN]
HostType == [at : {"out", "created", "unsure", "waiting", "unnotified", "started"},
             returned : {"nothing", "noError"} \cup (Errors \ {"none"})]
WorkerPlaces ==
  {"none", "startup", "failed", "initBackend", "polling", "address", "newFrontend",
   "frontend", "notify", "loop", "draining", "leaving", "leaving2", "terminate",
   "joinMain", "ended", "aborted"}
MainPlaces ==
  {"none", "startup", "opened", "serving", "exiting", "advising", "invalidating",
   "closing", "ended"}

LEMMA NotifyLemma ==
  ASSUME TypeOK
  PROVE  \A S \in SUBSET Events : NotifyEvent(S) =>
           /\ flags' = flags \cup S /\ unseen' = unseen \cup S
           /\ flags' \subseteq Events /\ unseen' \subseteq Events
           /\ reader' \in {"out", "waiting", "woken", "ended"}
           /\ reader' = "waiting" => ~Ends(flags')
BY DEF TypeOK, NotifyEvent, WithFlags, Woken

LEMMA SomeEvents ==
  /\ {"backendStateChanged"} \subseteq Events /\ {"shutdown"} \subseteq Events
  /\ {"criticalError", "renderShutdown"} \subseteq Events
BY DEF Events, NoClear

LEMMA HostKeeps ==
  ASSUME Life, UNCHANGED caller, worker # "aborted",
         Initialize \/ LookAtState \/ WaitForWorker \/ InitializeTimesOut \/ InitializeFails
         \/ InitializeSucceeds \/ InitializeWakesEarly
  PROVE  Life'
<1> USE DEF Life
<1>1. CASE Initialize
  <2>1. DeletesInv' /\ deletes' \in 0..(1 + Cardinality(Closers))
    BY <1>1, DeletesKept DEF Initialize, HostOnly, statusVars, Ends
  <2>2. TypeOK'
    <3>1. session' \in SessionType
      BY <1>1 DEF Initialize, TypeOK, SessionType, Errors
    <3>2. backend' \in BackendType /\ host' \in HostType
      BY <1>1 DEF Initialize, TypeOK, BackendType, HostType, HostOnly
    <3>3. worker' \in WorkerPlaces /\ main' \in MainPlaces /\ mainFailed' \in BOOLEAN
          /\ overwritten' \in BOOLEAN
      BY <1>1 DEF Initialize, TypeOK, WorkerPlaces, MainPlaces, HostOnly
    <3>4. closer' = closer /\ flags' = {} /\ UNCHANGED <<reader, unseen>>
      BY <1>1 DEF Initialize, HostOnly
    <3> QED
      BY <2>1, <3>1, <3>2, <3>3, <3>4 DEF TypeOK, SessionType, BackendType, HostType,
         WorkerPlaces, MainPlaces, Ends
  <2> USE <1>1 DEF Initialize, TypeOK, BeforeInv, PlaceInv, HasBegun, EndInv, NoBackend,
       CriticalErrorIsTold, NoEventLost, OneShutdownInv, HostOnly
  <2>3. BeforeInv' /\ OneShutdownInv'
    OBVIOUS
  <2>4. PlaceInv' /\ CriticalErrorIsTold'
    OBVIOUS
  <2>5. EndInv'
    OBVIOUS
  <2> QED
    BY <2>1, <2>2, <2>3, <2>4, <2>5
<1>2. CASE LookAtState
  <2>1. DeletesInv' /\ deletes' \in 0..(1 + Cardinality(Closers))
    BY <1>2, DeletesKept DEF LookAtState, HostOnly, statusVars
  <2>2. TypeOK'
    BY <1>2, <2>1 DEF LookAtState, TypeOK, Errors, HostOnly, statusVars
  <2>3. BeforeInv' /\ PlaceInv' /\ EndInv' /\ CriticalErrorIsTold' /\ OneShutdownInv'
    BY <1>2 DEF LookAtState, TypeOK, BeforeInv, PlaceInv, HasBegun, EndInv, NoBackend,
       CriticalErrorIsTold, NoEventLost, OneShutdownInv, HostOnly, statusVars
  <2> QED
    BY <2>1, <2>2, <2>3
<1>3. CASE WaitForWorker
  <2>1. DeletesInv' /\ deletes' \in 0..(1 + Cardinality(Closers))
    BY <1>3, DeletesKept DEF WaitForWorker, HostOnly, statusVars
  <2>2. TypeOK'
    BY <1>3, <2>1 DEF WaitForWorker, TypeOK, Errors, HostOnly, statusVars
  <2>3. BeforeInv' /\ PlaceInv' /\ EndInv' /\ CriticalErrorIsTold' /\ OneShutdownInv'
    BY <1>3 DEF WaitForWorker, TypeOK, BeforeInv, PlaceInv, HasBegun, EndInv, NoBackend,
       CriticalErrorIsTold, NoEventLost, OneShutdownInv, HostOnly, statusVars
  <2> QED
    BY <2>1, <2>2, <2>3
<1>4. CASE InitializeTimesOut
  <2>1. DeletesInv' /\ deletes' \in 0..(1 + Cardinality(Closers))
    BY <1>4, DeletesKept DEF InitializeTimesOut, Overwrites, HostOnly, statusVars
  <2>2. TypeOK'
    <3>1. session' \in SessionType
      BY <1>4 DEF InitializeTimesOut, Overwrites, TypeOK, SessionType, Errors, HostOnly,
         statusVars
    <3>2. backend' \in BackendType
      BY <1>4 DEF InitializeTimesOut, Overwrites, TypeOK, BackendType, HostOnly, statusVars
    <3>3. host' \in HostType
      BY <1>4 DEF InitializeTimesOut, Overwrites, TypeOK, HostType, Errors, HostOnly,
         statusVars
    <3>4. worker' \in WorkerPlaces /\ main' \in MainPlaces /\ mainFailed' \in BOOLEAN
          /\ overwritten' \in BOOLEAN
      BY <1>4 DEF InitializeTimesOut, Overwrites, TypeOK, WorkerPlaces, MainPlaces,
         HostOnly,
         statusVars
    <3>5. closer' = closer /\ UNCHANGED statusVars
      BY <1>4 DEF InitializeTimesOut, Overwrites, HostOnly, statusVars
    <3> QED
      BY <2>1, <3>1, <3>2, <3>3, <3>4, <3>5 DEF TypeOK, SessionType, BackendType,
         HostType,
         WorkerPlaces, MainPlaces, statusVars
  <2>3. BeforeInv' /\ PlaceInv' /\ EndInv' /\ CriticalErrorIsTold' /\ OneShutdownInv'
    BY <1>4 DEF InitializeTimesOut, Overwrites, TypeOK, BeforeInv, PlaceInv, HasBegun,
       EndInv, NoBackend,
       CriticalErrorIsTold, NoEventLost, OneShutdownInv, HostOnly, statusVars
  <2> QED
    BY <2>1, <2>2, <2>3
<1>5. CASE InitializeFails
  <2>1. DeletesInv' /\ deletes' \in 0..(1 + Cardinality(Closers))
    BY <1>5, DeletesKept DEF InitializeFails, WaitIsOver, HostOnly, statusVars, TypeOK,
       BeforeInv,
       Errors
  <2>2. TypeOK'
    BY <1>5, <2>1 DEF InitializeFails, WaitIsOver, TypeOK, Errors, HostOnly, statusVars
  <2>3. BeforeInv' /\ PlaceInv' /\ EndInv' /\ CriticalErrorIsTold' /\ OneShutdownInv'
    BY <1>5 DEF InitializeFails, WaitIsOver, TypeOK, BeforeInv, PlaceInv, HasBegun,
       EndInv, NoBackend,
       CriticalErrorIsTold, NoEventLost, OneShutdownInv, HostOnly, statusVars, Errors
  <2> QED
    BY <2>1, <2>2, <2>3
<1>6. CASE InitializeSucceeds
  <2>1. DeletesInv' /\ deletes' \in 0..(1 + Cardinality(Closers))
    BY <1>6, DeletesKept DEF InitializeSucceeds, WaitIsOver, HostOnly, NoClear
  <2>2. TypeOK'
    BY <1>6, <2>1, NotifyLemma, SomeEvents DEF InitializeSucceeds, WaitIsOver, TypeOK,
       Errors,
       HostOnly, NoClear
  <2>3. BeforeInv' /\ PlaceInv' /\ EndInv' /\ CriticalErrorIsTold' /\ OneShutdownInv'
    BY <1>6, NotifyLemma, SomeEvents DEF InitializeSucceeds, WaitIsOver, TypeOK, BeforeInv,
       PlaceInv, HasBegun, EndInv, NoBackend, CriticalErrorIsTold, NoEventLost,
       OneShutdownInv,
       HostOnly, NoClear
  <2> QED
    BY <2>1, <2>2, <2>3
<1>7. CASE InitializeWakesEarly
  <2>1. DeletesInv' /\ deletes' \in 0..(1 + Cardinality(Closers))
    BY <1>7, DeletesKept DEF InitializeWakesEarly, HostOnly, statusVars
  <2>2. TypeOK'
    BY <1>7, <2>1 DEF InitializeWakesEarly, TypeOK, Errors, HostOnly, statusVars
  <2>3. BeforeInv' /\ PlaceInv' /\ EndInv' /\ CriticalErrorIsTold' /\ OneShutdownInv'
    BY <1>7 DEF InitializeWakesEarly, TypeOK, BeforeInv, PlaceInv, HasBegun, EndInv,
       NoBackend, CriticalErrorIsTold, NoEventLost, OneShutdownInv, HostOnly, statusVars
  <2> QED
    BY <2>1, <2>2, <2>3
<1> QED
  BY <1>1, <1>2, <1>3, <1>4, <1>5, <1>6, <1>7

LEMMA WorkerKeeps ==
  ASSUME Life, UNCHANGED caller, worker # "aborted",
         Startup \/ StartupFails \/ PovrayInit \/ PovrayInitSees \/ PovrayInitReturns
         \/ NewFrontend \/ BackendState \/ NotifyInitialize \/ Loop \/ LeaveLoop
         \/ CriticalError \/ CriticalErrorTold \/ DeleteFrontend \/ ForgetFrontend \/ PovrayTerminate
         \/ WorkerEnds
  PROVE  Life'
<1> USE DEF Life
<1>1. CASE Startup
  <2>1. DeletesInv' /\ deletes' \in 0..(1 + Cardinality(Closers))
    BY <1>1, DeletesKept DEF Startup, WorkerOnly, WorkerGoes, Notified, statusVars
  <2>2. TypeOK'
    BY <1>1, <2>1 DEF Startup, TypeOK, Errors, WorkerOnly, WorkerGoes, Notified,
       statusVars
  <2>3. BeforeInv' /\ PlaceInv' /\ EndInv' /\ CriticalErrorIsTold' /\ OneShutdownInv'
    BY <1>1 DEF Startup, TypeOK, BeforeInv, PlaceInv, HasBegun, EndInv, NoBackend,
       CriticalErrorIsTold, NoEventLost, OneShutdownInv, WorkerOnly, WorkerGoes,
       Notified, statusVars
  <2> QED
    BY <2>1, <2>2, <2>3
<1>2. CASE StartupFails
  <2>1. DeletesInv' /\ deletes' \in 0..(1 + Cardinality(Closers))
    BY <1>2, DeletesKept DEF StartupFails, WorkerOnly, WorkerGoes, Notified, statusVars
  <2>2. TypeOK'
    BY <1>2, <2>1 DEF StartupFails, TypeOK, Errors, WorkerOnly, WorkerGoes, Notified,
       statusVars
  <2>3. BeforeInv' /\ PlaceInv' /\ EndInv' /\ CriticalErrorIsTold' /\ OneShutdownInv'
    BY <1>2 DEF StartupFails, TypeOK, BeforeInv, PlaceInv, HasBegun, EndInv, NoBackend,
       CriticalErrorIsTold, NoEventLost, OneShutdownInv, WorkerOnly, WorkerGoes,
       Notified, statusVars
  <2> QED
    BY <2>1, <2>2, <2>3
<1>3. CASE PovrayInit
  <2>1. DeletesInv' /\ deletes' \in 0..(1 + Cardinality(Closers))
    BY <1>3, DeletesKept DEF PovrayInit, WorkerOnly, WorkerGoes, Notified, statusVars
  <2>2. TypeOK'
    <3>1. session' \in SessionType
      BY <1>3 DEF PovrayInit, TypeOK, SessionType, Errors, WorkerOnly, WorkerGoes,
         Notified, statusVars
    <3>2. backend' \in BackendType
      BY <1>3 DEF PovrayInit, TypeOK, BackendType, WorkerOnly, WorkerGoes, Notified,
         statusVars
    <3>3. host' \in HostType
      BY <1>3 DEF PovrayInit, TypeOK, HostType, Errors, WorkerOnly, WorkerGoes,
         Notified, statusVars
    <3>4. worker' \in WorkerPlaces /\ main' \in MainPlaces /\ mainFailed' \in BOOLEAN
          /\ overwritten' \in BOOLEAN
      BY <1>3 DEF PovrayInit, TypeOK, WorkerPlaces, MainPlaces, WorkerOnly, WorkerGoes,
         Notified, statusVars
    <3>5. closer' = closer /\ UNCHANGED statusVars
      BY <1>3 DEF PovrayInit, WorkerOnly, WorkerGoes, Notified, statusVars
    <3> QED
      BY <2>1, <3>1, <3>2, <3>3, <3>4, <3>5 DEF TypeOK, SessionType, BackendType,
         HostType,
         WorkerPlaces, MainPlaces, statusVars
  <2>3. BeforeInv' /\ PlaceInv' /\ EndInv' /\ CriticalErrorIsTold' /\ OneShutdownInv'
    BY <1>3 DEF PovrayInit, TypeOK, BeforeInv, PlaceInv, HasBegun, EndInv, NoBackend,
       CriticalErrorIsTold, NoEventLost, OneShutdownInv, WorkerOnly, WorkerGoes,
       Notified, statusVars
  <2> QED
    BY <2>1, <2>2, <2>3
<1>4. CASE PovrayInitSees
  <2>1. DeletesInv' /\ deletes' \in 0..(1 + Cardinality(Closers))
    BY <1>4, DeletesKept DEF PovrayInitSees, WorkerOnly, WorkerGoes, Notified, statusVars
  <2>2. TypeOK'
    BY <1>4, <2>1 DEF PovrayInitSees, TypeOK, Errors, WorkerOnly, WorkerGoes, Notified,
       statusVars
  <2>3. BeforeInv' /\ PlaceInv' /\ EndInv' /\ CriticalErrorIsTold' /\ OneShutdownInv'
    BY <1>4 DEF PovrayInitSees, TypeOK, BeforeInv, PlaceInv, HasBegun, EndInv, NoBackend,
       CriticalErrorIsTold, NoEventLost, OneShutdownInv, WorkerOnly, WorkerGoes,
       Notified, statusVars
  <2> QED
    BY <2>1, <2>2, <2>3
<1>5. CASE PovrayInitReturns
  <2>1. DeletesInv' /\ deletes' \in 0..(1 + Cardinality(Closers))
    BY <1>5, DeletesKept DEF PovrayInitReturns, WorkerOnly, WorkerGoes, Notified,
       statusVars
  <2>2. TypeOK'
    BY <1>5, <2>1 DEF PovrayInitReturns, TypeOK, Errors, WorkerOnly, WorkerGoes,
       Notified, statusVars
  <2>3. BeforeInv' /\ PlaceInv' /\ EndInv' /\ CriticalErrorIsTold' /\ OneShutdownInv'
    BY <1>5 DEF PovrayInitReturns, TypeOK, BeforeInv, PlaceInv, HasBegun, EndInv, NoBackend,
       CriticalErrorIsTold, NoEventLost, OneShutdownInv, WorkerOnly, WorkerGoes,
       Notified, statusVars
  <2> QED
    BY <2>1, <2>2, <2>3
<1>6. CASE NewFrontend
  <2>1. DeletesInv' /\ deletes' \in 0..(1 + Cardinality(Closers))
    BY <1>6, DeletesKept DEF NewFrontend, WorkerOnly, WorkerGoes, Notified, statusVars
  <2>2. TypeOK'
    BY <1>6, <2>1 DEF NewFrontend, TypeOK, Errors, WorkerOnly, WorkerGoes, Notified,
       statusVars
  <2>3. BeforeInv' /\ PlaceInv' /\ EndInv' /\ CriticalErrorIsTold' /\ OneShutdownInv'
    BY <1>6 DEF NewFrontend, TypeOK, BeforeInv, PlaceInv, HasBegun, EndInv, NoBackend,
       CriticalErrorIsTold, NoEventLost, OneShutdownInv, WorkerOnly, WorkerGoes,
       Notified, statusVars
  <2> QED
    BY <2>1, <2>2, <2>3
<1>7. CASE BackendState
  <2>1. DeletesInv' /\ deletes' \in 0..(1 + Cardinality(Closers))
    BY <1>7, DeletesKept DEF BackendState, WorkerOnly, WorkerGoes, Notified, statusVars
  <2>2. TypeOK'
    BY <1>7, <2>1 DEF BackendState, TypeOK, Errors, WorkerOnly, WorkerGoes, Notified,
       statusVars
  <2>3. BeforeInv' /\ PlaceInv' /\ EndInv' /\ CriticalErrorIsTold' /\ OneShutdownInv'
    BY <1>7 DEF BackendState, TypeOK, BeforeInv, PlaceInv, HasBegun, EndInv, NoBackend,
       CriticalErrorIsTold, NoEventLost, OneShutdownInv, WorkerOnly, WorkerGoes,
       Notified, statusVars
  <2> QED
    BY <2>1, <2>2, <2>3
<1>8. CASE NotifyInitialize
  <2>1. DeletesInv' /\ deletes' \in 0..(1 + Cardinality(Closers))
    BY <1>8, DeletesKept DEF NotifyInitialize, WorkerOnly, WorkerGoes, Notified,
       statusVars
  <2>2. TypeOK'
    BY <1>8, <2>1 DEF NotifyInitialize, TypeOK, Errors, WorkerOnly, WorkerGoes,
       Notified, statusVars
  <2>3. BeforeInv' /\ PlaceInv' /\ EndInv' /\ CriticalErrorIsTold' /\ OneShutdownInv'
    BY <1>8 DEF NotifyInitialize, TypeOK, BeforeInv, PlaceInv, HasBegun, EndInv, NoBackend,
       CriticalErrorIsTold, NoEventLost, OneShutdownInv, WorkerOnly, WorkerGoes,
       Notified, statusVars
  <2> QED
    BY <2>1, <2>2, <2>3
<1>9. CASE Loop
  <2>1. DeletesInv' /\ deletes' \in 0..(1 + Cardinality(Closers))
    BY <1>9, DeletesKept DEF Loop, WorkerOnly, WorkerGoes, Notified
  <2>2. TypeOK'
    BY <1>9, <2>1, NotifyLemma, SomeEvents DEF Loop, TypeOK, Errors, WorkerOnly,
       WorkerGoes, Notified
  <2>3. BeforeInv' /\ PlaceInv' /\ EndInv' /\ CriticalErrorIsTold' /\ OneShutdownInv'
    BY <1>9, NotifyLemma, SomeEvents DEF Loop, TypeOK, BeforeInv, PlaceInv, HasBegun,
       EndInv, NoBackend, CriticalErrorIsTold, NoEventLost, OneShutdownInv, WorkerOnly,
       WorkerGoes,
       Notified
  <2> QED
    BY <2>1, <2>2, <2>3
<1>10. CASE LeaveLoop
  <2>1. DeletesInv' /\ deletes' \in 0..(1 + Cardinality(Closers))
    BY <1>10, DeletesKept DEF LeaveLoop, WorkerOnly, WorkerGoes, Notified, statusVars
  <2>2. TypeOK'
    BY <1>10, <2>1 DEF LeaveLoop, TypeOK, Errors, WorkerOnly, WorkerGoes, Notified,
       statusVars
  <2>3. BeforeInv' /\ PlaceInv' /\ EndInv' /\ CriticalErrorIsTold' /\ OneShutdownInv'
    BY <1>10 DEF LeaveLoop, TypeOK, BeforeInv, PlaceInv, HasBegun, EndInv, NoBackend,
       CriticalErrorIsTold, NoEventLost, OneShutdownInv, WorkerOnly, WorkerGoes,
       Notified, statusVars
  <2> QED
    BY <2>1, <2>2, <2>3
<1>11. CASE CriticalError
  <2>1. DeletesInv' /\ deletes' \in 0..(1 + Cardinality(Closers))
    BY <1>11, DeletesKept DEF CriticalError, WorkerOnly, WorkerGoes, Notified, statusVars
  <2>2. TypeOK'
    <3>1. session' \in SessionType
      BY <1>11 DEF CriticalError, TypeOK, SessionType, Errors, WorkerOnly, WorkerGoes,
         Notified, statusVars
    <3>2. backend' \in BackendType
      BY <1>11 DEF CriticalError, TypeOK, BackendType, WorkerOnly, WorkerGoes, Notified,
         statusVars
    <3>3. host' \in HostType
      BY <1>11 DEF CriticalError, TypeOK, HostType, Errors, WorkerOnly, WorkerGoes,
         Notified, statusVars
    <3>4. worker' \in WorkerPlaces /\ main' \in MainPlaces /\ mainFailed' \in BOOLEAN
          /\ overwritten' \in BOOLEAN
      BY <1>11 DEF CriticalError, TypeOK, WorkerPlaces, MainPlaces, WorkerOnly,
         WorkerGoes, Notified, statusVars
    <3>5. closer' = closer /\ UNCHANGED statusVars
      BY <1>11 DEF CriticalError, WorkerOnly, WorkerGoes, Notified, statusVars
    <3> QED
      BY <2>1, <3>1, <3>2, <3>3, <3>4, <3>5 DEF TypeOK, SessionType, BackendType,
         HostType,
         WorkerPlaces, MainPlaces, statusVars
  <2>3. BeforeInv' /\ PlaceInv' /\ EndInv' /\ CriticalErrorIsTold' /\ OneShutdownInv'
    BY <1>11 DEF CriticalError, TypeOK, BeforeInv, PlaceInv, HasBegun, EndInv, NoBackend,
       CriticalErrorIsTold, NoEventLost, OneShutdownInv, WorkerOnly, WorkerGoes,
       Notified, statusVars
  <2> QED
    BY <2>1, <2>2, <2>3
<1>12. CASE CriticalErrorTold
  <2>1. DeletesInv' /\ deletes' \in 0..(1 + Cardinality(Closers))
    BY <1>12, DeletesKept DEF CriticalErrorTold, WorkerOnly, WorkerGoes, Notified,
       NoClear, statusVars
  <2>2. TypeOK'
    BY <1>12, <2>1, NotifyLemma, SomeEvents DEF CriticalErrorTold, TypeOK, Errors,
       WorkerOnly, WorkerGoes, Notified, NoClear, statusVars
  <2>3. BeforeInv' /\ PlaceInv' /\ EndInv' /\ CriticalErrorIsTold' /\ OneShutdownInv'
    BY <1>12, NotifyLemma, SomeEvents DEF CriticalErrorTold, TypeOK, BeforeInv,
       PlaceInv, HasBegun, EndInv, NoBackend, CriticalErrorIsTold, NoEventLost,
       OneShutdownInv,
       WorkerOnly, WorkerGoes, Notified, NoClear, statusVars
  <2> QED
    BY <2>1, <2>2, <2>3
<1>13. CASE DeleteFrontend
  <2>1. DeletesInv' /\ deletes' \in 0..(1 + Cardinality(Closers))
    BY <1>13, DeletesKept DEF DeleteFrontend, WorkerOnly, WorkerGoes, Notified, statusVars
  <2>2. TypeOK'
    BY <1>13, <2>1 DEF DeleteFrontend, TypeOK, Errors, WorkerOnly, WorkerGoes, Notified,
       statusVars
  <2>3. BeforeInv' /\ PlaceInv' /\ EndInv' /\ CriticalErrorIsTold' /\ OneShutdownInv'
    BY <1>13 DEF DeleteFrontend, TypeOK, BeforeInv, PlaceInv, HasBegun, EndInv, NoBackend,
       CriticalErrorIsTold, NoEventLost, OneShutdownInv, WorkerOnly, WorkerGoes,
       Notified, statusVars
  <2> QED
    BY <2>1, <2>2, <2>3
<1>14. CASE ForgetFrontend
  <2>1. DeletesInv' /\ deletes' \in 0..(1 + Cardinality(Closers))
    BY <1>14, DeletesKept DEF ForgetFrontend, WorkerOnly, WorkerGoes, Notified, statusVars
  <2>2. TypeOK'
    <3>1. session' \in SessionType
      BY <1>14 DEF ForgetFrontend, TypeOK, SessionType, Errors, WorkerOnly, WorkerGoes,
         Notified, statusVars
    <3>2. backend' \in BackendType
      BY <1>14 DEF ForgetFrontend, TypeOK, BackendType, WorkerOnly, WorkerGoes,
         Notified, statusVars
    <3>3. host' \in HostType
      BY <1>14 DEF ForgetFrontend, TypeOK, HostType, Errors, WorkerOnly, WorkerGoes,
         Notified, statusVars
    <3>4. worker' \in WorkerPlaces /\ main' \in MainPlaces /\ mainFailed' \in BOOLEAN
          /\ overwritten' \in BOOLEAN
      BY <1>14 DEF ForgetFrontend, TypeOK, WorkerPlaces, MainPlaces, WorkerOnly,
         WorkerGoes, Notified, statusVars
    <3>5. closer' = closer /\ UNCHANGED statusVars
      BY <1>14 DEF ForgetFrontend, WorkerOnly, WorkerGoes, Notified, statusVars
    <3> QED
      BY <2>1, <3>1, <3>2, <3>3, <3>4, <3>5 DEF TypeOK, SessionType, BackendType,
         HostType,
         WorkerPlaces, MainPlaces, statusVars
  <2>3. BeforeInv' /\ PlaceInv' /\ EndInv' /\ CriticalErrorIsTold' /\ OneShutdownInv'
    BY <1>14 DEF ForgetFrontend, TypeOK, BeforeInv, PlaceInv, HasBegun, EndInv, NoBackend,
       CriticalErrorIsTold, NoEventLost, OneShutdownInv, WorkerOnly, WorkerGoes,
       Notified, statusVars
  <2> QED
    BY <2>1, <2>2, <2>3
<1>15. CASE PovrayTerminate
  <2>1. DeletesInv' /\ deletes' \in 0..(1 + Cardinality(Closers))
    BY <1>15, DeletesKept DEF PovrayTerminate, WorkerOnly, WorkerGoes, Notified,
       statusVars
  <2>2. TypeOK'
    <3>1. session' \in SessionType
      BY <1>15 DEF PovrayTerminate, TypeOK, SessionType, Errors, WorkerOnly, WorkerGoes,
         Notified, statusVars
    <3>2. backend' \in BackendType
      BY <1>15 DEF PovrayTerminate, TypeOK, BackendType, WorkerOnly, WorkerGoes,
         Notified, statusVars
    <3>3. host' \in HostType
      BY <1>15 DEF PovrayTerminate, TypeOK, HostType, Errors, WorkerOnly, WorkerGoes,
         Notified, statusVars
    <3>4. worker' \in WorkerPlaces /\ main' \in MainPlaces /\ mainFailed' \in BOOLEAN
          /\ overwritten' \in BOOLEAN
      BY <1>15 DEF PovrayTerminate, TypeOK, WorkerPlaces, MainPlaces, WorkerOnly,
         WorkerGoes, Notified, statusVars
    <3>5. closer' = closer /\ UNCHANGED statusVars
      BY <1>15 DEF PovrayTerminate, WorkerOnly, WorkerGoes, Notified, statusVars
    <3> QED
      BY <2>1, <3>1, <3>2, <3>3, <3>4, <3>5 DEF TypeOK, SessionType, BackendType,
         HostType,
         WorkerPlaces, MainPlaces, statusVars
  <2>3. BeforeInv' /\ PlaceInv' /\ EndInv' /\ CriticalErrorIsTold' /\ OneShutdownInv'
    BY <1>15 DEF PovrayTerminate, TypeOK, BeforeInv, PlaceInv, HasBegun, EndInv, NoBackend,
       CriticalErrorIsTold, NoEventLost, OneShutdownInv, WorkerOnly, WorkerGoes,
       Notified, statusVars
  <2> QED
    BY <2>1, <2>2, <2>3
<1>16. CASE WorkerEnds
  <2>1. DeletesInv' /\ deletes' \in 0..(1 + Cardinality(Closers))
    BY <1>16, DeletesKept DEF WorkerEnds, WorkerOnly, WorkerGoes, Notified, statusVars
  <2>2. TypeOK'
    BY <1>16, <2>1 DEF WorkerEnds, TypeOK, Errors, WorkerOnly, WorkerGoes, Notified,
       statusVars
  <2>3. BeforeInv' /\ PlaceInv' /\ EndInv' /\ CriticalErrorIsTold' /\ OneShutdownInv'
    BY <1>16 DEF WorkerEnds, TypeOK, BeforeInv, PlaceInv, HasBegun, EndInv, NoBackend,
       CriticalErrorIsTold, NoEventLost, OneShutdownInv, WorkerOnly, WorkerGoes,
       Notified, statusVars
  <2> QED
    BY <2>1, <2>2, <2>3
<1> QED
  BY <1>1, <1>2, <1>3, <1>4, <1>5, <1>6, <1>7, <1>8, <1>9, <1>10, <1>11, <1>12, <1>13,
     <1>14, <1>15, <1>16

LEMMA MainKeeps ==
  ASSUME Life, UNCHANGED caller, worker # "aborted",
         MainOpensContext \/ MainStarts \/ MainLeaves \/ SetExited \/ TestFrontend
         \/ InvalidateBackend \/ MainEnds
  PROVE  Life'
<1> USE DEF Life
<1>1. CASE MainOpensContext
  <2>1. DeletesInv' /\ deletes' \in 0..(1 + Cardinality(Closers))
    BY <1>1, DeletesKept DEF MainOpensContext, MainOnly, statusVars
  <2>2. TypeOK'
    <3>1. session' \in SessionType
      BY <1>1 DEF MainOpensContext, TypeOK, SessionType, Errors, MainOnly, statusVars
    <3>2. backend' \in BackendType
      BY <1>1 DEF MainOpensContext, TypeOK, BackendType, MainOnly, statusVars
    <3>3. host' \in HostType
      BY <1>1 DEF MainOpensContext, TypeOK, HostType, Errors, MainOnly, statusVars
    <3>4. worker' \in WorkerPlaces /\ main' \in MainPlaces /\ mainFailed' \in BOOLEAN
          /\ overwritten' \in BOOLEAN
      BY <1>1 DEF MainOpensContext, TypeOK, WorkerPlaces, MainPlaces, MainOnly, statusVars
    <3>5. closer' = closer /\ UNCHANGED statusVars
      BY <1>1 DEF MainOpensContext, MainOnly, statusVars
    <3> QED
      BY <2>1, <3>1, <3>2, <3>3, <3>4, <3>5 DEF TypeOK, SessionType, BackendType,
         HostType,
         WorkerPlaces, MainPlaces, statusVars
  <2>3. BeforeInv' /\ PlaceInv' /\ EndInv' /\ CriticalErrorIsTold' /\ OneShutdownInv'
    BY <1>1 DEF MainOpensContext, TypeOK, BeforeInv, PlaceInv, HasBegun, EndInv, NoBackend,
       CriticalErrorIsTold, NoEventLost, OneShutdownInv, MainOnly, statusVars
  <2> QED
    BY <2>1, <2>2, <2>3
<1>2. CASE MainStarts
  <2>1. DeletesInv' /\ deletes' \in 0..(1 + Cardinality(Closers))
    BY <1>2, DeletesKept DEF MainStarts, MainOnly, statusVars
  <2>2. TypeOK'
    <3>1. session' \in SessionType
      BY <1>2 DEF MainStarts, TypeOK, SessionType, Errors, MainOnly, statusVars
    <3>2. backend' \in BackendType
      BY <1>2 DEF MainStarts, TypeOK, BackendType, MainOnly, statusVars
    <3>3. host' \in HostType
      BY <1>2 DEF MainStarts, TypeOK, HostType, Errors, MainOnly, statusVars
    <3>4. worker' \in WorkerPlaces /\ main' \in MainPlaces /\ mainFailed' \in BOOLEAN
          /\ overwritten' \in BOOLEAN
      BY <1>2 DEF MainStarts, TypeOK, WorkerPlaces, MainPlaces, MainOnly, statusVars
    <3>5. closer' = closer /\ UNCHANGED statusVars
      BY <1>2 DEF MainStarts, MainOnly, statusVars
    <3> QED
      BY <2>1, <3>1, <3>2, <3>3, <3>4, <3>5 DEF TypeOK, SessionType, BackendType,
         HostType,
         WorkerPlaces, MainPlaces, statusVars
  <2>3. BeforeInv' /\ PlaceInv' /\ EndInv' /\ CriticalErrorIsTold' /\ OneShutdownInv'
    BY <1>2 DEF MainStarts, TypeOK, BeforeInv, PlaceInv, HasBegun, EndInv, NoBackend,
       CriticalErrorIsTold, NoEventLost, OneShutdownInv, MainOnly, statusVars
  <2> QED
    BY <2>1, <2>2, <2>3
<1>3. CASE MainLeaves
  <2>1. DeletesInv' /\ deletes' \in 0..(1 + Cardinality(Closers))
    BY <1>3, DeletesKept DEF MainLeaves, MainOnly, statusVars
  <2>2. TypeOK'
    BY <1>3, <2>1 DEF MainLeaves, TypeOK, Errors, MainOnly, statusVars
  <2>3. BeforeInv' /\ PlaceInv' /\ EndInv' /\ CriticalErrorIsTold' /\ OneShutdownInv'
    BY <1>3 DEF MainLeaves, TypeOK, BeforeInv, PlaceInv, HasBegun, EndInv, NoBackend,
       CriticalErrorIsTold, NoEventLost, OneShutdownInv, MainOnly, statusVars
  <2> QED
    BY <2>1, <2>2, <2>3
<1>4. CASE SetExited
  <2>1. DeletesInv' /\ deletes' \in 0..(1 + Cardinality(Closers))
    BY <1>4, DeletesKept DEF SetExited, MainOnly, statusVars
  <2>2. TypeOK'
    <3>1. session' \in SessionType
      BY <1>4 DEF SetExited, TypeOK, SessionType, Errors, MainOnly, statusVars
    <3>2. backend' \in BackendType
      BY <1>4 DEF SetExited, TypeOK, BackendType, MainOnly, statusVars
    <3>3. host' \in HostType
      BY <1>4 DEF SetExited, TypeOK, HostType, Errors, MainOnly, statusVars
    <3>4. worker' \in WorkerPlaces /\ main' \in MainPlaces /\ mainFailed' \in BOOLEAN
          /\ overwritten' \in BOOLEAN
      BY <1>4 DEF SetExited, TypeOK, WorkerPlaces, MainPlaces, MainOnly, statusVars
    <3>5. closer' = closer /\ UNCHANGED statusVars
      BY <1>4 DEF SetExited, MainOnly, statusVars
    <3> QED
      BY <2>1, <3>1, <3>2, <3>3, <3>4, <3>5 DEF TypeOK, SessionType, BackendType,
         HostType,
         WorkerPlaces, MainPlaces, statusVars
  <2>3. BeforeInv' /\ PlaceInv' /\ EndInv' /\ CriticalErrorIsTold' /\ OneShutdownInv'
    BY <1>4 DEF SetExited, TypeOK, BeforeInv, PlaceInv, HasBegun, EndInv, NoBackend,
       CriticalErrorIsTold, NoEventLost, OneShutdownInv, MainOnly, statusVars
  <2> QED
    BY <2>1, <2>2, <2>3
<1>5. CASE TestFrontend
  <2>1. DeletesInv' /\ deletes' \in 0..(1 + Cardinality(Closers))
    BY <1>5, DeletesKept DEF TestFrontend, MainOnly, statusVars
  <2>2. TypeOK'
    BY <1>5, <2>1 DEF TestFrontend, TypeOK, Errors, MainOnly, statusVars
  <2>3. BeforeInv' /\ PlaceInv' /\ EndInv' /\ CriticalErrorIsTold' /\ OneShutdownInv'
    BY <1>5 DEF TestFrontend, TypeOK, BeforeInv, PlaceInv, HasBegun, EndInv, NoBackend,
       CriticalErrorIsTold, NoEventLost, OneShutdownInv, MainOnly, statusVars
  <2> QED
    BY <2>1, <2>2, <2>3
<1>6. CASE InvalidateBackend
  <2>1. DeletesInv' /\ deletes' \in 0..(1 + Cardinality(Closers))
    BY <1>6, DeletesKept DEF InvalidateBackend, MainOnly, statusVars
  <2>2. TypeOK'
    BY <1>6, <2>1 DEF InvalidateBackend, TypeOK, Errors, MainOnly, statusVars
  <2>3. BeforeInv' /\ PlaceInv' /\ EndInv' /\ CriticalErrorIsTold' /\ OneShutdownInv'
    BY <1>6 DEF InvalidateBackend, TypeOK, BeforeInv, PlaceInv, HasBegun, EndInv, NoBackend,
       CriticalErrorIsTold, NoEventLost, OneShutdownInv, MainOnly, statusVars
  <2> QED
    BY <2>1, <2>2, <2>3
<1>7. CASE MainEnds
  <2>1. DeletesInv' /\ deletes' \in 0..(1 + Cardinality(Closers))
    BY <1>7, DeletesKept DEF MainEnds, MainOnly, statusVars
  <2>2. TypeOK'
    BY <1>7, <2>1 DEF MainEnds, TypeOK, Errors, MainOnly, statusVars
  <2>3. BeforeInv' /\ PlaceInv' /\ EndInv' /\ CriticalErrorIsTold' /\ OneShutdownInv'
    BY <1>7 DEF MainEnds, TypeOK, BeforeInv, PlaceInv, HasBegun, EndInv, NoBackend,
       CriticalErrorIsTold, NoEventLost, OneShutdownInv, MainOnly, statusVars
  <2> QED
    BY <2>1, <2>2, <2>3
<1> QED
  BY <1>1, <1>2, <1>3, <1>4, <1>5, <1>6, <1>7

LEMMA ReaderKeeps ==
  ASSUME Life, UNCHANGED caller, worker # "aborted",
         GetStatus \/ GetStatusGoesOn
  PROVE  Life'
<1> USE DEF Life
<1>1. CASE GetStatus
  <2>1. DeletesInv' /\ deletes' \in 0..(1 + Cardinality(Closers))
    BY <1>1, DeletesKept DEF GetStatus, Others, statusVars, ReturnFlags, NoClear
  <2>2. TypeOK'
    BY <1>1, <2>1 DEF GetStatus, TypeOK, Errors, Others, statusVars, ReturnFlags, NoClear
  <2>3. BeforeInv' /\ PlaceInv' /\ EndInv' /\ CriticalErrorIsTold' /\ OneShutdownInv'
    BY <1>1 DEF GetStatus, TypeOK, BeforeInv, PlaceInv, HasBegun, EndInv, NoBackend,
       CriticalErrorIsTold, NoEventLost, OneShutdownInv, Others, statusVars,
       ReturnFlags, NoClear
  <2> QED
    BY <2>1, <2>2, <2>3
<1>2. CASE GetStatusGoesOn
  <2>1. DeletesInv' /\ deletes' \in 0..(1 + Cardinality(Closers))
    BY <1>2, DeletesKept DEF GetStatusGoesOn, Others, statusVars, ReturnFlags, NoClear
  <2>2. TypeOK'
    BY <1>2, <2>1 DEF GetStatusGoesOn, TypeOK, Errors, Others, statusVars, ReturnFlags,
       NoClear
  <2>3. BeforeInv' /\ PlaceInv' /\ EndInv' /\ CriticalErrorIsTold' /\ OneShutdownInv'
    BY <1>2 DEF GetStatusGoesOn, TypeOK, BeforeInv, PlaceInv, HasBegun, EndInv, NoBackend,
       CriticalErrorIsTold, NoEventLost, OneShutdownInv, Others, statusVars,
       ReturnFlags, NoClear
  <2> QED
    BY <2>1, <2>2, <2>3
<1> QED
  BY <1>1, <1>2

LEMMA CloserKeeps ==
  ASSUME Life, UNCHANGED caller, NEW c \in Closers,
         Shutdown(c) \/ ShutdownNotifies(c) \/ ShutdownJoins(c) \/ ShutdownDeletes(c)
  PROVE  Life'
<1> USE DEF Life, CloserOnly, CloserGoes
<1>1. CASE Shutdown(c) \/ ShutdownNotifies(c) \/ ShutdownJoins(c)
  <2> USE DEF Shutdown, ShutdownNotifies, ShutdownJoins, Joinable
  <2>1. Returned \subseteq Returned' /\ Returned' \subseteq Closers
    BY <1>1 DEF TypeOK, Returned
  <2>2. Cardinality(Returned) <= Cardinality(Returned') /\ Cardinality(Returned') \in Nat
    BY <2>1, ClosersAssumption, FS_CardinalityType, FS_Subset
  <2>3. DeletesInv' /\ deletes' \in 0..(1 + Cardinality(Closers))
    BY <1>1, <2>2, ReturnedCount DEF DeletesInv, TypeOK
  <2>4. TypeOK'
    <3>1. session' \in SessionType
      <4>1. session \in SessionType
        BY DEF TypeOK, SessionType
      <4>2. session' = session \/ session' = [session EXCEPT !.shutdownRequest = TRUE]
        BY <1>1
      <4> QED
        BY <4>1, <4>2 DEF SessionType
    <3>2. closer' \in [Closers -> {"out", "notify", "join", "joined", "returned"}]
      BY <1>1 DEF TypeOK
    <3>3. /\ flags' \subseteq Events /\ unseen' \subseteq Events
          /\ reader' \in {"out", "waiting", "woken", "ended"}
          /\ reader' = "waiting" => ~Ends(flags')
      BY <1>1, NotifyLemma, SomeEvents DEF TypeOK, statusVars
    <3> QED
      BY <1>1, <2>3, <3>1, <3>2, <3>3 DEF TypeOK, SessionType
  <2>5. CriticalErrorIsTold' /\ BeforeInv'
    BY <1>1, NotifyLemma, SomeEvents DEF TypeOK, BeforeInv, CriticalErrorIsTold,
       NoEventLost, statusVars
  <2>6. PlaceInv' /\ EndInv'
    BY <1>1 DEF TypeOK, PlaceInv, HasBegun, EndInv, NoBackend
  <2>7. OneShutdownInv'
    BY <1>1 DEF TypeOK, BeforeInv, PlaceInv, HasBegun, EndInv, NoBackend, OneShutdownInv
  <2> QED
    BY <2>3, <2>4, <2>5, <2>6, <2>7
<1>2. CASE ShutdownDeletes(c)
  <2> USE DEF ShutdownDeletes
  <2>1. c \notin Returned /\ Returned' = Returned \cup {c}
    BY <1>2 DEF TypeOK, Returned
  <2>2. Cardinality(Returned') = Cardinality(Returned) + 1
        /\ Cardinality(Returned') \in Nat /\ Cardinality(Returned') <= Cardinality(Closers)
    <3>1. IsFiniteSet(Returned) /\ Returned' \subseteq Closers
      BY <2>1, ClosersAssumption, FS_Subset DEF Returned
    <3> QED
      BY <2>1, <3>1, ClosersAssumption, FS_CardinalityType, FS_Subset, FS_AddElement
  <2>3. DeletesInv'
    BY <1>2, <2>2, ReturnedCount DEF DeletesInv, TypeOK
  <2>4. deletes' \in 0..(1 + Cardinality(Closers))
    BY <1>2, <2>2, <2>3, ReturnedCount DEF DeletesInv, TypeOK
  <2>5. TypeOK'
    <3>1. session' \in SessionType
      BY <1>2 DEF TypeOK, SessionType, Errors
    <3> QED
      BY <1>2, <2>4, <3>1 DEF TypeOK, SessionType, statusVars
  <2>6. BeforeInv' /\ PlaceInv' /\ EndInv' /\ CriticalErrorIsTold'
    BY <1>2 DEF TypeOK, BeforeInv, PlaceInv, HasBegun, EndInv, NoBackend,
       CriticalErrorIsTold,
       NoEventLost, statusVars
  <2>7. OneShutdownInv'
    BY <1>2 DEF TypeOK, OneShutdownInv
  <2> QED
    BY <2>3, <2>5, <2>6, <2>7
<1> QED
  BY <1>1, <1>2

(* Who calls has a front end, and what a call leaves in lastError is not    *)
(* what the worker asks for.                                                *)
LEMMA CallerKeeps ==
  ASSUME Life, R!TypeOK,
         \/ \E u \in Users : Call(u) \/ CallStep(u) \/ (R!WakesEarly(u) /\ UNCHANGED vars)
         \/ RequestStep
  PROVE  Life'
<1> USE DEF Life
<1>1. \/ UNCHANGED vars
      \/ /\ host.returned = "noError"
         /\ LastErrorBecomes("requestTimedOut") \/ LastErrorBecomes("none")
  BY DEF Call, CallStep, RequestStep, BeforeInv, R!ReturnExpired, R!ReturnWoken
<1>2. \A v \in Users : caller'[v] = "out" \/ caller[v] # "out" \/ host.returned = "noError"
  BY DEF Call, HasFrontend, CallStep, RequestStep, BeforeInv, R!TypeOK, R!Place, R!Wait,
     R!TimeIsUp, R!WakesEarly,
     R!ReturnExpired, R!ReturnWoken, R!WorkerStep, R!SeeRequest, R!TakeRequest,
     R!ClearRequest,
     R!CarryOut, R!Notify
<1>3. host' = host
  BY <1>1 DEF vars, LastErrorBecomes
<1>4. CASE UNCHANGED vars
  <2>1. TypeOK' /\ PlaceInv' /\ EndInv' /\ CriticalErrorIsTold' /\ DeletesInv' /\ OneShutdownInv'
    BY <1>4 DEF vars, TypeOK, Ends, PlaceInv, HasBegun, EndInv, NoBackend,
       CriticalErrorIsTold,
       NoEventLost, DeletesInv,
       Returned, OneShutdownInv
  <2>2. BeforeInv'
    BY <1>2, <1>4 DEF vars, BeforeInv
  <2> QED
    BY <2>1, <2>2
<1>5. CASE /\ host.returned = "noError"
           /\ LastErrorBecomes("requestTimedOut") \/ LastErrorBecomes("none")
  <2>1. /\ host.returned = "noError" /\ overwritten' = (overwritten \/ worker = "draining")
        /\ UNCHANGED <<backend, host, worker, main, closer, deletes, mainFailed, reader,
                       flags, unseen>>
    BY <1>5 DEF LastErrorBecomes, Overwrites, statusVars
  <2>2. session' \in SessionType
    BY <1>5 DEF LastErrorBecomes, TypeOK, SessionType, Errors
  <2>3. \A f \in {"initialized", "backendState", "shutdownRequest", "backendExited",
                  "hadCriticalError", "frontend", "workerThread"} :
          session'[f] = session[f]
    BY <1>5 DEF LastErrorBecomes, TypeOK
  <2>4. /\ session.initialized' = session.initialized
        /\ session.backendState' = session.backendState
        /\ session.shutdownRequest' = session.shutdownRequest
        /\ session.hadCriticalError' = session.hadCriticalError
        /\ session.frontend' = session.frontend
        /\ session.workerThread' = session.workerThread
    BY <2>3
  <2>5. TypeOK'
    <3>1. overwritten' \in BOOLEAN
      BY <2>1, Zenon DEF TypeOK
    <3>2. (reader = "waiting" => ~Ends(flags))'
      BY <2>1, Zenon DEF TypeOK, Ends
    <3>3. /\ (backend \in [context : {"null", "open"}, mainThread : {"null", "live"},
                           terminate : BOOLEAN])'
          /\ UNCHANGED <<host, worker, main, closer, reader, flags, unseen, deletes, mainFailed>>
      BY <2>1 DEF TypeOK
    <3> QED
      BY <2>2, <3>1, <3>2, <3>3 DEF TypeOK, SessionType
  <2>6. worker # "none"
    BY <2>1 DEF BeforeInv
  <2>7. BeforeInv'
    BY <2>1, <2>4, <2>6 DEF BeforeInv
  <2>8. PlaceInv'
    BY <2>1, <2>4, <2>6 DEF BeforeInv, PlaceInv
  <2>9. EndInv'
    BY <2>1, <2>4 DEF EndInv, NoBackend
  <2>10. CriticalErrorIsTold'
    BY <2>1, <2>4 DEF CriticalErrorIsTold, NoEventLost
  <2>11. DeletesInv' /\ OneShutdownInv'
    BY <2>1, <2>4 DEF DeletesInv, Returned, OneShutdownInv
  <2> QED
    BY <2>5, <2>7, <2>8, <2>9, <2>10, <2>11
<1> QED
  BY <1>1, <1>4, <1>5

-----------------------------------------------------------------------------
(* The session: requests and life, and the worker is at the top of its      *)
(* iteration when it is not in its loop.                                    *)
AtTopInv == worker # "loop" => AtTheTop
IInv == Requests /\ Life /\ AtTopInv

LEMMA InitInv == SessionInit => IInv
BY RequestsInit, LifeInit DEF SessionInit, IInv, AtTopInv, AtTheTop, R!Init

LEMMA NextInv == IInv /\ [SessionNext]_allVars => IInv'
<1> SUFFICES ASSUME IInv, [SessionNext]_allVars PROVE IInv'
  OBVIOUS
<1> USE DEF IInv
<1>1. CASE UNCHANGED allVars
  <2>1. Requests'
    BY <1>1, RequestsStep DEF allVars
  <2>2. Life'
    <3>1. TypeOK' /\ PlaceInv' /\ EndInv' /\ CriticalErrorIsTold' /\ DeletesInv' /\ OneShutdownInv'
      BY <1>1 DEF allVars, vars, Life, TypeOK, Ends, PlaceInv, HasBegun, EndInv, NoBackend,
         CriticalErrorIsTold,
         NoEventLost, DeletesInv, Returned, OneShutdownInv
    <3>2. BeforeInv'
      BY <1>1 DEF allVars, vars, requestVars, Life, BeforeInv
    <3> QED
      BY <3>1, <3>2 DEF Life
  <2>3. AtTopInv'
    BY <1>1 DEF allVars, vars, requestVars, AtTopInv, AtTheTop
  <2> QED
    BY <2>1, <2>2, <2>3
<1>2. ASSUME worker # "aborted", UNCHANGED requestVars,
             \/ Initialize \/ HostStep \/ InitializeTimesOut \/ InitializeWakesEarly
             \/ WorkerStep \/ MainStep \/ GetStatus \/ GetStatusGoesOn
             \/ \E c \in Closers : Shutdown(c) \/ ShutdownStep(c)
      PROVE  IInv'
  <2>1. Requests'
    BY <1>2, RequestsStep
  <2>2. UNCHANGED caller /\ UNCHANGED request
    BY <1>2 DEF requestVars
  <2>3. Life' /\ (worker = "loop" => worker' = "loop")
    <3>1. CASE Initialize \/ HostStep \/ InitializeTimesOut \/ InitializeWakesEarly
      <4>1. worker = "loop" => worker' = "loop"
        BY <3>1 DEF HostStep, Initialize, LookAtState, WaitForWorker,
           InitializeTimesOut, InitializeFails, InitializeWakesEarly, HostOnly,
           InitializeSucceeds, Life, BeforeInv
      <4> QED
        BY <1>2, <2>2, <3>1, <4>1, HostKeeps DEF HostStep
    <3>2. CASE WorkerStep
      <4>1. worker # "loop"
        BY <3>2 DEF WorkerStep, Startup, StartupFails, PovrayInit, PovrayInitSees,
           PovrayInitReturns, NewFrontend,
           BackendState, NotifyInitialize, CriticalErrorTold, DeleteFrontend,
           ForgetFrontend, PovrayTerminate,
           WorkerEnds
      <4> QED
        BY <1>2, <2>2, <3>2, <4>1, WorkerKeeps DEF WorkerStep
    <3>3. CASE MainStep
      <4>1. worker' = worker
        BY <3>3 DEF MainStep, MainOpensContext, MainStarts, MainLeaves, SetExited,
           TestFrontend,
           InvalidateBackend, MainEnds, MainOnly
      <4> QED
        BY <1>2, <2>2, <3>3, <4>1, MainKeeps DEF MainStep
    <3>4. CASE GetStatus \/ GetStatusGoesOn
      <4>1. worker' = worker
        BY <3>4 DEF GetStatus, GetStatusGoesOn, Others
      <4> QED
        BY <1>2, <2>2, <3>4, <4>1, ReaderKeeps
    <3>5. CASE \E c \in Closers : Shutdown(c) \/ ShutdownStep(c)
      <4>1. worker' = worker
        BY <3>5 DEF ShutdownStep, Shutdown, ShutdownNotifies, ShutdownJoins,
           ShutdownDeletes, CloserOnly
      <4> QED
        BY <2>2, <3>5, <4>1, CloserKeeps DEF ShutdownStep
    <3> QED
      BY <1>2, <3>1, <3>2, <3>3, <3>4, <3>5
  <2> QED
    BY <2>1, <2>2, <2>3 DEF AtTopInv, AtTheTop
<1>3. CASE worker # "aborted" /\ LoopStep
  BY <1>3, RequestsStep, WorkerKeeps DEF LoopStep, AtTopInv, AtTheTop, requestVars
<1>4. CASE worker # "aborted" /\ ProcessFrontend
  <2>1. UNCHANGED caller /\ worker' = "loop"
    BY <1>4 DEF ProcessFrontend, R!RenderGoesOn, Loop, WorkerGoes
  <2> QED
    BY <1>4, <2>1, RequestsStep, WorkerKeeps DEF ProcessFrontend, RequestsMove, AtTopInv
<1>5. CASE \/ RequestStep
           \/ \E u \in Users : Call(u) \/ CallStep(u) \/ (R!WakesEarly(u) /\ UNCHANGED vars)
  <2>1. Life'
    BY <1>5, CallerKeeps DEF Requests
  <2>2. Requests'
    BY <1>5, RequestsStep DEF RequestStep, Call, CallStep, RequestsMove
  <2>3. worker' = worker
    BY <1>5 DEF RequestStep, Call, CallStep, LastErrorBecomes, vars
  <2>4. worker = "loop" \/ request' = request
    BY <1>5 DEF RequestStep, Call, CallStep, R!Place, R!Wait, R!TimeIsUp, R!WakesEarly,
       R!ReturnExpired, R!ReturnWoken
  <2> QED
    BY <2>1, <2>2, <2>3, <2>4 DEF AtTopInv, AtTheTop
<1> QED
  BY <1>1, <1>2, <1>3, <1>4, <1>5 DEF SessionNext, WakesEarly

LEMMA Invariance == SessionSpec => []IInv
BY InitInv, NextInv, PTL DEF SessionSpec

-----------------------------------------------------------------------------
(* Who was told by the worker that the session runs has a front end until   *)
(* the first Shutdown or a critical error, whoever was told by a wait that  *)
(* ended by itself has one once the back end's state is known; the main     *)
(* thread calls no deleted one unless it failed by itself; no event is      *)
(* lost, and a critical error is told unless m_LastError is overwritten     *)
(* while the worker drains its messages.                                    *)
THEOREM SessionStaysSound == SessionSpec => []SessionInv
<1>1. Life => SessionInv
  <2>1. Life => RunningHasFrontend
    BY DEF Life, TypeOK, RunningHasFrontend, Running, Succeeds, BeforeInv, PlaceInv,
       HasBegun, EndInv
  <2>2. Life => CallsLiveFrontend
    BY DEF Life, CallsLiveFrontend, AtItsEnd, PlaceInv, HasBegun, EndInv
  <2> QED
    BY <2>1, <2>2 DEF Life, SessionInv
<1> QED
  BY <1>1, Invariance, PTL DEF IInv

(* A request is carried out once at most, is not left behind when its time *)
(* is up, and a call that had the worker to itself and was woken by a      *)
(* notification returns the answer to its own request, whatever was asked  *)
(* and given up before it.                                                 *)
THEOREM RequestsStaySound == SessionSpec => []RequestInv
<1>1. Requests /\ AtTopInv => RequestInv
  <2>1. Requests => R!CarriedOutOnce
    BY DEF Requests, OnceInv, R!CarriedOutOnce, R!CallIds
  <2>2. Requests => R!AnswerIsMine
    BY DEF Requests, OwnInv, OwnRequest, R!AnswerIsMine
  <2> QED
    BY <2>1, <2>2 DEF Requests, RequestInv, AtTopInv
<1> QED
  BY <1>1, Invariance, PTL DEF IInv

(* When the only thread that calls Shutdown has returned from it after a   *)
(* successful Initialize and without a critical error, the worker and the  *)
(* main thread, if it was started, have ended, and nothing of the back end *)
(* is left.                                                                *)
THEOREM ShutdownLeavesNothing ==
  ASSUME Cardinality(Closers) = 1 PROVE SessionSpec => []ShutdownComplete
<1>1. Life => ShutdownComplete
  <2> SUFFICES ASSUME Life, NEW c \in Closers, closer[c] = "returned",
                      host.returned = "noError", ~session.hadCriticalError
               PROVE  /\ worker = "ended" /\ session.frontend = "null"
                      /\ main = "ended" \/ (main = "none" /\ session.backendState = "unknown")
                      /\ backend.context = "null" /\ backend.mainThread = "null"
                      /\ session.workerThread = "null"
    BY DEF ShutdownComplete
  <2>1. Closers = {c}
    BY ClosersAssumption, FS_Singleton
  <2> QED
    BY <2>1 DEF Life, TypeOK, OneShutdownInv, PlaceInv, EndInv, NoBackend
<1> QED
  BY <1>1, Invariance, PTL DEF IInv
=============================================================================
