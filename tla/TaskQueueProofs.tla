-------------------------- MODULE TaskQueueProofs --------------------------
(***************************************************************************)
(* Proofs about TaskQueue for every plan and every set of failure codes.   *)
(***************************************************************************)
EXTENDS TaskQueue, TLAPS

LEMMA PlanLength == Len(Plan) \in Nat /\ Len(Plan) > 0
BY PlanAssumption

LEMMA PositionOK ==
  ASSUME NEW p \in Nat, 1 <= p, p <= Len(Plan)
  PROVE  p \in Pos /\ (Plan[p] = "task" => p \in TaskPos)
BY PlanLength DEF Pos, TaskPos

(* What the typing of the queue rests on: the entries are appended once,   *)
(* after the control thread has been created.                              *)
PlanNotExceeded ==
  /\ cli = "appending" => appended < Len(Plan) /\ ctl # "none"
  /\ ctl = "none" => appended = 0

QueueTyped == QueueTypeOK /\ PlanNotExceeded

-----------------------------------------------------------------------------
(* Typing, one part of the state at a time.                                *)

LEMMA InitTyped == Init => QueueTyped /\ TypeOK
<1> SUFFICES ASSUME Init PROVE QueueTyped /\ TypeOK
  OBVIOUS
<1>1. QueueTyped
  BY PlanLength DEF Init, QueueTyped, QueueTypeOK, PlanNotExceeded
<1>2. ThreadsTypeOK
  BY DEF Init, ThreadsTypeOK
<1>3. TasksTypeOK
  BY DEF Init, TasksTypeOK, ThreadStates
<1>4. HistoryTypeOK
  BY DEF Init, HistoryTypeOK
<1> QED
  BY <1>1, <1>2, <1>3, <1>4 DEF QueueTyped, TypeOK

(* The front entry of a queue that is not empty.                           *)
LEMMA FrontEntry ==
  ASSUME QueueTypeOK, ~QueueEmpty
  PROVE  /\ next \in Pos /\ (Plan[next] = "task" => next \in TaskPos)
         /\ next + 1 \in 1..(appended + 1)
<1>1. appended \in Nat /\ next \in Nat /\ 1 <= next /\ next <= appended /\ next <= Len(Plan)
  BY PlanLength DEF QueueTypeOK, QueueEmpty
<1> QED
  BY <1>1, PositionOK

LEMMA NextQueueTyped ==
  ASSUME TypeOK, QueueTyped, [Next]_vars PROVE QueueTyped'
<1> USE DEF QueueTyped, QueueTypeOK, PlanNotExceeded, queueVars
<1>1. CASE UNCHANGED <<queueVars, cli, ctl>>
  BY <1>1
<1>2. CASE UNCHANGED <<queueVars, cli>> /\ ctl' # "none"
  BY <1>2
<1>3. CASE UNCHANGED <<queueVars, ctl>> /\ (cli' = "appending" => cli = "appending")
  BY <1>3
<1>4. CASE ControlStep
  <2>1. CASE CtlLoop \/ CtlInner \/ ProcessEnter \/ FailureStop \/ SyncBlocked \/ Wake
             \/ CheckIsDone \/ CheckFailed \/ ReportFailure
    BY <2>1, <1>2 DEF CtlLoop, CtlInner, ProcessEnter, FailureStop, SyncBlocked, Wake,
                      CheckIsDone, CheckFailed, ReportFailure
  <2>2. CASE Scan
    <3>1. ASSUME NEW p \in TaskPos, ScanFailure(p) PROVE QueueTyped'
      BY <3>1 DEF ScanFailure, TypeOK, TasksTypeOK
    <3>2. ASSUME NEW p \in TaskPos, ScanKeep(p) \/ ScanErase(p) PROVE QueueTyped'
      BY <3>2 DEF ScanKeep, ScanErase
    <3> QED
      BY <2>2, <3>1, <3>2 DEF Scan
  <2>3. CASE FailureStopped
    BY <2>3, PlanLength DEF FailureStopped, JoinedAndCleared
  <2>4. CASE DispatchTask
    BY <2>4, FrontEntry DEF DispatchTask, WaitOrReturn
  <2>5. CASE DispatchSync \/ DispatchOutput
    BY <2>5, FrontEntry DEF DispatchSync, DispatchOutput, WaitOrReturn
  <2>6. CASE NothingQueued
    BY <2>6 DEF NothingQueued, WaitOrReturn
  <2> QED
    BY <1>4, <2>1, <2>2, <2>3, <2>4, <2>5, <2>6 DEF ControlStep, Dispatch
<1>5. CASE SpuriousWakeup
  BY <1>5, <1>1 DEF SpuriousWakeup, ctlVars
<1>6. ASSUME NEW p \in TaskPos, TaskStep(p) PROVE QueueTyped'
  BY <1>6, <1>1 DEF TaskStep, Open, OpenFails, RunReturns, RunFails, Hold, Unhold, Finish,
                    Complete, ctlVars
<1>7. CASE ClientStep
  <2>1. CASE AppendEntry
    BY <2>1, PlanLength DEF AppendEntry, ctlVars
  <2>2. CASE PauseActive \/ ResumeActive \/ ClientStop \/ SendAborted \/ JoinControl
    BY <2>2, <1>3 DEF PauseActive, ResumeActive, ClientStop, SendAborted, JoinControl, ctlVars
  <2>3. CASE ClientStopped
    BY <2>3, PlanLength DEF ClientStopped, JoinedAndCleared, ctlVars
  <2> QED
    BY <1>7, <2>1, <2>2, <2>3 DEF ClientStep
<1>8. CASE Request
  <2>1. CASE StartJob
    BY <2>1, PlanLength DEF StartJob
  <2>2. CASE RequestAccepted \/ Destroy
    BY <2>2, <1>3 DEF RequestAccepted, Destroy, ctlVars
  <2> QED
    BY <1>8, <2>1, <2>2 DEF Request
<1>9. CASE UNCHANGED vars
  BY <1>9, <1>1 DEF vars, ctlVars
<1> QED
  BY <1>4, <1>5, <1>6, <1>7, <1>8, <1>9 DEF Next

LEMMA NextThreadsTyped ==
  ASSUME TypeOK, [Next]_vars PROVE ThreadsTypeOK'
<1> USE DEF TypeOK, ThreadsTypeOK, Notify, ctlVars
<1>1. CASE ControlStep
  <2>1. CASE CtlLoop \/ CtlInner \/ FailureStop \/ SyncBlocked \/ Wake \/ CheckIsDone
             \/ CheckFailed \/ ReportFailure
    BY <2>1 DEF CtlLoop, CtlInner, FailureStop, SyncBlocked, Wake, CheckIsDone, CheckFailed,
                ReportFailure
  <2>2. CASE ProcessEnter
    BY <2>2 DEF ProcessEnter, QueueTypeOK
  <2>3. CASE Scan
    BY <2>3 DEF Scan, ScanFailure, ScanKeep, ScanErase
  <2>4. CASE FailureStopped
    BY <2>4 DEF FailureStopped, JoinedAndCleared
  <2>5. CASE DispatchTask \/ DispatchSync \/ DispatchOutput \/ NothingQueued
    BY <2>5 DEF DispatchTask, DispatchSync, DispatchOutput, NothingQueued, WaitOrReturn
  <2> QED
    BY <1>1, <2>1, <2>2, <2>3, <2>4, <2>5 DEF ControlStep, Dispatch
<1>2. CASE SpuriousWakeup
  BY <1>2 DEF SpuriousWakeup
<1>3. ASSUME NEW p \in TaskPos, TaskStep(p) PROVE ThreadsTypeOK'
  BY <1>3 DEF TaskStep, Open, OpenFails, RunReturns, RunFails, Hold, Unhold, Finish, Complete
<1>4. CASE ClientStep
  BY <1>4 DEF ClientStep, AppendEntry, PauseActive, ResumeActive, ClientStop, ClientStopped,
              JoinedAndCleared, SendAborted, JoinControl
<1>5. CASE Request
  BY <1>5 DEF Request, StartJob, RequestAccepted, Destroy
<1>6. CASE UNCHANGED vars
  BY <1>6 DEF vars
<1> QED
  BY <1>1, <1>2, <1>3, <1>4, <1>5, <1>6 DEF Next

LEMMA NextTasksTyped ==
  ASSUME TypeOK, [Next]_vars PROVE TasksTypeOK'
<1> USE DEF TypeOK, TasksTypeOK, ThreadStates, taskVars
<1>1. CASE UNCHANGED taskVars
  BY <1>1
<1>2. CASE ControlStep
  <2>1. CASE CtlLoop \/ CtlInner \/ ProcessEnter \/ FailureStopped \/ Wake \/ CheckIsDone
             \/ CheckFailed \/ ReportFailure
    BY <2>1, <1>1 DEF CtlLoop, CtlInner, ProcessEnter, FailureStopped, Wake, CheckIsDone,
                      CheckFailed, ReportFailure
  <2>2. CASE Scan
    BY <2>2 DEF Scan, ScanFailure, ScanKeep, ScanErase
  <2>3. CASE FailureStop
    <3>1. stopRequested' \in [TaskPos -> BOOLEAN]
      BY <2>3, Zenon DEF FailureStop, RequestStopAll
    <3> QED
      BY <2>3, <3>1 DEF FailureStop
  <2>4. CASE DispatchTask
    BY <2>4 DEF DispatchTask
  <2>5. CASE DispatchSync \/ SyncBlocked \/ DispatchOutput \/ NothingQueued
    BY <2>5, <1>1 DEF DispatchSync, SyncBlocked, DispatchOutput, NothingQueued
  <2> QED
    BY <1>2, <2>1, <2>2, <2>3, <2>4, <2>5 DEF ControlStep, Dispatch
<1>3. CASE SpuriousWakeup
  BY <1>3, <1>1 DEF SpuriousWakeup
<1>4. ASSUME NEW p \in TaskPos, TaskStep(p) PROVE TasksTypeOK'
  <2>1. CASE Open(p) \/ RunReturns(p) \/ Hold(p) \/ Unhold(p) \/ Complete(p)
    BY <2>1 DEF Open, RunReturns, Hold, Unhold, Complete
  <2>2. CASE OpenFails(p) \/ RunFails(p) \/ Finish(p)
    BY <2>2 DEF OpenFails, RunFails, Finish
  <2> QED
    BY <1>4, <2>1, <2>2 DEF TaskStep
<1>5. CASE ClientStep
  <2>1. CASE AppendEntry \/ ClientStopped \/ SendAborted \/ JoinControl
    BY <2>1, <1>1 DEF AppendEntry, ClientStopped, SendAborted, JoinControl
  <2>2. CASE PauseActive \/ ResumeActive
    <3>1. paused' \in [TaskPos -> BOOLEAN]
      BY <2>2, Zenon DEF PauseActive, ResumeActive
    <3> QED
      BY <2>2, <3>1 DEF PauseActive, ResumeActive
  <2>3. CASE ClientStop
    <3>1. stopRequested' \in [TaskPos -> BOOLEAN]
      BY <2>3, Zenon DEF ClientStop, RequestStopAll
    <3> QED
      BY <2>3, <3>1 DEF ClientStop
  <2> QED
    BY <1>5, <2>1, <2>2, <2>3 DEF ClientStep
<1>6. CASE Request
  BY <1>6, <1>1 DEF Request, StartJob, RequestAccepted, Destroy
<1>7. CASE UNCHANGED vars
  BY <1>7, <1>1 DEF vars
<1> QED
  BY <1>2, <1>3, <1>4, <1>5, <1>6, <1>7 DEF Next

Verdicts == Codes \cup {kUncategorizedError, kUserAbortErr, kDone}

LEMMA AppendVerdict ==
  ASSUME verdicts \in Seq(Verdicts), NEW v \in Verdicts
  PROVE  Append(verdicts, v) \in Seq(Verdicts)
OBVIOUS

LEMMA NextHistoryTyped ==
  ASSUME TypeOK, [Next]_vars PROVE HistoryTypeOK'
<1> USE DEF TypeOK, HistoryTypeOK
<1>0. verdicts \in Seq(Verdicts)
  BY DEF Verdicts
<1>1. CASE UNCHANGED <<dispatched, verdicts>>
  BY <1>1
<1>2. CASE DispatchTask \/ DispatchSync
  BY <1>2, FrontEntry DEF DispatchTask, DispatchSync
<1>3. CASE DispatchOutput
  <2>1. verdicts' \in Seq(Verdicts)
    BY <1>0, <1>3, AppendVerdict DEF DispatchOutput, Verdicts
  <2> QED
    BY <1>3, <2>1, FrontEntry DEF DispatchOutput, Verdicts
<1>4. CASE ReportFailure \/ SendAborted
  <2>1. verdicts' \in Seq(Verdicts)
    BY <1>0, <1>4, AppendVerdict DEF ReportFailure, SendAborted, Verdicts, QueueTypeOK
  <2> QED
    BY <1>4, <2>1 DEF ReportFailure, SendAborted, Verdicts
<1>5. CASE CtlLoop \/ CtlInner \/ ProcessEnter \/ Scan \/ FailureStop \/ FailureStopped
           \/ SyncBlocked \/ NothingQueued \/ Wake \/ CheckIsDone \/ CheckFailed
  BY <1>5, <1>1 DEF CtlLoop, CtlInner, ProcessEnter, Scan, ScanFailure, ScanKeep, ScanErase,
     FailureStop, FailureStopped, SyncBlocked, NothingQueued, Wake, CheckIsDone, CheckFailed
<1>6. ASSUME NEW p \in TaskPos, TaskStep(p) PROVE HistoryTypeOK'
  BY <1>6, <1>1 DEF TaskStep, Open, OpenFails, RunReturns, RunFails, Hold, Unhold, Finish, Complete
<1>7. CASE AppendEntry \/ PauseActive \/ ResumeActive \/ ClientStop \/ ClientStopped \/ JoinControl
  BY <1>7, <1>1 DEF AppendEntry, PauseActive, ResumeActive, ClientStop, ClientStopped, JoinControl
<1>8. CASE Request \/ SpuriousWakeup \/ UNCHANGED vars
  BY <1>8, <1>1 DEF Request, StartJob, RequestAccepted, Destroy, SpuriousWakeup, vars
<1> QED
  BY <1>2, <1>3, <1>4, <1>5, <1>6, <1>7, <1>8 DEF Next, ControlStep, Dispatch, ClientStep

Typed == TypeOK /\ QueueTyped

LEMMA NextTyped == Typed /\ [Next]_vars => Typed'
BY NextQueueTyped, NextThreadsTyped, NextTasksTyped, NextHistoryTyped
   DEF Typed, TypeOK, QueueTyped

(* The state always has the declared shape.                                *)
THEOREM TypeCorrect == Spec => []TypeOK
<1>1. Init => Typed
  BY InitTyped DEF Typed
<1>2. Typed /\ [Next]_vars => Typed'
  BY NextTyped
<1>3. Typed => TypeOK
  BY DEF Typed
<1> QED
  BY <1>1, <1>2, <1>3, PTL DEF Spec

-----------------------------------------------------------------------------
(* The inductive invariant behind the safety properties.                   *)

(* Who holds queueMutex between two steps.                                 *)
LockInv ==
  /\ mutex = "control" <=> ctl \in {"scan", "scanned", "stopping"}
  /\ mutex = "client" => cli \in {"stop", "destroy"}

(* A thread that has not exited belongs to an active task; Process scans   *)
(* active tasks while it holds the mutex.                                  *)
ActiveInv ==
  /\ \A p \in TaskPos : ~Exited(p) => p \in active
  /\ active \subseteq dispatched
  /\ \A p \in dispatched : p < next
  /\ unscanned \subseteq active
  /\ unscanned # {} => ctl \in {"scan", "scanned"}

(* Syncs that have left the queue have no active task in front of them.    *)
BarrierInv == \A s \in Pos : (Plan[s] = "sync" /\ s < next) => \A q \in active : s < q

(* A latched failure that another thread can see has stopped everything.   *)
FailedInv ==
  /\ (failed # kNoError /\ mutex # "control") => active = {}
  /\ ctl = "report" => active = {}

(* What TaskQueue::Stop leaves behind stays empty.                         *)
StopInv == cli \in {"abort", "join", "gone"} => active = {} /\ QueueEmpty

Inv == LockInv /\ ActiveInv /\ BarrierInv /\ FailedInv /\ StopInv

Quiet == \A p \in TaskPos : Exited(p)

LEMMA NothingActive ==
  ASSUME ActiveInv, active = {} PROVE Quiet
BY DEF ActiveInv, Quiet

(* The second half of TaskQueue::Stop ends with no thread left.            *)
LEMMA JoinedIsQuiet ==
  ASSUME ActiveInv, JoinedAndCleared, UNCHANGED thread PROVE Quiet /\ Quiet'
BY DEF ActiveInv, JoinedAndCleared, Quiet, Exited

(* A step of a task thread belongs to a thread that has not exited, and    *)
(* moves no other.                                                         *)
LEMMA TaskMoves ==
  ASSUME TasksTypeOK, NEW p \in TaskPos, TaskStep(p)
  PROVE  /\ ~Exited(p)
         /\ \A q \in TaskPos \ {p} : thread'[q] = thread[q]
         /\ UNCHANGED <<queueVars, mutex, ctlVars, cli, stopRequsted, dispatched, verdicts>>
BY DEF TaskStep, Open, OpenFails, RunReturns, RunFails, Hold, Unhold, Finish, Complete,
       TasksTypeOK, Exited

LEMMA InitInv == Init => Inv
BY DEF Init, Inv, LockInv, ActiveInv, BarrierInv, FailedInv, StopInv, Exited, QueueEmpty, Pos

LEMMA NextLockInv ==
  ASSUME LockInv, TypeOK, [Next]_vars PROVE LockInv'
<1> USE DEF LockInv, Unlocked
<1>1. CASE ControlStep
  <2>1. CASE CtlLoop \/ CtlInner \/ ProcessEnter \/ FailureStop \/ Wake \/ CheckIsDone
             \/ CheckFailed \/ ReportFailure
    BY <2>1 DEF CtlLoop, CtlInner, ProcessEnter, FailureStop, Wake, CheckIsDone, CheckFailed,
                ReportFailure
  <2>2. CASE Scan
    BY <2>2 DEF Scan, ScanFailure, ScanKeep, ScanErase
  <2>3. CASE FailureStopped
    BY <2>3 DEF FailureStopped, JoinedAndCleared
  <2>4. CASE Dispatch
    BY <2>4 DEF Dispatch, DispatchTask, DispatchSync, SyncBlocked, DispatchOutput,
                NothingQueued, WaitOrReturn, ReadyToDispatch
  <2> QED
    BY <1>1, <2>1, <2>2, <2>3, <2>4 DEF ControlStep
<1>2. CASE SpuriousWakeup
  BY <1>2 DEF SpuriousWakeup, ctlVars
<1>3. ASSUME NEW p \in TaskPos, TaskStep(p) PROVE LockInv'
  BY <1>3, TaskMoves DEF ctlVars, TypeOK
<1>4. CASE ClientStep
  BY <1>4 DEF ClientStep, AppendEntry, PauseActive, ResumeActive, ClientStop, ClientStopped,
              JoinedAndCleared, SendAborted, JoinControl, ctlVars
<1>5. CASE Request
  BY <1>5 DEF Request, StartJob, RequestAccepted, Destroy, ctlVars
<1>6. CASE UNCHANGED vars
  BY <1>6 DEF vars, ctlVars
<1> QED
  BY <1>1, <1>2, <1>3, <1>4, <1>5, <1>6 DEF Next

LEMMA NextActiveInv ==
  ASSUME LockInv, ActiveInv, TypeOK, [Next]_vars PROVE ActiveInv'
<1> USE DEF ActiveInv, Exited
<1>1. CASE UNCHANGED <<thread, active, dispatched, next, unscanned>> /\ (unscanned = {} \/ UNCHANGED ctl)
  BY <1>1
<1>2. CASE JoinedAndCleared /\ UNCHANGED <<thread, dispatched, unscanned, appended>> /\ unscanned = {}
  BY <1>2 DEF JoinedAndCleared, TypeOK, QueueTypeOK, HistoryTypeOK, Pos
<1>3. CASE ControlStep
  <2>1. CASE CtlLoop \/ CtlInner \/ FailureStop \/ Wake \/ CheckIsDone \/ CheckFailed
             \/ ReportFailure
    BY <2>1, <1>1 DEF CtlLoop, CtlInner, FailureStop, Wake, CheckIsDone, CheckFailed,
                      ReportFailure, queueVars, taskVars
  <2>2. CASE ProcessEnter
    BY <2>2 DEF ProcessEnter, queueVars, taskVars
  <2>3. CASE Scan
    BY <2>3 DEF Scan, ScanFailure, ScanKeep, ScanErase, queueVars, taskVars
  <2>4. CASE FailureStopped
    BY <2>4, <1>2 DEF FailureStopped, taskVars
  <2>5. CASE DispatchTask
    <3>1. \A p \in TaskPos : ~Exited(p)' => p \in active'
      BY <2>5 DEF DispatchTask, TypeOK, TasksTypeOK
    <3>2. \A p \in dispatched' : p < next'
      BY <2>5 DEF DispatchTask, TypeOK, QueueTypeOK, HistoryTypeOK, Pos
    <3> QED
      BY <2>5, <3>1, <3>2 DEF DispatchTask, ReadyToDispatch
  <2>6. CASE DispatchSync \/ DispatchOutput
    <3>1. /\ next \in Nat /\ next' = next + 1
          /\ dispatched \subseteq Nat /\ dispatched' = dispatched \cup {next}
      BY <2>6 DEF DispatchSync, DispatchOutput, TypeOK, QueueTypeOK, HistoryTypeOK, Pos
    <3>2. \A p \in dispatched' : p < next'
      BY <3>1
    <3> QED
      BY <2>6, <3>2 DEF DispatchSync, DispatchOutput, ReadyToDispatch, taskVars
  <2>7. CASE SyncBlocked \/ NothingQueued
    BY <2>7 DEF SyncBlocked, NothingQueued, ReadyToDispatch, WaitOrReturn, queueVars, taskVars
  <2> QED
    BY <1>3, <2>1, <2>2, <2>3, <2>4, <2>5, <2>6, <2>7 DEF ControlStep, Dispatch
<1>4. CASE SpuriousWakeup
  BY <1>4, <1>1 DEF SpuriousWakeup, queueVars, ctlVars, taskVars
<1>5. ASSUME NEW p \in TaskPos, TaskStep(p) PROVE ActiveInv'
  BY <1>5, TaskMoves DEF TypeOK, queueVars, ctlVars
<1>6. CASE ClientStep
  <2>1. CASE AppendEntry \/ PauseActive \/ ResumeActive \/ SendAborted \/ JoinControl
    BY <2>1, <1>1 DEF AppendEntry, PauseActive, ResumeActive, SendAborted, JoinControl,
                      queueVars, ctlVars, taskVars
  <2>2. CASE ClientStop
    BY <2>2, <1>1 DEF ClientStop, queueVars, ctlVars
  <2>3. CASE ClientStopped
    BY <2>3, <1>2 DEF ClientStopped, ctlVars, taskVars, LockInv
  <2> QED
    BY <1>6, <2>1, <2>2, <2>3 DEF ClientStep
<1>7. CASE Request
  BY <1>7, <1>1 DEF Request, StartJob, RequestAccepted, Destroy, queueVars, ctlVars, taskVars
<1>8. CASE UNCHANGED vars
  BY <1>8, <1>1 DEF vars, queueVars, ctlVars, taskVars
<1> QED
  BY <1>3, <1>4, <1>5, <1>6, <1>7, <1>8 DEF Next

(* Syncs leave the queue only when everything is quiet: DispatchSync finds *)
(* no active task, JoinedAndCleared has joined them all.                   *)
LEMMA NextBarrierInv ==
  ASSUME LockInv, ActiveInv, BarrierInv, TypeOK, [Next]_vars PROVE BarrierInv'
<1>1. CASE UNCHANGED next /\ active' \subseteq active
  BY <1>1 DEF BarrierInv
<1>2. CASE active' = {}
  BY <1>2 DEF BarrierInv
<1>3. CASE ControlStep
  <2>1. CASE CtlLoop \/ CtlInner \/ ProcessEnter \/ Scan \/ FailureStop \/ SyncBlocked
             \/ NothingQueued \/ Wake \/ CheckIsDone \/ CheckFailed \/ ReportFailure
    BY <2>1, <1>1 DEF CtlLoop, CtlInner, ProcessEnter, Scan, ScanFailure, ScanKeep, ScanErase,
       FailureStop, SyncBlocked, NothingQueued, Wake, CheckIsDone, CheckFailed, ReportFailure,
       queueVars
  <2>2. CASE FailureStopped
    BY <2>2, <1>2 DEF FailureStopped, JoinedAndCleared
  <2>3. CASE DispatchTask \/ DispatchOutput
    <3>1. /\ Plan[next] # "sync" /\ next \in Nat /\ next' = next + 1
          /\ active' \subseteq active \cup {next}
      BY <2>3 DEF DispatchTask, DispatchOutput, TypeOK, QueueTypeOK
    <3>2. \A s \in Pos : Plan[s] = "sync" /\ s < next' => s < next
      BY <3>1 DEF Pos
    <3> QED
      BY <3>1, <3>2 DEF BarrierInv
  <2>4. CASE DispatchSync
    BY <2>4, <1>2 DEF DispatchSync
  <2> QED
    BY <1>3, <2>1, <2>2, <2>3, <2>4 DEF ControlStep, Dispatch
<1>4. ASSUME NEW p \in TaskPos, TaskStep(p) PROVE BarrierInv'
  BY <1>1, <1>4, TaskMoves DEF TypeOK, queueVars
<1>5. CASE ClientStep
  <2>1. CASE AppendEntry \/ PauseActive \/ ResumeActive \/ ClientStop \/ SendAborted \/ JoinControl
    BY <2>1, <1>1 DEF AppendEntry, PauseActive, ResumeActive, ClientStop, SendAborted,
                      JoinControl, queueVars
  <2>2. CASE ClientStopped
    BY <2>2, <1>2 DEF ClientStopped, JoinedAndCleared
  <2> QED
    BY <1>5, <2>1, <2>2 DEF ClientStep
<1>6. CASE Request \/ SpuriousWakeup \/ UNCHANGED vars
  BY <1>6, <1>1 DEF Request, StartJob, RequestAccepted, Destroy, SpuriousWakeup, vars, queueVars
<1> QED
  BY <1>3, <1>4, <1>5, <1>6 DEF Next

LEMMA NextFailedInv ==
  ASSUME LockInv, ActiveInv, FailedInv, TypeOK, [Next]_vars PROVE FailedInv'
<1> USE DEF FailedInv, Unlocked, LockInv
<1>1. CASE UNCHANGED <<failed, mutex, active, ctl>>
  BY <1>1
<1>2. CASE ControlStep
  <2>1. CASE CtlLoop \/ CtlInner \/ ProcessEnter \/ FailureStop \/ Wake \/ CheckIsDone
             \/ CheckFailed \/ ReportFailure
    BY <2>1 DEF CtlLoop, CtlInner, ProcessEnter, FailureStop, Wake, CheckIsDone, CheckFailed,
                ReportFailure, queueVars
  <2>2. CASE Scan
    BY <2>2 DEF Scan, ScanFailure, ScanKeep, ScanErase, queueVars
  <2>3. CASE FailureStopped
    BY <2>3 DEF FailureStopped, JoinedAndCleared
  <2>4. CASE Dispatch
    BY <2>4 DEF Dispatch, DispatchTask, DispatchSync, SyncBlocked, DispatchOutput,
                NothingQueued, WaitOrReturn, ReadyToDispatch, queueVars
  <2> QED
    BY <1>2, <2>1, <2>2, <2>3, <2>4 DEF ControlStep
<1>3. ASSUME NEW p \in TaskPos, TaskStep(p) PROVE FailedInv'
  BY <1>3, <1>1, TaskMoves DEF queueVars, ctlVars, TypeOK
<1>4. CASE ClientStep
  BY <1>4 DEF ClientStep, AppendEntry, PauseActive, ResumeActive, ClientStop, ClientStopped,
              JoinedAndCleared, SendAborted, JoinControl, queueVars, ctlVars
<1>5. CASE Request \/ SpuriousWakeup \/ UNCHANGED vars
  BY <1>5 DEF Request, StartJob, RequestAccepted, Destroy, SpuriousWakeup, vars, queueVars, ctlVars
<1> QED
  BY <1>2, <1>3, <1>4, <1>5 DEF Next

LEMMA NextStopInv ==
  ASSUME LockInv, StopInv, TypeOK, [Next]_vars PROVE StopInv'
<1> USE DEF StopInv, QueueEmpty
<1>1. CASE UNCHANGED <<cli, active, next, appended>>
  BY <1>1
<1>2. CASE ControlStep
  <2>1. CASE CtlLoop \/ CtlInner \/ ProcessEnter \/ FailureStop \/ SyncBlocked \/ NothingQueued
             \/ Wake \/ CheckIsDone \/ CheckFailed \/ ReportFailure
    BY <2>1, <1>1 DEF CtlLoop, CtlInner, ProcessEnter, FailureStop, SyncBlocked, NothingQueued,
                      Wake, CheckIsDone, CheckFailed, ReportFailure, queueVars
  <2>2. CASE Scan
    BY <2>2 DEF Scan, ScanFailure, ScanKeep, ScanErase, queueVars
  <2>3. CASE FailureStopped
    BY <2>3 DEF FailureStopped, JoinedAndCleared, TypeOK, QueueTypeOK
  <2>4. CASE DispatchTask \/ DispatchSync \/ DispatchOutput
    BY <2>4 DEF DispatchTask, DispatchSync, DispatchOutput
  <2> QED
    BY <1>2, <2>1, <2>2, <2>3, <2>4 DEF ControlStep, Dispatch
<1>3. ASSUME NEW p \in TaskPos, TaskStep(p) PROVE StopInv'
  BY <1>3, <1>1, TaskMoves DEF queueVars, TypeOK
<1>4. CASE ClientStep
  <2>1. CASE ClientStopped
    BY <2>1 DEF ClientStopped, JoinedAndCleared, TypeOK, QueueTypeOK
  <2>2. CASE ~ClientStopped
    BY <1>4, <2>2 DEF ClientStep, AppendEntry, PauseActive, ResumeActive, ClientStop,
                      SendAborted, JoinControl, queueVars
  <2> QED
    BY <2>1, <2>2
<1>5. CASE Request \/ SpuriousWakeup \/ UNCHANGED vars
  BY <1>5 DEF Request, StartJob, RequestAccepted, Destroy, SpuriousWakeup, vars, queueVars
<1> QED
  BY <1>2, <1>3, <1>4, <1>5 DEF Next

LEMMA NextInv == Typed /\ Inv /\ [Next]_vars => Inv'
BY NextLockInv, NextActiveInv, NextBarrierInv, NextFailedInv, NextStopInv DEF Inv, Typed

THEOREM Invariance == Spec => [](Typed /\ Inv)
<1>1. Init => Typed /\ Inv
  BY InitTyped, InitInv DEF Typed
<1>2. Typed /\ Inv /\ [Next]_vars => (Typed /\ Inv)'
  BY NextTyped, NextInv
<1> QED
  BY <1>1, <1>2, PTL DEF Spec

-----------------------------------------------------------------------------
(* What the front end and the owner of the queue rely on.                  *)

LEMMA InvSyncBarrier == Typed /\ Inv => SyncBarrier
<1> SUFFICES ASSUME Typed, Inv, NEW p \in dispatched, NEW s \in 1..(p - 1), Plan[s] = "sync",
                    NEW q \in TaskPos, q < s
             PROVE  Exited(q)
  BY DEF SyncBarrier
<1>1. p \in Pos /\ s \in Pos /\ s < next
  BY DEF Typed, TypeOK, HistoryTypeOK, QueueTypeOK, Inv, ActiveInv, Pos
<1>2. q \notin active
  BY <1>1 DEF Inv, BarrierInv, TaskPos, Pos
<1> QED
  BY <1>2 DEF Inv, ActiveInv

(* No entry behind a sync is started while a task in front of it lives.    *)
THEOREM SyncsAreBarriers == Spec => []SyncBarrier
BY Invariance, InvSyncBarrier, PTL

LEMMA InvStopQuiesces == Inv => StopQuiesces
BY DEF Inv, StopInv, ActiveInv, StopQuiesces

(* TaskQueue::Stop returns to the main thread with no task thread left.    *)
THEOREM StopLeavesNoThread == Spec => []StopQuiesces
BY Invariance, InvStopQuiesces, PTL

(* Both together, as TLC checks them: the state has its type and a stop    *)
(* leaves no thread.                                                       *)
THEOREM QueueStaysSound == Spec => []QueueInv
BY TypeCorrect, StopLeavesNoThread, PTL DEF QueueInv

(* While the main thread acts on a stop, nothing starts or moves.          *)
LEMMA StepAfterStop ==
  ASSUME Typed, Inv, [Next]_vars, cli \in {"abort", "join", "gone"}
  PROVE  UNCHANGED <<dispatched, thread>>
<1>1. active = {} /\ QueueEmpty /\ Quiet
  BY NothingActive DEF Inv, StopInv
<1>2. CASE ControlStep
  BY <1>1, <1>2 DEF ControlStep, CtlLoop, CtlInner, ProcessEnter, Scan, ScanFailure, ScanKeep,
     ScanErase, FailureStop, FailureStopped, Dispatch, DispatchTask, DispatchSync, SyncBlocked,
     DispatchOutput, NothingQueued, Wake, CheckIsDone, CheckFailed, ReportFailure, taskVars
<1>3. ASSUME NEW p \in TaskPos, TaskStep(p) PROVE FALSE
  BY <1>1, <1>3, TaskMoves DEF Quiet, Typed, TypeOK
<1>4. CASE ClientStep
  BY <1>4 DEF ClientStep, AppendEntry, PauseActive, ResumeActive, ClientStop, ClientStopped,
              SendAborted, JoinControl, taskVars
<1>5. CASE Request \/ SpuriousWakeup \/ UNCHANGED vars
  BY <1>5 DEF Request, StartJob, RequestAccepted, Destroy, SpuriousWakeup, vars, taskVars
<1> QED
  BY <1>2, <1>3, <1>4, <1>5 DEF Next

(* After a stop nothing of the job starts or moves any more.               *)
THEOREM StopsAreFinal == Spec => StopIsFinal
<1>1. Typed /\ Inv /\ [Next]_vars =>
        [(cli \in {"abort", "join", "gone"}) => UNCHANGED <<dispatched, thread>>]_vars
  BY StepAfterStop
<1> QED
  BY <1>1, Invariance, PTL DEF Spec, StopIsFinal

(* Once the last sync of a plan is behind, none of its tasks is active.    *)
LEMMA LastEntryIsQuiet ==
  ASSUME Typed, Inv, next = Len(Plan), Plan[next] # "sync" PROVE active = {}
<1>1. PICK s \in 1..Len(Plan) : Plan[s] = "sync" /\ \A q \in s..Len(Plan) : Plan[q] # "task"
  BY PlanSyncsAssumption
<1>2. s \in Pos /\ s < next
  BY <1>1, PlanLength DEF Pos
<1>3. \A q \in TaskPos : ~(s < q)
  BY <1>1, PlanLength DEF TaskPos, Pos
<1>4. active \subseteq TaskPos
  BY DEF Typed, TypeOK, QueueTypeOK
<1> QED
  BY <1>1, <1>2, <1>3, <1>4 DEF Inv, BarrierInv

(* The three steps that send a Done or Failed message.                     *)
LEMMA OnlyVerdictSteps ==
  ASSUME Typed, [Next]_vars, verdicts' # verdicts
  PROVE  DispatchOutput \/ ReportFailure \/ SendAborted
<1>1. CASE CtlLoop \/ CtlInner \/ ProcessEnter \/ Scan \/ FailureStop \/ FailureStopped
           \/ DispatchTask \/ DispatchSync \/ SyncBlocked \/ NothingQueued \/ Wake
           \/ CheckIsDone \/ CheckFailed
  BY <1>1 DEF CtlLoop, CtlInner, ProcessEnter, Scan, ScanFailure, ScanKeep, ScanErase,
     FailureStop, FailureStopped, DispatchTask, DispatchSync, SyncBlocked, NothingQueued, Wake,
     CheckIsDone, CheckFailed
<1>2. ASSUME NEW p \in TaskPos, TaskStep(p) PROVE FALSE
  BY <1>2, TaskMoves DEF Typed, TypeOK
<1>3. CASE AppendEntry \/ PauseActive \/ ResumeActive \/ ClientStop \/ ClientStopped \/ JoinControl
  BY <1>3 DEF AppendEntry, PauseActive, ResumeActive, ClientStop, ClientStopped, JoinControl
<1>4. CASE Request \/ SpuriousWakeup \/ UNCHANGED vars
  BY <1>4 DEF Request, StartJob, RequestAccepted, Destroy, SpuriousWakeup, vars
<1> QED
  BY <1>1, <1>2, <1>3, <1>4 DEF Next, ControlStep, Dispatch, ClientStep

LEMMA StepWithVerdict ==
  ASSUME Typed, Inv, [Next]_vars, verdicts' # verdicts PROVE Quiet
<1>1. CASE DispatchOutput
  BY <1>1, LastEntryIsQuiet, NothingActive DEF DispatchOutput, Inv
<1>2. CASE ReportFailure
  BY <1>2, NothingActive DEF ReportFailure, Inv, FailedInv
<1>3. CASE SendAborted
  BY <1>3, NothingActive DEF SendAborted, Inv, StopInv
<1> QED
  BY <1>1, <1>2, <1>3, OnlyVerdictSteps

(* A Done or Failed message leaves only when no task thread is alive.      *)
THEOREM VerdictsAreQuiet == Spec => VerdictMeansQuiet
<1>1. Typed /\ Inv /\ [Next]_vars => [verdicts' # verdicts => \A p \in TaskPos : Exited(p)]_vars
  BY StepWithVerdict DEF Quiet
<1> QED
  BY <1>1, Invariance, PTL DEF Spec, VerdictMeansQuiet

(* Done leaves the queue at rest: nothing is queued, active or failed, and  *)
(* no failure is about to be reported.                                     *)
SaidDone == \E i \in 1..Len(verdicts) : verdicts[i] = kDone

DoneInv ==
  /\ SaidDone => next > Len(Plan) /\ active = {} /\ failed = kNoError /\ ctl # "report"
  /\ NoFailureAfterDone

LEMMA SaidMore ==
  ASSUME HistoryTypeOK, NEW v, verdicts' = Append(verdicts, v)
  PROVE  /\ SaidDone' <=> (SaidDone \/ v = kDone)
         /\ (NoFailureAfterDone /\ (SaidDone => v = kUserAbortErr)) => NoFailureAfterDone'
<1>1. /\ Len(verdicts) \in Nat /\ Len(verdicts') = Len(verdicts) + 1
      /\ \A i \in 1..Len(verdicts) : verdicts'[i] = verdicts[i]
      /\ verdicts'[Len(verdicts) + 1] = v
  BY DEF HistoryTypeOK
<1>2. SaidDone' <=> (SaidDone \/ v = kDone)
  BY <1>1 DEF SaidDone
<1>3. ASSUME NoFailureAfterDone, SaidDone => v = kUserAbortErr,
             NEW i \in 1..Len(verdicts'), NEW j \in 1..Len(verdicts'),
             i < j, verdicts'[i] = kDone
      PROVE  verdicts'[j] = kUserAbortErr
  <2>1. i \in 1..Len(verdicts) /\ verdicts[i] = kDone
    BY <1>1, <1>3
  <2>2. CASE j \in 1..Len(verdicts)
    BY <1>1, <1>3, <2>1, <2>2 DEF NoFailureAfterDone
  <2>3. CASE j = Len(verdicts) + 1
    BY <1>1, <1>3, <2>1, <2>3 DEF SaidDone
  <2> QED
    BY <1>1, <2>2, <2>3
<1> QED
  BY <1>2, <1>3 DEF NoFailureAfterDone

LEMMA NextDoneInv ==
  ASSUME Typed, Inv, DoneInv, [Next]_vars PROVE DoneInv'
<1>1. CASE UNCHANGED verdicts /\ ~SaidDone
  BY <1>1 DEF DoneInv, SaidDone, NoFailureAfterDone
<1>2. CASE UNCHANGED verdicts /\ SaidDone
  <2>1. /\ next > Len(Plan) /\ active = {} /\ failed = kNoError /\ ctl # "report"
        /\ QueueEmpty /\ cli # "appending" /\ unscanned = {}
    BY <1>2 DEF DoneInv, Typed, TypeOK, QueueTyped, QueueTypeOK, PlanNotExceeded, QueueEmpty,
                Inv, ActiveInv
  <2>2. next' > Len(Plan) /\ active' = {} /\ failed' = kNoError /\ ctl' # "report"
    <3>1. CASE ControlStep
      BY <3>1, <2>1 DEF ControlStep, CtlLoop, CtlInner, ProcessEnter, Scan, ScanFailure, ScanKeep,
         ScanErase, IsCurrent, FailureStop, FailureStopped, JoinedAndCleared, Dispatch, DispatchTask,
         DispatchSync, SyncBlocked, DispatchOutput, NothingQueued, WaitOrReturn, Wake, CheckIsDone,
         CheckFailed, ReportFailure, queueVars, Typed, TypeOK, QueueTypeOK
    <3>2. ASSUME NEW p \in TaskPos, TaskStep(p) PROVE UNCHANGED <<queueVars, ctl>>
      BY <3>2, TaskMoves DEF Typed, TypeOK, ctlVars
    <3>3. CASE ClientStep
      BY <3>3, <2>1 DEF ClientStep, AppendEntry, PauseActive, ResumeActive, ClientStop,
         ClientStopped, JoinedAndCleared, SendAborted, JoinControl, queueVars, ctlVars, Typed, TypeOK,
         QueueTypeOK, QueueEmpty
    <3>4. CASE Request \/ SpuriousWakeup \/ UNCHANGED vars
      BY <3>4, <2>1 DEF Request, StartJob, RequestAccepted, Destroy, SpuriousWakeup, vars,
         queueVars, ctlVars
    <3> QED
      BY <2>1, <3>1, <3>2, <3>3, <3>4 DEF Next, queueVars
  <2> QED
    BY <1>2, <2>2 DEF DoneInv, NoFailureAfterDone
<1>3. CASE DispatchOutput /\ verdicts' # verdicts
  <2>1. ~SaidDone
    BY <1>3 DEF DispatchOutput, DoneInv, QueueEmpty, Typed, TypeOK, QueueTypeOK
  <2>2. /\ verdicts' = Append(verdicts, kDone) /\ next = Len(Plan) /\ next' = next + 1
        /\ active = {} /\ active' = {} /\ failed' = kNoError /\ ctl' # "report"
    BY <1>3, LastEntryIsQuiet DEF DispatchOutput, ReadyToDispatch, WaitOrReturn
  <2> QED
    BY <2>1, <2>2, SaidMore, PlanLength DEF DoneInv, Typed, TypeOK
<1>4. CASE ReportFailure
  <2>1. ~SaidDone /\ ctl' # "report"
    BY <1>4 DEF ReportFailure, DoneInv
  <2>2. PICK v \in Codes \cup {kUncategorizedError} : verdicts' = Append(verdicts, v)
    BY <1>4 DEF ReportFailure, Typed, TypeOK, QueueTypeOK
  <2>3. v # kDone
    BY <2>2, CodesAssumption
  <2> QED
    BY <2>1, <2>2, <2>3, SaidMore DEF DoneInv, Typed, TypeOK
<1>5. CASE SendAborted
  <2>1. verdicts' = Append(verdicts, kUserAbortErr) /\ UNCHANGED <<next, active, failed, ctl>>
    BY <1>5 DEF SendAborted, queueVars, ctlVars
  <2> QED
    BY <2>1, SaidMore, CodesAssumption DEF DoneInv, Typed, TypeOK
<1>6. verdicts' # verdicts => DispatchOutput \/ ReportFailure \/ SendAborted
  BY OnlyVerdictSteps
<1> QED
  BY <1>1, <1>2, <1>3, <1>4, <1>5, <1>6

(* A job that was reported done is never reported failed by a task error.  *)
THEOREM DoneIsFinal == Spec => []NoFailureAfterDone
<1>1. Init => DoneInv
  BY DEF Init, DoneInv, SaidDone, NoFailureAfterDone
<1>2. Typed /\ Inv /\ DoneInv /\ [Next]_vars => DoneInv'
  BY NextDoneInv
<1>3. DoneInv => NoFailureAfterDone
  BY DEF DoneInv
<1> QED
  BY <1>1, <1>2, <1>3, Invariance, PTL DEF Spec

-----------------------------------------------------------------------------
(* The queue implements TaskPlan.                                          *)

LEMMA EntryStateUnchanged ==
  ASSUME UNCHANGED <<appended, next, dispatched, thread>> PROVE EntryState' = EntryState
BY DEF EntryState, Exited

LEMMA EntryStateInit == Init => AbstractPlan!PlanInit
BY DEF Init, AbstractPlan!PlanInit, EntryState, AbstractPlan!Pos, Pos

LEMMA EntryStateIs ==
  ASSUME NEW p \in Pos
  PROVE  EntryState[p] = IF p > appended THEN "future"
                         ELSE IF p \in dispatched
                              THEN IF p \in TaskPos /\ ~Exited(p) THEN "running" ELSE "finished"
                         ELSE IF p >= next THEN "queued" ELSE "dropped"
BY DEF EntryState

(* The next entry leaves the queue and becomes v.                          *)
LEMMA FrontLeaves ==
  ASSUME Typed, Inv, ~QueueEmpty, NEW v,
         next' = next + 1, dispatched' = dispatched \cup {next}, UNCHANGED appended,
         \A q \in TaskPos : q # next => thread'[q] = thread[q],
         v = IF next \in TaskPos /\ thread'[next] \notin {"none", "exited"} THEN "running" ELSE "finished"
  PROVE  AbstractPlan!AtFront(next) /\ EntryState' = [EntryState EXCEPT ![next] = v]
<1>1. /\ next \in Pos /\ next \in Nat /\ appended \in Nat /\ next <= appended
      /\ next \notin dispatched /\ Pos \subseteq Nat
  BY FrontEntry DEF Typed, TypeOK, QueueTypeOK, QueueEmpty, Inv, ActiveInv, Pos
<1>2. EntryState[next] = "queued"
  BY <1>1, EntryStateIs
<1>3. \A q \in Pos : EntryState[q] = "queued" => next <= q
  BY <1>1, EntryStateIs
<1>4. AbstractPlan!AtFront(next)
  BY <1>2, <1>3 DEF AbstractPlan!AtFront, AbstractPlan!Pos, Pos
<1>5. EntryState'[next] = v
  BY <1>1 DEF EntryState, Exited
<1>6. ASSUME NEW q \in Pos, q # next PROVE EntryState'[q] = EntryState[q]
  BY <1>1, <1>6 DEF EntryState, Exited
<1>7. EntryState' = [EntryState EXCEPT ![next] = v]
  BY <1>5, <1>6, <1>1 DEF EntryState
<1> QED
  BY <1>4, <1>7

(* TaskQueue::Stop empties the queue once every thread has been joined.    *)
LEMMA ClearDrops ==
  ASSUME Typed, Inv, JoinedAndCleared, UNCHANGED <<thread, appended, dispatched>>
  PROVE  AbstractPlan!Drop
<1>1. Quiet /\ Quiet'
  BY JoinedIsQuiet DEF Inv
<1>2. /\ next' = appended + 1 /\ next \in Nat /\ appended \in Nat /\ next <= appended + 1
      /\ Pos \subseteq Nat
  BY DEF JoinedAndCleared, Typed, TypeOK, QueueTypeOK, Pos
<1>3. AbstractPlan!Idle
  BY <1>1, EntryStateIs DEF AbstractPlan!Idle, AbstractPlan!Pos, Pos, Quiet
<1>4. ASSUME NEW q \in Pos
      PROVE  EntryState'[q] = IF EntryState[q] = "queued" THEN "dropped" ELSE EntryState[q]
  BY <1>1, <1>2 DEF EntryState, Quiet
<1>5. EntryState' = [q \in Pos |-> IF EntryState[q] = "queued" THEN "dropped" ELSE EntryState[q]]
  BY <1>4 DEF EntryState
<1> QED
  BY <1>3, <1>5 DEF AbstractPlan!Drop, AbstractPlan!Pos, Pos

LEMMA StepImplements ==
  ASSUME Typed, Inv, [Next]_vars
  PROVE  AbstractPlan!PlanNext \/ EntryState' = EntryState
<1>1. CASE DispatchTask
  <2>1. next \in TaskPos /\ ~QueueEmpty /\ Plan[next] = "task"
    BY <1>1, FrontEntry DEF DispatchTask, Typed, TypeOK
  <2>2. thread'[next] = "opening" /\ \A q \in TaskPos : q # next => thread'[q] = thread[q]
    BY <1>1, <2>1 DEF DispatchTask, Exited, Typed, TypeOK, TasksTypeOK
  <2>3. AbstractPlan!AtFront(next) /\ EntryState' = [EntryState EXCEPT ![next] = "running"]
    BY <1>1, <2>1, <2>2, FrontLeaves DEF DispatchTask
  <2> QED
    BY <2>1, <2>3 DEF AbstractPlan!PlanNext, AbstractPlan!Start, AbstractPlan!Pos, TaskPos, Pos
<1>2. CASE DispatchSync \/ DispatchOutput
  <2>1. next \in Pos /\ next \notin TaskPos /\ ~QueueEmpty
    BY <1>2, FrontEntry DEF DispatchSync, DispatchOutput, Typed, TypeOK, TaskPos
  <2>2. AbstractPlan!AtFront(next) /\ EntryState' = [EntryState EXCEPT ![next] = "finished"]
    BY <1>2, <2>1, FrontLeaves DEF DispatchSync, DispatchOutput, taskVars
  <2>3. CASE DispatchSync
    <3>1. Quiet
      BY <2>3, NothingActive DEF DispatchSync, Inv
    <3>2. AbstractPlan!Idle
      BY <3>1, EntryStateIs DEF AbstractPlan!Idle, AbstractPlan!Pos, Pos, Quiet
    <3> QED
      BY <2>1, <2>2, <2>3, <3>2
         DEF DispatchSync, AbstractPlan!PlanNext, AbstractPlan!PassSync, AbstractPlan!Pos, Pos
  <2>4. CASE DispatchOutput
    BY <2>1, <2>2, <2>4
       DEF DispatchOutput, AbstractPlan!PlanNext, AbstractPlan!Emit, AbstractPlan!Pos, Pos
  <2> QED
    BY <1>2, <2>3, <2>4
<1>3. CASE FailureStopped \/ ClientStopped
  BY <1>3, ClearDrops DEF FailureStopped, ClientStopped, AbstractPlan!PlanNext, taskVars
<1>4. CASE AppendEntry
  <2> DEFINE a == appended + 1
  <2>1. /\ appended \in Nat /\ a \in Pos /\ a \in Nat /\ next \in Nat /\ next <= a /\ a \notin dispatched
        /\ Pos \subseteq Nat /\ appended' = a
        /\ \A q \in dispatched : q < next
    BY <1>4, PlanLength DEF AppendEntry, Typed, TypeOK, QueueTyped, QueueTypeOK, PlanNotExceeded,
                            Inv, ActiveInv, Pos
  <2>2. UNCHANGED <<next, dispatched, thread>>
    BY <1>4 DEF AppendEntry, taskVars
  <2>3. EntryState[a] = "future" /\ \A q \in Pos : EntryState[q] = "future" => a <= q
    BY <2>1 DEF EntryState
  <2>4. EntryState'[a] = "queued"
    BY <2>1, <2>2 DEF EntryState
  <2>5. ASSUME NEW q \in Pos, q # a PROVE EntryState'[q] = EntryState[q]
    BY <2>1, <2>2, <2>5 DEF EntryState, Exited
  <2>6. EntryState' = [EntryState EXCEPT ![a] = "queued"]
    BY <2>4, <2>5, <2>1 DEF EntryState
  <2> QED
    BY <2>1, <2>3, <2>6 DEF AbstractPlan!PlanNext, AbstractPlan!Enqueue, AbstractPlan!Pos, Pos
<1>5. ASSUME NEW p \in TaskPos, TaskStep(p)
      PROVE  AbstractPlan!PlanNext \/ EntryState' = EntryState
  <2>1. /\ ~Exited(p) /\ p \in dispatched /\ p <= appended /\ p \in Pos
        /\ \A q \in TaskPos \ {p} : thread'[q] = thread[q]
        /\ UNCHANGED <<appended, next, dispatched>>
    BY <1>5, TaskMoves DEF Typed, TypeOK, QueueTypeOK, HistoryTypeOK, Inv, ActiveInv, queueVars, Pos,
                           TaskPos
  <2>2. EntryState[p] = "running"
    BY <2>1, EntryStateIs DEF Pos, Typed, TypeOK, QueueTypeOK
  <2>3. ASSUME NEW q \in Pos, q # p PROVE EntryState'[q] = EntryState[q]
    BY <2>1, <2>3 DEF EntryState, Exited
  <2>4. CASE Exited(p)'
    <3>1. EntryState'[p] = "finished"
      BY <2>1, <2>4 DEF EntryState, Pos, Typed, TypeOK, QueueTypeOK
    <3>2. EntryState' = [EntryState EXCEPT ![p] = "finished"]
      BY <2>1, <2>3, <3>1 DEF EntryState
    <3> QED
      BY <2>1, <2>2, <3>2 DEF AbstractPlan!PlanNext, AbstractPlan!End, AbstractPlan!Pos, Pos
  <2>5. CASE ~Exited(p)'
    <3>1. EntryState'[p] = EntryState[p]
      BY <2>1, <2>5 DEF EntryState
    <3> QED
      BY <2>3, <3>1 DEF EntryState
  <2> QED
    BY <2>4, <2>5
<1>6. CASE CtlLoop \/ CtlInner \/ ProcessEnter \/ Scan \/ FailureStop \/ SyncBlocked
           \/ NothingQueued \/ Wake \/ CheckIsDone \/ CheckFailed \/ ReportFailure
  BY <1>6, EntryStateUnchanged DEF CtlLoop, CtlInner, ProcessEnter, Scan, ScanFailure, ScanKeep,
     ScanErase, FailureStop, SyncBlocked, NothingQueued, Wake, CheckIsDone, CheckFailed,
     ReportFailure, queueVars, taskVars
<1>7. CASE PauseActive \/ ResumeActive \/ ClientStop \/ SendAborted \/ JoinControl
  BY <1>7, EntryStateUnchanged DEF PauseActive, ResumeActive, ClientStop, SendAborted,
     JoinControl, queueVars, taskVars
<1>8. CASE Request \/ SpuriousWakeup \/ UNCHANGED vars
  BY <1>8, EntryStateUnchanged DEF Request, StartJob, RequestAccepted, Destroy, SpuriousWakeup,
     vars, queueVars, taskVars
<1> QED
  BY <1>1, <1>2, <1>3, <1>4, <1>5, <1>6, <1>7, <1>8 DEF Next, ControlStep, Dispatch, ClientStep

(* Every behaviour of the queue, with its threads, failures, pauses and    *)
(* stops, is one of the abstract plan.                                     *)
THEOREM QueueImplementsPlan == Spec => ImplementsPlan
<1>1. Init => AbstractPlan!PlanInit
  BY EntryStateInit
<1>2. Typed /\ Inv /\ [Next]_vars => [AbstractPlan!PlanNext]_EntryState
  BY StepImplements
<1> QED
  BY <1>1, <1>2, Invariance, PTL DEF Spec, ImplementsPlan, AbstractPlan!Spec

=============================================================================
