----------------------------- MODULE TaskQueue -----------------------------
(***************************************************************************)
(* The back end's job scheduler: a TaskQueue (backend/support/taskqueue),  *)
(* the Task threads it starts (backend/support/task), the control thread   *)
(* that drives it (Scene::ParserControlThread, View::RenderControlThread)  *)
(* and the back end's main thread, which fills the queue, pauses, resumes  *)
(* and stops it and finally destroys the Scene or View that owns it.       *)
(*                                                                         *)
(* A Scene or View is started once: Plan is the list of entries that one   *)
(* StartParser or StartRender call appends.  An entry is named by its      *)
(* position in Plan, so the FIFO `queuedTasks' is the interval of          *)
(* positions next..appended, and `activeTasks', to which entries are only  *)
(* ever appended in queue order, is a set scanned in increasing order.     *)
(*                                                                         *)
(* One action is what one thread does between two points at which another  *)
(* thread can interfere.  The methods of TaskQueue hold queueMutex         *)
(* throughout, but the task threads write failed and done without it, and  *)
(* TaskQueue::Process and TaskQueue::Stop join threads while they hold it; *)
(* those two methods are therefore several steps with mutex held.          *)
(***************************************************************************)
EXTENDS Integers, Sequences

CONSTANTS
  Plan,                 \* the entries appended by one Start call, in order
  Codes,                \* the failure codes a task can end with
  kNoError,             \* no failure
  kUncategorizedError,  \* reported when the queue holds no code any more
  kUserAbortErr,        \* reported by StopParser and StopRender
  kDone                 \* the verdict "Done", as opposed to a failure code

Kinds == {"task", "sync", "message", "function"}

ASSUME PlanAssumption == Plan \in Seq(Kinds) /\ Plan # << >>

(* Every plan waits for its tasks before it reports.                       *)
ASSUME PlanSyncsAssumption ==
  \E s \in 1..Len(Plan) : Plan[s] = "sync" /\ \A q \in s..Len(Plan) : Plan[q] # "task"

(* Codes may hold the two generic codes; a verdict is a code or Done.      *)
ASSUME CodesAssumption ==
  /\ kNoError \notin Codes \cup {kUncategorizedError, kUserAbortErr, kDone}
  /\ kDone \notin Codes \cup {kUncategorizedError, kUserAbortErr}

Pos     == 1..Len(Plan)
TaskPos == {p \in Pos : Plan[p] = "task"}

VARIABLES
  next,           \* position of queuedTasks.front(), if the queue is not empty
  appended,       \* how many entries of Plan have been appended
  active,         \* TaskQueue::activeTasks
  failed,         \* TaskQueue::failed
  mutex,          \* who holds queueMutex between two steps
  waiting,        \* the control thread is blocked on processCondition
  ctl,            \* program counter of the control thread
  unscanned,      \* active tasks Process has yet to look at
  sentFailed,     \* sentFailedResult of the control thread
  cli,            \* program counter of the back end's main thread
  stopRequsted,   \* Scene::stopRequsted, View::stopRequsted
  thread,         \* per task: where its thread is
  stopRequested,  \* per task: Task::stopRequested
  paused,         \* per task: Task::paused
  done,           \* per task: Task::done
  taskFailed,     \* per task: Task::failed
  dispatched,     \* history: entries taken off the queue and acted upon
  verdicts        \* history: Done and Failed messages sent to the front end

queueVars == <<next, appended, active, failed>>
ctlVars   == <<ctl, unscanned, sentFailed>>
taskVars  == <<thread, stopRequested, paused, done, taskFailed>>
vars == <<queueVars, mutex, waiting, ctlVars, cli, stopRequsted, taskVars,
          dispatched, verdicts>>

QueueEmpty == next > appended

(* Start of a task thread up to its exit, in program order.                *)
ThreadStates == {"none", "opening", "running", "held", "finishing", "closing", "exited"}
Exited(p)    == thread[p] \in {"none", "exited"}

(* Task::IsRunning and Task::IsPaused                                      *)
IsRunning(p) == ~done[p] /\ ~paused[p] /\ ~stopRequested[p] /\ thread[p] # "none"
IsPaused(p)  == ~done[p] /\ paused[p]

(* Anyone may run a method of the queue that does not block.               *)
Unlocked == mutex = "none"

(* Variant: the waiter is not notified.                                    *)
NotNotified == UNCHANGED waiting

(* TaskQueue::Notify: notify_one on a condition with at most one waiter.   *)
Notify == waiting' = FALSE

Init ==
  /\ next = 1 /\ appended = 0 /\ active = {} /\ failed = kNoError
  /\ mutex = "none" /\ waiting = FALSE
  /\ ctl = "none" /\ unscanned = {} /\ sentFailed = FALSE
  /\ cli = "idle" /\ stopRequsted = FALSE
  /\ thread = [p \in TaskPos |-> "none"]
  /\ stopRequested = [p \in TaskPos |-> FALSE]
  /\ paused = [p \in TaskPos |-> FALSE]
  /\ done = [p \in TaskPos |-> FALSE]
  /\ taskFailed = [p \in TaskPos |-> kNoError]
  /\ dispatched = {} /\ verdicts = << >>

-----------------------------------------------------------------------------
(* The body of TaskQueue::Stop, in the two parts between which it blocks:  *)
(* ask every active task to stop, then join them all and drop everything.  *)

RequestStopAll ==
  stopRequested' = [p \in TaskPos |-> stopRequested[p] \/ p \in active]

(* Variant: the second pass over the active tasks is missing.              *)
ClearedNotJoined ==
  /\ active' = {}
  /\ next' = appended + 1
  /\ Notify
  /\ mutex' = "none"

JoinedAndCleared ==
  /\ \A p \in active : Exited(p)
  /\ active' = {}
  /\ next' = appended + 1
  /\ Notify
  /\ mutex' = "none"

-----------------------------------------------------------------------------
(* Control thread.  "loop" is the head of the outer while, "enter" the     *)
(* call of Process, "inner" its return with true, "isdone" its return with *)
(* false.                                                                  *)

CtlLoop ==
  /\ ctl = "loop"
  /\ ctl' = IF stopRequsted THEN "exit" ELSE "enter"
  /\ UNCHANGED <<queueVars, mutex, waiting, unscanned, sentFailed, cli, stopRequsted,
                 taskVars, dispatched, verdicts>>

CtlInner ==
  /\ ctl = "inner"
  /\ ctl' = IF stopRequsted THEN "isdone" ELSE "enter"
  /\ UNCHANGED <<queueVars, mutex, waiting, unscanned, sentFailed, cli, stopRequsted,
                 taskVars, dispatched, verdicts>>

ProcessEnter ==
  /\ ctl = "enter" /\ Unlocked
  /\ mutex' = "control"
  /\ unscanned' = active
  /\ ctl' = "scan"
  /\ UNCHANGED <<queueVars, waiting, sentFailed, cli, stopRequsted, taskVars,
                 dispatched, verdicts>>

(* The task the iterator of Process points at.                             *)
IsCurrent(p) == p \in unscanned /\ \A q \in unscanned : p <= q

(* First read of the loop body: the failure code, if none is latched yet.  *)
ScanFailure(p) ==
  /\ ctl = "scan" /\ IsCurrent(p)
  /\ failed' = IF failed = kNoError THEN taskFailed[p] ELSE failed
  /\ ctl' = "scanned"
  /\ UNCHANGED <<next, appended, active, mutex, waiting, unscanned, sentFailed, cli,
                 stopRequsted, taskVars, dispatched, verdicts>>

(* Second read: a task not done stays in the list ...                      *)
ScanKeep(p) ==
  /\ ctl = "scanned" /\ IsCurrent(p)
  /\ ~done[p]
  /\ unscanned' = unscanned \ {p}
  /\ ctl' = "scan"
  /\ UNCHANGED <<queueVars, mutex, waiting, sentFailed, cli, stopRequsted, taskVars,
                 dispatched, verdicts>>

(* Variant: the destructor does not join the thread.                       *)
EraseNotJoined(p) ==
  /\ ctl = "scanned" /\ IsCurrent(p)
  /\ done[p]
  /\ stopRequested' = [stopRequested EXCEPT ![p] = TRUE]
  /\ active' = active \ {p}
  /\ unscanned' = unscanned \ {p}
  /\ ctl' = "scan"
  /\ UNCHANGED <<next, appended, failed, mutex, waiting, sentFailed, cli, stopRequsted,
                 thread, paused, done, taskFailed, dispatched, verdicts>>

(* ... and a task that is done is erased, which runs ~Task: Stop and join. *)
ScanErase(p) ==
  /\ ctl = "scanned" /\ IsCurrent(p)
  /\ done[p] /\ Exited(p)
  /\ stopRequested' = [stopRequested EXCEPT ![p] = TRUE]
  /\ active' = active \ {p}
  /\ unscanned' = unscanned \ {p}
  /\ ctl' = "scan"
  /\ UNCHANGED <<next, appended, failed, mutex, waiting, sentFailed, cli, stopRequsted,
                 thread, paused, done, taskFailed, dispatched, verdicts>>

(* A latched failure stops the whole queue.                                *)
FailureStop ==
  /\ ctl = "scan" /\ unscanned = {} /\ failed # kNoError
  /\ RequestStopAll
  /\ ctl' = "stopping"
  /\ UNCHANGED <<queueVars, mutex, waiting, unscanned, sentFailed, cli, stopRequsted,
                 thread, paused, done, taskFailed, dispatched, verdicts>>

FailureStopped ==
  /\ ctl = "stopping"
  /\ JoinedAndCleared
  /\ ctl' = "isdone"
  /\ UNCHANGED <<appended, failed, unscanned, sentFailed, cli, stopRequsted, taskVars,
                 dispatched, verdicts>>

(* Process has scanned without failure and looks at the front of the queue *)
ReadyToDispatch == ctl = "scan" /\ unscanned = {} /\ failed = kNoError

(* The tail of Process: wait while the queue is empty, else return true.   *)
WaitOrReturn ==
  /\ mutex' = "none"
  /\ IF next' > appended THEN waiting' = TRUE  /\ ctl' = "waiting"
                         ELSE waiting' = waiting /\ ctl' = "inner"

DispatchTask ==
  /\ ReadyToDispatch /\ ~QueueEmpty /\ Plan[next] = "task"
  /\ active' = active \cup {next}
  /\ thread' = [thread EXCEPT ![next] = "opening"]
  /\ dispatched' = dispatched \cup {next}
  /\ next' = next + 1
  /\ WaitOrReturn
  /\ UNCHANGED <<appended, failed, unscanned, sentFailed, cli, stopRequsted,
                 stopRequested, paused, done, taskFailed, verdicts>>

(* Variant: the sync is popped while tasks are active.                     *)
DispatchSyncAtOnce ==
  /\ ReadyToDispatch /\ ~QueueEmpty /\ Plan[next] = "sync"
  /\ dispatched' = dispatched \cup {next}
  /\ next' = next + 1
  /\ WaitOrReturn
  /\ UNCHANGED <<appended, active, failed, unscanned, sentFailed, cli, stopRequsted,
                 taskVars, verdicts>>

DispatchSync ==
  /\ ReadyToDispatch /\ ~QueueEmpty /\ Plan[next] = "sync" /\ active = {}
  /\ dispatched' = dispatched \cup {next}
  /\ next' = next + 1
  /\ WaitOrReturn
  /\ UNCHANGED <<appended, active, failed, unscanned, sentFailed, cli, stopRequsted,
                 taskVars, verdicts>>

SyncBlocked ==
  /\ ReadyToDispatch /\ ~QueueEmpty /\ Plan[next] = "sync" /\ active # {}
  /\ mutex' = "none"
  /\ ctl' = "isdone"
  /\ UNCHANGED <<queueVars, waiting, unscanned, sentFailed, cli, stopRequsted, taskVars,
                 dispatched, verdicts>>

(* A message is sent, a function called; the last entry of a plan is the   *)
(* one that tells the front end that the job is done.                      *)
DispatchOutput ==
  /\ ReadyToDispatch /\ ~QueueEmpty /\ Plan[next] \in {"message", "function"}
  /\ verdicts' = IF next = Len(Plan) THEN Append(verdicts, kDone) ELSE verdicts
  /\ dispatched' = dispatched \cup {next}
  /\ next' = next + 1
  /\ WaitOrReturn
  /\ UNCHANGED <<appended, active, failed, unscanned, sentFailed, cli, stopRequsted, taskVars>>

NothingQueued ==
  /\ ReadyToDispatch /\ QueueEmpty
  /\ next' = next
  /\ WaitOrReturn
  /\ UNCHANGED <<appended, active, failed, unscanned, sentFailed, cli, stopRequsted,
                 taskVars, dispatched, verdicts>>

(* Return from processCondition.wait: the mutex is taken again, and the    *)
(* result of Process read from the queue.                                  *)
Wake ==
  /\ ctl = "waiting" /\ ~waiting /\ Unlocked
  /\ ctl' = IF QueueEmpty THEN "isdone" ELSE "inner"
  /\ UNCHANGED <<queueVars, mutex, waiting, unscanned, sentFailed, cli, stopRequsted,
                 taskVars, dispatched, verdicts>>

(* boost::condition allows a wait to return without a notification.        *)
SpuriousWakeup ==
  /\ waiting
  /\ waiting' = FALSE
  /\ UNCHANGED <<queueVars, mutex, ctlVars, cli, stopRequsted, taskVars, dispatched, verdicts>>

(* The three reads that decide on a Failed message each lock the queue.    *)
CheckIsDone ==
  /\ ctl = "isdone" /\ Unlocked
  /\ ctl' = IF QueueEmpty /\ \A p \in active : done[p] THEN "failed" ELSE "loop"
  /\ UNCHANGED <<queueVars, mutex, waiting, unscanned, sentFailed, cli, stopRequsted,
                 taskVars, dispatched, verdicts>>

CheckFailed ==
  /\ ctl = "failed" /\ Unlocked
  /\ ctl' = IF failed # kNoError /\ ~sentFailed THEN "report" ELSE "loop"
  /\ UNCHANGED <<queueVars, mutex, waiting, unscanned, sentFailed, cli, stopRequsted,
                 taskVars, dispatched, verdicts>>

ReportFailure ==
  /\ ctl = "report" /\ Unlocked
  /\ verdicts' = Append(verdicts, IF failed = kNoError THEN kUncategorizedError ELSE failed)
  /\ sentFailed' = TRUE
  /\ ctl' = "loop"
  /\ UNCHANGED <<queueVars, mutex, waiting, unscanned, cli, stopRequsted, taskVars, dispatched>>

Scan == \E p \in TaskPos : ScanFailure(p) \/ ScanKeep(p) \/ ScanErase(p)

Dispatch == DispatchTask \/ DispatchSync \/ SyncBlocked \/ DispatchOutput \/ NothingQueued

ControlStep ==
  \/ CtlLoop \/ CtlInner \/ ProcessEnter \/ Scan \/ FailureStop \/ FailureStopped
  \/ Dispatch \/ Wake \/ CheckIsDone \/ CheckFailed \/ ReportFailure

-----------------------------------------------------------------------------
(* Task threads.                                                           *)

(* POVMS_OpenContext: on failure the thread ends without calling           *)
(* completion().                                                           *)
Open(p) ==
  /\ thread[p] = "opening"
  /\ thread' = [thread EXCEPT ![p] = "running"]
  /\ UNCHANGED <<queueVars, mutex, waiting, ctlVars, cli, stopRequsted, stopRequested,
                 paused, done, taskFailed, dispatched, verdicts>>

OpenFails(p) ==
  /\ thread[p] = "opening"
  /\ \E c \in Codes : taskFailed' = [taskFailed EXCEPT ![p] = c]
  /\ done' = [done EXCEPT ![p] = TRUE]
  /\ thread' = [thread EXCEPT ![p] = "exited"]
  /\ UNCHANGED <<queueVars, mutex, waiting, ctlVars, cli, stopRequsted, stopRequested,
                 paused, dispatched, verdicts>>

(* Run returns, or Cooperate throws StopThreadException and Stopped (which *)
(* does nothing in every task) is called.                                  *)
RunReturns(p) ==
  /\ thread[p] = "running"
  /\ thread' = [thread EXCEPT ![p] = "finishing"]
  /\ UNCHANGED <<queueVars, mutex, waiting, ctlVars, cli, stopRequsted, stopRequested,
                 paused, done, taskFailed, dispatched, verdicts>>

RunFails(p) ==
  /\ thread[p] = "running"
  /\ \E c \in Codes : taskFailed' = [taskFailed EXCEPT ![p] = c]
  /\ thread' = [thread EXCEPT ![p] = "finishing"]
  /\ UNCHANGED <<queueVars, mutex, waiting, ctlVars, cli, stopRequsted, stopRequested,
                 paused, done, dispatched, verdicts>>

(* Cooperate: a paused task sleeps until it is resumed or stopped.         *)
Hold(p) ==
  /\ thread[p] = "running" /\ paused[p] /\ ~stopRequested[p]
  /\ thread' = [thread EXCEPT ![p] = "held"]
  /\ UNCHANGED <<queueVars, mutex, waiting, ctlVars, cli, stopRequsted, stopRequested,
                 paused, done, taskFailed, dispatched, verdicts>>

(* Variant: a paused task does not look at stopRequested.                  *)
UnholdIfResumed(p) ==
  /\ thread[p] = "held" /\ ~paused[p]
  /\ thread' = [thread EXCEPT ![p] = IF stopRequested[p] THEN "finishing" ELSE "running"]
  /\ UNCHANGED <<queueVars, mutex, waiting, ctlVars, cli, stopRequsted, stopRequested,
                 paused, done, taskFailed, dispatched, verdicts>>

Unhold(p) ==
  /\ thread[p] = "held" /\ (stopRequested[p] \/ ~paused[p])
  /\ thread' = [thread EXCEPT ![p] = IF stopRequested[p] THEN "finishing" ELSE "running"]
  /\ UNCHANGED <<queueVars, mutex, waiting, ctlVars, cli, stopRequsted, stopRequested,
                 paused, done, taskFailed, dispatched, verdicts>>

(* Finish, then done = true.                                               *)
Finish(p) ==
  /\ thread[p] = "finishing"
  /\ done' = [done EXCEPT ![p] = TRUE]
  /\ thread' = [thread EXCEPT ![p] = "closing"]
  /\ UNCHANGED <<queueVars, mutex, waiting, ctlVars, cli, stopRequsted, stopRequested,
                 paused, taskFailed, dispatched, verdicts>>

(* completion(), that is TaskQueue::Notify without the mutex; thread exit. *)
Complete(p) ==
  /\ thread[p] = "closing"
  /\ Notify
  /\ thread' = [thread EXCEPT ![p] = "exited"]
  /\ UNCHANGED <<queueVars, mutex, ctlVars, cli, stopRequsted, stopRequested, paused,
                 done, taskFailed, dispatched, verdicts>>

TaskStep(p) ==
  \/ Open(p) \/ OpenFails(p) \/ RunReturns(p) \/ RunFails(p) \/ Hold(p) \/ Unhold(p)
  \/ Finish(p) \/ Complete(p)

-----------------------------------------------------------------------------
(* The back end's main thread.                                             *)

(* StartParser, StartRender: create the control thread ...                 *)
StartJob ==
  /\ cli = "idle" /\ ctl = "none"
  /\ ctl' = "loop"
  /\ cli' = "appending"
  /\ UNCHANGED <<queueVars, mutex, waiting, unscanned, sentFailed, stopRequsted, taskVars,
                 dispatched, verdicts>>

(* ... then append the plan, entry by entry, while it already runs.        *)
AppendEntry ==
  /\ cli = "appending" /\ Unlocked
  /\ appended' = appended + 1
  /\ failed' = IF Plan[appended + 1] = "task" THEN kNoError ELSE failed
  /\ Notify
  /\ cli' = IF appended + 1 = Len(Plan) THEN "idle" ELSE "appending"
  /\ UNCHANGED <<next, active, mutex, ctlVars, stopRequsted, taskVars, dispatched, verdicts>>

(* RenderBackend::Pause..., Resume..., Stop...: the request is accepted if  *)
(* the job is running or paused; the method itself locks the queue again.  *)
InProgress == ~QueueEmpty \/ \E p \in active : IsRunning(p) \/ IsPaused(p)

RequestAccepted ==
  /\ cli = "idle" /\ Unlocked
  /\ InProgress
  /\ cli' \in {"pause", "resume", "stop"}
  /\ UNCHANGED <<queueVars, mutex, waiting, ctlVars, stopRequsted, taskVars, dispatched, verdicts>>

(* TaskQueue::Pause and TaskQueue::Resume reach the active tasks only.     *)
PauseActive ==
  /\ cli = "pause" /\ Unlocked
  /\ paused' = [p \in TaskPos |-> paused[p] \/ p \in active]
  /\ cli' = "idle"
  /\ UNCHANGED <<queueVars, mutex, waiting, ctlVars, stopRequsted, thread, stopRequested,
                 done, taskFailed, dispatched, verdicts>>

ResumeActive ==
  /\ cli = "resume" /\ Unlocked
  /\ paused' = [p \in TaskPos |-> paused[p] /\ p \notin active]
  /\ cli' = "idle"
  /\ UNCHANGED <<queueVars, mutex, waiting, ctlVars, stopRequsted, thread, stopRequested,
                 done, taskFailed, dispatched, verdicts>>

(* ~Scene, ~View: stopRequsted is set before the queue is stopped.         *)
Destroy ==
  /\ cli = "idle"
  /\ stopRequsted' = TRUE
  /\ cli' = "destroy"
  /\ UNCHANGED <<queueVars, mutex, waiting, ctlVars, taskVars, dispatched, verdicts>>

ClientStop ==
  /\ cli \in {"stop", "destroy"} /\ Unlocked
  /\ mutex' = "client"
  /\ RequestStopAll
  /\ UNCHANGED <<queueVars, waiting, ctlVars, cli, stopRequsted, thread, paused, done,
                 taskFailed, dispatched, verdicts>>

ClientStopped ==
  /\ mutex = "client"
  /\ JoinedAndCleared
  /\ cli' = IF cli = "stop" THEN "abort" ELSE "join"
  /\ UNCHANGED <<appended, failed, ctlVars, stopRequsted, taskVars, dispatched, verdicts>>

SendAborted ==
  /\ cli = "abort"
  /\ verdicts' = Append(verdicts, kUserAbortErr)
  /\ cli' = "idle"
  /\ UNCHANGED <<queueVars, mutex, waiting, ctlVars, stopRequsted, taskVars, dispatched>>

(* The destructor joins the control thread, if there is one.               *)
JoinControl ==
  /\ cli = "join" /\ ctl \in {"none", "exit"}
  /\ cli' = "gone"
  /\ UNCHANGED <<queueVars, mutex, waiting, ctlVars, stopRequsted, taskVars, dispatched, verdicts>>

(* What the main thread does by itself once a request has been made ...    *)
ClientStep ==
  \/ AppendEntry \/ PauseActive \/ ResumeActive
  \/ ClientStop \/ ClientStopped \/ SendAborted \/ JoinControl
(* ... and the requests, which the front end may or may not make.          *)
Request == StartJob \/ RequestAccepted \/ Destroy

-----------------------------------------------------------------------------
Next ==
  \/ ControlStep
  \/ SpuriousWakeup
  \/ \E p \in TaskPos : TaskStep(p)
  \/ ClientStep
  \/ Request

(* Every thread keeps running.  The main thread also gets queueMutex in    *)
(* the end, although the control thread polls: that thread sleeps 10 ms    *)
(* without the mutex on every turn of its loop.  Nothing is assumed of the *)
(* front end's requests, of spurious wakeups or of how tasks end.          *)
Fairness ==
  /\ WF_vars(ControlStep)
  /\ SF_vars(ClientStep)
  /\ \A p \in TaskPos : WF_vars(TaskStep(p))

Spec     == Init /\ [][Next]_vars
FairSpec == Spec /\ Fairness

-----------------------------------------------------------------------------
(* Properties.                                                             *)

(* The state has the shape the declarations of the code give it.           *)
QueueTypeOK ==
  /\ appended \in 0..Len(Plan) /\ next \in 1..(appended + 1)
  /\ active \subseteq TaskPos
  /\ failed \in Codes \cup {kNoError}

ThreadsTypeOK ==
  /\ mutex \in {"none", "control", "client"} /\ waiting \in BOOLEAN
  /\ ctl \in {"none", "loop", "inner", "enter", "scan", "scanned", "stopping", "waiting",
              "isdone", "failed", "report", "exit"}
  /\ unscanned \subseteq TaskPos /\ sentFailed \in BOOLEAN
  /\ cli \in {"idle", "appending", "pause", "resume", "stop", "abort", "destroy", "join", "gone"}
  /\ stopRequsted \in BOOLEAN

TasksTypeOK ==
  /\ thread \in [TaskPos -> ThreadStates]
  /\ stopRequested \in [TaskPos -> BOOLEAN]
  /\ paused \in [TaskPos -> BOOLEAN]
  /\ done \in [TaskPos -> BOOLEAN]
  /\ taskFailed \in [TaskPos -> Codes \cup {kNoError}]

HistoryTypeOK ==
  /\ dispatched \subseteq Pos
  /\ verdicts \in Seq(Codes \cup {kUncategorizedError, kUserAbortErr, kDone})

TypeOK == QueueTypeOK /\ ThreadsTypeOK /\ TasksTypeOK /\ HistoryTypeOK

(* AppendSync is a barrier: once an entry behind a sync has been started,  *)
(* no thread of a task in front of that sync exists, whatever was paused,  *)
(* stopped or failed in between (the bounding task may read what the       *)
(* parser task wrote, the next pass may reset the block counter).          *)
SyncBarrier ==
  \A p \in dispatched : \A s \in 1..(p - 1) : Plan[s] = "sync" =>
    \A q \in TaskPos : q < s => Exited(q)

(* When TaskQueue::Stop has returned to the back end's main thread, no task *)
(* thread of the job is left: the destructor may go on to delete the data  *)
(* the tasks work on.                                                      *)
StopQuiesces == cli \in {"abort", "join", "gone"} => \A p \in TaskPos : Exited(p)

(* The state has its type, and a stop leaves no thread.                    *)
QueueInv == TypeOK /\ StopQuiesces

(* After a stop nothing of the job starts or moves any more, although the  *)
(* control thread goes on calling Process.                                 *)
StopIsFinal ==
  [][(cli \in {"abort", "join", "gone"}) => UNCHANGED <<dispatched, thread>>]_vars

(* A Done or Failed message is the last sign of life of the tasks: when it *)
(* is sent no task thread exists, so that the front end may close the      *)
(* scene or view, or start the next step, as soon as it sees the message.  *)
VerdictMeansQuiet == [][verdicts' # verdicts => \A p \in TaskPos : Exited(p)]_vars

(* A job that was reported done is never reported failed by a task error.  *)
NoFailureAfterDone ==
  \A i, j \in 1..Len(verdicts) :
    (i < j /\ verdicts[i] = kDone) => verdicts[j] = kUserAbortErr

(* Whatever the interleaving of append, failure, stop and wakeup, a job    *)
(* that is not left paused ends in a Done or Failed message (unless the    *)
(* scene or view is destroyed first).                                      *)
NotLeftPaused == <>[](\A p \in TaskPos : ~paused[p])
JobEnds == NotLeftPaused => (ctl # "none" ~> (verdicts # << >> \/ stopRequsted))

(* A stop request, paused tasks or not, comes back: the main thread is not *)
(* left in TaskQueue::Stop joining a thread that does not end.             *)
StopCompletes == (cli = "stop") ~> (cli = "idle")

(* The destructor of a Scene or View returns.                              *)
(* scene.cpp:440 "NOTE: Order is important here, set this before stopping  *)
(* the queue!"                                                             *)
TeardownCompletes == (cli = "destroy") ~> (cli = "gone")

(* The queue implements the plan: see TaskPlan.                            *)
EntryState ==
  [p \in Pos |->
     IF p > appended THEN "future"
     ELSE IF p \in dispatched THEN IF p \in TaskPos /\ ~Exited(p) THEN "running" ELSE "finished"
     ELSE IF p >= next THEN "queued" ELSE "dropped"]

AbstractPlan == INSTANCE TaskPlan WITH state <- EntryState
ImplementsPlan == AbstractPlan!Spec

=============================================================================
