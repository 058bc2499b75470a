---------------------------- MODULE RenderBackend ----------------------------
(***************************************************************************)
(* The back end's registry of scenes and views: one action per request     *)
(* handler of RenderBackend, run by its main thread one message at a time, *)
(* and the jobs these requests start.  A job is what TaskQueue models in    *)
(* detail; here it runs, fails, is paused or stopped, and sends its         *)
(* verdict.  Messages of POVMS arrive in the order they were sent.          *)
(***************************************************************************)
EXTENDS Naturals, Sequences

CONSTANTS
    SceneIds,   \* identifiers a behaviour may use up: 1..n, never reused
    ViewIds

ASSUME IdsAssumption == \A I \in {SceneIds, ViewIds}:
    I \subseteq Nat \ {0} /\ \A i \in I: \A j \in 1..i: j \in I

\* A scene or a view; number 0 is the default-constructed Id().
Scene(i) == <<"scene", i>>
View(i) == <<"view", i>>
Objects == {Scene(i): i \in SceneIds} \cup {View(i): i \in ViewIds}

JobStates == {"none",      \* no such scene or view (any more)
              "idle",      \* created, nothing was started
              "running", "paused",
              "failing",   \* a failure is latched, the queue is empty
              "done",      \* Done was sent
              "stopped",   \* stopped by request, no failure is latched
              "failed"}    \* Failed was sent by the control thread

VARIABLES
    toBack,         \* requests on their way to the back end
    toFront,        \* replies and verdicts on their way to the front end
    job,            \* [Objects -> JobStates]
    scenecounter,
    viewcounter,
    view2scene      \* [ViewIds -> SceneIds \cup {0}]; an entry whose view is
                    \* gone stands for no entry

backVars == <<toBack, toFront, job, scenecounter, viewcounter, view2scene>>

Reply(code, obj) == [kind |-> "reply", code |-> code, obj |-> obj]
Verdict(code, obj) == [kind |-> "verdict", code |-> code, obj |-> obj]
Codes == {"Done", "NotNow", "Failed"}   \* NotNow: Failed with kNotNowErr
Messages == [kind: {"reply", "verdict"}, code: Codes,
             obj: Objects \cup {Scene(0), View(0)}]
Ops == {"CreateScene", "CloseScene", "CreateView", "CloseView", "StartParser",
        "StartRender", "Pause", "Resume", "Stop"}
Requests == [op: Ops, obj: Objects \cup {Scene(0)}]

BackTypeOK ==
    /\ toBack \in Seq(Requests)
    /\ toFront \in Seq(Messages)
    /\ job \in [Objects -> JobStates]
    /\ scenecounter \in SceneIds \cup {0}
    /\ viewcounter \in ViewIds \cup {0}
    /\ view2scene \in [ViewIds -> SceneIds \cup {0}]

BackInit ==
    /\ toBack = <<>> /\ toFront = <<>>
    /\ job = [o \in Objects |-> "none"]
    /\ scenecounter = 0 /\ viewcounter = 0
    /\ view2scene = [v \in ViewIds |-> 0]

ViewsOf(s) == {v \in ViewIds: view2scene[v] = s /\ job[View(v)] # "none"}

(* TaskQueue::IsRunning or IsPaused, the guard of Pause, Resume and Stop.   *)
Busy(o) == job[o] \in {"running", "paused"}

\* The main thread takes the next request and answers it with the messages ms.
Handle(op, ms) ==
    /\ toBack # <<>> /\ Head(toBack).op = op
    /\ toBack' = Tail(toBack)
    /\ toFront' = toFront \o ms

Arg == Head(toBack).obj

-----------------------------------------------------------------------------
(* Creating and closing.  Creating fails when memory runs out.              *)

CreateScene ==
    \/ LET sid == scenecounter + 1 IN
        /\ Handle("CreateScene", <<Reply("Done", Scene(sid))>>)
        /\ sid \in SceneIds
        /\ scenecounter' = sid
        /\ job' = [job EXCEPT ![Scene(sid)] = "idle"]
        /\ UNCHANGED <<viewcounter, view2scene>>
    \/ /\ Handle("CreateScene", <<Reply("Failed", Scene(0))>>)
       /\ UNCHANGED <<job, scenecounter, viewcounter, view2scene>>

\* A variant with an error: the views are not looked at.
CloseSceneAnyway ==
    /\ Handle("CloseScene", <<Reply(IF job[Arg] = "none" THEN "Failed" ELSE "Done", Arg)>>)
    /\ job' = [job EXCEPT ![Arg] = "none"]
    /\ UNCHANGED <<scenecounter, viewcounter, view2scene>>

CloseScene ==
    /\ Handle("CloseScene", <<Reply(CASE job[Arg] = "none" -> "Failed"
                                      [] ViewsOf(Arg[2]) # {} -> "NotNow"
                                      [] OTHER -> "Done", Arg)>>)
    /\ job' = IF ViewsOf(Arg[2]) = {} THEN [job EXCEPT ![Arg] = "none"] ELSE job
    /\ UNCHANGED <<scenecounter, viewcounter, view2scene>>

(* Scene::NewView: the parser's queue must be empty and must not have       *)
(* failed.  A queue nothing was ever put into passes.                       *)
Viewable(o) == job[o] \in {"idle", "done", "stopped"}

CreateView ==
    \/ LET vid == viewcounter + 1 IN
        /\ Handle("CreateView", <<Reply("Done", View(vid))>>)
        /\ Viewable(Arg)
        /\ vid \in ViewIds
        /\ viewcounter' = vid
        /\ job' = [job EXCEPT ![View(vid)] = "idle"]
        /\ view2scene' = [view2scene EXCEPT ![vid] = Arg[2]]
        /\ UNCHANGED scenecounter
    \/ /\ Handle("CreateView",
            <<Reply(IF job[Arg] # "none" /\ ~Viewable(Arg) THEN "NotNow" ELSE "Failed",
                    View(0))>>)
       /\ UNCHANGED <<job, scenecounter, viewcounter, view2scene>>

CloseView ==
    /\ Handle("CloseView",
            <<Reply(IF job[Arg] = "none" THEN "Failed" ELSE "Done", Arg)>>)
    /\ job' = [job EXCEPT ![Arg] = "none"]
    /\ UNCHANGED <<scenecounter, viewcounter, view2scene>>

-----------------------------------------------------------------------------
(* Starting: no reply, a refusal comes as a Failed verdict.                 *)

Jobs(new) == job' = new /\ UNCHANGED <<scenecounter, viewcounter, view2scene>>

\* A scene is parsed once; a second start is ignored.
StartParser ==
    \/ /\ Handle("StartParser", <<>>)
       /\ job[Arg] # "none"
       /\ Jobs(IF job[Arg] = "idle" THEN [job EXCEPT ![Arg] = "running"] ELSE job)
    \/ /\ Handle("StartParser", <<Verdict("Failed", Arg)>>)
       /\ job[Arg] = "none"
       /\ Jobs(job)

\* View::StartRender throws on options it cannot use.
StartRender ==
    \/ /\ Handle("StartRender", <<>>)
       /\ job[Arg] \notin {"none", "running"}
       /\ Jobs([job EXCEPT ![Arg] = "running"])
    \/ /\ Handle("StartRender", <<Verdict("Failed", Arg)>>)
       /\ Jobs(job)

(* Pause reaches the tasks that are active; between two tasks it reaches    *)
(* none.  A job that ends between the handler's check and the call makes    *)
(* the reply Done instead of NotNow, which the front end treats alike.      *)
Refusal == <<Reply(IF job[Arg] = "none" THEN "Failed" ELSE "NotNow", Arg)>>

Pause ==
    \/ /\ Handle("Pause", <<Reply("Done", Arg)>>)
       /\ Busy(Arg)
       /\ \E st \in {job[Arg], "paused"}: Jobs([job EXCEPT ![Arg] = st])
    \/ /\ Handle("Pause", Refusal)
       /\ ~Busy(Arg)
       /\ Jobs(job)

Resume ==
    \/ /\ Handle("Resume", <<Reply("Done", Arg)>>)
       /\ Busy(Arg)
       /\ Jobs([job EXCEPT ![Arg] = "running"])
    \/ /\ Handle("Resume", Refusal)
       /\ ~Busy(Arg)
       /\ Jobs(job)

(* Stop always adds a Failed (kUserAbortErr) of its own.  Between the check *)
(* and TaskQueue::Stop the job may still end: with its verdict sent, or     *)
(* with a failure the control thread has yet to report.                     *)
Endings == {<<<<>>, "stopped">>, <<<<>>, "failing">>,
            <<<<"Done">>, "done">>, <<<<"Failed">>, "failed">>}

Stop ==
    \/ \E ending \in Endings:
        /\ Handle("Stop", [i \in DOMAIN ending[1] |-> Verdict(ending[1][i], Arg)]
                          \o <<Verdict("Failed", Arg), Reply("Done", Arg)>>)
        /\ Busy(Arg)
        /\ Jobs([job EXCEPT ![Arg] = ending[2]])
    \/ /\ Handle("Stop", Refusal)
       /\ ~Busy(Arg)
       /\ Jobs(job)

-----------------------------------------------------------------------------
(* The jobs' own steps.                                                     *)

\* All tasks have ended; the last entry of the queue sends Done.
JobDone(o) ==
    /\ job[o] = "running"
    /\ Jobs([job EXCEPT ![o] = "done"])
    /\ toFront' = Append(toFront, Verdict("Done", o))
    /\ UNCHANGED toBack

\* A task has failed and TaskQueue::Process has stopped the others.
JobFails(o) ==
    /\ job[o] = "running"
    /\ Jobs([job EXCEPT ![o] = "failing"])
    /\ UNCHANGED <<toBack, toFront>>

\* The control thread reports the failure.
ReportFailure(o) ==
    /\ job[o] = "failing"
    /\ Jobs([job EXCEPT ![o] = "failed"])
    /\ toFront' = Append(toFront, Verdict("Failed", o))
    /\ UNCHANGED toBack

\* The paused tasks end without looking at the flag again; the next ones run.
RunsOn(o) ==
    /\ job[o] = "paused"
    /\ Jobs([job EXCEPT ![o] = "running"])
    /\ UNCHANGED <<toBack, toFront>>

BackHandlers == \/ CreateScene \/ CloseScene \/ CreateView \/ CloseView
                \/ StartParser \/ StartRender \/ Pause \/ Resume \/ Stop

BackNext ==
    \/ BackHandlers
    \/ \E o \in Objects: JobDone(o) \/ JobFails(o) \/ ReportFailure(o) \/ RunsOn(o)
=============================================================================
