# A TLA+ model of UberPOV's job control

UberPOV renders a scene with a *front end* (reads options, shows and saves the
image) and a *back end* (parses, bounds, renders on many threads) that talk
through a message layer, POVMS.  The ray tracer itself is numerical code; what
these modules are about is the machinery around it, where the difficult
behaviour is: task threads and the queue that drives them, the distribution of
image blocks over threads, the passes of a render, the files that let an
interrupted render be continued, the requests that pass between the two sides,
the session that turns what a user asks for into such requests, the message
objects and contexts all of it is sent with, the cache that render threads share,
and the directives by which a scene file decides what of it is parsed.

All paths below are under `source/` unless they begin with `vfe/`.

## 1. Inventory

| Component | State it keeps | Operations | Talks to |
|---|---|---|---|
| Task scheduler (`backend/support/taskqueue`, `task`; control threads in `backend/scene/scene.cpp`, `view.cpp`) | FIFO of entries, active tasks, latched failure, `queueMutex`, `processCondition`; per task `stopRequested`, `paused`, `done`, `failed` | Append*, Process, Stop, Pause, Resume, Notify; Start, Cooperate, TaskThread | Scene and View fill it; the back end's main thread pauses, resumes, stops, destroys; verdicts go to the front end |
| Block dispatch (`ViewData` in `backend/scene/view`) | `nextBlock`, skip, busy and postponed lists, `blockInfoList`, `completedFirstPass` | two `GetNextRectangle`s, `CompletedRectangle`, `SetNextRectangle` | called by all render threads, reset between passes by the task queue |
| Mosaic preview (`View::StartRender`, `TraceTask`, `ImageMessageHandler`) | pass, pixel size; display and image buffer | one pass per size, one block per step | back end sends pixel sets, front end draws |
| Continue trace (`frontend/renderfrontend`, `imagemessagehandler`, `vfe/vfe.cpp`) | state file, output file, restart point | NewBackup, ContinueBackup, append, close and remove, write the image | restart point goes to block dispatch |
| RenderBackend (`backend/control`) | maps of scenes and views, `view2scene`, counters of ids, front end addresses | one handler per request, one message at a time | requests from RenderFrontend; starts and stops the queues of Scene and View; replies and verdicts |
| RenderFrontend (`frontend/renderfrontend`) | state of every scene and view, backup file | create, start, pause, resume, stop, close; handlers of verdicts and images | POVMS, called by the virtual front end |
| Virtual front end (`vfe/vfe.cpp`, `vfecontrol.cpp`) | state of `VirtualFrontEnd::Process`, flags of pauses and cancels | Start, Stop, Pause, Resume, Cancel, Process | RenderFrontend, shell-outs |
| Session (`vfe/vfesession.cpp`) | worker thread, back end state, last error, shutdown flag; request flag and result; event flags | Initialize, WorkerThread, Pause, Resume, GetStatus, Shutdown, BackendThreadNotify | user interface threads, virtual front end, back end main thread |
| Shell-outs (`frontend/shelloutprocessing`, `vfe/unix/vfeplatform.cpp`) | which events were, flags to skip and to cancel, exit code, the running command | HandleProcessEvent, PostProcessEvent, ShelloutRunning, KillShellouts | called in each state of `Process` |
| Animation (`frontend/animationprocessing`) | frame number, clock | MoreFrames, ComputeNextFrame | called by `Process` |
| POVMS objects (`base/povms.cpp`, `povmscpp.cpp`) | objects, lists and attributes in memory | New, Set, Get, Copy, Remove, Merge, Delete; stream Size, Read, Write | everything |
| POVMS contexts (`base/povms.cpp`, `vfe/vfepovms.cpp`) | per thread a context with a queue, the reply waited for, the next sequence number | Open/CloseContext, Send, Receive, ProcessMessages | front end worker, back end main thread, tasks |
| Back end main thread (`backend/povray.cpp`) | start and stop flags, its context | povray_init, main loop, povray_terminate | POVMS, RenderBackend, the session |
| Radiosity cache (`backend/lighting/radiosity.cpp`, `backend/support/octree.cpp`) | octree of samples, its lock, pools of blocks, file | FindReusableBlock, AddBlock, GetNode, InsertBlock, Acquire/ReleaseBlockPool, Save | all render threads at once |
| Directives (`backend/parser/tokenize.cpp`) | condition stack, skipping flag, token held back, the calls of `Skip_Tokens` under way | Get_Token, Parse_Directive, Skip_Tokens, Break, Invoke_Macro, Return_From_Macro | the parser asks for tokens |
| Real-time raytracing barrier (`RTRData`) | threads completed, frame number | CompletedFrame | render threads |
| Block order (`View::StartRender`, `getBlockXY`) | block size, counts, pattern and step | serial number to rectangle | block dispatch |
| Image formats, photons, the rest of the parser, geometry, platform front ends | | | left aside, see section 6 |

What makes them correct, and what is hard about it:

* **Scheduler.**  Entries run in order, a sync holds back what is behind it, a
  stop leaves no thread, the front end gets one verdict and nothing after it,
  everything comes to an end.  Hard: three kinds of threads, flags written
  without the mutex, joins while the mutex is held, a condition that is waited
  for without a timeout.
* **Block dispatch.**  Every block once per pass and by one thread at a time, in
  an order that keeps reproducible renders reproducible; the last thread does
  not leave work behind.  Hard: four lists that influence one another and three
  different walks over the blocks.
* **Mosaic preview.**  Exact display and complete image at the end.  Hard: the
  passes only trace what earlier passes have not.
* **Continue trace.**  After any crash or stop: no block lost, none rendered
  twice, no half-written image taken for a finished one.  Hard: two files that
  are changed in several steps, and out-of-order records.
* **RenderBackend and RenderFrontend.**  A view exists only for a parsed scene
  and never without it; both sides agree on what exists.  Hard: each side keeps
  its own maps and states, verdicts arrive inside the wait for a reply, a wait
  is given up while the request is carried out, the reply then comes late.
* **Virtual front end and shell-outs.**  Success means that every frame was
  written; nothing is left in the back end; a pause that was accepted happens;
  a render that was started ends.  Hard: fourteen states, each left in several
  ways, a pause remembered across them, cancels between any two steps, errors
  of closing that are ignored, commands that ask for something themselves.
* **Session.**  It starts or says that it did not, ends when it is told to, and
  in between the front end is there for whoever uses it; a request is carried
  out once and answered to the one who made it; an error that ends it is told.
  Hard: four kinds of threads that read one another's variables without a lock,
  waits with a time limit whose end can cross the event, joins in a chain.
* **Block order.**  Whatever pattern and step, the blocks are the render area,
  each pixel once.  Hard: cut blocks, folded patterns, a step made coprime.
* **Radiosity cache.**  One tree, each sample where it is looked for, each saved
  once; with high reproducibility the same samples however threads run.  Hard:
  reads without a lock while roots and children are hung in.
* **Directives.**  What is parsed is what the text means.  Hard: two functions
  that call one another through a third, and end by the height of a stack.
* **POVMS contexts.**  An answer belongs to its question, and threads that ask
  one another do not wait in a circle.  Hard: a thread handles others' messages
  while it waits; waits are given up, handlers throw, replies come late.
* **POVMS objects.**  An object is a map and a list a sequence, with values and
  not references: what is put in is given away, what is taken out is a copy.
  Hard: who owns which node after a move, doubly linked lists, and a buffer
  whose size is computed by other code than fills it.

The list of hazards with their lines is in `PROJECT.json`.

## 2. Modules

| Module | What it is |
|---|---|
| `TaskPlan` | abstract: a list of entries is started in order, syncs are barriers, dropping only while idle |
| `TaskQueue` | the scheduler with its threads; `ImplementsPlan` says it refines `TaskPlan` |
| `TaskQueueProofs` | theorems about `TaskQueue` for every plan |
| `BlockDispatch` | distribution of blocks over threads, pass after pass |
| `BlockGrid` | operators: the grid of blocks, its patterns and steps, the rectangle of a serial number |
| `BlockPixels` | EXTENDS both: the pixels a pass hands out |
| `BlockDispatchProofs` | theorems about all three, for any blocks, threads, passes, areas, patterns and steps |
| `ContinueTrace` | state file, output file, crash and restart |
| `ContinueTraceProofs` | theorems about it, for images of any size |
| `MosaicPreview` | what the preview passes trace, show and store |
| `MosaicPreviewProofs` | theorems about it, for areas, blocks and preview sizes of any values |
| `RenderBackend` | registry of scenes and views: one action per request handler, the jobs seen from outside |
| `RenderFrontend` | EXTENDS it: what the front end believes, its requests, replies, verdicts, time-outs |
| `Shellout` | operators on the record of `ShelloutProcessing`'s members |
| `VirtualFrontEnd` | EXTENDS both: session, worker, `Process`, Stop, Pause, Resume, animation |
| `VirtualFrontEndProofs` | theorems about both sides under any requests, and about a session that issues them, for any number of scenes, views, faults, frames and renders |
| `SessionLife` | the session from Initialize to Shutdown, its worker, the back end's main thread, events |
| `SessionRequests` | the hand-over of a pause or resume to the worker, and of its answer back |
| `VfeSession` | EXTENDS the one, INSTANCEs the other: a whole session |
| `VfeSessionProofs` | theorems about it, for any number of callers and of threads that shut down |
| `PovmsMap` | abstract: objects are maps, lists are sequences |
| `PovmsData`, `PovmsStream` | attributes, objects and lists on a heap; their stream format |
| `PovmsObjects` | variables of `POVMS_Object` and `POVMS_List` in use; `ImplementsMap` says they refine `PovmsMap` |
| `RequestReply` | abstract: a request is carried out at most once, an answer is that to the open request |
| `PovmsContext` | contexts, queues, waits; `ImplementsRequestReply` says they refine `RequestReply` |
| `PovmsContextProofs` | theorems about them, for any contexts |
| `Octree` | operators on node numbers: parents, which child, point in node, node of a sphere |
| `RadiosityCache` | threads that search and grow the octree, pools and the file |
| `RadiosityCacheProofs` | theorems about both, for any threads, renders and pools, and spheres of any size |
| `DirectiveText` | operators on texts: what belongs to what, well-formedness |
| `DirectiveMeaning` | abstract: the order in which a text is carried out, as jumps |
| `Directives` | the condition stack and `Skip_Tokens`; `MeansWhatItSays` says they refine `DirectiveMeaning` |
| `MC...` | plans, thread sets, options, identifiers, commands, texts, samples and values for TLC |

`VirtualFrontEnd` contains `RenderFrontend`, which contains `RenderBackend`: the
session, both sides and the messages between them are one state space, and
`RenderFrontend` alone is the same two sides under a user who asks in any order.
A job there (`running`, `failing`, `done` ...) is what `TaskQueue` details:
`VerdictMeansQuiet` and `NoFailureAfterDone` are why `JobDone` and
`ReportFailure` are single steps that end a job, and the outcomes in `Endings`
are those of a `Stop` that meets the end of the job.  `PovmsMap!Deliver`'s
promise, that what is received equals what was sent and shares nothing with it,
is why messages are plain values in `RenderBackend` and `RenderFrontend`.

The rendering modules meet at three places.  `TaskQueue!SyncBarrier` is what
allows `BlockDispatch` to let `SetNextRectangle` happen only when all threads of
the pass have ended, and `MosaicPreview` to finish a pass before the next.  What
`ContinueTrace` computes as `serial` and `skip` is what `BlockDispatch` starts
from in `Init` (`RestartPoint`: `0` is never in the skip list when the first
block is `0`).  `BlockDispatch!NothingTraced` is `MosaicPreview!DrawPreview` of
a block with no positions.

### TaskQueue

An entry is named by its position in `Plan`, the list one `StartParser` or
`StartRender` appends; `queuedTasks` is `next..appended`.  An action is what one
thread does between two points where another may interfere.  `queueMutex` is
held over one action, except in `Process` and `Stop`, which block on joins while
they hold it and so are several actions with `mutex` set.  Reads of `failed` and
`done` in `Process` are two actions, because task threads write these flags
without the mutex.  A notification reaches a waiter or is lost; a wait may end
spuriously.  `cli` is the back end's main thread: the check that a request is
legal and the request itself lock the queue separately, as they do in
`RenderBackend`.  `dispatched` and `verdicts` are history.

### BlockDispatch

One action per call under `nextBlockMutex`.  The loops over serial numbers are
written as the least number that stops them; where a loop would run for ever
there is no such number, and the thread does not go on.  `Infos` is the radiosity
task's choice to ask for another step of its block, free up to the number of
steps.

### BlockGrid and BlockPixels

A grid is a record of what `View::StartRender` computes from the options: area,
block size, counts, pattern and step.  It does not change during a render, so
`BlockPixels` explores the dispatch once, for a number of blocks, and judges the
serial numbers a pass has handed out for every grid of that many blocks:
`NoPartition` holds the sets of blocks that on some grid are not the render area
or have a pixel twice.  The product of serial number and step at `view.cpp:131`
is not cut to the 32 bits that `unsigned long` has on Windows.

### ContinueTrace

Records of the state file are blocks or `Torn`.  A file opened to continue is
written from the end of what could be read (the platform layer's append mode is
`r+`); what lies behind a record written over older data is not readable.
Reading the file is a step per record (`ReadRecord`), as the loop of
`ContinueBackup` is, so the program may be killed within it, and the theorems
speak of `serial` and `skip` without a fold.

### MosaicPreview

The colour of a pixel is its own position, so the display is exact when every
pixel shows itself.  A block counts its positions from its own corner but leaves
out those of the pass before by absolute coordinates, so both properties are
stated for blocks that begin on the preview's grid (`OneGrid`); the runs also
explore areas and block sizes that are off it, see section 5.

### RenderBackend and RenderFrontend

Requests and answers are two queues, since POVMS keeps the order between one
sender and one receiver; the back end's main thread takes one request at a time.
A request of the front end is an action that sends it, or that is refused on the
spot (the code throws, or passes over an unknown id); what the code does after
`POVMS_Send` returns is the action of the reply.  Between the two, `call` says
what is waited for, and verdicts are handled, as the loop of `POVMS_Send` does.
`TimedOut` gives the wait up: the request stays queued, `stale` counts the
replies that will find nobody.  `Scene_Parsing` and `View_Rendering` are one
name (`Working`), so are `Scene_Ready` and `View_Rendered` (`Finished`): a scene
is only ever in the one, a view in the other.  Ids are never reused, as the back end's
counters only run up.

### VirtualFrontEnd and Shellout

`pc` is the worker's place: in its loop, in `Process`, in the wait for a reply,
in `Stop`, or at the pause and resume requests.  Each state of `Process` is an
action, cut where the front end waits, because only there can other threads and
verdicts come between; whatever follows in the same call of `Process` is in the
action of the reply.  An exception that leaves `Process` goes to `catch`, which
is the worker's call of `Stop`.  The user's threads set `cancelRequested` and
`request` at any moment and may withdraw a request after three seconds.
`Shellout` gives, for each method, the set of records and exceptions it may end
with, because what a command does is up to the user.  `settled` is history: the
frames that were written or that something had asked to be skipped.

### SessionLife, SessionRequests and VfeSession

Each thread has a place (`host` in `Initialize`, `worker`, `main`, the callers,
the closers, the reader of events), and an action is one access to what threads
share: most of it is read and written without a lock.  A wait is a place of its
own, so that an event can come between the test and the wait and be lost; a time
limit is an action that is always possible.  `Initialize`, `Pause` and `Resume`
call `timed_wait` once, in an `if`, and on POSIX it may return early, as if
notified (`InitializeWakesEarly`, `WakesEarly`); what then goes wrong is in
section 5, and `Succeeds` and `alone` say which returns are due to the worker.
The worker's loop is one place with
an iteration as a step, cut where a request is taken, cleared, carried out and
answered.  `VirtualFrontEnd` has what an iteration does to a render; here a
render only runs, is paused or not.  `unseen`, `deletes`, `mainFailed`,
`overwritten`, `carriedOut` and `alone` are history, and so are the numbers of
calls.  `mainFailed` and `overwritten` mark two things that the code really does
wrong (section 5): the properties say that they are the only ways to call a
deleted front end or to lose a critical error.

### PovmsContext and RequestReply

A context belongs to a thread.  `POVMS_Send` with an answer is `Send`, then any
number of `ProcessMessages`, and `Answered` or `TimedOut`; a handler runs from
`ProcessMessages` to one of `HandlerReturns`, `HandlerRefuses` and
`HandlerThrows`, and others act in between.  `call` is what `POVMS_Send` keeps
on its stack: the number it waits for and the two fields of the context it will
restore.  A handler that throws leaves `POVMS_Send` without restoring them, and
that is in the model.

### RadiosityCache and Octree

An octree with one dimension: a node has two children, so what eight do three
times one does once.  Each read of a pointer that another thread may write is an
action of its own, `root` and `Id` of a new root are written in two.  A point
where light is asked for has the error bound of its query, and the sample taken
there a distance and the radius it is filed by (`Spots`); a sample reaches a
point within its distance times the bound of who asks (`Reach`), which may be
more than that radius.  What else distinguishes samples for reuse is which pass
and tile they are from.  `found` is what a search would
average.  `OneThread` is the reference: what a single thread takes that does one
tile after another and has no tree, only a list of all its samples.  It is
defined by what it is, not by how it is computed: a sample is in it exactly if
none in it from before is usable at its point.

The code shifts the numbers of nodes; here the parent's number is half of it,
`Width` doubles from size to size, and `AncestorAt` goes up from parent to parent.
The assumptions on `Renders` say that each sphere fits a node of at most
`MaxSize`, that some node of that size is above them all (the code's tree grows
until it is).  They say nothing of error bounds and numbers of tiles: `CacheInv`
holds for all, and in it `SearchesFind`, which is what a search without a lock
owes.  `Reproducible` is about the renders that are `Determined`, by a condition
on the render and not on what the threads do: no tile number is cut, and a sample
that reaches a point lies in a node around it.  A sample that does not is found
from there only while its node is the root, and that depends on the threads
(section 5).

### Directives, DirectiveText and DirectiveMeaning

A text is a sequence of kinds of tokens, one for each directive and one for what
is not a directive; a macro is called by one kind of token, and a text has at
most one macro, at its beginning.  `frames` are the calls of `Skip_Tokens` and
`Break` on the call stack, `token` is what `Get_Token` has left for them to look
at.  What a condition evaluates to is free.  `DirectiveMeaning` has no stack
and skips nothing: after an item, a condition or a call, the text alone says
what is next (`DoneNext`).  The parser misses some `#break`s (section 5).
`Unnoticed` says which, again by the text alone, and `astray` is history: such a
`#break` has been reached.  Until then both properties are demanded, of every
text; `ParsingEnds` is demanded even after that.

### PovmsData, PovmsStream, PovmsObjects and PovmsMap

`heap` maps addresses to nodes; an attribute is a record as in `POVMSData`,
copied by value as the code copies the struct, so that two records with the same
`root` are two owners of the same nodes, which is what `OneOwner` excludes.
`PovmsObjects` has an action per use the program makes of the classes in
`povmscpp.h`; `Set` and `Append` take what the variable owned, `Get` and
`GetNth` copy.  The stream is a sequence of words with their lengths: the size
is computed as `POVMSStream_Size` does, and reading and writing count the room
they have left as the code does, which is in characters for strings.  In memory
a truth value is one `int` and a string two bytes a character.

## 3. Runs

| Run | Bounds | Distinct states | Shows |
|---|---|---|---|
| `queue` | plan of `StartRender` for two threads, one failure code | 54,649 | safety, barriers, refinement of `TaskPlan`; a verdict always comes, a stop returns |
| `queue_teardown` | plan of `StartParser`: 2 tasks, 3 syncs, 2 functions | | a disagreement, see section 5 |
| `dispatch` | 4 blocks, 3 threads, 3 radiosity steps, 2 passes, all restart points; 784 option sets | 601,987 | hand-out of blocks, every pixel once on every grid; every pass ends |
| `continue_trace` | 5 blocks, 3 workers, 4 starts | 79,167 | nothing lost or repeated over crashes |
| `mosaic` | 3 areas of up to 9 x 6 pixels, blocks of 4, 6 and 9, all sizes 1..8 | 11,404 | exact display, pixels traced once |
| `frontend` | 2 scenes, 1 view, 1 fault, any order of requests | 1,093,252 | views only of parsed scenes, both sides agree, no orphaned view |
| `session` | 2 frames, 2 scenes and views, 1 fault, 1 start, 2 pauses or resumes; no commands, or one for each event | 748,760 | success is complete, nothing left behind, pauses kept, the render ends |
| `vfe_session` | 1 call of `Shutdown`, 1 caller with 2 calls, 1 reader, everything may fail | 653,665 | the front end is there for its users, requests are carried out once and answered, a shutdown returns and is complete, although waits end by themselves |
| `povms` | 2 objects, 1 list, 2 keys, 4 nodes, 2 items | 128,012 | refinement of `PovmsMap`, ownership, links, stream size |
| `povms_context` | front end, back end, 1 task, 2 calls each, 1 message without answer | 22,743 | refinement of `RequestReply`, no context out of step, no waiting in a circle, calls end |
| `directives` | all well-formed texts up to 6 tokens and 260 longer ones, 1,139 together, 2 rounds of loops | 46,142 | refinement of `DirectiveMeaning`, the stack is the nesting, parsing ends |
| `radiosity` | 2 threads, 2 tile numbers; 4 renders with up to 3 passes and 9 points, octree of 7 levels | 99,008 | one tree, searches that find, samples saved once, reproducible with `+HR` where the render is determined |

Each module has one type invariant; the run checks it as part of the invariant
that is named after the module's subject (`QueueInv`, `DispatchInv`, `TraceInv`,
`PreviewInv`, `FrontendInv`, `FrontEndInv`, `SessionInv`, `HeapInv`,
`ContextInv`, `DirectivesInv`, `CacheInv`).

Why these bounds.  The render plan has two tasks in parallel, any of which may
fail, syncs in a row, and entries of each kind; the theorems hold for every
plan.  Three threads are the least with which one can give up while two others
hold blocks; four blocks give each class modulo the stride 2 two members, so
that a postponed block can be avoided while its neighbour is busy.  Four blocks
are also a square, a row and a column, so that the patterns differ and fold in
both directions; the areas begin at odd pixels and end in cut blocks, and the
steps have factors in common with four, are larger than it, or are a multiple
of it.  `MaxPasses` bounds the passes explored in one behaviour: a pretrace or
preview pass and what comes after it.  With three workers a record can be two
places out of order; `MaxStarts` allows a torn file to be continued and torn
again.  The preview image has complete blocks, blocks cut at the right edge and
at the bottom, and a block one pixel wide.  `SceneIds` and `ViewIds` are
identifiers, not objects that exist at one time: two scenes are needed for a
request about a scene that is gone, or was never known, while another one
lives; a second view adds nothing to the rules, which only ask whether a scene
has views.  `MaxFaults` bounds the waits given up and the local failures
together; one is enough for a reply to come late into a later request's wait.
Two frames are the least that make an animation, and what a frame leaves for
the next shows in the second.  Two requests are a pause and its resume, or two
pauses; in `vfe_session` two calls are the least of which one can find what the
other has left.  One call of `Shutdown` is what the documentation of the session
asks for; two at once are in section 5.  `MaxNodes` allows an object in an
object beside another one; two items are the least that a list can be changed in
the middle of.  With two calls a reply can come after its call was given up and
into the next one's wait, and three contexts in a row are the longest chain of
waits the program makes.  Six tokens hold a directive with two branches and
something in each, or one inside of another with a branch; the longer texts have
what needs more: breaks below two levels, loops in clauses, calls in loops and
branches, and, systematically, breaks in branches that have others behind them,
with what may follow (`BreaksInBranch`).  Two threads and four points let two threads find no root, need
different roots and lack the same child; the points of the render with `+HR`
are near enough to be taken from one another if tiles were not kept apart.  Of
the four renders `OneIsDetermined` is; one has more tiles than there are tile
numbers, and one asks with a low weight while the tree is still small, and from
the node beside the sample's.  With either condition taken out of `Determined`
TLC finds `Reproducible` violated by these.

All runs but `povms` switch deadlock checking off: each of those systems stops
when its job is done (the queue's owner is destroyed, the last pass is over, the
user starts no more renders, the session has ended, the text is parsed, the
identifiers, calls or requests of a bounded run are used up).  That it does not
stop too early is said by `JobEnds`, `StopCompletes`, `PassEnds`, `SessionEnds`,
`ShutdownReturns`, `CallsEnd` and `ParsingEnds`, not by the deadlock check.

Symmetry is used for the object variables of `povms` only, which no definition
tells apart and whose properties are all safety.

### Fairness

`TaskQueue`: weak fairness of the control thread and of each task thread, which
is what a preemptive scheduler gives a runnable thread.  Strong fairness of the
main thread's own steps: it needs `queueMutex`, which the control thread takes
again and again, but that thread sleeps 10 ms (parser) or 50 ms (render) without
it on every turn.  No fairness of requests, of spurious wakeups, or of how a
task ends; a task does end (`RunReturns`, `RunFails` or a stop), because the
parser and the tracer are assumed to terminate.  `JobEnds` has the premise
`NotLeftPaused`, since the user may leave a job paused.  `BlockDispatch`: weak
fairness of each thread and of the control thread's `SetNextRectangle`; every
step holds the mutex only for the step itself.  `VirtualFrontEnd`: weak fairness
of the worker, of the back end's handlers, of the end of each job (parser and
tracer terminate) and of a running command's exit.  Nobody has to cancel, pause,
resume or start anything, and a wait need not be given up.  `SessionEnds`
excepts behaviours with a pause or resume, since a session may be left paused,
and because of what section 5 says of a cancel in a pause.  `VfeSession`: weak
fairness of each thread, and of a wait's time limit, which is a clock; the
worker's steps are kept fair apart where it works on a request.  Nobody has to
call anything, and no wait has to end by itself.  `ShutdownReturns` excepts a worker ended by an exception and a
back end whose main thread failed before `povray_init` saw it.  `PovmsContext`:
weak fairness of each context's steps, of the end of each handler, of the time
limit, and of a task's end once it is told to stop.  `Directives` is sequential:
weak fairness of its next-state relation; a text's loops end (`MaxRounds`).
`RadiosityCache` has no fairness and no liveness property.

## 4. Proofs

Eight modules hold theorems; each states properties that a run checks on a small
instance, for every value of the constants.  They assume no more than the
`ASSUME`s of the modules they extend, which TLC evaluates in the runs.  None of
the properties is inductive alone, so each module has an inductive invariant,
checked by TLC before it was proved, lemmas for its parts and actions, and
theorems that follow with `PTL`.  `VirtualFrontEndProofs` is about two
specifications, since its second part needs the lemmas of its first.

**The scheduler** (`TaskQueueProofs`): type correctness, `SyncBarrier`,
`StopQuiesces`, `StopIsFinal`, `VerdictMeansQuiet`, `NoFailureAfterDone`, and
that the queue implements `TaskPlan`, for every plan that ends its tasks before
it reports (`PlanSyncsAssumption`, true of both plans of the code) and every set
of failure codes.  That a sync is passed with `active = {}` says nothing unless
every thread not in `active` is known to have exited, and that is only so
because `Process` and `Stop` join before they remove.  The invariant is `Typed`
together with

* `LockInv`: which program counters hold `queueMutex`, and for whom;
* `ActiveInv`: a thread that has not exited belongs to an active task, active
  tasks were dispatched, and what is still to be scanned is active;
* `BarrierInv`: no active task is in front of a sync that has left the queue;
* `FailedInv`: a latched failure that another thread can see has stopped
  everything;
* `StopInv`: what `Stop` leaves behind, an empty queue and no active task, stays
  so;
* `DoneInv`, for `NoFailureAfterDone` only: when Done has been sent the plan is
  used up, nothing is active and no failure is latched or about to be reported.

**Block dispatch** (`BlockDispatchProofs`): `DispatchInv`, `PassComplete` and
`ClassesInOrder`, for any number of blocks, threads, radiosity steps and passes.
The invariant accounts for every block of a pass: it is skipped, not yet
reached by the walk, in a list, in the hands of exactly one thread, or
completed; and it says what of this the cursor and the three lists decide.  A
thread that gives up does so only when what is left is held back by another one,
which will come for it.

For the pixels (`AreaPartitioned`) it is shown that the blocks of every grid
that options lead to are the render area, each pixel once, for areas and blocks
of any size, all patterns and all steps.  A pattern is a composition of maps,
each a bijection: the step, counting backwards, rows or columns, and folding.
The step is the hard one.  That it permutes the serials when it has no factor in
common with their number is usually shown with prime factors or Bezout's lemma,
by induction; here the least positive number that the step takes to a multiple
of the number of blocks divides every other one, so it divides the number of
blocks, and what is left of the number divides the step, so it is 1
(`LeastDivides`, `CoprimeCancels`, `StepsApart`).  A map of a finite set into
itself that takes no value twice takes every one (`Permutes`).  Spans of pixels,
the last one cut, then cut each side of the area (`SpansCut`), and the property
follows from `PassComplete`.  `OptionsAssumption` asks for areas that have a
pixel.

**Continue trace** (`ContinueTraceProofs`): `TraceInv`, `ImageComplete`,
`ImageIsRecorded` and the action property `RecordsKept`, for images of any
number of blocks, any number of threads, starts, aborts and crashes.  The
invariant says that the records in front of `pos` are the image's blocks and
that what follows is torn (`FileFollowed`), which is why a write there hides
nothing; that while they are read these blocks are `0..serial - 1` and the skip
list, which holds only because no block is in the file twice (a second record of
a block would be counted as the next one); and that each block is in exactly one
of image, messages, threads and remainder (`BlocksApart`, `BlocksCovered`), with
a verdict behind all of them (`VerdictsLast`).

**Mosaic preview** (`MosaicPreviewProofs`): `PreviewInv` and `DisplayExact`, for
areas, blocks and preview sizes of any values the code admits.  The invariant
says at which point a pixel is final: in the pass of the largest grid it lies
on, when its block is drawn (`Reached`).  From then on it shows itself
(`ReachedShown`) and has been traced once, and before never (`ReachedTraced`).
It stays so because a square that begins on a grid contains no other point of
it, so that a later square, also one that reaches over its block's edge, covers
no pixel that was final before.

**POVMS contexts** (`PovmsContextProofs`): `ContextInv` with its three parts
(type correctness, that no context gets out of step, `NoWaitInCircles`), and
that the contexts implement `RequestReply`.  The invariant `IInv` ties each wait
to the number its request went out with, and says of every number in a queue, in
a handler or kept for later that it was given out and to whom; that is what
makes a late answer recognisable after a handler that threw has left the
context's fields as they were.  `NoWaitInCircles` needs two facts more,
`NothingLost`: without a fault the request or the reply of every wait is in a
queue or in a handler; and `StoppingSound`: a server that waits for the tasks is
in a handler and has told them to stop.  Then somebody can be found who goes on:
a server that has something to do and does not wait for the tasks; otherwise one
that does, and then a task that ends or waits for a server of the first kind.
That rests on `StopAssumption`: a task asks nobody that waits for it.  In the
code the parser's task asks the front end, and the back end is what stops it.

**The session** (`VfeSessionProofs`): `SessionInv`, `RequestInv`, and
`ShutdownComplete` for sessions in which one thread calls `Shutdown` (with two
it is not true, see section 5).  The steps are those of a platform whose waits
may end by themselves.  So that the front end is there (`RunningHasFrontend`) is
said of an `Initialize` that the worker has notified and of what runs once the
worker has told its state, and that an answer is the caller's own
(`AnswerIsMine`) of calls that found no earlier request with the worker, met no
other call and were notified; a time-out before such a call does not matter.  The
invariant says for each place of the
starting thread, the worker, the main thread and the closing threads what
exists: the front end from before the worker's loop until its end, the main
thread from its creation until it is joined, the shut-down flag from the first
closer on (`BeforeInv`, `PlaceInv`, `EndInv`, `DeletesInv`, `OneShutdownInv`);
and for the hand-over, who has the request's number (`NumbersGiven`, `OnceInv`,
`OwnInv`), and that the worker is at the top of its loop when it leaves it
(`AtTopInv`).

**Both sides' registries** (`VirtualFrontEndProofs`, first part): `FrontendInv`,
`RenderAfterParse` and `SidesAgree`, for any number of scenes and views and any
number of waits given up (`MaxFaultsAssumption`).  The invariant has three
parts.  `Safe` says that what is on its way, in either direction, speaks of
scenes and views that were made, and that a request for a view or a verdict Done
of a scene is on its way only when the scene was parsed to the end, which it
remains until it goes (`DoneScenes`): this is why verdicts and replies may come
in any order.  `MatchInv` says that the requests still to be answered and the
answers still to be taken are as many as the waits given up and the present one
together, and that the present one's is the last; so when no answer is
outstanding from before, the one that comes is the one waited for.
`AgreeInv` says that without a fault the two maps differ at most about
the object whose creation or closing has been answered and not yet heard of.
The lemmas on `Count` at the module's beginning are the counting that `MatchInv`
needs.

**The virtual front end** (`VirtualFrontEndProofs`, second part): `SuccessIsComplete`,
`PauseIsKept`, `FrontEndInv`, and the three properties of the registries again,
for any number of frames, renders, scenes, views, commands and faults.  The
session issues the requests that are arbitrary in `RenderFrontend`, but not all
its steps are steps of it: it may ask for a scene or view it does not have (id
0), and a fault of its own counts as one.  `FrontStep` says what it can do to the
registries, and that their invariant `IInv` survives it.  With it goes
`LocalInv`, about the session's own state: for which reply the worker waits in
which state (`PlaceInv`, `CreateInv`); that the frames before the present one are
settled, and the present one where its image is written (`FramesInv`); that a
pause asked for during a command is pending only where `Process` still looks at
it (`PauseInv`); and that frames are skipped for good only in a render that is
cancelled (`SkipsSound`), without which `SuccessIsComplete` is not inductive.
These give the first two properties.

That a session leaves nothing behind (`NothingLeftBehind`, in `FrontEndInv`)
needs `OwnInv`: as long as no fault was met, what the session has in the back end
is known in every state of `Process` (`Has`: nothing, a scene at some stage, or a
scene parsed to the end and its view), the request under way is the one the
worker waits for there (`Asked`), and a reply on its way says what is needed
(`ReplyFits`).  The hard cases are verdicts: of a scene at most one is on its
way, none once it was heard of, and it is heard of only when the job has ended
(`Told`); so no verdict of a scene can come once it has a view, and change what
`Process` believes it has to close, and what is closed is refused by nobody.
All three parts change together, so each
action of the worker has a lemma that takes them from one state to the next
(`...Keeps` for `LocalInv`, `...Rests` and `...Own` for `OwnInv`).

**The radiosity cache** (`RadiosityCacheProofs`): `CacheInv` and `Reproducible`,
for any threads, renders, tile numbers and sizes of pools and spheres.

`CacheInv` needs to know what a thread may rely on that looks at the tree without
the lock.  `LockInv` says who may change the tree, `TreeInv` what it is:
everything is below the root, and between a node and the root no level is missing
(`BelowInv`).  `WayInv` says what each thread in `GetNode` has found out and others
cannot undo: once the root covers its sample it always will, and the node it is
at is above the one it goes to.  That no node is made twice follows: who hangs
up a node has the lock and has read the pointer again, and were the node there
already, it would hang there (`TreeIsOne`).  `OwnersInv` and `FileInv` say
which thread or list has each pool, and that the file has just what lies in
front of a pool's mark, so that what `Save` writes is new, however the units are
linked.  `PooledInv` and `TakenInv` say which samples are in pools and in the
tree.

`SearchesFind`, the last part of `CacheInv`, and `Reproducible` rest on two
invariants more.  `FindsInv`: of the samples that were settled when a search
began, that it may use and that lie in a node around its point, each is found or
still ahead of it.  A sample is ahead when an entry of `todo` is above it and has not passed the
child it is below (`Leads`).  The step on down is geometry: a point that is
within half a width of a node is so of each node above it (`InAncestor`,
`InBetween`), so the search does not turn back before, and a tree that grows
meanwhile takes nothing away.  `DecidedInv`: of the points that threads are
through with, those got a sample that are in `OneThread`.  When a point is
searched for, the passes before it and its tile's points before it are decided,
and in a determined render no other sample is usable and none is out of sight.
`SpheresDetermine` says when a render is determined in the code's terms: no
query's bound takes it beyond the spheres that samples are filed by.

Some of this is about recursive functions (`Width`, `AncestorAt`) and about what
`OneThread` comes to after any number of samples.  The library's induction
theorems take a predicate and cannot be used, but that a well-founded relation
has minimal elements is a statement on sets: `Least` gives the least
counterexample, `Inductive` induction over a set of numbers, `Iterates` that a
function can be iterated, and `FirstBlock` a first sample in the order of one
thread, with which `OneThreadIs` shows that there is what `OneThread` describes.

Only model-checked, and why:

* all liveness (`JobEnds`, `StopCompletes`, `PassEnds`, `SessionEnds`,
  `ShutdownReturns`, `CallsEnd`, `ParsingEnds`): out of the prover's reach;
* the POVMS objects and streams (`HeapInv`, `SizeIsExact`, `ImplementsMap`):
  values nest and are walked by recursive operators, which the provers do not
  take;
* `Directives` (`DirectivesInv`, `MeansWhatItSays`): what belongs together in a
  text is found by counting openers and ends in sets of positions, for every
  well-formed text; not attempted.

## 5. Disagreements with the source's own words

`queue_teardown` is a run that expects a violation; `PROJECT.json` quotes the
words.  The destructor sets `stopRequsted` and then stops the queue, and relies
on that order.  If the control thread has tested the flag and not yet entered
`Process`, the notification of `Stop` is lost, `Process` waits on an empty queue
and the destructor joins it for ever.

Met while modelling; the models take the step, and no property is stated that it
would break, or only with an exception that names it:

* A task's failure is overlooked when it comes between `Process`'s read of the
  failure code and its read of the done flag
  (`backend/support/taskqueue.cpp:199`); `backend/scene/scene.h:461` says that
  a failure makes the whole queue fail.
* Without anti-aliasing the final preview pass marks blocks complete
  (`backend/scene/view.cpp:1127`, and the comment at 496) while the pixels
  traced in earlier passes are not in the image: what was drawn as a preview
  went to the display only.  The manual says that the 1*1 pass "re-renders every
  pixel so that anti-aliasing and file output streams work properly"
  (`doc/html/r3_2.html:1253`).
* A render area or block size that puts blocks off the preview's grid, such as
  `+SC2 +SP2`: positions are counted from the block's corner and left out by
  absolute coordinates (`backend/render/tracetask.cpp:467`), so some pixels are
  never traced and others twice, while `backend/scene/view.cpp:719` speaks of
  rendering all pixels once.  `OneGrid` excepts these areas.
* A cancel while the session is paused after the command before a scene goes to
  a state that only a verdict of a scene or view leaves (`vfe/vfe.cpp:770`);
  there is neither, and the session can be neither cancelled nor started again
  (`vfe/vfecontrol.cpp:122` expects the worker to come to rest).
* Removing an item that is not a list's last one leaves a hole in its place and
  drops the last item (`base/povms.cpp:3645`, the comment at 3617 says the nth is
  removed).  The program removes the last one only, and so does the model.
* Continue skips the render when the output file is not empty
  (`frontend/renderfrontend.h:674`), although a crash while it was written can
  have left a part of it; `frontend/renderfrontend.cpp:633` means it to tell a
  finished render.
* The state file is removed when the back end reports the end of the render
  (`frontend/renderfrontend.h:818`); the image is written after that, from
  memory.  A crash between the two loses both.
* The answer to a task's request that comes after the task's context was closed
  is addressed to nobody; an assertion at `vfe/vfepovms.cpp:152` rules that out.
* `#break` in a branch of an `#if` that has more branches reads on, skipping,
  until the loop, clause or macro it leaves is on top of the condition stack
  (`backend/parser/tokenize.cpp:2645`).  The `#else` or `#elseif` it meets on the
  way turns the top into another entry, and the `#if`'s own `#end` removes that.
  If there is anything to parse between that `#end` and the next clause or the
  `#end` of what is left, the parser looks at the stack again there and the break
  is carried out; if there is not, it passes over that end as well
  (`DirectiveText!Unnoticed`) and then goes wrong: `#while (c) #if (d) #break
  #else x #end #end` ends with "End of file reached but #end expected." or takes
  too much.  `doc/html/r3_3.html` (section on `#break`) lets it stand "anywhere
  within a loop block".  `DirectivesInv` and `MeansWhatItSays` except parsing from
  such a `#break` on, and nothing else.
* Of `#else` in a `#switch` the manual says two things: that a true clause is
  parsed "until a `#break`, `#else` or `#end`" and that `#else` "is only executed
  if the clause before it was a false clause" (`doc/html/r3_3.html:4332`, 4334);
  and that it "acts like a `#range` directive that encompasses any possible
  number", so that clauses before it "must be ended with a `#break`" (4335).  The
  parser does the latter (`backend/parser/tokenize.cpp:1852`), and
  `DirectiveMeaning` follows it.  Of a clause that is come to from a true one
  without `#break` the manual says that its condition "is evaluated" (4333); the
  parser evaluates it and parses the clause whatever comes of it (1981).
* With `+HR` renders are "deterministic despite SMP" (`doc/html/r3_2.html:3341`).
  A radiosity sample is filed in the octree by its distance times the error bound
  of the final trace (`backend/lighting/radiosity.cpp:288`, 1277), and at the
  first level of recursion that is how far it reaches (`octreeOverfillFactor`,
  257); but a query with a weight below 0.25 has its error bound raised by up to
  0.25 (413) and looks farther, and below the first level samples are filed by an
  eighth of their reach.  A sample whose node is not around the point is found
  only while that node is the root, which the search does not test
  (`backend/support/octree.cpp:584`), and whether it still is depends on what
  other threads have done to the tree.
* The number of a tile is cut to 16 bits when a sample is made
  (`backend/lighting/radiosity.cpp:1271`) and not when it is compared (1610), so
  with more tiles a tile uses samples of another one that is under way.
  The comment at 1256 says that this "will only impact reproducibility": it does,
  and `CacheInv` says that it is all it does.  `Determined` excepts both.
* `Shutdown` called by two threads deletes the worker's thread object twice
  (`vfe/vfesession.cpp:771`); its documentation at line 898 allows a second
  call.  After an `Initialize` that timed out `Shutdown` does not wait for the worker
  (lines 773 and 1089), though line 764 says it waits.
* `Initialize` reports a time-out when the worker's notification comes between
  its test and its wait (lines 601 and 1086).
* `Initialize` waits once, in an `if` (line 1086).  When `timed_wait` returns
  early, which POSIX allows and boost passes on, it returns `vfeNoError` while
  the worker may not have made the front end, although line 1041 says that it
  waits for the worker's signal.  `RunningHasFrontend` is about an `Initialize`
  that was notified, and about the time from when the worker has told its state.
* `Pause` and `Resume` wait once as well (lines 991 and 1014): when such a wait
  returns early they return `m_RequestResult` from an earlier request and leave
  their own to be carried out, although "the return value is set according to
  whether the backend accepted the request" (964).  `AnswerIsMine` excepts the
  call it happens to.
* A call of `Pause` that timed out can be answered later, into the next caller's
  wait (line 965): `AnswerIsMine` excepts calls made while an earlier request is
  still with the worker, and no others after a time-out.
* When the back end's main thread fails by itself it reports its end at any time:
  it tests `m_Frontend` at line 564 and calls it at 565, and between the two the
  worker may delete the front end (708), since it joins that thread only later
  (713).  `CallsLiveFrontend` excepts a main thread that failed, while the worker
  is at that place (`AtItsEnd`).
* `Pause`, `Resume` and a time-out of `Initialize` overwrite `m_LastError` (lines
  994, 997 and 1090) while the worker drains its messages after a critical error
  (683 to 703); then the error is not raised as an event, for which the code
  raises `stCriticalError`.  `CriticalErrorIsTold` says that a critical error is
  told unless just that happened (`overwritten`).
* `POVMSObject_Merge` compares the class of the source with itself
  (`base/povms.cpp:2433`), so it never refuses.
* `POVMS_Attribute(POVMSInt)` stores the size of a `POVMSLong`
  (`base/povmscpp.cpp:193`), so `GetInt` refuses the value until it has been
  through a stream.  No code uses that constructor; `PovmsData!Attribute` keeps
  the size.

## 6. Not modelled

Most of the tree has no protocol to check and no state worth exploring: ray
tracing, radiosity and photon arithmetic, geometry, textures, patterns and the
function VM compute a number from numbers, and a task that runs them returns,
fails or is stopped.  The parser builds objects from tokens in one thread; of it
the directives are modelled, because they alone decide in what order.  Image
formats, console text and the platform front ends are I/O.  The largest part by
lines is third-party code in `libraries/` (boost, tiff, png, jpeg, OpenEXR) and
the Windows editor, which is not this program's own logic.  So the lines
modelled are a small share of the tree, and about a quarter of the files they
lie in.

Within the modelled parts:

* scheduler, dispatch, files: failure to create a thread, statistics, progress
  figures, a second `StartRender` on one view, output to stdout, the product at
  `view.cpp:131` in 32 bits;
* real-time raytracing: `RTRData::CompletedFrame`, an experiment of one platform,
  whose own comment expects its counter to go wrong when a wait times out
  (`view.cpp:1512`), and so the branches of `Process` for it;
* back end and front end: a second front end, connecting and disconnecting,
  reading of include files through the front end, progress and image messages;
* session: the message queues behind the events, a second `Initialize`, an
  exception out of `delete m_Frontend`, the callback of `WaitForEvent`; clock
  values, subset and cyclic animation;
* POVMS: the list of handlers, a request made by a handler, byte order, objects
  read from and written to files, a `malloc` that fails; and uses the program
  does not make of it: removing a list's only item, assigning an object to
  itself, moving one without a class;
* radiosity: three dimensions (a node has eight children, each treated as one of
  two here), how a query comes by its weight, recursion depth, averaging of
  samples, the two photon maps;
* directives: `#for`, `#ifdef` and their like (`#if` with another condition),
  `#include`, macro parameters and files, macros defined in macros.

## 7. Plan

Done: the scheduler, block dispatch and the grid of blocks, continue trace,
mosaic preview, both sides' registries, the virtual front end with shell-outs,
the session from start to end, POVMS objects and contexts, the radiosity cache,
the directives; theorems for the scheduler, block dispatch, continue trace,
mosaic preview, contexts, session, registries, virtual front end, the grids and
the radiosity cache.
Next, in this order:

1. Theorems for `Directives`: the condition stack matches the text that encloses
   the place read, from which `DirectivesInv` follows.
2. `RTRData`, for a platform that waits with a time limit.
