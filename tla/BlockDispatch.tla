--------------------------- MODULE BlockDispatch ---------------------------
(***************************************************************************)
(* How the blocks of an image are handed to the render threads: the two    *)
(* ViewData::GetNextRectangle functions, ViewData::CompletedRectangle and   *)
(* ViewData::SetNextRectangle (backend/scene/view.cpp), with the loops of   *)
(* TraceTask and RadiosityTask that call them.                             *)
(*                                                                         *)
(* Each of these functions does what matters here under nextBlockMutex, so *)
(* each is one action.  A pass is what the tasks between two syncs of the  *)
(* view's task queue do; TaskQueue!SyncBarrier is why SetNextRectangle     *)
(* only runs when every thread of the pass has ended.  The walks of the    *)
(* code over serial numbers are written as the least number that stops     *)
(* them; BlockGrid has the rectangle behind a serial.                      *)
(***************************************************************************)
EXTENDS Integers, FiniteSets, FiniteSetsExt

CONSTANTS
  NumBlocks,            \* blockWidth * blockHeight
  Threads,              \* maxRenderThreads threads
  PretraceSteps,        \* pretraceStepCount of a task that revisits blocks
  MaxPasses             \* bound: passes of one StartRender call explored

ASSUME BlocksAssumption == NumBlocks \in Nat \ {0}
ASSUME ThreadsAssumption == IsFiniteSet(Threads) /\ Threads # {}
ASSUME StepsAssumption == PretraceSteps \in Nat \ {0} /\ MaxPasses \in Nat \ {0}

Blocks == 0..(NumBlocks - 1)

VARIABLES
  nextBlock, blockSkipList, blockBusyList, blockPostponedList,
  blockInfoList,        \* per block: passes recorded in its BlockInfo, 0 for NULL
  completedFirstPass,
  kind,                 \* of the pass: "simple" and "preview" call the two-argument
                        \* GetNextRectangle, "strided" and "revisit" the other one
  stride,               \* the stride argument, 0 unless strided
  fs, bsl,              \* where StartRender was told to begin and what to skip
  pc, serial,           \* per thread: "asking", "rendering" or "ended"; its block
  pass,                 \* passes begun
  count                 \* history: how often each block was handed out in this pass

given == <<fs, bsl, kind, stride, pass>>
vars  == <<nextBlock, blockSkipList, blockBusyList, blockPostponedList, blockInfoList,
           completedFirstPass, given, pc, serial, count>>

AllEnded == \A t \in Threads : pc[t] = "ended"

(* Blocks this pass has to render.                                         *)
ToDo == {b \in Blocks : b >= fs} \ bsl

(* What RenderFrontendBase::ContinueBackup can ask for: a first block, and *)
(* blocks not before it that are there already (ContinueTrace).            *)
RestartPoint(f, s) == s \subseteq {b \in Blocks : b >= f} /\ (f = 0 => 0 \notin s)

(* Tasks of a pass: as many as there are threads, but for a reproducible   *)
(* pretrace step min(nominalThreads, maxRenderThreads).                    *)
Asking(crew) == [t \in Threads |-> IF t \in crew THEN "asking" ELSE "ended"]
Crew(k, n)   == {c \in SUBSET Threads :
                   Cardinality(c) = IF k = "strided" /\ n < Cardinality(Threads)
                                    THEN n ELSE Cardinality(Threads)}

Init ==
  /\ fs \in 0..NumBlocks /\ bsl \in SUBSET Blocks /\ RestartPoint(fs, bsl)
  /\ \E k \in {<<"simple", 0>>, <<"preview", 0>>, <<"strided", 1>>, <<"revisit", 0>>} :
       kind = k[1] /\ stride = k[2]
  /\ nextBlock = fs /\ blockSkipList = bsl
  /\ blockBusyList = {} /\ blockPostponedList = {}
  /\ blockInfoList = [b \in Blocks |-> 0] /\ completedFirstPass = FALSE
  /\ \E c \in Crew(kind, stride) : pc = Asking(c)
  /\ serial = [t \in Threads |-> 0]
  /\ pass = 1 /\ count = [b \in Blocks |-> 0]

-----------------------------------------------------------------------------
(* GetNextRectangle returns true with serial b ...                         *)
HandOut(t, b) ==
  /\ blockBusyList' = blockBusyList \cup {b}
  /\ serial' = [serial EXCEPT ![t] = b]
  /\ pc' = [pc EXCEPT ![t] = "rendering"]
  /\ count' = [count EXCEPT ![b] = @ + 1]
  /\ UNCHANGED <<blockInfoList, given>>

(* Variant: a thread without a block stays until no block is rendered.     *)
NoMoreUntilIdle(t) ==
  /\ blockBusyList = {}
  /\ pc' = [pc EXCEPT ![t] = "ended"]
  /\ UNCHANGED <<blockBusyList, blockInfoList, given, serial, count>>

(* ... or false, and the task's loop ends.                                 *)
NoMore(t) ==
  /\ pc' = [pc EXCEPT ![t] = "ended"]
  /\ UNCHANGED <<blockBusyList, blockInfoList, given, serial, count>>

(* The two-argument function walks past the blocks to skip and forgets     *)
(* them on the way.                                                        *)
AskSimple(t) ==
  /\ pc[t] = "asking" /\ kind \in {"simple", "preview"}
  /\ LET left == {b \in Blocks : b >= nextBlock} \ blockSkipList
         stop == IF left = {} THEN NumBlocks ELSE Min(left)
     IN  /\ blockSkipList' = blockSkipList \ (nextBlock..(stop - 1))
         /\ IF left = {}
            THEN nextBlock' = NumBlocks /\ NoMore(t)
            ELSE nextBlock' = stop + 1 /\ HandOut(t, stop)
  /\ UNCHANGED <<blockPostponedList, completedFirstPass>>

(* Variant: only the busy block itself is avoided.                         *)
AvoidSame(b) == b \in blockBusyList

(* A block behind a busy one at a multiple of the stride has to wait.      *)
Avoid(b) == \E a \in blockBusyList : b >= a /\ (b - a) % stride = 0

AskPostponed(t) ==
  /\ pc[t] = "asking" /\ kind = "strided"
  /\ LET usable == {b \in blockPostponedList : ~Avoid(b)}
     IN  /\ usable # {}
         /\ blockPostponedList' = blockPostponedList \ {Min(usable)}
         /\ HandOut(t, Min(usable))
  /\ UNCHANGED <<nextBlock, blockSkipList, completedFirstPass>>

(* Without a usable postponed block the walk goes on from nextBlock; what  *)
(* it avoids is postponed, but only if it finds a block to hand out.       *)
AskStrided(t) ==
  /\ pc[t] = "asking" /\ kind = "strided"
  /\ \A b \in blockPostponedList : Avoid(b)
  /\ LET left == {b \in Blocks : b >= nextBlock} \ blockSkipList
         free == {b \in left : ~Avoid(b)}
     IN  IF free = {}
         THEN NoMore(t) /\ UNCHANGED <<nextBlock, blockPostponedList>>
         ELSE /\ HandOut(t, Min(free))
              /\ nextBlock' = Min(free) + 1
              /\ blockPostponedList' = blockPostponedList \cup {b \in left : b < Min(free)}
  /\ UNCHANGED <<blockSkipList, completedFirstPass>>

(* Without a stride the walk is a circle that ends where it began; after   *)
(* the first round only blocks with a BlockInfo are of interest.           *)
Idle(b) == b \notin blockSkipList /\ b \notin blockBusyList
Ahead   == {b \in Blocks : b >= nextBlock /\ Idle(b) /\ (~completedFirstPass \/ blockInfoList[b] # 0)}
Behind  == {b \in Blocks : b < nextBlock /\ Idle(b) /\ blockInfoList[b] # 0}

AskRevisit(t) ==
  /\ pc[t] = "asking" /\ kind = "revisit"
  /\ IF Ahead # {}
     THEN /\ HandOut(t, Min(Ahead))
          /\ nextBlock' = Min(Ahead) + 1
          /\ UNCHANGED completedFirstPass
     ELSE /\ nextBlock # 0         \* else the walk never meets its beginning again
          /\ completedFirstPass' = TRUE
          /\ IF Behind = {}
             THEN NoMore(t) /\ UNCHANGED nextBlock
             ELSE HandOut(t, Min(Behind)) /\ nextBlock' = Min(Behind) + 1
  /\ UNCHANGED <<blockSkipList, blockPostponedList>>

(* CompletedRectangle takes the block off blockBusyList and stores the     *)
(* BlockInfo it is given: NULL, or one more pass of RadiosityTask behind   *)
(* it and another to come (whether sub-blocks are left is data).           *)
Infos(t) == LET p == blockInfoList[serial[t]] + 1
            IN  {0} \cup IF kind = "revisit" /\ p < PretraceSteps THEN {p} ELSE {}

Stored(t) ==
  /\ pc[t] = "rendering"
  /\ \E i \in Infos(t) : blockInfoList' = [blockInfoList EXCEPT ![serial[t]] = i]
  /\ pc' = [pc EXCEPT ![t] = "asking"]
  /\ UNCHANGED <<nextBlock, blockSkipList, blockPostponedList, completedFirstPass, given,
                 serial, count>>

(* Variant: the block stays in blockBusyList.                              *)
CompletedStaysBusy(t) == Stored(t) /\ UNCHANGED blockBusyList

Completed(t) == Stored(t) /\ blockBusyList' = blockBusyList \ {serial[t]}

(* A preview pass that finds no pixel to trace in a block (see             *)
(* MosaicPreview) does not call CompletedRectangle.                        *)
NothingTraced(t) ==
  /\ pc[t] = "rendering" /\ kind = "preview"
  /\ pc' = [pc EXCEPT ![t] = "asking"]
  /\ UNCHANGED <<nextBlock, blockSkipList, blockBusyList, blockPostponedList, blockInfoList,
                 completedFirstPass, given, serial, count>>

(* What StartRender puts behind a pass: twice the stride, previews, and    *)
(* the final pass.                                                         *)
Following ==
  CASE kind = "strided" -> {<<"strided", 2 * stride>>, <<"preview", 0>>, <<"simple", 0>>}
    [] kind \in {"revisit", "preview"} -> {<<"preview", 0>>, <<"simple", 0>>}
    [] kind = "simple" -> {}

NextPass ==
  /\ AllEnded /\ pass < MaxPasses
  /\ \E k \in Following : kind' = k[1] /\ stride' = k[2]
  /\ \E c \in Crew(kind', stride') : pc' = Asking(c)
  /\ pass' = pass + 1 /\ count' = [b \in Blocks |-> 0]
  /\ UNCHANGED <<blockInfoList, fs, bsl, serial>>

(* Variant: the skip list, emptied by a simple pass, is not set again.     *)
SkipListNotReset ==
  /\ NextPass
  /\ blockBusyList' = {} /\ blockPostponedList' = {}
  /\ nextBlock' = fs /\ completedFirstPass' = FALSE
  /\ UNCHANGED blockSkipList

(* SetNextRectangle, called between two syncs, and the tasks of the next   *)
(* pass.                                                                   *)
SetNextRectangle ==
  /\ NextPass
  /\ blockSkipList' = bsl
  /\ blockBusyList' = {} /\ blockPostponedList' = {}
  /\ nextBlock' = fs /\ completedFirstPass' = FALSE

ThreadStep(t) ==
  AskSimple(t) \/ AskPostponed(t) \/ AskStrided(t) \/ AskRevisit(t)
    \/ Completed(t) \/ NothingTraced(t)

Next == (\E t \in Threads : ThreadStep(t)) \/ SetNextRectangle

(* Render threads and the control thread keep running.                     *)
Fairness == (\A t \in Threads : WF_vars(ThreadStep(t))) /\ WF_vars(SetNextRectangle)

Spec     == Init /\ [][Next]_vars
FairSpec == Spec /\ Fairness

-----------------------------------------------------------------------------
(* Properties.                                                             *)

(* The state has the shape the declarations of ViewData give it.           *)
TypeOK ==
  /\ nextBlock \in 0..NumBlocks
  /\ blockSkipList \subseteq Blocks /\ blockBusyList \subseteq Blocks
  /\ blockPostponedList \subseteq Blocks
  /\ blockInfoList \in [Blocks -> 0..(PretraceSteps - 1)] /\ completedFirstPass \in BOOLEAN
  /\ kind \in {"simple", "preview", "strided", "revisit"} /\ stride \in Nat
  /\ fs \in 0..NumBlocks /\ bsl \subseteq Blocks
  /\ pc \in [Threads -> {"asking", "rendering", "ended"}]
  /\ serial \in [Threads -> Blocks]
  /\ pass \in 1..MaxPasses /\ count \in [Blocks -> Nat]

(* No block is rendered by two threads at once, and blockBusyList has what *)
(* is being rendered, whichever walk handed it out; except for a preview   *)
(* it has nothing else, so that no walk avoids a block for nothing.        *)
Rendering == {t \in Threads : pc[t] = "rendering"}
OneRenderer ==
  /\ \A t, u \in Rendering : t # u => serial[t] # serial[u]
  /\ {serial[t] : t \in Rendering} \subseteq blockBusyList
  /\ kind # "preview" => blockBusyList \subseteq {serial[t] : t \in Rendering}

(* The state has its type, and every block one renderer.                   *)
DispatchInv == TypeOK /\ OneRenderer

(* When the last task of a pass has ended, every block the pass had to     *)
(* render was handed out (once, unless it asked to be visited again), no   *)
(* other was, and none still waits to be visited again or is postponed.    *)
PassComplete ==
  AllEnded =>
    /\ \A b \in ToDo : count[b] >= 1 /\ (kind # "revisit" => count[b] = 1)
    /\ \A b \in Blocks \ ToDo : count[b] = 0
    /\ \A b \in Blocks : blockInfoList[b] = 0
    /\ blockPostponedList = {}

(* Blocks of one class modulo the stride are rendered in order and one at  *)
(* a time, which is what makes a high-reproducibility radiosity pretrace   *)
(* independent of the number of threads.                                   *)
ClassesInOrder ==
  kind = "strided" =>
    \A a, b \in ToDo : (a < b /\ (b - a) % stride = 0 /\ count[b] > 0) =>
      count[a] > 0 /\ a \notin blockBusyList

(* Every pass comes to an end: no thread is left asking or sent round and  *)
(* round.                                                                  *)
PassEnds == []<>AllEnded

=============================================================================
