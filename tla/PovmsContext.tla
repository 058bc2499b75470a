---------------------------- MODULE PovmsContext ----------------------------
(***************************************************************************)
(* Contexts, queues and requests of the message layer: POVMS_Send,         *)
(* POVMS_ProcessMessages and POVMS_Receive (base/povms.cpp) over the        *)
(* queues of vfe/vfepovms.cpp.  A context belongs to one thread.  Servers  *)
(* (the front end's worker, the back end's main thread) process messages   *)
(* in their loop, tasks only while they wait for a reply.                  *)
(*                                                                         *)
(* A thread that waits in POVMS_Send handles whatever else arrives.  No    *)
(* handler of this program waits for a reply itself, so a call is never    *)
(* nested in another one.  A handler may throw, refuse (the requester gets *)
(* no reply then), or stop the tasks and wait for them (the back end's     *)
(* stop and close requests, TaskQueue::Stop).                              *)
(*                                                                         *)
(* The contents of messages are left out.  A request is known by the       *)
(* number its result object carries, kPOVMSResultSequenceID.               *)
(***************************************************************************)
EXTENDS Integers, Sequences

CONSTANTS
  Servers, Tasks,       \* contexts
  Asks,                 \* <<c, d>>: c sends d requests and waits for the reply,
  Tells,                \* or messages without a reply
  Stoppers,             \* servers whose handlers stop the tasks
  MaxCalls, MaxNotes    \* bounds: calls per context, messages without reply

Contexts == Servers \cup Tasks

ASSUME ContextsAssumption == /\ Servers \cap Tasks = {} /\ Stoppers \subseteq Servers
                             /\ Asks \cup Tells \subseteq Contexts \X Servers
(* What the tasks ask for they get from a context that does not wait for   *)
(* them: the parser asks the front end for files, the back end stops it.   *)
ASSUME StopAssumption == \A p \in Tasks, d \in Stoppers : <<p, d>> \notin Asks
ASSUME BoundsAssumption == MaxCalls \in Nat /\ MaxNotes \in Nat

Null == 0               \* kPOVMSType_Null
None == [kind |-> "none", from |-> "none", rid |-> 0]

VARIABLES
  open,                 \* contexts that are
  queue,                \* per context
  result, resultid,     \* context->result: Null or the number of the reply; resultid
  nextsequenceid,
  call,                 \* per context: the call in POVMS_Send, or NoCall
  handling,             \* per context: the message its handler is called with, or None
  stopRequested,        \* the tasks have been told to stop
  stopping,             \* servers whose handler waits for the tasks
  notes,                \* messages without reply sent
  executed, outcome,    \* history: requests handled; per context, its last call
  faulty                \* history: a call was given up, refused or left by an exception

NoCall  == [rid |-> 0, oldresult |-> Null, oldid |-> 0]
store   == <<result, resultid>>
calls   == <<store, nextsequenceid, call, outcome>>
life    == <<open, stopRequested, stopping>>
history == <<executed, faulty>>
vars    == <<queue, calls, handling, life, notes, history>>

Init ==
  /\ open = Contexts /\ stopRequested = FALSE /\ stopping = {}
  /\ queue = [c \in Contexts |-> <<>>]
  /\ result = [c \in Contexts |-> Null] /\ resultid = [c \in Contexts |-> 0]
  /\ nextsequenceid = [c \in Contexts |-> 1]
  /\ call = [c \in Contexts |-> NoCall] /\ handling = [c \in Contexts |-> None]
  /\ notes = 0
  /\ executed = {} /\ outcome = [c \in Contexts |-> [asked |-> 0, answer |-> 0]]
  /\ faulty = FALSE

-----------------------------------------------------------------------------
(* Queues.  An address is a pointer to the queue; what a message to a      *)
(* deleted one does is undefined; here it is lost.                         *)
Request(c, r) == [kind |-> "request", from |-> c, rid |-> r]
Reply(r)      == [kind |-> "reply", from |-> "none", rid |-> r]
Note(c)       == [kind |-> "note", from |-> c, rid |-> 0]

QueueSend(d, m) ==
  queue' = IF d \in open THEN [queue EXCEPT ![d] = Append(@, m)] ELSE queue

Waits(c) == call[c] # NoCall
Idle(c)  == c \in open /\ ~Waits(c) /\ handling[c] = None

-----------------------------------------------------------------------------
(* POVMS_Send with a result object takes two sequence numbers, queues the  *)
(* request and makes the second number the one it waits for.               *)
Send(c, d) ==
  /\ Idle(c) /\ <<c, d>> \in Asks
  /\ c \in Tasks => ~stopRequested
  /\ nextsequenceid[c] < 2 * MaxCalls
  /\ LET r == nextsequenceid[c] + 1
     IN  /\ QueueSend(d, Request(c, r))
         /\ call' = [call EXCEPT ![c] = [rid |-> r, oldresult |-> result[c],
                                         oldid |-> resultid[c]]]
         /\ result' = [result EXCEPT ![c] = Null]
         /\ resultid' = [resultid EXCEPT ![c] = r]
  /\ nextsequenceid' = [nextsequenceid EXCEPT ![c] = @ + 2]
  /\ UNCHANGED <<handling, life, notes, history, outcome>>

(* POVMS_Send without a result object.                                     *)
Tell(c, d) ==
  /\ c \in open /\ <<c, d>> \in Tells /\ notes < MaxNotes
  /\ QueueSend(d, Note(c)) /\ notes' = notes + 1
  /\ UNCHANGED <<calls, handling, life, history>>

(* Variant: the next reply is taken, whatever it answers.                  *)
AwaitsAny(c, m) == resultid[c] # 0 /\ m.rid # 0

(* context->resultid == resultid, of a message that has one                *)
Awaits(c, m) == resultid[c] # 0 /\ resultid[c] = m.rid /\ m.kind = "reply"

(* The loop of POVMS_Send goes on, or a server's own loop does.            *)
Processes(c) == IF Waits(c) THEN resultid[c] = call[c].rid ELSE c \in Servers

OutOfSync(c) == result[c] # Null /\ resultid[c] # 0

MayProcess(c) == /\ c \in open /\ handling[c] = None /\ Processes(c) /\ ~OutOfSync(c)
                 /\ queue[c] # <<>>

(* POVMS_ProcessMessages: the reply waited for is stored; another message  *)
(* is handled, in a wait too, if there is a handler; replies have none.    *)
ProcessMessages(c) ==
  /\ MayProcess(c)
  /\ LET m == Head(queue[c])
     IN  IF Awaits(c, m)
         THEN /\ result' = [result EXCEPT ![c] = m.rid]
              /\ resultid' = [resultid EXCEPT ![c] = 0]
              /\ UNCHANGED <<handling, executed>>
         ELSE /\ handling' = [handling EXCEPT ![c] = IF m.kind = "reply" THEN None ELSE m]
              /\ executed' = IF m.kind = "request"
                             THEN executed \cup {<<m.from, m.rid>>} ELSE executed
              /\ UNCHANGED store
  /\ queue' = [queue EXCEPT ![c] = Tail(@)]
  /\ UNCHANGED <<nextsequenceid, call, outcome, life, notes, faulty>>

(* A handler that has begun to stop the tasks is not over before they are. *)
MayReturn(c) == /\ handling[c] # None
                /\ c \in stopping => Tasks \cap open = {}

HandlerStopsTasks(c) ==
  /\ c \in Stoppers /\ handling[c].kind = "request" /\ c \notin stopping
  /\ stopRequested' = TRUE /\ stopping' = stopping \cup {c}
  /\ UNCHANGED <<open, queue, calls, handling, notes, history>>

(* The handler returns kNoErr: a request's result object is sent back, with *)
(* the number it came with.                                                *)
HandlerReturns(c) ==
  /\ MayReturn(c)
  /\ IF handling[c].kind = "request"
     THEN QueueSend(handling[c].from, Reply(handling[c].rid))
     ELSE UNCHANGED queue
  /\ handling' = [handling EXCEPT ![c] = None] /\ stopping' = stopping \ {c}
  /\ UNCHANGED <<open, stopRequested, calls, notes, history>>

(* It returns an error: the result object is deleted.                      *)
HandlerRefuses(c) ==
  /\ MayReturn(c) /\ handling[c].kind = "request"
  /\ handling' = [handling EXCEPT ![c] = None] /\ stopping' = stopping \ {c}
  /\ faulty' = TRUE
  /\ UNCHANGED <<open, stopRequested, queue, calls, notes, executed>>

(* It throws, through ProcessMessages and, in a wait, through POVMS_Send.  *)
HandlerThrows(c) ==
  /\ MayReturn(c)
  /\ handling' = [handling EXCEPT ![c] = None] /\ stopping' = stopping \ {c}
  /\ IF Waits(c)
     THEN /\ call' = [call EXCEPT ![c] = NoCall]
          /\ outcome' = [outcome EXCEPT ![c] = [asked |-> call[c].rid, answer |-> 0]]
     ELSE UNCHANGED <<call, outcome>>
  /\ faulty' = TRUE
  /\ UNCHANGED <<store, nextsequenceid, open, stopRequested, queue, notes, executed>>

-----------------------------------------------------------------------------
(* Variant: the type of context->result is not restored.                   *)
RestoreId(c) ==
  /\ UNCHANGED result
  /\ resultid' = [resultid EXCEPT ![c] = call[c].oldid]

(* The end of POVMS_Send.                                                  *)
Restore(c) ==
  /\ result' = [result EXCEPT ![c] = call[c].oldresult]
  /\ resultid' = [resultid EXCEPT ![c] = call[c].oldid]

EndCall(c, answer) ==
  /\ Restore(c)
  /\ call' = [call EXCEPT ![c] = NoCall]
  /\ outcome' = [outcome EXCEPT ![c] = [asked |-> call[c].rid, answer |-> answer]]
  /\ UNCHANGED <<nextsequenceid, queue, handling, life, notes, executed>>

HasReply(c) == Waits(c) /\ resultid[c] = 0
Answered(c) == /\ HasReply(c)
               /\ EndCall(c, result[c]) /\ UNCHANGED faulty

(* Variant: the clock is looked at only when a message is there.           *)
TimedOutBusy(c) == /\ Waits(c) /\ handling[c] = None /\ resultid[c] = call[c].rid
                   /\ queue[c] # <<>>
                   /\ EndCall(c, 0) /\ faulty' = TRUE

(* maxtime is over, seen between two messages.                             *)
TimedOut(c) == /\ Waits(c) /\ handling[c] = None /\ resultid[c] = call[c].rid
               /\ EndCall(c, 0) /\ faulty' = TRUE

MayEnd(p) == p \in Tasks /\ Idle(p)

(* A task ends: CloseContext deletes its queue with what is in it.         *)
EndTask(p) ==
  /\ MayEnd(p)
  /\ open' = open \ {p} /\ queue' = [queue EXCEPT ![p] = <<>>]
  /\ UNCHANGED <<stopRequested, stopping, calls, handling, notes, history>>

HandlerEnds(c) == HandlerReturns(c) \/ HandlerRefuses(c) \/ HandlerThrows(c)

Next == \E c \in Contexts :
          \/ \E d \in Servers : Send(c, d) \/ Tell(c, d)
          \/ ProcessMessages(c) \/ HandlerStopsTasks(c) \/ HandlerEnds(c)
          \/ Answered(c) \/ TimedOut(c) \/ EndTask(c)

(* Threads run, clocks run, handlers come back and stopped tasks end.      *)
Fairness == \A c \in Contexts :
  /\ WF_vars(ProcessMessages(c)) /\ WF_vars(HandlerEnds(c))
  /\ WF_vars(Answered(c)) /\ WF_vars(TimedOut(c))
  /\ WF_vars(EndTask(c) /\ stopRequested)

Spec == Init /\ [][Next]_vars /\ Fairness

-----------------------------------------------------------------------------
Numbers  == 0..(2 * MaxCalls + 1)
Messages == [kind : {"request"}, from : Contexts, rid : Numbers]
              \cup {Reply(r) : r \in Numbers} \cup {Note(c) : c \in Contexts}

TypeOK ==
  /\ open \subseteq Contexts /\ Servers \subseteq open
  /\ queue \in [Contexts -> Seq(Messages)] /\ handling \in [Contexts -> Messages \cup {None}]
  /\ result \in [Contexts -> Numbers] /\ resultid \in [Contexts -> Numbers]
  /\ nextsequenceid \in [Contexts -> Numbers]
  /\ call \in [Contexts -> [rid : Numbers, oldresult : Numbers, oldid : Numbers]]
  /\ stopRequested \in BOOLEAN /\ stopping \subseteq Stoppers /\ notes \in 0..MaxNotes
  /\ executed \subseteq Contexts \X Numbers
  /\ outcome \in [Contexts -> [asked : Numbers, answer : Numbers]]
  /\ faulty \in BOOLEAN

(* A context never gets into the state that ProcessMessages refuses with   *)
(* kOutOfSyncErr, also when a handler throws out of a wait, leaves the     *)
(* number waited for behind and the reply comes later: it would not        *)
(* process any message again.                                              *)
NeverOutOfSync == \A c \in Contexts : ~OutOfSync(c)

(* The answer of a call is the one to its own request, and a request is    *)
(* carried out at most once, whatever comes late.                          *)
Abstract == INSTANCE RequestReply WITH
  Clients <- Contexts,
  last <- [c \in Contexts |-> nextsequenceid[c] - 1],
  pending <- [c \in Contexts |-> call[c].rid]
ImplementsRequestReply == Abstract!Spec

(* Without a fault no call has to wait for its time-out: the back end may  *)
(* wait for a task that waits for the front end that waits for the back    *)
(* end, since the front end serves the task meanwhile.  GoesOn has what    *)
(* enables ProcessMessages, HandlerReturns, Answered and EndTask.          *)
GoesOn(c) == \/ MayProcess(c) \/ MayReturn(c) \/ HasReply(c)
             \/ MayEnd(c) /\ stopRequested
NoWaitInCircles ==
  ~faulty /\ (\E c \in Contexts : Waits(c)) => \E c \in Contexts : GoesOn(c)

(* The state has its type, no context is out of sync or in a circle.       *)
ContextInv == TypeOK /\ NeverOutOfSync /\ NoWaitInCircles

(* With faults every call still comes back.                                *)
CallsEnd == \A c \in Contexts : Waits(c) ~> ~Waits(c)

=============================================================================
