------------------------- MODULE PovmsContextProofs -------------------------
(***************************************************************************)
(* Proofs about PovmsContext for every set of contexts, whoever asks whom,  *)
(* and with every fault the module has.                                    *)
(***************************************************************************)
EXTENDS PovmsContext, TLAPS

(* Before it is carried out a request is in one place of one queue.        *)
IsRequest(d, i) == queue[d][i].kind = "request"
Same(d, i, e, j) == /\ queue[d][i].from = queue[e][j].from
                    /\ queue[d][i].rid = queue[e][j].rid

NumbersTaken ==
  /\ \A d \in Contexts : \A i \in 1..Len(queue[d]) : IsRequest(d, i) =>
       queue[d][i].rid \in 1..(nextsequenceid[queue[d][i].from] - 1)
  /\ \A c \in Contexts, n \in Numbers : <<c, n>> \in executed => n < nextsequenceid[c]

QueuedOnce ==
  \A d, e \in Contexts : \A i \in 1..Len(queue[d]), j \in 1..Len(queue[e]) :
    IsRequest(d, i) /\ IsRequest(e, j) /\ Same(d, i, e, j) => d = e /\ i = j

NotYetExecuted ==
  \A d \in Contexts : \A i \in 1..Len(queue[d]) :
    IsRequest(d, i) => <<queue[d][i].from, queue[d][i].rid>> \notin executed

(* What is handled or answered has been carried out.                       *)
HandledExecuted ==
  \A c \in Contexts : handling[c].kind = "request" =>
    <<handling[c].from, handling[c].rid>> \in executed

RepliesExecuted ==
  \A d \in Contexts : \A i \in 1..Len(queue[d]) :
    queue[d][i].kind = "reply" => <<d, queue[d][i].rid>> \in executed

(* The result stored in a wait is the answer, and the answer only.         *)
CallsSound ==
  \A c \in Contexts : Waits(c) =>
    /\ call[c].rid # 0
    /\ \/ resultid[c] = call[c].rid /\ result[c] = 0
       \/ resultid[c] = 0 /\ result[c] = call[c].rid /\ <<c, call[c].rid>> \in executed

InSync == \A c \in Contexts : /\ result[c] = 0 \/ resultid[c] = 0
                              /\ call[c].oldresult = 0 \/ call[c].oldid = 0

QueuesInv == NumbersTaken /\ QueuedOnce /\ NotYetExecuted /\ RepliesExecuted
IInv == TypeOK /\ QueuesInv /\ HandledExecuted /\ CallsSound /\ InSync

-----------------------------------------------------------------------------
(* Messages and queues.                                                    *)

LEMMA ServersAreContexts == Servers \subseteq Contexts /\ Tasks \subseteq Contexts
BY DEF Contexts

LEMMA MessagesTyped ==
  /\ \A c \in Contexts, r \in Numbers : Request(c, r) \in Messages
  /\ \A r \in Numbers : Reply(r) \in Messages
  /\ \A c \in Contexts : Note(c) \in Messages
BY DEF Messages, Request, Reply, Note

LEMMA RequestTyped ==
  ASSUME NEW m \in Messages \cup {None}, m.kind = "request"
  PROVE  m \in Messages /\ m.from \in Contexts /\ m.rid \in Numbers
BY DEF Messages, Reply, Note, None

LEMMA ReplyTyped ==
  ASSUME NEW m \in Messages, m.kind = "reply" PROVE m.rid \in Numbers
BY DEF Messages, Reply, Note

LEMMA NumbersAreNat == Numbers \subseteq Nat /\ 0 \in Numbers /\ 1 \in Numbers
BY BoundsAssumption DEF Numbers

LEMMA NextNumbers ==
  ASSUME NEW n \in Numbers, n < 2 * MaxCalls PROVE n + 1 \in Numbers /\ n + 2 \in Numbers
BY BoundsAssumption DEF Numbers

(* A message is put at the end of one queue, or lost.                      *)
LEMMA SendEffect ==
  ASSUME TypeOK, NEW d \in Contexts, NEW m \in Messages, QueueSend(d, m)
  PROVE  /\ queue' \in [Contexts -> Seq(Messages)]
         /\ \A e \in Contexts : e # d => queue'[e] = queue[e]
         /\ \A i \in 1..Len(queue'[d]) :
              \/ i \in 1..Len(queue[d]) /\ queue'[d][i] = queue[d][i]
              \/ i = Len(queue[d]) + 1 /\ queue'[d][i] = m
BY DEF TypeOK, QueueSend

(* Messages leave a queue from its front.                                  *)
Shrinks(k) ==
  \A d \in Contexts : \A i \in 1..Len(queue'[d]) :
    i + k[d] \in 1..Len(queue[d]) /\ queue'[d][i] = queue[d][i + k[d]]

LEMMA TailEffect ==
  ASSUME TypeOK, NEW c \in Contexts, queue[c] # <<>>,
         queue' = [queue EXCEPT ![c] = Tail(@)]
  PROVE  /\ queue' \in [Contexts -> Seq(Messages)]
         /\ Head(queue[c]) = queue[c][1] /\ 1 \in 1..Len(queue[c])
         /\ Head(queue[c]) \in Messages
         /\ Shrinks([d \in Contexts |-> IF d = c THEN 1 ELSE 0])
BY DEF TypeOK, Shrinks

-----------------------------------------------------------------------------
(* Typing.                                                                 *)
LEMMA NothingTyped == NoCall \in [rid : Numbers, oldresult : Numbers, oldid : Numbers]
BY NumbersAreNat DEF NoCall, Null

LEMMA InitTyped == Init => TypeOK
<1> SUFFICES ASSUME Init PROVE TypeOK
  OBVIOUS
<1> USE DEF Init, Null
<1>1. queue \in [Contexts -> Seq(Messages)]
  OBVIOUS
<1>2. handling \in [Contexts -> Messages \cup {None}]
  OBVIOUS
<1>3. outcome \in [Contexts -> [asked : Numbers, answer : Numbers]]
  BY NumbersAreNat
<1>4. call \in [Contexts -> [rid : Numbers, oldresult : Numbers, oldid : Numbers]]
  BY NothingTyped
<1>5. /\ result \in [Contexts -> Numbers] /\ resultid \in [Contexts -> Numbers]
      /\ nextsequenceid \in [Contexts -> Numbers]
  BY NumbersAreNat
<1>6. open \subseteq Contexts /\ Servers \subseteq open
  BY ServersAreContexts
<1>7. stopRequested \in BOOLEAN
  OBVIOUS
<1>8. stopping \subseteq Stoppers
  OBVIOUS
<1>9. notes \in 0..MaxNotes
  BY BoundsAssumption
<1>10. executed \subseteq Contexts \X Numbers /\ faulty \in BOOLEAN
  OBVIOUS
<1> HIDE DEF Init
<1> QED
  BY <1>1, <1>2, <1>3, <1>4, <1>5, <1>6, <1>10, <1>7, <1>8, <1>9 DEF TypeOK

LEMMA NextTyped == ASSUME TypeOK, [Next]_vars PROVE TypeOK'
<1> USE NumbersAreNat DEF TypeOK, life, calls, store, history
<1>1. ASSUME NEW c \in Contexts, NEW d \in Servers, Send(c, d) PROVE TypeOK'
  <2> DEFINE r == nextsequenceid[c] + 1
  <2>1. r \in Numbers /\ nextsequenceid[c] + 2 \in Numbers
    BY <1>1, NextNumbers DEF Send
  <2>2. queue' \in [Contexts -> Seq(Messages)]
    BY <1>1, <2>1, MessagesTyped, ServersAreContexts, SendEffect DEF Send
  <2>3. call' \in [Contexts -> [rid : Numbers, oldresult : Numbers, oldid : Numbers]]
    BY <1>1, <2>1 DEF Send
  <2>4. /\ result' \in [Contexts -> Numbers] /\ resultid' \in [Contexts -> Numbers]
        /\ nextsequenceid' \in [Contexts -> Numbers]
    BY <1>1, <2>1 DEF Send, Null
  <2> QED
    BY <1>1, <2>2, <2>3, <2>4 DEF Send
<1>2. ASSUME NEW c \in Contexts, NEW d \in Servers, Tell(c, d) PROVE TypeOK'
  <2>1. queue' \in [Contexts -> Seq(Messages)]
    BY <1>2, MessagesTyped, ServersAreContexts, SendEffect DEF Tell
  <2> QED
    BY <1>2, <2>1, BoundsAssumption DEF Tell
<1>3. ASSUME NEW c \in Contexts, ProcessMessages(c) PROVE TypeOK'
  <2>1. Head(queue[c]) \in Messages /\ queue' \in [Contexts -> Seq(Messages)]
    BY <1>3, TailEffect DEF ProcessMessages, MayProcess
  <2>2. CASE Awaits(c, Head(queue[c]))
    BY <1>3, <2>1, <2>2, ReplyTyped DEF ProcessMessages, MayProcess, Awaits
  <2>3. CASE ~Awaits(c, Head(queue[c]))
    <3>1. executed' \subseteq Contexts \X Numbers
      <4>1. Head(queue[c]).kind = "request" =>
              <<Head(queue[c]).from, Head(queue[c]).rid>> \in Contexts \X Numbers
        BY <2>1, RequestTyped
      <4> QED
        BY <1>3, <2>3, <4>1 DEF ProcessMessages, MayProcess
    <3>2. handling' \in [Contexts -> Messages \cup {None}]
      BY <1>3, <2>1, <2>3 DEF ProcessMessages, MayProcess
    <3> QED
      BY <1>3, <2>1, <2>3, <3>1, <3>2 DEF ProcessMessages, MayProcess
  <2> QED
    BY <2>2, <2>3
<1>4. ASSUME NEW c \in Contexts, HandlerStopsTasks(c) PROVE TypeOK'
  BY <1>4 DEF HandlerStopsTasks
<1>5. ASSUME NEW c \in Contexts, HandlerEnds(c) PROVE TypeOK'
  <2>1. CASE HandlerReturns(c)
    <3>1. queue' \in [Contexts -> Seq(Messages)]
      <4>1. CASE handling[c].kind = "request"
        <5>1. handling[c].from \in Contexts /\ Reply(handling[c].rid) \in Messages
          BY <4>1, RequestTyped, MessagesTyped
        <5> QED
          BY <2>1, <4>1, <5>1, SendEffect DEF HandlerReturns
      <4>2. CASE handling[c].kind # "request"
        BY <2>1, <4>2 DEF HandlerReturns
      <4> QED
        BY <4>1, <4>2
    <3> QED
      BY <2>1, <3>1 DEF HandlerReturns
  <2>2. CASE HandlerRefuses(c)
    BY <2>2 DEF HandlerRefuses
  <2>3. CASE HandlerThrows(c)
    <3>1. call' \in [Contexts -> [rid : Numbers, oldresult : Numbers, oldid : Numbers]]
      BY <2>3, NothingTyped DEF HandlerThrows
    <3>2. outcome' \in [Contexts -> [asked : Numbers, answer : Numbers]]
      <4>1. [asked |-> call[c].rid, answer |-> 0] \in [asked : Numbers, answer : Numbers]
        OBVIOUS
      <4> QED
        BY <2>3, <4>1 DEF HandlerThrows
    <3> QED
      BY <2>3, <3>1, <3>2 DEF HandlerThrows
  <2> QED
    BY <1>5, <2>1, <2>2, <2>3 DEF HandlerEnds
<1>6. ASSUME NEW c \in Contexts, Answered(c) \/ TimedOut(c) PROVE TypeOK'
  <2>1. call' \in [Contexts -> [rid : Numbers, oldresult : Numbers, oldid : Numbers]]
    BY <1>6, NothingTyped DEF Answered, HasReply, TimedOut, EndCall
  <2>2. outcome' \in [Contexts -> [asked : Numbers, answer : Numbers]]
    <3>1. PICK n \in Numbers : EndCall(c, n)
      BY <1>6 DEF Answered, HasReply, TimedOut
    <3>2. [asked |-> call[c].rid, answer |-> n] \in [asked : Numbers, answer : Numbers]
      OBVIOUS
    <3> QED
      BY <3>1, <3>2 DEF EndCall
  <2>3. result' \in [Contexts -> Numbers] /\ resultid' \in [Contexts -> Numbers]
    BY <1>6 DEF Answered, HasReply, TimedOut, EndCall, Restore
  <2> QED
    BY <1>6, <2>1, <2>2, <2>3 DEF Answered, HasReply, TimedOut, EndCall
<1>7. ASSUME NEW c \in Contexts, EndTask(c) PROVE TypeOK'
  BY <1>7, ContextsAssumption DEF EndTask, MayEnd
<1>8. CASE UNCHANGED vars
  BY <1>8 DEF vars
<1> QED
  BY <1>1, <1>2, <1>3, <1>4, <1>5, <1>6, <1>7, <1>8 DEF Next

LEMMA SequenceIds == ASSUME TypeOK PROVE \A c \in Contexts : nextsequenceid[c] \in Nat
BY NumbersAreNat DEF TypeOK

-----------------------------------------------------------------------------
(* What the queues hold.                                                   *)

LEMMA QueuedTyped ==
  ASSUME TypeOK, NEW d \in Contexts, NEW i \in 1..Len(queue[d])
  PROVE  /\ queue[d][i] \in Messages
         /\ IsRequest(d, i) => queue[d][i].from \in Contexts /\ queue[d][i].rid \in Numbers
         /\ queue[d][i].kind = "reply" => queue[d][i].rid \in Numbers
<1>1. queue[d][i] \in Messages
  BY DEF TypeOK
<1> QED
  BY <1>1, RequestTyped, ReplyTyped DEF IsRequest

LEMMA ShrunkQueues ==
  ASSUME TypeOK, TypeOK', QueuesInv, NEW k \in [Contexts -> Nat], Shrinks(k),
         UNCHANGED <<nextsequenceid, executed>>
  PROVE  QueuesInv'
<1>1. NumbersTaken'
  <2>1. ASSUME NEW d \in Contexts, NEW i \in 1..Len(queue'[d]), IsRequest(d, i)'
        PROVE  queue'[d][i].rid \in 1..(nextsequenceid'[queue'[d][i].from] - 1)
    <3>1. i + k[d] \in 1..Len(queue[d]) /\ queue'[d][i] = queue[d][i + k[d]]
      BY DEF Shrinks
    <3> QED
      BY <2>1, <3>1 DEF QueuesInv, NumbersTaken, IsRequest
  <2> QED
    BY <2>1 DEF QueuesInv, NumbersTaken
<1>2. QueuedOnce'
  <2> SUFFICES ASSUME NEW d \in Contexts, NEW e \in Contexts,
                      NEW i \in 1..Len(queue'[d]), NEW j \in 1..Len(queue'[e]),
                      IsRequest(d, i)', IsRequest(e, j)', Same(d, i, e, j)'
               PROVE  d = e /\ i = j
    BY DEF QueuedOnce
  <2>1. /\ i + k[d] \in 1..Len(queue[d]) /\ queue'[d][i] = queue[d][i + k[d]]
        /\ j + k[e] \in 1..Len(queue[e]) /\ queue'[e][j] = queue[e][j + k[e]]
    BY DEF Shrinks
  <2>2. d = e /\ i + k[d] = j + k[e]
    BY <2>1 DEF QueuesInv, QueuedOnce, IsRequest, Same
  <2> QED
    BY <2>2
<1>3. NotYetExecuted'
  <2>1. ASSUME NEW d \in Contexts, NEW i \in 1..Len(queue'[d]), IsRequest(d, i)'
        PROVE  <<queue'[d][i].from, queue'[d][i].rid>> \notin executed'
    <3>1. i + k[d] \in 1..Len(queue[d]) /\ queue'[d][i] = queue[d][i + k[d]]
      BY DEF Shrinks
    <3> QED
      BY <2>1, <3>1 DEF QueuesInv, NotYetExecuted, IsRequest
  <2> QED
    BY <2>1 DEF NotYetExecuted
<1>4. RepliesExecuted'
  <2>1. ASSUME NEW d \in Contexts, NEW i \in 1..Len(queue'[d]), queue'[d][i].kind = "reply"
        PROVE  <<d, queue'[d][i].rid>> \in executed'
    <3>1. i + k[d] \in 1..Len(queue[d]) /\ queue'[d][i] = queue[d][i + k[d]]
      BY DEF Shrinks
    <3> QED
      BY <2>1, <3>1 DEF QueuesInv, RepliesExecuted
  <2> QED
    BY <2>1 DEF RepliesExecuted
<1> QED
  BY <1>1, <1>2, <1>3, <1>4 DEF QueuesInv

(* A request sent has a number that no other one from there has had.       *)
LEMMA GrownQueues ==
  ASSUME TypeOK, TypeOK', QueuesInv, UNCHANGED executed,
         NEW d \in Contexts, NEW m \in Messages, QueueSend(d, m),
         \A c \in Contexts : nextsequenceid[c] <= nextsequenceid'[c],
         m.kind = "request" => m.rid \in 1..(nextsequenceid'[m.from] - 1)
                               /\ m.rid >= nextsequenceid[m.from],
         m.kind = "reply" => <<d, m.rid>> \in executed
  PROVE  QueuesInv'
<1> DEFINE Old(e, i) == i \in 1..Len(queue[e]) /\ queue'[e][i] = queue[e][i]
           New(e, i) == e = d /\ i = Len(queue[d]) + 1 /\ queue'[e][i] = m
<1>1. \A e \in Contexts : \A i \in 1..Len(queue'[e]) : Old(e, i) \/ New(e, i)
  BY SendEffect
<1>2. m.kind = "request" => m.from \in Contexts /\ m.rid \in Numbers
  BY RequestTyped
<1>3. \A e \in Contexts : \A i \in 1..Len(queue[e]) : IsRequest(e, i) =>
        queue[e][i].from \in Contexts /\ queue[e][i].rid < nextsequenceid[queue[e][i].from]
  <2> SUFFICES ASSUME NEW e \in Contexts, NEW i \in 1..Len(queue[e]), IsRequest(e, i)
               PROVE  queue[e][i].from \in Contexts
                      /\ queue[e][i].rid < nextsequenceid[queue[e][i].from]
    OBVIOUS
  <2>1. queue[e][i].from \in Contexts
    BY QueuedTyped
  <2>2. nextsequenceid[queue[e][i].from] \in Nat
    BY <2>1, NumbersAreNat DEF TypeOK
  <2>3. queue[e][i].rid \in 1..(nextsequenceid[queue[e][i].from] - 1)
    BY DEF QueuesInv, NumbersTaken
  <2> QED
    BY <2>1, <2>2, <2>3
<1>4. \A c \in Contexts : nextsequenceid[c] \in Nat /\ nextsequenceid'[c] \in Nat
  BY NumbersAreNat DEF TypeOK
<1>5. NumbersTaken'
  <2>1. ASSUME NEW e \in Contexts, NEW i \in 1..Len(queue'[e]), IsRequest(e, i)'
        PROVE  queue'[e][i].rid \in 1..(nextsequenceid'[queue'[e][i].from] - 1)
    <3>1. CASE New(e, i)
      BY <2>1, <3>1 DEF IsRequest
    <3>2. CASE Old(e, i)
      <4>1. IsRequest(e, i) /\ queue[e][i].from \in Contexts
            /\ queue[e][i].rid \in 1..(nextsequenceid[queue[e][i].from] - 1)
        BY <2>1, <3>2, QueuedTyped DEF IsRequest, QueuesInv, NumbersTaken
      <4> QED
        BY <3>2, <4>1, <1>4
    <3> QED
      BY <1>1, <3>1, <3>2
  <2>2. ASSUME NEW c \in Contexts, NEW n \in Numbers, <<c, n>> \in executed'
        PROVE  n < nextsequenceid'[c]
    <3>1. n < nextsequenceid[c] /\ n \in Nat
      BY <2>2, NumbersAreNat DEF QueuesInv, NumbersTaken
    <3> QED
      BY <3>1, <1>4
  <2> QED
    BY <2>1, <2>2 DEF NumbersTaken
<1>6. QueuedOnce'
  <2> SUFFICES ASSUME NEW e \in Contexts, NEW f \in Contexts,
                      NEW i \in 1..Len(queue'[e]), NEW j \in 1..Len(queue'[f]),
                      IsRequest(e, i)', IsRequest(f, j)', Same(e, i, f, j)'
               PROVE  e = f /\ i = j
    BY DEF QueuedOnce
  <2>1. CASE Old(e, i) /\ Old(f, j)
    BY <2>1 DEF QueuesInv, QueuedOnce, IsRequest, Same
  <2>2. CASE New(e, i) /\ New(f, j)
    BY <2>2
  <2>3. CASE Old(e, i) /\ New(f, j)
    BY <2>3, <1>2, <1>3, <1>4, NumbersAreNat DEF IsRequest, Same
  <2>4. CASE New(e, i) /\ Old(f, j)
    BY <2>4, <1>2, <1>3, <1>4, NumbersAreNat DEF IsRequest, Same
  <2> QED
    BY <1>1, <2>1, <2>2, <2>3, <2>4
<1>7. NotYetExecuted'
  <2> SUFFICES ASSUME NEW e \in Contexts, NEW i \in 1..Len(queue'[e]), IsRequest(e, i)'
               PROVE  <<queue'[e][i].from, queue'[e][i].rid>> \notin executed
    BY DEF NotYetExecuted
  <2>1. CASE Old(e, i)
    BY <2>1 DEF QueuesInv, NotYetExecuted, IsRequest
  <2>2. CASE New(e, i)
    <3>1. m.kind = "request"
      BY <2>2 DEF IsRequest
    <3>2. <<m.from, m.rid>> \in executed => m.rid < nextsequenceid[m.from]
      BY <3>1, <1>2 DEF QueuesInv, NumbersTaken
    <3> QED
      BY <2>2, <3>1, <3>2, <1>2, <1>4, NumbersAreNat
  <2> QED
    BY <1>1, <2>1, <2>2
<1>8. RepliesExecuted'
  BY <1>1 DEF QueuesInv, RepliesExecuted
<1> QED
  BY <1>5, <1>6, <1>7, <1>8 DEF QueuesInv

-----------------------------------------------------------------------------
(* Each action keeps the invariant.                                        *)

LEMMA InitInv == Init => IInv
<1> SUFFICES ASSUME Init PROVE IInv
  OBVIOUS
<1>1. QueuesInv
  BY DEF Init, QueuesInv, NumbersTaken, QueuedOnce, NotYetExecuted, RepliesExecuted
<1>2. HandledExecuted
  BY DEF Init, HandledExecuted, None
<1>3. CallsSound
  BY DEF Init, CallsSound, Waits
<1>4. InSync
  BY DEF Init, InSync, NoCall, Null
<1> QED
  BY <1>1, <1>2, <1>3, <1>4, InitTyped DEF IInv

LEMMA SendInv ==
  ASSUME IInv, TypeOK', NEW c \in Contexts, NEW d \in Servers, Send(c, d) PROVE IInv'
<1> DEFINE r == nextsequenceid[c] + 1
<1>1. r \in Numbers /\ r \in Nat /\ r # 0 /\ nextsequenceid[c] \in Nat /\ d \in Contexts
  <2>1. nextsequenceid[c] \in Numbers /\ nextsequenceid[c] < 2 * MaxCalls
    BY DEF Send, IInv, TypeOK
  <2>2. r \in Numbers /\ nextsequenceid[c] \in Nat
    BY <2>1, NextNumbers, SequenceIds DEF IInv
  <2> QED
    BY <2>2, ServersAreContexts
<1>2. /\ nextsequenceid'[c] = nextsequenceid[c] + 2
      /\ \A e \in Contexts : nextsequenceid[e] <= nextsequenceid'[e]
  <2>1. nextsequenceid' = [nextsequenceid EXCEPT ![c] = nextsequenceid[c] + 2]
    BY DEF Send
  <2>2. nextsequenceid \in [Contexts -> Nat]
    <3>1. nextsequenceid \in [Contexts -> Numbers]
      BY DEF IInv, TypeOK
    <3> QED
      BY <3>1, NumbersAreNat
  <2> QED
    BY <2>1, <2>2
<1>3. QueuesInv'
  <2> DEFINE m == Request(c, r)
  <2>1. m \in Messages /\ m.kind = "request" /\ m.from = c /\ m.rid = r
    BY <1>1, MessagesTyped DEF Request
  <2>2. QueueSend(d, m) /\ executed' = executed
    BY DEF Send, history
  <2>3. m.rid \in 1..(nextsequenceid'[m.from] - 1) /\ m.rid >= nextsequenceid[m.from]
    BY <1>1, <1>2, <2>1
  <2>4. TypeOK /\ QueuesInv
    BY DEF IInv
  <2> HIDE DEF m
  <2> QED
    BY <1>1, <1>2, <2>1, <2>2, <2>3, <2>4, GrownQueues
<1>4. HandledExecuted'
  BY DEF Send, IInv, HandledExecuted, history
<1>5. CallsSound'
  BY <1>1 DEF Send, IInv, CallsSound, TypeOK, Waits, history, Null
<1>6. InSync'
  BY <1>1 DEF Send, IInv, InSync, TypeOK, Null
<1> QED
  BY <1>3, <1>4, <1>5, <1>6 DEF IInv

LEMMA TellInv ==
  ASSUME IInv, TypeOK', NEW c \in Contexts, NEW d \in Servers, Tell(c, d) PROVE IInv'
<1>1. QueuesInv'
  <2>1. Note(c) \in Messages /\ Note(c).kind = "note"
    BY MessagesTyped DEF Note
  <2>2. QueueSend(d, Note(c)) /\ UNCHANGED <<executed, nextsequenceid>> /\ d \in Contexts
    BY ServersAreContexts DEF Tell, history, calls
  <2>3. \A e \in Contexts : nextsequenceid[e] <= nextsequenceid'[e]
    BY <2>2, SequenceIds DEF IInv
  <2> QED
    BY <2>1, <2>2, <2>3, GrownQueues DEF IInv
<1> QED
  BY <1>1 DEF Tell, IInv, HandledExecuted, CallsSound, InSync, Waits, calls, store, history

LEMMA AnswerTakenInv ==
  ASSUME IInv, TypeOK', NEW c \in Contexts, ProcessMessages(c), Awaits(c, Head(queue[c]))
  PROVE  IInv'
<1> DEFINE m == Head(queue[c])
           k == [d \in Contexts |-> IF d = c THEN 1 ELSE 0]
<1>1. m \in Messages /\ m = queue[c][1] /\ 1 \in 1..Len(queue[c]) /\ Shrinks(k)
  BY TailEffect DEF ProcessMessages, MayProcess, IInv
<1>2. QueuesInv'
  <2>1. k \in [Contexts -> Nat]
    OBVIOUS
  <2>2. UNCHANGED <<nextsequenceid, executed>>
    BY DEF ProcessMessages, MayProcess
  <2> HIDE DEF k
  <2> QED
    BY <1>1, <2>1, <2>2, ShrunkQueues DEF IInv
<1>3. HandledExecuted'
  BY DEF ProcessMessages, MayProcess, IInv, HandledExecuted
<1>4. m.kind = "reply" /\ <<c, m.rid>> \in executed /\ resultid[c] = m.rid
  BY <1>1 DEF Awaits, IInv, QueuesInv, RepliesExecuted
<1>5. result' = [result EXCEPT ![c] = m.rid] /\ resultid' = [resultid EXCEPT ![c] = 0]
      /\ UNCHANGED <<call, executed>>
  BY DEF ProcessMessages, MayProcess
<1> HIDE DEF m
<1>6. CallsSound'
  BY <1>4, <1>5 DEF IInv, CallsSound, Waits, TypeOK, ProcessMessages, MayProcess, Processes, Awaits
<1>7. InSync'
  BY <1>5 DEF IInv, InSync, TypeOK
<1> QED
  BY <1>2, <1>3, <1>6, <1>7 DEF IInv

LEMMA HandlerCalledInv ==
  ASSUME IInv, TypeOK', NEW c \in Contexts, ProcessMessages(c), ~Awaits(c, Head(queue[c]))
  PROVE  IInv'
<1> DEFINE m == Head(queue[c])
           k == [d \in Contexts |-> IF d = c THEN 1 ELSE 0]
<1>1. m \in Messages /\ m = queue[c][1] /\ 1 \in 1..Len(queue[c]) /\ Shrinks(k)
  BY TailEffect DEF ProcessMessages, MayProcess, IInv
<1>2. /\ handling' = [handling EXCEPT ![c] = IF m.kind = "reply" THEN None ELSE m]
      /\ executed' = IF m.kind = "request" THEN executed \cup {<<m.from, m.rid>>} ELSE executed
      /\ UNCHANGED <<result, resultid, call, nextsequenceid>>
  BY DEF ProcessMessages, MayProcess, store
<1>3. m.kind = "request" => /\ IsRequest(c, 1) /\ m.from \in Contexts /\ m.rid \in Numbers
                            /\ m.rid \in 1..(nextsequenceid[m.from] - 1)
  BY <1>1, QueuedTyped DEF IInv, QueuesInv, NumbersTaken, IsRequest
<1> HIDE DEF m
<1>4. \A d \in Contexts : \A i \in 1..Len(queue'[d]) :
        /\ i + k[d] \in 1..Len(queue[d]) /\ queue'[d][i] = queue[d][i + k[d]]
        /\ d = c => i + k[d] # 1
  BY <1>1 DEF Shrinks
<1> HIDE DEF k
<1>5. QueuesInv'
  <2>1. NumbersTaken'
    <3>1. ASSUME NEW d \in Contexts, NEW i \in 1..Len(queue'[d]), IsRequest(d, i)'
          PROVE  queue'[d][i].rid \in 1..(nextsequenceid'[queue'[d][i].from] - 1)
      <4>1. i + k[d] \in 1..Len(queue[d]) /\ queue'[d][i] = queue[d][i + k[d]]
        BY <1>4
      <4> QED
        BY <3>1, <4>1, <1>2 DEF IInv, QueuesInv, NumbersTaken, IsRequest
    <3>2. ASSUME NEW b \in Contexts, NEW n \in Numbers, <<b, n>> \in executed'
          PROVE  n < nextsequenceid'[b]
      <4>1. CASE <<b, n>> \in executed
        BY <4>1, <1>2 DEF IInv, QueuesInv, NumbersTaken
      <4>2. CASE m.kind = "request" /\ b = m.from /\ n = m.rid
        <5>1. nextsequenceid[b] \in Nat
          BY NumbersAreNat DEF IInv, TypeOK
        <5> QED
          BY <4>2, <5>1, <1>2, <1>3
      <4> QED
        BY <3>2, <4>1, <4>2, <1>2
    <3> QED
      BY <3>1, <3>2 DEF NumbersTaken
  <2>2. QueuedOnce'
    <3> SUFFICES ASSUME NEW d \in Contexts, NEW e \in Contexts,
                        NEW i \in 1..Len(queue'[d]), NEW j \in 1..Len(queue'[e]),
                        IsRequest(d, i)', IsRequest(e, j)', Same(d, i, e, j)'
                 PROVE  d = e /\ i = j
      BY DEF QueuedOnce
    <3>1. /\ i + k[d] \in 1..Len(queue[d]) /\ queue'[d][i] = queue[d][i + k[d]]
          /\ j + k[e] \in 1..Len(queue[e]) /\ queue'[e][j] = queue[e][j + k[e]]
      BY <1>4
    <3>2. d = e /\ i + k[d] = j + k[e]
      BY <3>1 DEF IInv, QueuesInv, QueuedOnce, IsRequest, Same
    <3>3. k[d] \in Nat
      BY DEF k
    <3> QED
      BY <3>2, <3>3
  <2>3. NotYetExecuted'
    <3> SUFFICES ASSUME NEW d \in Contexts, NEW i \in 1..Len(queue'[d]), IsRequest(d, i)'
                 PROVE  <<queue'[d][i].from, queue'[d][i].rid>> \notin executed'
      BY DEF NotYetExecuted
    <3>1. IsRequest(d, i + k[d])
          /\ <<queue'[d][i].from, queue'[d][i].rid>> \notin executed
      BY <1>4 DEF IInv, QueuesInv, NotYetExecuted, IsRequest
    <3>2. CASE m.kind = "request"
      <4>1. ~Same(d, i + k[d], c, 1)
        BY <1>1, <1>3, <1>4, <3>1, <3>2 DEF IInv, QueuesInv, QueuedOnce
      <4> QED
        BY <1>1, <1>2, <1>4, <3>1, <3>2, <4>1 DEF Same
    <3>3. CASE m.kind # "request"
      BY <1>2, <3>1, <3>3
    <3> QED
      BY <3>2, <3>3
  <2>4. RepliesExecuted'
    BY <1>2, <1>4 DEF IInv, QueuesInv, RepliesExecuted
  <2> QED
    BY <2>1, <2>2, <2>3, <2>4 DEF QueuesInv
<1>6. HandledExecuted'
  BY <1>2 DEF IInv, HandledExecuted, TypeOK, None
<1>7. CallsSound'
  BY <1>2 DEF IInv, CallsSound, Waits
<1>8. InSync'
  BY <1>2 DEF IInv, InSync
<1> QED
  BY <1>5, <1>6, <1>7, <1>8 DEF IInv

(* Nothing that the queues' invariant is about changes.                    *)
LEMMA SameQueues ==
  ASSUME QueuesInv, UNCHANGED <<queue, nextsequenceid, executed>> PROVE QueuesInv'
BY DEF QueuesInv, NumbersTaken, QueuedOnce, NotYetExecuted, RepliesExecuted, IsRequest, Same

LEMMA HandlerInv ==
  ASSUME IInv, TypeOK', NEW c \in Contexts, HandlerStopsTasks(c) \/ HandlerEnds(c)
  PROVE  IInv'
<1>1. UNCHANGED <<result, resultid, nextsequenceid, executed>>
  BY DEF HandlerStopsTasks, HandlerEnds, HandlerReturns, HandlerRefuses, HandlerThrows,
         calls, store, history
<1>2. handling' = handling \/ handling' = [handling EXCEPT ![c] = None]
  BY DEF HandlerStopsTasks, HandlerEnds, HandlerReturns, HandlerRefuses, HandlerThrows
<1>3. call' = call \/ call' = [call EXCEPT ![c] = NoCall]
  BY DEF HandlerStopsTasks, HandlerEnds, HandlerReturns, HandlerRefuses, HandlerThrows, calls
<1>4. QueuesInv'
  <2>1. CASE UNCHANGED queue
    BY <1>1, <2>1, SameQueues DEF IInv
  <2>2. CASE HandlerReturns(c) /\ handling[c].kind = "request"
    <3> DEFINE from == handling[c].from
               m == Reply(handling[c].rid)
    <3>1. from \in Contexts /\ m \in Messages
      BY <2>2, RequestTyped, MessagesTyped DEF IInv, TypeOK
    <3>2. m.kind = "reply" /\ <<from, m.rid>> \in executed
      BY <2>2 DEF Reply, IInv, HandledExecuted
    <3>3. QueueSend(from, m)
      BY <2>2 DEF HandlerReturns
    <3>4. \A e \in Contexts : nextsequenceid[e] <= nextsequenceid'[e]
      BY <1>1, SequenceIds DEF IInv
    <3>5. TypeOK /\ QueuesInv
      BY DEF IInv
    <3> HIDE DEF m, from
    <3> QED
      BY <1>1, <3>1, <3>2, <3>3, <3>4, <3>5, GrownQueues
  <2> QED
    BY <2>1, <2>2
    DEF HandlerStopsTasks, HandlerEnds, HandlerReturns, HandlerRefuses, HandlerThrows
<1>5. HandledExecuted'
  <2>1. None.kind # "request" /\ handling \in [Contexts -> Messages \cup {None}]
    BY DEF None, IInv, TypeOK
  <2> QED
    BY <1>1, <1>2, <2>1 DEF IInv, HandledExecuted
<1>6. CallsSound'
  BY <1>1, <1>3 DEF IInv, CallsSound, TypeOK, Waits
<1>7. InSync'
  BY <1>1, <1>3 DEF IInv, InSync, TypeOK, NoCall
<1> QED
  BY <1>4, <1>5, <1>6, <1>7 DEF IInv

LEMMA CallEndsInv ==
  ASSUME IInv, TypeOK', NEW c \in Contexts, Answered(c) \/ TimedOut(c) PROVE IInv'
<1>1. /\ UNCHANGED <<queue, nextsequenceid, executed, handling>>
      /\ call' = [call EXCEPT ![c] = NoCall] /\ Restore(c)
  BY DEF Answered, HasReply, TimedOut, EndCall
<1>2. QueuesInv'
  BY <1>1, SameQueues DEF IInv
<1>3. HandledExecuted'
  BY <1>1 DEF IInv, HandledExecuted
<1>4. CallsSound'
  BY <1>1 DEF IInv, CallsSound, TypeOK, Waits, Restore
<1>5. InSync'
  BY <1>1 DEF IInv, InSync, TypeOK, NoCall, Restore
<1> QED
  BY <1>2, <1>3, <1>4, <1>5 DEF IInv

LEMMA EndTaskInv ==
  ASSUME IInv, TypeOK', NEW c \in Contexts, EndTask(c) PROVE IInv'
<1>1. UNCHANGED <<result, resultid, nextsequenceid, call, handling, executed>>
  BY DEF EndTask, MayEnd, calls, store, history
<1>2. QueuesInv'
  <2> DEFINE k == [d \in Contexts |-> 0]
  <2>1. k \in [Contexts -> Nat]
    OBVIOUS
  <2>2. Shrinks(k)
    BY DEF EndTask, MayEnd, IInv, TypeOK, Shrinks
  <2> HIDE DEF k
  <2> QED
    BY <1>1, <2>1, <2>2, ShrunkQueues DEF IInv
<1> QED
  BY <1>1, <1>2 DEF IInv, HandledExecuted, CallsSound, InSync, Waits

LEMMA NextInv == ASSUME IInv, [Next]_vars PROVE IInv'
<1>1. TypeOK'
  BY NextTyped DEF IInv
<1>2. CASE UNCHANGED vars
  <2>1. UNCHANGED <<queue, nextsequenceid, executed, handling, call, result, resultid>>
    BY <1>2 DEF vars, calls, store, history
  <2> QED
    BY <1>1, <2>1, SameQueues DEF IInv, HandledExecuted, CallsSound, InSync, Waits
<1>3. ASSUME NEW c \in Contexts, ProcessMessages(c) PROVE IInv'
  BY <1>1, <1>3, AnswerTakenInv, HandlerCalledInv
<1> QED
  BY <1>1, <1>2, <1>3, SendInv, TellInv, HandlerInv, CallEndsInv, EndTaskInv DEF Next

-----------------------------------------------------------------------------
(* Every step is a step of RequestReply or changes none of its variables.  *)

LEMMA InitRefines == Init => Abstract!Init
BY DEF Init, Abstract!Init, NoCall

Mapped == <<nextsequenceid, call, executed, outcome>>

LEMMA StutterRefines == UNCHANGED Mapped => UNCHANGED Abstract!vars
BY DEF Mapped, Abstract!vars

LEMMA AskRefines ==
  ASSUME IInv, NEW c \in Contexts, NEW d \in Servers, Send(c, d) PROVE Abstract!Ask(c)
<1> DEFINE r == nextsequenceid[c] + 1
<1>1. nextsequenceid \in [Contexts -> Nat] /\ nextsequenceid[c] \in Nat
  BY SequenceIds DEF IInv, TypeOK
<1>2. /\ call[c].rid = 0 /\ UNCHANGED <<executed, outcome>>
      /\ nextsequenceid' = [nextsequenceid EXCEPT ![c] = nextsequenceid[c] + 2]
  BY DEF Send, Idle, Waits, NoCall, history
<1>3. /\ call'[c].rid = r
      /\ \A e \in Contexts : e # c => call'[e] = call[e]
  BY DEF Send, IInv, TypeOK
<1>4. [e \in Contexts |-> nextsequenceid'[e] - 1]
        = [[e \in Contexts |-> nextsequenceid[e] - 1]
             EXCEPT ![c] = (nextsequenceid[c] - 1) + 2]
  <2>1. nextsequenceid'[c] - 1 = (nextsequenceid[c] - 1) + 2
    BY <1>1, <1>2
  <2>2. \A e \in Contexts : e # c => nextsequenceid'[e] = nextsequenceid[e]
    BY <1>1, <1>2
  <2> QED
    BY <2>1, <2>2
<1>5. [e \in Contexts |-> call'[e].rid] = [[e \in Contexts |-> call[e].rid] EXCEPT ![c] = r]
  BY <1>3
<1>6. nextsequenceid'[c] - 1 = r
  BY <1>1, <1>2
<1> QED
  BY <1>1, <1>2, <1>4, <1>5, <1>6 DEF Abstract!Ask

LEMMA ExecuteRefines ==
  ASSUME IInv, NEW c \in Contexts, ProcessMessages(c)
  PROVE  \/ UNCHANGED Mapped
         \/ \E b \in Contexts : \E n \in 1..(nextsequenceid[b] - 1) : Abstract!Execute(b, n)
<1> DEFINE m == Head(queue[c])
<1>1. m \in Messages /\ m = queue[c][1] /\ 1 \in 1..Len(queue[c])
  BY TailEffect DEF ProcessMessages, MayProcess, IInv
<1>2. UNCHANGED <<nextsequenceid, call, outcome>>
  BY DEF ProcessMessages, MayProcess
<1>3. CASE m.kind = "request"
  <2>1. executed' = executed \cup {<<m.from, m.rid>>}
    BY <1>3 DEF ProcessMessages, MayProcess, Awaits
  <2>2. /\ m.from \in Contexts /\ m.rid \in 1..(nextsequenceid[m.from] - 1)
        /\ <<m.from, m.rid>> \notin executed
    BY <1>1, <1>3, QueuedTyped DEF IInv, QueuesInv, NumbersTaken, NotYetExecuted, IsRequest
  <2>3. Abstract!Execute(m.from, m.rid)
    BY <1>2, <2>1, <2>2 DEF Abstract!Execute
  <2> QED
    BY <2>2, <2>3
<1>4. CASE m.kind # "request"
  BY <1>2, <1>4 DEF ProcessMessages, MayProcess, Mapped
<1> QED
  BY <1>3, <1>4

(* A call ends without an answer, or with the one that has come.           *)
LEMMA CallCleared ==
  ASSUME IInv, NEW c \in Contexts, call' = [call EXCEPT ![c] = NoCall]
  PROVE  call'[c].rid = 0 /\ \A e \in Contexts : e # c => call'[e].rid = call[e].rid
BY DEF IInv, TypeOK, NoCall

LEMMA EndRefines ==
  ASSUME IInv, NEW c \in Contexts, Waits(c), UNCHANGED <<nextsequenceid, executed>>,
         NEW answer, answer = 0 \/ (answer = call[c].rid /\ <<c, answer>> \in executed),
         call'[c].rid = 0, \A e \in Contexts : e # c => call'[e].rid = call[e].rid,
         outcome' = [outcome EXCEPT ![c] = [asked |-> call[c].rid, answer |-> answer]]
  PROVE  Abstract!End(c)
<1>1. call[c].rid # 0
  BY DEF IInv, CallsSound
<1>2. [e \in Contexts |-> call'[e].rid] = [[e \in Contexts |-> call[e].rid] EXCEPT ![c] = 0]
  OBVIOUS
<1>3. answer \in {0, call[c].rid} /\ (answer # 0 => <<c, answer>> \in executed)
  OBVIOUS
<1> QED
  BY <1>1, <1>2, <1>3 DEF Abstract!End

LEMMA NextRefines ==
  ASSUME IInv, [Next]_vars PROVE [Abstract!Next]_Abstract!vars
<1>1. ASSUME NEW c \in Contexts, NEW d \in Servers, Send(c, d)
      PROVE  [Abstract!Next]_Abstract!vars
  BY <1>1, AskRefines DEF Abstract!Next
<1>2. ASSUME NEW c \in Contexts, NEW d \in Servers, Tell(c, d)
      PROVE  [Abstract!Next]_Abstract!vars
  <2>1. UNCHANGED Mapped
    BY <1>2 DEF Tell, Mapped, calls, history
  <2> QED
    BY <2>1, StutterRefines
<1>3. ASSUME NEW c \in Contexts, ProcessMessages(c) PROVE [Abstract!Next]_Abstract!vars
  BY <1>3, ExecuteRefines, StutterRefines DEF Abstract!Next
<1>4. ASSUME NEW c \in Contexts, HandlerEnds(c) PROVE [Abstract!Next]_Abstract!vars
  <2>1. CASE HandlerThrows(c) /\ Waits(c)
    <3>1. /\ UNCHANGED <<nextsequenceid, executed>> /\ call' = [call EXCEPT ![c] = NoCall]
          /\ outcome' = [outcome EXCEPT ![c] = [asked |-> call[c].rid, answer |-> 0]]
      BY <2>1 DEF HandlerThrows, history
    <3>2. Abstract!End(c)
      BY <2>1, <3>1, CallCleared, EndRefines
    <3> QED
      BY <3>2 DEF Abstract!Next
  <2>2. CASE ~(HandlerThrows(c) /\ Waits(c))
    <3>1. UNCHANGED Mapped
      BY <1>4, <2>2
      DEF HandlerEnds, HandlerReturns, HandlerRefuses, HandlerThrows, Mapped, calls, history
    <3> QED
      BY <3>1, StutterRefines
  <2> QED
    BY <2>1, <2>2
<1>5. ASSUME NEW c \in Contexts, Answered(c) \/ TimedOut(c)
      PROVE  [Abstract!Next]_Abstract!vars
  <2>1. Waits(c) /\ UNCHANGED <<nextsequenceid, executed>>
    BY <1>5 DEF Answered, HasReply, TimedOut, EndCall
  <2>2. PICK answer : /\ answer = 0 \/ (answer = call[c].rid /\ <<c, answer>> \in executed)
                      /\ EndCall(c, answer)
    <3>1. CASE Answered(c)
      <4>1. Waits(c) /\ resultid[c] = 0 /\ EndCall(c, result[c])
        BY <3>1 DEF Answered, HasReply
      <4>2. result[c] = call[c].rid /\ <<c, call[c].rid>> \in executed
        BY <4>1 DEF IInv, CallsSound
      <4> QED
        BY <4>1, <4>2
    <3>2. CASE TimedOut(c)
      BY <3>2 DEF TimedOut
    <3> QED
      BY <1>5, <3>1, <3>2
  <2>3. Abstract!End(c)
    BY <2>1, <2>2, CallCleared, EndRefines DEF EndCall
  <2> QED
    BY <2>3 DEF Abstract!Next
<1>6. ASSUME NEW c \in Contexts, HandlerStopsTasks(c) \/ EndTask(c)
      PROVE  [Abstract!Next]_Abstract!vars
  <2>1. UNCHANGED Mapped
    BY <1>6 DEF HandlerStopsTasks, EndTask, MayEnd, Mapped, calls, history
  <2> QED
    BY <2>1, StutterRefines
<1>7. CASE UNCHANGED vars
  BY <1>7, StutterRefines DEF vars, Mapped, calls, history
<1> QED
  BY <1>1, <1>2, <1>3, <1>4, <1>5, <1>6, <1>7, ServersAreContexts DEF Next

-----------------------------------------------------------------------------
(* Without a fault the request or the reply of a call is somewhere.        *)
In(m, q)   == \E i \in 1..Len(q) : q[i] = m
Asked(c)   == Request(c, call[c].rid)
Held(c, d) == <<c, d>> \in Asks /\ (handling[d] = Asked(c) \/ In(Asked(c), queue[d]))
Underway(c) == (\E d \in Servers : Held(c, d)) \/ In(Reply(call[c].rid), queue[c])

NothingLost ==
  ~faulty => \A c \in Contexts : Waits(c) /\ resultid[c] # 0 => Underway(c)

WaitersOpen   == \A c \in Contexts : Waits(c) => c \in open
StoppingSound == \A d \in stopping : handling[d] # None /\ stopRequested

WaitInv == IInv /\ NothingLost /\ WaitersOpen /\ StoppingSound

LEMMA InitWait == Init => WaitInv
BY InitInv DEF Init, WaitInv, NothingLost, WaitersOpen, StoppingSound, Waits

(* What was under way to others still is, unless a queue loses its head or *)
(* a handler its message.                                                  *)
LEMMA SentKeepsQueued ==
  ASSUME TypeOK, NEW d \in Contexts, NEW m \in Messages, QueueSend(d, m)
  PROVE  /\ \A n, e : e \in Contexts /\ In(n, queue[e]) => In(n, queue'[e])
         /\ d \in open => In(m, queue'[d])
<1>1. /\ queue \in [Contexts -> Seq(Messages)] /\ queue[d] \in Seq(Messages)
      /\ queue' = queue \/ queue' = [queue EXCEPT ![d] = Append(@, m)]
      /\ d \in open => queue' = [queue EXCEPT ![d] = Append(@, m)]
  BY DEF TypeOK, QueueSend
<1>2. ASSUME NEW e \in Contexts, NEW i \in 1..Len(queue[e])
      PROVE  i \in 1..Len(queue'[e]) /\ queue'[e][i] = queue[e][i]
  <2>1. CASE queue'[e] = queue[e]
    BY <2>1
  <2>2. CASE e = d /\ queue'[d] = Append(queue[d], m)
    BY <1>1, <2>2
  <2> QED
    BY <1>1, <2>1, <2>2
<1>3. ASSUME d \in open PROVE Len(queue[d]) + 1 \in 1..Len(queue'[d])
                             /\ queue'[d][Len(queue[d]) + 1] = m
  BY <1>1, <1>3
<1> QED
  BY <1>2, <1>3 DEF In

LEMMA ReturnKeepsUnderway ==
  ASSUME WaitInv, NEW d \in Contexts, HandlerReturns(d),
         NEW c \in Contexts, Waits(c), resultid[c] # 0, ~faulty
  PROVE  Underway(c)'
<1>1. UNCHANGED call
  BY DEF HandlerReturns, calls
<1>2. Underway(c) /\ c \in open
  BY DEF WaitInv, NothingLost, WaitersOpen
<1>3. CASE handling[d].kind = "request"
  <2> DEFINE from == handling[d].from
             m == Reply(handling[d].rid)
  <2>1. from \in Contexts /\ m \in Messages
    BY <1>3, RequestTyped, MessagesTyped DEF WaitInv, IInv, TypeOK
  <2>2. QueueSend(from, m)
    BY <1>3 DEF HandlerReturns
  <2>3. /\ \A n, e : e \in Contexts /\ In(n, queue[e]) => In(n, queue'[e])
        /\ from \in open => In(m, queue'[from])
    BY <2>1, <2>2, SentKeepsQueued DEF WaitInv, IInv
  <2>4. CASE handling[d] = Asked(c)
    <3>1. from = c /\ m = Reply(call[c].rid)
      BY <2>4 DEF Asked, Request
    <3> HIDE DEF from, m
    <3>2. In(Reply(call[c].rid), queue'[c])
      BY <1>1, <1>2, <2>3, <3>1
    <3> QED
      BY <1>1, <3>2 DEF Underway
  <2>5. CASE handling[d] # Asked(c)
    <3>1. Asked(c)' = Asked(c) /\ Reply(call[c].rid)' = Reply(call[c].rid)
      BY <1>1 DEF Asked
    <3>2. ASSUME NEW e \in Servers, Held(c, e) PROVE Held(c, e)'
      <4>1. handling[e] = Asked(c) => handling'[e] = Asked(c)
        BY <2>5, ServersAreContexts DEF HandlerReturns, WaitInv, IInv, TypeOK
      <4> QED
        BY <2>3, <3>1, <3>2, <4>1, ServersAreContexts DEF Held
    <3>3. In(Reply(call[c].rid), queue[c]) => In(Reply(call[c].rid), queue'[c])
      BY <2>3
    <3> HIDE DEF from, m
    <3> QED
      BY <1>2, <3>1, <3>2, <3>3 DEF Underway
  <2> QED
    BY <2>4, <2>5
<1>4. CASE handling[d].kind # "request"
  <2>1. UNCHANGED queue /\ \A e \in Contexts : handling[e].kind = "request" => handling'[e] = handling[e]
    BY <1>4 DEF HandlerReturns, WaitInv, IInv, TypeOK
  <2>2. Asked(c)' = Asked(c) /\ Asked(c).kind = "request"
    BY <1>1 DEF Asked, Request
  <2>4. ASSUME NEW e \in Servers, Held(c, e) PROVE Held(c, e)'
    BY <2>1, <2>2, <2>4, ServersAreContexts DEF Held
  <2> QED
    BY <1>1, <1>2, <2>1, <2>4 DEF Underway
<1> QED
  BY <1>3, <1>4

LEMMA ProcessKeepsUnderway ==
  ASSUME WaitInv, NEW d \in Contexts, ProcessMessages(d),
         NEW c \in Contexts, Waits(c), resultid'[c] # 0, ~faulty
  PROVE  Underway(c)'
<1> DEFINE m == Head(queue[d])
<1>1. /\ m = queue[d][1] /\ queue[d] \in Seq(Messages) /\ queue[d] # <<>> /\ m \in Messages
      /\ queue' = [queue EXCEPT ![d] = Tail(@)] /\ queue \in [Contexts -> Seq(Messages)]
      /\ handling[d] = None /\ UNCHANGED call
  BY TailEffect DEF ProcessMessages, MayProcess, WaitInv, IInv, TypeOK
<1>2. \A n, e : e \in Contexts /\ In(n, queue[e]) => In(n, queue'[e]) \/ (e = d /\ n = m)
  <2> SUFFICES ASSUME NEW n, NEW e \in Contexts, NEW i \in 1..Len(queue[e]), queue[e][i] = n
               PROVE  In(n, queue'[e]) \/ (e = d /\ n = m)
    BY DEF In
  <2>1. CASE e # d
    BY <1>1, <2>1 DEF In
  <2>2. CASE e = d /\ i = 1
    BY <1>1, <2>2
  <2>3. CASE e = d /\ i # 1
    <3>1. i - 1 \in 1..Len(queue'[d]) /\ queue'[d][i - 1] = queue[d][i]
      BY <1>1, <2>3
    <3> QED
      BY <2>3, <3>1 DEF In
  <2> QED
    BY <2>1, <2>2, <2>3
<1>3. resultid[c] # 0 /\ Underway(c) /\ resultid[c] = call[c].rid
  <2>1. resultid[c] # 0
    BY DEF ProcessMessages, store, WaitInv, IInv, TypeOK
  <2> QED
    BY <2>1 DEF WaitInv, NothingLost, IInv, CallsSound
<1>4. \A e \in Contexts : handling[e] # None => handling'[e] = handling[e]
  BY <1>1 DEF ProcessMessages, WaitInv, IInv, TypeOK
<1>5. \A n \in Messages : n.kind = "request" => n # None
  BY DEF None
<1>6. CASE In(Reply(call[c].rid), queue[c])
  <2>1. CASE c = d /\ Reply(call[c].rid) = m
    <3>1. Awaits(c, m)
      BY <1>3, <2>1 DEF Awaits, Reply
    <3>2. resultid'[c] = 0
      BY <2>1, <3>1 DEF ProcessMessages, WaitInv, IInv, TypeOK
    <3> QED
      BY <3>2
  <2> QED
    BY <1>1, <1>2, <1>6, <2>1 DEF Underway
<1>7. ASSUME NEW e \in Servers, Held(c, e) PROVE Held(c, e)'
  <2>1. e \in Contexts /\ Asked(c).kind = "request" /\ Asked(c) # None
    BY ServersAreContexts DEF Asked, Request, None
  <2>2. CASE handling[e] = Asked(c)
    BY <1>1, <1>4, <1>7, <2>1, <2>2 DEF Held, Asked
  <2>3. CASE e = d /\ Asked(c) = m
    <3>1. handling'[e] = m
      BY <2>1, <2>3 DEF ProcessMessages, Awaits, WaitInv, IInv, TypeOK
    <3> QED
      BY <1>1, <1>7, <2>3, <3>1 DEF Held, Asked
  <2> QED
    BY <1>1, <1>2, <1>7, <2>1, <2>2, <2>3 DEF Held, Asked
<1> QED
  BY <1>3, <1>6, <1>7 DEF Underway

LEMMA SendKeepsUnderway ==
  ASSUME WaitInv, NEW b \in Contexts, NEW d \in Servers, Send(b, d),
         NEW c \in Contexts, Waits(c)', resultid'[c] # 0, ~faulty
  PROVE  Underway(c)'
<1> DEFINE r == nextsequenceid[b] + 1
<1>1. /\ TypeOK /\ d \in Contexts /\ d \in open /\ <<b, d>> \in Asks /\ UNCHANGED handling
      /\ QueueSend(d, Request(b, r))
      /\ \A e \in Contexts : e # b => call'[e] = call[e] /\ resultid'[e] = resultid[e]
      /\ call'[b].rid = r
  BY ServersAreContexts DEF Send, WaitInv, IInv, TypeOK
<1>2. Request(b, r) \in Messages
  BY <1>1, MessagesTyped, NextNumbers DEF Send, TypeOK
<1>3. /\ \A n, e : e \in Contexts /\ In(n, queue[e]) => In(n, queue'[e])
      /\ In(Request(b, r), queue'[d])
  BY <1>1, <1>2, SentKeepsQueued
<1> HIDE DEF r
<1>4. CASE c = b
  BY <1>1, <1>3, <1>4 DEF Underway, Held, Asked
<1>5. CASE c # b
  <2>1. Underway(c) /\ call'[c] = call[c]
    BY <1>1, <1>5 DEF WaitInv, NothingLost, Waits
  <2> QED
    BY <1>1, <1>3, <2>1, ServersAreContexts DEF Underway, Held, Asked
<1> QED
  BY <1>4, <1>5

LEMMA TellKeepsUnderway ==
  ASSUME WaitInv, NEW b \in Contexts, NEW d \in Servers, Tell(b, d),
         NEW c \in Contexts, Underway(c)
  PROVE  Underway(c)'
<1>1. TypeOK /\ d \in Contexts /\ QueueSend(d, Note(b)) /\ UNCHANGED <<handling, call>>
  BY ServersAreContexts DEF Tell, calls, WaitInv, IInv
<1>2. \A n, e : e \in Contexts /\ In(n, queue[e]) => In(n, queue'[e])
  BY <1>1, MessagesTyped, SentKeepsQueued
<1> QED
  BY <1>1, <1>2, ServersAreContexts DEF Underway, Held, Asked

LEMMA EndTaskKeepsUnderway ==
  ASSUME WaitInv, NEW p \in Contexts, EndTask(p), NEW c \in Contexts, Waits(c), Underway(c)
  PROVE  Underway(c)'
<1>1. /\ p # c /\ p \notin Servers /\ UNCHANGED <<handling, call>>
      /\ \A e \in Contexts : e # p => queue'[e] = queue[e]
  BY ContextsAssumption DEF EndTask, MayEnd, Idle, calls, WaitInv, IInv, TypeOK
<1> QED
  BY <1>1, ServersAreContexts DEF Underway, Held, Asked

LEMMA NextKeepsSent == ASSUME WaitInv, [Next]_vars PROVE NothingLost'
<1> SUFFICES ASSUME ~faulty', NEW c \in Contexts, Waits(c)', resultid'[c] # 0
             PROVE  Underway(c)'
  BY DEF NothingLost
<1>1. CASE UNCHANGED vars
  BY <1>1 DEF vars, calls, store, history, WaitInv, NothingLost, Waits, Underway, Held, Asked
<1>2. ASSUME NEW b \in Contexts, NEW d \in Servers, Send(b, d) PROVE Underway(c)'
  BY <1>2, SendKeepsUnderway DEF Send, history
<1>3. ASSUME NEW b \in Contexts, NEW d \in Servers, Tell(b, d) PROVE Underway(c)'
  BY <1>3, TellKeepsUnderway DEF Tell, calls, store, history, WaitInv, NothingLost, Waits
<1>4. ASSUME NEW d \in Contexts, ProcessMessages(d) PROVE Underway(c)'
  BY <1>4, ProcessKeepsUnderway DEF ProcessMessages, Waits
<1>5. ASSUME NEW d \in Contexts, HandlerStopsTasks(d) PROVE Underway(c)'
  BY <1>5 DEF HandlerStopsTasks, calls, store, history, WaitInv, NothingLost, Waits,
              Underway, Held, Asked
<1>6. ASSUME NEW d \in Contexts, HandlerEnds(d) PROVE Underway(c)'
  <2>1. HandlerReturns(d)
    BY <1>6 DEF HandlerEnds, HandlerRefuses, HandlerThrows
  <2> QED
    BY <2>1, ReturnKeepsUnderway DEF HandlerReturns, calls, store, history, Waits
<1>7. ASSUME NEW b \in Contexts, Answered(b) PROVE Underway(c)'
  <2>1. /\ c # b /\ call'[c] = call[c] /\ resultid'[c] = resultid[c]
        /\ UNCHANGED <<queue, handling, faulty>>
    BY <1>7 DEF Answered, EndCall, Restore, WaitInv, IInv, TypeOK, Waits
  <2> QED
    BY <2>1 DEF WaitInv, NothingLost, Waits, Underway, Held, Asked
<1>8. ASSUME NEW b \in Contexts, TimedOut(b) PROVE Underway(c)'
  BY <1>8 DEF TimedOut
<1>9. ASSUME NEW p \in Contexts, EndTask(p) PROVE Underway(c)'
  BY <1>9, EndTaskKeepsUnderway DEF EndTask, calls, store, history, WaitInv, NothingLost, Waits
<1> QED
  BY <1>1, <1>2, <1>3, <1>4, <1>5, <1>6, <1>7, <1>8, <1>9 DEF Next

LEMMA NextWait == ASSUME WaitInv, [Next]_vars PROVE WaitInv'
<1> USE DEF calls, store, life, history
<1>1. IInv' /\ NothingLost' /\ TypeOK
  BY NextInv, NextKeepsSent DEF WaitInv, IInv
<1>2. WaitersOpen'
  <2>1. ASSUME NEW b \in Contexts, NEW d \in Servers, Send(b, d) PROVE WaitersOpen'
    BY <2>1, <1>1 DEF Send, Idle, WaitInv, WaitersOpen, Waits, TypeOK
  <2>2. ASSUME NEW b \in Contexts, EndTask(b) PROVE WaitersOpen'
    BY <2>2 DEF EndTask, MayEnd, Idle, WaitInv, WaitersOpen, Waits
  <2>3. ASSUME UNCHANGED open,
               call' = call \/ \E b \in Contexts : call' = [call EXCEPT ![b] = NoCall]
        PROVE  WaitersOpen'
    BY <2>3, <1>1 DEF WaitInv, WaitersOpen, Waits, TypeOK
  <2> QED
    BY <2>1, <2>2, <2>3 DEF Next, vars, Tell, ProcessMessages, HandlerStopsTasks, HandlerEnds,
      HandlerReturns, HandlerRefuses, HandlerThrows, Answered, TimedOut, EndCall
<1>3. StoppingSound'
  <2>1. ASSUME NEW b \in Contexts, ProcessMessages(b) PROVE StoppingSound'
    <3>1. /\ handling[b] = None /\ UNCHANGED <<stopping, stopRequested>>
          /\ \A e \in Contexts : e # b => handling'[e] = handling[e]
      BY <2>1, <1>1 DEF ProcessMessages, MayProcess, TypeOK
    <3>2. stopping \subseteq Contexts
      BY <1>1, ServersAreContexts, ContextsAssumption DEF TypeOK
    <3> QED
      BY <3>1, <3>2 DEF WaitInv, StoppingSound
  <2>2. ASSUME NEW b \in Contexts, HandlerStopsTasks(b) PROVE StoppingSound'
    BY <2>2 DEF HandlerStopsTasks, WaitInv, StoppingSound, None
  <2>3. ASSUME NEW b \in Contexts, HandlerEnds(b) PROVE StoppingSound'
    <3>1. /\ handling' = [handling EXCEPT ![b] = None] /\ stopping' = stopping \ {b}
          /\ UNCHANGED stopRequested
      BY <2>3 DEF HandlerEnds, HandlerReturns, HandlerRefuses, HandlerThrows
    <3> QED
      BY <3>1, <1>1 DEF WaitInv, StoppingSound, TypeOK
  <2>4. ASSUME UNCHANGED <<handling, stopping, stopRequested>> PROVE StoppingSound'
    BY <2>4 DEF WaitInv, StoppingSound
  <2> QED
    BY <2>1, <2>2, <2>3, <2>4 DEF Next, vars, Send, Tell, Answered, TimedOut, EndCall, EndTask
<1> QED
  BY <1>1, <1>2, <1>3 DEF WaitInv

-----------------------------------------------------------------------------
(* Somebody goes on as long as somebody waits.                             *)
SomebodyGoesOn == \E e \in Contexts : GoesOn(e)

LEMMA InWait ==
  ASSUME WaitInv, NEW c \in Contexts, Waits(c)
  PROVE  \/ HasReply(c)
         \/ handling[c] # None
         \/ queue[c] # <<>> /\ MayProcess(c)
         \/ queue[c] = <<>> /\ resultid[c] # 0
BY DEF WaitInv, IInv, CallsSound, InSync, WaitersOpen, MayProcess, HasReply, Processes, OutOfSync, Null

(* A server with something to do does it, unless it waits for the tasks.   *)
LEMMA ServerGoesOn ==
  ASSUME WaitInv, NEW d \in Servers, d \notin stopping,
         handling[d] # None \/ queue[d] # <<>>
  PROVE  SomebodyGoesOn
<1>1. d \in Contexts /\ d \in open
  BY ServersAreContexts DEF WaitInv, IInv, TypeOK
<1>2. CASE handling[d] # None
  BY <1>1, <1>2 DEF SomebodyGoesOn, GoesOn, MayReturn
<1>3. CASE handling[d] = None /\ Waits(d)
  BY <1>1, <1>3, InWait DEF SomebodyGoesOn, GoesOn
<1>4. CASE handling[d] = None /\ ~Waits(d)
  BY <1>1, <1>4
  DEF SomebodyGoesOn, GoesOn, MayProcess, Processes, OutOfSync, WaitInv, IInv, InSync, Null
<1> QED
  BY <1>2, <1>3, <1>4

LEMMA EmptyQueue == ASSUME NEW m, NEW q, In(m, q) PROVE q # <<>>
BY DEF In

LEMMA HeldGoesOn ==
  ASSUME WaitInv, NEW c \in Contexts, NEW d \in Servers, Held(c, d), d \notin stopping
  PROVE  SomebodyGoesOn
<1>1. handling[d] # None \/ queue[d] # <<>>
  BY EmptyQueue DEF Held, Asked, Request, None
<1> QED
  BY <1>1, ServerGoesOn

(* The tasks a server waits for have ended, end, or wait for a server that *)
(* does not wait for them.                                                 *)
LEMMA StoppingGoesOn ==
  ASSUME WaitInv, ~faulty, NEW d \in stopping PROVE SomebodyGoesOn
<1>1. /\ d \in Contexts /\ handling[d] # None /\ stopRequested
      /\ stopping \subseteq Stoppers /\ stopping \cap Tasks = {}
  BY ServersAreContexts, ContextsAssumption DEF WaitInv, IInv, TypeOK, StoppingSound
<1>2. CASE Tasks \cap open = {}
  BY <1>1, <1>2 DEF SomebodyGoesOn, GoesOn, MayReturn
<1>3. ASSUME NEW p \in Tasks \cap open PROVE SomebodyGoesOn
  <2>1. p \in Contexts /\ p \notin stopping
    BY <1>1, ServersAreContexts
  <2>2. CASE handling[p] # None
    BY <2>1, <2>2 DEF SomebodyGoesOn, GoesOn, MayReturn
  <2>3. CASE handling[p] = None /\ ~Waits(p)
    BY <1>1, <2>1, <2>3 DEF SomebodyGoesOn, GoesOn, MayEnd, Idle
  <2>4. CASE HasReply(p) \/ MayProcess(p)
    BY <2>1, <2>4 DEF SomebodyGoesOn, GoesOn
  <2>5. CASE Waits(p) /\ queue[p] = <<>> /\ resultid[p] # 0
    <3>1. ~In(Reply(call[p].rid), queue[p])
      BY <2>5, EmptyQueue
    <3>2. PICK e \in Servers : Held(p, e)
      BY <2>1, <2>5, <3>1 DEF WaitInv, NothingLost, Underway
    <3>3. e \notin stopping
      BY <1>1, <3>2, StopAssumption DEF Held
    <3> QED
      BY <2>1, <3>2, <3>3, HeldGoesOn
  <2> QED
    BY <2>1, <2>2, <2>3, <2>4, <2>5, InWait
<1> QED
  BY <1>2, <1>3

LEMMA WaitGoesOn == WaitInv => NoWaitInCircles
<1> SUFFICES ASSUME WaitInv, ~faulty, NEW c \in Contexts, Waits(c) PROVE SomebodyGoesOn
  BY DEF NoWaitInCircles, SomebodyGoesOn
<1>1. CASE stopping # {}
  BY <1>1, StoppingGoesOn
<1>2. CASE stopping = {}
  <2>1. CASE HasReply(c) \/ MayProcess(c)
    BY <2>1 DEF SomebodyGoesOn, GoesOn
  <2>2. CASE handling[c] # None
    BY <1>2, <2>2 DEF SomebodyGoesOn, GoesOn, MayReturn
  <2>3. CASE queue[c] = <<>> /\ resultid[c] # 0
    <3>1. ~In(Reply(call[c].rid), queue[c])
      BY <2>3, EmptyQueue
    <3>2. PICK d \in Servers : Held(c, d)
      BY <2>3, <3>1 DEF WaitInv, NothingLost, Underway
    <3> QED
      BY <1>2, <3>2, HeldGoesOn
  <2> QED
    BY <2>1, <2>2, <2>3, InWait
<1> QED
  BY <1>1, <1>2

-----------------------------------------------------------------------------
(* The contexts, their queues, calls and handlers have their types.        *)
THEOREM ContextsTyped == Spec => []TypeOK
<1>1. IInv /\ [Next]_vars => IInv'
  BY NextInv
<1> QED
  BY <1>1, InitInv, PTL DEF Spec, IInv

(* No context ever holds a result while it waits for another: POVMS never   *)
(* refuses to process messages with kOutOfSyncErr, whichever handlers       *)
(* throw and whatever comes late.                                           *)
THEOREM NoContextOutOfSync == Spec => []NeverOutOfSync
<1>1. IInv => NeverOutOfSync
  BY DEF IInv, InSync, NeverOutOfSync, OutOfSync, Null
<1>2. IInv /\ [Next]_vars => IInv'
  BY NextInv
<1> QED
  BY <1>1, <1>2, InitInv, PTL DEF Spec

(* The type, no context out of sync, and no wait in circles: without a     *)
(* fault the back end may wait for a task, the task for the front end and  *)
(* the front end for the back end, and one of them still goes on.          *)
THEOREM ContextsGoOn == Spec => []ContextInv
<1>1. WaitInv => ContextInv
  <2>1. WaitInv => TypeOK /\ NeverOutOfSync
    BY DEF WaitInv, IInv, InSync, NeverOutOfSync, OutOfSync, Null
  <2> QED
    BY <2>1, WaitGoesOn DEF ContextInv
<1>2. WaitInv /\ [Next]_vars => WaitInv'
  BY NextWait
<1> QED
  BY <1>1, <1>2, InitWait, PTL DEF Spec

(* POVMS_Send keeps the promise of RequestReply.                            *)
THEOREM SendKeepsPromise == Spec => ImplementsRequestReply
<1>1. IInv /\ [Next]_vars => IInv' /\ [Abstract!Next]_Abstract!vars
  BY NextInv, NextRefines
<1> QED
  BY <1>1, InitInv, InitRefines, PTL DEF Spec, ImplementsRequestReply, Abstract!Spec
=============================================================================
