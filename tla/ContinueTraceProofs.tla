------------------------ MODULE ContinueTraceProofs ------------------------
(***************************************************************************)
(* Proofs about ContinueTrace for images of any size, any number of        *)
(* threads and any number of starts.                                       *)
(***************************************************************************)
EXTENDS ContinueTrace, TLAPS

Messages == [id : {"PixelBlockSet", "Done", "Failed"}, pid : Blocks]

(* The blocks of a queue of messages, which are different ones.            *)
BlocksAt(q)  == {i \in 1..Len(q) : q[i].id = "PixelBlockSet"}
BlocksOf(q)  == {q[i].pid : i \in BlocksAt(q)}
Different(q) == \A i, j \in BlocksAt(q) : q[i].pid = q[j].pid => i = j

(* Those the front end has not seen yet.                                   *)
Sent == BlocksOf(queue)

(* The records of a state file that can be read, as ReadableAt.            *)
ReadableIn(l) == {i \in 1..Len(l) : \A j \in 1..i : l[j] # Torn}

(* A verdict is the last message, and Done comes after all blocks.         *)
VerdictsLast ==
  /\ phase # "rendering" => backend = "off" /\ queue = <<>>
  /\ backend # "tracing" => busy = {}
  /\ \A i \in 1..Len(queue) : queue[i].id # "PixelBlockSet" => i = Len(queue) /\ backend = "finished"
  /\ \A i \in 1..Len(queue) : queue[i].id = "Done" => Left = {} /\ busy = {}

(* While an image is rendered, a block is in one place only ...            *)
BlocksApart ==
  phase = "rendering" =>
    /\ image \cap (Sent \cup busy \cup Left) = {}
    /\ Sent \cap (busy \cup Left) = {} /\ busy \cap Left = {}
    /\ Different(queue)

(* ... and none is lost, unless the render is going to fail.               *)
BlocksCovered ==
  (phase = "rendering" /\ \A i \in 1..Len(queue) : queue[i].id # "Failed") =>
    Blocks \subseteq image \cup Sent \cup busy \cup Left

(* The records before pos are those of the image, and while they are read  *)
(* serial and skip stand for them.                                         *)
FileFollowed ==
  /\ phase \in {"reading", "rendering"} =>
       /\ header = "ok" /\ pos <= Len(log)
       /\ \A i \in 1..pos : log[i] # Torn
       /\ image = {log[i] : i \in 1..pos}
  /\ phase = "reading" => image = 0..(serial - 1) \cup skip
  /\ phase = "rendering" => (pos < Len(log) => log[pos + 1] = Torn)
  /\ phase \in {"creating", "clearing"} => log = <<>> /\ image = {} /\ pos = 0 /\ skip = {}
  /\ phase = "clearing" => header = "ok"
  /\ imageBackup <=> phase \in {"creating", "clearing", "rendering"}
  /\ \A i, j \in ReadableAt : i # j => log[i] # log[j]

Finished == phase \in {"rendered", "writing", "saved"} => image = Blocks

IInv == TypeOK /\ VerdictsLast /\ BlocksApart /\ BlocksCovered /\ FileFollowed /\ Finished

-----------------------------------------------------------------------------
(* Queues of messages and files of records.                                *)

(* CompletedRectangle's message adds its block to those under way, a       *)
(* verdict adds none.                                                      *)
LEMMA BlocksAppended ==
  ASSUME NEW q \in Seq(Messages), NEW m \in Messages
  PROVE  BlocksOf(Append(q, m)) =
           BlocksOf(q) \cup (IF m.id = "PixelBlockSet" THEN {m.pid} ELSE {})
<1> DEFINE r == Append(q, m)
<1>1. /\ Len(q) \in Nat /\ Len(r) = Len(q) + 1 /\ r[Len(q) + 1] = m
      /\ \A i \in 1..Len(q) : r[i] = q[i]
  OBVIOUS
<1>2. BlocksAt(r) = BlocksAt(q) \cup (IF m.id = "PixelBlockSet" THEN {Len(q) + 1} ELSE {})
  BY <1>1 DEF BlocksAt
<1>3. \A i \in BlocksAt(q) : r[i] = q[i]
  BY <1>1 DEF BlocksAt
<1> HIDE DEF r
<1> QED
  BY <1>1, <1>2, <1>3 DEF BlocksOf, r

(* Taking the first message takes its block, if it has one.                *)
LEMMA BlocksTaken ==
  ASSUME NEW q \in Seq(Messages), q # <<>>
  PROVE  BlocksOf(q) = BlocksOf(Tail(q)) \cup
                         (IF Head(q).id = "PixelBlockSet" THEN {Head(q).pid} ELSE {})
<1> DEFINE r == Tail(q)
<1>1. /\ Len(q) \in Nat /\ Len(q) > 0 /\ Len(r) = Len(q) - 1 /\ Head(q) = q[1]
      /\ \A i \in 1..Len(r) : r[i] = q[i + 1]
  OBVIOUS
<1>2. \A i \in BlocksAt(r) : i + 1 \in BlocksAt(q) /\ r[i] = q[i + 1]
  BY <1>1 DEF BlocksAt
<1>3. \A i \in BlocksAt(q) : i = 1 \/ (i - 1 \in BlocksAt(r) /\ r[i - 1] = q[i])
  BY <1>1 DEF BlocksAt
<1>4. 1 \in BlocksAt(q) <=> Head(q).id = "PixelBlockSet"
  BY <1>1 DEF BlocksAt
<1> HIDE DEF r
<1>5. \A x \in BlocksOf(q) : x \in BlocksOf(r) \/ (Head(q).id = "PixelBlockSet" /\ x = Head(q).pid)
  BY <1>1, <1>3, <1>4 DEF BlocksOf
<1>6. \A x \in BlocksOf(r) : x \in BlocksOf(q)
  BY <1>2 DEF BlocksOf
<1>7. Head(q).id = "PixelBlockSet" => Head(q).pid \in BlocksOf(q)
  BY <1>1, <1>4 DEF BlocksOf
<1> QED
  BY <1>5, <1>6, <1>7 DEF r

LEMMA DifferentAppended ==
  ASSUME NEW q \in Seq(Messages), NEW m \in Messages, Different(q),
         m.id = "PixelBlockSet" => m.pid \notin BlocksOf(q)
  PROVE  Different(Append(q, m))
<1> DEFINE r == Append(q, m)
<1>1. /\ Len(q) \in Nat /\ Len(r) = Len(q) + 1 /\ r[Len(q) + 1] = m
      /\ \A i \in 1..Len(q) : r[i] = q[i]
  OBVIOUS
<1>2. \A i \in BlocksAt(r) : (i \in BlocksAt(q) /\ r[i] = q[i])
                              \/ (i = Len(q) + 1 /\ m.id = "PixelBlockSet" /\ r[i] = m)
  BY <1>1 DEF BlocksAt
<1>3. \A i \in BlocksAt(q) : q[i].pid \in BlocksOf(q)
  BY DEF BlocksOf
<1> HIDE DEF r
<1> QED
  BY <1>2, <1>3 DEF Different, r

LEMMA DifferentTaken ==
  ASSUME NEW q \in Seq(Messages), q # <<>>, Different(q)
  PROVE  /\ Different(Tail(q))
         /\ Head(q).id = "PixelBlockSet" => Head(q).pid \notin BlocksOf(Tail(q))
<1> DEFINE r == Tail(q)
<1>1. /\ Len(q) \in Nat /\ Len(q) > 0 /\ Len(r) = Len(q) - 1 /\ Head(q) = q[1]
      /\ \A i \in 1..Len(r) : r[i] = q[i + 1]
  OBVIOUS
<1>2. \A i \in BlocksAt(r) : i \in Int /\ i > 0 /\ i + 1 \in BlocksAt(q) /\ r[i] = q[i + 1]
  BY <1>1 DEF BlocksAt
<1>3. Head(q).id = "PixelBlockSet" => 1 \in BlocksAt(q)
  BY <1>1 DEF BlocksAt
<1> HIDE DEF r
<1>4. Different(r)
  <2> SUFFICES ASSUME NEW i \in BlocksAt(r), NEW j \in BlocksAt(r), r[i].pid = r[j].pid
               PROVE  i = j
    BY DEF Different
  <2>1. i + 1 = j + 1
    BY <1>2 DEF Different
  <2> QED
    BY <1>2, <2>1
<1>5. ASSUME Head(q).id = "PixelBlockSet", NEW i \in BlocksAt(r), r[i].pid = Head(q).pid
      PROVE  FALSE
  <2>1. i + 1 = 1
    BY <1>1, <1>2, <1>3, <1>5 DEF Different
  <2> QED
    BY <1>2, <2>1
<1> QED
  BY <1>4, <1>5 DEF BlocksOf, r

(* What is behind a torn record, or where the file ends, is not readable.  *)
LEMMA ReadableBefore ==
  ASSUME NEW l, NEW n \in Nat, Len(l) \in Nat, n <= Len(l),
         \A i \in 1..n : l[i] # Torn,
         n < Len(l) => l[n + 1] = Torn
  PROVE  ReadableIn(l) = 1..n
<1>1. \A i \in 1..n : i \in ReadableIn(l)
  BY DEF ReadableIn
<1>2. ASSUME NEW i \in ReadableIn(l), i > n PROVE FALSE
  <2>1. i \in 1..Len(l) /\ n + 1 \in 1..i
    BY <1>2 DEF ReadableIn
  <2> QED
    BY <1>2, <2>1 DEF ReadableIn
<1> QED
  BY <1>1, <1>2 DEF ReadableIn

LEMMA SequencesTyped ==
  /\ TypeOK => /\ Len(log) \in Nat /\ Len(queue) \in Nat /\ queue \in Seq(Messages)
               /\ \A i \in 1..Len(log) : log[i] \in Blocks \cup {Torn}
               /\ \A i \in 1..Len(queue) : queue[i] \in Messages
               /\ queue # <<>> => Head(queue) \in Messages
  /\ \A b \in Blocks : PixelBlockSet(b) \in Messages
  /\ Verdict("Done") \in Messages /\ Verdict("Failed") \in Messages
  /\ Torn \notin Blocks /\ NumBlocks \in Nat
<1>1. 0 \in Blocks /\ Torn \notin Blocks /\ NumBlocks \in Nat
  BY SizesAssumption DEF Blocks, Torn
<1>2. \A b \in Blocks : PixelBlockSet(b) \in Messages
  BY DEF Messages, PixelBlockSet
<1>3. Verdict("Done") \in Messages /\ Verdict("Failed") \in Messages
  BY <1>1 DEF Messages, Verdict
<1>4. ASSUME TypeOK PROVE queue \in Seq(Messages) /\ log \in Seq(Blocks \cup {Torn})
  BY <1>4 DEF TypeOK, Messages
<1>5. ASSUME TypeOK PROVE /\ Len(log) \in Nat /\ Len(queue) \in Nat
                          /\ \A i \in 1..Len(log) : log[i] \in Blocks \cup {Torn}
                          /\ \A i \in 1..Len(queue) : queue[i] \in Messages
                          /\ queue # <<>> => Head(queue) \in Messages
  BY <1>4, <1>5
<1> QED
  BY <1>1, <1>2, <1>3, <1>4, <1>5

LEMMA ReadableIsIn == ReadableAt = ReadableIn(log) /\ ReadableAt' = ReadableIn(log)'
BY DEF ReadableAt, ReadableIn

LEMMA Initially == Init => IInv
<1> SUFFICES ASSUME Init PROVE IInv
  OBVIOUS
<1> USE SizesAssumption DEF Init
<1>1. TypeOK
  <2>1. log \in Seq(Blocks \cup {Torn})
    OBVIOUS
  <2>2. queue \in Seq([id : {"PixelBlockSet", "Done", "Failed"}, pid : Blocks])
    OBVIOUS
  <2>3. serial \in 0..NumBlocks /\ nextBlock \in 0..NumBlocks /\ starts \in 0..MaxStarts
        /\ pos \in Nat
    OBVIOUS
  <2>4. image \subseteq Blocks /\ skip \subseteq Blocks /\ busy \subseteq Blocks
    OBVIOUS
  <2> QED
    BY <2>1, <2>2, <2>3, <2>4 DEF TypeOK
<1>2. VerdictsLast /\ BlocksApart /\ BlocksCovered /\ Finished
  BY DEF VerdictsLast, BlocksApart, BlocksCovered, Finished
<1>3. FileFollowed
  BY DEF FileFollowed, ReadableAt
<1> QED
  BY <1>1, <1>2, <1>3 DEF IInv

-----------------------------------------------------------------------------
(* Starting a render, from nothing or from the state file.                 *)

LEMMA StartKeeps == ASSUME IInv, NEW c \in BOOLEAN, StartRender(c) PROVE IInv'
<1> USE DEF IInv
<1>0. phase # "rendering" /\ queue = <<>> /\ backend = "off"
  BY DEF StartRender, VerdictsLast
<1>S. starts' \in 0..MaxStarts
  BY SizesAssumption DEF StartRender, TypeOK
<1>1. CASE phase' = "skipped" /\ UNCHANGED <<disk, image, imageBackup, pos, serial, skip, back>>
  <2> USE <1>1 DEF disk, back
  <2>1. TypeOK'
    BY <1>S DEF TypeOK
  <2>2. (VerdictsLast /\ BlocksApart /\ BlocksCovered /\ Finished)'
    BY <1>0 DEF VerdictsLast, BlocksApart, BlocksCovered, Finished
  <2>3. FileFollowed'
    BY DEF FileFollowed, ReadableAt, StartRender
  <2> QED
    BY <2>1, <2>2, <2>3
<1>2. CASE header = "ok" /\ OpenState /\ UNCHANGED disk
  <2> USE <1>2 DEF disk, back, OpenState
  <2>0. serial' \in 0..NumBlocks
    BY SizesAssumption
  <2>1. TypeOK'
    BY <1>S, <2>0 DEF TypeOK
  <2>2. (VerdictsLast /\ BlocksApart /\ BlocksCovered /\ Finished)'
    BY <1>0 DEF VerdictsLast, BlocksApart, BlocksCovered, Finished
  <2>3. FileFollowed'
    BY SequencesTyped DEF FileFollowed, ReadableAt
  <2> QED
    BY <2>1, <2>2, <2>3
<1>3. CASE CreateState /\ imageFile' = IF imageFile = "whole" THEN "old" ELSE imageFile
  <2> USE <1>3 DEF back, CreateState
  <2>0. /\ serial' \in 0..NumBlocks
        /\ imageFile' \in {"none", "part", "whole", "old"}
        /\ pos' = 0 /\ Len(log') = 0 /\ log' \in Seq(Blocks \cup {Torn})
    BY SizesAssumption DEF TypeOK
  <2>1. TypeOK'
    <3>1. /\ image' \subseteq Blocks /\ skip' \subseteq Blocks /\ imageBackup' \in BOOLEAN
          /\ pos' <= Len(log') /\ header' = "torn" /\ phase' = "creating"
      BY <2>0
    <3>2. UNCHANGED <<nextBlock, busy, backend, queue>>
      OBVIOUS
    <3> QED
      BY <1>S, <2>0, <3>1, <3>2 DEF TypeOK
  <2>2. (VerdictsLast /\ BlocksApart /\ BlocksCovered /\ Finished)'
    BY <1>0 DEF VerdictsLast, BlocksApart, BlocksCovered, Finished
  <2>3. FileFollowed'
    BY DEF FileFollowed, ReadableAt
  <2> QED
    BY <2>1, <2>2, <2>3
<1> QED
  BY <1>1, <1>2, <1>3 DEF StartRender

LEMMA CreateKeeps == ASSUME IInv, WriteHeader \/ RemoveImage PROVE IInv'
<1> USE DEF IInv
<1>0. phase # "rendering" /\ queue = <<>> /\ log = <<>> /\ image = {} /\ pos = 0 /\ skip = {}
  BY DEF WriteHeader, RemoveImage, VerdictsLast, FileFollowed
<1>1. CASE WriteHeader
  <2> USE <1>1 DEF back, WriteHeader
  <2>1. TypeOK'
    BY DEF TypeOK
  <2>2. (VerdictsLast /\ BlocksApart /\ BlocksCovered /\ Finished)'
    BY DEF VerdictsLast, BlocksApart, BlocksCovered, Finished
  <2>3. FileFollowed'
    BY DEF FileFollowed, ReadableAt
  <2> QED
    BY <2>1, <2>2, <2>3
<1>2. CASE RemoveImage
  <2> USE <1>2, SizesAssumption DEF RemoveImage, BackendStarts
  <2>1. TypeOK'
    BY DEF TypeOK, Blocks
  <2>2. Left' = Blocks
    BY <1>0 DEF Left, Blocks
  <2>3. Sent' = {} /\ Different(queue)'
    BY DEF Sent, BlocksOf, BlocksAt, Different
  <2>4. (VerdictsLast /\ BlocksApart /\ BlocksCovered /\ Finished)'
    BY <1>0, <2>2, <2>3 DEF VerdictsLast, BlocksApart, BlocksCovered, Finished
  <2>5. FileFollowed'
    BY <1>0 DEF FileFollowed, ReadableAt
  <2> QED
    BY <2>1, <2>4, <2>5
<1> QED
  BY <1>1, <1>2

(* ContinueBackup: a record that was read is one of the leading blocks or  *)
(* one to skip, because no block is in the file twice.                     *)
LEMMA ReadKeeps == ASSUME IInv, ReadRecord PROVE IInv'
<1> USE DEF IInv, ReadRecord
<1> DEFINE b == log[pos + 1]
<1>0. phase = "reading" /\ phase' = "reading" /\ queue = <<>> /\ backend = "off" /\ header = "ok"
  BY DEF VerdictsLast, FileFollowed
<1>1. /\ pos \in Nat /\ pos + 1 \in 1..Len(log) /\ b \in Blocks /\ pos + 1 <= Len(log)
      /\ \A i \in 1..(pos + 1) : log[i] # Torn
  BY SequencesTyped DEF TypeOK, FileFollowed, MoreToRead
<1>2. image' = {log[i] : i \in 1..(pos + 1)}
  BY <1>0, <1>1 DEF FileFollowed
<1>3. b \notin image
  <2>1. 1..(pos + 1) \subseteq ReadableAt
    BY <1>1, SequencesTyped DEF ReadableAt
  <2> QED
    BY <1>0, <1>1, <2>1 DEF FileFollowed
<1>4. /\ image' = 0..(serial' - 1) \cup skip'
      /\ serial' \in 0..NumBlocks /\ skip' \subseteq Blocks
  <2>1. image = 0..(serial - 1) \cup skip /\ serial \in 0..NumBlocks /\ skip \subseteq Blocks
    BY <1>0 DEF FileFollowed, TypeOK
  <2>2. CASE b > serial
    BY <1>1, <2>1, <2>2 DEF Count
  <2>3. CASE ~(b > serial)
    <3>1. b \in 0..(NumBlocks - 1) /\ NumBlocks \in Nat
      BY <1>1, SequencesTyped DEF Blocks
    <3>2. b = serial
      BY <1>3, <2>1, <2>3, <3>1
    <3>3. serial' = serial + 1 /\ skip' = skip /\ 0..serial = 0..(serial - 1) \cup {serial}
      BY <2>1, <2>3 DEF Count
    <3> QED
      BY <2>1, <3>1, <3>2, <3>3
  <2> QED
    BY <2>2, <2>3
<1>5. image' \subseteq Blocks
  BY <1>1 DEF TypeOK
<1> HIDE DEF b
<1> USE DEF disk, back
<1>6. TypeOK'
  BY <1>0, <1>1, <1>4, <1>5 DEF TypeOK
<1>7. (VerdictsLast /\ BlocksApart /\ BlocksCovered /\ Finished)'
  BY <1>0 DEF VerdictsLast, BlocksApart, BlocksCovered, Finished
<1>8. FileFollowed'
  BY <1>0, <1>1, <1>2, <1>4 DEF FileFollowed, ReadableAt
<1> QED
  BY <1>6, <1>7, <1>8

(* What was read is in the image, everything else is left to the backend.  *)
LEMMA AppendKeeps == ASSUME IInv, OpenForAppend PROVE IInv'
<1> USE DEF IInv, OpenForAppend, BackendStarts, disk
<1>0. phase = "reading" /\ phase' = "rendering" /\ header = "ok" /\ pos' = pos
  BY DEF FileFollowed, EndOfReadable
<1>1. pos < Len(log) => log[pos + 1] = Torn
  BY DEF MoreToRead
<1>2. image = 0..(serial - 1) \cup skip /\ serial \in 0..NumBlocks
  BY <1>0 DEF FileFollowed, TypeOK
<1>3. Left' = {b \in Blocks : b >= serial} \ skip
  BY DEF Left
<1>4. image \cap Left' = {} /\ Blocks \subseteq image \cup Left'
  BY <1>2, <1>3, SequencesTyped DEF Blocks
<1>5. Sent' = {} /\ Different(queue)'
  BY DEF Sent, BlocksOf, BlocksAt, Different
<1>6. TypeOK'
  <2>1. queue' \in Seq([id : {"PixelBlockSet", "Done", "Failed"}, pid : Blocks])
    OBVIOUS
  <2>2. pos' \in Nat /\ pos' <= Len(log') /\ header' # "none" /\ phase' = "rendering"
    BY <1>0 DEF TypeOK, FileFollowed
  <2>3. /\ nextBlock' \in 0..NumBlocks /\ busy' \subseteq Blocks /\ backend' = "tracing"
        /\ imageBackup' = TRUE
    BY <1>2
  <2>4. UNCHANGED <<disk, image, serial, skip, starts>>
    OBVIOUS
  <2> QED
    BY <2>1, <2>2, <2>3, <2>4 DEF TypeOK
<1>7. (VerdictsLast /\ BlocksApart /\ BlocksCovered /\ Finished)'
  BY <1>0, <1>4, <1>5 DEF VerdictsLast, BlocksApart, BlocksCovered, Finished
<1>8. FileFollowed'
  BY <1>0, <1>1 DEF FileFollowed, ReadableAt
<1> QED
  BY <1>6, <1>7, <1>8

-----------------------------------------------------------------------------
(* The backend.                                                            *)

LEMMA DispatchKeeps == ASSUME IInv, Dispatch PROVE IInv'
<1> USE DEF IInv, front, disk
<1>1. PICK b \in Left : /\ \A c \in Left : b <= c
                        /\ busy' = busy \cup {b} /\ nextBlock' = b + 1
  BY DEF Dispatch
<1>2. phase = "rendering" /\ backend = "tracing" /\ UNCHANGED <<front, backend, queue>>
  BY DEF Dispatch, VerdictsLast
<1>3. Left' = Left \ {b}
  <2>1. Blocks \subseteq Int /\ nextBlock \in Int
    BY SequencesTyped DEF Blocks, TypeOK
  <2>2. b \in Int /\ b >= nextBlock /\ skip' = skip
    BY <1>1, <1>2, <2>1 DEF Left
  <2>3. \A c \in Left : c # b => c >= b + 1
    BY <1>1, <2>1, <2>2 DEF Left
  <2>4. \A c \in Blocks : c >= b + 1 => c >= nextBlock /\ c # b
    BY <2>1, <2>2
  <2> QED
    BY <1>1, <2>2, <2>3, <2>4 DEF Left
<1>4. b \in Blocks /\ b + 1 \in 0..NumBlocks /\ Sent' = Sent
  BY <1>2, SequencesTyped DEF Left, Blocks, Sent
<1>5. TypeOK'
  BY <1>1, <1>2, <1>4 DEF TypeOK
<1>6. VerdictsLast'
  BY <1>2 DEF VerdictsLast
<1>7. BlocksApart'
  BY <1>1, <1>2, <1>3, <1>4 DEF BlocksApart
<1>8. BlocksCovered'
  BY <1>1, <1>2, <1>3, <1>4 DEF BlocksCovered
<1>9. FileFollowed' /\ Finished'
  BY <1>2 DEF FileFollowed, ReadableAt, Finished
<1> QED
  BY <1>5, <1>6, <1>7, <1>8, <1>9

(* A message is put behind the others.                                     *)
LEMMA Enqueued ==
  ASSUME TypeOK, NEW m \in Messages, queue' = Append(queue, m)
  PROVE  /\ queue' \in Seq(Messages) /\ Len(queue') = Len(queue) + 1
         /\ queue'[Len(queue) + 1] = m
         /\ \A i \in 1..Len(queue) : queue'[i] = queue[i]
         /\ \A i \in 1..Len(queue') : i \in 1..Len(queue) \/ i = Len(queue) + 1
         /\ Len(queue) \in Nat
BY SequencesTyped

LEMMA CompleteKeeps == ASSUME IInv, NEW b \in Blocks, Complete(b) PROVE IInv'
<1> USE DEF IInv, front, disk
<1>1. /\ b \in busy /\ busy' = busy \ {b} /\ queue' = Append(queue, PixelBlockSet(b))
      /\ UNCHANGED <<front, nextBlock, backend>> /\ Left' = Left
  BY DEF Complete, Left
<1>2. phase = "rendering" /\ backend = "tracing"
  BY <1>1 DEF VerdictsLast
<1>3. PixelBlockSet(b) \in Messages /\ PixelBlockSet(b).id = "PixelBlockSet"
      /\ PixelBlockSet(b).pid = b
  BY SequencesTyped DEF PixelBlockSet
<1>4. Sent' = Sent \cup {b}
  BY <1>1, <1>3, SequencesTyped, BlocksAppended DEF Sent
<1>5. Different(queue)'
  <2>1. Different(queue) /\ b \notin Sent
    BY <1>1, <1>2 DEF BlocksApart
  <2> QED
    BY <1>1, <1>3, <2>1, SequencesTyped, DifferentAppended DEF Sent
<1>6. TypeOK'
  BY <1>1, <1>3, Enqueued DEF TypeOK, Messages
<1>7. VerdictsLast'
  BY <1>1, <1>2, <1>3, Enqueued DEF VerdictsLast
<1>8. BlocksApart'
  BY <1>1, <1>2, <1>4, <1>5 DEF BlocksApart
<1>9. BlocksCovered'
  BY <1>1, <1>2, <1>3, <1>4, Enqueued DEF BlocksCovered
<1>10. FileFollowed' /\ Finished'
  BY <1>1 DEF FileFollowed, ReadableAt, Finished
<1> QED
  BY <1>6, <1>7, <1>8, <1>9, <1>10

LEMMA VerdictKeeps == ASSUME IInv, SendDone \/ Abort PROVE IInv'
<1> USE DEF IInv, front, disk
<1>1. PICK v \in {"Done", "Failed"} :
        /\ queue' = Append(queue, Verdict(v))
        /\ v = "Done" => Left = {} /\ busy = {}
        /\ backend = "tracing" /\ backend' = "finished" /\ busy' = {}
        /\ UNCHANGED <<front, nextBlock>>
  BY DEF SendDone, Abort
<1>2. phase = "rendering" /\ Left' = Left
  BY <1>1 DEF VerdictsLast, Left
<1>3. Verdict(v) \in Messages /\ Verdict(v).id = v /\ v # "PixelBlockSet"
  BY SequencesTyped DEF Verdict
<1>4. Sent' = Sent
  BY <1>1, <1>3, SequencesTyped, BlocksAppended DEF Sent
<1>5. Different(queue)'
  <2>1. Different(queue)
    BY <1>1, <1>2 DEF BlocksApart
  <2> QED
    BY <1>1, <1>3, <2>1, SequencesTyped, DifferentAppended
<1>6. TypeOK'
  BY <1>1, <1>3, Enqueued DEF TypeOK, Messages
<1>7. VerdictsLast'
  BY <1>1, <1>2, <1>3, Enqueued DEF VerdictsLast
<1>8. BlocksApart'
  BY <1>1, <1>2, <1>4, <1>5 DEF BlocksApart
<1>9. BlocksCovered'
  BY <1>1, <1>2, <1>3, <1>4, Enqueued DEF BlocksCovered
<1>10. FileFollowed' /\ Finished'
  BY <1>1 DEF FileFollowed, ReadableAt, Finished
<1> QED
  BY <1>6, <1>7, <1>8, <1>9, <1>10

-----------------------------------------------------------------------------
(* The front end handles the messages.                                     *)

(* The first message is taken.                                             *)
LEMMA Dequeued ==
  ASSUME TypeOK, queue # <<>>, queue' = Tail(queue)
  PROVE  /\ queue' \in Seq(Messages) /\ Len(queue') = Len(queue) - 1 /\ Len(queue) \in Nat
         /\ Len(queue) > 0 /\ Head(queue) = queue[1]
         /\ \A i \in 1..Len(queue') : i + 1 \in 1..Len(queue) /\ queue'[i] = queue[i + 1]
BY SequencesTyped

(* A record is written over what cannot be read.                           *)
LEMMA RecordWritten ==
  ASSUME TypeOK, pos <= Len(log), NEW r \in Blocks, log' \in Written(r)
  PROVE  /\ log' \in Seq(Blocks \cup {Torn})
         /\ pos + 1 \in Nat /\ Len(log') \in Nat /\ pos + 1 <= Len(log')
         /\ \A i \in 1..pos : log'[i] = log[i]
         /\ log'[pos + 1] = r
         /\ pos + 1 < Len(log') => log'[pos + 2] = Torn
<1> DEFINE s == SubSeq(log, 1, pos)
<1>1. pos \in Nat /\ log \in Seq(Blocks \cup {Torn})
  BY DEF TypeOK
<1>2. s \in Seq(Blocks \cup {Torn}) /\ Len(s) = pos /\ \A i \in 1..pos : s[i] = log[i]
  BY <1>1
<1> HIDE DEF s
<1>3. CASE log' = Append(s, r)
  BY <1>1, <1>2, <1>3
<1>4. CASE log' = s \o <<r, Torn>>
  BY <1>1, <1>2, <1>4
<1> QED
  BY <1>3, <1>4 DEF Written, s

(* DrawPixelBlockSet: the block moves from the messages to image and file. *)
LEMMA DrawKeeps == ASSUME IInv, DrawPixelBlockSet PROVE IInv'
<1> USE DEF IInv
<1> DEFINE b == Head(queue).pid
<1>1. /\ phase = "rendering" /\ queue # <<>> /\ Head(queue).id = "PixelBlockSet"
      /\ image' = image \cup {b} /\ log' \in Written(b) /\ pos' = pos + 1
      /\ queue' = Tail(queue)
      /\ UNCHANGED <<header, imageFile, phase, imageBackup, serial, skip, nextBlock, busy,
                     backend, starts>>
      /\ Left' = Left
  BY DEF DrawPixelBlockSet, Received, Left
<1>2. b \in Blocks
  BY <1>1, SequencesTyped DEF Messages
<1>3. Sent = Sent' \cup {b} /\ Different(queue)' /\ b \notin Sent'
  <2>1. Different(queue)
    BY <1>1 DEF BlocksApart
  <2> QED
    BY <1>1, <2>1, SequencesTyped, BlocksTaken, DifferentTaken DEF Sent
<1>4. b \notin image
  BY <1>1, <1>3 DEF BlocksApart
<1>5. /\ header = "ok" /\ pos \in Nat /\ pos <= Len(log) /\ image = {log[i] : i \in 1..pos}
      /\ \A i \in 1..pos : log[i] # Torn
  BY <1>1 DEF FileFollowed, TypeOK
<1> HIDE DEF b
<1>6. /\ log' \in Seq(Blocks \cup {Torn})
      /\ pos + 1 \in Nat /\ Len(log') \in Nat /\ pos + 1 <= Len(log')
      /\ \A i \in 1..pos : log'[i] = log[i]
      /\ log'[pos + 1] = b
      /\ pos + 1 < Len(log') => log'[pos + 2] = Torn
  BY <1>1, <1>2, <1>5, RecordWritten
<1>7. /\ \A i \in 1..(pos + 1) : log'[i] # Torn
      /\ image' = {log'[i] : i \in 1..(pos + 1)}
  <2>1. \A i \in 1..(pos + 1) : i \in 1..pos \/ i = pos + 1
    BY <1>5
  <2>2. \A i \in 1..(pos + 1) : log'[i] # Torn
    BY <1>2, <1>5, <1>6, <2>1, SequencesTyped
  <2>3. \A x \in image' : \E i \in 1..(pos + 1) : x = log'[i]
    BY <1>1, <1>5, <1>6
  <2>4. \A i \in 1..(pos + 1) : log'[i] \in image'
    BY <1>1, <1>5, <1>6, <2>1
  <2> QED
    BY <2>2, <2>3, <2>4
<1>8. ReadableAt' = 1..(pos + 1)
  <2>1. ReadableIn(log') = 1..(pos + 1)
    <3>1. pos + 1 < Len(log') => log'[(pos + 1) + 1] = Torn
      BY <1>5, <1>6
    <3> QED
      BY <1>6, <1>7, <3>1, ReadableBefore
  <2> QED
    BY <2>1 DEF ReadableAt, ReadableIn
<1>9. \A i, j \in 1..(pos + 1) : i # j => log'[i] # log'[j]
  <2>1. ReadableAt = 1..pos
    <3>1. pos < Len(log) => log[pos + 1] = Torn
      BY <1>1 DEF FileFollowed
    <3> QED
      BY <1>5, <3>1, ReadableBefore, ReadableIsIn, SequencesTyped
  <2>2. \A i, j \in 1..pos : i # j => log[i] # log[j]
    BY <2>1 DEF FileFollowed
  <2>3. \A i \in 1..(pos + 1) : i \in 1..pos \/ i = pos + 1
    BY <1>5
  <2> QED
    BY <1>4, <1>5, <1>6, <2>2, <2>3
<1>10. TypeOK'
  <2>1. queue' \in Seq(Messages)
    BY <1>1, Dequeued
  <2> QED
    BY <1>1, <1>2, <1>5, <1>6, <2>1 DEF TypeOK, Messages
<1>11. VerdictsLast'
  <2>1. /\ phase' = "rendering" /\ (backend' # "tracing" => busy' = {})
        /\ \A i \in 1..Len(queue) :
             /\ queue[i].id # "PixelBlockSet" => i = Len(queue) /\ backend = "finished"
             /\ queue[i].id = "Done" => Left = {} /\ busy = {}
    BY <1>1 DEF VerdictsLast
  <2>2. /\ Len(queue') = Len(queue) - 1 /\ Len(queue) \in Nat
        /\ \A i \in 1..Len(queue') : i + 1 \in 1..Len(queue) /\ queue'[i] = queue[i + 1]
    BY <1>1, Dequeued
  <2>3. backend' = backend /\ busy' = busy /\ Left' = Left
    BY <1>1
  <2>4. \A i \in 1..Len(queue') : queue'[i].id # "PixelBlockSet" =>
                                   i = Len(queue') /\ backend' = "finished"
    BY <2>1, <2>2, <2>3
  <2>5. \A i \in 1..Len(queue') : queue'[i].id = "Done" => Left' = {} /\ busy' = {}
    BY <2>1, <2>2, <2>3
  <2> QED
    BY <2>1, <2>4, <2>5 DEF VerdictsLast
<1>12. BlocksApart'
  BY <1>1, <1>3, <1>4 DEF BlocksApart
<1>13. BlocksCovered'
  <2> SUFFICES ASSUME \A i \in 1..Len(queue') : queue'[i].id # "Failed"
               PROVE  Blocks \subseteq image' \cup Sent' \cup busy' \cup Left'
    BY DEF BlocksCovered
  <2>1. \A i \in 1..Len(queue) : queue[i].id # "Failed"
    <3>1. \A i \in 1..Len(queue) : i = 1 \/ (i - 1 \in 1..Len(queue') /\ queue'[i - 1] = queue[i])
      BY <1>1, Dequeued
    <3> QED
      BY <1>1, <3>1, Dequeued
  <2> QED
    BY <1>1, <1>3, <2>1 DEF BlocksCovered
<1>14. FileFollowed'
  BY <1>1, <1>5, <1>6, <1>7, <1>8, <1>9 DEF FileFollowed
<1>15. Finished'
  BY <1>1 DEF Finished
<1> QED
  BY <1>10, <1>11, <1>12, <1>13, <1>14, <1>15

(* HandleRenderMessage: a verdict was the last message, and behind Done    *)
(* every block is in the image.                                            *)
LEMMA HandleKeeps == ASSUME IInv, HandleDone \/ HandleFailed PROVE IInv'
<1> USE DEF IInv
<1>1. /\ phase = "rendering" /\ queue # <<>> /\ queue' = Tail(queue)
      /\ Head(queue).id \in {"Done", "Failed"}
      /\ backend' = "off" /\ imageBackup' = FALSE
      /\ UNCHANGED <<imageFile, image, serial, skip, nextBlock, busy, starts>>
      /\ \/ Head(queue).id = "Done" /\ phase' = "rendered" /\ header' = "none" /\ log' = <<>>
            /\ pos' = 0
         \/ phase' = "down" /\ UNCHANGED <<header, log, pos>>
  BY DEF HandleDone, HandleFailed, Received, disk
<1>2. Len(queue) = 1 /\ busy = {} /\ queue' = <<>>
  <2>1. 1 \in 1..Len(queue) /\ queue[1] = Head(queue) /\ Len(queue) \in Nat /\ Len(queue') = Len(queue) - 1
        /\ queue' \in Seq(Messages)
    BY <1>1, Dequeued
  <2>2. Len(queue) = 1 /\ backend = "finished"
    BY <1>1, <2>1 DEF VerdictsLast
  <2> QED
    BY <2>1, <2>2 DEF VerdictsLast
<1>3. ASSUME Head(queue).id = "Done" PROVE image = Blocks
  <2>1. queue[1].id = "Done" /\ \A i \in 1..Len(queue) : i = 1
    BY <1>1, <1>2, <1>3, Dequeued
  <2>2. Left = {} /\ Sent = {}
    BY <1>2, <2>1 DEF VerdictsLast, Sent, BlocksOf, BlocksAt
  <2>3. Blocks \subseteq image
    BY <1>1, <1>2, <2>1, <2>2 DEF BlocksCovered
  <2> QED
    BY <2>3 DEF TypeOK
<1>4. TypeOK'
  <2>1. queue' \in Seq([id : {"PixelBlockSet", "Done", "Failed"}, pid : Blocks])
    BY <1>2
  <2>2. log' \in Seq(Blocks \cup {Torn})
    <3>1. log \in Seq(Blocks \cup {Torn}) /\ <<>> \in Seq(Blocks \cup {Torn})
      BY DEF TypeOK
    <3> QED
      BY <1>1, <3>1
  <2>3. pos' \in Nat /\ header' \in {"none", "torn", "ok"} /\ phase' \in {"rendered", "down"}
    BY <1>1 DEF TypeOK
  <2>4. imageBackup' \in BOOLEAN /\ (imageBackup' => pos' <= Len(log') /\ header' # "none")
    BY <1>1
  <2>5. /\ imageFile' \in {"none", "part", "whole", "old"}
        /\ image' \subseteq Blocks /\ serial' \in 0..NumBlocks /\ skip' \subseteq Blocks
        /\ nextBlock' \in 0..NumBlocks /\ busy' \subseteq Blocks
        /\ backend' \in {"off", "tracing", "finished"} /\ starts' \in 0..MaxStarts
    BY <1>1 DEF TypeOK
  <2> QED
    BY <2>1, <2>2, <2>3, <2>4, <2>5 DEF TypeOK
<1>5. (VerdictsLast /\ BlocksApart /\ BlocksCovered)'
  <2>1. phase' # "rendering" /\ busy' = {} /\ backend' = "off" /\ queue' = <<>>
    BY <1>1, <1>2
  <2>2. \A i \in 1..Len(queue') : FALSE
    BY <2>1
  <2>3. VerdictsLast'
    BY <2>1, <2>2 DEF VerdictsLast
  <2> QED
    BY <2>1, <2>3 DEF BlocksApart, BlocksCovered
<1>6. Finished'
  BY <1>1, <1>3 DEF Finished
<1>7. FileFollowed'
  <2>1. \A i, j \in ReadableAt' : i # j => log'[i] # log'[j]
    BY <1>1 DEF FileFollowed, ReadableAt
  <2> QED
    BY <1>1, <2>1 DEF FileFollowed
<1> QED
  BY <1>4, <1>5, <1>6, <1>7

LEMMA WriteImageKeeps == ASSUME IInv, BeginWriteImage \/ EndWriteImage PROVE IInv'
<1> USE DEF IInv
<1>1. /\ phase \in {"rendered", "writing"} /\ phase' \in {"writing", "saved"}
      /\ imageFile' \in {"part", "whole"}
      /\ UNCHANGED <<header, log, image, imageBackup, pos, serial, skip, back, starts>>
  BY DEF BeginWriteImage, EndWriteImage
<1> USE DEF back
<1>2. TypeOK'
  BY <1>1 DEF TypeOK
<1>3. (VerdictsLast /\ BlocksApart /\ BlocksCovered /\ Finished)'
  BY <1>1 DEF VerdictsLast, BlocksApart, BlocksCovered, Finished, Left
<1>4. FileFollowed'
  BY <1>1 DEF FileFollowed, ReadableAt
<1> QED
  BY <1>2, <1>3, <1>4

-----------------------------------------------------------------------------
(* The program is killed.                                                  *)

(* A record that is torn hides no other.                                   *)
LEMMA TornHidesNone ==
  ASSUME IInv, CrashWhileWriting
  PROVE  /\ log' \in Seq(Blocks \cup {Torn})
         /\ ReadableAt = 1..pos /\ ReadableAt' = 1..pos
         /\ \A i \in 1..pos : log'[i] = log[i]
<1> DEFINE s == SubSeq(log, 1, pos)
<1>1. log' = Append(s, Torn) /\ phase = "rendering"
  BY DEF CrashWhileWriting, Received
<1>2. /\ pos \in Nat /\ log \in Seq(Blocks \cup {Torn}) /\ pos <= Len(log)
      /\ \A i \in 1..pos : log[i] # Torn
      /\ pos < Len(log) => log[pos + 1] = Torn
  BY <1>1 DEF IInv, TypeOK, FileFollowed
<1>3. s \in Seq(Blocks \cup {Torn}) /\ Len(s) = pos /\ \A i \in 1..pos : s[i] = log[i]
  BY <1>2
<1> HIDE DEF s
<1>4. /\ log' \in Seq(Blocks \cup {Torn}) /\ Len(log') = pos + 1 /\ log'[pos + 1] = Torn
      /\ \A i \in 1..pos : log'[i] = log[i]
  BY <1>1, <1>2, <1>3
<1>5. Len(log) \in Nat /\ ReadableIn(log) = 1..pos
  BY <1>2, ReadableBefore
<1>6. ReadableIn(log') = 1..pos
  BY <1>2, <1>4, ReadableBefore, SMTT(30)
<1> QED
  BY <1>4, <1>5, <1>6 DEF ReadableAt, ReadableIn

LEMMA CrashKeeps == ASSUME IInv, Crash \/ CrashWhileWriting PROVE IInv'
<1> USE DEF IInv
<1>1. /\ phase' = "down" /\ imageBackup' = FALSE /\ image' = {}
      /\ backend' = "off" /\ busy' = {} /\ queue' = <<>>
      /\ UNCHANGED <<header, imageFile, pos, serial, skip, nextBlock, starts>>
  BY DEF Crash, CrashWhileWriting, Lost
<1>2. log' \in Seq(Blocks \cup {Torn}) /\ \A i, j \in ReadableAt' : i # j => log'[i] # log'[j]
  <2>1. CASE UNCHANGED log
    BY <2>1 DEF TypeOK, FileFollowed, ReadableAt
  <2>2. CASE CrashWhileWriting
    BY <2>2, TornHidesNone DEF FileFollowed
  <2> QED
    BY <2>1, <2>2 DEF Crash
<1>3. TypeOK'
  <2>1. queue' \in Seq([id : {"PixelBlockSet", "Done", "Failed"}, pid : Blocks])
    BY <1>1
  <2> QED
    BY <1>1, <1>2, <2>1 DEF TypeOK
<1>4. (VerdictsLast /\ BlocksApart /\ BlocksCovered /\ Finished)'
  BY <1>1 DEF VerdictsLast, BlocksApart, BlocksCovered, Finished
<1>5. FileFollowed'
  BY <1>1, <1>2 DEF FileFollowed
<1> QED
  BY <1>3, <1>4, <1>5

-----------------------------------------------------------------------------
(* The theorems.                                                           *)

(* While an image is rendered, the readable records are its blocks.        *)
LEMMA ReadableDuring == ASSUME IInv, phase = "rendering" PROVE Recorded = image
<1>1. /\ pos \in Nat /\ Len(log) \in Nat /\ pos <= Len(log) /\ image = {log[i] : i \in 1..pos}
      /\ \A i \in 1..pos : log[i] # Torn
      /\ pos < Len(log) => log[pos + 1] = Torn
  BY SequencesTyped DEF IInv, TypeOK, FileFollowed
<1>2. ReadableAt = 1..pos
  BY <1>1, ReadableBefore, ReadableIsIn
<1> QED
  BY <1>1, <1>2 DEF Recorded

(* The same of the state after a step.                                     *)
LEMMA ReadableDuringNext == ASSUME IInv', phase' = "rendering" PROVE Recorded' = image'
<1>1. /\ pos' \in Nat /\ Len(log') \in Nat /\ pos' <= Len(log')
      /\ image' = {log'[i] : i \in 1..pos'}
      /\ \A i \in 1..pos' : log'[i] # Torn
      /\ pos' < Len(log') => log'[pos' + 1] = Torn
  BY DEF IInv, TypeOK, FileFollowed
<1>2. ReadableIn(log') = 1..pos'
  BY <1>1, ReadableBefore
<1> QED
  BY <1>1, <1>2 DEF Recorded, ReadableAt, ReadableIn

(* Everything the theorems need is invariant.                              *)
THEOREM FilesStaySound == Spec => []IInv
<1>1. Init => IInv
  BY Initially
<1>2. IInv /\ [Next]_vars => IInv'
  <2> SUFFICES ASSUME IInv, [Next]_vars PROVE IInv'
    OBVIOUS
  <2>1. CASE UNCHANGED vars
    BY <2>1 DEF IInv, TypeOK, VerdictsLast, BlocksApart, BlocksCovered, FileFollowed, Finished,
                vars, disk, back, ReadableAt, Sent, Left
  <2>2. CASE Step
    BY <2>2, ReadKeeps, AppendKeeps, CreateKeeps, DispatchKeeps, CompleteKeeps, VerdictKeeps,
       DrawKeeps, HandleKeeps, WriteImageKeeps DEF Step
  <2>3. CASE \E c \in BOOLEAN : StartRender(c)
    BY <2>3, StartKeeps
  <2>4. CASE Abort \/ Crash \/ CrashWhileWriting
    BY <2>4, VerdictKeeps, CrashKeeps
  <2> QED
    BY <2>1, <2>2, <2>3, <2>4 DEF Next
<1> QED
  BY <1>1, <1>2, PTL DEF Spec

(* ContinueBackup and DrawPixelBlockSet, over any number of crashes: the   *)
(* state has its type, no recorded block is rendered again and none is in  *)
(* the file twice.                                                         *)
THEOREM TraceStaysSound == Spec => []TraceInv
<1>1. IInv => TraceInv
  <2> SUFFICES ASSUME IInv PROVE TraceInv
    OBVIOUS
  <2>1. phase = "rendering" => Recorded = image
    BY ReadableDuring
  <2> QED
    BY <2>1 DEF IInv, TraceInv, RecordedOnce, BlocksApart, FileFollowed
<1> QED
  BY <1>1, FilesStaySound, PTL

(* A render that is Done has every block in the image that is written      *)
(* (vfe.cpp, state kRendering), however often it was interrupted.          *)
THEOREM ImagesAreComplete == Spec => []ImageComplete
<1>1. IInv => ImageComplete
  BY DEF IInv, Finished, ImageComplete
<1> QED
  BY <1>1, FilesStaySound, PTL

(* While it is rendered, an image can be read back from the state file.    *)
THEOREM ImagesAreRecorded == Spec => []ImageIsRecorded
<1>1. IInv => ImageIsRecorded
  BY ReadableDuring DEF ImageIsRecorded
<1> QED
  BY <1>1, FilesStaySound, PTL

(* No step but a start from nothing and the end of the render loses a      *)
(* record: not an abort, a crash, a restart or a write over a torn tail.   *)
THEOREM RecordsStay == Spec => RecordsKept
<1>1. IInv /\ [Next]_vars =>
        [Recorded \subseteq Recorded' \/ phase' \in {"creating", "rendered"}]_vars
  <2> SUFFICES ASSUME IInv, Next, phase' \notin {"creating", "rendered"}
               PROVE  Recorded \subseteq Recorded'
    BY DEF vars
  <2>1. CASE UNCHANGED log
    BY <2>1 DEF Recorded, ReadableAt
  <2>2. CASE DrawPixelBlockSet
    <3>1. phase = "rendering" /\ phase' = "rendering" /\ image \subseteq image'
      BY <2>2 DEF DrawPixelBlockSet, Received
    <3>2. IInv'
      BY <2>2, DrawKeeps
    <3> QED
      BY <3>1, <3>2, ReadableDuring, ReadableDuringNext
  <2>3. CASE CrashWhileWriting
    BY <2>3, TornHidesNone DEF Recorded
  <2> QED
    BY <2>1, <2>2, <2>3 DEF Next, Step, StartRender, OpenState, CreateState, ReadRecord,
       OpenForAppend, WriteHeader, RemoveImage, Dispatch, Complete, SendDone, HandleDone,
       HandleFailed, BeginWriteImage, EndWriteImage, Abort, Crash, disk, front
<1> QED
  BY <1>1, FilesStaySound, PTL DEF Spec, RecordsKept

=============================================================================
