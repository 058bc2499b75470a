--------------------------- MODULE ContinueTrace ---------------------------
(***************************************************************************)
(* Continuing an interrupted render: the state file a RenderFrontend keeps *)
(* beside the image (frontend/renderfrontend.h and .cpp, NewBackup and      *)
(* ContinueBackup; frontend/imagemessagehandler.cpp, which appends to it)   *)
(* and the output file that the virtual front end writes at the end        *)
(* (vfe/vfe.cpp, state kRendering), over crashes and restarts.             *)
(*                                                                         *)
(* One image is rendered, with Output_to_File and Create_Continue_Trace_Log *)
(* on and not to stdout.  Blocks of the last pass are dispatched as in      *)
(* BlockDispatch's simple walk.  A record of the state file is the block   *)
(* it holds; Torn is what a crash leaves of a record.  Messages of the     *)
(* backend reach the front end in the order they were sent.                *)
(***************************************************************************)
EXTENDS Integers, FiniteSets, Sequences

CONSTANTS
  NumBlocks,            \* blocks of the image
  Workers,              \* number of render threads
  MaxStarts             \* bound: renders the user starts

ASSUME SizesAssumption == NumBlocks \in Nat \ {0} /\ Workers \in Nat \ {0} /\ MaxStarts \in Nat

Blocks == 0..(NumBlocks - 1)
Torn   == NumBlocks     \* not a block

VARIABLES
  header, log,          \* the state file: "none", "torn" or "ok", and its records
  imageFile,            \* the output file: "none", "part", "whole" or, when another
                        \* render has been started since, "old"
  phase,                \* of the front end
  image,                \* blocks drawn into vd.image
  imageBackup, pos,     \* is the state file open, and the record to write next
  serial, skip,         \* kPOVAttrib_PixelId and kPOVAttrib_PixelSkipList
  nextBlock, busy,      \* the backend: blocks from nextBlock on are to come
  backend,              \* "off", "tracing", "finished"
  queue,                \* messages from the backend
  starts

disk == <<header, log, imageFile>>
back == <<nextBlock, busy, backend, queue>>
vars == <<disk, phase, image, imageBackup, pos, serial, skip, back, starts>>

(* The records ContinueBackup can read: those before the first torn one.   *)
ReadableAt == {i \in 1..Len(log) : \A j \in 1..i : log[j] # Torn}
Recorded   == {log[i] : i \in ReadableAt}

Init ==
  /\ header = "none" /\ log = <<>> /\ imageFile = "none"
  /\ phase = "down" /\ image = {} /\ imageBackup = FALSE /\ pos = 0
  /\ serial = 0 /\ skip = {}
  /\ nextBlock = 0 /\ busy = {} /\ backend = "off" /\ queue = <<>>
  /\ starts = 0

-----------------------------------------------------------------------------
(* RenderFrontend::StartRender.                                            *)

BackendStarts ==
  /\ backend' = "tracing" /\ busy' = {} /\ queue' = <<>>

(* ContinueBackup opens a state file, whose header is good ...             *)
OpenState ==
  /\ phase' = "reading" /\ image' = {} /\ imageBackup' = FALSE /\ pos' = 0
  /\ serial' = 0 /\ skip' = {}
  /\ UNCHANGED back

(* Variant: every record counts as one of the leading blocks.              *)
CountEvery(pid) == serial' = serial + 1 /\ skip' = skip

(* Variant: blocks out of order are not skipped.                           *)
CountLeading(pid) == serial' = (IF pid > serial THEN serial ELSE serial + 1) /\ skip' = skip

(* How a record counts: as one of the leading blocks or as one to skip.    *)
Count(pid) == IF pid > serial THEN skip' = skip \cup {pid} /\ serial' = serial
                              ELSE serial' = serial + 1 /\ skip' = skip

MoreToRead == pos < Len(log) /\ log[pos + 1] # Torn

(* ... draws and counts its records, one by one ...                        *)
ReadRecord ==
  /\ phase = "reading" /\ MoreToRead
  /\ Count(log[pos + 1])
  /\ image' = image \cup {log[pos + 1]} /\ pos' = pos + 1
  /\ UNCHANGED <<disk, phase, imageBackup, back, starts>>

(* Variant: a state file opened for append is written at its end.          *)
EndOfFile == Len(log)

(* Variant: it is written from its beginning.                              *)
StartOfFile == 0

(* Where the state file is written next: over what could not be read.      *)
EndOfReadable == pos

(* ... and opens it to be continued; the backend is told where to start.   *)
OpenForAppend ==
  /\ phase = "reading" /\ ~MoreToRead
  /\ imageBackup' = TRUE /\ pos' = EndOfReadable
  /\ nextBlock' = serial
  /\ phase' = "rendering" /\ BackendStarts
  /\ UNCHANGED <<disk, image, serial, skip, starts>>

(* NewBackup opens the state file for writing ...                          *)
CreateState ==
  /\ header' = "torn" /\ log' = <<>>
  /\ phase' = "creating" /\ image' = {} /\ imageBackup' = TRUE /\ pos' = 0
  /\ serial' = 0 /\ skip' = {}
  /\ UNCHANGED back

(* The user starts the render again, from nothing or to be continued.      *)
StartRender(continue) ==
  /\ phase \in {"down", "saved", "skipped"} /\ starts < MaxStarts
  /\ starts' = starts + 1
  /\ IF continue /\ imageFile # "none"
     THEN /\ phase' = "skipped"               \* kImageAlreadyRenderedErr
          /\ UNCHANGED <<disk, image, imageBackup, pos, serial, skip, back>>
     ELSE IF continue /\ header = "ok"
     THEN OpenState /\ UNCHANGED disk
     ELSE /\ CreateState
          /\ imageFile' = IF imageFile = "whole" THEN "old" ELSE imageFile

(* ... writes and flushes the header ...                                   *)
WriteHeader ==
  /\ phase = "creating"
  /\ header' = "ok" /\ phase' = "clearing"
  /\ UNCHANGED <<log, imageFile, image, imageBackup, pos, serial, skip, back, starts>>

(* ... removes the output file, and the backend is told to start.          *)
RemoveImage ==
  /\ phase = "clearing"
  /\ imageFile' = "none" /\ phase' = "rendering" /\ nextBlock' = 0
  /\ BackendStarts
  /\ UNCHANGED <<header, log, image, imageBackup, pos, serial, skip, starts>>

-----------------------------------------------------------------------------
(* The backend.                                                            *)
PixelBlockSet(b) == [id |-> "PixelBlockSet", pid |-> b]
Verdict(v)       == [id |-> v, pid |-> 0]

front == <<disk, phase, image, imageBackup, pos, serial, skip, starts>>
Left  == {b \in Blocks : b >= nextBlock} \ skip

Dispatch ==
  /\ backend = "tracing" /\ Cardinality(busy) < Workers
  /\ \E b \in Left : /\ \A c \in Left : b <= c
                     /\ busy' = busy \cup {b} /\ nextBlock' = b + 1
  /\ UNCHANGED <<front, backend, queue>>

(* A final block is sent, with its serial as PixelId.                      *)
Complete(b) ==
  /\ b \in busy
  /\ busy' = busy \ {b} /\ queue' = Append(queue, PixelBlockSet(b))
  /\ UNCHANGED <<front, nextBlock, backend>>

(* The task queue reaches the Done message behind the last sync.           *)
SendDone ==
  /\ backend = "tracing" /\ Left = {} /\ busy = {}
  /\ backend' = "finished" /\ queue' = Append(queue, Verdict("Done"))
  /\ UNCHANGED <<front, nextBlock, busy>>

(* The user stops the render, or it fails: what is being traced is lost.   *)
Abort ==
  /\ backend = "tracing"
  /\ backend' = "finished" /\ busy' = {} /\ queue' = Append(queue, Verdict("Failed"))
  /\ UNCHANGED <<front, nextBlock>>

-----------------------------------------------------------------------------
(* The front end handles the messages.                                     *)

Received(id) == phase = "rendering" /\ queue # <<>> /\ Head(queue).id = id

(* What is behind the new record in the file, if anything, is not readable. *)
Written(r) == {Append(SubSeq(log, 1, pos), r)} \cup
              IF Len(log) > pos THEN {SubSeq(log, 1, pos) \o <<r, Torn>>} ELSE {}

(* DrawPixelBlockSet: the block is drawn, written and flushed.             *)
DrawPixelBlockSet ==
  /\ Received("PixelBlockSet")
  /\ image' = image \cup {Head(queue).pid}
  /\ log' \in Written(Head(queue).pid) /\ pos' = pos + 1
  /\ queue' = Tail(queue)
  /\ UNCHANGED <<header, imageFile, phase, imageBackup, serial, skip, nextBlock, busy,
                 backend, starts>>

(* HandleRenderMessage: the state file is closed and removed.              *)
HandleDone ==
  /\ Received("Done")
  /\ phase' = "rendered" /\ imageBackup' = FALSE
  /\ header' = "none" /\ log' = <<>> /\ pos' = 0
  /\ queue' = Tail(queue) /\ backend' = "off"
  /\ UNCHANGED <<imageFile, image, serial, skip, nextBlock, busy, starts>>

(* HandleRenderMessage: the state file is closed, and the session ends.    *)
HandleFailed ==
  /\ Received("Failed")
  /\ phase' = "down" /\ imageBackup' = FALSE
  /\ queue' = Tail(queue) /\ backend' = "off"
  /\ UNCHANGED <<disk, image, pos, serial, skip, nextBlock, busy, starts>>

(* VirtualFrontEnd::Process: WriteImage, with a first byte in the file, and *)
(* done (an empty file counts as none, GetFileLength() <= 0).              *)
BeginWriteImage ==
  /\ phase = "rendered"
  /\ phase' = "writing" /\ imageFile' = "part"
  /\ UNCHANGED <<header, log, image, imageBackup, pos, serial, skip, back, starts>>

EndWriteImage ==
  /\ phase = "writing"
  /\ phase' = "saved" /\ imageFile' = "whole"
  /\ UNCHANGED <<header, log, image, imageBackup, pos, serial, skip, back, starts>>

-----------------------------------------------------------------------------
(* The program is killed: what is not on disk is lost.  A record being     *)
(* written is torn.                                                        *)
Lost ==
  /\ phase' = "down" /\ imageBackup' = FALSE /\ image' = {}
  /\ backend' = "off" /\ busy' = {} /\ queue' = <<>>
  /\ UNCHANGED <<header, imageFile, pos, serial, skip, nextBlock, starts>>

Crash ==
  /\ phase \notin {"down", "saved", "skipped"}
  /\ Lost /\ UNCHANGED log

CrashWhileWriting ==
  /\ Received("PixelBlockSet")
  /\ Lost /\ log' = Append(SubSeq(log, 1, pos), Torn)

Step == \/ ReadRecord \/ OpenForAppend \/ WriteHeader \/ RemoveImage
        \/ Dispatch \/ (\E b \in Blocks : Complete(b)) \/ SendDone
        \/ DrawPixelBlockSet \/ HandleDone \/ HandleFailed
        \/ BeginWriteImage \/ EndWriteImage

Next == Step \/ (\E c \in BOOLEAN : StartRender(c)) \/ Abort \/ Crash \/ CrashWhileWriting

Spec == Init /\ [][Next]_vars

-----------------------------------------------------------------------------
(* Properties.                                                             *)

(* The state has the shape the code gives it; the state file is written at *)
(* its end or before it, and only while it is there.                       *)
TypeOK ==
  /\ header \in {"none", "torn", "ok"} /\ log \in Seq(Blocks \cup {Torn})
  /\ imageFile \in {"none", "part", "whole", "old"}
  /\ phase \in {"down", "reading", "creating", "clearing", "rendering", "rendered", "writing",
                "saved", "skipped"}
  /\ image \subseteq Blocks /\ imageBackup \in BOOLEAN
  /\ pos \in Nat /\ (imageBackup => pos <= Len(log) /\ header # "none")
  /\ serial \in 0..NumBlocks /\ skip \subseteq Blocks
  /\ nextBlock \in 0..NumBlocks /\ busy \subseteq Blocks
  /\ backend \in {"off", "tracing", "finished"}
  /\ queue \in Seq([id : {"PixelBlockSet", "Done", "Failed"}, pid : Blocks])
  /\ starts \in 0..MaxStarts

(* However often the render was interrupted, a render that is Done has     *)
(* every block in the image that is then written.                          *)
ImageComplete == phase \in {"rendered", "writing", "saved"} => image = Blocks

(* A block the state file holds is not rendered again (renderfrontend.cpp  *)
(* 697), and none is in the file twice, which would make ContinueBackup    *)
(* count a block that is not there.                                        *)
RecordedOnce ==
  /\ phase = "rendering" => Recorded \cap (busy \cup Left) = {}
  /\ \A i, j \in ReadableAt : i # j => log[i] # log[j]

(* The state has its type, and the state file counts right.                *)
TraceInv == TypeOK /\ RecordedOnce

(* While an image is rendered, exactly its blocks can be read back from    *)
(* the state file, also when the file was torn before.                     *)
ImageIsRecorded == phase = "rendering" => image = Recorded

(* A crash, an abort or a restart that continues never loses a recorded    *)
(* block: only a start from nothing and the end of the render do.          *)
RecordsKept ==
  [][ Recorded \subseteq Recorded' \/ phase' \in {"creating", "rendered"} ]_vars

=============================================================================
