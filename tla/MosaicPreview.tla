--------------------------- MODULE MosaicPreview ---------------------------
(***************************************************************************)
(* The passes of a render with mosaic preview: View::StartRender           *)
(* (backend/scene/view.cpp) queues passes of halving pixel size,           *)
(* TraceTask::SimpleSamplingM0P (backend/render/tracetask.cpp) traces one   *)
(* block of a pass, and ImageMessageHandler::DrawPixelSet                  *)
(* (frontend/imagemessagehandler.cpp) draws it on the display and, when    *)
(* the pass is a final one, into the image.                                *)
(*                                                                         *)
(* Blocks of one pass are drawn in the order in which the threads finish   *)
(* them, so in any order; passes follow each other (BlockDispatch).  The   *)
(* colour of a pixel is where it was traced, <<x, y>>.                     *)
(***************************************************************************)
EXTENDS Integers, FiniteSets

CONSTANTS
  Right, Bottom,                \* of the render area
  Corners,                      \* where it may begin: pairs <<left, top>>
  BlockSizes,                   \* block sizes a user may ask for; at least 4 is used
  StartSizes, EndSizes          \* pixel sizes, which are made powers of two

PowersOfTwo == {1, 2, 4, 8, 16, 32, 64}

ASSUME AreaAssumption == /\ Right \in Nat /\ Bottom \in Nat
                         /\ Corners \subseteq (0..Right) \X (0..Bottom)
ASSUME BlockAssumption == BlockSizes \subseteq Nat \ 0..3
ASSUME PreviewAssumption == StartSizes \cup EndSizes \subseteq PowersOfTwo

VARIABLES
  left, top,    \* of the render area
  blockSize, previewstartsize, previewendsize, tracingmethod,
  step,         \* pixel size of the pass, 0 for the full pass without preview
  todo,         \* blocks of the pass not yet drawn
  display,      \* per pixel: the colour shown, NoColour before the first pass
  image,        \* pixels of vd.image that were set
  complete,     \* blocks sent with a PixelId
  traced        \* history: how often each pixel was traced

given == <<left, top, blockSize, previewstartsize, previewendsize, tracingmethod>>
vars  == <<given, step, todo, display, image, complete, traced>>

Pixels   == (left..Right) \X (top..Bottom)
NoColour == <<-1, -1>>

(* Blocks are named by their first pixel.                                  *)
Blocks == {p \in Pixels : (p[1] - left) % blockSize = 0 /\ (p[2] - top) % blockSize = 0}
Rect(b) == {p \in Pixels : p[1] \in b[1]..(b[1] + blockSize - 1)
                             /\ p[2] \in b[2]..(b[2] + blockSize - 1)}

(* Without anti-aliasing a last preview of size 2 is made the final pass.  *)
EndSize(end, method) == IF end = 2 /\ method = 0 THEN 1 ELSE end

FirstStep(start) == IF start > 1 THEN start ELSE 0

(* A block is no larger than the area.                                     *)
SizeUsed(n) == LET w == Right - left + 1
                   h == Bottom - top + 1
               IN  IF n <= w \/ n <= h THEN n ELSE IF w > h THEN w ELSE h

Init ==
  /\ \E c \in Corners : left = c[1] /\ top = c[2]
  /\ \E n \in BlockSizes : blockSize = SizeUsed(n)
  /\ previewstartsize \in StartSizes /\ tracingmethod \in {0, 1}
  /\ \E end \in {e \in EndSizes : e <= previewstartsize} :
       previewendsize = EndSize(end, tracingmethod)
  /\ step = FirstStep(previewstartsize)
  /\ todo = Blocks
  /\ display = [p \in Pixels |-> NoColour] /\ image = {} /\ complete = {}
  /\ traced = [p \in Pixels |-> 0]

-----------------------------------------------------------------------------
IsPreview == step > 0

(* Variant: corners are those of this pass, not of the one before it.      *)
OwnCorner(p) == step < previewstartsize /\ p[1] % step = 0 /\ p[2] % step = 0

(* What the pass before, of twice the size, has traced at this place.      *)
SkipCorner(p) == step < previewstartsize /\ p[1] % (2 * step) = 0 /\ p[2] % (2 * step) = 0

(* Variant: the corners of the pass before are traced again.               *)
PositionsAll(b) == {p \in Rect(b) : (p[1] - b[1]) % step = 0 /\ (p[2] - b[2]) % step = 0}

Positions(b) ==
  {p \in Rect(b) : (p[1] - b[1]) % step = 0 /\ (p[2] - b[2]) % step = 0 /\ ~SkipCorner(p)}

(* The pass whose blocks are stored and get a PixelId.                     *)
IsFinal == ~IsPreview \/ (step = 1 /\ tracingmethod = 0)

(* A traced pixel fills a square from its position, over the edge of its   *)
(* block if need be; the squares of one block do not overlap.              *)
Fill(ps) ==
  [q \in Pixels |->
     LET over == {p \in ps : q[1] \in p[1]..(p[1] + step - 1) /\ q[2] \in p[2]..(p[2] + step - 1)}
     IN  IF over = {} THEN display[q] ELSE CHOOSE p \in over : TRUE]

(* SimpleSamplingM0P; a block with no position to trace is not sent.       *)
DrawPreview(b) ==
  /\ IsPreview /\ b \in todo
  /\ todo' = todo \ {b}
  /\ traced' = [p \in Pixels |-> IF p \in Positions(b) THEN traced[p] + 1 ELSE traced[p]]
  /\ display' = Fill(Positions(b))
  /\ IF IsFinal /\ Positions(b) # {}
     THEN image' = image \cup Positions(b) /\ complete' = complete \cup {b}
     ELSE UNCHANGED <<image, complete>>
  /\ UNCHANGED <<given, step>>

(* The other sampling methods trace every pixel of the block.              *)
DrawFull(b) ==
  /\ ~IsPreview /\ b \in todo
  /\ todo' = todo \ {b}
  /\ traced' = [p \in Pixels |-> IF p \in Rect(b) THEN traced[p] + 1 ELSE traced[p]]
  /\ display' = [p \in Pixels |-> IF p \in Rect(b) THEN p ELSE display[p]]
  /\ image' = image \cup Rect(b) /\ complete' = complete \cup {b}
  /\ UNCHANGED <<given, step>>

(* The passes StartRender has queued.                                      *)
HasNext ==
  IsPreview /\ (step \div 2 >= previewendsize \/ previewendsize > 1 \/ tracingmethod > 0)

NextPass ==
  /\ todo = {} /\ HasNext
  /\ step' = IF step \div 2 >= previewendsize THEN step \div 2 ELSE 0
  /\ todo' = Blocks
  /\ UNCHANGED <<given, display, image, complete, traced>>

Next == (\E b \in Blocks : DrawPreview(b) \/ DrawFull(b)) \/ NextPass

Spec == Init /\ [][Next]_vars

-----------------------------------------------------------------------------
(* Properties.                                                             *)

Done == todo = {} /\ ~HasNext

(* Positions are counted from a block's corner and left out by absolute    *)
(* coordinates: the two are one grid when blocks begin at multiples of the *)
(* first pixel size.  Otherwise pixels are left out that no pass has       *)
(* traced, or squares of one block cover pixels of another.                *)
OneGrid == \A b \in Blocks : b[1] % previewstartsize = 0 /\ b[2] % previewstartsize = 0

(* The state has the shape the code gives it; a pass has a size that       *)
(* halves from previewstartsize to previewendsize, or none.                *)
TypeOK ==
  /\ <<left, top>> \in Corners /\ blockSize \in Nat \ {0}
  /\ previewstartsize \in StartSizes /\ previewendsize \in EndSizes \cup {1}
  /\ tracingmethod \in {0, 1}
  /\ step \in {0} \cup {s \in PowersOfTwo :
                            previewendsize <= s /\ s <= previewstartsize}
  /\ (step = 0 \/ previewstartsize > 1)
  /\ todo \subseteq Blocks
  /\ display \in [Pixels -> Pixels \cup {NoColour}]
  /\ image \subseteq Pixels /\ complete \subseteq Blocks /\ traced \in [Pixels -> Nat]

(* When the last pass is over the display shows every pixel in its own     *)
(* colour, whatever the order in which blocks were drawn, although corners *)
(* are left out and squares reach over the edges of the image.             *)
DisplayExact == (Done /\ OneGrid) => \A p \in Pixels : display[p] = p

(* view.cpp:719 "optimisation to render all pixels only once": without     *)
(* anti-aliasing and on one grid no pixel is traced twice, and at the end  *)
(* every one was.                                                          *)
TracedOnce ==
  (tracingmethod = 0 /\ previewendsize = 1 /\ OneGrid) =>
    \A p \in Pixels : traced[p] <= 1 /\ (Done => traced[p] = 1)

(* The state has its type, and pixels are traced once.                     *)
PreviewInv == TypeOK /\ TracedOnce

=============================================================================
