------------------------ MODULE MosaicPreviewProofs ------------------------
(***************************************************************************)
(* Proofs about MosaicPreview for render areas and blocks of any size and  *)
(* all pixel sizes the code allows.                                        *)
(***************************************************************************)
EXTENDS MosaicPreview, TLAPS

(* Where a pass of pixel size g traces, when all blocks are on one grid.   *)
OnGrid(p, g) == p[1] % g = 0 /\ p[2] % g = 0

(* The block of a pixel has been drawn in this pass.                       *)
BlockDrawn(p) == \A b \in todo : p \notin Rect(b)

(* A pixel shows itself from the pass of the largest grid it lies on.      *)
Reached(p) ==
  \/ IsPreview /\ step < previewstartsize /\ OnGrid(p, 2 * step)
  \/ IsPreview /\ OnGrid(p, step) /\ BlockDrawn(p)
  \/ ~IsPreview /\ BlockDrawn(p)

ReachedShown == OneGrid => \A p \in Pixels : Reached(p) => display[p] = p

(* No pixel is traced before it is reached, and none again.                *)
ReachedTraced ==
  (tracingmethod = 0 /\ previewendsize = 1 /\ OneGrid) =>
    /\ \A p \in Pixels : traced[p] = IF Reached(p) THEN 1 ELSE 0
    /\ step = 0 => previewstartsize = 1

IInv == TypeOK /\ ReachedShown /\ ReachedTraced

-----------------------------------------------------------------------------
(* Grids.                                                                  *)

LEMMA SubGrid ==
  ASSUME NEW s \in PowersOfTwo, NEW g \in PowersOfTwo, g <= s, NEW b \in Nat, b % s = 0
  PROVE  b % g = 0
BY DEF PowersOfTwo

LEMMA HalfGrid ==
  ASSUME NEW g \in PowersOfTwo, NEW x \in Nat, x % (2 * g) = 0
  PROVE  x % g = 0
BY DEF PowersOfTwo

(* Counting from a corner on the grid is counting from 0.                  *)
LEMMA SameGrid ==
  ASSUME NEW g \in PowersOfTwo, NEW b \in Nat, NEW x \in Nat, b % g = 0, x >= b
  PROVE  (x - b) % g = 0 <=> x % g = 0
BY DEF PowersOfTwo

(* A square that begins on the grid has no other grid point in it.         *)
LEMMA OnePoint ==
  ASSUME NEW g \in PowersOfTwo, NEW x \in Nat, NEW y \in Nat, x % g = 0, y % g = 0,
         x \in y..(y + g - 1)
  PROVE  x = y
BY DEF PowersOfTwo

(* SetNextRectangle halves the size exactly.                               *)
LEMMA Halves ==
  ASSUME NEW g \in PowersOfTwo
  PROVE  /\ g > 1 => g \div 2 \in PowersOfTwo /\ 2 * (g \div 2) = g /\ g \div 2 < g
         /\ g \in Nat /\ g >= 1 /\ (g \div 2 < 1 => g = 1)
BY DEF PowersOfTwo

(* A smaller power of two is at most half as large.                        *)
LEMMA Doubles ==
  ASSUME NEW g \in PowersOfTwo, NEW s \in PowersOfTwo, g < s
  PROVE  2 * g \in PowersOfTwo /\ 2 * g <= s
BY DEF PowersOfTwo

(* Every x lies behind a multiple of the block size, and only behind one.  *)
LEMMA BlockBegins ==
  ASSUME NEW x \in Nat, NEW n \in Nat \ {0}
  PROVE  (x - (x % n)) % n = 0 /\ x % n \in 0..(n - 1) /\ x % n <= x
<1>1. x = (n * (x \div n)) + (x % n)
  OBVIOUS
<1>2. x \div n \in Nat /\ x % n \in 0..(n - 1)
  OBVIOUS
<1>3. \A k \in Nat : (n * k) % n = 0 /\ n * k >= 0
  OBVIOUS
<1>4. x - (x % n) = n * (x \div n)
  BY <1>1, <1>2
<1> QED
  BY <1>2, <1>3, <1>4

LEMMA BlocksMeet ==
  ASSUME NEW x \in Nat, NEW y \in Nat, NEW n \in Nat \ {0},
         x % n = 0, y % n = 0, x < y + n, y < x + n
  PROVE  x = y
BY SMTT(30)

-----------------------------------------------------------------------------
(* Blocks.                                                                 *)

LEMMA SizesTyped ==
  ASSUME TypeOK
  PROVE  /\ left \in Nat /\ top \in Nat /\ blockSize \in Nat /\ blockSize > 0
         /\ previewstartsize \in PowersOfTwo /\ previewendsize \in PowersOfTwo
         /\ step = 0 \/ (step \in PowersOfTwo /\ step > 0 /\ step <= previewstartsize
                         /\ previewendsize <= step)
         /\ Pixels \subseteq Nat \X Nat
         /\ \A p \in Pixels : p[1] \in Nat /\ p[2] \in Nat /\ p[1] >= left /\ p[2] >= top
         /\ NoColour \notin Pixels
         /\ Blocks \subseteq Pixels
<1>1. left \in Nat /\ top \in Nat
  BY AreaAssumption DEF TypeOK
<1>2. previewstartsize \in PowersOfTwo /\ previewendsize \in PowersOfTwo
  BY PreviewAssumption DEF TypeOK, PowersOfTwo
<1>3. step = 0 \/ (step \in PowersOfTwo /\ step > 0 /\ step <= previewstartsize
                   /\ previewendsize <= step)
  BY DEF TypeOK, PowersOfTwo
<1>4. /\ Pixels \subseteq Nat \X Nat
      /\ \A p \in Pixels : p[1] \in Nat /\ p[2] \in Nat /\ p[1] >= left /\ p[2] >= top
      /\ NoColour \notin Pixels
  BY <1>1, AreaAssumption DEF Pixels, NoColour
<1>5. Blocks \subseteq Pixels
  BY DEF Blocks
<1> QED
  BY <1>1, <1>2, <1>3, <1>4, <1>5 DEF TypeOK

(* GetNextRectangle: the blocks' rectangles are the area ...               *)
LEMMA InSomeBlock ==
  ASSUME TypeOK, NEW p \in Pixels
  PROVE  \E b \in Blocks : p \in Rect(b)
<1> DEFINE x == (p[1] - left) % blockSize
           y == (p[2] - top) % blockSize
           b == <<p[1] - x, p[2] - y>>
<1>1. /\ p[1] \in left..Right /\ p[2] \in top..Bottom
      /\ left \in Nat /\ top \in Nat /\ blockSize \in Nat \ {0}
      /\ Right \in Nat /\ Bottom \in Nat
  BY SizesTyped, AreaAssumption DEF Pixels
<1>2. p[1] - left \in Nat /\ p[2] - top \in Nat
  BY <1>1
<1>3. /\ x \in 0..(blockSize - 1) /\ ((p[1] - left) - x) % blockSize = 0
      /\ y \in 0..(blockSize - 1) /\ ((p[2] - top) - y) % blockSize = 0
  BY <1>1, <1>2, BlockBegins
<1>4. x <= p[1] - left /\ y <= p[2] - top
  BY <1>1, <1>2, BlockBegins
<1> HIDE DEF x, y
<1>5. b \in Pixels /\ b[1] - left = (p[1] - left) - x /\ b[2] - top = (p[2] - top) - y
  BY <1>1, <1>3, <1>4 DEF Pixels
<1>6. b \in Blocks
  BY <1>3, <1>5 DEF Blocks
<1>7. p \in Rect(b)
  BY <1>1, <1>3 DEF Rect
<1> QED
  BY <1>6, <1>7

(* ... and do not overlap.                                                 *)
LEMMA InOneBlock ==
  ASSUME TypeOK, NEW p \in Pixels, NEW b \in Blocks, NEW c \in Blocks, p \in Rect(b), p \in Rect(c)
  PROVE  b = c
<1>1. /\ left \in Nat /\ top \in Nat /\ blockSize \in Nat \ {0}
      /\ p[1] \in Nat /\ p[2] \in Nat
  BY SizesTyped
<1>2. /\ b \in Nat \X Nat /\ b[1] >= left /\ b[2] >= top
      /\ c \in Nat \X Nat /\ c[1] >= left /\ c[2] >= top
  BY SizesTyped
<1>3. /\ (b[1] - left) % blockSize = 0 /\ (c[1] - left) % blockSize = 0
      /\ (b[2] - top) % blockSize = 0 /\ (c[2] - top) % blockSize = 0
  BY DEF Blocks
<1>4. /\ p[1] \in b[1]..(b[1] + blockSize - 1) /\ p[2] \in b[2]..(b[2] + blockSize - 1)
      /\ p[1] \in c[1]..(c[1] + blockSize - 1) /\ p[2] \in c[2]..(c[2] + blockSize - 1)
  BY DEF Rect
<1>5. b[1] = c[1]
  <2> DEFINE x == b[1] - left
             y == c[1] - left
  <2>1. x \in Nat /\ y \in Nat /\ x < y + blockSize /\ y < x + blockSize
    BY <1>1, <1>2, <1>4
  <2>2. x % blockSize = 0 /\ y % blockSize = 0
    BY <1>3
  <2> HIDE DEF x, y
  <2>3. x = y
    BY <1>1, <2>1, <2>2, BlocksMeet
  <2> QED
    BY <1>1, <1>2, <2>3 DEF x, y
<1>6. b[2] = c[2]
  <2> DEFINE x == b[2] - top
             y == c[2] - top
  <2>1. x \in Nat /\ y \in Nat /\ x < y + blockSize /\ y < x + blockSize
    BY <1>1, <1>2, <1>4
  <2>2. x % blockSize = 0 /\ y % blockSize = 0
    BY <1>3
  <2> HIDE DEF x, y
  <2>3. x = y
    BY <1>1, <2>1, <2>2, BlocksMeet
  <2> QED
    BY <1>1, <1>2, <2>3 DEF x, y
<1> QED
  BY <1>2, <1>5, <1>6

-----------------------------------------------------------------------------
(* One pass, when all blocks are on one grid.                              *)

(* What a pass traces of a block.                                          *)
LEMMA PositionsOnGrid ==
  ASSUME TypeOK, OneGrid, IsPreview, NEW b \in Blocks, NEW p \in Pixels
  PROVE  p \in Positions(b) <=> p \in Rect(b) /\ OnGrid(p, step) /\ ~SkipCorner(p)
<1>1. /\ step \in PowersOfTwo /\ previewstartsize \in PowersOfTwo /\ step <= previewstartsize
      /\ p[1] \in Nat /\ p[2] \in Nat /\ b[1] \in Nat /\ b[2] \in Nat
  BY SizesTyped DEF IsPreview
<1>2. b[1] % step = 0 /\ b[2] % step = 0
  BY <1>1, SubGrid DEF OneGrid
<1>3. ASSUME p \in Rect(b)
      PROVE  /\ (p[1] - b[1]) % step = 0 <=> p[1] % step = 0
             /\ (p[2] - b[2]) % step = 0 <=> p[2] % step = 0
  <2>1. p[1] >= b[1] /\ p[2] >= b[2]
    BY <1>1, <1>3, SizesTyped DEF Rect
  <2> QED
    BY <1>1, <1>2, <2>1, SameGrid
<1> QED
  BY <1>3 DEF Positions, OnGrid

(* The grid of the pass before is part of this one's.                      *)
LEMMA GridsNest ==
  ASSUME TypeOK, IsPreview, NEW p \in Pixels, OnGrid(p, 2 * step)
  PROVE  OnGrid(p, step)
<1>1. step \in PowersOfTwo /\ p[1] \in Nat /\ p[2] \in Nat
  BY SizesTyped DEF IsPreview
<1> QED
  BY <1>1, HalfGrid DEF OnGrid

(* DrawPixelSet: of the pixels on the grid a block changes its own only,   *)
(* and gives those their own colour.                                       *)
LEMMA FillsOwn ==
  ASSUME TypeOK, OneGrid, IsPreview, NEW b \in Blocks, NEW p \in Pixels, OnGrid(p, step)
  PROVE  Fill(Positions(b))[p] = IF p \in Positions(b) THEN p ELSE display[p]
<1>1. /\ step \in PowersOfTwo /\ step \in Nat /\ step > 0
      /\ p \in Nat \X Nat /\ p[1] \in Nat /\ p[2] \in Nat
  BY SizesTyped, Halves DEF IsPreview
<1> DEFINE over == {q \in Positions(b) : p[1] \in q[1]..(q[1] + step - 1)
                                        /\ p[2] \in q[2]..(q[2] + step - 1)}
<1>2. ASSUME NEW q \in over PROVE q = p
  <2>1. q \in Pixels /\ q \in Positions(b)
    BY DEF Positions, Rect
  <2>2. OnGrid(q, step)
    BY <2>1, PositionsOnGrid
  <2>3. q \in Nat \X Nat /\ q[1] \in Nat /\ q[2] \in Nat
    BY <2>1, SizesTyped
  <2>4. p[1] = q[1] /\ p[2] = q[2]
    BY <1>1, <2>2, <2>3, OnePoint DEF OnGrid
  <2> QED
    BY <1>1, <2>3, <2>4
<1>3. p \in Positions(b) => p \in over
  BY <1>1
<1>4. over \subseteq Positions(b)
  OBVIOUS
<1>5. Fill(Positions(b))[p] = IF over = {} THEN display[p] ELSE CHOOSE q \in over : TRUE
  BY DEF Fill
<1> HIDE DEF over
<1>6. CASE p \in Positions(b)
  <2>1. over # {} /\ (CHOOSE q \in over : TRUE) \in over
    BY <1>3, <1>6
  <2> QED
    BY <1>2, <1>5, <1>6, <2>1
<1>7. CASE p \notin Positions(b)
  BY <1>2, <1>4, <1>5, <1>7
<1> QED
  BY <1>6, <1>7

-----------------------------------------------------------------------------
(* The steps.                                                              *)

LEMMA Initially == Init => IInv
<1> SUFFICES ASSUME Init PROVE IInv
  OBVIOUS
<1> USE DEF Init
<1>1. TypeOK
  <2>1. <<left, top>> \in Corners
    BY AreaAssumption
  <2>2. blockSize \in Nat \ {0}
    <3>1. /\ left \in 0..Right /\ top \in 0..Bottom /\ Right \in Nat /\ Bottom \in Nat
      BY <2>1, AreaAssumption
    <3>2. PICK n \in BlockSizes : blockSize = SizeUsed(n)
      OBVIOUS
    <3>3. n \in Nat /\ n > 0
      BY BlockAssumption
    <3> QED
      BY <3>1, <3>2, <3>3 DEF SizeUsed
  <2>3. previewendsize \in EndSizes \cup {1}
    BY DEF EndSize
  <2>4. /\ previewstartsize \in PowersOfTwo /\ previewendsize \in PowersOfTwo
        /\ previewendsize <= previewstartsize
    BY PreviewAssumption DEF EndSize, PowersOfTwo
  <2>5. /\ step \in {0} \cup {s \in PowersOfTwo : previewendsize <= s /\ s <= previewstartsize}
        /\ step = 0 \/ previewstartsize > 1
    BY <2>4 DEF FirstStep, PowersOfTwo
  <2> QED
    BY <2>1, <2>2, <2>3, <2>5 DEF TypeOK
<1>2. \A p \in Pixels : ~Reached(p)
  <2>1. ~(step < previewstartsize) \/ ~IsPreview
    BY PreviewAssumption DEF FirstStep, IsPreview, PowersOfTwo
  <2>2. \A p \in Pixels : ~BlockDrawn(p)
    BY <1>1, InSomeBlock DEF BlockDrawn
  <2> QED
    BY <2>1, <2>2 DEF Reached
<1>3. step = 0 => previewstartsize = 1
  BY PreviewAssumption DEF FirstStep, PowersOfTwo
<1> QED
  BY <1>1, <1>2, <1>3 DEF IInv, ReachedShown, ReachedTraced

(* Nothing but the block that is drawn is drawn.                           *)
LEMMA DrawnNext ==
  ASSUME TypeOK, UNCHANGED given, NEW b \in Blocks, b \in todo, todo' = todo \ {b},
         NEW p \in Pixels
  PROVE  /\ p \in Rect(b) => ~BlockDrawn(p) /\ BlockDrawn(p)'
         /\ p \notin Rect(b) => (BlockDrawn(p)' <=> BlockDrawn(p))
<1>1. \A c : Rect(c)' = Rect(c)
  BY DEF Rect, Pixels, given
<1>2. todo \subseteq Blocks
  BY DEF TypeOK
<1>3. CASE p \in Rect(b)
  <2>1. \A c \in todo' : p \notin Rect(c)'
    BY <1>1, <1>2, <1>3, InOneBlock
  <2> QED
    BY <1>3, <2>1 DEF BlockDrawn
<1>4. CASE p \notin Rect(b)
  BY <1>1, <1>4 DEF BlockDrawn
<1> QED
  BY <1>3, <1>4

LEMMA PreviewKeeps == ASSUME IInv, NEW b \in Blocks, DrawPreview(b) PROVE IInv'
<1> USE DEF IInv
<1>1. /\ IsPreview /\ b \in todo /\ todo' = todo \ {b} /\ UNCHANGED <<given, step>>
      /\ traced' = [p \in Pixels |-> IF p \in Positions(b) THEN traced[p] + 1 ELSE traced[p]]
      /\ display' = Fill(Positions(b))
      /\ image' \subseteq image \cup Positions(b) /\ complete' \subseteq complete \cup {b}
  BY DEF DrawPreview
<1>2. /\ Pixels' = Pixels /\ Blocks' = Blocks /\ OneGrid' = OneGrid /\ IsPreview' = IsPreview
      /\ UNCHANGED <<left, top, blockSize, previewstartsize, previewendsize, tracingmethod>>
  BY <1>1 DEF Pixels, Blocks, OneGrid, IsPreview, given
<1>3. Positions(b) \subseteq Pixels
  BY DEF Positions, Rect
<1>4. TypeOK'
  <2>1. display' \in [Pixels -> Pixels \cup {NoColour}]
    <3>1. \A q \in Pixels : \A ps \in SUBSET Positions(b) :
            (IF ps = {} THEN display[q] ELSE CHOOSE p \in ps : TRUE) \in Pixels \cup {NoColour}
      BY <1>3 DEF TypeOK
    <3> QED
      BY <1>1, <3>1 DEF Fill
  <2>2. traced' \in [Pixels -> Nat]
    BY <1>1 DEF TypeOK
  <2> QED
    BY <1>1, <1>2, <1>3, <2>1, <2>2 DEF TypeOK
<1>5. SUFFICES ASSUME OneGrid PROVE ReachedShown' /\ ReachedTraced'
  BY <1>2, <1>4 DEF ReachedShown, ReachedTraced
<1>6. ASSUME NEW p \in Pixels
      PROVE  /\ Reached(p)' => display'[p] = p
             /\ (tracingmethod = 0 /\ previewendsize = 1) =>
                  traced'[p] = IF Reached(p)' THEN 1 ELSE 0
  <2>1. /\ p \in Positions(b) <=> p \in Rect(b) /\ OnGrid(p, step) /\ ~SkipCorner(p)
        /\ OnGrid(p, 2 * step) => OnGrid(p, step)
        /\ SkipCorner(p) <=> step < previewstartsize /\ OnGrid(p, 2 * step)
    BY <1>1, <1>5, PositionsOnGrid, GridsNest DEF SkipCorner, OnGrid
  <2>2. /\ p \in Rect(b) => ~BlockDrawn(p) /\ BlockDrawn(p)'
        /\ p \notin Rect(b) => (BlockDrawn(p)' <=> BlockDrawn(p))
    BY <1>1, DrawnNext
  <2>3. /\ Reached(p) <=> SkipCorner(p) \/ (OnGrid(p, step) /\ BlockDrawn(p))
        /\ Reached(p)' <=> SkipCorner(p) \/ (OnGrid(p, step) /\ BlockDrawn(p)')
    BY <1>1, <1>2, <2>1 DEF Reached, OnGrid
  <2>4. /\ Reached(p)' => OnGrid(p, step)
        /\ Reached(p)' <=> Reached(p) \/ p \in Positions(b)
        /\ ~(Reached(p) /\ p \in Positions(b))
    BY <2>1, <2>2, <2>3
  <2>5. OnGrid(p, step) => display'[p] = IF p \in Positions(b) THEN p ELSE display[p]
    BY <1>1, <1>5, FillsOwn
  <2>6. Reached(p)' => display'[p] = p
    BY <1>5, <2>4, <2>5 DEF ReachedShown
  <2>7. ASSUME tracingmethod = 0, previewendsize = 1
        PROVE  traced'[p] = IF Reached(p)' THEN 1 ELSE 0
    <3>1. traced[p] = IF Reached(p) THEN 1 ELSE 0
      BY <1>5, <2>7 DEF ReachedTraced
    <3>2. traced'[p] = IF p \in Positions(b) THEN traced[p] + 1 ELSE traced[p]
      BY <1>1
    <3>3. CASE p \in Positions(b)
      BY <2>4, <3>1, <3>2, <3>3
    <3>4. CASE p \notin Positions(b)
      BY <2>4, <3>1, <3>2, <3>4
    <3> QED
      BY <3>3, <3>4
  <2> QED
    BY <2>6, <2>7
<1> QED
  BY <1>1, <1>2, <1>5, <1>6 DEF ReachedShown, ReachedTraced

LEMMA FullKeeps == ASSUME IInv, NEW b \in Blocks, DrawFull(b) PROVE IInv'
<1> USE DEF IInv
<1>1. /\ ~IsPreview /\ b \in todo /\ todo' = todo \ {b} /\ UNCHANGED <<given, step>>
      /\ traced' = [p \in Pixels |-> IF p \in Rect(b) THEN traced[p] + 1 ELSE traced[p]]
      /\ display' = [p \in Pixels |-> IF p \in Rect(b) THEN p ELSE display[p]]
      /\ image' = image \cup Rect(b) /\ complete' = complete \cup {b}
  BY DEF DrawFull
<1>2. /\ Pixels' = Pixels /\ Blocks' = Blocks /\ OneGrid' = OneGrid /\ IsPreview' = IsPreview
      /\ UNCHANGED <<left, top, blockSize, previewstartsize, previewendsize, tracingmethod>>
  BY <1>1 DEF Pixels, Blocks, OneGrid, IsPreview, given
<1>3. TypeOK'
  <2>1. display' \in [Pixels -> Pixels \cup {NoColour}] /\ traced' \in [Pixels -> Nat]
    BY <1>1 DEF TypeOK
  <2>2. Rect(b) \subseteq Pixels
    BY DEF Rect
  <2> QED
    BY <1>1, <1>2, <2>1, <2>2 DEF TypeOK
<1>4. ASSUME NEW p \in Pixels
      PROVE  Reached(p)' <=> Reached(p) \/ p \in Rect(b)
  <2>1. /\ Reached(p) <=> BlockDrawn(p)
        /\ Reached(p)' <=> BlockDrawn(p)'
    BY <1>1, <1>2 DEF Reached
  <2> QED
    BY <1>1, <2>1, DrawnNext
<1>5. ASSUME NEW p \in Pixels, p \in Rect(b) PROVE ~Reached(p)
  BY <1>1, <1>5 DEF Reached, BlockDrawn
<1>6. ReachedShown'
  BY <1>1, <1>2, <1>4 DEF ReachedShown
<1>7. ReachedTraced'
  BY <1>1, <1>2, <1>4, <1>5 DEF ReachedTraced
<1> QED
  BY <1>3, <1>6, <1>7

(* SetNextRectangle: what this pass has reached is the grid the next one   *)
(* leaves out.                                                             *)
LEMMA NextPassKeeps == ASSUME IInv, NextPass PROVE IInv'
<1> USE DEF IInv
<1>1. /\ todo = {} /\ HasNext /\ todo' = Blocks
      /\ step' = IF step \div 2 >= previewendsize THEN step \div 2 ELSE 0
      /\ UNCHANGED <<given, display, image, complete, traced>>
  BY DEF NextPass
<1>2. /\ Pixels' = Pixels /\ Blocks' = Blocks /\ OneGrid' = OneGrid
      /\ UNCHANGED <<left, top, blockSize, previewstartsize, previewendsize, tracingmethod>>
      /\ \A c : Rect(c)' = Rect(c)
  BY <1>1 DEF Pixels, Blocks, OneGrid, Rect, given
<1>3. /\ step \in PowersOfTwo /\ step \in Nat /\ step >= 1 /\ IsPreview
      /\ step <= previewstartsize /\ previewendsize \in PowersOfTwo
      /\ previewstartsize \in PowersOfTwo
  BY <1>1, SizesTyped, Halves DEF HasNext, IsPreview
<1>4. previewendsize \in Nat /\ previewendsize >= 1 /\ previewstartsize \in Nat
  BY <1>3, Halves
<1>5. \/ step' = 0
      \/ /\ step' \in PowersOfTwo /\ 2 * step' = step /\ step' < step
         /\ previewendsize <= step' /\ step' \in Nat /\ step' > 0
  <2>1. CASE step \div 2 >= previewendsize
    <3>1. step > 1
      BY <1>3, <1>4, <2>1, Halves DEF PowersOfTwo
    <3> QED
      BY <1>1, <1>3, <2>1, <3>1, Halves
  <2>2. CASE ~(step \div 2 >= previewendsize)
    BY <1>1, <2>2
  <2> QED
    BY <2>1, <2>2
<1>6. previewstartsize > 1
  BY <1>3 DEF TypeOK
<1>7. TypeOK'
  BY <1>1, <1>2, <1>3, <1>4, <1>5, <1>6 DEF TypeOK
<1>8. ASSUME NEW p \in Pixels
      PROVE  /\ Reached(p) <=> OnGrid(p, step)
             /\ Reached(p)' <=> step' # 0 /\ OnGrid(p, step)
  <2>1. BlockDrawn(p)
    BY <1>1 DEF BlockDrawn
  <2>2. ~BlockDrawn(p)'
    <3>1. PICK c \in Blocks : p \in Rect(c)
      BY InSomeBlock
    <3> QED
      BY <1>1, <1>2, <3>1 DEF BlockDrawn
  <2>3. OnGrid(p, 2 * step) => OnGrid(p, step)
    BY <1>3, GridsNest
  <2>4. Reached(p) <=> OnGrid(p, step)
    BY <1>3, <2>1, <2>3 DEF Reached
  <2>5. CASE step' = 0
    BY <2>2, <2>4, <2>5 DEF Reached, IsPreview
  <2>6. CASE step' # 0
    <3>1. step' > 0 /\ 2 * step' = step /\ step' < previewstartsize'
      BY <1>2, <1>3, <1>4, <1>5, <2>6
    <3> QED
      BY <2>2, <2>4, <2>6, <3>1 DEF Reached, IsPreview, OnGrid
  <2> QED
    BY <2>4, <2>5, <2>6
<1>9. ReachedShown'
  BY <1>1, <1>2, <1>8 DEF ReachedShown
<1>10. ASSUME tracingmethod = 0, previewendsize = 1 PROVE step' # 0
  BY <1>1, <1>5, <1>10 DEF HasNext
<1>11. ReachedTraced'
  BY <1>1, <1>2, <1>8, <1>10 DEF ReachedTraced
<1> QED
  BY <1>7, <1>9, <1>11

-----------------------------------------------------------------------------
(* The theorems.                                                           *)

(* Every pass reaches its grid, and nothing else.                          *)
THEOREM PassesReachTheirGrid == Spec => []IInv
<1>1. Init => IInv
  BY Initially
<1>2. IInv /\ [Next]_vars => IInv'
  <2> SUFFICES ASSUME IInv, [Next]_vars PROVE IInv'
    OBVIOUS
  <2>1. CASE UNCHANGED vars
    <3>1. /\ \A p : Reached(p)' = Reached(p)
          /\ UNCHANGED <<Pixels, Blocks, OneGrid, step, display, traced>>
          /\ UNCHANGED <<left, top, blockSize, previewstartsize, previewendsize, tracingmethod>>
      BY <2>1 DEF vars, given, Reached, BlockDrawn, Rect, Pixels, Blocks, OneGrid, IsPreview, OnGrid
    <3>2. TypeOK'
      BY <2>1, <3>1 DEF IInv, TypeOK, vars, given
    <3> QED
      BY <3>1, <3>2 DEF IInv, ReachedShown, ReachedTraced
  <2>2. CASE Next
    BY <2>2, PreviewKeeps, FullKeeps, NextPassKeeps DEF Next
  <2> QED
    BY <2>1, <2>2
<1> QED
  BY <1>1, <1>2, PTL DEF Spec

(* The last pass reaches every pixel.                                      *)
LEMMA AllReached == ASSUME IInv, Done, NEW p \in Pixels PROVE Reached(p)
<1>1. BlockDrawn(p)
  BY DEF Done, BlockDrawn
<1>2. CASE ~IsPreview
  BY <1>1, <1>2 DEF Reached
<1>3. CASE IsPreview
  <2>1. /\ step \in PowersOfTwo /\ previewendsize \in PowersOfTwo
        /\ p[1] \in Nat /\ p[2] \in Nat
    BY <1>3, SizesTyped DEF IInv, IsPreview
  <2>2. ~(step \div 2 >= previewendsize) /\ ~(previewendsize > 1)
    BY <1>3 DEF Done, HasNext
  <2>3. step = 1
    BY <2>1, <2>2 DEF PowersOfTwo
  <2>4. OnGrid(p, step)
    BY <2>1, <2>3 DEF OnGrid
  <2> QED
    BY <1>1, <1>3, <2>4 DEF Reached
<1> QED
  BY <1>2, <1>3

(* SimpleSamplingM0P leaves out what the pass before has traced: on one    *)
(* grid, no pixel is traced twice and none is left out.                    *)
THEOREM PixelsAreTracedOnce == Spec => []PreviewInv
<1>1. IInv => PreviewInv
  BY AllReached DEF IInv, PreviewInv, TracedOnce, ReachedTraced
<1> QED
  BY <1>1, PassesReachTheirGrid, PTL

(* DrawPixelSet: on one grid, squares that reach over edges and blocks     *)
(* drawn in any order leave an exact display.                              *)
THEOREM DisplayEndsExact == Spec => []DisplayExact
<1>1. IInv => DisplayExact
  BY AllReached DEF IInv, DisplayExact, ReachedShown
<1> QED
  BY <1>1, PassesReachTheirGrid, PTL

=============================================================================
