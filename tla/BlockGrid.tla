------------------------------ MODULE BlockGrid ------------------------------
(***************************************************************************)
(* Where the blocks of an image lie: the block size, grid and step that    *)
(* View::StartRender derives from the options, and the rectangle that      *)
(* getBlockXY and GetNextRectangle give to a serial number                 *)
(* (backend/scene/view.cpp).  An unsigned long is taken to be wide enough  *)
(* for a serial times the step.                                            *)
(***************************************************************************)
EXTENDS Integers, FiniteSetsExt

Larger(m, n)  == IF m >= n THEN m ELSE n
Smaller(m, n) == IF m <= n THEN m ELSE n

(* A render area is <<left, top, right, bottom>>, its ends included.       *)
AreaWidth(a)  == a[3] - a[1] + 1
AreaHeight(a) == a[4] - a[2] + 1
Pixels(a)     == (a[1]..a[3]) \X (a[2]..a[4])

(* Render_Block_Size is at least 4, and not larger than the area.          *)
SizeOf(option, a) == Smaller(Larger(option, 4), Larger(AreaWidth(a), AreaHeight(a)))

BlocksIn(length, size) == (length + size - 1) \div size

Divides(d, n) == \E q \in 0..n : n = q * d
Coprime(m, n) == \A d \in 2..m : ~(Divides(d, m) /\ Divides(d, n))

(* Variant: the step is brought into range, and not made coprime.          *)
StepInRange(option, n) ==
  IF option = 0 THEN 0 ELSE IF option % n = 0 THEN n ELSE option % n

(* Render_Block_Step is lowered until it is coprime to the number of       *)
(* blocks n; 0 means that no step was asked for.                           *)
ReducedStep(option, n) ==
  IF option = 0 THEN 0
  ELSE Max({s \in 1..(IF option % n = 0 THEN n ELSE option % n) : Coprime(s, n)})

(* What StartRender keeps of the options area, size, pattern and step.     *)
Grid(o) ==
  LET size == SizeOf(o.size, o.area)
      w    == BlocksIn(AreaWidth(o.area), size)
      h    == BlocksIn(AreaHeight(o.area), size)
  IN  [renderArea |-> o.area, blockSize |-> size, blockWidth |-> w, blockHeight |-> h,
       renderPattern |-> o.pattern, renderBlockStep |-> ReducedStep(o.step, w * h)]

BlocksOf(g) == g.blockWidth * g.blockHeight

-----------------------------------------------------------------------------
(* From both ends to the middle.                                           *)
Folded(i, n) == IF i % 2 = 1 THEN n - 1 - i \div 2 ELSE i \div 2

(* The block number behind a serial when a step is set.                    *)
Stepped(g, nb) == IF g.renderBlockStep > 1
                  THEN (nb * g.renderBlockStep) % BlocksOf(g)
                  ELSE nb

(* Rows or columns first, folded or not, and from the last one or not.     *)
ByRow(g, n)    == <<n % g.blockWidth, n \div g.blockWidth>>
ByColumn(g, n) == <<n \div g.blockHeight, n % g.blockHeight>>
FoldBoth(g, p) == <<Folded(p[1], g.blockWidth), Folded(p[2], g.blockHeight)>>

getBlockXY(g, nb) ==
  LET n    == Stepped(g, nb)
      last == BlocksOf(g) - 1
  IN  CASE g.renderPattern = 1 -> ByColumn(g, n)
        [] g.renderPattern = 2 -> FoldBoth(g, ByRow(g, n))
        [] g.renderPattern = 3 -> FoldBoth(g, ByRow(g, last - n))
        [] g.renderPattern = 4 -> FoldBoth(g, ByColumn(g, n))
        [] g.renderPattern = 5 -> FoldBoth(g, ByColumn(g, last - n))
        [] OTHER               -> ByRow(g, n)

(* The part of first..last in the block at i.                              *)
Span(first, last, size, i) ==
  (first + i * size)..Smaller(first + (i + 1) * size - 1, last)

(* The pixels of the rectangle behind serial nb.                           *)
Rect(g, nb) ==
  LET b == getBlockXY(g, nb)
      a == g.renderArea
  IN  Span(a[1], a[3], g.blockSize, b[1]) \X Span(a[2], a[4], g.blockSize, b[2])
=============================================================================
