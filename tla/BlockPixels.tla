----------------------------- MODULE BlockPixels -----------------------------
(***************************************************************************)
(* BlockDispatch and BlockGrid together: what the threads of a pass render *)
(* are pixels.  A grid is fixed before a pass and read only, so the        *)
(* dispatch is explored once, for its number of blocks, and what it does   *)
(* with the serials is judged for every grid of that many blocks.          *)
(***************************************************************************)
EXTENDS BlockDispatch, BlockGrid

CONSTANT Options        \* [area, size, pattern, step] a user may ask for

(* Areas with at least one pixel.  The options are unsigned where they are *)
(* read; that an area does not end before it begins is the user's part     *)
(* (StartRender checks both ends against the image only, view.cpp:792).    *)
Areas == {a \in Nat \X Nat \X Nat \X Nat : a[1] <= a[3] /\ a[2] <= a[4]}

ASSUME OptionsAssumption ==
  \A o \in Options : o.area \in Areas /\ o.size \in Nat /\ o.step \in Nat

Grids == {g \in {Grid(o) : o \in Options} : BlocksOf(g) = NumBlocks}

ASSUME GridsAssumption == Grids # {}

RectOf == [g \in Grids |-> [b \in Blocks |-> Rect(g, b)]]

(* Sets of blocks that, on some grid, are not the render area, or have a   *)
(* pixel twice.                                                            *)
NoPartition ==
  {S \in SUBSET Blocks :
     \E g \in Grids :
        \/ UNION {RectOf[g][b] : b \in S} # Pixels(g.renderArea)
        \/ \E a, b \in S : a # b /\ RectOf[g][a] \cap RectOf[g][b] # {}}

(* When a pass ends, the blocks handed out and those a continued render    *)
(* had already are the whole render area, each pixel once: the pattern     *)
(* "does not change the final image" (doc/html/r3_2.html:2759) and the     *)
(* step is lowered before "some blocks would not get rendered" (2867).     *)
AreaPartitioned ==
  AllEnded => {b \in Blocks : count[b] > 0} \cup (Blocks \ ToDo) \notin NoPartition
=============================================================================
