-------------------------- MODULE MCBlockDispatch --------------------------
(* A small image and crew for TLC.                                         *)
EXTENDS BlockPixels

CONSTANTS t1, t2, t3

ThreeThreads == {t1, t2, t3}

(* Areas of two by two blocks (exact, ragged, away from the corner of the  *)
(* image), of a row and of a column of four, and one that is cut into one  *)
(* block by a large size.  All patterns, and one past them.                *)
MCOptions == [area    : {<<0, 0, 7, 7>>, <<1, 2, 7, 6>>, <<0, 3, 14, 5>>, <<3, 1, 4, 13>>},
              size    : {1, 4, 5, 32},
              pattern : 0..6,
              step    : {0, 1, 2, 3, 4, 6, 7}]
=============================================================================
