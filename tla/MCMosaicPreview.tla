-------------------------- MODULE MCMosaicPreview --------------------------
(* MosaicPreview for TLC: areas with a ragged edge, on the grid and off it. *)
EXTENDS MosaicPreview

Areas  == {<<0, 0>>, <<4, 2>>, <<1, 0>>}
Sizes  == {4, 6, 9}
Starts == {1, 2, 4, 8}
Ends   == {1, 2, 4}
=============================================================================
