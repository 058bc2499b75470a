-------------------------- MODULE MCRenderFrontend --------------------------
(* Small instances of RenderFrontend for TLC. *)
EXTENDS RenderFrontend
TwoIds == 1..2
OneId == 1..1
===============================================================================
