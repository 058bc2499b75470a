------------------------- MODULE MCVirtualFrontEnd -------------------------
(* Small instances of VirtualFrontEnd for TLC. *)
EXTENDS VirtualFrontEnd
TwoIds == 1..2
OneId == 1..1

Only(f) == [e \in Events |-> IF e \in DOMAIN f THEN f[e] ELSE "unset"]
NoCommands == {Only(<<>>)}
MixedCommands ==
    [e \in Events |-> IF e \in {"preFrame", "postFrame"} THEN "skipOne" ELSE "abort"]
FewCommands == {Only(<<>>), MixedCommands}
==============================================================================
