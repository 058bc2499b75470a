--------------------------- MODULE MCPovmsContext ---------------------------
(* The contexts of a running program: the front end's worker, the back     *)
(* end's main thread and the parser's task.  The front end sends requests  *)
(* to the back end, the task looks for files in the front end, and the     *)
(* back end reports to the front end.                                      *)
EXTENDS PovmsContext

CONSTANTS frontend, backend, parser

MCServers == {frontend, backend}
MCAsks    == {<<frontend, backend>>, <<parser, frontend>>}
MCTells   == {<<backend, frontend>>}
=============================================================================
