---------------------------- MODULE MCTaskQueue ----------------------------
(* Plans of StartParser and StartRender for TLC.                           *)
EXTENDS TaskQueue

(* Scene::StartParser: parser, bounding, statistics, Done.                 *)
ParserPlan == <<"task", "sync", "task", "sync", "sync", "function", "function">>

(* View::StartRender on two render threads, without preview passes:        *)
(* shutdown messages, statistics, Done.                                    *)
RenderPlan == <<"task", "task", "sync", "function", "sync", "function", "message">>
=============================================================================
