------------------------------- MODULE Shellout -------------------------------
(***************************************************************************)
(* ShelloutProcessing: user commands run before and after scenes and       *)
(* frames, on abort and on a fatal error, and what a command's result does *)
(* to the render.  Operators on a record of its members; VirtualFrontEnd   *)
(* holds the record.                                                       *)
(*                                                                         *)
(* A method gives the set of its outcomes, records with the new members,   *)
(* and the exception that leaves it: "prohibited" (kCannotOpenFileErr, the *)
(* command may not be run), "failed" (any other) or "none".                *)
(***************************************************************************)
EXTENDS Naturals

Events == {"preScene", "postScene", "preFrame", "postFrame", "userAbort", "fatalError"}

\* What a command's failure asks for; "unset" is an event without a command.
Actions == {"ignore", "skipOne", "skipAll", "quit", "abort", "fatal"}
Commands == [Events -> Actions \cup {"unset"}]

NewShellout ==
    [hadPreScene |-> FALSE, hadPostScene |-> FALSE, hadUserAbort |-> FALSE,
     cancelRender |-> FALSE, skipCallouts |-> FALSE, skipNextFrame |-> FALSE,
     skipAllFrames |-> FALSE, killRequested |-> FALSE, exitCode |-> 0, frameNo |-> 0,
     event |-> "none",      \* postProcessEvent; "none" iff no processStartRequested
     running |-> FALSE]     \* the operating system's process

ShelloutTypeOK(sh) ==
    /\ DOMAIN sh = DOMAIN NewShellout
    /\ \A f \in DOMAIN sh \ {"exitCode", "frameNo", "event"}: sh[f] \in BOOLEAN
    /\ sh.exitCode \in 0..2 /\ sh.frameNo \in Nat /\ sh.event \in Events \cup {"none"}

Outcome(sh, err) == [sh |-> sh, err |-> err]

SetFrameClock(sh, n) ==
    [sh EXCEPT !.skipNextFrame = @ /\ sh.frameNo = n, !.frameNo = n]

-----------------------------------------------------------------------------
Ignored(sh, e, internal) ==
    \/ e = "preScene" /\ sh.hadPreScene
    \/ e = "postScene" /\ sh.hadPostScene
    \/ e \in {"preFrame", "postFrame"} /\ (sh.skipNextFrame \/ sh.skipAllFrames)
    \/ e = "userAbort" /\ sh.hadUserAbort
    \/ e = "fatalError" /\ sh.cancelRender /\ ~internal

Mark(sh, e) ==
    CASE e = "preScene"   -> [sh EXCEPT !.hadPreScene = TRUE]
      [] e = "postScene"  -> [sh EXCEPT !.hadPostScene = TRUE]
      [] e = "userAbort"  -> [sh EXCEPT !.hadUserAbort = TRUE]
      [] e = "fatalError" -> [sh EXCEPT !.cancelRender = TRUE, !.skipCallouts = TRUE,
                                        !.exitCode = 1]
      [] OTHER            -> sh

(* A command that is started runs on (Windows) or has ended when system()   *)
(* returns (Unix).  It cannot be started while another one runs.            *)
ExecuteCommand(sh) ==
    {Outcome(sh, "prohibited"), Outcome([sh EXCEPT !.skipCallouts = TRUE], "failed")}
    \cup IF sh.running THEN {}
         ELSE {Outcome([sh EXCEPT !.running = r], "none"): r \in BOOLEAN}

\* Whatever happens before the pre-scene event becomes the pre-scene event.
HandleProcessEvent(sh, commands, event, internal) ==
    LET e == IF sh.hadPreScene THEN event ELSE "preScene" IN
    IF Ignored(sh, e, internal) THEN {Outcome(sh, "none")}
    ELSE IF sh.skipCallouts \/ commands[e] = "unset" THEN {Outcome(Mark(sh, e), "none")}
    ELSE ExecuteCommand([Mark(sh, e) EXCEPT !.event = e])

-----------------------------------------------------------------------------
\* The command of event e had the result its return action is for.
Returned(sh, commands, e) ==
    LET action == commands[e]
        cancelled == [sh EXCEPT !.cancelRender = TRUE]
        abort == [cancelled EXCEPT !.exitCode = 2]
        fatal == [cancelled EXCEPT !.exitCode = 1]
        common == e \notin {"userAbort", "fatalError"}
        skips == action \in {"skipOne", "skipAll"}
        only(s) == {Outcome(s, "none")}
    IN CASE action = "ignore" -> only(sh)
         [] common /\ action = "quit" ->
                only([cancelled EXCEPT !.skipCallouts = TRUE, !.exitCode = 0])
         [] common /\ action = "abort" ->
                HandleProcessEvent(abort, commands, "userAbort", TRUE)
         [] common /\ action = "fatal" ->
                HandleProcessEvent(fatal, commands, "fatalError", TRUE)
         [] e = "preScene" /\ skips ->
                only([cancelled EXCEPT !.exitCode = 0,
                                       !.skipCallouts = @ \/ action = "skipAll"])
         [] e = "preFrame" /\ action = "skipOne" ->
                only([sh EXCEPT !.skipNextFrame = TRUE])
         [] e = "preFrame" /\ action = "skipAll" ->
                only([cancelled EXCEPT !.skipAllFrames = TRUE, !.exitCode = 0])
         [] e = "postFrame" /\ skips -> only([cancelled EXCEPT !.skipAllFrames = TRUE])
         [] e = "userAbort" /\ action = "fatal" ->
                HandleProcessEvent(fatal, commands, "fatalError", TRUE)
         [] e = "userAbort" /\ action # "fatal" -> only(abort)
         [] OTHER -> only(sh)

PostProcessEvent(sh, commands) ==
    LET collected == [sh EXCEPT !.event = "none"] IN
    {Outcome(collected, "none")}
    \cup IF sh.killRequested THEN {} ELSE Returned(collected, commands, sh.event)

\* What ShelloutRunning returns is known before the result is looked at, which
\* may start the next command.
ShelloutRunning(sh, commands) ==
    IF sh.running \/ sh.event = "none" THEN {Outcome(sh, "none")}
    ELSE PostProcessEvent(sh, commands)

\* A process may survive being killed.
KillShellouts(sh) == {[sh EXCEPT !.killRequested = TRUE, !.running = r]: r \in BOOLEAN}
=============================================================================
