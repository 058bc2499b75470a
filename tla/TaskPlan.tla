------------------------------ MODULE TaskPlan ------------------------------
(***************************************************************************)
(* What a TaskQueue promises to the Scene or View that fills it, without   *)
(* threads, locks or conditions: entries start in the order in which they  *)
(* were appended, a sync is passed only while no task runs, and the queue  *)
(* is emptied only while no task runs.                                     *)
(***************************************************************************)
EXTENDS Integers, Sequences

CONSTANT Plan

Pos == 1..Len(Plan)

VARIABLE state     \* per entry: "future", "queued", "running", "finished" or "dropped"

PlanInit == state = [p \in Pos |-> "future"]

Idle == \A p \in Pos : state[p] # "running"

(* Entries are appended in plan order.                                     *)
Enqueue(p) ==
  /\ state[p] = "future"
  /\ \A q \in Pos : state[q] = "future" => p <= q
  /\ state' = [state EXCEPT ![p] = "queued"]

(* p is the oldest entry waiting.                                          *)
AtFront(p) == state[p] = "queued" /\ \A q \in Pos : state[q] = "queued" => p <= q

Start(p) ==
  /\ Plan[p] = "task" /\ AtFront(p)
  /\ state' = [state EXCEPT ![p] = "running"]

End(p) ==
  /\ state[p] = "running"
  /\ state' = [state EXCEPT ![p] = "finished"]

PassSync(p) ==
  /\ Plan[p] = "sync" /\ AtFront(p) /\ Idle
  /\ state' = [state EXCEPT ![p] = "finished"]

Emit(p) ==
  /\ Plan[p] \in {"message", "function"} /\ AtFront(p)
  /\ state' = [state EXCEPT ![p] = "finished"]

Drop ==
  /\ Idle
  /\ state' = [p \in Pos |-> IF state[p] = "queued" THEN "dropped" ELSE state[p]]

PlanNext ==
  \/ \E p \in Pos : Enqueue(p) \/ Start(p) \/ End(p) \/ PassSync(p) \/ Emit(p)
  \/ Drop

Spec == PlanInit /\ [][PlanNext]_state

=============================================================================
