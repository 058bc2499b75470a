---------------------------- MODULE RequestReply ----------------------------
(***************************************************************************)
(* What POVMS_Send in mode kPOVMSSendMode_WaitReply promises its callers:  *)
(* a client has one request open at a time, each request is carried out at *)
(* most once, possibly after the client has given up, and the answer a     *)
(* client gets is that to its open request, which has been carried out.    *)
(* PovmsContext implements it with numbered messages in queues.            *)
(***************************************************************************)
EXTENDS Integers

CONSTANT Clients

VARIABLES
  last,                 \* per client, the number of its last request
  pending,              \* per client, the number of its open request, or 0
  executed,             \* the requests carried out: <<client, number>>
  outcome               \* per client, its last request and the answer, or 0

vars == <<last, pending, executed, outcome>>

Init ==
  /\ last = [c \in Clients |-> 0] /\ pending = [c \in Clients |-> 0]
  /\ executed = {}
  /\ outcome = [c \in Clients |-> [asked |-> 0, answer |-> 0]]

Ask(c) ==
  /\ pending[c] = 0
  /\ last' = [last EXCEPT ![c] = @ + 2]
  /\ pending' = [pending EXCEPT ![c] = last'[c]]
  /\ UNCHANGED <<executed, outcome>>

Execute(c, n) ==
  /\ n \in 1..last[c] /\ <<c, n>> \notin executed
  /\ executed' = executed \cup {<<c, n>>}
  /\ UNCHANGED <<last, pending, outcome>>

End(c) ==
  /\ pending[c] # 0
  /\ \E answer \in {0, pending[c]} :
       /\ answer # 0 => <<c, answer>> \in executed
       /\ outcome' = [outcome EXCEPT ![c] = [asked |-> pending[c], answer |-> answer]]
  /\ pending' = [pending EXCEPT ![c] = 0]
  /\ UNCHANGED <<last, executed>>

Next == \E c \in Clients : Ask(c) \/ End(c) \/ \E n \in 1..last[c] : Execute(c, n)
Spec == Init /\ [][Next]_vars
=============================================================================
