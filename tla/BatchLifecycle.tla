---------------------------- MODULE BatchLifecycle ----------------------------
(* What a dispatch batch promises its readers and the subscribers of            *)
(* shipping.v1.batch.closed: it is opened once, closed once and for good, and   *)
(* announced at most once, after it has been closed.                            *)
EXTENDS Naturals

CONSTANT Batches

VARIABLES
  status,     \* batch -> "none", "OPEN" or "CLOSED"
  announced   \* batch -> number of shipping.v1.batch.closed events

vars == <<status, announced>>

Init ==
  /\ status = [b \in Batches |-> "none"]
  /\ announced = [b \in Batches |-> 0]

Open(b) ==
  /\ status[b] = "none"
  /\ status' = [status EXCEPT ![b] = "OPEN"]
  /\ UNCHANGED announced

Close(b) ==
  /\ status[b] = "OPEN"
  /\ status' = [status EXCEPT ![b] = "CLOSED"]
  /\ UNCHANGED announced

Announce(b) ==
  /\ status[b] = "CLOSED"
  /\ announced[b] = 0
  /\ announced' = [announced EXCEPT ![b] = 1]
  /\ UNCHANGED status

Next == \E b \in Batches : Open(b) \/ Close(b) \/ Announce(b)

Spec == Init /\ [][Next]_vars
===============================================================================
