---------------------------- MODULE EventChannel ----------------------------
(***************************************************************************)
(* What polling an endpoint promises: the packets the device has sent are  *)
(* read in their order, each of them once.                                 *)
(***************************************************************************)
EXTENDS Naturals, Sequences

VARIABLES
  sent,               \* how many packets the device has queued so far
  received            \* their numbers, in the order the host read them

vars == <<sent, received>>

Init == sent = 0 /\ received = <<>>

Send == sent' = sent + 1 /\ received' = received

Receive ==
  /\ Len(received) < sent
  /\ received' = Append(received, Len(received) + 1)
  /\ sent' = sent

Next == Send \/ Receive

Spec == Init /\ [][Next]_vars
=============================================================================
