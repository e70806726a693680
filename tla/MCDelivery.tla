----------------------------- MODULE MCDelivery -----------------------------
(* Scenario of message delivery for TLC. *)
EXTENDS MessageDelivery

CONSTANTS m1, m2

TwoMsgs == {m1, m2}
=============================================================================
