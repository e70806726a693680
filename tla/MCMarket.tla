------------------------------ MODULE MCMarket ------------------------------
(* Scenarios of the shell market for TLC. *)
EXTENDS ShellMarket

CONSTANTS me, other

TwoSellers == {me, other}

SellMeanwhile ==
  [j \in Jobs |-> CASE j = "sell" -> {me, other} [] j = "list" -> {me} [] OTHER -> {}]

Faults == [j \in Jobs |-> CASE j = "sell" -> 0 [] j = "list" -> 1 [] OTHER -> 2]
=============================================================================
