------------------------------- MODULE MCMined -------------------------------
(* A mining session with small trees for TLC. *)
EXTENDS MinedSession

\* Every number occurs among 2^HashBits consecutive nonces
SmallHash(leaf) ==
  (5 * leaf.index + 3 * leaf.nonce + leaf.seed + 2 * leaf.timestamp + leaf.complexity) % 2 ^ HashBits

Pairs == {[c \in Cores |-> IF c = "time" THEN 1 ELSE k] : k \in {1, 2}}

SmallTrees == [c \in Cores |-> IF c = "time" THEN 2 ELSE 5]
=============================================================================
