------------------------------ MODULE MCActive ------------------------------
(* The scenario of the listing of active sessions for TLC. *)
EXTENDS ActiveSessions

P == {"p1", "p2", "p3", "p4"}

\* Two sessions of one application, one that does not parse, one profile
\* that is no connect session
Descriptions ==
  [p \in P |-> CASE p = "p1" -> "a" [] p = "p2" -> "a"
                 [] p = "p3" -> "malformed" [] OTHER -> "other"]
=============================================================================
