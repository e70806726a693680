----------------------------- MODULE MCHistory ------------------------------
(* Scenarios of history paging for TLC. *)
EXTENDS HistoryPaging

ThreeAndTwo == [s \in Streams |-> IF s = "mf" THEN 3 ELSE 2]
=============================================================================
