------------------------------ MODULE MCMiner ------------------------------
(* Scenarios of the browser miner for TLC. *)
EXTENDS MinerWorkers

\* The example application without failures
Calm == {}

\* Failures, restarts and an application that calls whenever it may
Rough == EnvKinds \ {"recomplex"}
=============================================================================
