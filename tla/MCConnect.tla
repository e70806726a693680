------------------------------ MODULE MCConnect ------------------------------
(* Scenarios of the bee_connect session protocol for TLC. *)
EXTENDS ConnectSession

\* A caller that follows PROTOCOL.md
DocumentedCallers == {}

\* The documented dApp, and a wallet that answers what it can read
\* (wallet_respond_to_challenge of the integration tests)
PollingWallet == {"redelivered"}

\* Callers that save early, send while they wait, poll over the whole session
\* and page backwards
CarelessCallers == {"early_persist", "overlap", "whole_window", "older_pages"}

Timeouts == {"timeout"}
AllFaults == FaultKinds
==============================================================================
