------------------------------ MODULE MCWallet ------------------------------
(* Scenarios of the wallet operations for TLC. *)
EXTENDS WalletOps

CONSTANTS d1, d2

\* Every operation by one device, and pairs that touch the same state
Together ==
  {<<"seed", "seed">>, <<"seed", "zkid">>, <<"factor", "factor">>,
   <<"unfactor", "factor">>, <<"unfactor", "submit">>, <<"zkid", "flags">>,
   <<"set_key", "withdraw">>, <<"set_key", "del_key">>, <<"set_key", "await_key">>, <<"deploy_miner", "withdraw">>,
   <<"transfer", "unfactor">>}

Scenarios ==
  {[d \in Devices |-> IF d = d1 THEN j ELSE "none"] : j \in AllJobs \ {"none"}}
    \cup {[d \in Devices |-> IF d = d1 THEN p[1] ELSE p[2]] : p \in Together}

Factors == {<<d1, d2>>, <<"f">>, <<"f", "g", d1>>}
Shared == [d \in Devices |-> IF d = d1 THEN 2 ELSE 1]
Whitelists == {{"root"}, {"root", "other"}}
=============================================================================
