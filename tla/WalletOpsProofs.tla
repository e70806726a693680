--------------------------- MODULE WalletOpsProofs ---------------------------
(***************************************************************************)
(* The operations of bee_wallet keep what they promise for any number of   *)
(* devices with any combination of jobs, any initial state of the          *)
(* contracts, and any number of runs, crashes, lost, late and failed       *)
(* messages: success of an operation that waits for its effect means that  *)
(* the effect is there, but for a factor added to a full list; a wait      *)
(* gives up and a message is refused only if the wallet was changed from   *)
(* outside; every operation reports exactly one terminal milestone.        *)
(***************************************************************************)
EXTENDS WalletOps, TLAPS, FiniteSetTheorems, SequenceTheorems

USE DEF DeployJobs

-----------------------------------------------------------------------------
(* Types. *)

\* The messages of a job, in the order they are sent, and the two steps that
\* send none.
KindOf(j, k) ==
  \/ j = "seed" /\ k \in {"delete_candidate", "change_seed_phrase", "accept_candidate"}
  \/ j = "factor" /\ k \in {"add_jwk_modulus", "add_zkp_factor"}
  \/ j = "unfactor" /\ k = "delete_zkp_factor"
  \/ j = "zkid" /\ k \in {"update_zk_id", "update_recovery_phrase"}
  \/ j \in {"flags", "deploy"} /\ k \in {"set_force_remove_oldest", "set_wasm_hash"}
  \/ j \in DeployJobs /\ k = "deploy_multifactor"
  \/ j \in WhitelistJobs /\ k \in {"clean_whitelist", "update_whitelist"}
  \/ j = "deploy_miner" /\ k = "deploy_miner"
  \/ j = "set_key" /\ k = "set_owner_public"
  \/ j \in {"del_key", "del_key_nowait"} /\ k = "remove_owner_public"
  \/ j = "withdraw" /\ k = "withdraw"
  \/ j \in {"transfer", "migrate"} /\ k \in {"deploy_transaction", "submit_transaction"}
  \/ j \in {"submit", "redeem"} /\ k = "submit_transaction"
  \/ j = "direct" /\ k = "send_transaction"
  \/ j = "multisig" /\ k \in {"create_multisig", "deploy_multisig", "top_up"}
  \/ j = "prove" /\ k = "prove"
  \/ j = "await_key" /\ k = "await_key"

\* The messages a job may have sent before it comes to a step.
Past(k) ==
  CASE k = "change_seed_phrase" -> {"delete_candidate"}
    [] k = "accept_candidate" -> {"delete_candidate", "change_seed_phrase"}
    [] k = "add_zkp_factor" -> {"add_jwk_modulus"}
    [] k = "update_recovery_phrase" -> {"update_zk_id"}
    [] k = "set_force_remove_oldest" -> {"deploy_multifactor"}
    [] k = "set_wasm_hash" -> {"deploy_multifactor", "set_force_remove_oldest"}
    [] k = "update_whitelist" -> {"clean_whitelist"}
    [] k \in Submitted -> {"clean_whitelist", "update_whitelist"}
    [] k = "submit_transaction" -> {"deploy_transaction"}
    [] k = "deploy_multisig" -> {"create_multisig"}
    [] k = "top_up" -> {"create_multisig", "deploy_multisig"}
    [] OTHER -> {}

Kinds ==
  {"delete_candidate", "change_seed_phrase", "accept_candidate", "add_jwk_modulus",
   "add_zkp_factor", "delete_zkp_factor", "update_zk_id", "update_recovery_phrase",
   "set_force_remove_oldest", "set_wasm_hash", "deploy_multifactor", "clean_whitelist",
   "update_whitelist", "deploy_miner", "set_owner_public", "remove_owner_public",
   "withdraw", "deploy_transaction", "submit_transaction", "send_transaction",
   "create_multisig", "deploy_multisig", "top_up"}

Keys == (Devices \cup {None, "first"}) \X Nat
Pairs == {None, "old", "new"} \X {None, "current", "legacy"}
Known == Devices \cup UNION {Elements(f) : f \in InitFactors}
Targets == {None, "root", "mirror", "miner", "popitgame"} \cup UNION InitWhitelist
Steps == Kinds \cup {"await_key", "prove"}
Results == {None, "ok", "error", "timeout", "pending"}
Milestones == {"confirmed", "failed", "pending", "timed_out", "finished"}
Needs == {"set_force_remove_oldest", "set_wasm_hash", "plain", "bad_ecc", "ecc"}

Chains ==
  [deployed : BOOLEAN, owner : Keys, candidate : Devices \cup {None}, factors : Seq(Known),
   zkid : {"old", "new"}, pub_recovery_key : Pairs, jwk_update_key : Pairs, jwk : Int,
   force_remove_oldest : BOOLEAN, wasm_hash : BOOLEAN, whitelist : SUBSET Targets,
   miner : BOOLEAN, owner_public : Devices \cup {None}, txs : SUBSET Devices,
   multisig : {"none", "uninit", "active"}]

Ops ==
  [at : Steps \cup {"idle"}, waits : BOOLEAN, len : Int, need : SUBSET Needs, key : Keys,
   signer : Pairs, target : Targets, expires : Int, result : Results,
   term : Seq(Milestones), able : BOOLEAN, raced : BOOLEAN, sent : SUBSET Steps,
   done : SUBSET Kinds, gave : Steps \cup {None}, refused : Steps \cup {None}]

Messages ==
  [kind : Kinds, d : Devices, try : Nat, key : Keys, signer : Pairs, target : Targets,
   expires : Int]

Types ==
  /\ chain \in Chains /\ way \subseteq Messages /\ job \in [Devices -> AllJobs]
  /\ dev \in [Devices -> Ops] /\ tries \in [Devices -> Nat]

ChainOK == FactorList(chain.factors) /\ IsFiniteSet(chain.whitelist)

\* The messages of the run in progress that are not executed yet.
WayOK ==
  \A m \in way :
    /\ m.try <= tries[m.d]
    /\ Current(m) => KindOf(job[m.d], m.kind)
    /\ Current(m) /\ dev[m.d].at # "idle" =>
         LET u == dev[m.d]
         IN  /\ m.kind \in u.sent /\ m.kind \notin u.done
             /\ m.key = u.key /\ m.signer = u.signer /\ m.target = u.target
             /\ m.expires = u.expires

-----------------------------------------------------------------------------
(* What a run that no one disturbed has established, by job.  u is the      *)
(* operation and c the contracts.                                           *)

SeedFacts(d, u, c) ==
  /\ u.signer = c.pub_recovery_key
  /\ u.at = "delete_candidate" =>
       (c.candidate = None <=> "delete_candidate" \in u.done)
  /\ u.at # "delete_candidate" =>
       ("delete_candidate" \in u.sent => "delete_candidate" \in u.done)
  /\ u.at = "change_seed_phrase" =>
       c.candidate = IF "change_seed_phrase" \in u.done THEN d ELSE None
  /\ u.at = "accept_candidate" =>
       /\ "change_seed_phrase" \in u.done
       /\ IF "accept_candidate" \in u.done THEN c.owner = SeedKey(d) ELSE c.candidate = d

FactorFacts(d, u, c) ==
  /\ c.deployed /\ c.zkid = Password(d)
  /\ IF "add_zkp_factor" \in u.done
     THEN d \in Elements(c.factors) /\ Len(c.factors) = TargetFactorsLen(u.len)
     ELSE d \notin Elements(c.factors) /\ Len(c.factors) = u.len
  /\ u.at = "add_jwk_modulus" => u.signer = c.jwk_update_key /\ u.expires > 0
  /\ "add_jwk_modulus" \in u.sent => u.expires > 0
  /\ "add_jwk_modulus" \in u.done => c.jwk > 0
  /\ u.able /\ "add_zkp_factor" \notin u.done =>
       /\ u.at = "add_zkp_factor" => c.jwk > 0
       /\ Len(c.factors) < MaxFactors \/ c.force_remove_oldest

UnfactorFacts(d, u, c) ==
  IF "delete_zkp_factor" \in u.done
  THEN d \notin Elements(c.factors) /\ Len(c.factors) = u.len - 1
  ELSE c.deployed /\ d \in Elements(c.factors) /\ Len(c.factors) = u.len

ZkidFacts(d, u, c) ==
  /\ u.key = c.owner /\ (u.able => c.deployed)
  /\ "update_zk_id" \in u.done \/ u.at = "update_recovery_phrase" => c.zkid = "new"
  /\ "update_recovery_phrase" \in u.done => c.pub_recovery_key = <<"new", "current">>

\* A flag is set, or its message is still to be executed.
FlagFacts(d, u, c) ==
  /\ u.key = c.owner /\ (u.able => c.deployed)
  /\ "set_force_remove_oldest" \notin u.need \/ "set_force_remove_oldest" \in u.done
       => c.force_remove_oldest
  /\ "set_wasm_hash" \notin u.need \/ "set_wasm_hash" \in u.done => c.wasm_hash
  /\ u.at = "set_force_remove_oldest" /\ u.waits => "set_wasm_hash" \notin u.need
  /\ u.at = "set_wasm_hash" /\ "set_force_remove_oldest" \in u.need =>
       "set_force_remove_oldest" \in u.sent

DeployFacts(d, u, c) ==
  /\ u.key = DeployKey(d)
  /\ u.at = "deploy_multifactor" =>
       /\ "deploy_multifactor" \in u.done => c.deployed /\ c.owner = u.key
       /\ "deploy_multifactor" \notin u.done /\ u.able => ~c.deployed
  /\ u.at # "deploy_multifactor" => c.deployed /\ FlagFacts(d, u, c)

\* The whitelist is cleaned before it is updated, and holds the target before
\* the message to it is submitted.
WhitelistFacts(d, u, c) ==
  /\ u.target = Target(SubmittedBy(job[d]))
  /\ job[d] \in {"set_key", "del_key", "del_key_nowait"} => c.miner
  /\ u.at = "clean_whitelist" =>
       (Cardinality(c.whitelist) = 1 <=> "clean_whitelist" \in u.done)
  /\ u.at # "clean_whitelist" =>
       /\ "clean_whitelist" \in u.sent => "clean_whitelist" \in u.done
       /\ u.at # "update_whitelist" \/ "update_whitelist" \in u.done =>
            u.target \in c.whitelist
  /\ "deploy_miner" \in u.done => c.miner
  /\ "set_owner_public" \in u.done => c.owner_public = d
  /\ "remove_owner_public" \in u.done => c.owner_public = None

TransferFacts(d, u, c) ==
  /\ "deploy_transaction" \in u.done /\ "submit_transaction" \notin u.done => d \in c.txs
  /\ u.at = "submit_transaction" /\ "submit_transaction" \notin u.done => d \in c.txs

MultisigFacts(d, u, c) ==
  /\ u.at = "create_multisig" /\ "create_multisig" \in u.done => c.multisig = "uninit"
  /\ u.at = "create_multisig" => c.multisig # "active"
  /\ u.at = "deploy_multisig" => c.multisig # "none"
  /\ u.at = "top_up" \/ "deploy_multisig" \in u.done => c.multisig = "active"

SignedJobs == {"seed", "submit", "transfer", "direct", "redeem", "migrate"} \cup WhitelistJobs

Facts(d, u, c) ==
  /\ job[d] \in SignedJobs => c.deployed /\ d \in Elements(c.factors)
  /\ job[d] = "seed" => SeedFacts(d, u, c)
  /\ job[d] = "factor" => FactorFacts(d, u, c)
  /\ job[d] = "unfactor" => UnfactorFacts(d, u, c)
  /\ job[d] = "zkid" => ZkidFacts(d, u, c)
  /\ job[d] = "flags" => FlagFacts(d, u, c)
  /\ job[d] \in DeployJobs => DeployFacts(d, u, c)
  /\ job[d] \in WhitelistJobs => WhitelistFacts(d, u, c)
  /\ job[d] \in {"transfer", "migrate"} => TransferFacts(d, u, c)
  /\ job[d] = "multisig" => MultisigFacts(d, u, c)

\* An operation in progress, disturbed or not.
Running(d, u) ==
  /\ tries[d] > 0 /\ KindOf(job[d], u.at)
  /\ u.sent \subseteq Past(u.at) \cup (IF u.waits THEN {u.at} ELSE {})
  /\ u.waits => u.at \in u.sent
  /\ u.done \subseteq u.sent \cap Kinds
  /\ u.result = None /\ u.gave = None /\ u.refused = None

Terminal(j, r) ==
  CASE r = "timeout" -> "timed_out" [] r = "error" -> "failed" [] r = "pending" -> "pending"
    [] OTHER -> IF j = "prove" THEN "finished" ELSE "confirmed"

\* An operation that has returned, or was not started.
Ended(d, u) ==
  /\ u.result # None \/ u.gave # None \/ u.refused # None => tries[d] > 0
  /\ job[d] \in Reported /\ u.result # None => u.term = <<Terminal(job[d], u.result)>>
  /\ u.gave # None /\ u.sent \subseteq u.done => u.raced
  /\ u.refused # None /\ u.able => u.raced

\* An operation that is as it should be.
Fine(d, u) ==
  /\ u.at # "idle" => Running(d, u) /\ (~u.raced => Facts(d, u, chain))
  /\ u.at = "idle" => Ended(d, u)
  /\ u.result = "ok" /\ ~u.raced => Effect(d) \/ (job[d] = "factor" /\ u.len = MaxFactors)

Inv == Types /\ ChainOK /\ WayOK /\ \A d \in Devices : Fine(d, dev[d])

-----------------------------------------------------------------------------
(* The records of an operation. *)

\* What a step keeps of an operation: what its messages carry and what was
\* executed, and but for one step everything that was read before.
Keeps(v, u) ==
  /\ v.key = u.key /\ v.signer = u.signer /\ v.target = u.target
  /\ v.expires = u.expires /\ v.done = u.done

Carries(v, u) ==
  Keeps(v, u) /\ v.len = u.len /\ v.need = u.need /\ v.able = u.able /\ v.raced = u.raced

LEMMA IdleOp ==
  /\ Idle \in Ops /\ Failed \in Ops
  /\ Idle.at = "idle" /\ Idle.waits = FALSE /\ Idle.len = 0 /\ Idle.need = {}
  /\ Idle.key = NoKey /\ Idle.signer = NoSigner /\ Idle.target = None /\ Idle.expires = 0
  /\ Idle.result = None /\ Idle.term = <<>> /\ ~Idle.able /\ ~Idle.raced
  /\ Idle.sent = {} /\ Idle.done = {} /\ Idle.gave = None /\ Idle.refused = None
<1>1. None \in Targets /\ None \in Results
  BY DEF Targets, Results
<1>2. NoKey \in Keys /\ NoSigner \in Pairs
  BY DEF NoKey, NoSigner, Keys, Pairs
<1>3. Idle \in Ops
  BY <1>1, <1>2 DEF Idle, Ops
<1>4. Failed \in Ops
  BY <1>3 DEF Failed, Ops, Results
<1> QED BY <1>3, <1>4 DEF Idle

\* An operation that returns keeps everything but its place and result, and
\* ends its milestones with the one that says so.
LEMMA EndOp ==
  ASSUME Types, NEW d \in Devices, NEW r \in Results \ {None},
         job[d] \in Reported /\ r = "timeout" => job[d] = "factor",
         job[d] \in Reported /\ r = "pending" => job[d] \in DeployJobs \cup {"deploy_miner"}
  PROVE  LET v == End(d, r)
             u == dev[d]
         IN  /\ v \in Ops /\ Carries(v, u) /\ v.sent = u.sent
             /\ v.at = "idle" /\ v.result = r /\ v.gave = u.gave /\ v.refused = u.refused
             /\ job[d] \in Reported => v.term = <<Terminal(job[d], r)>>
<1> DEFINE own == EmitOwn(d, r)
           out == EmitDeployOutcome(job[d], r)
           rep == ReportFailure(job[d], r)
           term == IF job[d] \in Reported THEN own \o out \o rep ELSE <<>>
<1>1. /\ own \in {<<>>, <<"confirmed">>, <<"timed_out">>, <<"finished">>}
      /\ out \in {<<>>, <<"confirmed">>, <<"pending">>}
      /\ rep \in {<<>>, <<"failed">>}
  BY DEF EmitOwn, EmitDeployOutcome, ReportFailure
<1>2. ASSUME job[d] \in Reported
      PROVE  \/ own = <<Terminal(job[d], r)>> /\ out = <<>> /\ rep = <<>>
             \/ own = <<>> /\ out = <<Terminal(job[d], r)>> /\ rep = <<>>
             \/ own = <<>> /\ out = <<>> /\ rep = <<Terminal(job[d], r)>>
  <2>1. job[d] \in {"factor", "deploy", "deploy_bare", "deploy_miner", "prove"}
        /\ r \in {"ok", "error", "timeout", "pending"}
    BY <1>2 DEF Results, Reported, None
  <2>2. CASE r = "ok"
    <3>1. Terminal(job[d], r) = IF job[d] = "prove" THEN "finished" ELSE "confirmed"
      BY <2>2 DEF Terminal
    <3>2. rep = <<>>
      BY <2>2 DEF ReportFailure
    <3>3. CASE job[d] = "prove"
      BY <2>2, <3>1, <3>2, <3>3 DEF EmitOwn, EmitDeployOutcome
    <3>4. CASE job[d] = "factor"
      BY <2>2, <3>1, <3>2, <3>4 DEF EmitOwn, EmitDeployOutcome
    <3>5. CASE job[d] \in DeployJobs \cup {"deploy_miner"}
      BY <2>2, <3>1, <3>2, <3>5 DEF EmitOwn, EmitDeployOutcome
    <3> QED BY <2>1, <3>3, <3>4, <3>5
  <2>3. CASE r = "error"
    BY <2>1, <2>3 DEF EmitOwn, EmitDeployOutcome, ReportFailure, Suppressed, Terminal, None
  <2>4. CASE r = "timeout"
    <3>1. job[d] = "factor" /\ Terminal(job[d], r) = "timed_out"
      BY <1>2, <2>4 DEF Terminal
    <3> QED BY <2>4, <3>1 DEF EmitOwn, EmitDeployOutcome, ReportFailure, Suppressed
  <2>5. CASE r = "pending"
    <3>1. job[d] \in DeployJobs \cup {"deploy_miner"} /\ Terminal(job[d], r) = "pending"
      BY <1>2, <2>5 DEF Terminal
    <3> QED BY <2>5, <3>1 DEF EmitOwn, EmitDeployOutcome, ReportFailure
  <2> QED BY <2>1, <2>2, <2>3, <2>4, <2>5
<1>3. \A x : <<>> \o <<x>> = <<x>> /\ <<x>> \o <<>> = <<x>> /\ <<>> \o <<>> = <<>>
  OBVIOUS
<1>4. term \in Seq(Milestones)
  <2>1. own \in Seq(Milestones) /\ out \in Seq(Milestones) /\ rep \in Seq(Milestones)
    <3>1. \A x \in Milestones : <<x>> \in Seq(Milestones)
      OBVIOUS
    <3>2. <<>> \in Seq(Milestones)
      OBVIOUS
    <3> HIDE DEF own, out, rep
    <3>3. {"confirmed", "failed", "pending", "timed_out", "finished"} \subseteq Milestones
      BY DEF Milestones
    <3> QED BY <1>1, <3>1, <3>2, <3>3
  <2> HIDE DEF own, out, rep
  <2> QED BY <2>1, ConcatProperties
<1>5. job[d] \in Reported => term = <<Terminal(job[d], r)>>
  <2> HIDE DEF own, out, rep
  <2> QED BY <1>2, <1>3
<1>6. End(d, r) = [dev[d] EXCEPT !.at = "idle", !.waits = FALSE, !.result = r, !.term = term]
  BY DEF End
<1> HIDE DEF term
<1>7. dev[d] \in Ops
  BY DEF Types
<1> QED BY <1>4, <1>5, <1>6, <1>7 DEF Ops, Carries, Keeps

LEMMA GoOp ==
  ASSUME Types, NEW d \in Devices, NEW kind \in Steps
  PROVE  LET v == Go(d, kind)
             u == dev[d]
         IN  /\ v \in Ops /\ Carries(v, u) /\ v.sent = u.sent /\ v.result = u.result
             /\ v.gave = u.gave /\ v.refused = u.refused
             /\ v.at = kind /\ ~v.waits
<1>1. dev[d] \in Ops
  BY DEF Types
<1> QED BY <1>1 DEF Go, Ops, Carries, Keeps

LEMMA WaitingOp ==
  ASSUME Types, NEW d \in Devices
  PROVE  LET v == Waiting(d)
             u == dev[d]
         IN  /\ v \in Ops /\ Carries(v, u) /\ v.sent = u.sent /\ v.result = u.result
             /\ v.gave = u.gave /\ v.refused = u.refused
             /\ v.at = u.at /\ v.waits
<1>1. dev[d] \in Ops
  BY DEF Types
<1> QED BY <1>1 DEF Waiting, Ops, Carries, Keeps

\* The other changes of a record.
LEMMA ChangedOp ==
  ASSUME NEW u \in Ops, NEW k \in Steps
  PROVE  /\ LET v == [u EXCEPT !.sent = @ \cup {k}]
            IN  /\ v \in Ops /\ Carries(v, u) /\ v.sent = u.sent \cup {k} /\ v.at = u.at
                /\ v.waits = u.waits /\ v.result = u.result /\ v.term = u.term
                /\ v.gave = u.gave /\ v.refused = u.refused
         /\ LET v == [u EXCEPT !.refused = k]
            IN  /\ v \in Ops /\ Carries(v, u) /\ v.sent = u.sent /\ v.at = u.at
                /\ v.waits = u.waits /\ v.result = u.result /\ v.term = u.term
                /\ v.gave = u.gave /\ v.refused = k
         /\ LET v == [u EXCEPT !.gave = k]
            IN  /\ v \in Ops /\ Carries(v, u) /\ v.sent = u.sent /\ v.at = u.at
                /\ v.waits = u.waits /\ v.result = u.result /\ v.term = u.term
                /\ v.gave = k /\ v.refused = u.refused
<1>1. {k} \subseteq Steps
  OBVIOUS
<1> QED BY <1>1 DEF Ops, Carries, Keeps

-----------------------------------------------------------------------------
(* Steps of one device. *)

\* An operation is as it was if neither the contracts nor its run changed.
LEMMA FineSame ==
  ASSUME NEW e \in Devices, UNCHANGED <<chain, job>>, tries'[e] = tries[e]
  PROVE  \A u : Fine(e, u)' <=> Fine(e, u)
<1>1. Effect(e)' <=> Effect(e)
  BY DEF Effect, MultifactorActive, DeployKey, SeedKey, GenMiningKeys
<1>2. \A u : Running(e, u)' <=> Running(e, u)
  BY DEF Running
<1>3. \A u : Ended(e, u)' <=> Ended(e, u)
  BY DEF Ended
<1>4. ASSUME NEW u, NEW c PROVE Facts(e, u, c)' <=> Facts(e, u, c)
  <2>1. DeployFacts(e, u, c)' <=> DeployFacts(e, u, c)
    BY DEF DeployFacts, DeployKey, FlagFacts
  <2>2. FactorFacts(e, u, c)' <=> FactorFacts(e, u, c)
    BY DEF FactorFacts, Password
  <2>3. WhitelistFacts(e, u, c)' <=> WhitelistFacts(e, u, c)
    BY DEF WhitelistFacts
  <2>4. /\ SeedFacts(e, u, c)' <=> SeedFacts(e, u, c)
        /\ UnfactorFacts(e, u, c)' <=> UnfactorFacts(e, u, c)
        /\ ZkidFacts(e, u, c)' <=> ZkidFacts(e, u, c)
        /\ FlagFacts(e, u, c)' <=> FlagFacts(e, u, c)
        /\ TransferFacts(e, u, c)' <=> TransferFacts(e, u, c)
        /\ MultisigFacts(e, u, c)' <=> MultisigFacts(e, u, c)
    BY DEF SeedFacts, UnfactorFacts, ZkidFacts, FlagFacts, TransferFacts, MultisigFacts, SeedKey
  <2> QED BY <2>1, <2>2, <2>3, <2>4 DEF Facts
<1> QED BY <1>1, <1>2, <1>3, <1>4 DEF Fine

LEMMA MessageFacts ==
  ASSUME Types, NEW d \in Devices, dev[d].at \in Kinds
  PROVE  LET m == Message(d)
             u == dev[d]
         IN  /\ m \in Messages /\ m.kind = u.at /\ m.d = d /\ m.try = tries[d]
             /\ m.key = u.key /\ m.signer = u.signer /\ m.target = u.target
             /\ m.expires = u.expires
<1>1. dev[d] \in Ops /\ tries[d] \in Nat
  BY DEF Types
<1> QED BY <1>1 DEF Message, Messages, Ops

\* The device comes to the record v and has put its message on the way or not.
LEMMA Moves ==
  ASSUME Inv, NEW d \in Devices, NEW v \in Ops, Fine(d, v), dev' = [dev EXCEPT ![d] = v],
         UNCHANGED <<chain, job, tries>>, dev[d].at # "idle",
         \/ way' = way
         \/ /\ way' = way \cup {Message(d)} /\ dev[d].at \in Kinds
            /\ v.at # "idle" => dev[d].at \in v.sent /\ dev[d].at \notin v.done,
         v.at # "idle" => Keeps(v, dev[d]) /\ dev[d].sent \subseteq v.sent
  PROVE  Inv'
<1>1. Types /\ dev \in [Devices -> Ops] /\ tries[d] \in Nat
  BY DEF Inv, Types
<1>2. dev' \in [Devices -> Ops] /\ dev'[d] = v /\ \A e \in Devices : e # d => dev'[e] = dev[e]
  BY <1>1
<1>3. way' \subseteq Messages
  BY <1>1, MessageFacts DEF Types
<1>4. Types'
  BY <1>1, <1>2, <1>3 DEF Types
<1>5. ChainOK'
  BY DEF Inv, ChainOK, FactorList, Elements
<1>6. ASSUME NEW e \in Devices PROVE Fine(e, dev[e])'
  <2>1. \A u : Fine(e, u)' <=> Fine(e, u)
    BY FineSame
  <2>2. Fine(e, dev'[e])
    BY <1>2 DEF Inv
  <2> QED BY <2>1, <2>2
<1>7. KindOf(job[d], dev[d].at)
  BY DEF Inv, Fine, Running
<1>8. WayOK'
  <2>1. SUFFICES ASSUME NEW m \in way'
        PROVE  /\ m.try <= tries[m.d]
               /\ m.try = tries[m.d] => KindOf(job[m.d], m.kind)
               /\ m.try = tries[m.d] /\ dev'[m.d].at # "idle" =>
                    /\ m.kind \in dev'[m.d].sent /\ m.kind \notin dev'[m.d].done
                    /\ m.key = dev'[m.d].key /\ m.signer = dev'[m.d].signer
                    /\ m.target = dev'[m.d].target /\ m.expires = dev'[m.d].expires
    BY DEF WayOK, Current, KindOf
  <2>2. m.d \in Devices
    BY <1>3 DEF Messages
  <2>3. CASE m \in way
    <3>1. /\ m.try <= tries[m.d]
          /\ m.try = tries[m.d] => KindOf(job[m.d], m.kind)
          /\ m.try = tries[m.d] /\ dev[m.d].at # "idle" =>
               /\ m.kind \in dev[m.d].sent /\ m.kind \notin dev[m.d].done
               /\ m.key = dev[m.d].key /\ m.signer = dev[m.d].signer
               /\ m.target = dev[m.d].target /\ m.expires = dev[m.d].expires
      BY <2>3 DEF Inv, WayOK, Current
    <3>2. CASE m.d # d
      BY <1>2, <2>2, <3>1, <3>2
    <3>3. CASE m.d = d
      BY <1>2, <3>1, <3>3 DEF Carries, Keeps
    <3> QED BY <3>2, <3>3
  <2>4. CASE m = Message(d) /\ dev[d].at \in Kinds
                /\ (v.at # "idle" => dev[d].at \in v.sent /\ dev[d].at \notin v.done)
    <3>1. /\ m.kind = dev[d].at /\ m.d = d /\ m.try = tries[d]
          /\ m.key = dev[d].key /\ m.signer = dev[d].signer /\ m.target = dev[d].target
          /\ m.expires = dev[d].expires
      BY <1>1, <2>4, MessageFacts
    <3> QED BY <1>1, <1>2, <1>7, <2>4, <3>1 DEF Carries, Keeps
  <2> QED BY <2>3, <2>4
<1> QED BY <1>4, <1>5, <1>6, <1>8 DEF Inv

\* A message is lost or refused.
LEMMA Shrinks ==
  ASSUME Inv, UNCHANGED <<chain, job, tries, dev>>, way' \subseteq way
  PROVE  Inv'
<1>1. Types'
  BY DEF Inv, Types
<1>2. ChainOK'
  BY DEF Inv, ChainOK, FactorList, Elements
<1>3. WayOK'
  BY DEF Inv, WayOK, Current, KindOf
<1>4. ASSUME NEW e \in Devices PROVE Fine(e, dev[e])'
  <2>1. \A u : Fine(e, u)' <=> Fine(e, u)
    BY FineSame
  <2> QED BY <2>1 DEF Inv
<1> QED BY <1>1, <1>2, <1>3, <1>4 DEF Inv

\* An operation that fails.
LEMMA Fails ==
  ASSUME Inv, NEW d \in Devices, dev[d].at # "idle",
         NEW r \in {"error", "timeout", "pending"},
         r = "timeout" => job[d] = "factor",
         r = "pending" => job[d] \in DeployJobs \cup {"deploy_miner"}
  PROVE  LET v == End(d, r)
         IN  /\ v \in Ops /\ v.at = "idle" /\ Fine(d, v)
             /\ \A k \in Steps : (dev[d].able => dev[d].raced) =>
                  /\ [v EXCEPT !.refused = k] \in Ops /\ Fine(d, [v EXCEPT !.refused = k])
                  /\ [v EXCEPT !.refused = k].at = "idle"
             /\ \A k \in Steps : (dev[d].sent \subseteq dev[d].done => dev[d].raced) =>
                  /\ [v EXCEPT !.gave = k] \in Ops /\ Fine(d, [v EXCEPT !.gave = k])
                  /\ [v EXCEPT !.gave = k].at = "idle"
<1> DEFINE u == dev[d]
           v == End(d, r)
<1>1. Types /\ u \in Ops /\ Running(d, u)
  BY DEF Inv, Types, Fine
<1>2. r \in Results \ {None}
  BY DEF Results, None
<1>3. /\ v \in Ops /\ Carries(v, u) /\ v.sent = u.sent
      /\ v.at = "idle" /\ v.result = r /\ v.gave = u.gave /\ v.refused = u.refused
      /\ job[d] \in Reported => v.term = <<Terminal(job[d], r)>>
  BY <1>1, <1>2, EndOp
<1> HIDE DEF v
<1>4. tries[d] > 0 /\ u.gave = None /\ u.refused = None
  BY <1>1 DEF Running
<1>5. Fine(d, v)
  BY <1>3, <1>4 DEF Fine, Ended
<1>6. ASSUME NEW k \in Steps, u.able => u.raced
      PROVE  [v EXCEPT !.refused = k] \in Ops /\ Fine(d, [v EXCEPT !.refused = k])
             /\ [v EXCEPT !.refused = k].at = "idle"
  <2> DEFINE w == [v EXCEPT !.refused = k]
  <2>0. v \in Ops
    BY <1>3
  <2>1. /\ w \in Ops /\ Carries(w, v) /\ w.sent = v.sent /\ w.at = v.at /\ w.result = v.result
        /\ w.term = v.term /\ w.gave = v.gave /\ w.refused = k
    BY <2>0, ChangedOp
  <2> HIDE DEF w
  <2>2. Fine(d, w)
    BY <1>3, <1>4, <1>6, <2>1 DEF Fine, Ended, Carries, Keeps
  <2> QED BY <1>3, <2>1, <2>2 DEF w
<1>7. ASSUME NEW k \in Steps, u.sent \subseteq u.done => u.raced
      PROVE  [v EXCEPT !.gave = k] \in Ops /\ Fine(d, [v EXCEPT !.gave = k])
             /\ [v EXCEPT !.gave = k].at = "idle"
  <2> DEFINE w == [v EXCEPT !.gave = k]
  <2>0. v \in Ops
    BY <1>3
  <2>1. /\ w \in Ops /\ Carries(w, v) /\ w.sent = v.sent /\ w.at = v.at /\ w.result = v.result
        /\ w.term = v.term /\ w.gave = k /\ w.refused = v.refused
    BY <2>0, ChangedOp
  <2> HIDE DEF w
  <2>2. Fine(d, w)
    BY <1>3, <1>4, <1>7, <2>1 DEF Fine, Ended, Carries, Keeps
  <2> QED BY <1>3, <2>1, <2>2 DEF w
<1> QED BY <1>3, <1>5, <1>6, <1>7 DEF v

LEMMA NotPast ==
  ASSUME NEW k \in Steps
  PROVE  k \notin Past(k)
BY DEF Past, Submitted, Steps, Kinds

LEMMA WaitFailedResult ==
  ASSUME NEW d \in Devices, NEW kind, KindOf(job[d], kind), NEW f
  PROVE  LET r == WaitFailed(d, kind, f)
         IN  /\ r \in {"error", "timeout", "pending"} /\ (r = "timeout" => job[d] = "factor")
             /\ r = "pending" => job[d] \in DeployJobs \cup {"deploy_miner"}
BY DEF WaitFailed, KindOf, WhitelistJobs

LEMMA OtherFailedResult ==
  ASSUME NEW d \in Devices, NEW f
  PROVE  LET r == OtherFailed(d, f)
         IN  /\ r \in {"error", "timeout", "pending"} /\ r # "timeout"
             /\ r = "pending" => job[d] \in DeployJobs \cup {"deploy_miner"}
BY DEF OtherFailed

LEMMA SendGood ==
  ASSUME Inv, NEW d \in Devices, NEW kind \in Kinds, NEW after \in Ops, Send(d, kind, after),
         dev[d].able /\ ~dev[d].raced => Accepts(Message(d)),
         after.at # "idle" => Carries(after, dev[d]), after.sent = dev[d].sent,
         Fine(d, [after EXCEPT !.sent = @ \cup {kind}])
  PROVE  Inv'
<1> DEFINE u == dev[d]
           m == Message(d)
           v == [after EXCEPT !.sent = @ \cup {kind}]
<1>1. u.at = kind /\ ~u.waits /\ UNCHANGED <<chain, job, tries>> /\ kind # "idle" /\ kind \in Steps
  BY DEF Send, Kinds, Steps
<1>2. Running(d, u) /\ u \in Ops
  BY <1>1 DEF Inv, Fine, Types
<1>3. kind \notin u.done
  BY <1>1, <1>2, NotPast DEF Running
<1>4. /\ v \in Ops /\ Carries(v, after) /\ v.sent = after.sent \cup {kind} /\ v.at = after.at
  BY <1>1, ChangedOp
<1>5. CASE way' = way \cup {m} /\ dev' = [dev EXCEPT ![d] = v]
  <2>1. v.at # "idle" => Carries(v, u) /\ u.sent \subseteq v.sent /\ kind \in v.sent /\ kind \notin v.done
    BY <1>3, <1>4 DEF Carries, Keeps
  <2> HIDE DEF v
  <2> QED BY <1>1, <1>4, <1>5, <2>1, Moves DEF v, Carries
<1>6. CASE /\ ~Accepts(m) /\ UNCHANGED way
           /\ dev' = [dev EXCEPT ![d] = [End(d, "error") EXCEPT !.refused = kind]]
  <2>1. u.able => u.raced
    BY <1>6
  <2> DEFINE w == [End(d, "error") EXCEPT !.refused = kind]
  <2>2. w \in Ops /\ Fine(d, w) /\ w.at = "idle"
    BY <1>1, <2>1, Fails
  <2> HIDE DEF w
  <2> QED BY <1>1, <1>6, <2>2, Moves DEF w
<1>7. CASE /\ way' \in {way, way \cup {m}}
           /\ \E f \in {"network", "timeout"} : dev' = [dev EXCEPT ![d] = End(d, OtherFailed(d, f))]
  <2>1. PICK f \in {"network", "timeout"} : dev' = [dev EXCEPT ![d] = End(d, OtherFailed(d, f))]
    BY <1>7
  <2> DEFINE w == End(d, OtherFailed(d, f))
  <2>2. w \in Ops /\ Fine(d, w) /\ w.at = "idle"
    BY <1>1, OtherFailedResult, Fails
  <2> HIDE DEF w
  <2> QED BY <1>1, <1>7, <2>1, <2>2, Moves DEF w
<1> QED BY <1>5, <1>6, <1>7 DEF Send, EnsureTxSuccess

LEMMA PollGood ==
  ASSUME Inv, NEW d \in Devices, NEW kind \in Steps, NEW STATE cond, NEW after \in Ops,
         PollUntil(d, kind, cond, after),
         ~dev[d].raced /\ dev[d].sent \subseteq dev[d].done => cond,
         cond => after.sent = dev[d].sent /\ (after.at # "idle" => Keeps(after, dev[d])),
         cond => Fine(d, after)
  PROVE  Inv'
<1> DEFINE u == dev[d]
<1>1. u.at = kind /\ u.waits /\ UNCHANGED <<chain, job, tries, way>> /\ kind # "idle"
  BY DEF PollUntil, Kinds, Steps
<1>2. KindOf(job[d], kind)
  BY <1>1 DEF Inv, Fine, Running
<1>3. CASE cond /\ dev' = [dev EXCEPT ![d] = after]
  <2>1. Fine(d, after) /\ (after.at # "idle" => Keeps(after, u) /\ u.sent \subseteq after.sent)
    BY <1>3
  <2> QED BY <1>1, <1>3, <2>1, Moves
<1>4. CASE /\ ~cond
           /\ dev' = [dev EXCEPT ![d] = [End(d, WaitFailed(d, kind, "attempts")) EXCEPT !.gave = kind]]
  <2>1. u.sent \subseteq u.done => u.raced
    BY <1>4
  <2> DEFINE w == [End(d, WaitFailed(d, kind, "attempts")) EXCEPT !.gave = kind]
  <2>2. w \in Ops /\ Fine(d, w) /\ w.at = "idle"
    BY <1>1, <1>2, <2>1, WaitFailedResult, Fails
  <2> HIDE DEF w
  <2> QED BY <1>1, <1>4, <2>2, Moves DEF w
<1>5. CASE \E f \in {"network", "timeout"} : dev' = [dev EXCEPT ![d] = End(d, WaitFailed(d, kind, f))]
  <2>1. PICK f \in {"network", "timeout"} : dev' = [dev EXCEPT ![d] = End(d, WaitFailed(d, kind, f))]
    BY <1>5
  <2> DEFINE w == End(d, WaitFailed(d, kind, f))
  <2>2. w \in Ops /\ Fine(d, w) /\ w.at = "idle"
    BY <1>1, <1>2, WaitFailedResult, Fails
  <2> HIDE DEF w
  <2> QED BY <1>1, <2>1, <2>2, Moves DEF w
<1> QED BY <1>3, <1>4, <1>5 DEF PollUntil

LEMMA ReadFailsGood ==
  ASSUME Inv, NEW d \in Devices, ReadFails(d)
  PROVE  Inv'
<1>1. dev[d].at # "idle" /\ UNCHANGED <<chain, way, job, tries>>
  BY DEF ReadFails
<1>2. PICK f \in {"network", "timeout"} : dev' = [dev EXCEPT ![d] = End(d, OtherFailed(d, f))]
  BY DEF ReadFails
<1> DEFINE w == End(d, OtherFailed(d, f))
<1>3. w \in Ops /\ Fine(d, w) /\ w.at = "idle"
  BY <1>1, OtherFailedResult, Fails
<1> HIDE DEF w
<1> QED BY <1>1, <1>2, <1>3, Moves DEF w

LEMMA CrashGood ==
  ASSUME Inv, NEW d \in Devices, Crash(d)
  PROVE  Inv'
<1> DEFINE v == [Idle EXCEPT !.raced = dev[d].raced]
<1>1. dev[d].at # "idle" /\ UNCHANGED <<chain, way, job, tries>> /\ dev' = [dev EXCEPT ![d] = v]
  BY DEF Crash
<1>2. dev[d].raced \in BOOLEAN
  BY DEF Inv, Types, Ops
<1>3. /\ v \in Ops /\ v.at = "idle" /\ v.result = None /\ v.gave = None /\ v.refused = None
  BY <1>2, IdleOp DEF Ops
<1> HIDE DEF v
<1>4. Fine(d, v)
  BY <1>3 DEF Fine, Ended, None
<1> QED BY <1>1, <1>3, <1>4, Moves

\* A run in progress.
LEMMA InProgress ==
  ASSUME Inv, NEW d \in Devices, dev[d].at # "idle"
  PROVE  LET u == dev[d]
         IN  /\ u \in Ops /\ Running(d, u) /\ KindOf(job[d], u.at) /\ u.at \in Steps
             /\ u.result = None /\ u.gave = None /\ u.refused = None
             /\ ~u.raced => Facts(d, u, chain)
             /\ ~u.waits => u.at \notin u.sent /\ u.at \notin u.done
             /\ u.waits /\ u.sent \subseteq u.done => u.at \in u.done
<1>1. dev[d] \in Ops /\ Running(d, dev[d]) /\ (~dev[d].raced => Facts(d, dev[d], chain))
  BY DEF Inv, Types, Fine
<1>2. dev[d].at \in Steps
  BY <1>1 DEF Ops
<1> QED BY <1>1, <1>2, NotPast DEF Running

\* No step of an undisturbed operation sends a message the contract refuses.
LEMMA Acceptable ==
  ASSUME Inv, NEW d \in Devices, dev[d].at \in Kinds, ~dev[d].waits, dev[d].able,
         ~dev[d].raced, dev[d].at = "deploy_multisig" => chain.multisig # "active"
  PROVE  Accepts(Message(d))
<1> DEFINE u == dev[d]
           m == Message(d)
<1> SUFFICES Accepts(m)
  OBVIOUS
<1>1. dev[d].at # "idle" /\ Types
  BY DEF Inv, Kinds
<1>2. /\ m.kind = u.at /\ m.d = d /\ m.key = u.key /\ m.signer = u.signer /\ m.target = u.target
  BY <1>1, MessageFacts
<1>3. KindOf(job[d], u.at) /\ Facts(d, u, chain) /\ u.at \notin u.sent /\ u.at \notin u.done
      /\ u.sent \subseteq Past(u.at) /\ u.done \subseteq u.sent
  BY <1>1, InProgress DEF Running
<1> HIDE DEF m, u
<1>4. CASE job[d] = "seed"
  BY <1>2, <1>3, <1>4 DEF Facts, SeedFacts, KindOf, Accepts, SignedJobs, WhitelistJobs,
     NotOnWallet, EpkSigned, OwnerSigned, Submitted, u
<1>5. CASE job[d] = "factor"
  BY <1>2, <1>3, <1>5 DEF Facts, FactorFacts, KindOf, Accepts, WhitelistJobs,
     NotOnWallet, EpkSigned, OwnerSigned, Submitted, u
<1>6. CASE job[d] = "unfactor"
  BY <1>2, <1>3, <1>6 DEF Facts, UnfactorFacts, KindOf, Accepts, WhitelistJobs,
     NotOnWallet, EpkSigned, OwnerSigned, Submitted, u
<1>7. CASE job[d] = "zkid"
  BY <1>2, <1>3, <1>7 DEF Facts, ZkidFacts, KindOf, Accepts, WhitelistJobs,
     NotOnWallet, EpkSigned, OwnerSigned, Submitted, u
<1>8. CASE job[d] \in {"flags"} \cup DeployJobs
  BY <1>2, <1>3, <1>8 DEF Facts, FlagFacts, DeployFacts, KindOf, Accepts, WhitelistJobs,
     NotOnWallet, EpkSigned, OwnerSigned, Submitted, u
<1>9. CASE job[d] \in WhitelistJobs
  <2>1. chain.deployed /\ d \in Elements(chain.factors) /\ WhitelistFacts(d, u, chain)
    BY <1>3, <1>9 DEF Facts, SignedJobs
  <2>2. CASE u.at \in {"clean_whitelist", "update_whitelist"}
    BY <1>2, <2>1, <2>2 DEF Accepts, NotOnWallet, EpkSigned, OwnerSigned, Submitted
  <2>3. CASE u.at \notin {"clean_whitelist", "update_whitelist"}
    <3>1. u.at = SubmittedBy(job[d]) /\ u.at \in Submitted
      BY <1>3, <1>9, <2>3 DEF KindOf, SubmittedBy, WhitelistJobs, Submitted
    <3>2. Target(u.at) \in chain.whitelist
      BY <2>1, <2>3, <3>1 DEF WhitelistFacts
    <3>3. u.at \in {"set_owner_public", "remove_owner_public"} => chain.miner
      BY <1>3, <1>9, <2>1, <3>1 DEF WhitelistFacts, KindOf, WhitelistJobs
    <3> QED BY <1>2, <2>1, <3>1, <3>2, <3>3 DEF Accepts, NotOnWallet, EpkSigned, OwnerSigned, Submitted
  <2> QED BY <2>2, <2>3
<1>10. CASE job[d] \in {"transfer", "migrate", "submit", "redeem", "direct"}
  BY <1>2, <1>3, <1>10 DEF Facts, TransferFacts, KindOf, Accepts, SignedJobs, WhitelistJobs,
     NotOnWallet, EpkSigned, OwnerSigned, Submitted, u
<1>11. CASE job[d] = "multisig"
  <2>1. chain.multisig \in {"none", "uninit", "active"}
    BY <1>1 DEF Types, Chains
  <2> QED BY <1>2, <1>3, <1>11, <2>1 DEF Facts, MultisigFacts, KindOf, Accepts, WhitelistJobs,
     NotOnWallet, EpkSigned, OwnerSigned, Submitted, u
<1>12. CASE job[d] \in {"prove", "await_key", "none"}
  BY <1>3, <1>12 DEF KindOf, WhitelistJobs, u, Kinds
<1> QED BY <1>1, <1>4, <1>5, <1>6, <1>7, <1>8, <1>9, <1>10, <1>11, <1>12
        DEF Types, AllJobs, WhitelistJobs

\* It waits for what it has sent.
LEMMA WaitsFine ==
  ASSUME Inv, NEW d \in Devices, dev[d].at \in Kinds, ~dev[d].waits,
         dev[d].at = "set_force_remove_oldest" => "set_wasm_hash" \notin dev[d].need
  PROVE  /\ Waiting(d) \in Ops /\ Waiting(d).sent = dev[d].sent /\ Carries(Waiting(d), dev[d])
         /\ Fine(d, [Waiting(d) EXCEPT !.sent = @ \cup {dev[d].at}])
<1> DEFINE u == dev[d]
           w == Waiting(d)
           v == [w EXCEPT !.sent = @ \cup {u.at}]
<1>1. dev[d].at # "idle" /\ Types /\ u.at \in Steps
  BY DEF Inv, Kinds, Steps
<1>2. /\ w \in Ops /\ Carries(w, u) /\ w.sent = u.sent /\ w.result = u.result
      /\ w.gave = u.gave /\ w.refused = u.refused /\ w.at = u.at /\ w.waits
  BY <1>1, WaitingOp
<1> HIDE DEF w
<1>3. /\ v \in Ops /\ Carries(v, w) /\ v.sent = w.sent \cup {u.at} /\ v.at = w.at
      /\ v.waits = w.waits /\ v.result = w.result /\ v.gave = w.gave /\ v.refused = w.refused
  BY <1>1, <1>2, ChangedOp
<1> HIDE DEF v
<1>4. /\ v.sent = u.sent \cup {u.at} /\ v.at = u.at /\ v.waits /\ Carries(v, u)
      /\ v.result = u.result /\ v.gave = u.gave /\ v.refused = u.refused
  BY <1>2, <1>3 DEF Carries, Keeps
<1>5. Running(d, u) /\ (~u.raced => Facts(d, u, chain)) /\ u.result = None
  BY <1>1, InProgress
<1>6. Running(d, v)
  BY <1>4, <1>5 DEF Running, Carries, Keeps
<1>7. ASSUME ~u.raced PROVE Facts(d, v, chain)
  <2>1. Facts(d, u, chain)
    BY <1>5, <1>7
  <2>2. SeedFacts(d, u, chain) => SeedFacts(d, v, chain)
    BY <1>4 DEF SeedFacts, Carries, Keeps
  <2>3. FactorFacts(d, u, chain) => FactorFacts(d, v, chain)
    BY <1>4 DEF FactorFacts, Carries, Keeps
  <2>4. UnfactorFacts(d, u, chain) => UnfactorFacts(d, v, chain)
    BY <1>4 DEF UnfactorFacts, Carries, Keeps
  <2>5. ZkidFacts(d, u, chain) => ZkidFacts(d, v, chain)
    BY <1>4 DEF ZkidFacts, Carries, Keeps
  <2>6. FlagFacts(d, u, chain) => FlagFacts(d, v, chain)
    BY <1>4 DEF FlagFacts, Carries, Keeps
  <2>7. DeployFacts(d, u, chain) => DeployFacts(d, v, chain)
    BY <1>4, <2>6 DEF DeployFacts, Carries, Keeps
  <2>8. WhitelistFacts(d, u, chain) => WhitelistFacts(d, v, chain)
    BY <1>4 DEF WhitelistFacts, Carries, Keeps
  <2>9. TransferFacts(d, u, chain) => TransferFacts(d, v, chain)
    BY <1>4 DEF TransferFacts, Carries, Keeps
  <2>10. MultisigFacts(d, u, chain) => MultisigFacts(d, v, chain)
    BY <1>4 DEF MultisigFacts, Carries, Keeps
  <2> QED BY <2>1, <2>2, <2>3, <2>4, <2>5, <2>6, <2>7, <2>8, <2>9, <2>10 DEF Facts
<1>8. Fine(d, v)
  BY <1>1, <1>4, <1>5, <1>6, <1>7 DEF Fine, Carries, Keeps, None
<1> QED BY <1>2, <1>8 DEF v, w

\* It goes on with the next message.
LEMMA GoesOn ==
  ASSUME Inv, NEW d \in Devices, dev[d].at # "idle", NEW kind \in Steps, kind # "idle",
         KindOf(job[d], kind), dev[d].sent \cup {dev[d].at} \subseteq Past(kind),
         ~dev[d].raced => Facts(d, Go(d, kind), chain)
  PROVE  /\ Go(d, kind) \in Ops /\ Go(d, kind).sent = dev[d].sent /\ Carries(Go(d, kind), dev[d])
         /\ Fine(d, Go(d, kind))
<1> DEFINE w == Go(d, kind)
           u == dev[d]
<1>1. /\ w \in Ops /\ Carries(w, u) /\ w.sent = u.sent /\ w.result = u.result
      /\ w.gave = u.gave /\ w.refused = u.refused /\ w.at = kind /\ ~w.waits
  BY GoOp DEF Inv
<1>2. Running(d, u) /\ u.result = None
  BY InProgress
<1> HIDE DEF w
<1>3. Running(d, w)
  BY <1>1, <1>2 DEF Running, Carries, Keeps
<1>4. Fine(d, w)
  BY <1>1, <1>2, <1>3 DEF Fine, Carries, Keeps, None, w
<1> QED BY <1>1, <1>4 DEF w

\* It returns with success.
LEMMA Returns ==
  ASSUME Inv, NEW d \in Devices, dev[d].at # "idle",
         ~dev[d].raced => Effect(d) \/ (job[d] = "factor" /\ dev[d].len = MaxFactors)
  PROVE  LET v == End(d, "ok")
         IN  /\ v \in Ops /\ v.sent = dev[d].sent /\ v.at = "idle" /\ Fine(d, v)
             /\ \A k \in Steps : Fine(d, [v EXCEPT !.sent = @ \cup {k}])
<1> DEFINE u == dev[d]
           v == End(d, "ok")
<1>1. Types /\ "ok" \in Results \ {None}
  BY DEF Inv, Results, None
<1>2. /\ v \in Ops /\ Carries(v, u) /\ v.sent = u.sent
      /\ v.at = "idle" /\ v.result = "ok" /\ v.gave = u.gave /\ v.refused = u.refused
      /\ job[d] \in Reported => v.term = <<Terminal(job[d], "ok")>>
  BY <1>1, EndOp
<1> HIDE DEF v
<1>3. tries[d] > 0 /\ u.gave = None /\ u.refused = None
  BY InProgress DEF Running
<1>4. Fine(d, v)
  BY <1>2, <1>3 DEF Fine, Ended, Carries, Keeps
<1>5. ASSUME NEW k \in Steps PROVE Fine(d, [v EXCEPT !.sent = @ \cup {k}])
  <2> DEFINE w == [v EXCEPT !.sent = @ \cup {k}]
  <2>1. /\ Carries(w, v) /\ w.at = v.at /\ w.result = v.result
        /\ w.term = v.term /\ w.gave = v.gave /\ w.refused = v.refused
    BY <1>2, ChangedOp
  <2> HIDE DEF w
  <2>2. Fine(d, w)
    BY <1>2, <1>3, <2>1 DEF Fine, Ended, Carries, Keeps
  <2> QED BY <2>2 DEF w
<1> QED BY <1>2, <1>4, <1>5 DEF v

-----------------------------------------------------------------------------
(* The steps of each job. *)

\* A message is sent and waited for.
LEMMA SendWaits ==
  ASSUME Inv, NEW d \in Devices, NEW kind \in Kinds, Send(d, kind, Waiting(d)),
         kind = "deploy_multisig" => chain.multisig # "active",
         kind = "set_force_remove_oldest" => "set_wasm_hash" \notin dev[d].need
  PROVE  Inv'
<1>1. dev[d].at = kind /\ ~dev[d].waits
  BY DEF Send
<1>2. /\ Waiting(d) \in Ops /\ Waiting(d).sent = dev[d].sent /\ Carries(Waiting(d), dev[d])
      /\ Fine(d, [Waiting(d) EXCEPT !.sent = @ \cup {kind}])
  BY <1>1, WaitsFine
<1>3. dev[d].able /\ ~dev[d].raced => Accepts(Message(d))
  BY <1>1, Acceptable
<1> QED BY <1>2, <1>3, SendGood

\* The last message of a job that does not wait for it.
LEMMA SendReturns ==
  ASSUME Inv, NEW d \in Devices, NEW kind \in Kinds, Send(d, kind, End(d, "ok")),
         kind # "deploy_multisig", ~dev[d].raced => Effect(d)
  PROVE  Inv'
<1>1. dev[d].at = kind /\ ~dev[d].waits /\ kind # "idle" /\ kind \in Steps
  BY DEF Send, Kinds, Steps
<1>2. LET v == End(d, "ok")
      IN  /\ v \in Ops /\ v.sent = dev[d].sent /\ v.at = "idle"
          /\ Fine(d, [v EXCEPT !.sent = @ \cup {kind}])
  BY <1>1, Returns
<1>3. dev[d].able /\ ~dev[d].raced => Accepts(Message(d))
  BY <1>1, Acceptable
<1> QED BY <1>2, <1>3, SendGood

\* A wait in progress.
LEMMA Waits ==
  ASSUME Inv, NEW d \in Devices, NEW kind \in Steps, NEW cond, NEW after,
         PollUntil(d, kind, cond, after)
  PROVE  LET u == dev[d]
         IN  /\ u \in Ops /\ u.at = kind /\ u.waits /\ u.at # "idle" /\ KindOf(job[d], kind)
             /\ ~u.raced => Facts(d, u, chain)
             /\ u.sent \subseteq u.done => kind \in u.done
             /\ u.sent \subseteq Past(kind) \cup {kind} /\ u.done \subseteq u.sent \cap Kinds
<1>1. dev[d].at = kind /\ dev[d].waits /\ kind # "idle"
  BY DEF PollUntil, Steps, Kinds
<1> QED BY <1>1, InProgress DEF Running

\* The wait ends with the next message.
LEMMA PollGoesOn ==
  ASSUME Inv, NEW d \in Devices, NEW kind \in Kinds, NEW next \in Kinds, NEW STATE cond,
         PollUntil(d, kind, cond, Go(d, next)),
         KindOf(job[d], next), Past(kind) \cup {kind} \subseteq Past(next),
         ~dev[d].raced /\ kind \in dev[d].done => cond,
         ~dev[d].raced /\ cond => Facts(d, Go(d, next), chain)
  PROVE  Inv'
<1>0. kind \in Steps /\ next \in Steps /\ next # "idle"
  BY DEF Steps, Kinds
<1>1. LET u == dev[d]
      IN  /\ u.at = kind /\ u.at # "idle" /\ (u.sent \subseteq u.done => kind \in u.done)
          /\ u.sent \subseteq Past(kind) \cup {kind}
  BY <1>0, Waits
<1>2. Go(d, next) \in Ops
  BY <1>0, GoOp DEF Inv
<1>3. cond => /\ Go(d, next).sent = dev[d].sent /\ Carries(Go(d, next), dev[d])
              /\ Fine(d, Go(d, next))
  BY <1>0, <1>1, GoesOn
<1> QED BY <1>0, <1>1, <1>2, <1>3, PollGood DEF Carries

\* The wait ends the job.
LEMMA PollReturns ==
  ASSUME Inv, NEW d \in Devices, NEW kind \in Steps, NEW STATE cond,
         PollUntil(d, kind, cond, End(d, "ok")),
         ~dev[d].raced /\ dev[d].sent \subseteq dev[d].done => cond,
         ~dev[d].raced /\ cond => Effect(d) \/ (job[d] = "factor" /\ dev[d].len = MaxFactors)
  PROVE  Inv'
<1>1. dev[d].at # "idle"
  BY Waits
<1>2. End(d, "ok") \in Ops
  <2>1. "ok" \in Results \ {None}
    BY DEF Results, None
  <2> QED BY <2>1, EndOp DEF Inv
<1>3. cond => LET v == End(d, "ok") IN v.sent = dev[d].sent /\ v.at = "idle" /\ Fine(d, v)
  BY <1>1, Returns
<1> QED BY <1>2, <1>3, PollGood

LEMMA DeleteCandidateGood ==
  ASSUME Inv, NEW d \in Devices, DeleteCandidateAndWait(d)
  PROVE  Inv'
<1> DEFINE k == "delete_candidate"
           w == Go(d, "change_seed_phrase")
           cond == ~HasCandidateSeedPhrase
<1>0. k \in Kinds /\ k \in Steps /\ "change_seed_phrase" \in Kinds /\ "change_seed_phrase" \in Steps
  BY DEF Kinds, Steps
<1>1. CASE Send(d, k, Waiting(d))
  BY <1>0, <1>1, SendWaits
<1>2. CASE PollUntil(d, k, cond, w)
  <2>1. LET u == dev[d]
        IN  /\ u.at = k /\ u.waits /\ KindOf(job[d], k) /\ (~u.raced => Facts(d, u, chain))
            /\ u.sent \subseteq Past(k) \cup {k} /\ u.done \subseteq u.sent
    BY <1>0, <1>2, Waits
  <2>2. job[d] = "seed"
    BY <2>1 DEF KindOf, WhitelistJobs
  <2>3. /\ KindOf(job[d], "change_seed_phrase") /\ Past(k) \cup {k} \subseteq Past("change_seed_phrase")
        /\ Past(k) = {}
    BY <2>2 DEF KindOf, Past, Submitted
  <2>4. w.at = "change_seed_phrase" /\ Carries(w, dev[d]) /\ w.sent = dev[d].sent
    BY <1>0, GoOp DEF Inv
  <2> HIDE DEF w
  <2>5. ~dev[d].raced /\ k \in dev[d].done => cond
    BY <2>1, <2>2 DEF Facts, SeedFacts, HasCandidateSeedPhrase
  <2>6. ~dev[d].raced /\ cond => Facts(d, w, chain)
    BY <2>1, <2>2, <2>3, <2>4 DEF Facts, SeedFacts, HasCandidateSeedPhrase, Carries, Keeps, WhitelistJobs
  <2> HIDE DEF cond
  <2> QED BY <1>0, <1>2, <2>3, <2>5, <2>6, PollGoesOn DEF w
<1> QED BY <1>1, <1>2 DEF DeleteCandidateAndWait, SendAndWait

LEMMA SubmitChangeGood ==
  ASSUME Inv, NEW d \in Devices, SubmitChangeSeedPhrase(d)
  PROVE  Inv'
<1> DEFINE k == "change_seed_phrase"
           u == dev[d]
           cond == HasCandidateSeedPhrase
           after == IF ResolveRecoverySigner(d, u.signer) # {} THEN Go(d, "accept_candidate")
                                                              ELSE End(d, "error")
<1>0. k \in Kinds /\ k \in Steps /\ "accept_candidate" \in Kinds /\ "accept_candidate" \in Steps
      /\ "accept_candidate" # "idle"
  BY DEF Kinds, Steps
<1>1. CASE Send(d, k, Waiting(d))
  BY <1>0, <1>1, SendWaits
<1>2. CASE PollUntil(d, k, cond, after)
  <2>1. /\ u.at = k /\ u.at # "idle" /\ KindOf(job[d], k) /\ (~u.raced => Facts(d, u, chain))
        /\ u.sent \subseteq Past(k) \cup {k} /\ u.done \subseteq u.sent
        /\ u.sent \subseteq u.done => k \in u.done
    BY <1>0, <1>2, Waits
  <2>2. job[d] = "seed" /\ None # d
    BY <2>1, WalletAssumption DEF KindOf, WhitelistJobs
  <2>3. ~u.raced /\ u.sent \subseteq u.done => cond
    BY <2>1, <2>2 DEF Facts, SeedFacts, HasCandidateSeedPhrase
  <2>4. CASE after = Go(d, "accept_candidate")
    <3> DEFINE w == Go(d, "accept_candidate")
    <3>1. /\ KindOf(job[d], "accept_candidate") /\ Past(k) \cup {k} \subseteq Past("accept_candidate")
          /\ "accept_candidate" \notin u.sent
      BY <2>1, <2>2 DEF KindOf, Past, Submitted
    <3>2. w.at = "accept_candidate" /\ Carries(w, u) /\ w.sent = u.sent /\ w \in Ops
      BY <1>0, GoOp DEF Inv
    <3> HIDE DEF w
    <3>3. ~u.raced /\ cond => Facts(d, w, chain)
      BY <2>1, <2>2, <3>1, <3>2
      DEF Facts, SeedFacts, HasCandidateSeedPhrase, Carries, Keeps, WhitelistJobs
    <3>4. cond => Fine(d, w)
      <4> HIDE DEF cond
      <4>1. u.sent \cup {u.at} \subseteq Past("accept_candidate")
        BY <2>1, <3>1
      <4> QED BY <1>0, <2>1, <3>1, <3>3, <4>1, GoesOn DEF w
    <3> HIDE DEF cond
    <3> QED BY <1>0, <1>2, <2>3, <2>4, <3>2, <3>4, PollGood DEF w, Carries
  <2>5. CASE after = End(d, "error")
    <3> DEFINE v == End(d, "error")
    <3>1. v \in Ops /\ v.at = "idle" /\ Fine(d, v)
      BY <2>1, Fails
    <3>2. v.sent = u.sent
      <4>1. "error" \in Results \ {None}
        BY DEF Results, None
      <4> QED BY <4>1, EndOp DEF Inv
    <3> HIDE DEF v, cond
    <3> QED BY <1>0, <1>2, <2>3, <2>5, <3>1, <3>2, PollGood DEF v
  <2> QED BY <2>4, <2>5
<1> QED BY <1>1, <1>2 DEF SubmitChangeSeedPhrase, SendAndWait

LEMMA AcceptCandidateGood ==
  ASSUME Inv, NEW d \in Devices, AcceptCandidateAndWait(d)
  PROVE  Inv'
<1> DEFINE k == "accept_candidate"
           u == dev[d]
           cond == chain.owner = SeedKey(d)
<1>0. k \in Kinds /\ k \in Steps
  BY DEF Kinds, Steps
<1>1. CASE Send(d, k, Waiting(d))
  BY <1>0, <1>1, SendWaits
<1>2. CASE PollUntil(d, k, cond, End(d, "ok"))
  <2>1. /\ u.at = k /\ KindOf(job[d], k) /\ (~u.raced => Facts(d, u, chain))
        /\ u.sent \subseteq u.done => k \in u.done
    BY <1>0, <1>2, Waits
  <2>2. job[d] = "seed"
    BY <2>1 DEF KindOf, WhitelistJobs
  <2>3. ~u.raced /\ u.sent \subseteq u.done => cond
    BY <2>1, <2>2 DEF Facts, SeedFacts
  <2>4. cond => Effect(d)
    BY <2>2 DEF Effect
  <2> HIDE DEF cond
  <2> QED BY <1>0, <1>2, <2>3, <2>4, PollReturns
<1> QED BY <1>1, <1>2 DEF AcceptCandidateAndWait, SendAndWait

LEMMA AddJwkModulusGood ==
  ASSUME Inv, NEW d \in Devices, AddJwkModulus(d)
  PROVE  Inv'
<1> DEFINE k == "add_jwk_modulus"
           u == dev[d]
           w == Go(d, "add_zkp_factor")
           cond == chain.jwk > 0
<1>0. k \in Kinds /\ k \in Steps /\ "add_zkp_factor" \in Kinds /\ "add_zkp_factor" \in Steps
  BY DEF Kinds, Steps
<1>1. CASE Send(d, k, Waiting(d))
  BY <1>0, <1>1, SendWaits
<1>2. CASE PollUntil(d, k, cond, w)
  <2>1. /\ u.at = k /\ KindOf(job[d], k) /\ (~u.raced => Facts(d, u, chain))
        /\ u.sent \subseteq Past(k) \cup {k} /\ u.done \subseteq u.sent
    BY <1>0, <1>2, Waits
  <2>2. job[d] = "factor"
    BY <2>1 DEF KindOf, WhitelistJobs
  <2>3. /\ KindOf(job[d], "add_zkp_factor") /\ Past(k) \cup {k} \subseteq Past("add_zkp_factor")
        /\ Past(k) = {}
    BY <2>2 DEF KindOf, Past, Submitted
  <2>4. w.at = "add_zkp_factor" /\ Carries(w, u) /\ w.sent = u.sent
    BY <1>0, GoOp DEF Inv
  <2> HIDE DEF w
  <2>5. ~u.raced /\ k \in u.done => cond
    BY <2>1, <2>2 DEF Facts, FactorFacts
  <2>6. ~u.raced /\ cond => Facts(d, w, chain)
    BY <2>1, <2>2, <2>3, <2>4 DEF Facts, FactorFacts, Carries, Keeps, WhitelistJobs, SignedJobs
  <2> HIDE DEF cond
  <2> QED BY <1>0, <1>2, <2>3, <2>5, <2>6, PollGoesOn DEF w
<1> QED BY <1>1, <1>2 DEF AddJwkModulus, SendAndWait

LEMMA ConfirmFactorGood ==
  ASSUME Inv, NEW d \in Devices, ConfirmFactorIncrement(d)
  PROVE  Inv'
<1> DEFINE k == "add_zkp_factor"
           u == dev[d]
           cond == Len(chain.factors) = TargetFactorsLen(u.len)
<1>0. k \in Kinds /\ k \in Steps
  BY DEF Kinds, Steps
<1>1. CASE Send(d, k, Waiting(d))
  BY <1>0, <1>1, SendWaits
<1>2. CASE PollUntil(d, k, cond, End(d, "ok"))
  <2>1. /\ u.at = k /\ KindOf(job[d], k) /\ (~u.raced => Facts(d, u, chain))
        /\ u.sent \subseteq u.done => k \in u.done
    BY <1>0, <1>2, Waits
  <2>2. job[d] = "factor"
    BY <2>1 DEF KindOf, WhitelistJobs
  <2>3. ~u.raced /\ u.sent \subseteq u.done => cond
    BY <2>1, <2>2 DEF Facts, FactorFacts
  <2>4. ~u.raced /\ cond => Effect(d) \/ (job[d] = "factor" /\ u.len = MaxFactors)
    <3>1. ASSUME ~u.raced, cond, k \notin u.done PROVE u.len = MaxFactors
      <4>1. u.len = TargetFactorsLen(u.len)
        BY <2>1, <2>2, <3>1 DEF Facts, FactorFacts
      <4>2. u.len \in Int /\ MaxFactors \in Int
        BY WalletAssumption DEF Inv, Types, Ops
      <4> HIDE DEF u
      <4> QED BY <4>1, <4>2 DEF TargetFactorsLen
    <3>2. ASSUME ~u.raced, k \in u.done PROVE Effect(d)
      <4>1. d \in Elements(chain.factors)
        BY <2>1, <2>2, <3>2 DEF Facts, FactorFacts
      <4> QED BY <2>2, <4>1 DEF Effect
    <3> HIDE DEF cond
    <3> QED BY <2>2, <3>1, <3>2
  <2> HIDE DEF cond
  <2> QED BY <1>0, <1>2, <2>3, <2>4, PollReturns
<1> QED BY <1>1, <1>2 DEF ConfirmFactorIncrement, SendAndWait

LEMMA DeleteFactorGood ==
  ASSUME Inv, NEW d \in Devices, DeleteZkpFactorAndWait(d)
  PROVE  Inv'
<1> DEFINE k == "delete_zkp_factor"
           u == dev[d]
           cond == Len(chain.factors) = u.len - 1
<1>0. k \in Kinds /\ k \in Steps
  BY DEF Kinds, Steps
<1>1. CASE Send(d, k, Waiting(d))
  BY <1>0, <1>1, SendWaits
<1>2. CASE PollUntil(d, k, cond, End(d, "ok"))
  <2>1. /\ u.at = k /\ KindOf(job[d], k) /\ (~u.raced => Facts(d, u, chain))
        /\ u.sent \subseteq u.done => k \in u.done
    BY <1>0, <1>2, Waits
  <2>2. job[d] = "unfactor" /\ u.len \in Int
    BY <2>1 DEF KindOf, WhitelistJobs, Inv, Types, Ops
  <2>3. ~u.raced /\ u.sent \subseteq u.done => cond
    BY <2>1, <2>2 DEF Facts, UnfactorFacts
  <2>4. ASSUME ~u.raced, cond PROVE Effect(d)
    <3>1. UnfactorFacts(d, u, chain)
      BY <2>1, <2>2, <2>4 DEF Facts
    <3>2. d \notin Elements(chain.factors)
      BY <2>2, <2>4, <3>1 DEF UnfactorFacts
    <3> QED BY <2>2, <3>2 DEF Effect
  <2> HIDE DEF cond
  <2> QED BY <1>0, <1>2, <2>3, <2>4, PollReturns
<1> QED BY <1>1, <1>2 DEF DeleteZkpFactorAndWait, SendAndWait

LEMMA UpdateZkIdGood ==
  ASSUME Inv, NEW d \in Devices, UpdateZkIdAndWait(d)
  PROVE  Inv'
<1> DEFINE k == "update_zk_id"
           u == dev[d]
           w == Go(d, "update_recovery_phrase")
           cond == chain.zkid = Password(d)
<1>0. k \in Kinds /\ k \in Steps /\ "update_recovery_phrase" \in Kinds
      /\ "update_recovery_phrase" \in Steps
  BY DEF Kinds, Steps
<1>1. CASE Send(d, k, Waiting(d))
  BY <1>0, <1>1, SendWaits
<1>2. CASE PollUntil(d, k, cond, w)
  <2>1. /\ u.at = k /\ KindOf(job[d], k) /\ (~u.raced => Facts(d, u, chain))
        /\ u.sent \subseteq Past(k) \cup {k} /\ u.done \subseteq u.sent
    BY <1>0, <1>2, Waits
  <2>2. job[d] = "zkid" /\ Password(d) = "new"
    BY <2>1 DEF KindOf, WhitelistJobs, Password
  <2>3. /\ KindOf(job[d], "update_recovery_phrase")
        /\ Past(k) \cup {k} \subseteq Past("update_recovery_phrase") /\ Past(k) = {}
    BY <2>2 DEF KindOf, Past, Submitted
  <2>4. w.at = "update_recovery_phrase" /\ Carries(w, u) /\ w.sent = u.sent
    BY <1>0, GoOp DEF Inv
  <2> HIDE DEF w
  <2>5. ~u.raced /\ k \in u.done => cond
    BY <2>1, <2>2 DEF Facts, ZkidFacts
  <2>6. ~u.raced /\ cond => Facts(d, w, chain)
    BY <2>1, <2>2, <2>3, <2>4 DEF Facts, ZkidFacts, Carries, Keeps, WhitelistJobs, SignedJobs
  <2> HIDE DEF cond
  <2> QED BY <1>0, <1>2, <2>3, <2>5, <2>6, PollGoesOn DEF w
<1> QED BY <1>1, <1>2 DEF UpdateZkIdAndWait, SendAndWait

LEMMA UpdateRecoveryGood ==
  ASSUME Inv, NEW d \in Devices, UpdateRecoveryPhraseAndWait(d)
  PROVE  Inv'
<1> DEFINE k == "update_recovery_phrase"
           u == dev[d]
           cond == chain.pub_recovery_key = BuildRecoveryKeys(Password(d))
<1>0. k \in Kinds /\ k \in Steps
  BY DEF Kinds, Steps
<1>1. CASE Send(d, k, Waiting(d))
  BY <1>0, <1>1, SendWaits
<1>2. CASE PollUntil(d, k, cond, End(d, "ok"))
  <2>1. /\ u.at = k /\ KindOf(job[d], k) /\ (~u.raced => Facts(d, u, chain))
        /\ u.sent \subseteq u.done => k \in u.done
    BY <1>0, <1>2, Waits
  <2>2. job[d] = "zkid" /\ BuildRecoveryKeys(Password(d)) = <<"new", "current">>
    BY <2>1 DEF KindOf, WhitelistJobs, Password, BuildRecoveryKeys
  <2>3. ~u.raced /\ u.sent \subseteq u.done => cond
    BY <2>1, <2>2 DEF Facts, ZkidFacts
  <2>4. ~u.raced /\ cond => Effect(d)
    BY <2>1, <2>2 DEF Effect, Facts, ZkidFacts
  <2> HIDE DEF cond
  <2> QED BY <1>0, <1>2, <2>3, <2>4, PollReturns
<1> QED BY <1>1, <1>2 DEF UpdateRecoveryPhraseAndWait, SendAndWait

LEMMA SetForceGood ==
  ASSUME Inv, NEW d \in Devices, SetForceRemoveOldest(d)
  PROVE  Inv'
<1> DEFINE k == "set_force_remove_oldest"
           n == "set_wasm_hash"
           u == dev[d]
           w == Go(d, n)
           v == [w EXCEPT !.sent = @ \cup {k}]
<1>0. k \in Kinds /\ k \in Steps /\ n \in Kinds /\ n \in Steps /\ k # "idle" /\ n # "idle"
  BY DEF Kinds, Steps
<1>1. CASE n \notin u.need
  <2>1. Send(d, k, Waiting(d))
    BY <1>1 DEF SetForceRemoveOldest
  <2> QED BY <1>0, <1>1, <2>1, SendWaits
<1>2. CASE n \in u.need
  <2>1. Send(d, k, w)
    BY <1>2 DEF SetForceRemoveOldest
  <2>2. u.at = k /\ ~u.waits
    BY <2>1 DEF Send
  <2>3. /\ KindOf(job[d], k) /\ Running(d, u) /\ (~u.raced => Facts(d, u, chain))
        /\ u.result = None /\ u.gave = None /\ u.refused = None
    BY <1>0, <2>2, InProgress
  <2>4. job[d] \in {"flags", "deploy"}
    BY <2>3 DEF KindOf, WhitelistJobs
  <2>5. /\ w \in Ops /\ Carries(w, u) /\ w.sent = u.sent /\ w.at = n /\ ~w.waits
        /\ w.result = None /\ w.gave = None /\ w.refused = None
    BY <1>0, <2>3, GoOp DEF Inv
  <2> HIDE DEF w
  <2>6. /\ v \in Ops /\ Carries(v, u) /\ v.sent = u.sent \cup {k} /\ v.at = n /\ ~v.waits
        /\ v.result = None /\ v.gave = None /\ v.refused = None
    <3>1. /\ v \in Ops /\ Carries(v, w) /\ v.sent = w.sent \cup {k} /\ v.at = w.at
          /\ v.waits = w.waits /\ v.result = w.result /\ v.gave = w.gave /\ v.refused = w.refused
      BY <1>0, <2>5, ChangedOp
    <3> HIDE DEF v
    <3> QED BY <2>5, <3>1 DEF Carries, Keeps
  <2> HIDE DEF v
  <2>7. Running(d, v)
    <3>1. Past(k) \cup {k} \subseteq Past(n)
      BY DEF Past, Submitted
    <3>2. KindOf(job[d], n)
      BY <2>4 DEF KindOf
    <3> QED BY <2>2, <2>3, <2>6, <3>1, <3>2 DEF Running, Carries, Keeps
  <2>8. ASSUME ~u.raced PROVE Facts(d, v, chain)
    <3>1. FlagFacts(d, u, chain) => FlagFacts(d, v, chain)
      BY <2>2, <2>6 DEF FlagFacts, Carries, Keeps
    <3>2. DeployFacts(d, u, chain) => DeployFacts(d, v, chain)
      BY <2>2, <2>6, <3>1 DEF DeployFacts, Carries, Keeps
    <3> QED BY <2>3, <2>4, <2>8, <3>1, <3>2 DEF Facts, WhitelistJobs, SignedJobs
  <2>9. Fine(d, v)
    BY <1>0, <2>6, <2>7, <2>8 DEF Fine, None, Carries, Keeps
  <2>10. u.able /\ ~u.raced => Accepts(Message(d))
    BY <1>0, <2>2, Acceptable
  <2> QED BY <1>0, <2>1, <2>5, <2>9, <2>10, SendGood DEF v
<1> QED BY <1>1, <1>2

LEMMA SetWasmHashGood ==
  ASSUME Inv, NEW d \in Devices, SetWasmHash(d)
  PROVE  Inv'
<1>1. "set_wasm_hash" \in Kinds
  BY DEF Kinds
<1> QED BY <1>1, SendWaits DEF SetWasmHash

LEMMA UpdateFlagsGood ==
  ASSUME Inv, NEW d \in Devices, UpdateContractFlags(d)
  PROVE  Inv'
<1> DEFINE u == dev[d]
           cond == FlagsSet(u.need)
<1>1. PICK k \in {"set_force_remove_oldest", "set_wasm_hash"} : PollUntil(d, k, cond, End(d, "ok"))
  BY DEF UpdateContractFlags
<1>2. k \in Steps
  BY DEF Kinds, Steps
<1>3. /\ u.at = k /\ u.waits /\ KindOf(job[d], k) /\ (~u.raced => Facts(d, u, chain))
      /\ u.sent \subseteq u.done => k \in u.done
  BY <1>1, <1>2, Waits
<1>4. job[d] \in {"flags", "deploy"}
  BY <1>3 DEF KindOf, WhitelistJobs
<1>5. ~u.raced => FlagFacts(d, u, chain)
  BY <1>3, <1>4 DEF Facts, DeployFacts
<1>6. ASSUME ~u.raced, u.sent \subseteq u.done PROVE cond
  BY <1>3, <1>5, <1>6 DEF FlagFacts, FlagsSet
<1>7. ASSUME ~u.raced, cond PROVE Effect(d)
  <2>1. chain.force_remove_oldest /\ chain.wasm_hash
    BY <1>5, <1>7 DEF FlagFacts, FlagsSet
  <2>2. CASE job[d] = "flags"
    BY <2>1, <2>2 DEF Effect
  <2>3. CASE job[d] = "deploy"
    <3>1. chain.deployed /\ chain.owner = DeployKey(d)
      BY <1>3, <1>7, <2>3 DEF Facts, DeployFacts, FlagFacts
    <3> QED BY <2>1, <2>3, <3>1 DEF Effect, MultifactorActive
  <2> QED BY <1>4, <2>2, <2>3
<1> HIDE DEF cond
<1> QED BY <1>1, <1>2, <1>6, <1>7, PollReturns

LEMMA CleanWhitelistGood ==
  ASSUME Inv, NEW d \in Devices, CleanWhitelist(d)
  PROVE  Inv'
<1> DEFINE k == "clean_whitelist"
           n == "update_whitelist"
           u == dev[d]
           w == Go(d, n)
           cond == Cleaned
<1>0. k \in Kinds /\ k \in Steps /\ n \in Kinds /\ n \in Steps
  BY DEF Kinds, Steps
<1>1. CASE Send(d, k, Waiting(d))
  BY <1>0, <1>1, SendWaits
<1>2. CASE PollUntil(d, k, cond, w)
  <2>1. /\ u.at = k /\ KindOf(job[d], k) /\ (~u.raced => Facts(d, u, chain))
        /\ u.sent \subseteq Past(k) \cup {k} /\ u.done \subseteq u.sent
    BY <1>0, <1>2, Waits
  <2>2. job[d] \in WhitelistJobs
    BY <2>1 DEF KindOf
  <2>3. KindOf(job[d], n) /\ Past(k) \cup {k} \subseteq Past(n) /\ Past(k) = {}
    BY <2>2 DEF KindOf, Past, Submitted
  <2>4. w.at = n /\ Carries(w, u) /\ w.sent = u.sent
    BY <1>0, GoOp DEF Inv
  <2> HIDE DEF w
  <2>5. ~u.raced /\ k \in u.done => cond
    BY <2>1, <2>2 DEF Facts, WhitelistFacts, Cleaned
  <2>6. ~u.raced /\ cond => Facts(d, w, chain)
    <3>1. ~u.raced => WhitelistFacts(d, u, chain) /\ chain.deployed /\ d \in Elements(chain.factors)
      BY <2>1, <2>2 DEF Facts, SignedJobs
    <3>2. ~u.raced /\ cond => WhitelistFacts(d, w, chain)
      BY <2>1, <2>3, <2>4, <3>1 DEF WhitelistFacts, Cleaned, Carries, Keeps
    <3> HIDE DEF cond
    <3> QED BY <2>2, <3>1, <3>2 DEF Facts, WhitelistJobs
  <2> HIDE DEF cond
  <2> QED BY <1>0, <1>2, <2>3, <2>5, <2>6, PollGoesOn DEF w
<1> QED BY <1>1, <1>2 DEF CleanWhitelist, SendAndWait

LEMMA UpdateWhitelistGood ==
  ASSUME Inv, NEW d \in Devices, UpdateWhitelistAndWait(d)
  PROVE  Inv'
<1> DEFINE k == "update_whitelist"
           n == SubmittedBy(job[d])
           u == dev[d]
           w == Go(d, n)
           cond == InWhitelist(u.target)
<1>0. k \in Kinds /\ k \in Steps
  BY DEF Kinds, Steps
<1>1. CASE Send(d, k, Waiting(d))
  BY <1>0, <1>1, SendWaits
<1>2. CASE PollUntil(d, k, cond, w)
  <2>1. /\ u.at = k /\ KindOf(job[d], k) /\ (~u.raced => Facts(d, u, chain))
        /\ u.sent \subseteq Past(k) \cup {k} /\ u.done \subseteq u.sent
    BY <1>0, <1>2, Waits
  <2>2. job[d] \in WhitelistJobs
    BY <2>1 DEF KindOf
  <2>3. n \in Submitted /\ n \in Kinds /\ n \in Steps /\ n \notin {k, "clean_whitelist"}
        /\ KindOf(job[d], n)
    BY <2>2 DEF SubmittedBy, WhitelistJobs, Submitted, Kinds, Steps, KindOf
  <2>4. Past(k) \cup {k} \subseteq Past(n) /\ Past(k) = {"clean_whitelist"}
    BY <2>3 DEF Past, Submitted
  <2>5. w.at = n /\ Carries(w, u) /\ w.sent = u.sent
    BY <2>3, GoOp DEF Inv
  <2> HIDE DEF w, n
  <2>6. ~u.raced => WhitelistFacts(d, u, chain) /\ chain.deployed /\ d \in Elements(chain.factors)
    BY <2>1, <2>2 DEF Facts, SignedJobs
  <2>7. ~u.raced /\ k \in u.done => cond
    BY <2>1, <2>6 DEF WhitelistFacts, InWhitelist
  <2>8. ~u.raced /\ cond => Facts(d, w, chain)
    <3>1. ~u.raced /\ cond => WhitelistFacts(d, w, chain)
      BY <2>1, <2>3, <2>5, <2>6 DEF WhitelistFacts, InWhitelist, Carries, Keeps
    <3> HIDE DEF cond
    <3> QED BY <2>2, <2>6, <3>1 DEF Facts, WhitelistJobs
  <2> HIDE DEF cond
  <2> QED BY <1>0, <1>2, <2>3, <2>4, <2>7, <2>8, PollGoesOn DEF w
<1> QED BY <1>1, <1>2 DEF UpdateWhitelistAndWait, SendAndWait

\* The messages submitted through the multifactor and waited for.
LEMMA SubmittedGood ==
  ASSUME Inv, NEW d \in Devices, NEW k \in {"deploy_miner", "set_owner_public", "remove_owner_public"},
         NEW STATE cond, PollUntil(d, k, cond, End(d, "ok")),
         k = "deploy_miner" => (cond <=> chain.miner),
         k = "set_owner_public" => (cond <=> chain.owner_public = d),
         k = "remove_owner_public" => (cond <=> chain.owner_public = None)
  PROVE  Inv'
<1> DEFINE u == dev[d]
<1>1. k \in Steps
  BY DEF Kinds, Steps
<1>2. /\ u.at = k /\ KindOf(job[d], k) /\ (~u.raced => Facts(d, u, chain))
      /\ u.sent \subseteq u.done => k \in u.done
  BY <1>1, Waits
<1>3. /\ job[d] \in WhitelistJobs /\ (k = "deploy_miner" => job[d] = "deploy_miner")
      /\ k = "set_owner_public" => job[d] = "set_key"
      /\ k = "remove_owner_public" => job[d] \in {"del_key", "del_key_nowait"}
  BY <1>2 DEF KindOf, WhitelistJobs
<1>4. ~u.raced => WhitelistFacts(d, u, chain)
  BY <1>2, <1>3 DEF Facts
<1>5. ~u.raced /\ u.sent \subseteq u.done => cond
  BY <1>2, <1>4 DEF WhitelistFacts
<1>6. ASSUME cond PROVE Effect(d)
  BY <1>3, <1>6 DEF Effect
<1> QED BY <1>1, <1>5, <1>6, PollReturns

LEMMA MinerGood ==
  ASSUME Inv, NEW d \in Devices, DeployMinerAndWait(d) \/ SetMiningKeysAndWait(d)
  PROVE  Inv'
<1>1. "deploy_miner" \in Kinds /\ "set_owner_public" \in Kinds
  BY DEF Kinds
<1>2. CASE DeployMinerAndWait(d)
  <2>1. CASE Send(d, "deploy_miner", Waiting(d))
    BY <1>1, <2>1, SendWaits
  <2>2. CASE PollUntil(d, "deploy_miner", chain.miner, End(d, "ok"))
    BY <2>2, SubmittedGood
  <2> QED BY <1>2, <2>1, <2>2 DEF DeployMinerAndWait, SendAndWait
<1>3. CASE SetMiningKeysAndWait(d)
  <2> DEFINE cond == chain.owner_public = d
  <2>1. CASE Send(d, "set_owner_public", Waiting(d))
    BY <1>1, <2>1, SendWaits
  <2>2. CASE PollUntil(d, "set_owner_public", cond, End(d, "ok"))
    BY <2>2, SubmittedGood
  <2> QED BY <1>3, <2>1, <2>2 DEF SetMiningKeysAndWait, SendAndWait
<1> QED BY <1>2, <1>3

LEMMA DelMiningKeyGood ==
  ASSUME Inv, NEW d \in Devices, DelMiningKeySend(d) \/ DelMiningKeyWait(d)
  PROVE  Inv'
<1> DEFINE k == "remove_owner_public"
           cond == chain.owner_public = None
<1>1. k \in Kinds /\ k # "idle"
  BY DEF Kinds
<1>2. CASE DelMiningKeySend(d) /\ job[d] = "del_key"
  BY <1>1, <1>2, SendWaits DEF DelMiningKeySend
<1>3. CASE DelMiningKeySend(d) /\ job[d] # "del_key"
  <2>1. Send(d, k, End(d, "ok"))
    BY <1>3 DEF DelMiningKeySend
  <2>2. dev[d].at = k
    BY <2>1 DEF Send
  <2>3. job[d] = "del_key_nowait"
    BY <1>1, <1>3, <2>2, InProgress DEF KindOf, WhitelistJobs
  <2>4. Effect(d)
    BY <2>3 DEF Effect
  <2> QED BY <1>1, <2>1, <2>4, SendReturns
<1>4. CASE DelMiningKeyWait(d)
  <2>1. PollUntil(d, k, cond, End(d, "ok"))
    BY <1>4 DEF DelMiningKeyWait
  <2> QED BY <2>1, SubmittedGood
<1> QED BY <1>2, <1>3, <1>4

LEMMA AwaitKeyGood ==
  ASSUME Inv, NEW d \in Devices, EnsureMiningKeysPropagated(d)
  PROVE  Inv'
<1> DEFINE k == "await_key"
           u == dev[d]
           cond == chain.owner_public \in GenMiningKeys
<1>0. k \in Steps /\ k \notin Kinds
  BY DEF Steps, Kinds
<1>1. PollUntil(d, k, cond, End(d, "ok"))
  BY DEF EnsureMiningKeysPropagated
<1>2. /\ KindOf(job[d], k) /\ (u.sent \subseteq u.done => k \in u.done) /\ u.done \subseteq Kinds
  BY <1>0, <1>1, Waits
<1>3. job[d] = "await_key"
  BY <1>2 DEF KindOf, WhitelistJobs
<1>4. cond => Effect(d)
  BY <1>3 DEF Effect
<1> HIDE DEF cond
<1> QED BY <1>0, <1>1, <1>2, <1>4, PollReturns

\* The messages that end a job without a wait.
LEMMA LastSentGood ==
  ASSUME Inv, NEW d \in Devices,
         WithdrawSend(d) \/ SubmitTransaction(d) \/ SendNativeTokensDirect(d)
  PROVE  Inv'
<1>1. PICK k \in {"withdraw", "submit_transaction", "send_transaction"} : Send(d, k, End(d, "ok"))
  BY DEF WithdrawSend, SubmitTransaction, SendNativeTokensDirect
<1>2. dev[d].at = k /\ k # "idle" /\ k \in Kinds
  BY <1>1 DEF Send, Kinds
<1>3. KindOf(job[d], k)
  BY <1>2, InProgress
<1>4. job[d] \in {"withdraw", "transfer", "migrate", "submit", "redeem", "direct"}
  BY <1>3 DEF KindOf, WhitelistJobs
<1>5. Effect(d)
  BY <1>4 DEF Effect
<1> QED BY <1>1, <1>2, <1>5, SendReturns

LEMMA DeployTransactionGood ==
  ASSUME Inv, NEW d \in Devices, DeployTransactionAndWait(d)
  PROVE  Inv'
<1> DEFINE k == "deploy_transaction"
           n == "submit_transaction"
           u == dev[d]
           w == Go(d, n)
           cond == d \in chain.txs
<1>0. k \in Kinds /\ k \in Steps /\ n \in Kinds /\ n \in Steps
  BY DEF Kinds, Steps
<1>1. CASE Send(d, k, Waiting(d))
  BY <1>0, <1>1, SendWaits
<1>2. CASE PollUntil(d, k, cond, w)
  <2>1. /\ u.at = k /\ KindOf(job[d], k) /\ (~u.raced => Facts(d, u, chain))
        /\ u.sent \subseteq Past(k) \cup {k} /\ u.done \subseteq u.sent
    BY <1>0, <1>2, Waits
  <2>2. job[d] \in {"transfer", "migrate"}
    BY <2>1 DEF KindOf, WhitelistJobs
  <2>3. KindOf(job[d], n) /\ Past(k) \cup {k} \subseteq Past(n) /\ Past(k) = {}
    BY <2>2 DEF KindOf, Past, Submitted
  <2>4. w.at = n /\ Carries(w, u) /\ w.sent = u.sent
    BY <1>0, GoOp DEF Inv
  <2> HIDE DEF w
  <2>5. ~u.raced /\ k \in u.done => cond
    BY <2>1, <2>2, <2>3 DEF Facts, TransferFacts
  <2>6. ~u.raced /\ cond => Facts(d, w, chain)
    BY <2>1, <2>2, <2>3, <2>4 DEF Facts, TransferFacts, Carries, Keeps, WhitelistJobs, SignedJobs
  <2> HIDE DEF cond
  <2> QED BY <1>0, <1>2, <2>3, <2>5, <2>6, PollGoesOn DEF w
<1> QED BY <1>1, <1>2 DEF DeployTransactionAndWait, SendAndWait

LEMMA DeployMultifactorGood ==
  ASSUME Inv, NEW d \in Devices, DeployMultifactorAndWait(d)
  PROVE  Inv'
<1> DEFINE k == "deploy_multifactor"
           u == dev[d]
           n == FlagStep(NeededFlags)
           w == Go(d, n)
           v == [w EXCEPT !.need = NeededFlags]
           after == IF job[d] = "deploy_bare" \/ NeededFlags = {} THEN End(d, "ok") ELSE v
           cond == MultifactorActive(d)
<1>0. k \in Kinds /\ k \in Steps
  BY DEF Kinds, Steps
<1>1. CASE Send(d, k, Waiting(d))
  BY <1>0, <1>1, SendWaits
<1>2. CASE PollUntil(d, k, cond, after)
  <2>1. /\ u.at = k /\ u.at # "idle" /\ KindOf(job[d], k) /\ (~u.raced => Facts(d, u, chain))
        /\ u.sent \subseteq Past(k) \cup {k} /\ u.done \subseteq u.sent
        /\ u.sent \subseteq u.done => k \in u.done
    BY <1>0, <1>2, Waits
  <2>2. job[d] \in DeployJobs
    BY <2>1 DEF KindOf, WhitelistJobs
  <2>3. ~u.raced /\ u.sent \subseteq u.done => cond
    BY <2>1, <2>2 DEF Facts, DeployFacts, MultifactorActive
  <2>4. CASE job[d] = "deploy_bare" \/ NeededFlags = {}
    <3>1. after = End(d, "ok")
      BY <2>4
    <3>2. job[d] # "deploy_bare" => chain.force_remove_oldest /\ chain.wasm_hash
      BY <2>4 DEF NeededFlags
    <3>3. cond => Effect(d)
      BY <2>2, <3>2 DEF Effect
    <3> HIDE DEF cond, after
    <3> QED BY <1>0, <1>2, <2>3, <3>1, <3>3, PollReturns
  <2>5. CASE job[d] # "deploy_bare" /\ NeededFlags # {}
    <3>1. after = v /\ job[d] = "deploy"
      BY <2>2, <2>5
    <3>2. /\ NeededFlags \subseteq {"set_force_remove_oldest", "set_wasm_hash"}
          /\ "set_force_remove_oldest" \notin NeededFlags => chain.force_remove_oldest
          /\ "set_wasm_hash" \notin NeededFlags => chain.wasm_hash
      BY DEF NeededFlags
    <3>3. /\ n \in {"set_force_remove_oldest", "set_wasm_hash"}
          /\ "set_force_remove_oldest" \in NeededFlags => n = "set_force_remove_oldest"
      BY DEF FlagStep
    <3> HIDE DEF n
    <3>4. n \in Steps /\ n # "idle" /\ KindOf(job[d], n)
          /\ Past(k) \cup {k} \subseteq Past(n)
      BY <3>1, <3>3 DEF Steps, Kinds, KindOf, Past, Submitted
    <3>5. Running(d, u) /\ u.result = None /\ u.gave = None /\ u.refused = None
      BY <2>1, InProgress
    <3>6. /\ w \in Ops /\ Carries(w, u) /\ w.sent = u.sent /\ w.at = n /\ ~w.waits
          /\ w.result = None /\ w.gave = None /\ w.refused = None
      BY <3>4, <3>5, GoOp DEF Inv
    <3> HIDE DEF w
    <3>7. NeededFlags \subseteq Needs
      BY <3>2 DEF Needs
    <3>8. /\ v \in Ops /\ Keeps(v, w) /\ v.sent = w.sent /\ v.at = w.at /\ v.waits = w.waits
          /\ v.result = w.result /\ v.gave = w.gave /\ v.refused = w.refused
          /\ v.raced = w.raced /\ v.able = w.able /\ v.need = NeededFlags
      BY <3>6, <3>7 DEF Ops, Keeps
    <3> HIDE DEF v, after
    <3>9. Running(d, v)
      BY <2>1, <3>4, <3>5, <3>6, <3>8 DEF Running, Keeps, Carries
    <3>10. ASSUME ~u.raced, cond PROVE Facts(d, v, chain)
      <4>1. u.key = DeployKey(d) /\ chain.deployed /\ chain.owner = DeployKey(d)
        BY <2>1, <2>2, <3>10 DEF Facts, DeployFacts, MultifactorActive
      <4>2. FlagFacts(d, v, chain)
        BY <2>1, <3>2, <3>3, <3>4, <3>6, <3>8, <4>1 DEF FlagFacts, Keeps, Carries, Past
      <4>3. DeployFacts(d, v, chain)
        BY <3>3, <3>6, <3>8, <4>1, <4>2 DEF DeployFacts, Keeps, Carries
      <4> QED BY <2>2, <4>3 DEF Facts, SignedJobs, WhitelistJobs
    <3>11. cond => Fine(d, v)
      BY <3>4, <3>6, <3>8, <3>9, <3>10 DEF Fine, None, Carries
    <3>12. v.sent = u.sent /\ Keeps(v, u)
      BY <3>6, <3>8 DEF Carries, Keeps
    <3> HIDE DEF cond
    <3> QED BY <1>0, <1>2, <2>3, <3>1, <3>8, <3>11, <3>12, PollGood
  <2> QED BY <2>4, <2>5
<1> QED BY <1>1, <1>2 DEF DeployMultifactorAndWait, SendAndWait

LEMMA CreateMultisigGood ==
  ASSUME Inv, NEW d \in Devices, CreateMultisigAndWait(d)
  PROVE  Inv'
<1> DEFINE k == "create_multisig"
           n == "deploy_multisig"
           u == dev[d]
           w == Go(d, n)
           cond == chain.multisig = "uninit"
<1>0. k \in Kinds /\ k \in Steps /\ n \in Kinds /\ n \in Steps
  BY DEF Kinds, Steps
<1>1. CASE Send(d, k, Waiting(d))
  BY <1>0, <1>1, SendWaits
<1>2. CASE PollUntil(d, k, cond, w)
  <2>1. /\ u.at = k /\ KindOf(job[d], k) /\ (~u.raced => Facts(d, u, chain))
        /\ u.sent \subseteq Past(k) \cup {k} /\ u.done \subseteq u.sent
    BY <1>0, <1>2, Waits
  <2>2. job[d] = "multisig"
    BY <2>1 DEF KindOf, WhitelistJobs
  <2>3. KindOf(job[d], n) /\ Past(k) \cup {k} \subseteq Past(n) /\ Past(k) = {}
    BY <2>2 DEF KindOf, Past, Submitted
  <2>4. w.at = n /\ Carries(w, u) /\ w.sent = u.sent
    BY <1>0, GoOp DEF Inv
  <2> HIDE DEF w
  <2>5. ~u.raced /\ k \in u.done => cond
    BY <2>1, <2>2 DEF Facts, MultisigFacts
  <2>6. ~u.raced /\ cond => Facts(d, w, chain)
    BY <2>1, <2>2, <2>3, <2>4 DEF Facts, MultisigFacts, Carries, Keeps, WhitelistJobs, SignedJobs
  <2> HIDE DEF cond
  <2> QED BY <1>0, <1>2, <2>3, <2>5, <2>6, PollGoesOn DEF w
<1> QED BY <1>1, <1>2 DEF CreateMultisigAndWait, SendAndWait

LEMMA DeployMultisigGood ==
  ASSUME Inv, NEW d \in Devices, DeployMultisig(d)
  PROVE  Inv'
<1> DEFINE k == "deploy_multisig"
           n == "top_up"
           u == dev[d]
           w == Go(d, n)
           cond == chain.multisig = "active"
<1>0. k \in Kinds /\ k \in Steps /\ n \in Kinds /\ n \in Steps /\ k # "idle" /\ n # "idle"
  BY DEF Kinds, Steps
<1>1. CASE (u.waits \/ ~cond) /\ Send(d, k, Waiting(d))
  <2>1. ~cond
    BY <1>1 DEF Send
  <2> QED BY <1>0, <1>1, <2>1, SendWaits
<1>2. w.at = n /\ Carries(w, u) /\ w.sent = u.sent /\ w \in Ops
  BY <1>0, GoOp DEF Inv
<1>3. Past(k) \cup {k} \subseteq Past(n) /\ n \notin Past(k) /\ n # k
  BY DEF Past, Submitted
<1>4. ASSUME job[d] = "multisig" PROVE cond => Facts(d, w, chain) /\ KindOf(job[d], n)
  <2> HIDE DEF w
  <2> QED BY <1>2, <1>4 DEF Facts, MultisigFacts, KindOf, WhitelistJobs, SignedJobs
<1>5. CASE PollUntil(d, k, cond, w)
  <2>1. /\ u.at = k /\ KindOf(job[d], k) /\ (~u.raced => Facts(d, u, chain))
    BY <1>0, <1>5, Waits
  <2>2. job[d] = "multisig"
    BY <2>1 DEF KindOf, WhitelistJobs
  <2>3. KindOf(job[d], n)
    BY <2>2 DEF KindOf
  <2> HIDE DEF w
  <2>4. ~u.raced /\ k \in u.done => cond
    BY <2>1, <2>2 DEF Facts, MultisigFacts
  <2> HIDE DEF cond
  <2> QED BY <1>0, <1>3, <1>4, <1>5, <2>2, <2>3, <2>4, PollGoesOn DEF w
<1>6. CASE /\ u.at = k /\ ~u.waits /\ cond /\ dev' = [dev EXCEPT ![d] = w]
           /\ UNCHANGED <<chain, way, job, tries, faults>>
  <2>1. KindOf(job[d], k) /\ Running(d, u)
    BY <1>0, <1>6, InProgress
  <2>2. job[d] = "multisig"
    BY <2>1 DEF KindOf, WhitelistJobs
  <2>3. u.sent \cup {u.at} \subseteq Past(n)
    BY <1>3, <1>6, <2>1 DEF Running
  <2>4. Fine(d, w)
    BY <1>0, <1>4, <1>6, <2>2, <2>3, GoesOn
  <2>5. Keeps(w, u) /\ u.at # "idle"
    BY <1>0, <1>2, <1>6 DEF Carries
  <2> HIDE DEF w
  <2> QED BY <1>2, <1>6, <2>4, <2>5, Moves
<1> QED BY <1>1, <1>5, <1>6 DEF DeployMultisig, SendAndWait

LEMMA TopUpGood ==
  ASSUME Inv, NEW d \in Devices, TopUp(d)
  PROVE  Inv'
<1> DEFINE k == "top_up"
           u == dev[d]
           r == IF "plain" \in u.need THEN "ok" ELSE "error"
           v == End(d, r)
<1>0. k \in Kinds /\ k \in Steps /\ k # "idle"
  BY DEF Kinds, Steps
<1>1. u.at = k
  BY DEF TopUp, Send
<1>2. KindOf(job[d], k) /\ (~u.raced => Facts(d, u, chain))
  BY <1>0, <1>1, InProgress
<1>3. job[d] = "multisig"
  BY <1>2 DEF KindOf, WhitelistJobs
<1>4. ~u.raced => Effect(d)
  BY <1>1, <1>2, <1>3 DEF Facts, MultisigFacts, Effect
<1>5. CASE Send(d, k, End(d, "ok"))
  BY <1>0, <1>4, <1>5, SendReturns
<1>6. CASE dev' = [dev EXCEPT ![d] = v] /\ UNCHANGED <<chain, way, job, tries, faults>>
  <2>1. v \in Ops /\ v.at = "idle" /\ Fine(d, v)
    <3>1. CASE r = "ok"
      BY <1>0, <1>1, <1>4, <3>1, Returns
    <3>2. CASE r = "error"
      BY <1>0, <1>1, <3>2, Fails
    <3> QED BY <3>1, <3>2
  <2> HIDE DEF v
  <2> QED BY <1>0, <1>1, <1>6, <2>1, Moves
<1> QED BY <1>5, <1>6 DEF TopUp

LEMMA FetchZkProofsGood ==
  ASSUME Inv, NEW d \in Devices, FetchZkProofs(d)
  PROVE  Inv'
<1> DEFINE v == End(d, "ok")
<1>1. dev[d].at = "prove" /\ dev' = [dev EXCEPT ![d] = v]
      /\ UNCHANGED <<chain, way, job, tries>> /\ dev[d].at # "idle"
  BY DEF FetchZkProofs
<1>2. KindOf(job[d], "prove")
  BY <1>1, InProgress
<1>3. job[d] = "prove"
  BY <1>2 DEF KindOf, WhitelistJobs
<1>4. Effect(d)
  BY <1>3 DEF Effect
<1>5. v \in Ops /\ v.at = "idle" /\ Fine(d, v)
  BY <1>1, <1>4, Returns
<1> HIDE DEF v
<1> QED BY <1>1, <1>5, Moves

LEMMA StepGood ==
  ASSUME Inv, NEW d \in Devices, Step(d)
  PROVE  Inv'
BY DeleteCandidateGood, SubmitChangeGood, AcceptCandidateGood, AddJwkModulusGood,
   ConfirmFactorGood, DeleteFactorGood, UpdateZkIdGood, UpdateRecoveryGood, SetForceGood,
   SetWasmHashGood, UpdateFlagsGood, CleanWhitelistGood, UpdateWhitelistGood, MinerGood,
   DelMiningKeyGood, AwaitKeyGood, LastSentGood, DeployTransactionGood,
   DeployMultifactorGood, CreateMultisigGood, DeployMultisigGood, TopUpGood,
   FetchZkProofsGood DEF Step

-----------------------------------------------------------------------------
(* An operation starts: what is on the way belongs to earlier runs. *)

LEMMA FactsAgain ==
  ASSUME NEW d \in Devices, NEW f, job[d] \notin DeployJobs, Facts(d, f, chain),
         UNCHANGED <<chain, job>>
  PROVE  Facts(d, f, chain)'
BY DEF Facts, SeedFacts, FactorFacts, UnfactorFacts, ZkidFacts, FlagFacts, WhitelistFacts,
       TransferFacts, MultisigFacts, SeedKey, Password

LEMMA BeginGood ==
  ASSUME Inv, NEW d \in Devices, NEW j, NEW f \in Ops, Begin(d, j, f),
         ~f.raced, f.gave = None, f.refused = None,
         f.at = "idle" => /\ j \in Reported => f.term = <<Terminal(j, f.result)>>
                          /\ f.result = "ok" => Effect(d) /\ j \notin DeployJobs,
         f.at # "idle" => /\ KindOf(j, f.at) /\ f.result = None /\ f.done = {}
                          /\ f.sent = IF f.waits THEN {f.at} ELSE {}
                          /\ Facts(d, f, chain)'
  PROVE  Inv'
<1>1. /\ job[d] = j /\ UNCHANGED <<chain, way, job>> /\ tries' = [tries EXCEPT ![d] = @ + 1]
      /\ dev' = [dev EXCEPT ![d] = f]
  BY DEF Begin
<1>2. Types /\ tries \in [Devices -> Nat] /\ dev \in [Devices -> Ops]
  BY DEF Inv, Types
<1>3. /\ tries' \in [Devices -> Nat] /\ tries'[d] = tries[d] + 1 /\ tries'[d] > 0
      /\ dev' \in [Devices -> Ops] /\ dev'[d] = f
      /\ \A e \in Devices : e # d => dev'[e] = dev[e] /\ tries'[e] = tries[e]
  BY <1>1, <1>2
<1>4. Types'
  BY <1>1, <1>2, <1>3 DEF Types
<1>5. ChainOK'
  BY <1>1 DEF Inv, ChainOK, FactorList, Elements
<1>6. WayOK'
  <2>1. SUFFICES ASSUME NEW m \in way
        PROVE  /\ m.try <= tries'[m.d]
               /\ m.try = tries'[m.d] => KindOf(job[m.d], m.kind)
               /\ m.try = tries'[m.d] /\ dev'[m.d].at # "idle" =>
                    /\ m.kind \in dev'[m.d].sent /\ m.kind \notin dev'[m.d].done
                    /\ m.key = dev'[m.d].key /\ m.signer = dev'[m.d].signer
                    /\ m.target = dev'[m.d].target /\ m.expires = dev'[m.d].expires
    BY <1>1 DEF WayOK, Current, KindOf
  <2>2. m.d \in Devices /\ m.try \in Nat
    BY <1>2 DEF Types, Messages
  <2>3. /\ m.try <= tries[m.d]
        /\ m.try = tries[m.d] => KindOf(job[m.d], m.kind)
        /\ m.try = tries[m.d] /\ dev[m.d].at # "idle" =>
             /\ m.kind \in dev[m.d].sent /\ m.kind \notin dev[m.d].done
             /\ m.key = dev[m.d].key /\ m.signer = dev[m.d].signer
             /\ m.target = dev[m.d].target /\ m.expires = dev[m.d].expires
    BY DEF Inv, WayOK, Current
  <2>4. CASE m.d = d
    <3>1. m.try < tries'[m.d] /\ m.try # tries'[m.d]
      BY <1>2, <1>3, <2>2, <2>3, <2>4
    <3> QED BY <1>3, <2>2, <2>3, <2>4, <3>1
  <2>5. CASE m.d # d
    BY <1>3, <2>2, <2>3, <2>5
  <2> QED BY <2>4, <2>5
<1>7. ASSUME NEW e \in Devices PROVE Fine(e, dev[e])'
  <2>1. CASE e # d
    <3>1. \A u : Fine(e, u)' <=> Fine(e, u)
      BY <1>1, <1>3, <2>1, FineSame
    <3>2. Fine(e, dev'[e])
      BY <1>3, <2>1 DEF Inv
    <3> QED BY <3>1, <3>2
  <2>2. CASE e = d
    <3>1. CASE f.at = "idle"
      <4>1. Ended(d, f)'
        BY <1>1, <1>3, <3>1 DEF Ended
      <4>2. f.result = "ok" => Effect(d)'
        BY <1>1, <3>1 DEF Effect, SeedKey, GenMiningKeys
      <4> QED BY <1>3, <2>2, <3>1, <4>1, <4>2 DEF Fine
    <3>2. CASE f.at # "idle"
      <4>1. Running(d, f)'
        BY <1>1, <1>3, <3>2 DEF Running, KindOf
      <4>2. f.result # "ok"
        BY <3>2 DEF None
      <4> QED BY <1>3, <2>2, <3>2, <4>1, <4>2 DEF Fine
    <3> QED BY <3>1, <3>2
  <2> QED BY <2>1, <2>2
<1> QED BY <1>4, <1>5, <1>6, <1>7 DEF Inv

\* A caller that is refused.
LEMMA FailedFine ==
  ASSUME NEW j
  PROVE  LET f == Failed
             g == [Failed EXCEPT !.term = ReportFailure(j, "error")]
         IN  /\ f \in Ops /\ f.at = "idle" /\ ~f.raced /\ f.gave = None /\ f.refused = None
             /\ f.result = "error"
             /\ g \in Ops /\ g.at = "idle" /\ ~g.raced /\ g.gave = None /\ g.refused = None
             /\ g.result = "error" /\ g.term = <<Terminal(j, "error")>>
<1>1. Failed \in Ops
  BY IdleOp
<1>2. ReportFailure(j, "error") = <<"failed">> /\ Terminal(j, "error") = "failed"
  BY DEF ReportFailure, Suppressed, Terminal, None
<1>3. <<"failed">> \in Seq(Milestones)
  <2>1. "failed" \in Milestones
    BY DEF Milestones
  <2> QED BY <2>1
<1>4. /\ Failed.at = "idle" /\ ~Failed.raced /\ Failed.gave = None /\ Failed.refused = None
      /\ Failed.result = "error"
  BY DEF Failed, Idle
<1> QED BY <1>1, <1>2, <1>3, <1>4 DEF Ops

\* A device that may begin, or is refused.
LEMMA BeginFailed ==
  ASSUME Inv, NEW d \in Devices, NEW j, Begin(d, j, Failed), j \notin Reported
  PROVE  Inv'
<1> DEFINE f == Failed
<1>1. /\ f \in Ops /\ f.at = "idle" /\ ~f.raced /\ f.gave = None /\ f.refused = None
      /\ f.result = "error"
  BY FailedFine
<1> HIDE DEF f
<1>2. Begin(d, j, f)
  BY DEF f
<1> QED BY <1>1, <1>2, BeginGood

LEMMA BeginReported ==
  ASSUME Inv, NEW d \in Devices, NEW j,
         Begin(d, j, [Failed EXCEPT !.term = ReportFailure(j, "error")])
  PROVE  Inv'
<1> DEFINE f == [Failed EXCEPT !.term = ReportFailure(j, "error")]
<1>1. /\ f \in Ops /\ f.at = "idle" /\ ~f.raced /\ f.gave = None /\ f.refused = None
      /\ f.result = "error" /\ f.term = <<Terminal(j, "error")>>
  BY FailedFine
<1>2. Begin(d, j, f)
  OBVIOUS
<1> HIDE DEF f
<1> QED BY <1>1, <1>2, BeginGood

\* The record of an operation that begins without waiting.
LEMMA BeginsWith ==
  ASSUME Inv, NEW d \in Devices, NEW j, NEW f \in Ops, Begin(d, j, f),
         KindOf(j, f.at), f.at # "idle", ~f.waits, ~f.raced, f.gave = None,
         f.refused = None, f.result = None, f.done = {}, f.sent = {},
         j \notin DeployJobs, Facts(d, f, chain)
  PROVE  Inv'
<1>1. UNCHANGED <<chain, job>> /\ job[d] = j
  BY DEF Begin
<1>2. Facts(d, f, chain)'
  BY <1>1, FactsAgain
<1> QED BY <1>2, BeginGood

LEMMA ChangeSeedPhraseGood ==
  ASSUME Inv, NEW d \in Devices, ChangeSeedPhrase(d)
  PROVE  Inv'
<1> DEFINE f == [Idle EXCEPT !.at = FirstOfSeed, !.able = Signs(d),
                             !.signer = chain.pub_recovery_key]
<1>1. Types /\ chain \in Chains
  BY DEF Inv, Types
<1>2. job[d] = "seed"
  BY DEF ChangeSeedPhrase, Begin
<1>3. CASE Signs(d)
  <2>1. /\ f \in Ops /\ f.at = FirstOfSeed /\ ~f.waits /\ ~f.raced /\ f.gave = None
        /\ f.refused = None /\ f.result = None /\ f.done = {} /\ f.sent = {}
        /\ f.signer = chain.pub_recovery_key
    <3>1. chain.pub_recovery_key \in Pairs /\ chain.deployed \in BOOLEAN
      BY <1>1 DEF Chains
    <3>2. FirstOfSeed \in Steps
      BY DEF FirstOfSeed, Steps, Kinds
    <3>3. Signs(d) \in BOOLEAN
      BY <1>3 DEF Signs
    <3> QED BY <3>1, <3>2, <3>3, IdleOp DEF Ops
  <2>2. Begin(d, "seed", f)
    BY <1>3 DEF ChangeSeedPhrase
  <2> HIDE DEF f
  <2>3. KindOf("seed", f.at) /\ f.at # "idle"
    BY <2>1 DEF FirstOfSeed, KindOf
  <2>4. Facts(d, f, chain)
    BY <1>2, <1>3, <2>1 DEF Facts, SeedFacts, Signs, FirstOfSeed, HasCandidateSeedPhrase, WhitelistJobs
  <2> QED BY <2>1, <2>2, <2>3, <2>4, BeginsWith
<1>4. CASE ~Signs(d)
  BY <1>4, BeginFailed DEF ChangeSeedPhrase, Reported
<1> QED BY <1>3, <1>4

LEMMA AddZkpFactorGood ==
  ASSUME Inv, NEW d \in Devices, AddZkpFactor(d)
  PROVE  Inv'
<1>1. Types /\ chain \in Chains /\ Life \in Nat
  BY WalletAssumption DEF Inv, Types
<1>2. job[d] = "factor" /\ d \notin Elements(chain.factors)
  BY DEF AddZkpFactor, Begin
<1>3. PICK new \in {Life, Life + 1} :
        LET ok == chain.deployed /\ chain.zkid = Password(d)
            add == ShouldAddJwkModulus(chain.jwk, new)
            f == [Idle EXCEPT !.len = Len(chain.factors), !.expires = new,
                    !.signer = chain.jwk_update_key,
                    !.able = (chain.jwk > 0 \/ add)
                               /\ (Len(chain.factors) < MaxFactors \/ chain.force_remove_oldest),
                    !.at = IF add THEN "add_jwk_modulus" ELSE "add_zkp_factor"]
            signs == ResolveJwkUpdateSigner(d) # {}
        IN  Begin(d, "factor",
              IF ok /\ (add => signs) THEN f
              ELSE [Failed EXCEPT !.term = ReportFailure("factor", "error")])
  BY DEF AddZkpFactor
<1> DEFINE add == ShouldAddJwkModulus(chain.jwk, new)
           able == (chain.jwk > 0 \/ add)
                      /\ (Len(chain.factors) < MaxFactors \/ chain.force_remove_oldest)
           f == [Idle EXCEPT !.len = Len(chain.factors), !.expires = new,
                    !.signer = chain.jwk_update_key, !.able = able,
                    !.at = IF add THEN "add_jwk_modulus" ELSE "add_zkp_factor"]
<1>4. CASE Begin(d, "factor", f) /\ chain.deployed /\ chain.zkid = Password(d)
  <2>1. Len(chain.factors) \in Int /\ new \in Int /\ chain.jwk_update_key \in Pairs
        /\ chain.jwk \in Int
    BY <1>1 DEF Chains
  <2>2. able \in BOOLEAN /\ add \in BOOLEAN
    BY <1>1 DEF ShouldAddJwkModulus, Chains
  <2>3. add => new > 0
    BY <1>1, <2>1 DEF ShouldAddJwkModulus
  <2>4. able /\ ~add => chain.jwk > 0
    OBVIOUS
  <2>4b. able => Len(chain.factors) < MaxFactors \/ chain.force_remove_oldest
    OBVIOUS
  <2> HIDE DEF able, add
  <2>5. /\ f \in Ops /\ f.at = IF add THEN "add_jwk_modulus" ELSE "add_zkp_factor"
        /\ ~f.waits /\ ~f.raced /\ f.gave = None
        /\ f.refused = None /\ f.result = None /\ f.done = {} /\ f.sent = {}
        /\ f.signer = chain.jwk_update_key /\ f.expires = new /\ f.len = Len(chain.factors)
        /\ f.able = able
    <3> DEFINE k == IF add THEN "add_jwk_modulus" ELSE "add_zkp_factor"
    <3>1. k \in Steps
      BY DEF Steps, Kinds
    <3>2. f = [Idle EXCEPT !.len = Len(chain.factors), !.expires = new,
                 !.signer = chain.jwk_update_key, !.able = able, !.at = k]
      OBVIOUS
    <3> HIDE DEF k, f
    <3>3. /\ f \in Ops /\ f.at = k /\ ~f.waits /\ ~f.raced /\ f.gave = None
          /\ f.refused = None /\ f.result = None /\ f.done = {} /\ f.sent = {}
          /\ f.signer = chain.jwk_update_key /\ f.expires = new /\ f.len = Len(chain.factors)
          /\ f.able = able
      BY <2>1, <2>2, <3>1, <3>2, IdleOp DEF Ops
    <3> QED BY <3>3 DEF k
  <2>6. Begin(d, "factor", f)
    BY <1>4
  <2> HIDE DEF f
  <2>7. KindOf("factor", f.at) /\ f.at # "idle"
    BY <2>5 DEF KindOf
  <2>8. Facts(d, f, chain)
    BY <1>2, <1>4, <2>3, <2>4, <2>4b, <2>5 DEF Facts, FactorFacts, SignedJobs, WhitelistJobs
  <2> QED BY <2>5, <2>6, <2>7, <2>8, BeginsWith
<1>5. CASE Begin(d, "factor", [Failed EXCEPT !.term = ReportFailure("factor", "error")])
  BY <1>5, BeginReported
<1> QED BY <1>3, <1>4, <1>5

LEMMA DeleteZkpFactorGood ==
  ASSUME Inv, NEW d \in Devices, DeleteZkpFactorByItself(d)
  PROVE  Inv'
<1> DEFINE f == [Idle EXCEPT !.at = "delete_zkp_factor", !.len = Len(chain.factors),
                             !.able = TRUE]
<1>1. Types /\ chain \in Chains
  BY DEF Inv, Types
<1>2. job[d] = "unfactor"
  BY DEF DeleteZkpFactorByItself, Begin
<1>3. CASE Signs(d)
  <2>0. Len(chain.factors) \in Int
    BY <1>1 DEF Chains
  <2>1. /\ f \in Ops /\ f.at = "delete_zkp_factor" /\ ~f.waits /\ ~f.raced /\ f.gave = None
        /\ f.refused = None /\ f.result = None /\ f.done = {} /\ f.sent = {}
        /\ f.len = Len(chain.factors)
    BY <2>0, IdleOp DEF Ops, Steps, Kinds
  <2>2. Begin(d, "unfactor", f)
    BY <1>3 DEF DeleteZkpFactorByItself
  <2> HIDE DEF f
  <2>3. KindOf("unfactor", f.at) /\ f.at # "idle"
    BY <2>1 DEF KindOf
  <2>4. Facts(d, f, chain)
    BY <1>2, <1>3, <2>1 DEF Facts, UnfactorFacts, Signs, SignedJobs, WhitelistJobs
  <2> QED BY <2>1, <2>2, <2>3, <2>4, BeginsWith
<1>4. CASE ~Signs(d)
  BY <1>4, BeginFailed DEF DeleteZkpFactorByItself, Reported
<1> QED BY <1>3, <1>4

LEMMA UpdateZkIdStartGood ==
  ASSUME Inv, NEW d \in Devices, UpdateZkId(d)
  PROVE  Inv'
<1> DEFINE f == [Idle EXCEPT !.at = "update_zk_id", !.key = chain.owner,
                             !.able = chain.deployed]
<1>1. Types /\ chain \in Chains /\ chain.owner \in Keys /\ chain.deployed \in BOOLEAN
  BY DEF Inv, Types, Chains
<1>2. job[d] = "zkid"
  BY DEF UpdateZkId, Begin
<1>3. /\ f \in Ops /\ f.at = "update_zk_id" /\ ~f.waits /\ ~f.raced /\ f.gave = None
      /\ f.refused = None /\ f.result = None /\ f.done = {} /\ f.sent = {}
      /\ f.key = chain.owner /\ f.able = chain.deployed
  BY <1>1, IdleOp DEF Ops, Steps, Kinds
<1>4. Begin(d, "zkid", f)
  BY DEF UpdateZkId
<1> HIDE DEF f
<1>5. KindOf("zkid", f.at) /\ f.at # "idle"
  BY <1>3 DEF KindOf
<1>6. Facts(d, f, chain)
  BY <1>2, <1>3 DEF Facts, ZkidFacts, SignedJobs, WhitelistJobs
<1> QED BY <1>3, <1>4, <1>5, <1>6, BeginsWith

LEMMA UpdateContractGood ==
  ASSUME Inv, NEW d \in Devices, UpdateContract(d)
  PROVE  Inv'
<1> DEFINE f == [Idle EXCEPT !.at = FlagStep(NeededFlags), !.need = NeededFlags,
                   !.key = chain.owner, !.able = chain.deployed]
<1>1. Types /\ chain \in Chains /\ chain.owner \in Keys /\ chain.deployed \in BOOLEAN
      /\ chain.force_remove_oldest \in BOOLEAN /\ chain.wasm_hash \in BOOLEAN
  BY DEF Inv, Types, Chains
<1>2. job[d] = "flags"
  BY DEF UpdateContract, Begin
<1>3. /\ NeededFlags \subseteq Needs /\ FlagStep(NeededFlags) \in Steps
      /\ FlagStep(NeededFlags) \in {"set_force_remove_oldest", "set_wasm_hash"}
  BY DEF NeededFlags, Needs, FlagStep, Steps, Kinds
<1>4. CASE NeededFlags # {}
  <2>1. /\ f \in Ops /\ f.at = FlagStep(NeededFlags) /\ ~f.waits /\ ~f.raced /\ f.gave = None
        /\ f.refused = None /\ f.result = None /\ f.done = {} /\ f.sent = {}
        /\ f.key = chain.owner /\ f.able = chain.deployed /\ f.need = NeededFlags
    BY <1>1, <1>3, IdleOp DEF Ops
  <2>2. Begin(d, "flags", f)
    BY <1>4 DEF UpdateContract
  <2> HIDE DEF f
  <2>3. KindOf("flags", f.at) /\ f.at # "idle"
    BY <1>3, <2>1 DEF KindOf
  <2>4. FlagFacts(d, f, chain)
    BY <1>1, <1>4, <2>1 DEF FlagFacts, NeededFlags, FlagStep
  <2>5. Facts(d, f, chain)
    BY <1>2, <2>4 DEF Facts, SignedJobs, WhitelistJobs
  <2> QED BY <2>1, <2>2, <2>3, <2>5, BeginsWith
<1>5. CASE NeededFlags = {}
  <2> DEFINE g == [Idle EXCEPT !.result = "ok"]
  <2>1. Begin(d, "flags", g)
    BY <1>5 DEF UpdateContract
  <2>2. /\ g \in Ops /\ g.at = "idle" /\ ~g.raced /\ g.gave = None /\ g.refused = None
        /\ g.result = "ok"
    BY IdleOp DEF Ops, Results
  <2>3. chain.force_remove_oldest /\ chain.wasm_hash
    BY <1>5 DEF NeededFlags
  <2>4. Effect(d)
    BY <1>2, <2>3 DEF Effect
  <2> HIDE DEF g
  <2> QED BY <2>1, <2>2, <2>4, BeginGood DEF Reported
<1> QED BY <1>4, <1>5

\* An operation that begins with what the whitelist lacks.
LEMMA WithWhitelistGood ==
  ASSUME Inv, NEW d \in Devices, NEW j \in WhitelistJobs, Begin(d, j, WithWhitelist(d, j)),
         Signs(d), j \in {"set_key", "del_key", "del_key_nowait"} => chain.miner
  PROVE  Inv'
<1> DEFINE kind == SubmittedBy(j)
           at == WhitelistStep(kind)
           f == [Idle EXCEPT !.at = at, !.target = Target(kind), !.able = TRUE]
<1>1. Types /\ IsFiniteSet(chain.whitelist)
  BY DEF Inv, ChainOK
<1>2. job[d] = j
  BY DEF Begin
<1>3. kind \in {"deploy_miner", "set_owner_public", "remove_owner_public", "withdraw"}
  BY DEF SubmittedBy, WhitelistJobs
<1>4. Target(kind) \in Targets /\ kind \notin {"clean_whitelist", "update_whitelist"}
  BY <1>3 DEF Target, Targets
<1>5. at \in {kind, "clean_whitelist", "update_whitelist"} /\ at \in Steps /\ at # "idle"
  BY <1>3 DEF WhitelistStep, Steps, Kinds
<1>6. at = kind => Target(kind) \in chain.whitelist
  BY <1>4 DEF WhitelistStep
<1>7. at = "clean_whitelist" => Cardinality(chain.whitelist) # 1
  <2>1. Cardinality(chain.whitelist) \in Nat /\ WhitelistMax \in Nat \ {0}
    BY <1>1, WalletAssumption, FS_CardinalityType
  <2>2. at = "clean_whitelist" => Cardinality(chain.whitelist) > WhitelistMax
    BY <1>4 DEF WhitelistStep
  <2> QED BY <2>1, <2>2
<1>8. Begin(d, j, f)
  BY DEF WithWhitelist
<1>9. KindOf(j, at)
  BY <1>5 DEF KindOf, SubmittedBy, WhitelistJobs
<1> HIDE DEF kind, at
<1>10. /\ f \in Ops /\ f.at = at /\ ~f.waits /\ ~f.raced /\ f.gave = None
       /\ f.refused = None /\ f.result = None /\ f.done = {} /\ f.sent = {}
       /\ f.target = Target(kind)
  BY <1>4, <1>5, IdleOp DEF Ops
<1> HIDE DEF f
<1>11. WhitelistFacts(d, f, chain)
  BY <1>2, <1>4, <1>5, <1>6, <1>7, <1>10 DEF WhitelistFacts, kind
<1>12. Facts(d, f, chain)
  BY <1>2, <1>11 DEF Facts, Signs, WhitelistJobs
<1>13. j \notin DeployJobs
  BY DEF WhitelistJobs
<1> QED BY <1>5, <1>8, <1>9, <1>10, <1>12, <1>13, BeginsWith

LEMMA DeployMinerStartGood ==
  ASSUME Inv, NEW d \in Devices, DeployMiner(d)
  PROVE  Inv'
<1> DEFINE g == [Idle EXCEPT !.result = "ok", !.term = EmitDeployOutcome("deploy_miner", "ok")]
<1>1. job[d] = "deploy_miner"
  BY DEF DeployMiner, Begin
<1>2. CASE chain.miner
  <2>1. Begin(d, "deploy_miner", g)
    BY <1>2 DEF DeployMiner
  <2>2. EmitDeployOutcome("deploy_miner", "ok") = <<"confirmed">>
        /\ Terminal("deploy_miner", "ok") = "confirmed"
    BY DEF EmitDeployOutcome, Terminal
  <2>3. <<"confirmed">> \in Seq(Milestones) /\ "ok" \in Results
    <3>1. "confirmed" \in Milestones
      BY DEF Milestones
    <3> QED BY <3>1 DEF Results
  <2>4. /\ g \in Ops /\ g.at = "idle" /\ ~g.raced /\ g.gave = None /\ g.refused = None
        /\ g.result = "ok" /\ g.term = <<Terminal("deploy_miner", "ok")>>
    BY <2>2, <2>3, IdleOp DEF Ops
  <2>5. Effect(d)
    BY <1>1, <1>2 DEF Effect
  <2> HIDE DEF g
  <2> QED BY <2>1, <2>4, <2>5, BeginGood
<1>3. CASE ~chain.miner /\ Signs(d)
  BY <1>3, WithWhitelistGood DEF DeployMiner, WhitelistJobs
<1>4. CASE ~chain.miner /\ ~Signs(d)
  BY <1>4, BeginReported DEF DeployMiner
<1> QED BY <1>2, <1>3, <1>4

LEMMA MinerKeysStartGood ==
  ASSUME Inv, NEW d \in Devices,
         SetMiningKeys(d) \/ DelMiningKey(d) \/ WithdrawPopitgameRewards(d)
  PROVE  Inv'
<1>1. CASE SetMiningKeys(d)
  <2>1. CASE chain.miner /\ Signs(d)
    BY <1>1, <2>1, WithWhitelistGood DEF SetMiningKeys, WhitelistJobs
  <2>2. CASE ~(chain.miner /\ Signs(d))
    BY <1>1, <2>2, BeginFailed DEF SetMiningKeys, Reported
  <2> QED BY <2>1, <2>2
<1>2. CASE DelMiningKey(d)
  <2>1. PICK j \in {"del_key", "del_key_nowait"} :
          Begin(d, j, IF chain.miner /\ Signs(d) THEN WithWhitelist(d, j) ELSE Failed)
    BY <1>2 DEF DelMiningKey
  <2>2. CASE chain.miner /\ Signs(d)
    BY <2>1, <2>2, WithWhitelistGood DEF WhitelistJobs
  <2>3. CASE ~(chain.miner /\ Signs(d))
    BY <2>1, <2>3, BeginFailed DEF Reported
  <2> QED BY <2>2, <2>3
<1>3. CASE WithdrawPopitgameRewards(d)
  <2>1. CASE Signs(d)
    BY <1>3, <2>1, WithWhitelistGood DEF WithdrawPopitgameRewards, WhitelistJobs
  <2>2. CASE ~Signs(d)
    BY <1>3, <2>2, BeginFailed DEF WithdrawPopitgameRewards, Reported
  <2> QED BY <2>1, <2>2
<1> QED BY <1>1, <1>2, <1>3

LEMMA AwaitKeyStartGood ==
  ASSUME Inv, NEW d \in Devices, GetMinerAddressByWalletName(d)
  PROVE  Inv'
<1> DEFINE f == [Idle EXCEPT !.at = "await_key", !.waits = TRUE, !.sent = {"await_key"}]
<1>1. job[d] = "await_key" /\ UNCHANGED <<chain, job>>
  BY DEF GetMinerAddressByWalletName, Begin
<1>2. CASE chain.deployed
  <2>1. /\ f \in Ops /\ f.at = "await_key" /\ f.waits /\ ~f.raced /\ f.gave = None
        /\ f.refused = None /\ f.result = None /\ f.done = {} /\ f.sent = {"await_key"}
    BY IdleOp DEF Ops, Steps
  <2>2. Begin(d, "await_key", f)
    BY <1>2 DEF GetMinerAddressByWalletName
  <2> HIDE DEF f
  <2>3. KindOf("await_key", f.at) /\ f.at # "idle"
    BY <2>1 DEF KindOf
  <2>4. Facts(d, f, chain)'
    BY <1>1 DEF Facts, SignedJobs, WhitelistJobs
  <2> QED BY <2>1, <2>2, <2>3, <2>4, BeginGood
<1>3. CASE ~chain.deployed
  BY <1>3, BeginFailed DEF GetMinerAddressByWalletName, Reported
<1> QED BY <1>2, <1>3

LEMMA TransferStartGood ==
  ASSUME Inv, NEW d \in Devices, NEW j, NEW kind, BeginTransfer(d, j, kind),
         \/ j \in {"transfer", "migrate"} /\ kind = "deploy_transaction"
         \/ j \in {"submit", "redeem"} /\ kind = "submit_transaction"
         \/ j = "direct" /\ kind = "send_transaction"
  PROVE  Inv'
<1> DEFINE f == [Idle EXCEPT !.at = kind, !.able = TRUE]
<1>1. job[d] = j
  BY DEF BeginTransfer, Begin
<1>2. CASE Signs(d)
  <2>1. kind \in Steps /\ kind # "idle" /\ KindOf(j, kind)
    BY DEF Steps, Kinds, KindOf
  <2>2. /\ f \in Ops /\ f.at = kind /\ ~f.waits /\ ~f.raced /\ f.gave = None
        /\ f.refused = None /\ f.result = None /\ f.done = {} /\ f.sent = {}
    BY <2>1, IdleOp DEF Ops
  <2>3. Begin(d, j, f)
    BY <1>2 DEF BeginTransfer
  <2> HIDE DEF f
  <2>4. Facts(d, f, chain)
    BY <1>1, <1>2, <2>2 DEF Facts, TransferFacts, Signs, SignedJobs, WhitelistJobs
  <2> QED BY <2>1, <2>2, <2>3, <2>4, BeginsWith
<1>3. CASE ~Signs(d)
  BY <1>3, BeginFailed DEF BeginTransfer, Reported
<1> QED BY <1>2, <1>3

LEMMA DeployMultifactorStartGood ==
  ASSUME Inv, NEW d \in Devices, DeployMultifactor(d)
  PROVE  Inv'
<1>1. job[d] \in DeployJobs /\ UNCHANGED <<chain, job>> /\ tries' = [tries EXCEPT ![d] = @ + 1]
  BY DEF DeployMultifactor, Begin
<1>2. tries \in [Devices -> Nat] /\ chain.deployed \in BOOLEAN
  BY DEF Inv, Types, Chains
<1>3. PICK key \in Keys : key = <<d, tries[d] + 1>>
  <2>1. tries[d] + 1 \in Nat
    BY <1>2
  <2>2. <<d, tries[d] + 1>> \in Keys
    BY <2>1 DEF Keys
  <2> QED BY <2>2
<1>4. PICK able \in BOOLEAN : able = ~chain.deployed
  BY <1>2
<1>5. DeployKey(d)' = key
  BY <1>1, <1>2, <1>3 DEF DeployKey
<1> DEFINE f == [Idle EXCEPT !.at = "deploy_multifactor", !.key = key, !.able = able]
<1>6. /\ f \in Ops /\ f.at = "deploy_multifactor" /\ ~f.waits /\ ~f.raced /\ f.gave = None
      /\ f.refused = None /\ f.result = None /\ f.done = {} /\ f.sent = {}
      /\ f.key = key /\ f.able = able
  <2>1. "deploy_multifactor" \in Steps
    BY DEF Steps, Kinds
  <2> QED BY <2>1, IdleOp DEF Ops
<1>7. Begin(d, job[d], f)
  BY <1>3, <1>4 DEF DeployMultifactor, Begin
<1> HIDE DEF f
<1>8. KindOf(job[d], f.at) /\ f.at # "idle"
  BY <1>1, <1>6 DEF KindOf
<1>9. ASSUME NEW g, g = f PROVE Facts(d, g, chain)'
  <2>1. DeployFacts(d, g, chain)'
    BY <1>1, <1>4, <1>5, <1>6, <1>9 DEF DeployFacts
  <2> QED BY <1>1, <2>1 DEF Facts, SignedJobs, WhitelistJobs
<1> QED BY <1>6, <1>7, <1>8, <1>9, BeginGood

LEMMA DeployMultisigStartGood ==
  ASSUME Inv, NEW d \in Devices, DeployMultisigViaGiver(d)
  PROVE  Inv'
<1>1. PICK spec \in {"invalid", "plain", "bad_ecc", "ecc"} :
        Begin(d, "multisig",
          CASE spec = "invalid" -> Failed
            [] spec # "invalid" /\ chain.multisig = "active" -> [Idle EXCEPT !.result = "ok"]
            [] OTHER -> [Idle EXCEPT !.at = "create_multisig", !.able = TRUE, !.need = {spec}])
  BY DEF DeployMultisigViaGiver, MultisigDeploySpec
<1>2. job[d] = "multisig"
  BY <1>1 DEF Begin
<1>3. CASE spec = "invalid"
  BY <1>1, <1>3, BeginFailed DEF Reported
<1>4. CASE spec # "invalid" /\ chain.multisig = "active"
  <2> DEFINE g == [Idle EXCEPT !.result = "ok"]
  <2>1. Begin(d, "multisig", g)
    BY <1>1, <1>4
  <2>2. /\ g \in Ops /\ g.at = "idle" /\ ~g.raced /\ g.gave = None /\ g.refused = None
        /\ g.result = "ok"
    BY IdleOp DEF Ops, Results
  <2>3. Effect(d)
    BY <1>2, <1>4 DEF Effect
  <2> HIDE DEF g
  <2> QED BY <2>1, <2>2, <2>3, BeginGood DEF Reported
<1>5. CASE spec # "invalid" /\ chain.multisig # "active"
  <2> DEFINE f == [Idle EXCEPT !.at = "create_multisig", !.able = TRUE, !.need = {spec}]
  <2>1. /\ f \in Ops /\ f.at = "create_multisig" /\ ~f.waits /\ ~f.raced /\ f.gave = None
        /\ f.refused = None /\ f.result = None /\ f.done = {} /\ f.sent = {}
    <3>1. {spec} \subseteq Needs
      BY <1>5 DEF Needs
    <3> QED BY <3>1, IdleOp DEF Ops, Steps, Kinds
  <2>2. Begin(d, "multisig", f)
    BY <1>1, <1>5
  <2> HIDE DEF f
  <2>3. KindOf("multisig", f.at) /\ f.at # "idle"
    BY <2>1 DEF KindOf
  <2>4. Facts(d, f, chain)
    BY <1>2, <1>5, <2>1 DEF Facts, MultisigFacts, SignedJobs, WhitelistJobs
  <2> QED BY <2>1, <2>2, <2>3, <2>4, BeginsWith
<1> QED BY <1>3, <1>4, <1>5

LEMMA CompleteZkLoginGood ==
  ASSUME Inv, NEW d \in Devices, CompleteZkLogin(d)
  PROVE  Inv'
<1> DEFINE f == [Idle EXCEPT !.at = "prove", !.able = TRUE]
<1>1. job[d] = "prove" /\ Begin(d, "prove", f)
  BY DEF CompleteZkLogin, Begin
<1>2. /\ f \in Ops /\ f.at = "prove" /\ ~f.waits /\ ~f.raced /\ f.gave = None
      /\ f.refused = None /\ f.result = None /\ f.done = {} /\ f.sent = {}
  BY IdleOp DEF Ops, Steps
<1> HIDE DEF f
<1>3. KindOf("prove", f.at) /\ f.at # "idle"
  BY <1>2 DEF KindOf
<1>4. Facts(d, f, chain)
  BY <1>1 DEF Facts, SignedJobs, WhitelistJobs
<1> QED BY <1>1, <1>2, <1>3, <1>4, BeginsWith

LEMMA StartGood ==
  ASSUME Inv, NEW d \in Devices, Start(d)
  PROVE  Inv'
<1>1. CASE SendTokens(d) \/ SendTokensDirect(d) \/ RedeemNackl(d) \/ MigrateTip3Usdc(d)
  BY <1>1, TransferStartGood DEF SendTokens, SendTokensDirect, RedeemNackl, MigrateTip3Usdc
<1> QED BY <1>1, ChangeSeedPhraseGood, AddZkpFactorGood, DeleteZkpFactorGood,
       UpdateZkIdStartGood, UpdateContractGood, DeployMinerStartGood, MinerKeysStartGood,
       AwaitKeyStartGood, DeployMultifactorStartGood, DeployMultisigStartGood,
       CompleteZkLoginGood DEF Start

-----------------------------------------------------------------------------
(* The list of factors. *)

LEMMA AppendFactor ==
  ASSUME NEW s \in Seq(Known), FactorList(s), Len(s) < MaxFactors, NEW d \in Known,
         d \notin Elements(s)
  PROVE  LET t == Append(s, d)
         IN  /\ t \in Seq(Known) /\ FactorList(t) /\ Len(t) = Len(s) + 1
             /\ d \in Elements(t)
<1> DEFINE t == Append(s, d)
<1>1. /\ t \in Seq(Known) /\ Len(t) = Len(s) + 1 /\ Len(s) \in Nat /\ MaxFactors \in Nat
      /\ \A i \in 1 .. Len(s) : t[i] = s[i]
      /\ t[Len(s) + 1] = d
  BY WalletAssumption
<1>2. \A i \in 1 .. Len(t) : i = Len(s) + 1 \/ i \in 1 .. Len(s)
  BY <1>1
<1>3. Len(s) + 1 \in 1 .. Len(t)
  BY <1>1
<1> HIDE DEF t
<1>4. d \in Elements(t)
  BY <1>1, <1>3 DEF Elements
<1>5. \A i, j \in 1 .. Len(t) : t[i] = t[j] => i = j
  BY <1>1, <1>2 DEF FactorList, Elements
<1>6. t \in Seq(Elements(t))
  <2>1. \A i \in 1 .. Len(t) : t[i] \in Elements(t)
    BY DEF Elements
  <2> QED BY <1>1, <2>1
<1> QED BY <1>1, <1>4, <1>5, <1>6 DEF FactorList, t

LEMMA TailFactor ==
  ASSUME NEW s \in Seq(Known), FactorList(s), Len(s) >= MaxFactors
  PROVE  LET t == Tail(s)
         IN  /\ t \in Seq(Known) /\ FactorList(t) /\ Len(t) = Len(s) - 1
             /\ Len(t) < MaxFactors /\ Len(s) = MaxFactors /\ Elements(t) \subseteq Elements(s)
<1> DEFINE t == Tail(s)
<1>1. Len(s) \in Nat /\ MaxFactors \in Nat \ {0} /\ Len(s) = MaxFactors
  BY WalletAssumption DEF FactorList
<1>2. s # <<>>
  BY <1>1
<1>3. t \in Seq(Known) /\ Len(t) = Len(s) - 1 /\ \A i \in 1 .. Len(t) : t[i] = s[i + 1]
  BY <1>1, <1>2, HeadTailProperties
<1>4. \A i \in 1 .. Len(t) : i + 1 \in 1 .. Len(s)
  BY <1>1, <1>3
<1> HIDE DEF t
<1>5. Elements(t) \subseteq Elements(s)
  BY <1>3, <1>4 DEF Elements
<1>6. \A i, j \in 1 .. Len(t) : t[i] = t[j] => i = j
  BY <1>1, <1>3, <1>4 DEF FactorList
<1>7. t \in Seq(Elements(t))
  <2>1. \A i \in 1 .. Len(t) : t[i] \in Elements(t)
    BY DEF Elements
  <2> QED BY <1>3, <2>1
<1> QED BY <1>1, <1>3, <1>5, <1>6, <1>7 DEF FactorList, t

LEMMA RemoveFactor ==
  ASSUME NEW s \in Seq(Known), FactorList(s), NEW d \in Elements(s)
  PROVE  LET t == RemovePlace(s, CHOOSE i \in 1 .. Len(s) : s[i] = d)
         IN  /\ t \in Seq(Known) /\ FactorList(t) /\ Len(t) = Len(s) - 1
             /\ d \notin Elements(t)
<1> DEFINE i == CHOOSE n \in 1 .. Len(s) : s[n] = d
           a == SubSeq(s, 1, i - 1)
           b == SubSeq(s, i + 1, Len(s))
           t == a \o b
<1>1. i \in 1 .. Len(s) /\ s[i] = d /\ Len(s) \in Nat
  BY DEF Elements
<1> HIDE DEF i
<1>2. a \in Seq(Known) /\ Len(a) = i - 1 /\ \A n \in 1 .. i - 1 : a[n] = s[n]
  <2>1. \A n \in 1 .. i - 1 : s[n] \in Known
    BY <1>1
  <2> QED BY <1>1, <2>1, SubSeqProperties
<1>3. b \in Seq(Known) /\ Len(b) = Len(s) - i /\ \A n \in 1 .. Len(s) - i : b[n] = s[n + i]
  <2>1. \A n \in i + 1 .. Len(s) : s[n] \in Known
    BY <1>1
  <2> QED BY <1>1, <2>1, SubSeqProperties
<1> HIDE DEF a, b
<1>4. /\ t \in Seq(Known) /\ Len(t) = Len(s) - 1
      /\ \A n \in 1 .. Len(t) : t[n] = IF n <= i - 1 THEN a[n] ELSE b[n - (i - 1)]
  <2>1. /\ t \in Seq(Known) /\ Len(t) = Len(a) + Len(b)
        /\ \A n \in 1 .. Len(a) + Len(b) : t[n] = IF n <= Len(a) THEN a[n] ELSE b[n - Len(a)]
    BY <1>2, <1>3, ConcatProperties
  <2> HIDE DEF t
  <2>2. Len(a) + Len(b) = Len(s) - 1 /\ Len(a) = i - 1
    BY <1>1, <1>2, <1>3
  <2> QED BY <2>1, <2>2
<1> DEFINE p(n) == IF n < i THEN n ELSE n + 1
<1>5. \A n \in 1 .. Len(t) : p(n) \in 1 .. Len(s) /\ p(n) # i /\ t[n] = s[p(n)]
  BY <1>1, <1>2, <1>3, <1>4
<1>6. \A m, n \in 1 .. Len(t) : p(m) = p(n) => m = n
  BY <1>1, <1>4
<1> HIDE DEF t, p
<1>7. \A m, n \in 1 .. Len(s) : s[m] = s[n] => m = n
  BY DEF FactorList
<1>8. d \notin Elements(t)
  BY <1>1, <1>5, <1>7 DEF Elements
<1>9. \A m, n \in 1 .. Len(t) : t[m] = t[n] => m = n
  BY <1>5, <1>6, <1>7
<1>10. t \in Seq(Elements(t))
  <2>1. \A n \in 1 .. Len(t) : t[n] \in Elements(t)
    BY DEF Elements
  <2> QED BY <1>4, <2>1
<1>11. Len(t) <= MaxFactors
  BY <1>1, <1>4, WalletAssumption DEF FactorList
<1> QED BY <1>4, <1>8, <1>9, <1>10, <1>11 DEF FactorList, RemovePlace, t, a, b, i

-----------------------------------------------------------------------------
(* A message is executed. *)

\* The list of factors after a message.
FactorsAfter(m) ==
  CASE m.kind = "add_zkp_factor" ->
         Append(IF Len(chain.factors) < MaxFactors THEN chain.factors ELSE Tail(chain.factors), m.d)
    [] m.kind = "delete_zkp_factor" ->
         RemovePlace(chain.factors, CHOOSE i \in 1 .. Len(chain.factors) : chain.factors[i] = m.d)
    [] OTHER -> chain.factors

LEMMA FactorsAfterOK ==
  ASSUME Types, ChainOK, NEW m \in Messages, Accepts(m)
  PROVE  /\ FactorsAfter(m) \in Seq(Known) /\ FactorList(FactorsAfter(m))
         /\ m.kind = "add_zkp_factor" =>
              /\ m.d \in Elements(FactorsAfter(m))
              /\ Len(FactorsAfter(m)) = TargetFactorsLen(Len(chain.factors))
         /\ m.kind = "delete_zkp_factor" =>
              /\ m.d \notin Elements(FactorsAfter(m))
              /\ Len(FactorsAfter(m)) = Len(chain.factors) - 1
         /\ m.kind \notin {"add_zkp_factor", "delete_zkp_factor"} =>
              FactorsAfter(m) = chain.factors
<1> DEFINE s == chain.factors
<1>1. s \in Seq(Known) /\ FactorList(s) /\ m.d \in Devices /\ m.d \in Known /\ Len(s) \in Nat
  BY DEF Types, Chains, ChainOK, Messages, Known
<1>2. Len(s) <= MaxFactors /\ MaxFactors \in Nat
  BY <1>1, WalletAssumption DEF FactorList
<1>3. CASE m.kind = "add_zkp_factor" /\ Len(s) < MaxFactors
  <2>1. m.d \notin Elements(s) /\ FactorsAfter(m) = Append(s, m.d)
    BY <1>3 DEF Accepts, FactorsAfter
  <2>2. /\ Append(s, m.d) \in Seq(Known) /\ FactorList(Append(s, m.d))
        /\ Len(Append(s, m.d)) = Len(s) + 1 /\ m.d \in Elements(Append(s, m.d))
    BY <1>1, <1>3, <2>1, AppendFactor
  <2>3. TargetFactorsLen(Len(s)) = Len(s) + 1
    BY <1>1, <1>2, <1>3 DEF TargetFactorsLen
  <2> QED BY <1>3, <2>1, <2>2, <2>3
<1>4. CASE m.kind = "add_zkp_factor" /\ ~(Len(s) < MaxFactors)
  <2> DEFINE t == Tail(s)
  <2>1. m.d \notin Elements(s) /\ FactorsAfter(m) = Append(t, m.d) /\ Len(s) >= MaxFactors
    BY <1>1, <1>2, <1>4 DEF Accepts, FactorsAfter
  <2>2. /\ t \in Seq(Known) /\ FactorList(t) /\ Len(t) = Len(s) - 1 /\ Len(t) < MaxFactors
        /\ Len(s) = MaxFactors /\ Elements(t) \subseteq Elements(s)
    BY <1>1, <2>1, TailFactor
  <2> HIDE DEF t
  <2>3. /\ Append(t, m.d) \in Seq(Known) /\ FactorList(Append(t, m.d))
        /\ Len(Append(t, m.d)) = Len(t) + 1 /\ m.d \in Elements(Append(t, m.d))
    BY <1>1, <2>1, <2>2, AppendFactor
  <2>4. TargetFactorsLen(Len(s)) = MaxFactors /\ Len(t) + 1 = MaxFactors
    BY <1>1, <1>2, <2>2 DEF TargetFactorsLen
  <2> QED BY <1>4, <2>1, <2>3, <2>4
<1>5. CASE m.kind = "delete_zkp_factor"
  <2>1. m.d \in Elements(s)
    BY <1>5 DEF Accepts, EpkSigned
  <2> DEFINE t == RemovePlace(s, CHOOSE i \in 1 .. Len(s) : s[i] = m.d)
  <2>2. FactorsAfter(m) = t
    BY <1>5 DEF FactorsAfter
  <2>3. /\ t \in Seq(Known) /\ FactorList(t) /\ Len(t) = Len(s) - 1
        /\ m.d \notin Elements(t)
    BY <1>1, <2>1, RemoveFactor
  <2> HIDE DEF t
  <2> QED BY <1>5, <2>2, <2>3
<1>6. CASE m.kind \notin {"add_zkp_factor", "delete_zkp_factor"}
  BY <1>1, <1>6 DEF FactorsAfter
<1> QED BY <1>3, <1>4, <1>5, <1>6

\* What a message changes of the contracts, field by field.
LEMMA ApplyFields ==
  ASSUME Types, NEW m \in Messages
  PROVE  LET c == Apply(m)
             k == m.kind
         IN  /\ c.deployed = IF k = "deploy_multifactor" THEN TRUE ELSE chain.deployed
             /\ c.owner = IF k = "accept_candidate" THEN SeedKey(m.d)
                          ELSE IF k = "deploy_multifactor" THEN m.key ELSE chain.owner
             /\ c.candidate = IF k = "change_seed_phrase" THEN m.d
                              ELSE IF k \in {"delete_candidate", "accept_candidate"} THEN None
                              ELSE chain.candidate
             /\ c.factors = FactorsAfter(m)
             /\ c.zkid = IF k = "update_zk_id" THEN Password(m.d) ELSE chain.zkid
             /\ c.pub_recovery_key = IF k = "update_recovery_phrase"
                                     THEN <<Password(m.d), "current">> ELSE chain.pub_recovery_key
             /\ c.jwk_update_key = IF k = "update_zk_id"
                                   THEN <<Password(m.d), "current">> ELSE chain.jwk_update_key
             /\ c.jwk = IF k = "add_jwk_modulus" THEN m.expires ELSE chain.jwk
             /\ c.force_remove_oldest = IF k = "set_force_remove_oldest" THEN TRUE
                                        ELSE chain.force_remove_oldest
             /\ c.wasm_hash = IF k = "set_wasm_hash" THEN TRUE ELSE chain.wasm_hash
             /\ c.whitelist = IF k = "clean_whitelist" THEN {"root"}
                              ELSE IF k = "update_whitelist" THEN chain.whitelist \cup {m.target}
                              ELSE chain.whitelist
             /\ c.miner = IF k = "deploy_miner" THEN TRUE ELSE chain.miner
             /\ c.owner_public = IF k = "set_owner_public" THEN m.d
                                 ELSE IF k = "remove_owner_public" THEN None
                                 ELSE chain.owner_public
             /\ c.txs = IF k = "deploy_transaction" THEN chain.txs \cup {m.d}
                        ELSE IF k = "submit_transaction" THEN chain.txs \ {m.d} ELSE chain.txs
             /\ c.multisig = IF k = "create_multisig"
                             THEN IF chain.multisig = "none" THEN "uninit" ELSE chain.multisig
                             ELSE IF k = "deploy_multisig" THEN "active" ELSE chain.multisig
<1>1. chain \in Chains /\ m.kind \in Kinds
  BY DEF Types, Messages
<1> DEFINE k == m.kind
           c == Apply(m)
<1>2. CASE k \in {"change_seed_phrase", "delete_candidate", "accept_candidate"}
  BY <1>1, <1>2 DEF Apply, Chains, FactorsAfter
<1>3. CASE k = "add_jwk_modulus"
  BY <1>1, <1>3 DEF Apply, Chains, FactorsAfter
<1>4. CASE k = "add_zkp_factor"
  BY <1>1, <1>4 DEF Apply, Chains, FactorsAfter
<1>5. CASE k = "delete_zkp_factor"
  BY <1>1, <1>5 DEF Apply, Chains, FactorsAfter
<1>6. CASE k \in {"update_zk_id", "update_recovery_phrase"}
  BY <1>1, <1>6 DEF Apply, Chains, FactorsAfter, BuildUpdateJwkKeys, BuildRecoveryKeys
<1>7. CASE k \in {"set_force_remove_oldest", "set_wasm_hash"}
  BY <1>1, <1>7 DEF Apply, Chains, FactorsAfter
<1>8. CASE k \in {"clean_whitelist", "update_whitelist"}
  BY <1>1, <1>8 DEF Apply, Chains, FactorsAfter
<1>9. CASE k \in {"deploy_miner", "set_owner_public", "remove_owner_public"}
  BY <1>1, <1>9 DEF Apply, Chains, FactorsAfter
<1>10. CASE k \in {"deploy_transaction", "submit_transaction"}
  BY <1>1, <1>10 DEF Apply, Chains, FactorsAfter
<1>11. CASE k \in {"send_transaction", "top_up", "withdraw"}
  BY <1>1, <1>11 DEF Apply, Chains, FactorsAfter
<1>12. CASE k = "deploy_multifactor"
  BY <1>1, <1>12 DEF Apply, Chains, FactorsAfter
<1>13. CASE k \in {"create_multisig", "deploy_multisig"}
  BY <1>1, <1>13 DEF Apply, Chains, FactorsAfter
<1> QED BY <1>1, <1>2, <1>3, <1>4, <1>5, <1>6, <1>7, <1>8, <1>9, <1>10, <1>11, <1>12, <1>13
        DEF Kinds

LEMMA ApplyTyped ==
  ASSUME Types, ChainOK, NEW m \in Messages, Accepts(m)
  PROVE  Apply(m) \in Chains /\ FactorList(Apply(m).factors) /\ IsFiniteSet(Apply(m).whitelist)
<1> DEFINE k == m.kind
           c == Apply(m)
<1>1. chain \in Chains /\ k \in Kinds /\ m.d \in Devices /\ m.key \in Keys /\ m.expires \in Int
      /\ m.target \in Targets
  BY DEF Types, Messages
<1>2. SeedKey(m.d) \in Keys
  BY <1>1 DEF SeedKey, Keys
<1>3. Password(m.d) \in {"old", "new"} /\ <<Password(m.d), "current">> \in Pairs
  BY DEF Password, Pairs
<1>4. {"root"} \subseteq Targets /\ {m.target} \subseteq Targets /\ {m.d} \subseteq Devices
  BY <1>1 DEF Targets
<1>5. FactorsAfter(m) \in Seq(Known) /\ FactorList(FactorsAfter(m))
  BY FactorsAfterOK
<1>6. c \in Chains
  <2>1. CASE k \in {"change_seed_phrase", "delete_candidate", "accept_candidate"}
    BY <1>1, <1>2, <2>1 DEF Apply, Chains
  <2>2. CASE k = "add_jwk_modulus"
    BY <1>1, <2>2 DEF Apply, Chains
  <2>3. CASE k \in {"add_zkp_factor", "delete_zkp_factor"}
    <3>1. c = [chain EXCEPT !.factors = FactorsAfter(m)]
      <4>1. CASE k = "add_zkp_factor"
        BY <4>1 DEF Apply, FactorsAfter
      <4>2. CASE k = "delete_zkp_factor"
        BY <4>2 DEF Apply, FactorsAfter
      <4> QED BY <2>3, <4>1, <4>2
    <3> HIDE DEF c
    <3> QED BY <1>1, <1>5, <3>1 DEF Chains
  <2>4. CASE k \in {"update_zk_id", "update_recovery_phrase"}
    <3> DEFINE p == <<Password(m.d), "current">>
               q == Password(m.d)
    <3>1. \/ c = [chain EXCEPT !.zkid = q, !.jwk_update_key = p]
          \/ c = [chain EXCEPT !.pub_recovery_key = p]
      BY <2>4 DEF Apply, BuildUpdateJwkKeys, BuildRecoveryKeys
    <3>2. q \in {"old", "new"} /\ p \in Pairs
      BY <1>3
    <3> HIDE DEF c, p, q
    <3>3. chain \in Chains
      BY <1>1
    <3>4. [chain EXCEPT !.zkid = q, !.jwk_update_key = p] \in Chains
      BY <3>2, <3>3 DEF Chains
    <3>5. [chain EXCEPT !.pub_recovery_key = p] \in Chains
      BY <3>2, <3>3 DEF Chains
    <3> QED BY <3>1, <3>4, <3>5
  <2>5. CASE k \in {"set_force_remove_oldest", "set_wasm_hash"}
    BY <1>1, <2>5 DEF Apply, Chains
  <2>6. CASE k \in {"clean_whitelist", "update_whitelist"}
    BY <1>1, <1>4, <2>6 DEF Apply, Chains
  <2>7. CASE k \in {"deploy_miner", "set_owner_public", "remove_owner_public"}
    BY <1>1, <2>7 DEF Apply, Chains
  <2>8. CASE k \in {"deploy_transaction", "submit_transaction"}
    BY <1>1, <1>4, <2>8 DEF Apply, Chains
  <2>9. CASE k \in {"send_transaction", "top_up", "withdraw"}
    BY <1>1, <2>9 DEF Apply
  <2>10. CASE k = "deploy_multifactor"
    BY <1>1, <2>10 DEF Apply, Chains
  <2>11. CASE k \in {"create_multisig", "deploy_multisig"}
    BY <1>1, <2>11 DEF Apply, Chains
  <2> QED BY <1>1, <2>1, <2>2, <2>3, <2>4, <2>5, <2>6, <2>7, <2>8, <2>9, <2>10, <2>11 DEF Kinds
<1>7. c.factors = FactorsAfter(m)
      /\ \/ c.whitelist = {"root"} \/ c.whitelist = chain.whitelist \cup {m.target}
         \/ c.whitelist = chain.whitelist
  BY ApplyFields
<1>8. IsFiniteSet({"root"}) /\ IsFiniteSet({m.target}) /\ IsFiniteSet(chain.whitelist)
  BY FS_Singleton DEF ChainOK
<1>9. IsFiniteSet(chain.whitelist \cup {m.target})
  BY <1>8, FS_Union
<1> HIDE DEF c
<1>10. IsFiniteSet(c.whitelist)
  BY <1>7, <1>8, <1>9
<1> QED BY <1>5, <1>6, <1>7, <1>10 DEF c

\* To another device, or to a later run, the change comes from outside.
LEMMA FineOutside ==
  ASSUME Inv, NEW e \in Devices, UNCHANGED <<job, tries>>,
         dev'[e] = [dev[e] EXCEPT !.raced = tries[e] > 0]
  PROVE  Fine(e, dev[e])'
<1>0. SUFFICES ASSUME NEW v, v = dev'[e] PROVE Fine(e, v)'
  BY <1>0
<1> DEFINE u == dev[e]
<1>1. u \in Ops /\ Fine(e, u)
  BY DEF Inv, Types
<1>2. /\ v.raced = (tries[e] > 0) /\ v.at = u.at /\ v.sent = u.sent /\ v.done = u.done
      /\ v.waits = u.waits /\ v.result = u.result /\ v.gave = u.gave /\ v.refused = u.refused
      /\ v.term = u.term /\ v.able = u.able /\ v.len = u.len
  BY <1>0, <1>1 DEF Ops
<1>3. CASE u.at # "idle"
  <2>1. Running(e, u) /\ v.raced /\ u.result # "ok"
    BY <1>1, <1>2, <1>3 DEF Fine, Running, None
  <2>2. Running(e, v)'
    BY <1>2, <2>1 DEF Running, KindOf
  <2> QED BY <1>2, <1>3, <2>1, <2>2 DEF Fine
<1>4. CASE u.at = "idle"
  <2>1. Ended(e, u) /\ (u.result = "ok" => v.raced)
    BY <1>1, <1>2, <1>4 DEF Fine, Ended, None
  <2>2. Ended(e, v)'
    BY <1>2, <2>1 DEF Ended
  <2> QED BY <1>2, <1>4, <2>1, <2>2 DEF Fine
<1> QED BY <1>3, <1>4

\* A late message of the operation leaves its effect in place.
LEMMA EffectStays ==
  ASSUME Inv, NEW m \in way, Accepts(m), Current(m), chain' = Apply(m),
         UNCHANGED <<job, tries>>, Effect(m.d)
  PROVE  Effect(m.d)'
<1> DEFINE d == m.d
           k == m.kind
<1>1. Types /\ ChainOK /\ m \in Messages /\ d \in Devices /\ k \in Kinds
  BY DEF Inv, Types, Messages
<1>2. KindOf(job[d], k)
  BY DEF Inv, WayOK
<1>3. FactorsAfter(m) = chain'.factors
  BY <1>1, ApplyFields
<1>4. CASE job[d] = "seed"
  BY <1>1, <1>2, <1>4, ApplyFields DEF Effect, KindOf, WhitelistJobs, SeedKey
<1>5. CASE job[d] = "factor"
  <2>1. k \in {"add_jwk_modulus", "add_zkp_factor"}
    BY <1>2, <1>5 DEF KindOf, WhitelistJobs
  <2>2. d \in Elements(chain.factors)
    BY <1>5 DEF Effect
  <2>3. d \in Elements(FactorsAfter(m))
    BY <1>1, <2>1, <2>2, FactorsAfterOK
  <2>4. d \in Elements(chain'.factors)
    BY <1>3, <2>3
  <2> QED BY <1>5, <2>4 DEF Effect, Elements
<1>6. CASE job[d] = "unfactor"
  <2>1. k = "delete_zkp_factor"
    BY <1>2, <1>6 DEF KindOf, WhitelistJobs
  <2>2. d \notin Elements(FactorsAfter(m))
    BY <1>1, <2>1, FactorsAfterOK
  <2>3. d \notin Elements(chain'.factors)
    BY <1>3, <2>2
  <2> QED BY <1>6, <2>3 DEF Effect, Elements
<1>7. CASE job[d] = "zkid"
  <2>1. Password(d) = "new" /\ chain.zkid = "new" /\ chain.pub_recovery_key = <<"new", "current">>
    BY <1>7 DEF Effect, Password
  <2>2. chain'.zkid = "new" /\ chain'.pub_recovery_key = <<"new", "current">>
    BY <1>1, <2>1, ApplyFields
  <2> QED BY <1>7, <2>2 DEF Effect
<1>8. CASE job[d] = "flags"
  BY <1>1, <1>8, ApplyFields DEF Effect
<1>9. CASE job[d] = "deploy"
  <2>1. /\ chain.deployed /\ chain.owner = DeployKey(d) /\ chain.force_remove_oldest
        /\ chain.wasm_hash
    BY <1>9 DEF Effect, MultifactorActive
  <2>2. k \in {"set_force_remove_oldest", "set_wasm_hash"}
    BY <1>2, <1>9, <2>1 DEF KindOf, WhitelistJobs, Accepts
  <2>3. /\ chain'.deployed /\ chain'.owner = chain.owner /\ chain'.force_remove_oldest
        /\ chain'.wasm_hash
    BY <1>1, <2>1, <2>2, ApplyFields
  <2> QED BY <1>9, <2>1, <2>3 DEF Effect, MultifactorActive, DeployKey
<1>9a. CASE job[d] = "deploy_bare"
  <2>1. chain.deployed
    BY <1>9a DEF Effect, MultifactorActive
  <2> QED BY <1>2, <1>9a, <2>1 DEF KindOf, WhitelistJobs, Accepts
<1>10. CASE job[d] \in {"deploy_miner", "set_key", "del_key"}
  BY <1>1, <1>2, <1>10, ApplyFields DEF Effect, KindOf, WhitelistJobs
<1>11. CASE job[d] = "await_key"
  BY <1>1, <1>2, <1>11 DEF KindOf, WhitelistJobs, Kinds
<1>12. CASE job[d] = "multisig"
  BY <1>1, <1>2, <1>12, ApplyFields DEF Effect
<1>13. CASE job[d] \in {"none", "del_key_nowait", "withdraw", "transfer", "submit",
                        "direct", "redeem", "migrate", "prove"}
  BY <1>13 DEF Effect
<1> QED BY <1>1, <1>4, <1>5, <1>6, <1>7, <1>8, <1>9, <1>9a, <1>10, <1>11,
        <1>12, <1>13 DEF Types, AllJobs

\* A message of an undisturbed operation establishes what the operation waits for.
LEMMA FactsAfter ==
  ASSUME Inv, NEW m \in way, Accepts(m), Current(m), dev[m.d].at # "idle", ~dev[m.d].raced,
         NEW c, c = Apply(m), NEW v, v.at = dev[m.d].at, v.waits = dev[m.d].waits,
         v.len = dev[m.d].len, v.need = dev[m.d].need, v.able = dev[m.d].able,
         v.key = dev[m.d].key, v.signer = dev[m.d].signer, v.target = dev[m.d].target,
         v.expires = dev[m.d].expires, v.sent = dev[m.d].sent,
         v.done = dev[m.d].done \cup {m.kind}
  PROVE  Facts(m.d, v, c)
<1> DEFINE d == m.d
           k == m.kind
           u == dev[m.d]
<1>1. Types /\ ChainOK /\ m \in Messages /\ d \in Devices /\ k \in Kinds
  BY DEF Inv, Types, Messages
<1>2. KindOf(job[d], k) /\ k \in u.sent /\ k \notin u.done /\ m.key = u.key
      /\ m.expires = u.expires /\ m.target = u.target
  BY DEF Inv, WayOK
<1>3. /\ Facts(d, u, chain) /\ KindOf(job[d], u.at) /\ u.done \subseteq u.sent
      /\ u.sent \subseteq Past(u.at) \cup {u.at}
  BY <1>1, InProgress DEF Running
<1>4. k \in Past(u.at) \cup {u.at}
  BY <1>2, <1>3
<1>5. FactorsAfter(m) = c.factors
  BY <1>1, ApplyFields
<1>6. job[d] \in SignedJobs => c.deployed /\ d \in Elements(c.factors)
  <2>1. SUFFICES ASSUME job[d] \in SignedJobs PROVE c.deployed /\ d \in Elements(c.factors)
    OBVIOUS
  <2>2. chain.deployed /\ d \in Elements(chain.factors)
    BY <1>3, <2>1 DEF Facts
  <2>3. k \notin {"add_zkp_factor", "delete_zkp_factor"}
    BY <1>2, <2>1 DEF KindOf, SignedJobs, WhitelistJobs
  <2>4. c.factors = chain.factors
    BY <1>1, <1>5, <2>3, FactorsAfterOK
  <2>5. c.deployed
    BY <1>1, <2>2, ApplyFields
  <2> QED BY <2>2, <2>4, <2>5
<1>7. ASSUME job[d] = "seed" PROVE SeedFacts(d, v, c)
  <2>1. SeedFacts(d, u, chain)
    BY <1>3, <1>7 DEF Facts
  <2>2. /\ c.pub_recovery_key = chain.pub_recovery_key
        /\ k = "delete_candidate" => c.candidate = None
        /\ k = "change_seed_phrase" => c.candidate = d
        /\ k = "accept_candidate" => c.owner = SeedKey(d)
    BY <1>1, <1>2, <1>7, ApplyFields DEF KindOf, WhitelistJobs
  <2>3. u.at \in {"delete_candidate", "change_seed_phrase", "accept_candidate"}
    BY <1>3, <1>7 DEF KindOf, WhitelistJobs
  <2>4. CASE u.at = "delete_candidate"
    <3>1. k = "delete_candidate"
      BY <1>4, <2>4 DEF Past, Submitted
    <3> QED BY <2>1, <2>2, <2>4, <3>1 DEF SeedFacts
  <2>5. CASE u.at = "change_seed_phrase"
    <3>1. k = "change_seed_phrase"
      <4>1. k \in {"delete_candidate", "change_seed_phrase"}
        BY <1>4, <2>5 DEF Past, Submitted
      <4>2. "delete_candidate" \in u.sent => "delete_candidate" \in u.done
        BY <2>1, <2>5 DEF SeedFacts
      <4> QED BY <1>2, <4>1, <4>2
    <3> QED BY <2>1, <2>2, <2>5, <3>1 DEF SeedFacts
  <2>6. CASE u.at = "accept_candidate"
    <3>1. k = "accept_candidate"
      <4>1. k \in {"delete_candidate", "change_seed_phrase", "accept_candidate"}
        BY <1>4, <2>6 DEF Past, Submitted
      <4>2. /\ "delete_candidate" \in u.sent => "delete_candidate" \in u.done
            /\ "change_seed_phrase" \in u.done
        BY <2>1, <2>6 DEF SeedFacts
      <4> QED BY <1>2, <4>1, <4>2
    <3> QED BY <2>1, <2>2, <2>6, <3>1 DEF SeedFacts
  <2> QED BY <2>3, <2>4, <2>5, <2>6
<1>8. ASSUME job[d] = "factor" PROVE FactorFacts(d, v, c)
  <2>1. FactorFacts(d, u, chain)
    BY <1>3, <1>8 DEF Facts
  <2>2. k \in {"add_jwk_modulus", "add_zkp_factor"}
    BY <1>2, <1>8 DEF KindOf, WhitelistJobs
  <2>3. /\ c.deployed = chain.deployed /\ c.zkid = chain.zkid
        /\ c.jwk_update_key = chain.jwk_update_key
        /\ c.force_remove_oldest = chain.force_remove_oldest
        /\ c.jwk = IF k = "add_jwk_modulus" THEN m.expires ELSE chain.jwk
    BY <1>1, <2>2, ApplyFields
  <2>4. CASE k = "add_jwk_modulus"
    <3>1. c.factors = chain.factors /\ u.expires > 0
      BY <1>1, <1>2, <1>5, <2>1, <2>4, FactorsAfterOK DEF FactorFacts
    <3> QED BY <1>2, <2>1, <2>3, <2>4, <3>1 DEF FactorFacts
  <2>5. CASE k = "add_zkp_factor"
    <3>1. u.len = Len(chain.factors)
      BY <1>2, <2>1, <2>5 DEF FactorFacts
    <3>2. d \in Elements(c.factors) /\ Len(c.factors) = TargetFactorsLen(u.len)
      BY <1>1, <1>5, <2>5, <3>1, FactorsAfterOK
    <3> QED BY <2>1, <2>3, <2>5, <3>2 DEF FactorFacts
  <2> QED BY <2>2, <2>4, <2>5
<1>9. ASSUME job[d] = "unfactor" PROVE UnfactorFacts(d, v, c)
  <2>1. UnfactorFacts(d, u, chain)
    BY <1>3, <1>9 DEF Facts
  <2>2. k = "delete_zkp_factor"
    BY <1>2, <1>9 DEF KindOf, WhitelistJobs
  <2>3. u.len = Len(chain.factors)
    BY <1>2, <2>1, <2>2 DEF UnfactorFacts
  <2>4. d \notin Elements(c.factors) /\ Len(c.factors) = u.len - 1
    BY <1>1, <1>5, <2>2, <2>3, FactorsAfterOK
  <2> QED BY <2>2, <2>4 DEF UnfactorFacts
<1>10. ASSUME job[d] = "zkid" PROVE ZkidFacts(d, v, c)
  <2>1. ZkidFacts(d, u, chain) /\ Password(d) = "new"
    BY <1>3, <1>10 DEF Facts, Password
  <2>2. k \in {"update_zk_id", "update_recovery_phrase"}
    BY <1>2, <1>10 DEF KindOf, WhitelistJobs
  <2>3. /\ c.owner = chain.owner /\ c.deployed = chain.deployed
        /\ c.zkid = IF k = "update_zk_id" THEN "new" ELSE chain.zkid
        /\ c.pub_recovery_key = IF k = "update_recovery_phrase" THEN <<"new", "current">>
                                ELSE chain.pub_recovery_key
    BY <1>1, <2>1, <2>2, ApplyFields
  <2> QED BY <2>1, <2>2, <2>3 DEF ZkidFacts
<1>11. ASSUME FlagFacts(d, u, chain), k \in {"set_force_remove_oldest", "set_wasm_hash"}
       PROVE  FlagFacts(d, v, c) /\ c.deployed = chain.deployed
  <2>1. /\ c.owner = chain.owner /\ c.deployed = chain.deployed
        /\ c.force_remove_oldest = IF k = "set_force_remove_oldest" THEN TRUE
                                   ELSE chain.force_remove_oldest
        /\ c.wasm_hash = IF k = "set_wasm_hash" THEN TRUE ELSE chain.wasm_hash
    BY <1>1, <1>11, ApplyFields
  <2> QED BY <1>11, <2>1 DEF FlagFacts
<1>12. ASSUME job[d] = "flags" PROVE FlagFacts(d, v, c)
  <2>1. FlagFacts(d, u, chain) /\ k \in {"set_force_remove_oldest", "set_wasm_hash"}
    BY <1>2, <1>3, <1>12 DEF Facts, KindOf, WhitelistJobs
  <2> QED BY <1>11, <2>1
<1>13. ASSUME job[d] \in DeployJobs PROVE DeployFacts(d, v, c)
  <2>1. DeployFacts(d, u, chain)
    BY <1>3, <1>13 DEF Facts
  <2>2. k \in {"deploy_multifactor", "set_force_remove_oldest", "set_wasm_hash"}
    BY <1>2, <1>13 DEF KindOf, WhitelistJobs
  <2>3. CASE k = "deploy_multifactor"
    <3>1. ~chain.deployed
      BY <2>3 DEF Accepts
    <3>2. u.at = "deploy_multifactor"
      BY <2>1, <3>1 DEF DeployFacts
    <3>3. c.deployed /\ c.owner = u.key
      BY <1>1, <1>2, <2>3, ApplyFields
    <3> QED BY <2>1, <2>3, <3>2, <3>3 DEF DeployFacts
  <2>4. CASE k \in {"set_force_remove_oldest", "set_wasm_hash"}
    <3>1. u.at # "deploy_multifactor"
      BY <1>4, <2>4 DEF Past, Submitted
    <3>2. FlagFacts(d, u, chain) /\ chain.deployed
      BY <2>1, <3>1 DEF DeployFacts
    <3>3. FlagFacts(d, v, c) /\ c.deployed
      BY <1>11, <2>4, <3>2
    <3> QED BY <2>1, <3>1, <3>3 DEF DeployFacts
  <2> QED BY <2>2, <2>3, <2>4
<1>14. ASSUME job[d] \in WhitelistJobs PROVE WhitelistFacts(d, v, c)
  <2>1. WhitelistFacts(d, u, chain)
    BY <1>3, <1>14 DEF Facts
  <2>2. /\ c.miner = IF k = "deploy_miner" THEN TRUE ELSE chain.miner
        /\ c.owner_public = IF k = "set_owner_public" THEN d
                            ELSE IF k = "remove_owner_public" THEN None
                            ELSE chain.owner_public
        /\ c.whitelist = IF k = "clean_whitelist" THEN {"root"}
                         ELSE IF k = "update_whitelist" THEN chain.whitelist \cup {u.target}
                         ELSE chain.whitelist
    BY <1>1, <1>2, ApplyFields
  <2>3. Cardinality({"root"}) = 1
    BY FS_Singleton
  <2>4. CASE u.at = "clean_whitelist"
    <3>1. k = "clean_whitelist"
      BY <1>4, <2>4 DEF Past, Submitted
    <3>2. u.sent \subseteq {"clean_whitelist"}
      BY <1>3, <2>4 DEF Past, Submitted
    <3> QED BY <1>3, <2>1, <2>2, <2>3, <2>4, <3>1, <3>2 DEF WhitelistFacts
  <2>5. CASE u.at # "clean_whitelist"
    <3>1. k # "clean_whitelist"
      BY <1>2, <2>1, <2>5 DEF WhitelistFacts
    <3>2. \/ u.at = "update_whitelist" \/ u.at = SubmittedBy(job[d])
      BY <1>3, <1>14, <2>5 DEF KindOf, WhitelistJobs, SubmittedBy
    <3>3. k \in {"update_whitelist", SubmittedBy(job[d])}
      BY <1>2, <1>14, <3>1 DEF KindOf, WhitelistJobs, SubmittedBy
    <3>4. u.done \subseteq {"clean_whitelist", "update_whitelist", SubmittedBy(job[d])}
      <4>1. SubmittedBy(job[d]) \in Submitted
        BY <1>14 DEF SubmittedBy, WhitelistJobs, Submitted
      <4>2. Past(u.at) \subseteq {"clean_whitelist", "update_whitelist"}
        BY <3>2, <4>1 DEF Past, Submitted
      <4> QED BY <1>3, <3>2, <4>2
    <3>5. CASE k = "update_whitelist"
      BY <2>1, <2>2, <2>5, <3>5 DEF WhitelistFacts
    <3>6. CASE k = SubmittedBy(job[d])
      <4>1. k \in Submitted /\ k \notin {"clean_whitelist", "update_whitelist"}
        BY <1>14, <3>6 DEF SubmittedBy, WhitelistJobs, Submitted
      <4>2. c.whitelist = chain.whitelist /\ v.done \subseteq {"clean_whitelist", "update_whitelist", k}
        BY <2>2, <3>4, <3>6, <4>1
      <4>3. u.at = k \/ u.at = "update_whitelist"
        BY <3>2, <3>6
      <4>4. /\ "deploy_miner" \in v.done => c.miner
            /\ "set_owner_public" \in v.done => c.owner_public = d
            /\ "remove_owner_public" \in v.done => c.owner_public = None
        BY <2>2, <4>1, <4>2 DEF Submitted
      <4>5. chain.miner => c.miner
        BY <2>2
      <4>6. "update_whitelist" \in v.done <=> "update_whitelist" \in u.done
        BY <4>1
      <4> QED BY <2>1, <2>5, <4>2, <4>4, <4>5, <4>6 DEF WhitelistFacts
    <3> QED BY <3>3, <3>5, <3>6
  <2> QED BY <2>4, <2>5
<1>15. ASSUME job[d] \in {"transfer", "migrate"} PROVE TransferFacts(d, v, c)
  <2>1. TransferFacts(d, u, chain) /\ k \in {"deploy_transaction", "submit_transaction"}
    BY <1>2, <1>3, <1>15 DEF Facts, KindOf, WhitelistJobs
  <2>2. k = "deploy_transaction" => d \in c.txs
    BY <1>1, ApplyFields
  <2> QED BY <2>1, <2>2 DEF TransferFacts
<1>16. ASSUME job[d] = "multisig" PROVE MultisigFacts(d, v, c)
  <2>1. MultisigFacts(d, u, chain) /\ k \in {"create_multisig", "deploy_multisig", "top_up"}
        /\ u.at \in {"create_multisig", "deploy_multisig", "top_up"}
    BY <1>2, <1>3, <1>16 DEF Facts, KindOf, WhitelistJobs
  <2>2. c.multisig = IF k = "create_multisig"
                     THEN IF chain.multisig = "none" THEN "uninit" ELSE chain.multisig
                     ELSE IF k = "deploy_multisig" THEN "active" ELSE chain.multisig
    BY <1>1, ApplyFields
  <2>3. chain.multisig \in {"none", "uninit", "active"}
    BY <1>1 DEF Types, Chains
  <2>4. u.at = "create_multisig" => k = "create_multisig"
    BY <1>4 DEF Past, Submitted
  <2> QED BY <2>1, <2>2, <2>3, <2>4 DEF MultisigFacts
<1> QED BY <1>6, <1>7, <1>8, <1>9, <1>10, <1>12, <1>13, <1>14, <1>15, <1>16 DEF Facts

LEMMA ExecuteGood ==
  ASSUME Inv, NEW m \in way, Execute(m)
  PROVE  Inv'
<1>1. way' = way \ {m} /\ UNCHANGED <<job, tries>>
  BY DEF Execute
<1>2. Types /\ ChainOK /\ m \in Messages /\ m.d \in Devices /\ m.kind \in Kinds
  BY DEF Inv, Types, Messages
<1>3. CASE ~Accepts(m)
  <2>1. UNCHANGED <<chain, dev>>
    BY <1>3 DEF Execute
  <2> QED BY <1>1, <2>1, Shrinks
<1>4. CASE Accepts(m)
  <2>1. /\ chain' = Apply(m)
        /\ dev' = [d \in Devices |->
             IF d = m.d /\ Current(m)
             THEN IF dev[d].at = "idle" THEN dev[d]
                  ELSE [dev[d] EXCEPT !.done = @ \cup {m.kind}]
             ELSE [dev[d] EXCEPT !.raced = tries[d] > 0]]
    BY <1>4 DEF Execute
  <2>2. chain' \in Chains /\ ChainOK'
    <3>1. Apply(m) \in Chains /\ FactorList(Apply(m).factors) /\ IsFiniteSet(Apply(m).whitelist)
      BY <1>2, <1>4, ApplyTyped
    <3>2. chain' \in Chains /\ FactorList(chain'.factors) /\ IsFiniteSet(chain'.whitelist)
      BY <2>1, <3>1
    <3> QED BY <3>2 DEF ChainOK, FactorList, Elements
  <2>3. ASSUME NEW e \in Devices
        PROVE  LET u == dev[e]
                   v == dev'[e]
               IN  /\ v \in Ops /\ v.at = u.at /\ v.waits = u.waits /\ v.len = u.len
                   /\ v.need = u.need /\ v.able = u.able /\ v.key = u.key /\ v.signer = u.signer
                   /\ v.target = u.target /\ v.expires = u.expires /\ v.sent = u.sent
                   /\ v.result = u.result /\ v.gave = u.gave /\ v.refused = u.refused
                   /\ v.done = IF e = m.d /\ Current(m) /\ u.at # "idle"
                               THEN u.done \cup {m.kind} ELSE u.done
                   /\ e = m.d /\ Current(m) => v.raced = u.raced
                   /\ e = m.d /\ Current(m) /\ u.at = "idle" => v = u
                   /\ ~(e = m.d /\ Current(m)) => v = [u EXCEPT !.raced = tries[e] > 0]
    <3>1. dev[e] \in Ops /\ tries[e] \in Nat
      BY <1>2 DEF Types
    <3>2. {m.kind} \subseteq Kinds
      BY <1>2
    <3>3. CASE e = m.d /\ Current(m) /\ dev[e].at = "idle"
      BY <2>1, <3>1, <3>3
    <3>4. CASE e = m.d /\ Current(m) /\ dev[e].at # "idle"
      <4>1. dev'[e] = [dev[e] EXCEPT !.done = @ \cup {m.kind}]
        BY <2>1, <3>4
      <4> QED BY <3>1, <3>2, <3>4, <4>1 DEF Ops
    <3>5. CASE ~(e = m.d /\ Current(m))
      <4>1. dev'[e] = [dev[e] EXCEPT !.raced = tries[e] > 0]
        BY <2>1, <3>5
      <4>2. (tries[e] > 0) \in BOOLEAN
        BY <3>1
      <4> QED BY <3>1, <3>5, <4>1, <4>2 DEF Ops
    <3> QED BY <3>3, <3>4, <3>5
  <2>4. Types'
    <3>1. \A e \in Devices : dev'[e] \in Ops
      BY <2>3
    <3>2. dev' \in [Devices -> Ops]
      BY <2>1, <3>1
    <3> QED BY <1>1, <1>2, <2>2, <3>2 DEF Types
  <2>5. WayOK'
    <3>1. SUFFICES ASSUME NEW n \in way, n # m
          PROVE  /\ n.try <= tries[n.d]
                 /\ n.try = tries[n.d] => KindOf(job[n.d], n.kind)
                 /\ n.try = tries[n.d] /\ dev'[n.d].at # "idle" =>
                      /\ n.kind \in dev'[n.d].sent /\ n.kind \notin dev'[n.d].done
                      /\ n.key = dev'[n.d].key /\ n.signer = dev'[n.d].signer
                      /\ n.target = dev'[n.d].target /\ n.expires = dev'[n.d].expires
      BY <1>1 DEF WayOK, Current, KindOf
    <3>2. n \in Messages /\ n.d \in Devices
      BY <1>2 DEF Types, Messages
    <3>3. /\ n.try <= tries[n.d]
          /\ n.try = tries[n.d] => KindOf(job[n.d], n.kind)
          /\ n.try = tries[n.d] /\ dev[n.d].at # "idle" =>
               /\ n.kind \in dev[n.d].sent /\ n.kind \notin dev[n.d].done
               /\ n.key = dev[n.d].key /\ n.signer = dev[n.d].signer
               /\ n.target = dev[n.d].target /\ n.expires = dev[n.d].expires
      BY DEF Inv, WayOK, Current
    <3>4. /\ dev'[n.d].at = dev[n.d].at /\ dev'[n.d].sent = dev[n.d].sent
          /\ dev'[n.d].key = dev[n.d].key /\ dev'[n.d].signer = dev[n.d].signer
          /\ dev'[n.d].target = dev[n.d].target /\ dev'[n.d].expires = dev[n.d].expires
          /\ dev'[n.d].done = IF n.d = m.d /\ Current(m) /\ dev[n.d].at # "idle"
                              THEN dev[n.d].done \cup {m.kind} ELSE dev[n.d].done
      BY <2>3, <3>2
    <3>5. ASSUME n.d = m.d, Current(m), n.try = tries[n.d], dev[n.d].at # "idle"
          PROVE  n.kind # m.kind
      <4>1. /\ m.try = tries[m.d] /\ m.key = dev[m.d].key /\ m.signer = dev[m.d].signer
            /\ m.target = dev[m.d].target /\ m.expires = dev[m.d].expires
        BY <3>5 DEF Inv, WayOK, Current
      <4>2. ASSUME n.kind = m.kind PROVE n = m
        <5>1. /\ n.d = m.d /\ n.try = m.try /\ n.key = m.key /\ n.signer = m.signer
              /\ n.target = m.target /\ n.expires = m.expires
          BY <3>3, <3>5, <4>1
        <5> QED BY <1>2, <3>2, <4>2, <5>1 DEF Messages
      <4> QED BY <3>1, <4>2
    <3> QED BY <3>3, <3>4, <3>5
  <2>6. ASSUME NEW e \in Devices PROVE Fine(e, dev[e])'
    <3>1. CASE ~(e = m.d /\ Current(m))
      BY <1>1, <2>3, <3>1, FineOutside
    <3>2. CASE e = m.d /\ Current(m) /\ dev[e].at = "idle"
      <4>1. SUFFICES ASSUME NEW v, v = dev'[e] PROVE Fine(e, v)'
        BY <4>1
      <4>2. v = dev[e] /\ Fine(e, v)
        BY <2>3, <3>2, <4>1 DEF Inv
      <4>3. Ended(e, v)'
        BY <1>1, <3>2, <4>2 DEF Fine, Ended
      <4>4. Effect(e) => Effect(e)'
        BY <1>1, <1>4, <2>1, <3>2, EffectStays
      <4> QED BY <1>1, <3>2, <4>2, <4>3, <4>4 DEF Fine
    <3>3. CASE e = m.d /\ Current(m) /\ dev[e].at # "idle"
      <4>1. SUFFICES ASSUME NEW v, v = dev'[e] PROVE Fine(e, v)'
        BY <4>1
      <4>2. Running(e, dev[e]) /\ m.kind \in dev[e].sent
        BY <3>3 DEF Inv, Fine, WayOK
      <4>3. /\ v.at = dev[e].at /\ v.waits = dev[e].waits /\ v.len = dev[e].len
            /\ v.need = dev[e].need /\ v.able = dev[e].able /\ v.key = dev[e].key
            /\ v.signer = dev[e].signer /\ v.target = dev[e].target
            /\ v.expires = dev[e].expires /\ v.sent = dev[e].sent
            /\ v.result = dev[e].result /\ v.gave = dev[e].gave /\ v.refused = dev[e].refused
            /\ v.done = dev[e].done \cup {m.kind} /\ v.raced = dev[e].raced
        BY <2>3, <3>3, <4>1
      <4>4. Running(e, v)'
        BY <1>1, <1>2, <4>2, <4>3 DEF Running, KindOf
      <4>5. ~v.raced => Facts(e, v, chain)'
        <5>1. SUFFICES ASSUME ~v.raced PROVE Facts(e, v, chain)'
          OBVIOUS
        <5>2. PICK c : c = Apply(m)
          OBVIOUS
        <5>3. Facts(e, v, c)
          BY <1>4, <3>3, <4>3, <5>1, <5>2, FactsAfter
        <5>4. Facts(e, v, c)'
          BY <1>1, <5>3 DEF Facts, SeedFacts, FactorFacts, UnfactorFacts, ZkidFacts,
             FlagFacts, DeployFacts, WhitelistFacts, TransferFacts, MultisigFacts, SeedKey,
             Password, DeployKey
        <5> QED BY <2>1, <5>2, <5>4
      <4>6. v.result # "ok" /\ v.at # "idle"
        BY <3>3, <4>2, <4>3 DEF Running, None
      <4> QED BY <4>4, <4>5, <4>6 DEF Fine
    <3> QED BY <3>1, <3>2, <3>3
  <2> QED BY <2>2, <2>4, <2>5, <2>6 DEF Inv
<1> QED BY <1>3, <1>4

LEMMA LoseGood ==
  ASSUME Inv, NEW m \in way, Lose(m)
  PROVE  Inv'
BY Shrinks DEF Lose

-----------------------------------------------------------------------------
(* The theorems. *)

LEMMA InvInit ==
  ASSUME Init
  PROVE  Inv
<1>1. job \in [Devices -> AllJobs] /\ way = {} /\ dev = [d \in Devices |-> Idle]
      /\ tries = [d \in Devices |-> 0]
  BY WalletAssumption DEF Init
<1>2. PICK path \in {"current", "legacy"}, f \in InitFactors, w \in InitWhitelist,
           miner \in BOOLEAN, flags \in BOOLEAN, jwk \in {0, Life - 1} :
        /\ (Asked({"seed", "factor"}) /\ \E d \in Devices : Alone(d)) \/ path = "current"
        /\ Asked({"factor"}) \/ jwk = 0
        /\ Asked({"factor", "flags", "deploy"}) \/ flags
        /\ Asked({"deploy_miner", "set_key"}) \/ miner
        /\ Asked(WhitelistJobs) \/ w = {"root"}
        /\ \A d \in Devices : job[d] \notin {"none", "factor"} \cup DeployJobs => d \in Elements(f)
        /\ chain = [deployed |-> \A d \in Devices : job[d] \notin DeployJobs,
                    owner |-> <<"first", 0>>, candidate |-> None, factors |-> f,
                    zkid |-> "old", pub_recovery_key |-> <<"old", path>>,
                    jwk_update_key |-> <<"old", path>>, jwk |-> jwk,
                    force_remove_oldest |-> flags, wasm_hash |-> flags,
                    whitelist |-> w, miner |-> miner, owner_public |-> None,
                    txs |-> {}, multisig |-> "none"]
  BY Zenon DEF Init
<1>3. FactorList(f) /\ IsFiniteSet(w) /\ Life \in Nat
  BY WalletAssumption
<1>4. f \in Seq(Known)
  <2>1. f \in Seq(Elements(f)) /\ Elements(f) \subseteq Known
    BY <1>3 DEF FactorList, Known
  <2> QED BY <2>1
<1>5. <<"first", 0>> \in Keys /\ <<"old", path>> \in Pairs /\ jwk \in Int /\ w \subseteq Targets
  BY <1>3 DEF Keys, Pairs, Targets
<1>6. chain \in Chains
  <2> DEFINE deployed == \A d \in Devices : job[d] \notin DeployJobs
  <2>1. deployed \in BOOLEAN
    OBVIOUS
  <2> HIDE DEF deployed
  <2>2. chain = [deployed |-> deployed,
                 owner |-> <<"first", 0>>, candidate |-> None, factors |-> f,
                 zkid |-> "old", pub_recovery_key |-> <<"old", path>>,
                 jwk_update_key |-> <<"old", path>>, jwk |-> jwk,
                 force_remove_oldest |-> flags, wasm_hash |-> flags,
                 whitelist |-> w, miner |-> miner, owner_public |-> None,
                 txs |-> {}, multisig |-> "none"]
    BY <1>2 DEF deployed
  <2> QED BY <1>4, <1>5, <2>1, <2>2 DEF Chains
<1>7. Types
  BY <1>1, <1>6, IdleOp DEF Types
<1>8. ChainOK
  BY <1>2, <1>3 DEF ChainOK
<1>9. ASSUME NEW d \in Devices PROVE Fine(d, dev[d])
  <2>1. dev[d] = Idle
    BY <1>1
  <2>2. /\ Idle.at = "idle" /\ Idle.result = None /\ Idle.gave = None /\ Idle.refused = None
    BY IdleOp
  <2> QED BY <2>1, <2>2 DEF Fine, Ended, None
<1> QED BY <1>1, <1>7, <1>8, <1>9 DEF Inv, WayOK

LEMMA InvNext ==
  ASSUME Inv, [Next]_vars
  PROVE  Inv'
<1>1. CASE UNCHANGED vars
  BY <1>1, Shrinks DEF vars
<1>2. CASE Next
  BY <1>2, StartGood, StepGood, ReadFailsGood, CrashGood, ExecuteGood, LoseGood DEF Next
<1> QED BY <1>1, <1>2

\* Every reachable state of the wallet operations (cmd.rs, multifactor.rs,
\* miner/cmd.rs, poll.rs) satisfies the inductive invariant: what an undisturbed
\* operation has established so far, what its messages carry, and that no
\* message of its run was executed twice.
THEOREM WalletInvariant == Spec => []Inv
BY InvInit, InvNext, PTL DEF Spec

\* An operation that waits for its effect (a change of the seed phrase, factors,
\* zkid or flags, a deployment, the miner's keys) and returned success has had
\* it, unless the wallet was changed from outside since it began or a factor was
\* added to a full list: the condition each poll_until waits for is the effect
\* of the message before it.
THEOREM OkMeansDoneAlways == Spec => []OkMeansDone
<1>1. Inv => OkMeansDone
  BY DEF Inv, Fine, OkMeansDone
<1> QED BY <1>1, WalletInvariant, PTL

\* A wait of poll_until gives up on messages that were all executed only if the
\* wallet was changed from outside.
THEOREM GivesUpOnlyIfLateAlways == Spec => []GivesUpOnlyIfLate
<1>1. Inv => GivesUpOnlyIfLate
  BY DEF Inv, Fine, Running, Ended, GivesUpOnlyIfLate
<1> QED BY <1>1, WalletInvariant, PTL

\* The contract refuses a message of an operation that could begin only if the
\* wallet was changed from outside: each step waits for what the next one needs.
THEOREM RefusedOnlyIfRacedAlways == Spec => []RefusedOnlyIfRaced
<1>1. Inv => RefusedOnlyIfRaced
  BY DEF Inv, Fine, Running, Ended, RefusedOnlyIfRaced
<1> QED BY <1>1, WalletInvariant, PTL

\* An operation that reports its progress ends it with exactly one terminal
\* milestone, the one that says what it returned (progress.rs, modules/zkp.rs).
THEOREM ProgressEndsOnceAlways == Spec => []ProgressEndsOnce
<1>1. Inv => ProgressEndsOnce
  BY DEF Inv, Fine, Running, Ended, Terminal, ProgressEndsOnce
<1> QED BY <1>1, WalletInvariant, PTL
=============================================================================
