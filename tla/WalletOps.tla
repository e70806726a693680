------------------------------ MODULE WalletOps ------------------------------
(***************************************************************************)
(* The on-chain operations of bee_wallet, run by several devices of one    *)
(* wallet at once: change of the seed phrase, ZKP factors, zkid, contract  *)
(* flags, miner, rewards, token transfers, deployment of the wallet and of *)
(* a multisig, and the prover round of a login.  Each is a sequence of     *)
(* steps "send a message, then poll the chain until a condition holds"     *)
(* with reads before and between.                                          *)
(*                                                                         *)
(* The contracts are outside the repository and are modelled from what     *)
(* this code sends, reads and waits for.  A message that was accepted is   *)
(* executed later, or is lost.  A device may fail at any step and repeat   *)
(* the operation from its start.                                           *)
(***************************************************************************)
EXTENDS Integers, FiniteSets, Sequences

CONSTANTS
  Devices,       \* devices of the wallet; each has one ephemeral key
  Jobs,          \* combinations of operations the devices perform
  InitFactors,   \* initial lists of factors
  InitWhitelist, \* initial whitelists
  MaxFactors,    \* MAX_NUM_OF_FACTORS
  WhitelistMax,  \* WHITELIST_MAX
  Life,          \* now + min_life + 1 of run_add_zkp_factor
  MaxTries,      \* bound: runs of the operation of a device that works alone
  MaxShared,     \* bound: runs of the operation of a device that does not
  MaxFaults      \* bound: failed reads and sends, lost and late messages

AllJobs ==
  {"none", "seed", "factor", "unfactor", "zkid", "flags", "deploy_miner",
   "set_key", "del_key", "del_key_nowait", "withdraw", "transfer", "submit",
   "direct", "redeem", "migrate", "deploy", "deploy_bare", "multisig", "prove",
   "await_key"}

\* deploy_multifactor with should_update_contract_flags, and without
DeployJobs == {"deploy", "deploy_bare"}

None == "none"

Elements(s) == {s[i] : i \in 1 .. Len(s)}

\* A list of factors: the keys on it are distinct
FactorList(s) ==
  /\ s \in Seq(Elements(s)) /\ Len(s) <= MaxFactors
  /\ \A i, j \in 1 .. Len(s) : s[i] = s[j] => i = j

ASSUME WalletAssumption ==
  /\ None \notin Devices /\ Jobs \subseteq [Devices -> AllJobs]
  /\ \A f \in InitFactors : FactorList(f)
  /\ \A w \in InitWhitelist : IsFiniteSet(w)
  /\ MaxFactors \in Nat \ {0} /\ WhitelistMax \in Nat \ {0} /\ Life \in Nat
  /\ MaxTries \in Nat /\ MaxShared \in [Devices -> Nat] /\ MaxFaults \in Nat

VARIABLES
  chain,   \* the contracts
  way,     \* messages accepted and not yet executed
  job,     \* what each device was asked to do
  dev,     \* the operation each device is performing
  tries,   \* how often it started it
  faults

vars == <<chain, way, job, dev, tries, faults>>

-----------------------------------------------------------------------------
(* The contracts (external). *)

Password(d) == IF job[d] = "zkid" THEN "new" ELSE "old"

\* Keys written to the contract are derived on the current path
BuildRecoveryKeys(password) == <<password, "current">>
BuildUpdateJwkKeys(password) == <<password, "current">>

\* Owner keys: the one change_seed_phrase of a device installs, and the one a
\* run of deploy_multifactor generates
SeedKey(d) == <<d, 0>>
DeployKey(d) == <<d, tries[d]>>
NoKey == <<None, 0>>
NoSigner == <<None, None>>

Target(kind) ==
  CASE kind = "deploy_miner" -> "mirror"
    [] kind \in {"set_owner_public", "remove_owner_public"} -> "miner"
    [] kind = "withdraw" -> "popitgame"

Submitted == {"deploy_miner", "set_owner_public", "remove_owner_public", "withdraw"}
EpkSigned ==
  Submitted \cup {"delete_candidate", "change_seed_phrase", "delete_zkp_factor",
                  "clean_whitelist", "update_whitelist", "deploy_transaction",
                  "submit_transaction", "send_transaction"}
OwnerSigned == {"set_force_remove_oldest", "set_wasm_hash", "update_zk_id",
                "update_recovery_phrase"}
NotOnWallet == {"deploy_multifactor", "create_multisig", "deploy_multisig", "top_up"}

\* A message is executed only if its signer and the state allow it
Accepts(m) ==
  /\ m.kind \notin NotOnWallet => chain.deployed
  /\ m.kind \in EpkSigned => m.d \in Elements(chain.factors)
  /\ m.kind \in OwnerSigned => m.key = chain.owner
  /\ m.kind \in Submitted => Target(m.kind) \in chain.whitelist
  /\ m.kind = "change_seed_phrase" => chain.candidate = None
  /\ m.kind = "delete_candidate" => chain.candidate # None
  /\ m.kind = "accept_candidate" =>
       chain.candidate = m.d /\ m.signer = chain.pub_recovery_key
  /\ m.kind = "add_jwk_modulus" => m.signer = chain.jwk_update_key
  /\ m.kind = "add_zkp_factor" =>
       /\ chain.zkid = Password(m.d) /\ chain.jwk > 0
       /\ m.d \notin Elements(chain.factors)
       /\ Len(chain.factors) < MaxFactors \/ chain.force_remove_oldest
  /\ m.kind \in {"set_owner_public", "remove_owner_public"} => chain.miner
  /\ m.kind = "submit_transaction" /\ job[m.d] \in {"transfer", "migrate"} =>
       m.d \in chain.txs
  /\ m.kind = "deploy_multifactor" => ~chain.deployed
  /\ m.kind = "deploy_multisig" => chain.multisig = "uninit"
  /\ m.kind = "top_up" => chain.multisig # "none"

\* The list without the factor at a place
RemovePlace(s, i) == SubSeq(s, 1, i - 1) \o SubSeq(s, i + 1, Len(s))

\* What it changes
Apply(m) ==
  CASE m.kind = "change_seed_phrase" -> [chain EXCEPT !.candidate = m.d]
    [] m.kind = "delete_candidate" -> [chain EXCEPT !.candidate = None]
    [] m.kind = "accept_candidate" ->
         [chain EXCEPT !.candidate = None, !.owner = SeedKey(m.d)]
    [] m.kind = "add_jwk_modulus" -> [chain EXCEPT !.jwk = m.expires]
    [] m.kind = "add_zkp_factor" ->
         [chain EXCEPT !.factors =
           Append(IF Len(@) < MaxFactors THEN @ ELSE Tail(@), m.d)]
    [] m.kind = "delete_zkp_factor" ->
         [chain EXCEPT !.factors = RemovePlace(@, CHOOSE i \in 1 .. Len(@) : @[i] = m.d)]
    [] m.kind = "update_zk_id" ->
         [chain EXCEPT !.zkid = Password(m.d),
                       !.jwk_update_key = BuildUpdateJwkKeys(Password(m.d))]
    [] m.kind = "update_recovery_phrase" ->
         [chain EXCEPT !.pub_recovery_key = BuildRecoveryKeys(Password(m.d))]
    [] m.kind = "set_force_remove_oldest" ->
         [chain EXCEPT !.force_remove_oldest = TRUE]
    [] m.kind = "set_wasm_hash" -> [chain EXCEPT !.wasm_hash = TRUE]
    [] m.kind = "clean_whitelist" -> [chain EXCEPT !.whitelist = {"root"}]
    [] m.kind = "update_whitelist" -> [chain EXCEPT !.whitelist = @ \cup {m.target}]
    [] m.kind = "deploy_miner" -> [chain EXCEPT !.miner = TRUE]
    [] m.kind = "set_owner_public" -> [chain EXCEPT !.owner_public = m.d]
    [] m.kind = "remove_owner_public" -> [chain EXCEPT !.owner_public = None]
    [] m.kind = "deploy_transaction" -> [chain EXCEPT !.txs = @ \cup {m.d}]
    [] m.kind = "submit_transaction" -> [chain EXCEPT !.txs = @ \ {m.d}]
    [] m.kind \in {"send_transaction", "top_up", "withdraw"} -> chain
    [] m.kind = "deploy_multifactor" ->
         [chain EXCEPT !.deployed = TRUE, !.owner = m.key]
    [] m.kind = "create_multisig" ->
         [chain EXCEPT !.multisig = IF @ = "none" THEN "uninit" ELSE @]
    [] m.kind = "deploy_multisig" -> [chain EXCEPT !.multisig = "active"]

Current(m) == m.try = tries[m.d]

\* A message is executed, or refused when its turn comes.  To every device but
\* the sender the change comes from outside; so does one from an earlier run.
Execute(m) ==
  /\ m \in way
  /\ way' = way \ {m}
  /\ IF Accepts(m)
     THEN /\ chain' = Apply(m)
          /\ dev' = [d \in Devices |->
               IF d = m.d /\ Current(m)
               THEN IF dev[d].at = "idle" THEN dev[d]
                    ELSE [dev[d] EXCEPT !.done = @ \cup {m.kind}]
               ELSE [dev[d] EXCEPT !.raced = tries[d] > 0]]
     ELSE UNCHANGED <<chain, dev>>
  /\ UNCHANGED <<job, tries, faults>>

Fault == faults < MaxFaults /\ faults' = faults + 1

\* A message expires before it is executed
Lose(m) ==
  /\ m \in way /\ Fault
  /\ way' = way \ {m}
  /\ UNCHANGED <<chain, job, dev, tries>>

-----------------------------------------------------------------------------
(* Running an operation. *)

Idle == [at |-> "idle", waits |-> FALSE, len |-> 0, need |-> {}, key |-> NoKey,
         signer |-> NoSigner, target |-> None, expires |-> 0, result |-> None,
         term |-> <<>>, able |-> FALSE, raced |-> FALSE, sent |-> {},
         done |-> {}, gave |-> None, refused |-> None]

Failed == [Idle EXCEPT !.result = "error"]

Reported == {"factor", "deploy_miner", "prove"} \cup DeployJobs

\* Mutated form: the timeout of the confirm phase is reported twice.
Suppressed_Never(j) == None

\* suppress_kind: the confirm phase has reported its own timeout
Suppressed(j) == IF j = "factor" THEN "timeout" ELSE None

\* report_failure
ReportFailure(j, r) ==
  IF r \in {"error", "timeout"} /\ r # Suppressed(j) THEN <<"failed">> ELSE <<>>

\* emit_deploy_outcome
EmitDeployOutcome(j, r) ==
  CASE j \in DeployJobs \cup {"deploy_miner"} /\ r = "ok" -> <<"confirmed">>
    [] j \in DeployJobs \cup {"deploy_miner"} /\ r = "pending" -> <<"pending">>
    [] OTHER -> <<>>

\* Terminal milestones of the confirm phase and of the prover round
EmitOwn(d, r) ==
  CASE job[d] = "factor" /\ r = "ok" -> <<"confirmed">>
    [] job[d] = "factor" /\ r = "timeout" -> <<"timed_out">>
    [] job[d] = "prove" /\ r = "ok" -> <<"finished">>
    [] OTHER -> <<>>

\* The operation of d returns r
End(d, r) ==
  [dev[d] EXCEPT !.at = "idle", !.waits = FALSE, !.result = r,
     !.term = IF job[d] \in Reported
              THEN EmitOwn(d, r) \o EmitDeployOutcome(job[d], r) \o ReportFailure(job[d], r)
              ELSE <<>>]

\* It goes on with the next message
Go(d, kind) == [dev[d] EXCEPT !.at = kind, !.waits = FALSE]

\* An attempt limit and a network timeout count as "not confirmed yet"
IsConfirmationPendingError(f) == f \in {"attempts", "timeout"}

\* What a failed wait for kind makes of the operation
WaitFailed(d, kind, f) ==
  CASE kind = "add_zkp_factor" /\ IsConfirmationPendingError(f) -> "timeout"
    [] kind = "deploy_miner" /\ IsConfirmationPendingError(f) -> "pending"
    [] job[d] \in DeployJobs /\ IsConfirmationPendingError(f) -> "pending"
    [] OTHER -> "error"

\* What any other error makes of it: deploy_multifactor counts a timeout while
\* it sets the flags as pending
OtherFailed(d, f) ==
  IF /\ job[d] = "deploy" /\ IsConfirmationPendingError(f)
     /\ dev[d].at \in {"set_force_remove_oldest", "set_wasm_hash"}
  THEN "pending" ELSE "error"

Alone(d) == \A e \in Devices \ {d} : job[e] = "none"

\* d starts (or repeats) its operation with the step kind, in the state f of dev
Begin(d, j, f) ==
  /\ job[d] = j /\ dev[d].at = "idle" /\ dev[d].result # "ok"
  /\ ~(j \in DeployJobs /\ dev[d].result = "pending")
  /\ tries[d] < IF Alone(d) THEN MaxTries ELSE MaxShared[d]
  /\ tries' = [tries EXCEPT ![d] = @ + 1]
  /\ dev' = [dev EXCEPT ![d] = f]
  /\ UNCHANGED <<chain, way, job, faults>>

Message(d) ==
  [kind |-> dev[d].at, d |-> d, try |-> tries[d], key |-> dev[d].key,
   signer |-> dev[d].signer, target |-> dev[d].target, expires |-> dev[d].expires]

\* ensure_tx_success: an answer without abort and exit code counts as success,
\* so a message the contract will refuse may pass
EnsureTxSuccess(m) == Accepts(m)

\* d sends the message of its step and goes to after; the transaction is
\* aborted; or the call fails, and the message is or is not on its way
Send(d, kind, after) ==
  /\ dev[d].at = kind /\ ~dev[d].waits
  /\ LET m == Message(d)
     IN  \/ /\ way' = way \cup {m} /\ UNCHANGED faults
            /\ dev' = [dev EXCEPT ![d] = [after EXCEPT !.sent = @ \cup {kind}]]
         \/ /\ ~EnsureTxSuccess(m)
            /\ dev' = [dev EXCEPT ![d] = [End(d, "error") EXCEPT !.refused = kind]]
            /\ UNCHANGED <<way, faults>>
         \/ /\ Fault /\ way' \in {way, way \cup {m}}
            /\ \E f \in {"network", "timeout"} :
                 dev' = [dev EXCEPT ![d] = End(d, OtherFailed(d, f))]
  /\ UNCHANGED <<chain, job, tries>>

Waiting(d) == [dev[d] EXCEPT !.waits = TRUE]

\* poll_until: the condition holds and d goes to after; the attempts run out,
\* early if the message is still on its way; or a read fails
PollUntil(d, kind, cond, after) ==
  /\ dev[d].at = kind /\ dev[d].waits
  /\ \/ cond /\ dev' = [dev EXCEPT ![d] = after] /\ UNCHANGED faults
     \/ /\ ~cond
        /\ IF \E m \in way : m.d = d /\ Current(m) THEN Fault ELSE UNCHANGED faults
        /\ dev' = [dev EXCEPT ![d] =
                    [End(d, WaitFailed(d, kind, "attempts")) EXCEPT !.gave = kind]]
     \/ /\ Fault
        /\ \E f \in {"network", "timeout"} :
             dev' = [dev EXCEPT ![d] = End(d, WaitFailed(d, kind, f))]
  /\ UNCHANGED <<chain, way, job, tries>>

SendAndWait(d, kind, cond, after) ==
  Send(d, kind, Waiting(d)) \/ PollUntil(d, kind, cond, after)

\* A read on the way to the next message fails
ReadFails(d) ==
  /\ dev[d].at # "idle" /\ ~dev[d].waits /\ Fault
  /\ \E f \in {"network", "timeout"} :
       dev' = [dev EXCEPT ![d] = End(d, OtherFailed(d, f))]
  /\ UNCHANGED <<chain, way, job, tries>>

\* The application is closed in the middle of an operation
Crash(d) ==
  /\ dev[d].at # "idle" /\ Fault
  /\ dev' = [dev EXCEPT ![d] = [Idle EXCEPT !.raced = dev[d].raced]]
  /\ UNCHANGED <<chain, way, job, tries>>

Signs(d) == chain.deployed /\ d \in Elements(chain.factors)

-----------------------------------------------------------------------------
(* services/multifactor: seed phrase, factors, zkid, flags. *)

HasCandidateSeedPhrase == chain.candidate # None

\* Mutated form: the path older wallets used is forgotten.
CandidatePaths_Current == {"current"}

CandidatePaths == {"current", "legacy"}

\* resolve_sign_keys: the keys of the password on the path the contract has
ResolveSignKeys(password, onChain) ==
  {k \in {<<password, p>> : p \in CandidatePaths} : k = onChain}

ResolveRecoverySigner(d, onChain) == ResolveSignKeys(Password(d), onChain)
ResolveJwkUpdateSigner(d) == ResolveSignKeys(Password(d), chain.jwk_update_key)

\* A candidate left by an earlier change is deleted first
FirstOfSeed == IF HasCandidateSeedPhrase THEN "delete_candidate" ELSE "change_seed_phrase"

ChangeSeedPhrase(d) ==
  LET f == [Idle EXCEPT !.at = FirstOfSeed, !.able = Signs(d),
              !.signer = chain.pub_recovery_key]
  IN  Begin(d, "seed", IF Signs(d) THEN f ELSE Failed)

DeleteCandidateAndWait(d) ==
  SendAndWait(d, "delete_candidate", ~HasCandidateSeedPhrase, Go(d, "change_seed_phrase"))

\* pub_recovery_key was read at the start; any candidate ends the wait
SubmitChangeSeedPhrase(d) ==
  SendAndWait(d, "change_seed_phrase", HasCandidateSeedPhrase,
    IF ResolveRecoverySigner(d, dev[d].signer) # {}
    THEN Go(d, "accept_candidate") ELSE End(d, "error"))

AcceptCandidateAndWait(d) ==
  SendAndWait(d, "accept_candidate", chain.owner = SeedKey(d), End(d, "ok"))

\* should_add_jwk_modulus: old is 0 if there is none
ShouldAddJwkModulus(old, new) ==
  new > Life /\ (old > 0 => old < Life /\ new > old)

\* Mutated form: the list is expected to grow even when it is full.
TargetFactorsLen_Grow(len) == len + 1

TargetFactorsLen(len) == IF len + 1 < MaxFactors THEN len + 1 ELSE MaxFactors

\* The zkid of the password must be the wallet's.  The modulus of the login may
\* expire soon; a repeated login brings a later one.
AddZkpFactor(d) ==
  /\ d \notin Elements(chain.factors)
  /\ \E new \in (IF tries[d] = 0 THEN {Life, Life + 1} ELSE {Life + 1}) :
       LET ok == chain.deployed /\ chain.zkid = Password(d)
           add == ShouldAddJwkModulus(chain.jwk, new)
           f == [Idle EXCEPT !.len = Len(chain.factors), !.expires = new,
                   !.signer = chain.jwk_update_key,
                   !.able = (chain.jwk > 0 \/ add)
                              /\ (Len(chain.factors) < MaxFactors \/ chain.force_remove_oldest),
                   !.at = IF add THEN "add_jwk_modulus" ELSE "add_zkp_factor"]
           signs == ResolveJwkUpdateSigner(d) # {}
       IN  Begin(d, "factor",
             IF ok /\ (add => signs) THEN f
             ELSE [Failed EXCEPT !.term = ReportFailure("factor", "error")])

\* An older modulus of the same kid ends the wait as well
AddJwkModulus(d) ==
  SendAndWait(d, "add_jwk_modulus", chain.jwk > 0, Go(d, "add_zkp_factor"))

ConfirmFactorIncrement(d) ==
  SendAndWait(d, "add_zkp_factor",
    Len(chain.factors) = TargetFactorsLen(dev[d].len), End(d, "ok"))

DeleteZkpFactorByItself(d) ==
  LET f == [Idle EXCEPT !.at = "delete_zkp_factor", !.len = Len(chain.factors),
              !.able = TRUE]
  IN  Begin(d, "unfactor", IF Signs(d) THEN f ELSE Failed)

DeleteZkpFactorAndWait(d) ==
  SendAndWait(d, "delete_zkp_factor", Len(chain.factors) = dev[d].len - 1, End(d, "ok"))

\* The caller signs with the owner's key
UpdateZkId(d) ==
  Begin(d, "zkid", [Idle EXCEPT !.at = "update_zk_id", !.key = chain.owner,
                                !.able = chain.deployed])

UpdateZkIdAndWait(d) ==
  SendAndWait(d, "update_zk_id", chain.zkid = Password(d), Go(d, "update_recovery_phrase"))

UpdateRecoveryPhraseAndWait(d) ==
  SendAndWait(d, "update_recovery_phrase",
    chain.pub_recovery_key = BuildRecoveryKeys(Password(d)), End(d, "ok"))

\* need_remove_oldest and need_wasm_hash
NeededFlags ==
  {k \in {"set_force_remove_oldest", "set_wasm_hash"} :
     ~(IF k = "set_wasm_hash" THEN chain.wasm_hash ELSE chain.force_remove_oldest)}

\* The first message that is needed, given the ones already sent
FlagStep(need) ==
  IF "set_force_remove_oldest" \in need THEN "set_force_remove_oldest" ELSE "set_wasm_hash"

UpdateContract(d) ==
  LET f == [Idle EXCEPT !.at = FlagStep(NeededFlags), !.need = NeededFlags,
              !.key = chain.owner, !.able = chain.deployed]
  IN  Begin(d, "flags", IF NeededFlags = {} THEN [Idle EXCEPT !.result = "ok"] ELSE f)

\* Mutated form: only the flag sent last is waited for.
FlagsSet_Last(need) == chain.wasm_hash

FlagsSet(need) ==
  /\ "set_force_remove_oldest" \in need => chain.force_remove_oldest
  /\ "set_wasm_hash" \in need => chain.wasm_hash

\* update_contract_flags: both messages, then one wait for both
SetForceRemoveOldest(d) ==
  Send(d, "set_force_remove_oldest",
    IF "set_wasm_hash" \in dev[d].need THEN Go(d, "set_wasm_hash") ELSE Waiting(d))

SetWasmHash(d) == Send(d, "set_wasm_hash", Waiting(d))

UpdateContractFlags(d) ==
  \E k \in {"set_force_remove_oldest", "set_wasm_hash"} :
    PollUntil(d, k, FlagsSet(dev[d].need), End(d, "ok"))

-----------------------------------------------------------------------------
(* Whitelist, miner, rewards. *)

\* Mutated form: the submit does not wait for the whitelist.
InWhitelist_Sent(t) == TRUE

InWhitelist(t) == t \in chain.whitelist

\* EXPECTED_AFTER_CLEAN
Cleaned == Cardinality(chain.whitelist) = 1

\* Where update_multifactor_whitelist_and_wait starts for a target
WhitelistStep(kind) ==
  CASE Target(kind) \in chain.whitelist -> kind
    [] Target(kind) \notin chain.whitelist /\ Cardinality(chain.whitelist) > WhitelistMax
         -> "clean_whitelist"
    [] OTHER -> "update_whitelist"

\* The message a job submits through the multifactor
SubmittedBy(j) ==
  CASE j = "deploy_miner" -> "deploy_miner" [] j = "set_key" -> "set_owner_public"
    [] j \in {"del_key", "del_key_nowait"} -> "remove_owner_public"
    [] j = "withdraw" -> "withdraw"

CleanWhitelist(d) == SendAndWait(d, "clean_whitelist", Cleaned, Go(d, "update_whitelist"))

UpdateWhitelistAndWait(d) ==
  SendAndWait(d, "update_whitelist", InWhitelist(dev[d].target), Go(d, SubmittedBy(job[d])))

\* The whitelist is read and the operation begins with what it lacks
WithWhitelist(d, j) ==
  LET kind == SubmittedBy(j)
  IN  [Idle EXCEPT !.at = WhitelistStep(kind), !.target = Target(kind), !.able = TRUE]

\* run_deploy_miner: nothing to do if it is there
DeployMiner(d) ==
  Begin(d, "deploy_miner",
    IF chain.miner
    THEN [Idle EXCEPT !.result = "ok", !.term = EmitDeployOutcome("deploy_miner", "ok")]
    ELSE IF Signs(d) THEN WithWhitelist(d, "deploy_miner")
    ELSE [Failed EXCEPT !.term = ReportFailure("deploy_miner", "error")])

DeployMinerAndWait(d) == SendAndWait(d, "deploy_miner", chain.miner, End(d, "ok"))

SetMiningKeys(d) ==
  Begin(d, "set_key",
    IF chain.miner /\ Signs(d) THEN WithWhitelist(d, "set_key") ELSE Failed)

SetMiningKeysAndWait(d) ==
  SendAndWait(d, "set_owner_public", chain.owner_public = d, End(d, "ok"))

\* bee_miner/src/core/keys.rs: an application generates a key, asks the wallet
\* to set it, finds the miner by the name of the wallet and waits for the key
GenMiningKeys == {e \in Devices : job[e] = "set_key"}

GetMinerAddressByWalletName(d) ==
  Begin(d, "await_key",
    IF chain.deployed
    THEN [Idle EXCEPT !.at = "await_key", !.waits = TRUE, !.sent = {"await_key"}]
    ELSE Failed)

EnsureMiningKeysPropagated(d) ==
  PollUntil(d, "await_key", chain.owner_public \in GenMiningKeys, End(d, "ok"))

\* wait is a parameter of the request
DelMiningKey(d) ==
  \E j \in {"del_key", "del_key_nowait"} :
    Begin(d, j, IF chain.miner /\ Signs(d) THEN WithWhitelist(d, j) ELSE Failed)

DelMiningKeySend(d) ==
  Send(d, "remove_owner_public", IF job[d] = "del_key" THEN Waiting(d) ELSE End(d, "ok"))

DelMiningKeyWait(d) ==
  PollUntil(d, "remove_owner_public", chain.owner_public = None, End(d, "ok"))

\* The balance is read before the whitelist; there is no wait for the payment
WithdrawPopitgameRewards(d) ==
  Begin(d, "withdraw", IF Signs(d) THEN WithWhitelist(d, "withdraw") ELSE Failed)

WithdrawSend(d) == Send(d, "withdraw", End(d, "ok"))

-----------------------------------------------------------------------------
(* Tokens: a TIP-3 transfer deploys a transaction contract, whose address    *)
(* depends on amount and destination only, and submits to it; the others     *)
(* only submit.                                                              *)

BeginTransfer(d, j, kind) ==
  Begin(d, j, IF Signs(d) THEN [Idle EXCEPT !.at = kind, !.able = TRUE] ELSE Failed)

SendTokens(d) ==
  \/ BeginTransfer(d, "transfer", "deploy_transaction")
  \/ BeginTransfer(d, "submit", "submit_transaction")

SendTokensDirect(d) == BeginTransfer(d, "direct", "send_transaction")

RedeemNackl(d) == BeginTransfer(d, "redeem", "submit_transaction")

MigrateTip3Usdc(d) == BeginTransfer(d, "migrate", "deploy_transaction")

DeployTransactionAndWait(d) ==
  SendAndWait(d, "deploy_transaction", d \in chain.txs, Go(d, "submit_transaction"))

SubmitTransaction(d) == Send(d, "submit_transaction", End(d, "ok"))

SendNativeTokensDirect(d) == Send(d, "send_transaction", End(d, "ok"))

-----------------------------------------------------------------------------
(* Deployment of the wallet and of a multisig, and the prover round. *)

\* Every run generates a seed phrase, and so an address, of its own
DeployMultifactor(d) ==
  \E j \in DeployJobs :
    Begin(d, j, [Idle EXCEPT !.at = "deploy_multifactor", !.key = <<d, tries[d] + 1>>,
                             !.able = ~chain.deployed])

MultifactorActive(d) == chain.deployed /\ chain.owner = DeployKey(d)

\* If they are to be set, the flags are read once the contract is active
DeployMultifactorAndWait(d) ==
  SendAndWait(d, "deploy_multifactor", MultifactorActive(d),
    IF job[d] = "deploy_bare" \/ NeededFlags = {} THEN End(d, "ok")
    ELSE [Go(d, FlagStep(NeededFlags)) EXCEPT !.need = NeededFlags])

\* What the caller asks for: a balance_config that does not parse or is not
\* ordered, no giver_ecc, one that does not parse, or one that does.  A caller
\* who was refused asks for something better.
MultisigDeploySpec(d) ==
  IF tries[d] = 0 THEN {"invalid", "plain", "bad_ecc", "ecc"} ELSE {"plain", "ecc"}

\* An active address is neither funded nor deployed again
DeployMultisigViaGiver(d) ==
  \E spec \in MultisigDeploySpec(d) :
    Begin(d, "multisig",
      CASE spec = "invalid" -> Failed
        [] spec # "invalid" /\ chain.multisig = "active" -> [Idle EXCEPT !.result = "ok"]
        [] OTHER -> [Idle EXCEPT !.at = "create_multisig", !.able = TRUE, !.need = {spec}])

CreateMultisigAndWait(d) ==
  SendAndWait(d, "create_multisig", chain.multisig = "uninit",
    Go(d, "deploy_multisig"))

\* The account is read again first
DeployMultisig(d) ==
  \/ /\ dev[d].waits \/ chain.multisig # "active"
     /\ SendAndWait(d, "deploy_multisig", chain.multisig = "active", Go(d, "top_up"))
  \/ /\ dev[d].at = "deploy_multisig" /\ ~dev[d].waits /\ chain.multisig = "active"
     /\ dev' = [dev EXCEPT ![d] = Go(d, "top_up")]
     /\ UNCHANGED <<chain, way, job, tries, faults>>

\* giver_ecc is parsed only now
TopUp(d) ==
  \/ "ecc" \in dev[d].need /\ Send(d, "top_up", End(d, "ok"))
  \/ /\ dev[d].at = "top_up" /\ "ecc" \notin dev[d].need
     /\ dev' = [dev EXCEPT ![d] = End(d, IF "plain" \in dev[d].need THEN "ok" ELSE "error")]
     /\ UNCHANGED <<chain, way, job, tries, faults>>

\* complete_with_prover_steps: prepare, one request to the prover, finalize
CompleteZkLogin(d) == Begin(d, "prove", [Idle EXCEPT !.at = "prove", !.able = TRUE])

FetchZkProofs(d) ==
  /\ dev[d].at = "prove"
  /\ dev' = [dev EXCEPT ![d] = End(d, "ok")]
  /\ UNCHANGED <<chain, way, job, tries, faults>>

-----------------------------------------------------------------------------
Asked(js) == \E d \in Devices : job[d] \in js
WhitelistJobs == {"deploy_miner", "set_key", "del_key", "del_key_nowait", "withdraw"}

\* State that no operation in progress looks at has one value
Init ==
  /\ job \in Jobs
  /\ \E path \in {"current", "legacy"}, f \in InitFactors, w \in InitWhitelist,
        miner \in BOOLEAN, flags \in BOOLEAN, jwk \in {0, Life - 1} :
       /\ (Asked({"seed", "factor"}) /\ \E d \in Devices : Alone(d)) \/ path = "current"
       /\ Asked({"factor"}) \/ jwk = 0
       /\ Asked({"factor", "flags", "deploy"}) \/ flags
       /\ Asked({"deploy_miner", "set_key"}) \/ miner
       /\ Asked(WhitelistJobs) \/ w = {"root"}
       /\ \A d \in Devices : job[d] \notin {"none", "factor"} \cup DeployJobs => d \in Elements(f)
       /\ chain = [deployed |-> \A d \in Devices : job[d] \notin DeployJobs,
                   owner |-> <<"first", 0>>, candidate |-> None, factors |-> f,
                   zkid |-> "old", pub_recovery_key |-> <<"old", path>>,
                   jwk_update_key |-> <<"old", path>>, jwk |-> jwk,
                   force_remove_oldest |-> flags, wasm_hash |-> flags,
                   whitelist |-> w, miner |-> miner, owner_public |-> None,
                   txs |-> {}, multisig |-> "none"]
  /\ way = {} /\ dev = [d \in Devices |-> Idle] /\ tries = [d \in Devices |-> 0]
  /\ faults = 0

Start(d) ==
  \/ ChangeSeedPhrase(d) \/ AddZkpFactor(d) \/ DeleteZkpFactorByItself(d)
  \/ UpdateZkId(d) \/ UpdateContract(d) \/ DeployMiner(d) \/ SetMiningKeys(d)
  \/ GetMinerAddressByWalletName(d) \/ DelMiningKey(d) \/ WithdrawPopitgameRewards(d) \/ SendTokens(d)
  \/ SendTokensDirect(d) \/ RedeemNackl(d) \/ MigrateTip3Usdc(d)
  \/ DeployMultifactor(d) \/ DeployMultisigViaGiver(d) \/ CompleteZkLogin(d)

Step(d) ==
  \/ DeleteCandidateAndWait(d) \/ SubmitChangeSeedPhrase(d)
  \/ AcceptCandidateAndWait(d) \/ AddJwkModulus(d) \/ ConfirmFactorIncrement(d)
  \/ DeleteZkpFactorAndWait(d) \/ UpdateZkIdAndWait(d)
  \/ UpdateRecoveryPhraseAndWait(d) \/ SetForceRemoveOldest(d) \/ SetWasmHash(d)
  \/ UpdateContractFlags(d) \/ CleanWhitelist(d) \/ UpdateWhitelistAndWait(d)
  \/ DeployMinerAndWait(d) \/ SetMiningKeysAndWait(d)
  \/ EnsureMiningKeysPropagated(d) \/ DelMiningKeySend(d)
  \/ DelMiningKeyWait(d) \/ WithdrawSend(d) \/ DeployTransactionAndWait(d)
  \/ SubmitTransaction(d) \/ SendNativeTokensDirect(d)
  \/ DeployMultifactorAndWait(d) \/ CreateMultisigAndWait(d)
  \/ DeployMultisig(d) \/ TopUp(d) \/ FetchZkProofs(d)

Next ==
  \/ \E d \in Devices : Start(d) \/ Step(d) \/ ReadFails(d) \/ Crash(d)
  \/ \E m \in way : Execute(m) \/ Lose(m)

Spec == Init /\ [][Next]_vars

\* Users repeat an operation that failed, a started one goes on, and accepted
\* messages are executed
FairSpec ==
  /\ Spec
  /\ \A d \in Devices : WF_vars(Start(d)) /\ WF_vars(Step(d))
  /\ WF_vars(\E m \in way : Execute(m))

-----------------------------------------------------------------------------
(* Properties. *)

\* The operations that return once their last message is sent, and the prover
\* round: they promise nothing about the contracts
Unconfirmed == {"del_key_nowait", "withdraw", "transfer", "submit", "direct", "redeem",
                "migrate", "prove"}

\* What an operation that waits for its last message is for
Effect(d) ==
  CASE job[d] = "seed" -> chain.owner = SeedKey(d)
    [] job[d] = "factor" -> d \in Elements(chain.factors)
    [] job[d] = "unfactor" -> d \notin Elements(chain.factors)
    [] job[d] = "zkid" -> /\ chain.zkid = "new"
                          /\ chain.pub_recovery_key = <<"new", "current">>
    [] job[d] = "flags" -> chain.force_remove_oldest /\ chain.wasm_hash
    [] job[d] = "deploy" -> /\ MultifactorActive(d)
                            /\ chain.force_remove_oldest /\ chain.wasm_hash
    [] job[d] = "deploy_bare" -> MultifactorActive(d)
    [] job[d] = "deploy_miner" -> chain.miner
    [] job[d] = "set_key" -> chain.owner_public = d
    [] job[d] = "await_key" -> chain.owner_public \in GenMiningKeys
    [] job[d] = "del_key" -> chain.owner_public = None
    [] job[d] = "multisig" -> chain.multisig = "active"
    [] OTHER -> TRUE

\* An operation that waits for its effect and reported success has had it,
\* unless a message of another device or of an earlier run was executed since it
\* began.  The one exception is a factor added to a full list, which
\* confirm_factor_increment reports before the message is executed (cmd.rs,
\* multifactor.rs, miner/cmd.rs).
OkMeansDone ==
  \A d \in Devices :
    dev[d].result = "ok" /\ ~dev[d].raced =>
      Effect(d) \/ (job[d] = "factor" /\ dev[d].len = MaxFactors)

\* A wait gives up on messages that were all executed only if another device,
\* or an earlier run, changed the wallet meanwhile: the conditions polled for
\* are the ones the messages establish (poll_until and its callers).
GivesUpOnlyIfLate ==
  \A d \in Devices :
    dev[d].gave # None /\ dev[d].sent \subseteq dev[d].done => dev[d].raced

\* The contract refuses a message of an operation that could begin only if the
\* wallet was changed meanwhile: every step waits for what the next one needs
\* (whitelist entry, candidate, modulus, transaction contract, active account).
RefusedOnlyIfRaced ==
  \A d \in Devices : dev[d].refused # None /\ dev[d].able => dev[d].raced

\* The stream of milestones of an operation ends with exactly one terminal
\* milestone, and it says what the operation returned (progress.rs, and the
\* suppression of `failed` after `timed_out` in modules/zkp.rs).
ProgressEndsOnce ==
  \A d \in Devices :
    job[d] \in Reported /\ dev[d].result # None =>
      dev[d].term = <<CASE dev[d].result = "timeout" -> "timed_out"
                        [] dev[d].result = "error" -> "failed"
                        [] dev[d].result = "pending" -> "pending"
                        [] OTHER -> IF job[d] = "prove" THEN "finished" ELSE "confirmed">>

\* Nothing the operation cannot provide itself is missing
Possible(d) ==
  /\ job[d] \notin {"none", "await_key"}
  /\ job[d] \in {"factor"} \cup DeployJobs \/ Signs(d)
  /\ job[d] \in {"set_key", "del_key", "del_key_nowait"} => chain.miner

\* A device that works alone, can sign, and repeats an operation that failed
\* gets its effect in the end or, if the operation has none to wait for, its
\* success, whatever was left behind by a crash, a lost message or a late one.
\* The exceptions are a deployment whose answer was lost, since its repetition
\* has another address (run_deploy_multifactor), and a factor added to a full
\* list, since it is confirmed unseen (add_zkp_factor).
AloneCompletes ==
  \A d \in Devices :
    Alone(d) /\ Possible(d) ~>
      (Effect(d) /\ (job[d] \in Unconfirmed => dev[d].result = "ok"))
        \/ (job[d] \in DeployJobs /\ (faults > 0 \/ dev[d].result = "pending"))
        \/ (job[d] = "factor" /\ dev[d].len = MaxFactors)
=============================================================================
