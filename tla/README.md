# bee-engine in TLA+

This directory is a verification development for bee-engine: TLA+ modules
translated from the Rust sources, TLC configurations that model-check them on
small instances, and TLAPS proofs of the results that hold for every instance.
Paths below are relative to the repository root; `PROJECT.json` maps every
definition to the lines it models.

## 1. The system

bee-engine is a set of Rust crates (native and wasm) around contracts of a
blockchain. None of the contracts is in the repository: the crates build
messages, read contract state and poll contract events.

| Part | State it keeps | Operations | Who it talks to |
|---|---|---|---|
| dApp side of connect (`bee_connect/src/client.rs`) | none of its own: the caller holds a `ConnectSessionState` and passes it in and out | `create_shared_key_session`, `wait_wallet_hello`, `request_set_mining_keys`, `request_sign_challenge`, `wait_challenge_response`, `wait_set_mining_keys_request`, `disconnect_session`, `query_active_sessions_by_multifactor` | AuthProfile contract, auth service root |
| Key schedule (`bee_connect/src/dh.rs`) | root key, own key pair, peer's public key, last seen and last sent seq, expiry | `create_initial_state`, `rekey_outbound`, `rekey_inbound` | called by both sides |
| Wallet side of connect (`bee_wallet/src/modules/connect.rs`, `services/connect.rs`) | as above, held by the caller | `accept_shared_key_connect`, `query_session_messages`, `encode_challenge_response_message`, `destroy_connect_profile` | AuthProfile contract |
| Browser miner (`bee_miner/src/wasm`) | queue of seeds, list of workers with their status, `after_dt` of the event thread | `new`, `start`, `stop`, `add_tap`, `remove_seed`, `drop`; the worker future; the event thread | miner contract, game root |
| Mining core (`bee_miner/src/core`) and verifier (`bee_verifier`, `bee_shared`) | leaves and merkle trees of a session | `compute`, `commit`, window proofs; `verify` | worker; the contract runs the verifier |
| Infrastructure (`bee_infra`) | next free slot of the rate limiter, attempts of a retry | `poll_until`, retry policies, exact-message resend | every other crate |
| Wallet operations (`bee_wallet/src/modules`, `services`) | none: each call is a flow of messages and waits | seed phrase, factors, zkid, whitelist, flags, deploy, miner keys, withdraw, transfer, multisig, ZKP login | multifactor, mirror, miner, game, multisig contracts |
| Shell market (`services/tokens`, `bin/wallet_info.rs`) | none; cursors are the caller's | `sell_shells`, `claim_usdc`, `get_my_sell_orders`, `audit-sell` | accumulator, lots, two GraphQL endpoints |
| Transaction history (`services/transaction/history.rs`) | none; cursors are the caller's | `get_history` | two GraphQL endpoints |
| Crypto, errors, adapters, bindings | none | pure functions | |

### What is hard about it

*Connect.* Two devices share nothing but an append-only log of encrypted
messages. Every message advances a Diffie-Hellman ratchet, so the two sides must
agree on exactly which messages were accepted, although each can die between
writing a message and saving the state that belongs to it, each re-reads pages of
old messages on every poll, a wait can time out while its answer is on the way,
and the library leaves it to the caller which of several session states to keep.
Correct means: no key is used twice, messages are accepted in order, once and
without gaps, an answer belongs to the challenge that was asked, the two chains
do not fork in ordinary use, a reported desync is a real one, a pending
challenge is answered, and a listing of active sessions is complete.

*Miner.* One browser thread interleaves the application's calls, one future per
worker and an event thread, between any two awaits. What guards `start` and
`submit_session` is a list of statuses that those futures update later. Events
are fetched by second, the newest 100 of them. Correct means: the contract never
sees two sessions of one Miner, no seed is mined twice or lost, events reach
their worker, a worker that submits also ends, a session is computed with
the complexity it will be verified with, and what it proves is what the verifier
asks for, at every edge of the tree and the clock.

*Infrastructure.* Tasks share one rate limiter and sleep with a slot in hand
while others come, fail and retry. A resend follows an answer about a request
that may or may not have arrived. Correct means: the rate holds however callers
interleave, nobody waits without bound, a retry stays within its time budget, a
message is not queued twice and not sent after it expired, and every send
returns.

*Wallet operations.* Each is "send, then poll until the chain shows it", several
times over, with reads in between that are stale when they are used. Messages
execute late or never, a device can die between any two steps, and another
device of the same wallet does the same at the same time. Correct means: success
means the effect, a wait gives up or a message is refused only because somebody
interfered, the milestones agree with the result, and repeating leads to the goal.

*Paging.* History and orders are read from a hot endpoint that forgets and an
archive that lags, with cursors that live in the caller, while records are
added, moved and removed. Correct means: nothing that was there is skipped,
nothing is repeated without a cause, and paging ends.

`PROJECT.json` lists the hazards, each at its line.

## 2. Modules

| Module | Content | Scenarios |
|---|---|---|
| `ConnectSession` | both sides of the connect protocol, the key schedule and the AuthProfile log | `MCConnect`, `MCConnect*.cfg` |
| `SessionTree` | the abstract specification `ConnectSession` implements | (through `ConnectSession`) |
| `ActiveSessions` | the listing of active sessions | `MCActive` |
| `MinerWorkers` | the Miner object, its workers, the event thread and the miner contract | `MCMiner`, `MCMiner*.cfg` |
| `MinedSession` | a session's leaves, trees, proofs and verdict | `MCMined` |
| `RatedCalls` | the rate limiter, shared by callers that run the retry loop | `MCRated` |
| `MessageDelivery` | resending of a message on queue overflow | `MCDelivery` |
| `WalletOps` | the wallet's on-chain operations by several devices | `MCWallet` |
| `ShellMarket` | sale, listing and audit of orders | `MCMarket` |
| `HistoryPaging` | paging through the transaction history | `MCHistory` |
| `ConnectSessionProofs`, `ActiveSessionsProofs`, `MinerWorkersProofs`, `RatedCallsProofs`, `MessageDeliveryProofs`, `ShellMarketProofs`, `HistoryPagingProofs`, `WalletOpsProofs` | theorems | |

A definition whose name has a suffix (`Opens_AnyEnvelope`) is a mutated form of
the definition that follows it, used to see that a property notices.

### ConnectSession

One dApp, one wallet, one deep link; any number of accepts of that link, any
number of messages up to `MaxLog`.

- `stored` is the `ConnectSessionState` the dApp has persisted, `working` the
  `updated_session_state` it holds while `wait_challenge_response` runs;
  `wstate` is the wallet's. A state has the fields of `ConnectSessionState`:
  `root`, `my`, `peer`, `expires`, `seen` (last_seen_seq), `sent`
  (last_sent_seq).
- A root key is the *sequence of shared secrets* it was derived from and a
  shared secret the *set of the two key pairs*: HKDF and X25519 are taken to be
  injective and Diffie-Hellman to commute. AEAD decryption succeeds exactly under the
  sender's root. This is the only cryptographic assumption.
- `log` is the profile's list of `ContextAdded` events. A query returns the
  newest `PageLimit` of a time window (`Window`). `owner` is the key the profile
  was deployed with; the contract accepts text signed with that key only.
- `query_session_messages` is three actions, `QueryBegin`, `QueryRecord`,
  `QueryEnd`: the page is fetched once and the loop then works on that copy
  while the dApp writes on. `page.st` is the loop's `current_state`, `inbox` the
  returned messages with their `session_state_after`.
- `accept_shared_key_connect` is `AcceptBegin`, `AcceptDeploy`, `AcceptHello`,
  one per await that others can overtake.
- A dApp request writes in one action: what it reads of the chain (the owner) does
  not change between the read and the write except by the wallet's destroy, which
  makes the write fail. `request_sign_challenge` has a second one: the write lands
  (`RequestSignChallenge`), and later `add_context_text` returns and `sent_at` is
  taken (`SignChallengeSent`). `pollFrom` is that time, at which the dApp's window
  begins; the wallet may read and answer in between.
- One attempt of a dApp wait is one action (`WaitFinds`, `WaitDesync`,
  `WaitAborts`); the log only grows, so an attempt that finds nothing is a
  stutter.
- What callers do with the states is not the library's decision and is the
  parameter `Policy`; the example application and the integration tests give
  the base behaviour (the pre-challenge state is kept until the response
  arrives). `Faults` chooses what may fail. Both are explained where they are
  declared.

Left out: envelopes that are not JSON or lack fields (they are skipped, or
counted as parse failures, by every reader), clock skew between the devices, the
legacy accept without a shared key, several sessions at once (sessions share no
state).

### SessionTree, and how ConnectSession implements it

`SessionTree` says what the protocol promises, with no key, root or sequence
number: the messages form a tree, each side stands at some of its nodes, moves
only along edges (by writing a child of a node it stands at, or by reading a
child the other side wrote), and may forget where it stood. Nothing is read that
was not written, nothing is skipped, a fork is not mended.

The refinement mapping is at the end of `ConnectSession`. A message's parent is
the message written under its root less the last secret (`At`, `Messages`); a
side stands where its states' roots were written (`Places`) — all the states it
has: `stored`, `working`, and for the wallet `wstate`, the loop's state and the
states that come with the inbox. `ImplementsSessionTree` is checked with every
fault in `connect_faults` and proved in `ConnectSessionProofs`.

### ActiveSessions

One caller follows `next_before` of `query_active_sessions_by_multifactor` until
`exhausted_active`, or until there is no cursor. `call` holds the locals of the
call under way: the page, the records left of it, the sessions found, and the
cache of answers (`yes`, `no`). Wallets deploy and destroy profiles between any
two queries, and a query may fail, after which the caller repeats the call.
Whether a query before a cursor includes the record at the cursor is decided by the library that
is not in the repository, so both are checked; the code's test of a stalled
cursor is for the first case. `is_deployed` is assumed to answer truthfully.

### MinerWorkers

- `wk[w].pc` says between which two awaits of `worker::run` the future of
  worker `w` stands; the `MinerStatus` of its entry follows from it. `listed` is
  whether the entry is in `Miner.workers`: `stop()` removes `Queued` entries
  whose futures run on.
- `job[w]` is the worker's seed and complexity, `queue[w]` its command channel.
- `Poll` is one round of the event thread. Query and processing are one step:
  what happens in between can only add events, which the round would not see
  either way, or end workers, which ignore their channel from then on.
- `NewDetails`, `NewReady`, `NewCancelled` are `Miner::new` between its awaits.
  `cancel` is the message of `cancel_session`: `ContractCancel` applies or refuses it,
  and the call may return before or after that.
  `Drop` is `free()` or a reload of the page; `lingering` holds event threads of
  freed Miners that still make their last round (`LastPoll`).
- `seed`, `commit`, `comp`, `compOld`, `events`, `tx` are the contract, modelled
  from the way the sources use it: one submitted session at a time; accepted
  sessions and cancelled ones rotate the seed; a session is verified with
  ComplexityOld, which takes the current complexity when a session is accepted.
  Whether a rejection drops the submitted data is not said anywhere, so both
  happen.
- Trees are reduced to "has a leaf" (`MinedSession` has them). Complexities
  `(easy, hard)` are one number.
- `Env` chooses the environment: several calls in one turn of the event loop,
  reloads, `free()`, failing calls, complexity changes during a session.

### MinedSession

One session from its first hash to the verdict. `core["time"]` and
`core["tap"]` are the two mining cores with their leaves; `calc_hash_blake`
takes the first nonce below the threshold of the complexity. A hash is the value
that was hashed, only the number read from it (`HashNum`) has a width
(`HashBits`), as have timestamps (`TimeBits`). The tree carries an unpaired last
node up; a window proof is the sequence of helper nodes in the order the prover
collects them, and `ValidateProof` consumes them as the verifier does. The
contract picks any window of each tree, also one that reaches beyond the leaves.
`seed` is the one the worker mined with and `current` the contract's; the verifier
checks every leaf against the latter. An interval event names its worker by a random
id (`miner.rs:212`), so the windows are those of this session. The clock may be set back.

Only the answers of the honest core are put to the verifier. That nothing else is
valid is not claimed: `validate` checks `leaves_tree` and `leaves_data` one
by one (`bee_verifier/src/lib.rs:108-121`), and what ties them together is the sender.

### RatedCalls

- `next` is `TokenBucket.next_allowed_ms`, `task[c]` what caller `c` does inside
  `with_retry_policy`: it sleeps for its slot (`reserved`), runs the operation, or
  sleeps between two attempts (`backoff`). `Acquire` is the locked part of
  `acquire`, and the start of the operation when there is nothing to wait for.
- An operation takes any time and may fail retryably, fail otherwise or succeed.
  The jitter of a delay is any value it can have.
- `slots` and `calls` are histories: slots in the order of reservation, and
  the times at which operations started.
- `Late` says whether timers may fire late. If not, the clock stands still while
  a sleep is over and its task has not run. The two cases are different
  guarantees: slots are always apart (`SlotsSpaced`, proved), calls only with
  punctual timers.

### MessageDelivery

- `snd[m]` is the loop of `with_queue_overflow_retry` for message `m`. `expires`
  is in seconds and `Deadline` multiplies, so that rounding is in the model; 0 is
  a message without expiry, which is sent once.
- `net` holds the messages of which a request is under way, `queue` is the block
  manager's, `taken` counts how often a message got in. A request that was given
  up (`Disconnect`) may still arrive. That a set suffices for `net` is part of the
  proof: a message is resent only when its last request is gone.
- The block manager may refuse for other reasons, and the answer to a queued
  request may be lost; both are "another error" to the sender.

### WalletOps

Devices of one wallet, each asked to do one of twenty operations (`job`);
`deploy` and `deploy_bare` are `deploy_multifactor` with and without
`should_update_contract_flags`.
`dev[d].at` is the message the device is about to send or waits for, `waits`
whether it polls, `len`, `need` and the like what it read before and uses after.
`Start` is the beginning of an operation with its reads and checks, `Step` one
send, one look of a poll that succeeds, one that times out, one that fails.
`way` holds accepted messages; `Execute` applies one to `chain` if the contract
takes it, and a fault loses or delays one. An operation that failed, or whose
device died, is started again from its beginning with what it left behind.
`raced` records that somebody else's message was executed meanwhile, `refused`
and `gave` what went wrong first; `term` is the list of terminal milestones.
The `Unconfirmed` operations return once their last message is sent and promise
nothing about the contracts; `Effect` says what the others are for.
Key derivation is symbolic: a key is the password or device and the derivation path it comes from.

### ShellMarket

`next`, `sold` and `lot` are the accumulator's queues and lots, `sell[s]` the
call of `sell_shells` of seller `s`, `list` the call of `get_my_sell_orders`
under way and the caller's cursor, `audit` the run of `audit-sell`. An event of a
lot (`created`, `claimed`) is `"hot"`; `"old"` when only the archive has it; and
`"buried"` when more newer events than a query reads lie before it on every endpoint:
50 pages of 100 of one address for the listing (`sell_orders.rs:48-50`), one page of
500 of the account for the audit (`wallet_info.rs:701`). `RedeemNackl` makes the
seller's `NacklRedeemed` events, which the audit counts as his activity. Lots are
bought, claimed and destroyed between any two queries. Both events' addresses, the
own and the legacy one, are asked as the code asks them. `missing` are the orders whose
event an accepted answer was without, of each kind; it excuses these and no other.

### HistoryPaging

A record is its place in its stream. The hot endpoint holds a suffix
(`hotFrom`), the archive a prefix (`archTo`); adding, archiving and dropping
records are actions. One call of `get_history` reads the multifactor's messages
and, for NACKL, the game's events: `open`, `hot`, `archive`, `probe`, `reply` are
the places between two queries. `shown` is what each endpoint has shown of each
stream, `ended` the streams whose last page has been returned. `missed` records what
went wrong in a call that nevertheless succeeded.

## 3. Runs

| Run | Checks | Shows |
|---|---|---|
| `connect_faults` | `TypeOK`, `RootsNeverReused`, `EqualRootsInterlock`, `AcceptedInOrder`, `AcceptedWithoutGaps`, `ResponseAnswersChallenge`, `ImplementsSessionTree` | these hold with careless callers, every fault, and links and sessions that expire |
| `connect_sync` | `InSyncUnlessGivenUp`, `DesyncIsReal`, `ChallengeAnswered` | for the documented caller with timeouts, the chains fork only after a wait was given up, `session_desync` is no false alarm, and each challenge is answered unless the answer came in a second before its send returned |
| `connect_retry` | `RetryStaysInSync` (violated) | the finding below |
| `active_sessions` | `ListedUnlessCutOff`, `ListingEnds` | a listing shows every session that stays active, but for those on a page left at a full chunk, and ends |
| `miner_rough` | `OneSubmission`, `SeedsHeldOnce`, `MissedEventsShareASecond` | these hold with reloads, freed Miners, failing calls, cancels that land late and calls in one turn; a seed is held twice only if `get_details` had reported it |
| `miner_calm` | `NoSessionRejected`, `SubmissionEnds` | a calm application in a calm game never has a session rejected; a submitting worker ends, or one of its events was missed |
| `mined_session` | `HonestSessionVerifies`, `BlocksWithinDuration` | the verifier accepts the honest answer for every tree and window but the whole tree, the block count neither wraps nor exceeds the session |
| `rated_calls` | `CallsSpaced`, `WaitBounded`, `RetriesInBudget` | with punctual timers and a rate that does not divide the second, three retrying callers start the rounded interval apart, wait at most a round and stay in budget |
| `delivery` | `QueuedAtMostOnce`, `OverflowIsFinal`, `ResentInTime`, `SendEnds` | with lost answers and delayed requests no message is queued twice, and none whose send ended with an overflow; none is resent after expiry; every send returns |
| `wallet` | `OkMeansDone`, `GivesUpOnlyIfLate`, `RefusedOnlyIfRaced`, `ProgressEndsOnce`, `AloneCompletes` | twenty operations alone and eleven pairs, with faults and repetitions |
| `market` | `SellReturnsOwnOrder`, `OpenOrdersListed`, `CleanUnlessHotHidesArchive`, `ListingEnds` | racing sellers, a listing and an audit while lots change and events expire or are buried |
| `history` | `NothingSkipped`, `OncePerEndpoint`, `PagingEnds` | every kind of token, while records are added, archived and dropped and queries fail |

### Finding

`bee_connect/PROTOCOL.md:245` says that a dApp which keeps the pre-challenge
state after a timeout "can re-establish the session cleanly". The wallet may
have read the first challenge by then. Its state is one re-key ahead, the
retried challenge continues the older root, and the wallet cannot open it
(run `connect_retry`).

### Observations

Behaviours the models have, each named as an exception of a property or easily
reproduced with other constants, that a maintainer should know of.

- *A second wait.* `wait_challenge_response` is documented to poll "until a
  `challenge_response` message appears" (`client.rs:1011`). When the window
  given by `created_at_from` still holds a response that was consumed before, and
  the new one is not there yet, the first attempt counts a re-key failure and the
  wait ends with an error (`WaitAborts`). `test_connect_double_verify` uses such a window.
- *Sequence numbers.* `bee_connect/README.md:150` calls `seq` a "monotonic
  sequence number". Along one conversation it is. A wallet that answers from an
  older message's `session_state_after` goes back to a lower `last_seen_seq`; if the
  dApp has meanwhile sent overlapping requests, the wallet can then accept a message
  of another branch with a lower `seq` than one it has accepted before. `AcceptedInOrder` therefore speaks of branches: no message
  twice, none after one that continues it.
- *Answering without the state.* A wallet that also answers a challenge which is
  delivered without a `session_state_after`, from its present state, can answer a
  stale challenge, and the dApp takes it; hence `"redelivered"` in
  `ResponseAnswersChallenge`.
- *Lagging.* A side that falls more than one page (50 events) behind in connect
  never sees the message its chain needs next and stays behind.
- *Active sessions.* A call that has found ten sessions leaves its page in the
  middle but returns the cursor of the page's oldest record (`client.rs:1163-1171`);
  the sessions between are in no later call. They are `cut` in
  `ListedUnlessCutOff`.
- *Late start of the window.* `sent_at` is taken when the send of a challenge
  returns (`client.rs:1005`). An answer the wallet wrote in an earlier second lies
  before the window that begins there, and the wait times out (`Overlooked` in
  `ChallengeAnswered`).
- *Two starts.* `Miner::start` refuses with "There is already running worker"
  (`miner.rs:201`) only when an entry has status `Computing`, which an entry
  gets when its future first runs. Two calls in one turn of the event loop both
  succeed; still only one of the two submits at a time (`OneSubmission`).
- *Complexity in flight.* `select_session_complexity` is documented as the
  complexity "the contract will verify a session on `seed` against"
  (`core/session_complexity.rs:21`). A worker that starts while another's
  session is in flight takes the complexity of that moment; when the game root
  changes it once more before the other session is accepted, the contract
  verifies with the newer (`Env = {"recomplex"}` makes `NoSessionRejected` fail).
- *Seeds held twice.* `SeedsHeldOnce` has two exceptions, both of seeds that
  `get_details` reported to the Miner. A worker of a freed Miner goes on with its seed,
  which its successor is handed as well. And when the `SeedUpdated` of a reported seed
  was created in the very second in which `Miner::new` took `events_after_dt`, the
  event thread brings it again.
- *Whole-tree window.* `validate_proof` accepts an empty proof for a single leaf
  only. A window that is a whole tree of two or more leaves needs no helper
  nodes, and the honest answer is refused.
- *Rounded rate.* The limiter "ensures at most `max_rps` calls per second"
  (`bee_infra/src/rate_limiter.rs:8`), but the interval is 1000 / `max_rps`
  rounded down: with `max_rps` = 3, calls can start at 0, 333, 666 and 999 ms;
  above 1000 nothing is limited. What holds, and what `CallsSpaced` says, is that
  calls start the rounded interval apart; `rated_calls` has a rate that does not divide
  the second.
- *Wallet operations.* A factor added to a full list is confirmed before its
  message is executed, because the expected length is the present one
  (`cmd.rs:287`). A repeated deployment generates another seed phrase and so
  another address. A repeated multisig deployment finds the account active and
  skips the top-up that failed before (`multisig.rs:449`). Two transfers of the
  same amount to the same destination have the same transaction address.
- *Sell orders.* `next_id` read before the message is sent is not the order's id
  when another seller's order arrives in between. A non-empty result of the hot
  endpoint is taken for all of the wallet's events, although older ones may
  only be in the archive, and of one address at most 5000 events are read; an order
  whose event is lost so is not listed although it is open (`missing.created` in
  `OpenOrdersListed`). A claim lost so makes the listing fail on the destroyed lot
  each time (`missing.claimed` in `ListingEnds`): claims of all sellers share one
  address.
- *Audit.* A hot endpoint that answers with claims or redeems of the wallet keeps
  the archive from being asked (`wallet_info.rs:894`), and `print_verdict` looks at
  orders and `SellOrderCreated` only: a seller whose lot is gone and whose
  `SellOrderCreated` has expired is CLEAN. `CleanUnlessHotHidesArchive` names this
  exception and that of orders whose events are behind the one page of 500 that is
  read of the accumulator. On shellnet no archive is configured
  (`wallet_info.rs:235`), and there a wallet whose lots are gone and whose events have
  expired is CLEAN without any trace; the property is claimed with an archive only.
- *History.* For NACKL the stream that is exhausted first returns no cursor, and
  no cursor is the first page: its records are shown again on every further
  page, and two streams can keep each other going for ever; hence `token #
  "nackl"` in `PagingEnds`, and `OncePerEndpoint` speaks of a stream until its last
  page has been returned. A record that hot and archive both hold is shown twice when
  the cursor passes from one to the other. An error of
  `get_popitgame` drops the rewards from the page silently, a failed archive
  call ends the history early, and the probe of the archive looks at ten single
  records only (`missed` in `NothingSkipped`).

### Comments the code does not keep

Met while modelling; the models follow the code.

- `history.rs:548`: "Deduplicates messages by id when hot/archive overlap". `seen_ids`
  (718) lives for one call, and a call reads a stream from one endpoint; across calls
  overlapping records are shown again. `OncePerEndpoint` claims once per endpoint.
- `client.rs:1085-1090` says that a call scans a chunk of 10 and stops at a chunk without
  deployed profiles. The code goes on to older chunks until it has found
  enough or the log ends, and `ListedUnlessCutOff` depends on that: sessions behind
  a chunk of destroyed profiles are listed.
- `client.rs:366-368`: `sent_at` is "when the challenge was sent", for "precise event
  filtering". It is taken after the send returned (*Late start of the window*).
- `rate_limiter.rs:8`: "at most `max_rps` calls per second" (*Rounded rate*).
- `sell_orders.rs:243-244`: a non-empty hot result means that the seller's events are
  within retention. Some are; older ones may be in the archive only (*Sell orders*).
- `wallet_info.rs:970`: CLEAN is explained with "no orders and no
  SellOrderCreated/UsdcClaimed events — wallet never interacted with accumulator". Claims are not looked at
  (*Audit*).

### Bounds, and why they are enough

*Connect.* A log of four to six messages holds a handshake, two requests that
overlap or repeat, and their answers; three messages from three different states
are the shortest that can fork, skip and be re-read. `PageLimit` below `MaxLog`
in `connect_faults` lets messages fall off the page. Its clock goes to 3 with
lifetimes of 2, so that timestamps are equal or grow and links and sessions expire in
the middle of each flow. In `connect_sync` the clock goes to 2, below the session's
lifetime: an answer can be a second before the end of a send, and no session expires.
`MaxAccept` allows a second, racing accept.
*Active sessions.* Four events in pages of two are a full page, a last full page
and a short one; profiles may be redeployed; one deployment, destruction or
failure at any point.
*Miner.* Two workers are the smallest number that can collide or wait for one
another; two Miners are a freed one beside its successor. Seeds are the
model's progress measure: with `MaxSeed = 4` three sessions can be accepted. An
`EventLimit` of 4 makes the newest-100 window overflow.
*Mined session.* Trees of up to five leaves have an unpaired node on the first and
on the second level; all windows are asked for; of two seeds one is the contract's.
*Rate.* Three callers are a sleeper, one behind it and a newcomer; five slots
hold two rounds with retries. A second of 5 ticks and a rate of 2 give an interval
that is rounded down to 2; delays of 2 and 3 ticks end on slots and between them.
*Delivery.* Two messages and a queue of one place make either overflow; a
lifetime of three intervals and seconds of two ticks let the expiry fall before,
on and after a retry.
*Wallet.* Two devices; the pairs are those whose operations touch the same part
of the contracts. A list of three factors is full, empty or between. One fault,
and four runs of an operation that is alone.
*Market.* Up to two orders in pages of one, so that a page is cut, ends and is
followed by another; two sellers; two changes; two failed
queries of an audit, which has two sources on two endpoints.
*History.* Streams of three and two records read one by one with
`MAX_AUTO_FETCH_PAGES = 2`: the search gives up inside the stream; one change and
one fault at any point.

The runs of rate and delivery have punctual timers, without which half of their
properties are not claimed; that the others do not need them is proved. The
proofs remove all bounds for the properties they cover. Deadlock checking is
off: each model stops when its log, its seeds, its slots, its messages or its
pages are used up.

### Fairness

- `ChallengeAnswered`: weak fairness of the return of a send whose message has
  landed, of the dApp's poll attempts and of the
  wallet's queries (both are timer loops of the application), strong fairness of
  answering, because a new query may replace the inbox before the answer is
  written, again and again; an application that answers what it reads gets there.
- `SubmissionEnds`: weak fairness of the event thread, of each worker's
  continuations and of the contract's processing of a sent message, a cancel included.
- `SendEnds`: weak fairness of the sender's continuations, of the clock, and of
  giving up a request (the client library has a timeout); none of the block
  manager. `MaxClock` lies behind the last possible retry.
- `ListingEnds` (twice), `PagingEnds`: weak fairness of the caller's own steps:
  a future that runs, and queries that return or fail.
- `AloneCompletes`: weak fairness of the device's steps, of the repetition of
  an operation that failed, and of the execution of accepted messages.

No fairness is assumed of the user otherwise, of time, or of anything that fails.

## 4. Proofs

`ConnectSessionProofs` has four parts. The first proves, for every log length,
clock, page limit, lifetime, policy and set of faults:

- `TypeCorrect`: `Spec => []TypeOK`.
- `KeysFresh`: the inductive invariant `KeyInv`. Every key pair that occurs in
  a state, an accept or an envelope was generated by its own side and before
  now; every envelope's root ends with a secret of the key pair the envelope
  announces, which no other envelope has; every state's root, when the state
  continues a message, ends with a secret of its two current keys.
- `RootsUnique`: `Spec => []RootsNeverReused`. The property alone is not
  inductive: a new message must be shown to have a root no older one has, which
  follows from its last secret containing a key pair that did not exist before.
- `RootsInterlock`: `Spec => []EqualRootsInterlock`. Equal roots have equal last
  secrets; a secret is the set {my, peer}, and the sides of its two keys tell
  which is whose.

Its second part proves `SessionImplementsTree`: `Spec =>
ImplementsSessionTree`, that is `Tree!Spec`. On top of `TypeOK` and `KeyInv` it
needs `RefInv`: every root in the log, less its last secret, is empty or the
root of an earlier message (`Linked`), and every state either side holds is of
a root that was written (`HeldOK`). Then the mapping's `At` is the one message
of a root, appending a message moves no other (`RootsUnique`), and each action is
one step of the tree or a stutter.

Its third part proves, for every bound, caller discipline and set of faults,
`AcceptedInOrderAlways`, `AcceptedWithoutGapsAlways` and
`ResponseAnswersChallengeAlways`. None of the three is inductive. `AcceptInv`
relates each state a side may still use to what the side has accepted: of the
messages the state's root was chained on, the other side's are all accepted and
its own have a seq of at most `sent` (`Sound`), and nothing accepted lies ahead of
the state (`Past`). For the wallet this is said twice, of what it has stored and
of what it will have when the query under way is saved (`Reading`), because the
query works on its own copy. `Closed` and `SeqsGrow` say the same of the log: with
a root every root on the way to it was written, and seqs grow along it. For the
third theorem `ReplyInv` follows a challenge through the inbox: the state that is
delivered with a message is the one after it (`InboxOK`), a response continues
the message whose nonce it echoes (`RepliesOK`), and the state held during a
wait is the challenge's (`WaitOK`). A response that opens there continues that
challenge, and roots are unique.

Its fourth part is about callers that are `Careful`: the dApp does not send while it
waits, and no write is lost to the side that made it (`overlap`, `dapp_ack` and
`wallet_ack` are the ways to fork the chains at once, as `connect_faults` allows).
Early saves, older pages, redelivered challenges, timeouts and crashes of the wallet
remain. `InSyncAlways`: `Spec => []InSyncUnlessGivenUp`. The property compares two
states, and is kept only because of what each side may still do with what it has
read, so `SyncInv` follows the turns of the conversation:

- the dApp goes on from a challenge only after the wallet did (`Answered`), because
  what it has saved is not a challenge's state unless it waits (`StoredOK`);
- the wallet's state continues all the wallet wrote in the session (`SentHeld`), and a
  challenge of its inbox is the last message it has read (`InboxLast`), because
  nothing of the dApp can follow an unanswered challenge. So both
  `session_state_after` and the batch state give the challenge's root, and answering
  one challenge leaves no other to answer;
- the messages of the dApp's session form one chain: what led to its current state
  and at most one response beyond it (`ChainInv`). A response is written on the
  wallet's root; were that behind the dApp's, a message of the wallet would lie
  between, which `SentHeld` excludes (lemma `AnswersWaiting`).

The first two hold as long as no wait was given up, and for a dApp that saves only
after the response also later (`Prompt`). From this `DesyncIsRealAlways`: `Spec =>
DesyncIsReal`, without `early_persist`. `DesyncInv` adds that a response continues one
message of the dApp with that message's key (`Replies`), that nothing of the dApp
follows the pending challenge, and that `last_seen_seq` covers every response on the
way (`SeenAll`). If the chains had not forked, the response that did not open would be
on the wallet's chain by `SentHeld`; it is not on the dApp's, because its seq is above
`last_seen_seq`; so it continues the pending challenge, and then it opens. No bound on
the page is needed for this.

`ActiveSessionsProofs` proves `ListingComplete`: `Spec => []ListedUnlessCutOff`
for every log, chunk size, set of filters and number of changes. The invariant
`Inv` says how far down the log everything owed has been shown: at or above the
caller's cursor in what is listed or cut, and above the record under way in
that and what the call has found (`Covered`). A page is a run of consecutive
places (`Descending`) and short only where the log begins (`PageOK`). So an
empty page, a short page and a stalled cursor each mean that the whole log is
covered; and a call that saw no deployed profile cannot have been full, so it too
ended on such a page.

`MinerWorkersProofs` proves four theorems for any number of workers, seeds and
Miners, the first three for any environment. `OneSubmissionAlways`: `Spec => []OneSubmission`. The
invariant has to explain why a worker that `stop()` took off the list cannot submit
beside a listed one: taps are only sent to listed workers, commands and events
reach only listed ones, so an unlisted future has an empty channel, never has a
tap, finds its tap tree empty and gives its seed back. `SubmitInv` therefore says of
each worker that is past `Queued` either that it is listed or that it has no tap and
none waiting (`WorkerOK`), and of the events that they name workers that have
submitted (`EventsOK`). `MissedEventsAlways`: `Spec =>
[]MissedEventsShareASecond`. `PollInv` adds that events are in the order of their
times and none is in the future (`EventTimes`), and that `after_dt` is the time of a
processed event or lies before the Miner's start (`PollerOK`); what a poll passes over
is then in a second it has already seen, or has been pushed out of the window.
`SeedsHeldOnceAlways`: `Spec => []SeedsHeldOnce`. `HeldInv` says where seeds come
from: the contract hands them out in order, each in one `SeedUpdated` event
(`Rotations`); what `get_details` reported was handed out no later than the second in
which `events_after_dt` was taken (`Reported`); and the queue and the Miner's running
workers hold only seeds it was told of (`Known`), two of them the same one only if it
was told of it twice (`Held`). A poll therefore repeats a seed only when `get_details`
had reported it and its event is of that very second. `JobsInv` adds the workers of
freed Miners: their seeds had been handed out when the present Miner asked, so a seed
they share with it is one that `get_details` reported. That the places a poll or `remove_seed` copies are distinct is
`NthIs`: the rank of a place in a finite set is an injection into `1..Cardinality`, so
a surjection.
`NoSessionRejectedAlways`: with `Env = {}` (no failure, no reload, one call at a time,
complexity changed only between sessions) `Spec => []NoSessionRejected`. `CalmInv` is
an invariant of the whole submission protocol. Its central part is `InLine`: the seed
being submitted is the contract's current one, the one being computed is the next, and
the queue continues from there without a gap. That is why a worker whose result arrives
may leave: the round that delivers the result also brings the seed it released, so at
most one released seed is unpolled and its worker is still there (`OneUnseen`,
`ResultOK`). `OneInterval` says that a worker is asked for its proof once, so it never
sends a second one; `MessageOK` and `Silent` tie a worker's progress to the fate of its
message. `ComplexityOK` then follows the complexity: what `select_session_complexity`
picks is what `ComplexityOld` will be when the session is verified, because a
session in flight at that time moves it on. The argument does not use that events are
polled in time: with any `EventLimit` a missed event stops the line rather than
breaking it.

`RatedCallsProofs` proves `TypeCorrect`, `SlotsSpacedAlways` (`next` is at least an
interval after the last slot), `CallsSpacedAlways`, `WaitBoundedAlways` and
`RetriesInBudgetAlways`. The interval is the rounded one, for every `MaxRps`. For `CallsSpaced` the
invariant describes the sleepers: with punctual timers each reserved slot is not
before the clock, an interval before `next`, an interval from every other
reserved slot and an interval after the last call; so whoever starts next, sleeper
or newcomer, is an interval after the last and before the rest. For `WaitBounded`,
which needs no punctual timers, `WaitInv` says that the slots ahead of the clock
follow each other without gaps, that the first is at most an interval away and that
a different caller sleeps for each: there are no more of them than callers.
`RetriesInBudget` follows from the wait bound and the cap that the sleeps after
failures respect (`BudgetInv`).

`MessageDeliveryProofs` proves `TypeCorrect`, `QueuedAtMostOnceAlways`,
`OverflowIsFinalAlways` and `ResentInTimeAlways`. `RequestOK` says that a message under
way is not queued and that an overflow answer means neither; `SleepOK` that only such
an answer leads to a resend. `InTime` says that a sleep ends before the message
expires and, with punctual timers, is not overslept.

`ShellMarketProofs` proves three theorems, for every number of sellers,
denominations and orders, every page size, and all changes and faults.
All use `MarketOK`: lots lie inside their queue, they are open exactly until they
are claimed, and what one step does to a lot no later step undoes (`LotsKept`).

- `SellReturnsOwnOrderAlways`. `SaleOK`: the id of a sale that nobody raced is the
  next one until its transaction arrives, and its own order's from then on.
- `OpenOrdersListedAlways`. `ListInv` says where an open order is at each stage of
  a call (`Ahead`): missing from an answer and so excused; or shown or behind the cursor; among the created ones once these
  are read; below `next_id` once its queue is read; and, when the page was cut, on
  the page or after everything on it while there is more. A page is the first
  `page_size + 1` candidates: `FirstOnes` shows that what is left out comes later and
  that a page with fewer leaves nothing out; `LastExists` that the next cursor
  exists. The invariant also has to say that the archive was found without orders of
  the wallet's own address before the common one is asked (`EventsOK`).
- `CleanAlways`. `AuditInv`: with an archive, once the events are read and no
  `SellOrderCreated` is among them, those of all orders are buried, or the hot endpoint
  answered with claims or redeems.

That a finite set of orders has a first and a last element is taken from the
well-foundedness of `<` on the naturals (`SmallestNat`, by `WFMin`), since induction
over data is not available.

`HistoryPagingProofs` proves `NothingSkippedAlways` and `OncePerEndpointAlways`
for every page size, number and length of streams, archive lag and number of changes
while the user pages. A page puts together one page of each stream, which is not cut
again. One query returns the newest `limit` of a stream before a position: the lemma
`Newest` says that whatever is left out is not newer than anything kept, and that
nothing is left out of a short page. The invariant of the first theorem says where
each record that existed at the start is: shown, or at a place the cursor of its stream
has not reached, in the live source or in the archive (`NothingLost`); it needs the
state of a page half loaded as well, since the streams are asked one by one. The second
needs the converse: what a stream that has not ended still has to deliver was not
shown from the same source (`NotAgain`).

`WalletOpsProofs` proves `OkMeansDoneAlways`, `GivesUpOnlyIfLateAlways`,
`RefusedOnlyIfRacedAlways` and `ProgressEndsOnceAlways` for any number of devices with
any combination of the twenty jobs, any initial contracts, and any number of runs,
crashes, failed reads and lost or late messages. The four properties speak of
operations that have returned; the invariant `Inv` describes the ones in progress.

- `Running`: an operation has sent only messages that come before its step in the
  order of its job (`Past`), and what was executed is among them.
- `Facts`: what a run that nobody disturbed has established, one predicate per job.
  It relates the step, the messages executed so far and the contracts; for instance a
  device at `accept_candidate` has had its candidate registered, and either is the
  owner already or is still the candidate. Every condition the operation polls for
  follows from its messages having been executed (`GivesUpOnlyIfLate`), everything
  the next message needs follows from that condition (`RefusedOnlyIfRaced`, by the
  lemma `Acceptable`), and the last condition is the effect (`OkMeansDone`; except for a
  factor added to a full list, and for the eight `Unconfirmed` operations there is
  nothing to show).
- `WayOK`: a message on the way that belongs to the run in progress was sent and not
  executed, and carries what the operation holds; so no kind is executed twice in a
  run, and messages of earlier runs are told apart by their run.
- `ChainOK`: the factors are distinct and at most `MaxFactors`, the whitelist is
  finite. Without it removing a factor need not remove the device.

Executing a message is the hard step: for its own run it completes a fact
(`FactsAfter`), a late message of a run that has returned leaves the effect in place
(`EffectStays`), and for every other device it is a change from outside (`FineOutside`).

The constants' assumptions (`BoundsAssumption`, `ModesAssumption`,
`EnvAssumption`, `RateAssumption`, `PolicyAssumption`, `CallersAssumption`,
`DeliveryAssumption`, `ActiveAssumption`, `MarketAssumption`, `HistoryAssumption`,
`WalletAssumption`) say that bounds are naturals, limits are positive (a chunk has at least two places; `page_size` is
raised to one by the code), modes are from their sets, and the callers of a limiter and
the denominations (`VALID_DENOMS`, an array) are finitely many. `WalletAssumption`
also says that a wallet begins with a list of distinct factors that is not longer than
`MAX_NUM_OF_FACTORS` (10) and with a finite whitelist, and that `WHITELIST_MAX` (15) is
positive: with 0 a whitelist of one entry would be cleaned, and the wait for one entry
would end at once.

Only model-checked:

- the liveness properties `ChallengeAnswered`, `SubmissionEnds`, `SendEnds`,
  `ListingEnds` (twice), `PagingEnds`, `AloneCompletes`: fairness is outside the
  prover's reach;
- `MinedSession`: what its recursive tree functions compute is an induction over
  data.

## 5. Not modelled

- Bindings, adapters, DTOs and `WalletClient` (`bee_connect/src/wasm.rs`,
  `bee_wallet/src/adapters`, `client.rs`, `types.rs`): conversion of arguments
  and results, no state.
- Cryptographic primitives (`bee_crypto`, the arithmetic of the ZKP login,
  hashing): symbolic here.
- DEX messages (`bee_connect/src/dex_protocol.rs`, `bee_wallet/src/services/dex.rs`):
  message bodies and their validation, on top of the session of
  `ConnectSession`, which does not look into bodies; no state between calls.
- Plain reads: balances, `get_reward`, `get_miner_data`, `get_current_block`,
  name validation, the other commands of `wallet_info`, `faucet`.
- `bee_errors` (values and text) and `queue_overflow_proxy` (a test double; what
  it answers is the environment of `MessageDelivery`).

Hazards that no property covers: a caller that stores the missing session state
`query_session_messages` returns for a profile that is not deployed
(`modules/connect.rs:154`) — the model's caller keeps its state; one event that
cannot be decoded fails every poll while it is among the newest 100
(`bee_miner/src/wasm/mod.rs:80`) — decoding is in a library outside the
repository; a wall clock that is set back makes every caller of the limiter
sleep for the difference (`rate_limiter.rs:70`) — the model's clock does not go
back; a seed that is handed out between the answer of `get_details` and the second in
which `Miner::new` takes `events_after_dt` is in neither (`miner.rs:81`) — only
a Miner made later can learn of it; and the skipped top-up of a repeated multisig deployment
(`multisig.rs:449`).
