---------------------------- MODULE MinerWorkers ----------------------------
(***************************************************************************)
(* The browser miner (bee_miner/src/wasm): one Miner object with its queue *)
(* of seeds and its list of workers, the worker futures it spawns, the     *)
(* poller that turns contract events into worker commands, and the miner   *)
(* contract they all talk to.                                              *)
(*                                                                         *)
(* The browser is single threaded: a step is what runs between two awaits. *)
(* The contract is not part of the repository; it is modelled from the way *)
(* miner.rs, worker.rs and session_complexity.rs use and describe it.      *)
(* Seeds are numbered in the order the contract hands them out: `seed` is  *)
(* current and seed + 1 is next.  The pair (easy, hard) of complexities is *)
(* one number, merkle trees are reduced to "has leaves".                   *)
(***************************************************************************)
EXTENDS SequencesExt

CONSTANTS
  MaxWorkers,    \* bound: workers ever started
  MaxMiners,     \* bound: Miner objects ever created
  MaxSeed,       \* bound: sessions end when this seed is current
  MaxClock,      \* bound: the clock, in seconds
  MaxComplexity, \* bound: changes of complexity
  EventLimit,    \* events one query returns (100 in the code)
  Env            \* what the environment may do, a subset of EnvKinds

\* same_tick   : start and stop may follow a start before its worker first runs
\* reload      : the page is reloaded, every worker dies
\* free        : the Miner is freed and re-created, its workers live on
\* tx_error    : submit_session, verify_session or cancel_session reports an error
\* query_error : get_session_complexity fails
\* recomplex   : complexity may change while a session is being submitted
\* remove_seed : the application removes seeds
EnvKinds == {"same_tick", "reload", "free", "tx_error", "query_error", "recomplex",
             "remove_seed"}

ASSUME BoundsAssumption ==
  /\ MaxWorkers \in Nat /\ MaxMiners \in Nat /\ MaxSeed \in Nat /\ MaxClock \in Nat /\ MaxComplexity \in Nat
  /\ EventLimit \in Nat \ {0}

ASSUME EnvAssumption == Env \subseteq EnvKinds

Ids == 1..MaxWorkers
Miners == 1..MaxMiners

VARIABLES
  clock,      \* seconds, shared by the chain and the browser
  seed,       \* contract: current seed
  commit,     \* contract: worker of the submitted session, 0 if none
  comp,       \* contract: complexity
  compOld,    \* contract: ComplexityOld, what a session is verified with
  events,     \* contract: its events, oldest first
  tx,         \* contract: fate of each worker's messages
  cancel,     \* contract: fate of the cancel_session of each Miner
  phase,      \* "down", "details" and "cancelling" (Miner::new awaits), "ready"
  details,    \* what get_details returned
  seeds,      \* Miner.seeds
  complexity, \* Miner.complexity
  after,      \* the poller's after_dt
  started,    \* second in which Miner::new took events_after_dt
  inst,       \* number of the Miner object
  wk,         \* the workers: how far they are, their Miner, their list entry
  job,        \* seed and complexity of each worker
  queue,      \* commands sent to each worker and not received
  lingering,  \* event threads of freed Miners: number and after_dt
  seen        \* events the poller has processed (history)

contract == <<seed, commit, comp, compOld, events>>
messages == <<tx, cancel>>
miner    == <<phase, details, seeds, complexity, after, started, inst, seen>>
workers  == <<wk, job, queue, lingering>>
vars     == <<clock, contract, messages, miner, workers>>

-----------------------------------------------------------------------------
(* Workers. *)

Pcs == {"none", "spawned", "choosing", "mining", "waiting",
        "sending", "listening", "proving", "done"}
Commands == {"stop", "tap", "interval", "accepted", "rejected"}

Worker == [pc : Pcs, inst : Nat, listed : BOOLEAN,
           inFlight : BOOLEAN, time : BOOLEAN, taps : BOOLEAN]

NoWorker == [pc |-> "none", inst |-> 0, listed |-> FALSE,
             inFlight |-> FALSE, time |-> FALSE, taps |-> FALSE]

\* Entries of workers_ref, the list a worker of the given Miner shares
Listed(i) == {w \in Ids : wk[w].listed /\ wk[w].inst = i}

\* MinerStatus of an entry follows from how far its future has come
Queued     == {"spawned"}
Computing  == {"choosing", "mining", "waiting"}
Submitting == {"sending", "listening", "proving"}
Active     == Queued \cup Computing \cup Submitting
InStatus(i, status) == {w \in Listed(i) : wk[w].pc \in status}

\* shutdown_worker: the entry leaves the list and the future returns
Ended(w) == [wk[w] EXCEPT !.pc = "done", !.listed = FALSE]
Shutdown(w) ==
  /\ wk' = [wk EXCEPT ![w] = Ended(w)]
  /\ queue' = [queue EXCEPT ![w] = <<>>]
  /\ UNCHANGED job

At(w, pc) == wk[w].pc = pc
GoTo(w, pc) == [wk EXCEPT ![w].pc = pc]

EventTypes == {"interval", "accepted", "rejected", "seed_updated", "complexity_updated"}
Events == [type : EventTypes, w : 0..MaxWorkers, val : Nat, at : Nat]
TxStates == {"none", "submit", "verify", "ok", "refused"}
CancelStates == {"none", "sent", "ok", "refused"}

\* One event of the contract, stamped with created_at
Event(type, w, val) == [type |-> type, w |-> w, val |-> val, at |-> clock]

-----------------------------------------------------------------------------
Init ==
  /\ clock = 1
  /\ seed = 1 /\ commit = 0 /\ comp = 1 /\ compOld = 1 /\ events = <<>>
  /\ tx = [w \in Ids |-> "none"] /\ cancel = [i \in Miners |-> "none"]
  /\ phase = "down" /\ details = [seed |-> 0, commit |-> 0, comp |-> 0]
  /\ seeds = <<>> /\ complexity = 0 /\ after = 0 /\ started = 0 /\ inst = 0
  /\ wk = [w \in Ids |-> NoWorker] /\ queue = [w \in Ids |-> <<>>]
  /\ job = [w \in Ids |-> [seed |-> 0, comp |-> 0]]
  /\ lingering = {} /\ seen = {}

Tick ==
  /\ clock < MaxClock
  /\ clock' = clock + 1
  /\ UNCHANGED <<contract, messages, miner, workers>>

-----------------------------------------------------------------------------
(* The miner contract. *)

\* submit_session: refused while another session's data is present
ContractSubmit(w) ==
  /\ tx[w] = "submit"
  /\ \/ /\ commit = 0
        /\ commit' = w
        /\ events' = Append(events, Event("interval", w, 0))
        /\ tx' = [tx EXCEPT ![w] = "ok"]
     \/ /\ commit # 0
        /\ tx' = [tx EXCEPT ![w] = "refused"]
        /\ UNCHANGED <<commit, events>>
  /\ UNCHANGED <<clock, seed, comp, compOld, cancel, miner, workers>>

\* The next seed becomes current; SeedUpdated announces the one after it
Rotate(earlier) ==
  /\ seed' = seed + 1
  /\ events' = Append(earlier, Event("seed_updated", 0, seed + 2))

\* verify_session checks the committed session against the current seed and
\* ComplexityOld.  Acceptance rotates the seed and moves ComplexityOld on; the
\* sources do not say whether a rejection drops the submitted data.
ContractVerify(w) ==
  LET good == job[w].seed = seed /\ job[w].comp = compOld IN
  /\ tx[w] = "verify"
  /\ \/ /\ commit = w /\ good /\ seed < MaxSeed
        /\ Rotate(Append(events, Event("accepted", w, 0)))
        /\ compOld' = comp
        /\ commit' = 0
        /\ tx' = [tx EXCEPT ![w] = "ok"]
     \/ /\ commit = w /\ ~good
        /\ events' = Append(events, Event("rejected", w, 0))
        /\ commit' \in {0, w}
        /\ tx' = [tx EXCEPT ![w] = "ok"]
        /\ UNCHANGED <<seed, compOld>>
     \/ /\ commit # w
        /\ tx' = [tx EXCEPT ![w] = "refused"]
        /\ UNCHANGED <<seed, commit, compOld, events>>
  /\ UNCHANGED <<clock, comp, cancel, miner, workers>>

\* cancelCommitData drops the session data, whoever submitted them by now: the
\* seed rotates, ComplexityOld stays
ContractCancel(i) ==
  /\ cancel[i] = "sent"
  /\ \/ /\ commit # 0 /\ seed < MaxSeed
        /\ Rotate(events)
        /\ commit' = 0
        /\ cancel' = [cancel EXCEPT ![i] = "ok"]
     \/ /\ commit = 0
        /\ cancel' = [cancel EXCEPT ![i] = "refused"]
        /\ UNCHANGED <<seed, commit, events>>
  /\ UNCHANGED <<clock, comp, compOld, tx, miner, workers>>

\* The game root changes the complexity
ChangeComplexity ==
  /\ comp < MaxComplexity
  /\ "recomplex" \in Env \/ \A w \in Ids : wk[w].pc \notin Submitting
  /\ comp' = comp + 1
  /\ events' = Append(events, Event("complexity_updated", 0, comp + 1))
  /\ UNCHANGED <<clock, seed, commit, compOld, messages, miner, workers>>

-----------------------------------------------------------------------------
(* The Miner object. *)

\* Miner::new up to the reply of get_details
NewDetails ==
  /\ phase = "down" /\ inst < MaxMiners
  /\ phase' = "details"
  /\ details' = [seed |-> seed, commit |-> commit, comp |-> comp]
  /\ UNCHANGED <<clock, contract, messages, seeds, complexity, after, started, inst, seen,
                 workers>>

\* The continuation takes events_after_dt.  Without submitted session data the
\* Miner is complete, else cancel_session is sent for the stale session.
NewReady ==
  /\ phase = "details"
  /\ \/ /\ details.commit = 0
        /\ phase' = "ready"
        /\ seeds' = <<details.seed, details.seed + 1>>
        /\ UNCHANGED cancel
     \/ /\ details.commit # 0
        /\ phase' = "cancelling"
        /\ cancel' = [cancel EXCEPT ![inst + 1] = "sent"]
        /\ UNCHANGED seeds
  /\ complexity' = details.comp
  /\ started' = clock
  /\ after' = clock - 1
  /\ inst' = inst + 1
  /\ seen' = {}
  /\ UNCHANGED <<clock, contract, tx, details, workers>>

\* cancel_session returns, possibly before the cancel lands; an error, whether
\* or not it lands, fails the constructor
NewCancelled ==
  /\ phase = "cancelling"
  /\ \/ /\ cancel[inst] \in {"sent", "ok"}
        /\ phase' = "ready"
        /\ seeds' = <<details.seed + 1>>
     \/ /\ cancel[inst] = "refused" \/ "tx_error" \in Env
        /\ phase' = "down"
        /\ UNCHANGED seeds
  /\ UNCHANGED <<clock, contract, messages, details, complexity, after, started, inst, seen,
                 workers>>

\* Mutated form: events of the second already polled are delivered again.
NewEvents_Inclusive(dt) ==
  {i \in 1..Len(events) : i + EventLimit > Len(events) /\ events[i].at >= dt}

\* get_miner_events: of the newest EventLimit events those after after_dt
NewEvents(dt) ==
  {i \in 1..Len(events) : i + EventLimit > Len(events) /\ events[i].at > dt}

\* The k-th of a set of places, smallest first
Nth(I, k) == CHOOSE i \in I : Cardinality({j \in I : j <= i}) = k

\* The types of the given events, in order
Types(I) == [k \in 1..Cardinality(I) |-> events[Nth(I, k)].type]

\* Mutated form: results are not forwarded.
CommandsFor_NoResults(w, dt) ==
  Types({i \in NewEvents(dt) : events[i].w = w /\ events[i].type = "interval"})

\* What the poller finds for a listed worker
CommandsFor(w, dt) == Types({i \in NewEvents(dt) : events[i].w = w})

HasEvents(w, dt) == \E i \in NewEvents(dt) : events[i].w = w

\* The commands of one round reach the entries of the Miner's list
Deliver(i, dt) ==
  queue' = [w \in Ids |-> IF w \in Listed(i) /\ HasEvents(w, dt)
                          THEN queue[w] \o CommandsFor(w, dt) ELSE queue[w]]

\* Mutated form: the time of the poll instead of the newest event's.
AfterDt_Now == clock

\* after_dt once the new events are processed
AfterDt == Max({events[i].at : i \in NewEvents(after)})

\* The values the new events of a type carry, in order
NewValues(type) ==
  LET new == {i \in NewEvents(after) : events[i].type = type}
  IN  [k \in 1..Cardinality(new) |-> events[Nth(new, k)].val]

\* One round of the event thread: commands to listed workers, new seeds to
\* the back of the queue, the last complexity, after_dt to the newest event
Poll ==
  /\ phase = "ready" /\ NewEvents(after) # {}
  /\ Deliver(inst, after)
  /\ seeds' = seeds \o NewValues("seed_updated")
  /\ complexity' = LET c == NewValues("complexity_updated")
                   IN  IF c = <<>> THEN complexity ELSE Last(c)
  /\ after' = AfterDt
  /\ seen' = seen \cup NewEvents(after)
  /\ UNCHANGED <<clock, contract, messages, phase, details, started, inst, wk, job, lingering>>

\* The round a freed Miner's thread still makes: `dropped` is only read
\* before the pause and the query
LastPoll ==
  /\ \E m \in lingering :
       /\ Deliver(m.inst, m.after)
       /\ lingering' = lingering \ {m}
  /\ UNCHANGED <<clock, contract, messages, miner, wk, job>>

\* A spawned future runs before the browser handles another event
Settled == "same_tick" \in Env \/ InStatus(inst, Queued) = {}

\* start takes the front seed for a new worker; its future is only spawned
Start ==
  /\ phase = "ready" /\ Settled
  /\ InStatus(inst, Computing) = {}
  /\ seeds # <<>>
  /\ seeds' = Tail(seeds)
  /\ \E w \in Ids :
       /\ At(w, "none") /\ \A v \in Ids : v < w => ~At(v, "none")
       /\ wk' = [wk EXCEPT ![w] = [NoWorker EXCEPT !.pc = "spawned", !.inst = inst,
                                                  !.listed = TRUE]]
       /\ job' = [job EXCEPT ![w] = [seed |-> Head(seeds), comp |-> complexity]]
  /\ UNCHANGED <<clock, contract, messages, phase, details, complexity, after, started, inst, seen, queue, lingering>>

\* Queued entries leave the list (their futures are already spawned),
\* Computing ones get a Stop command.  Bound: one Stop at a time.
Stop ==
  /\ phase = "ready" /\ Settled
  /\ InStatus(inst, Queued \cup Computing) # {}
  /\ \A w \in Ids : ~Contains(queue[w], "stop")
  /\ wk' = [w \in Ids |-> IF w \in InStatus(inst, Queued)
                          THEN [wk[w] EXCEPT !.listed = FALSE] ELSE wk[w]]
  /\ queue' = [w \in Ids |-> IF w \in InStatus(inst, Computing)
                             THEN Append(queue[w], "stop") ELSE queue[w]]
  /\ UNCHANGED <<clock, contract, messages, miner, job, lingering>>

\* The first Computing entry gets the tap.  Bound: one tap per worker.
AddTap ==
  /\ phase = "ready" /\ Settled
  /\ \E w \in InStatus(inst, Computing) :
       /\ \A v \in InStatus(inst, Computing) : w <= v
       /\ ~wk[w].taps /\ ~Contains(queue[w], "tap")
       /\ queue' = [queue EXCEPT ![w] = Append(@, "tap")]
  /\ UNCHANGED <<clock, contract, messages, miner, wk, job, lingering>>

RemoveSeed ==
  /\ "remove_seed" \in Env
  /\ phase = "ready"
  /\ \E x \in Range(seeds) :
       LET keep == {k \in 1..Len(seeds) : seeds[k] # x}
       IN  seeds' = [k \in 1..Cardinality(keep) |-> seeds[Nth(keep, k)]]
  /\ UNCHANGED <<clock, contract, messages, phase, details, complexity, after, started, inst, seen, workers>>

\* free() sets `dropped` and leaves the worker futures running; a page reload
\* ends everything.  Messages already sent stay in flight.
Drop ==
  /\ phase' = "down"
  /\ \/ /\ "free" \in Env /\ phase = "ready"
        /\ lingering' = lingering \cup {[inst |-> inst, after |-> after]}
        /\ UNCHANGED <<wk, queue>>
     \/ /\ "reload" \in Env /\ phase # "down"
        /\ wk' = [w \in Ids |-> IF wk[w].pc \in Active THEN Ended(w) ELSE wk[w]]
        /\ queue' = [w \in Ids |-> <<>>]
        /\ lingering' = {}
  /\ seeds' = <<>>
  /\ UNCHANGED <<clock, contract, messages, details, complexity, after, started, inst, seen, job>>

-----------------------------------------------------------------------------
(* worker::run. *)

\* The first stretch: status Computing, and whether a session is in flight
Run(w) ==
  /\ At(w, "spawned")
  /\ wk' = [wk EXCEPT ![w] = [@ EXCEPT !.pc = "choosing",
              !.inFlight = InStatus(wk[w].inst, Submitting) \ {w} # {}]]
  /\ UNCHANGED <<clock, contract, messages, miner, job, queue, lingering>>

\* Mutated form: the session in flight is not taken into account.
SelectSessionComplexity_Old(w) ==
  IF job[w].seed \in {seed, seed + 1} THEN compOld ELSE job[w].comp

\* select_session_complexity, with the value cached at start for a seed the
\* contract does not know
SelectSessionComplexity(w) ==
  CASE job[w].seed = seed     -> compOld
    [] job[w].seed = seed + 1 -> IF wk[w].inFlight THEN comp ELSE compOld
    [] OTHER                 -> job[w].comp

\* get_session_complexity returns
Choose(w) ==
  /\ At(w, "choosing")
  /\ wk' = GoTo(w, "mining")
  /\ \/ job' = [job EXCEPT ![w].comp = SelectSessionComplexity(w)]
     \/ "query_error" \in Env /\ UNCHANGED job
  /\ UNCHANGED <<clock, contract, messages, miner, queue, lingering>>

\* Mutated form: no wait for the session being submitted.
MaySubmit_NoWait(w) == TRUE

\* The wait loop sees no Submitting entry
MaySubmit(w) == InStatus(wk[w].inst, Submitting) = {}

\* From the wait loop's test to the await of submit_session
SubmitRoot(w, worker) ==
  IF MaySubmit(w)
  THEN /\ wk' = [wk EXCEPT ![w] = [worker EXCEPT !.pc = "sending"]]
       /\ tx' = [tx EXCEPT ![w] = "submit"]
  ELSE /\ wk' = [wk EXCEPT ![w] = [worker EXCEPT !.pc = "waiting"]]
       /\ UNCHANGED tx

\* An unused seed returns to the front of its Miner's queue
ReturnSeed(w) == seeds' = IF wk[w].inst = inst THEN <<job[w].seed>> \o seeds ELSE seeds

\* One round of the computation loop takes a command or computes a time leaf
Receives(w, command) == queue[w] # <<>> /\ Head(queue[w]) = command
Received(w) == queue' = [queue EXCEPT ![w] = IF @ = <<>> THEN @ ELSE Tail(@)]
Computed(w) == [wk[w] EXCEPT !.time = @ \/ queue[w] = <<>>, !.taps = @ \/ Receives(w, "tap")]

MinerButSeeds == <<phase, details, complexity, after, started, inst, seen>>

\* A round that does not end the loop
Mine(w) ==
  /\ At(w, "mining") /\ ~Receives(w, "stop")
  /\ wk' = [wk EXCEPT ![w] = Computed(w)]
  /\ Received(w)
  /\ UNCHANGED <<clock, contract, messages, miner, job, lingering>>

\* The round that ends it: Stop, or the duration is reached.  An empty tree
\* gives the seed back, otherwise the session is submitted as soon as no
\* other is.
MineEnds(w) ==
  /\ At(w, "mining")
  /\ \/ /\ Computed(w).time /\ Computed(w).taps
        /\ SubmitRoot(w, Computed(w))
        /\ Received(w)
        /\ UNCHANGED <<seeds, job>>
     \/ /\ ~(Computed(w).time /\ Computed(w).taps)
        /\ Shutdown(w)
        /\ ReturnSeed(w)
        /\ UNCHANGED tx
  /\ UNCHANGED <<clock, contract, cancel, MinerButSeeds, lingering>>

\* Another look at the list, a second later
Wait(w) ==
  /\ At(w, "waiting") /\ MaySubmit(w)
  /\ SubmitRoot(w, wk[w])
  /\ UNCHANGED <<clock, contract, cancel, miner, job, queue, lingering>>

\* submit_session or verify_session returns
TxReturns(w) ==
  /\ wk[w].pc \in {"sending", "proving"}
  /\ \/ tx[w] = "ok" /\ wk' = GoTo(w, "listening") /\ UNCHANGED <<job, queue>>
     \/ /\ tx[w] = "refused" \/ "tx_error" \in Env
        /\ Shutdown(w)
  /\ UNCHANGED <<clock, contract, messages, miner, lingering>>

\* One command of the last loop: the interval is answered with the proof, a
\* result ends the worker, the rest is ignored
Listen(w) ==
  /\ At(w, "listening") /\ queue[w] # <<>>
  /\ \/ /\ Receives(w, "interval")
        /\ wk' = GoTo(w, "proving")
        /\ Received(w)
        /\ tx' = [tx EXCEPT ![w] = "verify"]
        /\ UNCHANGED job
     \/ /\ Receives(w, "accepted") \/ Receives(w, "rejected")
        /\ Shutdown(w)
        /\ UNCHANGED tx
     \/ /\ Receives(w, "stop") \/ Receives(w, "tap")
        /\ Received(w)
        /\ UNCHANGED <<wk, job, tx>>
  /\ UNCHANGED <<clock, contract, cancel, miner, lingering>>

-----------------------------------------------------------------------------
Step(w) == Run(w) \/ Choose(w) \/ MineEnds(w) \/ Wait(w) \/ TxReturns(w) \/ Listen(w)

Contract(w) == ContractSubmit(w) \/ ContractVerify(w)

Next ==
  \/ Tick
  \/ \E w \in Ids : Contract(w)
  \/ \E i \in Miners : ContractCancel(i)
  \/ ChangeComplexity
  \/ NewDetails \/ NewReady \/ NewCancelled
  \/ Poll \/ LastPoll
  \/ Start \/ Stop \/ AddTap \/ RemoveSeed \/ Drop
  \/ \E w \in Ids : Step(w) \/ Mine(w)

Spec == Init /\ [][Next]_vars

\* Futures and timers of the browser make progress, messages are processed
FairSpec ==
  /\ Spec
  /\ WF_vars(Poll)
  /\ \A w \in Ids : WF_vars(Step(w)) /\ WF_vars(Contract(w))
  /\ \A i \in Miners : WF_vars(ContractCancel(i))
-----------------------------------------------------------------------------
(* Properties. *)

\* "Wait if there is any worker with status `Submitting`": of one Miner's
\* workers at most one is between submit_session and its result.
OneSubmission ==
  \A v, w \in Ids :
    wk[v].pc \in Submitting /\ wk[w].pc \in Submitting /\ wk[v].inst = wk[w].inst
      => v = w

\* Where a seed is: its places in the queue and the workers that mine it,
\* those of freed Miners included
Holders(x) ==
  {<<"queue", i>> : i \in {j \in 1..Len(seeds) : seeds[j] = x}}
    \cup {<<"worker", w>> : w \in {v \in Ids : wk[v].pc \in Active /\ job[v].seed = x}}

\* A worker that outlived its Miner object
Freed(a) == \E w \in Ids : a = <<"worker", w>> /\ wk[w].inst # inst

\* A seed is never queued or mined twice, whatever is stopped, given back or
\* polled.  The two exceptions are for a seed get_details had reported when
\* the Miner was made: a freed Miner's worker still mines it, or its
\* SeedUpdated was created in the second in which events_after_dt was taken
\* and the poller brought it again.
SeedsHeldOnce ==
  phase = "ready" =>
    \A x \in Range(seeds) \cup {job[w].seed : w \in Ids} :
      \A a, b \in Holders(x) :
        a = b \/ /\ x <= details.seed + 1
                 /\ \/ Freed(a) \/ Freed(b)
                    \/ \E i \in seen : /\ events[i].type = "seed_updated"
                                        /\ events[i].val = x /\ events[i].at = started

\* The poller misses an event of its Miner's life only when it has already
\* processed another of the same second (created_at has seconds), or when
\* more than EventLimit events came between two polls.
MissedEventsShareASecond ==
  phase = "ready" =>
    \A i \in 1..Len(events) :
      events[i].at >= started /\ events[i].at <= after /\ i \notin seen
        => \/ \E j \in seen : events[j].at = events[i].at
           \/ Len(events) >= i + EventLimit

\* While complexity only changes between sessions and the application starts
\* one worker at a time, no session is rejected: workers submit the seeds in
\* the contract's order, with the complexity it verifies.
NoSessionRejected ==
  \A i \in 1..Len(events) : events[i].type # "rejected"

\* An event for the worker lies in a second the poller has done with
Missed(w) ==
  \E i \in 1..Len(events) : events[i].w = w /\ i \notin seen /\ events[i].at <= after

\* A submitting worker ends, and with it the wait of the next one, unless one
\* of its events is missed, the Miner is dropped or the model's seeds run out.
SubmissionEnds ==
  \A w \in Ids :
    At(w, "sending") ~> At(w, "done") \/ Missed(w) \/ phase # "ready" \/ seed = MaxSeed
=============================================================================
