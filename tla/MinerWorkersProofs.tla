------------------------- MODULE MinerWorkersProofs -------------------------
(***************************************************************************)
(* Theorems about the browser miner, for every number of workers, seeds    *)
(* and seconds and for everything the environment may do.                  *)
(***************************************************************************)
EXTENDS MinerWorkers, FiniteSetTheorems, TLAPS

-----------------------------------------------------------------------------
(* The inductive invariant behind OneSubmission.  The wait loop of         *)
(* worker::run only sees list entries, and stop() takes entries off the    *)
(* list whose futures go on running.  Such a future can never be sent a    *)
(* tap, so it never has a session to submit.                               *)

\* The types the argument needs.
Shape ==
  /\ clock \in Nat /\ seed \in Nat /\ comp \in Nat /\ inst \in Nat
  /\ wk \in [Ids -> Worker] /\ tx \in [Ids -> TxStates]
  /\ queue = [w \in Ids |-> queue[w]]
  /\ events \in Seq(Events)

\* A worker that has not run has no commands and no message; one that is off
\* the list has no commands, no taps and never waits for its turn.
WorkerOK(r, q, t) ==
  /\ r.pc \in {"none", "spawned"} => q = <<>> /\ ~r.taps /\ t = "none"
  /\ r.pc \in Active /\ ~r.listed
       => q = <<>> /\ ~r.taps /\ r.pc \in {"spawned", "choosing", "mining"}

\* Events only name workers that have sent a message.
EventsOK(ev, t) == \A i \in 1..Len(ev) : ev[i].w \in Ids => t[ev[i].w] # "none"

SubmitInv ==
  /\ Shape
  /\ \A w \in Ids : WorkerOK(wk[w], queue[w], tx[w])
  /\ EventsOK(events, tx)
  /\ OneSubmission

\* A new event of a worker that has sent a message keeps EventsOK.
LEMMA EventAppend ==
  ASSUME NEW ev \in Seq(Events), NEW e \in Events, NEW t,
         EventsOK(ev, t), e.w \in Ids => t[e.w] # "none"
  PROVE  Append(ev, e) \in Seq(Events) /\ EventsOK(Append(ev, e), t)
<1>1. \A i \in 1..Len(Append(ev, e)) : \/ i \in 1..Len(ev) /\ Append(ev, e)[i] = ev[i]
                                       \/ Append(ev, e)[i] = e
  OBVIOUS
<1> QED BY <1>1 DEF EventsOK

\* The events the contract emits are events.
LEMMA EventType ==
  ASSUME clock \in Nat, NEW t \in EventTypes, NEW w \in 0..MaxWorkers, NEW v \in Nat
  PROVE  Event(t, w, v) \in Events /\ Event(t, w, v).w = w
BY DEF Event, Events

\* A step that leaves workers and messages alone keeps the invariant.
LEMMA SubmitSame ==
  ASSUME SubmitInv, UNCHANGED <<wk, queue, tx>>,
         clock' \in Nat, seed' \in Nat, comp' \in Nat, inst' \in Nat,
         events' \in Seq(Events), EventsOK(events', tx)
  PROVE  SubmitInv'
BY DEF SubmitInv, Shape, EventsOK, OneSubmission

\* A step of one worker keeps the invariant if the worker's new state does
\* and it only starts to submit when no other worker of its Miner does.
LEMMA OneWorkerStep ==
  ASSUME SubmitInv, NEW w \in Ids,
         UNCHANGED <<clock, seed, comp, inst, events>>,
         wk' \in [Ids -> Worker], tx' \in [Ids -> TxStates],
         queue' = [v \in Ids |-> queue'[v]],
         \A v \in Ids \ {w} : wk'[v] = wk[v] /\ queue'[v] = queue[v] /\ tx'[v] = tx[v],
         WorkerOK(wk'[w], queue'[w], tx'[w]),
         tx[w] # "none" => tx'[w] # "none",
         wk'[w].pc \in Submitting =>
           \/ wk[w].pc \in Submitting /\ wk'[w].inst = wk[w].inst
           \/ \A v \in Ids \ {w} : wk[v].pc \in Submitting => wk[v].inst # wk'[w].inst
  PROVE  SubmitInv'
<1>1. Shape'
  BY DEF SubmitInv, Shape
<1>2. \A v \in Ids : WorkerOK(wk'[v], queue'[v], tx'[v])
  BY DEF SubmitInv
<1>3. EventsOK(events', tx')
  BY DEF SubmitInv, EventsOK
<1>4. OneSubmission'
  BY DEF SubmitInv, OneSubmission
<1> QED BY <1>1, <1>2, <1>3, <1>4 DEF SubmitInv

\* Entries off the list are not Submitting, so the wait loop sees every
\* Submitting worker of its Miner.
LEMMA WaitSeesAll ==
  ASSUME SubmitInv, NEW w \in Ids, MaySubmit(w), NEW v \in Ids, wk[v].pc \in Submitting
  PROVE  wk[v].inst # wk[w].inst
<1>1. WorkerOK(wk[v], queue[v], tx[v]) /\ wk[v].listed \in BOOLEAN
  BY DEF SubmitInv, Shape, Worker
<1>2. wk[v].listed
  BY <1>1 DEF WorkerOK, Active, Submitting
<1> QED BY <1>2 DEF MaySubmit, InStatus, Listed

\* A worker of the list keeps the invariant wherever it goes once it has run.
LEMMA ListedOK ==
  ASSUME NEW r \in Worker, r.listed, r.pc \notin {"none", "spawned"}, NEW q, NEW t
  PROVE  WorkerOK(r, q, t)
BY DEF WorkerOK

\* shutdown_worker keeps the invariant.
LEMMA ShutdownStep ==
  ASSUME SubmitInv, NEW w \in Ids, Shutdown(w),
         UNCHANGED <<clock, seed, comp, inst, events, tx>>
  PROVE  SubmitInv'
<1>1. wk \in [Ids -> Worker] /\ tx \in [Ids -> TxStates] /\ queue = [v \in Ids |-> queue[v]]
  BY DEF SubmitInv, Shape
<1>2. Ended(w) \in Worker /\ Ended(w).pc = "done" /\ Ended(w).listed = FALSE
  BY <1>1 DEF Ended, Worker, Pcs
<1>3. wk' \in [Ids -> Worker] /\ wk'[w] = Ended(w) /\ \A v \in Ids \ {w} : wk'[v] = wk[v]
  BY <1>1, <1>2 DEF Shutdown
<1>4. queue' = [v \in Ids |-> queue'[v]] /\ \A v \in Ids \ {w} : queue'[v] = queue[v]
  BY <1>1 DEF Shutdown
<1>5. WorkerOK(wk'[w], queue'[w], tx'[w])
  BY <1>2, <1>3 DEF WorkerOK, Active, Queued, Computing, Submitting
<1>6. wk'[w].pc \notin Submitting
  BY <1>2, <1>3 DEF Submitting
<1> QED BY <1>1, <1>3, <1>4, <1>5, <1>6, OneWorkerStep

\* Submitting, or waiting for it, keeps the invariant for a listed worker.
LEMMA SubmitRootStep ==
  ASSUME SubmitInv, NEW w \in Ids, NEW r \in Worker, SubmitRoot(w, r),
         r.listed, r.inst = wk[w].inst, wk[w].pc \in Computing,
         queue' = [v \in Ids |-> queue'[v]], \A v \in Ids \ {w} : queue'[v] = queue[v],
         UNCHANGED <<clock, seed, comp, inst, events>>
  PROVE  SubmitInv'
<1>1. wk \in [Ids -> Worker] /\ tx \in [Ids -> TxStates]
  BY DEF SubmitInv, Shape
<1>2. CASE MaySubmit(w)
  <2> DEFINE s == [r EXCEPT !.pc = "sending"]
  <2>1. s \in Worker /\ s.listed /\ s.pc = "sending" /\ s.inst = wk[w].inst
    BY DEF Worker, Pcs
  <2>2. wk' = [wk EXCEPT ![w] = s] /\ tx' = [tx EXCEPT ![w] = "submit"]
    BY <1>2 DEF SubmitRoot
  <2> HIDE DEF s
  <2>3. wk' \in [Ids -> Worker] /\ wk'[w] = s /\ \A v \in Ids \ {w} : wk'[v] = wk[v]
    BY <1>1, <2>1, <2>2
  <2>4. tx' \in [Ids -> TxStates] /\ tx'[w] = "submit" /\ \A v \in Ids \ {w} : tx'[v] = tx[v]
    BY <1>1, <2>2 DEF TxStates
  <2>5. WorkerOK(wk'[w], queue'[w], tx'[w])
    BY <2>1, <2>3, ListedOK
  <2>6. \A v \in Ids \ {w} : wk[v].pc \in Submitting => wk[v].inst # wk'[w].inst
    BY <1>2, <2>1, <2>3, WaitSeesAll
  <2> QED BY <2>3, <2>4, <2>5, <2>6, OneWorkerStep
<1>3. CASE ~MaySubmit(w)
  <2> DEFINE s == [r EXCEPT !.pc = "waiting"]
  <2>1. s \in Worker /\ s.listed /\ s.pc = "waiting"
    BY DEF Worker, Pcs
  <2>2. wk' = [wk EXCEPT ![w] = s] /\ UNCHANGED tx
    BY <1>3 DEF SubmitRoot
  <2> HIDE DEF s
  <2>3. wk' \in [Ids -> Worker] /\ wk'[w] = s /\ \A v \in Ids \ {w} : wk'[v] = wk[v]
    BY <1>1, <2>1, <2>2
  <2>4. WorkerOK(wk'[w], queue'[w], tx'[w])
    BY <2>1, <2>3, ListedOK
  <2>5. wk'[w].pc \notin Submitting
    BY <2>1, <2>3 DEF Submitting
  <2> QED BY <1>1, <2>2, <2>3, <2>4, <2>5, OneWorkerStep
<1> QED BY <1>2, <1>3

\* Receiving a command, or finding none, touches one queue.
LEMMA ReceivedQueue ==
  ASSUME queue = [v \in Ids |-> queue[v]], NEW w \in Ids, Received(w)
  PROVE  /\ queue' = [v \in Ids |-> queue'[v]]
         /\ \A v \in Ids \ {w} : queue'[v] = queue[v]
         /\ queue[w] = <<>> => queue'[w] = <<>>
BY DEF Received

\* One round of the computation loop, for the worker record.
LEMMA ComputedWorker ==
  ASSUME wk \in [Ids -> Worker], NEW w \in Ids
  PROVE  /\ Computed(w) \in Worker
         /\ Computed(w).pc = wk[w].pc /\ Computed(w).listed = wk[w].listed
         /\ Computed(w).inst = wk[w].inst
         /\ queue[w] = <<>> /\ ~wk[w].taps => ~Computed(w).taps
<1>1. wk[w] \in Worker /\ (queue[w] = <<>>) \in BOOLEAN /\ Receives(w, "tap") \in BOOLEAN
  BY DEF Receives
<1>2. (wk[w].time \/ queue[w] = <<>>) \in BOOLEAN
      /\ (wk[w].taps \/ Receives(w, "tap")) \in BOOLEAN
  OBVIOUS
<1>3. Computed(w) = [wk[w] EXCEPT !.time = wk[w].time \/ queue[w] = <<>>,
                                  !.taps = wk[w].taps \/ Receives(w, "tap")]
  BY DEF Computed
<1>4. Computed(w) \in Worker /\ Computed(w).pc = wk[w].pc
      /\ Computed(w).listed = wk[w].listed /\ Computed(w).inst = wk[w].inst
      /\ Computed(w).taps = (wk[w].taps \/ Receives(w, "tap"))
  BY <1>1, <1>2, <1>3 DEF Worker
<1> QED BY <1>4 DEF Receives

\* Moving a worker that has run keeps the invariant, unless it starts to
\* submit.
LEMMA GoToStep ==
  ASSUME SubmitInv, NEW w \in Ids, NEW r \in Worker, wk' = [wk EXCEPT ![w] = r],
         r.listed = wk[w].listed, r.inst = wk[w].inst,
         UNCHANGED <<clock, seed, comp, inst, events>>,
         tx' \in [Ids -> TxStates], \A v \in Ids \ {w} : tx'[v] = tx[v],
         tx[w] # "none" => tx'[w] # "none",
         queue' = [v \in Ids |-> queue'[v]], \A v \in Ids \ {w} : queue'[v] = queue[v],
         r.pc \notin {"none", "spawned"},
         ~r.listed => queue'[w] = <<>> /\ ~r.taps /\ r.pc \in {"choosing", "mining"},
         r.pc \in Submitting => wk[w].pc \in Submitting
  PROVE  SubmitInv'
<1>1. wk \in [Ids -> Worker]
  BY DEF SubmitInv, Shape
<1>2. wk' \in [Ids -> Worker] /\ wk'[w] = r /\ \A v \in Ids \ {w} : wk'[v] = wk[v]
  BY <1>1
<1>3. WorkerOK(wk'[w], queue'[w], tx'[w])
  BY <1>2 DEF WorkerOK
<1> QED BY <1>2, <1>3, OneWorkerStep

\* The rotation of the seed only adds an event that names no worker.
LEMMA RotateStep ==
  ASSUME clock \in Nat, seed \in Nat, NEW ev \in Seq(Events), NEW t, EventsOK(ev, t), Rotate(ev)
  PROVE  seed' \in Nat /\ events' \in Seq(Events) /\ EventsOK(events', t)
<1> DEFINE e == Event("seed_updated", 0, seed + 2)
<1>1. events' = Append(ev, e) /\ seed' = seed + 1
  BY DEF Rotate
<1>2. 0 \in 0..MaxWorkers /\ 0 \notin Ids
  BY BoundsAssumption DEF Ids
<1>3. e \in Events /\ e.w = 0
  BY <1>2, EventType DEF EventTypes
<1> HIDE DEF e
<1> QED BY <1>1, <1>2, <1>3, EventAppend

\* The contract's steps keep the invariant.
LEMMA ContractStep ==
  ASSUME SubmitInv, NEW w \in Ids, Contract(w)
  PROVE  SubmitInv'
<1>0. /\ clock \in Nat /\ seed \in Nat /\ comp \in Nat /\ inst \in Nat /\ wk \in [Ids -> Worker]
      /\ tx \in [Ids -> TxStates] /\ events \in Seq(Events) /\ EventsOK(events, tx)
      /\ queue = [v \in Ids |-> queue[v]]
      /\ \A v \in Ids : WorkerOK(wk[v], queue[v], tx[v])
      /\ OneSubmission
  BY DEF SubmitInv, Shape
<1>1. /\ tx[w] # "none" /\ tx' \in [Ids -> TxStates] /\ tx'[w] # "none"
      /\ \A v \in Ids \ {w} : tx'[v] = tx[v]
      /\ UNCHANGED <<clock, comp, inst, wk, queue>>
  BY <1>0 DEF Contract, ContractSubmit, ContractVerify, TxStates, miner, workers
<1>2. EventsOK(events, tx')
  BY <1>0, <1>1 DEF EventsOK
<1>3. w \in 0..MaxWorkers /\ 0 \in 0..MaxWorkers /\ 0 \notin Ids
  BY BoundsAssumption DEF Ids
<1>4. \A v \in Ids : WorkerOK(wk'[v], queue'[v], tx'[v])
  <2>1. WorkerOK(wk[w], queue[w], tx'[w])
    BY <1>0, <1>1 DEF WorkerOK
  <2> QED BY <1>0, <1>1, <2>1
<1>5. seed' \in Nat /\ events' \in Seq(Events) /\ EventsOK(events', tx')
  <2>1. CASE UNCHANGED <<seed, events>>
    BY <1>0, <1>2, <2>1
  <2>2. ASSUME NEW t \in EventTypes, events' = Append(events, Event(t, w, 0)), UNCHANGED seed
        PROVE  seed' \in Nat /\ events' \in Seq(Events) /\ EventsOK(events', tx')
    <3> DEFINE e == Event(t, w, 0)
    <3>1. e \in Events /\ e.w = w
      BY <1>0, <1>3, EventType
    <3> HIDE DEF e
    <3>2. events' = Append(events, e) /\ seed' \in Nat
      BY <1>0, <2>2 DEF e
    <3> QED BY <1>0, <1>1, <1>2, <3>1, <3>2, EventAppend
  <2>3. CASE Rotate(Append(events, Event("accepted", w, 0)))
    <3> DEFINE e == Event("accepted", w, 0)
               ev == Append(events, e)
    <3>1. e \in Events /\ e.w = w
      BY <1>0, <1>3, EventType DEF EventTypes
    <3>2. Rotate(ev)
      BY <2>3
    <3> HIDE DEF e
    <3>3. ev \in Seq(Events) /\ EventsOK(ev, tx')
      BY <1>0, <1>1, <1>2, <3>1, EventAppend
    <3> HIDE DEF ev
    <3> QED BY <1>0, <3>2, <3>3, RotateStep
  <2>4. CASE ContractSubmit(w)
    <3>1. \/ UNCHANGED <<seed, events>>
          \/ events' = Append(events, Event("interval", w, 0)) /\ UNCHANGED seed
      BY <2>4 DEF ContractSubmit
    <3> QED BY <2>1, <2>2, <3>1 DEF EventTypes
  <2>5. CASE ContractVerify(w)
    <3>1. \/ UNCHANGED <<seed, events>>
          \/ events' = Append(events, Event("rejected", w, 0)) /\ UNCHANGED seed
          \/ Rotate(Append(events, Event("accepted", w, 0)))
      BY <2>5 DEF ContractVerify
    <3> QED BY <2>1, <2>2, <2>3, <3>1 DEF EventTypes
  <2> QED BY <2>4, <2>5 DEF Contract
<1>6. OneSubmission'
  BY <1>0, <1>1 DEF OneSubmission
<1> QED BY <1>0, <1>1, <1>4, <1>5, <1>6 DEF SubmitInv, Shape

\* The worker's own steps keep the invariant.
LEMMA WorkerStep ==
  ASSUME SubmitInv, NEW w \in Ids, Step(w) \/ Mine(w)
  PROVE  SubmitInv'
<1>0. /\ wk \in [Ids -> Worker] /\ wk[w] \in Worker /\ tx \in [Ids -> TxStates]
      /\ queue = [v \in Ids |-> queue[v]]
      /\ WorkerOK(wk[w], queue[w], tx[w])
  BY DEF SubmitInv, Shape
<1>1. UNCHANGED <<clock, seed, comp, inst, events>>
  BY DEF Step, Run, Choose, Mine, MineEnds, Wait, TxReturns, Listen, contract, messages, miner, MinerButSeeds
<1>2. CASE Run(w)
  <2> DEFINE r == [wk[w] EXCEPT !.pc = "choosing",
                     !.inFlight = (InStatus(wk[w].inst, Submitting) \ {w} # {})]
  <2>1. wk' = [wk EXCEPT ![w] = r] /\ UNCHANGED <<tx, queue>> /\ wk[w].pc = "spawned"
    BY <1>2 DEF Run, At, messages
  <2>2. r \in Worker /\ r.pc = "choosing" /\ r.listed = wk[w].listed /\ r.inst = wk[w].inst
        /\ r.taps = wk[w].taps
    BY <1>0 DEF Worker, Pcs
  <2> HIDE DEF r
  <2>3. queue[w] = <<>> /\ ~wk[w].taps
    BY <1>0, <2>1 DEF WorkerOK
  <2>4. r.pc \notin Submitting /\ r.pc \notin {"none", "spawned"}
    BY <2>2 DEF Submitting
  <2> QED BY <1>0, <1>1, <2>1, <2>2, <2>3, <2>4, GoToStep
<1>3. CASE Choose(w)
  <2> DEFINE r == [wk[w] EXCEPT !.pc = "mining"]
  <2>1. wk' = [wk EXCEPT ![w] = r] /\ UNCHANGED <<tx, queue>> /\ wk[w].pc = "choosing"
    BY <1>3 DEF Choose, At, GoTo, messages
  <2>2. r \in Worker /\ r.pc = "mining" /\ r.listed = wk[w].listed /\ r.inst = wk[w].inst
        /\ r.taps = wk[w].taps
    BY <1>0 DEF Worker, Pcs
  <2> HIDE DEF r
  <2>3. ~wk[w].listed => queue[w] = <<>> /\ ~wk[w].taps
    BY <1>0, <2>1 DEF WorkerOK, Active, Computing
  <2>4. r.pc \notin Submitting /\ r.pc \notin {"none", "spawned"}
    BY <2>2 DEF Submitting
  <2> QED BY <1>0, <1>1, <2>1, <2>2, <2>3, <2>4, GoToStep
<1>4. CASE Mine(w)
  <2>1. wk' = [wk EXCEPT ![w] = Computed(w)] /\ Received(w) /\ UNCHANGED tx
        /\ wk[w].pc = "mining"
    BY <1>4 DEF Mine, At, messages
  <2>2. ~wk[w].listed => queue[w] = <<>> /\ ~wk[w].taps
    BY <1>0, <2>1 DEF WorkerOK, Active, Computing
  <2>3. ~Computed(w).listed => queue'[w] = <<>> /\ ~Computed(w).taps
    BY <1>0, <2>1, <2>2, ComputedWorker, ReceivedQueue
  <2>4. Computed(w).pc \notin Submitting /\ Computed(w).pc \notin {"none", "spawned"}
        /\ Computed(w).pc = "mining"
    BY <1>0, <2>1, ComputedWorker DEF Submitting
  <2> QED BY <1>0, <1>1, <2>1, <2>3, <2>4, ComputedWorker, ReceivedQueue, GoToStep
<1>5. CASE MineEnds(w)
  <2>1. CASE Shutdown(w) /\ UNCHANGED tx
    BY <1>1, <2>1, ShutdownStep
  <2>2. CASE Computed(w).taps /\ SubmitRoot(w, Computed(w)) /\ Received(w)
    <3>1. wk[w].pc = "mining"
      BY <1>5 DEF MineEnds, At
    <3>2. wk[w].listed
      <4>1. ~wk[w].listed => queue[w] = <<>> /\ ~wk[w].taps
        BY <1>0, <3>1 DEF WorkerOK, Active, Computing
      <4> QED BY <1>0, <2>2, <4>1, ComputedWorker
    <3>3. wk[w].pc \in Computing
      BY <3>1 DEF Computing
    <3> QED BY <1>0, <1>1, <2>2, <3>2, <3>3, ComputedWorker, ReceivedQueue, SubmitRootStep
  <2> QED BY <1>5, <2>1, <2>2 DEF MineEnds
<1>6. CASE Wait(w)
  <2>1. wk[w].pc = "waiting" /\ SubmitRoot(w, wk[w]) /\ UNCHANGED queue
    BY <1>6 DEF Wait, At
  <2>2. wk[w].listed /\ wk[w].pc \in Computing
    BY <1>0, <2>1 DEF WorkerOK, Active, Computing, Worker
  <2> QED BY <1>0, <1>1, <2>1, <2>2, SubmitRootStep
<1>7. ASSUME NEW pc \in {"listening", "proving"}, wk' = GoTo(w, pc), wk[w].pc \in Submitting,
             tx' \in [Ids -> TxStates], \A v \in Ids \ {w} : tx'[v] = tx[v],
             tx[w] # "none" => tx'[w] # "none",
             queue' = [v \in Ids |-> queue'[v]], \A v \in Ids \ {w} : queue'[v] = queue[v]
      PROVE  SubmitInv'
  <2> DEFINE r == [wk[w] EXCEPT !.pc = pc]
  <2>1. wk' = [wk EXCEPT ![w] = r]
    BY <1>7 DEF GoTo
  <2>2. r \in Worker /\ r.pc = pc /\ r.listed = wk[w].listed /\ r.inst = wk[w].inst
    BY <1>0, <1>7 DEF Worker, Pcs
  <2>3. wk[w].listed
    BY <1>0, <1>7 DEF WorkerOK, Active, Submitting, Worker
  <2> HIDE DEF r
  <2> QED BY <1>1, <1>7, <2>1, <2>2, <2>3, GoToStep
<1>8. CASE TxReturns(w)
  <2>1. CASE wk' = GoTo(w, "listening") /\ UNCHANGED queue
    <3>1. UNCHANGED tx /\ wk[w].pc \in Submitting
      BY <1>8 DEF TxReturns, Submitting, messages
    <3> QED BY <1>0, <1>7, <2>1, <3>1
  <2>2. CASE Shutdown(w)
    BY <1>1, <1>8, <2>2, ShutdownStep DEF TxReturns, messages
  <2> QED BY <1>8, <2>1, <2>2 DEF TxReturns, messages
<1>9. CASE Listen(w)
  <2>0. wk[w].pc = "listening" /\ wk[w].pc \in Submitting
    BY <1>9 DEF Listen, At, Submitting
  <2>1. CASE wk' = GoTo(w, "proving") /\ Received(w) /\ tx' = [tx EXCEPT ![w] = "verify"]
    <3>1. tx' \in [Ids -> TxStates] /\ tx'[w] # "none" /\ \A v \in Ids \ {w} : tx'[v] = tx[v]
      BY <1>0, <2>1 DEF TxStates
    <3> QED BY <1>0, <1>7, <2>0, <2>1, <3>1, ReceivedQueue
  <2>2. CASE Shutdown(w) /\ UNCHANGED tx
    BY <1>1, <2>2, ShutdownStep
  <2>3. CASE Received(w) /\ UNCHANGED <<wk, tx>>
    <3>1. wk' = [wk EXCEPT ![w] = wk[w]]
      BY <1>0, <2>3
    <3>2. wk[w].listed
      BY <1>0, <2>0 DEF WorkerOK, Active, Submitting, Worker
    <3> QED BY <1>0, <1>1, <2>0, <2>3, <3>1, <3>2, ReceivedQueue, GoToStep
  <2> QED BY <1>9, <2>1, <2>2, <2>3 DEF Listen
<1> QED BY <1>2, <1>3, <1>4, <1>5, <1>6, <1>8, <1>9 DEF Step

\* A step of the Miner that sends no message and lets no worker submit keeps
\* the invariant if each worker's new state does.
LEMMA ManyWorkersStep ==
  ASSUME SubmitInv, UNCHANGED <<clock, seed, comp, inst, events, tx>>,
         wk' \in [Ids -> Worker], queue' = [v \in Ids |-> queue'[v]],
         \A v \in Ids : WorkerOK(wk'[v], queue'[v], tx[v]),
         \A v \in Ids : wk'[v].pc \in Submitting
                          => wk[v].pc \in Submitting /\ wk'[v].inst = wk[v].inst
  PROVE  SubmitInv'
<1>1. Shape' /\ EventsOK(events', tx')
  BY DEF SubmitInv, Shape, EventsOK
<1>2. OneSubmission'
  BY DEF SubmitInv, OneSubmission
<1> QED BY <1>1, <1>2 DEF SubmitInv

\* A round of an event thread only finds events of workers that have sent a
\* message, and only sends commands to entries of its list.
LEMMA DeliverStep ==
  ASSUME SubmitInv, NEW m, NEW dt, Deliver(m, dt),
         UNCHANGED <<clock, seed, comp, inst, events, tx, wk>>
  PROVE  SubmitInv'
<1>1. /\ wk \in [Ids -> Worker] /\ queue = [v \in Ids |-> queue[v]] /\ EventsOK(events, tx)
      /\ \A v \in Ids : WorkerOK(wk[v], queue[v], tx[v])
  BY DEF SubmitInv, Shape
<1>2. queue' = [v \in Ids |-> queue'[v]]
      /\ \A v \in Ids : (v \in Listed(m) /\ HasEvents(v, dt)) \/ queue'[v] = queue[v]
  BY DEF Deliver
<1>3. ASSUME NEW v \in Listed(m), HasEvents(v, dt)
      PROVE  WorkerOK(wk[v], queue'[v], tx[v])
  <2>0. v \in Ids /\ wk[v].listed
    BY DEF Listed
  <2>1. tx[v] # "none"
    BY <1>1, <1>3, <2>0 DEF EventsOK, HasEvents, NewEvents
  <2>2. wk[v] \in Worker /\ wk[v].pc \notin {"none", "spawned"}
    BY <1>1, <2>0, <2>1 DEF WorkerOK
  <2> QED BY <2>0, <2>2, ListedOK
<1>4. \A v \in Ids : WorkerOK(wk'[v], queue'[v], tx[v])
  BY <1>1, <1>2, <1>3
<1> QED BY <1>1, <1>2, <1>4, ManyWorkersStep

\* The event threads of the Miner and of freed ones keep the invariant.
LEMMA PollStep == SubmitInv /\ (Poll \/ LastPoll) => SubmitInv'
<1> SUFFICES ASSUME SubmitInv, Poll \/ LastPoll PROVE SubmitInv'
  OBVIOUS
<1>1. UNCHANGED <<clock, seed, comp, inst, events, tx, wk>>
  BY DEF Poll, LastPoll, contract, messages, miner
<1>2. \E m, dt : Deliver(m, dt)
  BY DEF Poll, LastPoll
<1> QED BY <1>1, <1>2, DeliverStep

\* A new worker has no commands, no taps and has sent nothing.
LEMMA StartStep == SubmitInv /\ Start => SubmitInv'
<1> SUFFICES ASSUME SubmitInv, Start PROVE SubmitInv'
  OBVIOUS
<1>1. /\ wk \in [Ids -> Worker] /\ queue = [v \in Ids |-> queue[v]] /\ inst \in Nat
      /\ tx \in [Ids -> TxStates] /\ \A v \in Ids : WorkerOK(wk[v], queue[v], tx[v])
  BY DEF SubmitInv, Shape
<1> DEFINE r == [NoWorker EXCEPT !.pc = "spawned", !.inst = inst, !.listed = TRUE]
<1>2. PICK w \in Ids : At(w, "none") /\ wk' = [wk EXCEPT ![w] = r]
  BY DEF Start
<1>3. r \in Worker /\ r.pc = "spawned" /\ ~r.taps /\ r.listed
  BY <1>1 DEF NoWorker, Worker, Pcs
<1> HIDE DEF r
<1>4. UNCHANGED <<clock, seed, comp, inst, events, tx, queue>>
  BY DEF Start, contract, messages
<1>5. wk' \in [Ids -> Worker] /\ wk'[w] = r /\ \A v \in Ids \ {w} : wk'[v] = wk[v]
  BY <1>1, <1>2, <1>3
<1>6. queue[w] = <<>> /\ tx[w] = "none"
  BY <1>1, <1>2 DEF WorkerOK, At
<1>7. WorkerOK(wk'[w], queue'[w], tx'[w]) /\ wk'[w].pc \notin Submitting
  BY <1>3, <1>4, <1>5, <1>6 DEF WorkerOK, Submitting
<1> QED BY <1>1, <1>4, <1>5, <1>7, OneWorkerStep

\* stop() takes futures off the list that have not run, and sends a command
\* to the ones that compute.
LEMMA StopStep == SubmitInv /\ Stop => SubmitInv'
<1> SUFFICES ASSUME SubmitInv, Stop PROVE SubmitInv'
  OBVIOUS
<1>1. /\ wk \in [Ids -> Worker] /\ queue = [v \in Ids |-> queue[v]]
      /\ \A v \in Ids : WorkerOK(wk[v], queue[v], tx[v])
  BY DEF SubmitInv, Shape
<1>2. UNCHANGED <<clock, seed, comp, inst, events, tx>>
  BY DEF Stop, contract, messages, miner
<1>3. /\ wk' = [v \in Ids |-> IF v \in InStatus(inst, Queued)
                              THEN [wk[v] EXCEPT !.listed = FALSE] ELSE wk[v]]
      /\ queue' = [v \in Ids |-> IF v \in InStatus(inst, Computing)
                                 THEN Append(queue[v], "stop") ELSE queue[v]]
  BY DEF Stop
<1>4. ASSUME NEW v \in Ids
      PROVE  /\ wk'[v] \in Worker /\ WorkerOK(wk'[v], queue'[v], tx[v])
             /\ wk'[v].pc = wk[v].pc /\ wk'[v].inst = wk[v].inst
  <2>0. wk[v] \in Worker /\ WorkerOK(wk[v], queue[v], tx[v])
    BY <1>1
  <2>1. CASE v \in InStatus(inst, Queued)
    <3>1. wk[v].pc = "spawned"
      BY <2>1 DEF InStatus, Queued
    <3>2. v \notin InStatus(inst, Computing)
      BY <3>1 DEF InStatus, Computing
    <3>3. wk'[v] = [wk[v] EXCEPT !.listed = FALSE] /\ queue'[v] = queue[v]
      BY <1>3, <2>1, <3>2
    <3>4. wk'[v] \in Worker /\ wk'[v].pc = "spawned" /\ wk'[v].taps = wk[v].taps
          /\ wk'[v].inst = wk[v].inst
      BY <2>0, <3>1, <3>3 DEF Worker
    <3> QED BY <2>0, <3>1, <3>3, <3>4 DEF WorkerOK
  <2>2. CASE v \in InStatus(inst, Computing)
    <3>1. wk[v].pc \in Computing /\ wk[v].listed
      BY <2>2 DEF InStatus, Listed
    <3>2. wk'[v] = wk[v] /\ wk[v].pc \notin {"none", "spawned"}
      BY <1>3, <3>1 DEF InStatus, Queued, Computing
    <3> QED BY <2>0, <3>1, <3>2, ListedOK
  <2>3. CASE v \notin InStatus(inst, Queued) /\ v \notin InStatus(inst, Computing)
    BY <1>3, <2>0, <2>3
  <2> QED BY <2>1, <2>2, <2>3
<1>5. wk' \in [Ids -> Worker] /\ queue' = [v \in Ids |-> queue'[v]]
  BY <1>3, <1>4
<1> QED BY <1>2, <1>4, <1>5, ManyWorkersStep

\* A tap goes to a worker of the list that computes.
LEMMA AddTapStep == SubmitInv /\ AddTap => SubmitInv'
<1> SUFFICES ASSUME SubmitInv, AddTap PROVE SubmitInv'
  OBVIOUS
<1>1. /\ wk \in [Ids -> Worker] /\ queue = [v \in Ids |-> queue[v]]
      /\ \A v \in Ids : WorkerOK(wk[v], queue[v], tx[v])
  BY DEF SubmitInv, Shape
<1>2. UNCHANGED <<clock, seed, comp, inst, events, tx, wk>>
  BY DEF AddTap, contract, messages, miner
<1>3. PICK w \in Ids : wk[w].listed /\ wk[w].pc \in Computing
                       /\ queue' = [queue EXCEPT ![w] = Append(@, "tap")]
  BY DEF AddTap, InStatus, Listed
<1>4. queue' = [v \in Ids |-> queue'[v]] /\ \A v \in Ids \ {w} : queue'[v] = queue[v]
  BY <1>1, <1>3
<1>5. WorkerOK(wk[w], queue'[w], tx[w])
  BY <1>1, <1>3, ListedOK DEF Computing
<1> QED BY <1>1, <1>2, <1>4, <1>5, ManyWorkersStep

\* free() touches no worker, a reload ends them all.
LEMMA DropStep == SubmitInv /\ Drop => SubmitInv'
<1> SUFFICES ASSUME SubmitInv, Drop PROVE SubmitInv'
  OBVIOUS
<1>1. /\ wk \in [Ids -> Worker] /\ queue = [v \in Ids |-> queue[v]]
      /\ \A v \in Ids : WorkerOK(wk[v], queue[v], tx[v])
  BY DEF SubmitInv, Shape
<1>2. UNCHANGED <<clock, seed, comp, inst, events, tx>>
  BY DEF Drop, contract, messages
<1>3. CASE UNCHANGED <<wk, queue>>
  BY <1>1, <1>2, <1>3, ManyWorkersStep
<1>4. CASE /\ wk' = [w \in Ids |-> IF wk[w].pc \in Active THEN Ended(w) ELSE wk[w]]
           /\ queue' = [w \in Ids |-> <<>>]
  <2>1. ASSUME NEW v \in Ids
        PROVE  wk'[v] \in Worker /\ WorkerOK(wk'[v], queue'[v], tx[v])
               /\ wk'[v].pc \notin Submitting
    <3>0. wk[v] \in Worker /\ WorkerOK(wk[v], queue[v], tx[v]) /\ queue'[v] = <<>>
      BY <1>1, <1>4
    <3>1. CASE wk[v].pc \in Active
      <4>1. wk'[v] \in Worker /\ wk'[v].pc = "done"
        BY <1>4, <3>0, <3>1 DEF Ended, Worker, Pcs
      <4> QED BY <4>1 DEF WorkerOK, Active, Queued, Computing, Submitting
    <3>2. CASE wk[v].pc \notin Active
      <4>1. wk'[v] = wk[v]
        BY <1>4, <3>2
      <4> QED BY <3>0, <3>2, <4>1 DEF WorkerOK, Active
    <3> QED BY <3>1, <3>2
  <2>2. wk' \in [Ids -> Worker] /\ queue' = [v \in Ids |-> queue'[v]]
    BY <1>4, <2>1
  <2> QED BY <1>2, <2>1, <2>2, ManyWorkersStep
<1> QED BY <1>3, <1>4 DEF Drop, workers

\* The constructor changes no worker.
LEMMA NewStep == SubmitInv /\ (NewDetails \/ NewReady \/ NewCancelled) => SubmitInv'
<1> SUFFICES ASSUME SubmitInv, NewDetails \/ NewReady \/ NewCancelled PROVE SubmitInv'
  OBVIOUS
<1>1. /\ clock \in Nat /\ seed \in Nat /\ comp \in Nat /\ inst \in Nat
      /\ events \in Seq(Events) /\ EventsOK(events, tx)
  BY DEF SubmitInv, Shape
<1>2. UNCHANGED <<wk, queue, tx, clock, comp>> /\ inst' \in Nat
  BY <1>1 DEF NewDetails, NewReady, NewCancelled, contract, messages, workers
<1>3. UNCHANGED <<seed, events>>
  BY DEF NewDetails, NewReady, NewCancelled, contract
<1> QED BY <1>1, <1>2, <1>3, SubmitSame

\* A cancel only adds the contract's event of the rotation.
LEMMA CancelStep ==
  ASSUME SubmitInv, NEW i \in Miners, ContractCancel(i)
  PROVE  SubmitInv'
<1>1. /\ clock \in Nat /\ seed \in Nat /\ comp \in Nat /\ inst \in Nat
      /\ events \in Seq(Events) /\ EventsOK(events, tx)
  BY DEF SubmitInv, Shape
<1>2. UNCHANGED <<wk, queue, tx, clock, comp, inst>>
  BY DEF ContractCancel, miner, workers
<1>3. UNCHANGED <<seed, events>> \/ Rotate(events)
  BY DEF ContractCancel
<1>4. seed' \in Nat /\ events' \in Seq(Events) /\ EventsOK(events', tx)
  BY <1>1, <1>3, RotateStep
<1> QED BY <1>1, <1>2, <1>4, SubmitSame

\* Time and complexity change no worker.
LEMMA EnvironmentStep == SubmitInv /\ (Tick \/ ChangeComplexity \/ RemoveSeed) => SubmitInv'
<1> SUFFICES ASSUME SubmitInv, Tick \/ ChangeComplexity \/ RemoveSeed PROVE SubmitInv'
  OBVIOUS
<1>1. /\ clock \in Nat /\ seed \in Nat /\ comp \in Nat /\ inst \in Nat
      /\ events \in Seq(Events) /\ EventsOK(events, tx)
  BY DEF SubmitInv, Shape
<1>2. UNCHANGED <<wk, queue, tx, seed, inst>> /\ clock' \in Nat /\ comp' \in Nat
  <2>1. CASE Tick
    BY <1>1, <2>1 DEF Tick, contract, messages, miner, workers
  <2>2. CASE ChangeComplexity
    BY <1>1, <2>2 DEF ChangeComplexity, contract, messages, miner, workers
  <2>3. CASE RemoveSeed
    BY <1>1, <2>3 DEF RemoveSeed, contract, messages, miner, workers
  <2> QED BY <2>1, <2>2, <2>3
<1> DEFINE e == Event("complexity_updated", 0, comp + 1)
<1>3. UNCHANGED events \/ events' = Append(events, e)
  BY DEF Tick, ChangeComplexity, RemoveSeed, contract, messages
<1>4. 0 \in 0..MaxWorkers /\ 0 \notin Ids
  BY BoundsAssumption DEF Ids
<1>5. e \in Events /\ e.w = 0
  BY <1>1, <1>4, EventType DEF EventTypes
<1> HIDE DEF e
<1>6. events' \in Seq(Events) /\ EventsOK(events', tx)
  BY <1>1, <1>3, <1>4, <1>5, EventAppend
<1> QED BY <1>1, <1>2, <1>6, SubmitSame

-----------------------------------------------------------------------------
\* The invariant holds initially.
LEMMA SubmitInit == Init => SubmitInv
<1> SUFFICES ASSUME Init PROVE SubmitInv
  OBVIOUS
<1>1. NoWorker \in Worker /\ NoWorker.pc = "none" /\ ~NoWorker.taps
  BY DEF NoWorker, Worker, Pcs
<1>2. \A w \in Ids : wk[w] = NoWorker /\ queue[w] = <<>> /\ tx[w] = "none"
  BY DEF Init
<1>3. Shape
  BY <1>1 DEF Init, Shape, TxStates
<1>4. ASSUME NEW w \in Ids
      PROVE  WorkerOK(wk[w], queue[w], tx[w])
  <2>1. wk[w].pc = "none" /\ ~wk[w].taps /\ queue[w] = <<>> /\ tx[w] = "none"
    BY <1>1, <1>2
  <2> QED BY <2>1 DEF WorkerOK, Active, Queued, Computing, Submitting
<1>5. EventsOK(events, tx)
  BY DEF Init, EventsOK
<1>6. OneSubmission
  BY <1>1, <1>2 DEF OneSubmission, Submitting
<1> QED BY <1>3, <1>4, <1>5, <1>6 DEF SubmitInv

\* Every step keeps the invariant.
LEMMA SubmitStep == SubmitInv /\ [Next]_vars => SubmitInv'
<1> SUFFICES ASSUME SubmitInv, [Next]_vars PROVE SubmitInv'
  OBVIOUS
<1>1. CASE UNCHANGED vars
  BY <1>1 DEF SubmitInv, Shape, OneSubmission, vars, contract, messages, miner, workers
<1>2. CASE Next
  BY <1>2, ContractStep, CancelStep, WorkerStep, PollStep, StartStep, StopStep, AddTapStep,
     DropStep, NewStep, EnvironmentStep DEF Next
<1> QED BY <1>1, <1>2

\* Of one Miner's workers at most one is between submit_session and its
\* result, whatever the page does: worker.rs "Wait if there is any worker
\* with status `Submitting`" holds although stop() hides running futures.
THEOREM OneSubmissionAlways == Spec => []OneSubmission
<1>1. SubmitInv => OneSubmission
  BY DEF SubmitInv
<1> QED BY <1>1, SubmitInit, SubmitStep, PTL DEF Spec

-----------------------------------------------------------------------------
(* The poller.  after_dt is the newest event's time, and events come in the *)
(* order of their times: what the poller has not seen although it is not    *)
(* later than after_dt shares a second with an event it has seen.           *)

\* Events are in the order of their times, none is in the future.
EventTimes ==
  /\ \A i \in 1..Len(events) : events[i].at <= clock
  /\ \A i, j \in 1..Len(events) : i <= j => events[i].at <= events[j].at

\* after_dt is the time of a processed event, or what Miner::new took.
PollerOK ==
  /\ started \in Nat /\ after \in Int
  /\ started <= clock /\ after <= clock
  /\ seen \subseteq 1..Len(events)
  /\ after < started \/ \E j \in seen : events[j].at = after

\* An event the poller has missed, and why.
Excused(i) ==
  events[i].at >= started /\ events[i].at <= after /\ i \notin seen
    => \/ \E j \in seen : events[j].at = events[i].at
       \/ Len(events) >= i + EventLimit

PollInv ==
  /\ EventTimes
  /\ phase \in {"cancelling", "ready"} => PollerOK /\ \A i \in 1..Len(events) : Excused(i)

\* ev2 continues ev with events of this second.
Continues(ev, ev2) ==
  /\ Len(ev) <= Len(ev2)
  /\ \A i \in 1..Len(ev) : ev2[i] = ev[i]
  /\ \A i \in 1..Len(ev2) : i > Len(ev) => ev2[i].at = clock

LEMMA EventsTyped ==
  ASSUME SubmitInv
  PROVE  /\ clock \in Nat /\ events \in Seq(Events) /\ Len(events) \in Nat
         /\ EventLimit \in Nat /\ EventLimit >= 1
         /\ \A i \in 1..Len(events) : events[i].at \in Nat
<1>1. clock \in Nat /\ events \in Seq(Events) /\ Len(events) \in Nat
  BY DEF SubmitInv, Shape
<1>2. \A i \in 1..Len(events) : events[i] \in Events
  BY <1>1
<1>3. \A i \in 1..Len(events) : events[i].at \in Nat
  BY <1>2 DEF Events
<1> QED BY <1>1, <1>3, BoundsAssumption

\* One event continues the events.
LEMMA AppendContinues ==
  ASSUME NEW ev \in Seq(Events), NEW ev2 \in Seq(Events), Continues(ev, ev2),
         NEW e \in Events, e.at = clock
  PROVE  Continues(ev, Append(ev2, e))
<1>1. /\ Len(ev) \in Nat /\ Len(ev2) \in Nat /\ Len(Append(ev2, e)) = Len(ev2) + 1
      /\ Append(ev2, e)[Len(ev2) + 1] = e
      /\ \A i \in 1..Len(ev2) : Append(ev2, e)[i] = ev2[i]
  OBVIOUS
<1>2. \A i \in 1..(Len(ev2) + 1) : i \in 1..Len(ev2) \/ i = Len(ev2) + 1
  BY <1>1
<1>3. \A i \in 1..Len(ev) : i \in 1..Len(ev2)
  BY <1>1 DEF Continues
<1> QED BY <1>1, <1>2, <1>3 DEF Continues

\* What a step does to the events: only time passes, or the contract adds
\* events of this second.
LEMMA EventStep ==
  ASSUME SubmitInv, [Next]_vars
  PROVE  Continues(events, events')
<1> USE BoundsAssumption
<1>0. clock \in Nat /\ seed \in Nat /\ comp \in Nat /\ events \in Seq(Events) /\ Len(events) \in Nat
  BY DEF SubmitInv, Shape
<1>1. Continues(events, events)
  BY <1>0 DEF Continues
<1>2. ASSUME NEW t \in EventTypes, NEW w \in 0..MaxWorkers, NEW v \in Nat
      PROVE  Event(t, w, v) \in Events /\ Event(t, w, v).at = clock
  BY <1>0, <1>2 DEF Event, Events
<1>3. \A w \in Ids : w \in 0..MaxWorkers
  BY DEF Ids
<1>4. CASE events' = events
  BY <1>1, <1>4
<1>5. ASSUME NEW e \in Events, e.at = clock, events' = Append(events, e)
      PROVE  Continues(events, events')
  BY <1>0, <1>1, <1>5, AppendContinues
<1>6. ASSUME NEW ev \in Seq(Events), Continues(events, ev), Rotate(ev)
      PROVE  Continues(events, events')
  <2> DEFINE e == Event("seed_updated", 0, seed + 2)
  <2>1. e \in Events /\ e.at = clock
    BY <1>0, <1>2 DEF EventTypes
  <2>2. events' = Append(ev, e)
    BY <1>6 DEF Rotate
  <2> HIDE DEF e
  <2> QED BY <1>0, <1>6, <2>1, <2>2, AppendContinues
<1>7. ASSUME NEW w \in Ids, Contract(w) PROVE Continues(events, events')
  <2> DEFINE e(t) == Event(t, w, 0)
  <2>1. \A t \in EventTypes : e(t) \in Events /\ e(t).at = clock
    BY <1>2, <1>3
  <2>2. \/ events' = events
        \/ \E t \in EventTypes : events' = Append(events, e(t))
        \/ Rotate(Append(events, e("accepted")))
    BY <1>7 DEF Contract, ContractSubmit, ContractVerify, EventTypes
  <2> HIDE DEF e
  <2>3. "accepted" \in EventTypes
    BY DEF EventTypes
  <2>4. Append(events, e("accepted")) \in Seq(Events) /\ Continues(events, Append(events, e("accepted")))
    BY <1>0, <1>1, <2>1, <2>3, AppendContinues
  <2> QED BY <1>4, <1>5, <1>6, <2>1, <2>2, <2>4
<1>8. CASE ChangeComplexity
  <2> DEFINE e == Event("complexity_updated", 0, comp + 1)
  <2>1. e \in Events /\ e.at = clock
    BY <1>0, <1>2 DEF EventTypes
  <2>2. events' = Append(events, e)
    BY <1>8 DEF ChangeComplexity
  <2> HIDE DEF e
  <2> QED BY <1>5, <2>1, <2>2
<1>9. ASSUME NEW i \in Miners, ContractCancel(i) PROVE Continues(events, events')
  <2>1. events' = events \/ Rotate(events)
    BY <1>9 DEF ContractCancel
  <2> QED BY <1>0, <1>1, <1>4, <1>6, <2>1
<1>10. ASSUME NEW w \in Ids, Step(w) \/ Mine(w) PROVE events' = events
  BY <1>10 DEF Step, Run, Choose, MineEnds, Mine, Wait, TxReturns, Listen, contract, messages
<1>11. CASE Tick \/ NewDetails \/ NewReady \/ NewCancelled \/ Poll \/ LastPoll \/ Start \/ Stop
            \/ AddTap \/ RemoveSeed \/ Drop \/ UNCHANGED vars
  <2>1. events' = events
    BY <1>11 DEF Tick, NewDetails, NewReady, NewCancelled, Poll, LastPoll, Start, Stop, AddTap, RemoveSeed, Drop, vars, contract, messages
  <2> QED BY <1>4, <2>1
<1> QED BY <1>4, <1>7, <1>8, <1>9, <1>10, <1>11 DEF Next

\* A step other than the poller's and the constructor's leaves the poller
\* alone and does not make the Miner ready.
LEMMA PollerStep ==
  ASSUME [Next]_vars, ~Poll, ~NewReady
  PROVE  /\ UNCHANGED <<after, started, seen>>
         /\ phase' \in {"cancelling", "ready"} => phase \in {"cancelling", "ready"}
         /\ clock' = clock \/ Tick
<1>1. ASSUME NEW w \in Ids, Contract(w)
      PROVE  UNCHANGED <<after, started, seen, phase, clock>>
  BY <1>1 DEF Contract, ContractSubmit, ContractVerify, miner
<1>1a. ASSUME NEW i \in Miners, ContractCancel(i)
       PROVE  UNCHANGED <<after, started, seen, phase, clock>>
  BY <1>1a DEF ContractCancel, miner
<1>2. ASSUME NEW w \in Ids, Step(w) \/ Mine(w)
      PROVE  UNCHANGED <<after, started, seen, phase, clock>>
  BY <1>2 DEF Step, Run, Choose, MineEnds, Mine, Wait, TxReturns, Listen, miner, MinerButSeeds
<1>3. CASE Tick \/ ChangeComplexity \/ LastPoll \/ Start \/ Stop \/ AddTap \/ RemoveSeed
           \/ UNCHANGED vars
  <2>1. UNCHANGED <<after, started, seen, phase>> /\ (clock' = clock \/ Tick)
    BY <1>3 DEF Tick, ChangeComplexity, LastPoll, Start, Stop, AddTap, RemoveSeed, vars, miner
  <2> QED BY <2>1
<1>4. CASE NewDetails \/ NewCancelled \/ Drop
  BY <1>4 DEF NewDetails, NewCancelled, Drop
<1> QED BY <1>1, <1>1a, <1>2, <1>3, <1>4 DEF Next

\* Events stay in order, and so does time.
LEMMA TimesStep == SubmitInv /\ EventTimes /\ [Next]_vars => EventTimes'
<1> SUFFICES ASSUME SubmitInv, EventTimes, [Next]_vars PROVE EventTimes'
  OBVIOUS
<1>1. Continues(events, events')
  BY EventStep
<1>2. SubmitInv'
  BY SubmitStep
<1>3. clock' \in Nat /\ clock <= clock'
  <2>1. clock' = clock \/ clock' = clock + 1
    <3>1. CASE Poll \/ NewReady
      BY <3>1 DEF Poll, NewReady
    <3>2. CASE ~Poll /\ ~NewReady
      BY <3>2, PollerStep DEF Tick
    <3> QED BY <3>1, <3>2
  <2> QED BY <2>1, EventsTyped
<1>4. /\ Len(events) \in Nat /\ Len(events') \in Nat /\ clock \in Nat
      /\ \A i \in 1..Len(events) : events[i].at \in Nat
      /\ \A i \in 1..Len(events') : events'[i].at \in Nat
  <2>1. events' \in Seq(Events) /\ Len(events') \in Nat
    BY <1>2 DEF SubmitInv, Shape
  <2>2. \A i \in 1..Len(events') : events'[i] \in Events
    BY <2>1
  <2>3. \A i \in 1..Len(events') : events'[i].at \in Nat
    BY <2>2 DEF Events
  <2> QED BY <2>1, <2>3, EventsTyped
<1>5. \A i \in 1..Len(events') :
         \/ i \in 1..Len(events) /\ events'[i].at = events[i].at
         \/ i > Len(events) /\ events'[i].at = clock
  BY <1>1, <1>4 DEF Continues
<1>6. \A i \in 1..Len(events') : events'[i].at <= clock
  BY <1>4, <1>5 DEF EventTimes
<1>7. ASSUME NEW i \in 1..Len(events'), NEW j \in 1..Len(events'), i <= j
      PROVE  events'[i].at <= events'[j].at
  <2>1. CASE j \in 1..Len(events)
    <3>1. i \in 1..Len(events) /\ events'[i] = events[i] /\ events'[j] = events[j]
      BY <1>1, <1>4, <1>7, <2>1 DEF Continues
    <3> QED BY <1>7, <2>1, <3>1 DEF EventTimes
  <2>2. CASE j > Len(events)
    BY <1>5, <1>6, <2>2, <1>4
  <2> QED BY <1>4, <2>1, <2>2
<1>8. \A i \in 1..Len(events') : events'[i].at <= clock'
  BY <1>3, <1>4, <1>6
<1> QED BY <1>7, <1>8 DEF EventTimes

\* New events, which are of this second, are excused if they are missed.
LEMMA FeedStep ==
  ASSUME SubmitInv, EventTimes, PollerOK, \A i \in 1..Len(events) : Excused(i),
         [Next]_vars, UNCHANGED <<after, started, seen>>, clock' \in Nat, clock <= clock'
  PROVE  PollerOK' /\ \A i \in 1..Len(events') : Excused(i)'
<1>1. Continues(events, events')
  BY EventStep
<1>2. /\ Len(events) \in Nat /\ clock \in Nat /\ EventLimit \in Nat
      /\ \A i \in 1..Len(events) : events[i].at \in Nat
  BY EventsTyped
<1>3. Len(events') \in Nat
  BY SubmitStep, EventsTyped
<1>4. \A j \in seen : j \in 1..Len(events) /\ events'[j] = events[j]
  BY <1>1 DEF Continues, PollerOK
<1>5. PollerOK'
  <2>1. seen \subseteq 1..Len(events')
    BY <1>1, <1>2, <1>3 DEF PollerOK, Continues
  <2>2. started <= clock' /\ after <= clock'
    BY <1>2 DEF PollerOK
  <2>3. after < started \/ \E j \in seen : events'[j].at = after
    BY <1>4 DEF PollerOK
  <2> QED BY <2>1, <2>2, <2>3 DEF PollerOK
<1>6. ASSUME NEW i \in 1..Len(events') PROVE Excused(i)'
  <2>1. CASE i \in 1..Len(events)
    <3>1. Excused(i) /\ events'[i] = events[i] /\ i \in Int
      BY <1>1, <2>1 DEF Continues
    <3>2. Len(events) <= Len(events')
      BY <1>1 DEF Continues
    <3>3. Len(events) >= i + EventLimit => Len(events') >= i + EventLimit
      BY <1>2, <1>3, <3>1, <3>2
    <3> QED BY <1>4, <3>1, <3>3 DEF Excused
  <2>2. CASE i > Len(events)
    <3>1. events'[i].at = clock
      BY <1>1, <2>2 DEF Continues
    <3> SUFFICES ASSUME clock >= started, clock <= after
                 PROVE  \E j \in seen : events'[j].at = clock
      BY <3>1 DEF Excused
    <3>2. after = clock /\ ~(after < started)
      BY <1>2 DEF PollerOK
    <3> QED BY <1>4, <3>2 DEF PollerOK
  <2> QED BY <1>2, <1>3, <2>1, <2>2
<1> QED BY <1>5, <1>6

\* A poll that finds events moves after_dt to the time of the last one.
LEMMA PolledTo ==
  ASSUME SubmitInv, EventTimes, after \in Int, NewEvents(after) # {}
  PROVE  /\ Len(events) \in NewEvents(after) /\ AfterDt = events[Len(events)].at
<1>1. /\ Len(events) \in Nat /\ EventLimit \in Nat /\ EventLimit >= 1
      /\ \A i \in 1..Len(events) : events[i].at \in Nat
  BY EventsTyped
<1>2. PICK i \in 1..Len(events) : events[i].at > after
  BY DEF NewEvents
<1>3. Len(events) \in 1..Len(events) /\ i <= Len(events)
  BY <1>1
<1>4. events[i].at <= events[Len(events)].at
  BY <1>3 DEF EventTimes
<1>5. events[Len(events)].at > after
  BY <1>1, <1>2, <1>3, <1>4
<1>6. Len(events) + EventLimit > Len(events)
  BY <1>1
<1>7. Len(events) \in NewEvents(after)
  BY <1>3, <1>5, <1>6 DEF NewEvents
<1> DEFINE S == {events[k].at : k \in NewEvents(after)}
           m == events[Len(events)].at
<1>8. \A k \in NewEvents(after) : events[k].at <= m /\ events[k].at \in Nat /\ m \in Nat
  BY <1>1, <1>3 DEF NewEvents, EventTimes
<1>9. m \in S /\ \A y \in S : m >= y /\ y \in Nat
  BY <1>7, <1>8
<1>10. AfterDt = Max(S)
  BY DEF AfterDt
<1>11. m \in Nat
  BY <1>9
<1> HIDE DEF S, m
<1>12. Max(S) = m
  <2>1. \A x \in S : (\A y \in S : x >= y) => x = m
    <3> SUFFICES ASSUME NEW x \in S, \A y \in S : x >= y PROVE x = m
      OBVIOUS
    <3>1. x >= m /\ m >= x /\ x \in Nat
      BY <1>9
    <3> QED BY <1>11, <3>1
  <2>2. \E x \in S : \A y \in S : x >= y
    BY <1>9
  <2> QED BY <2>1, <2>2 DEF Max
<1> QED BY <1>7, <1>10, <1>12 DEF m

\* A poll keeps what the poller knows: what it leaves out is older than the
\* newest EventLimit events, or was not later than the previous after_dt.
LEMMA PollMisses ==
  ASSUME SubmitInv, EventTimes, PollerOK, \A i \in 1..Len(events) : Excused(i), Poll
  PROVE  PollerOK' /\ \A i \in 1..Len(events') : Excused(i)'
<1>1. /\ UNCHANGED <<clock, events, started>>
      /\ after' = AfterDt /\ seen' = seen \cup NewEvents(after) /\ NewEvents(after) # {}
  BY DEF Poll, contract, messages
<1>2. /\ Len(events) \in Nat /\ clock \in Nat /\ EventLimit \in Nat
      /\ \A i \in 1..Len(events) : events[i].at \in Nat
  BY EventsTyped
<1>3. Len(events) \in NewEvents(after) /\ after' = events[Len(events)].at
  BY <1>1, PolledTo DEF PollerOK
<1>4. Len(events) \in 1..Len(events) /\ NewEvents(after) \subseteq 1..Len(events)
  BY <1>3 DEF NewEvents
<1>5. PollerOK'
  <2>1. after' \in Int /\ after' <= clock
    BY <1>2, <1>3, <1>4 DEF EventTimes
  <2>2. \E j \in seen' : events[j].at = after'
    BY <1>1, <1>3
  <2> QED BY <1>1, <1>4, <2>1, <2>2 DEF PollerOK
<1>6. ASSUME NEW i \in 1..Len(events) PROVE Excused(i)'
  <2>1. Excused(i) /\ events[i].at \in Nat /\ i \in Nat /\ after \in Int
    BY <1>2 DEF PollerOK
  <2>2. CASE events[i].at <= after
    BY <1>1, <2>1, <2>2 DEF Excused
  <2>3. CASE events[i].at > after /\ i \notin NewEvents(after)
    <3>1. ~(i + EventLimit > Len(events))
      BY <2>3 DEF NewEvents
    <3>2. Len(events) >= i + EventLimit
      BY <1>2, <2>1, <3>1
    <3> QED BY <1>1, <3>2 DEF Excused
  <2>4. CASE i \in NewEvents(after)
    BY <1>1, <2>4 DEF Excused
  <2> QED BY <2>1, <2>2, <2>3, <2>4
<1> QED BY <1>1, <1>5, <1>6

LEMMA PollInvStep == SubmitInv /\ PollInv /\ [Next]_vars => PollInv'
<1> SUFFICES ASSUME SubmitInv, PollInv, [Next]_vars PROVE PollInv'
  OBVIOUS
<1>1. EventTimes'
  BY TimesStep DEF PollInv
<1>2. clock \in Nat /\ \A i \in 1..Len(events) : events[i].at \in Nat
  BY EventsTyped
<1>3. CASE NewReady
  <2>1. UNCHANGED <<clock, events>> /\ started' = clock /\ after' = clock - 1 /\ seen' = {}
    BY <1>3 DEF NewReady, contract, messages
  <2>2. PollerOK'
    BY <1>2, <2>1 DEF PollerOK
  <2>3. ASSUME NEW i \in 1..Len(events) PROVE Excused(i)'
    <3>1. ~(events[i].at >= clock /\ events[i].at <= clock - 1)
      BY <1>2
    <3> QED BY <2>1, <3>1 DEF Excused
  <2> QED BY <1>1, <2>1, <2>2, <2>3 DEF PollInv
<1>4. CASE Poll
  <2>1. phase = "ready"
    BY <1>4 DEF Poll
  <2> QED BY <1>1, <1>4, <2>1, PollMisses DEF PollInv
<1>5. CASE ~Poll /\ ~NewReady
  <2>1. /\ UNCHANGED <<after, started, seen>>
        /\ phase' \in {"cancelling", "ready"} => phase \in {"cancelling", "ready"}
        /\ clock' = clock \/ clock' = clock + 1
    BY <1>5, PollerStep DEF Tick
  <2>2. clock' \in Nat /\ clock <= clock'
    BY <1>2, <2>1
  <2> SUFFICES ASSUME phase' \in {"cancelling", "ready"}
               PROVE  PollerOK' /\ \A i \in 1..Len(events') : Excused(i)'
    BY <1>1 DEF PollInv
  <2>3. PollerOK /\ EventTimes /\ \A i \in 1..Len(events) : Excused(i)
    BY <2>1 DEF PollInv
  <2> QED BY <2>1, <2>2, <2>3, FeedStep
<1> QED BY <1>3, <1>4, <1>5

\* The event thread misses an event of its Miner's life only if it shares its
\* second with a processed one, or if more than EventLimit events came between
\* two polls (get_miner_events).
THEOREM MissedEventsAlways == Spec => []MissedEventsShareASecond
<1>1. Init => PollInv
  BY DEF Init, PollInv, EventTimes
<1>2. PollInv => MissedEventsShareASecond
  BY DEF PollInv, Excused, MissedEventsShareASecond
<1> QED BY <1>1, <1>2, SubmitInit, SubmitStep, PollInvStep, PTL DEF Spec
-----------------------------------------------------------------------------
(* The seeds.  They come to the queue from get_details and from polled      *)
(* SeedUpdated events, leave it for a worker and return to it when the      *)
(* worker has nothing to submit.                                            *)

\* Nth enumerates a set of places.
LEMMA NthIs ==
  ASSUME NEW n \in Nat, NEW I \in SUBSET (1..n)
  PROVE  /\ Cardinality(I) \in Nat
         /\ \A k \in 1..Cardinality(I) : Nth(I, k) \in I
         /\ \A j, k \in 1..Cardinality(I) : Nth(I, j) = Nth(I, k) => j = k
<1> DEFINE Up(i) == {j \in I : j <= i}
           N == Cardinality(I)
           rank == [i \in I |-> Cardinality(Up(i))]
<1>1. IsFiniteSet(1..n)
  BY FS_Interval
<1>2. IsFiniteSet(I) /\ N \in Nat
  BY <1>1, FS_Subset, FS_CardinalityType
<1>3. ASSUME NEW i \in I
      PROVE  IsFiniteSet(Up(i)) /\ Cardinality(Up(i)) \in 1..N
  <2>1. Up(i) \in SUBSET I /\ i \in Up(i)
    OBVIOUS
  <2>2. IsFiniteSet(Up(i)) /\ Cardinality(Up(i)) <= N /\ Cardinality(Up(i)) \in Nat
    BY <1>2, <2>1, FS_Subset, FS_CardinalityType
  <2>3. Cardinality(Up(i)) # 0
    BY <2>1, <2>2, FS_EmptySet
  <2> QED BY <1>2, <2>2, <2>3
<1>4. ASSUME NEW i \in I, NEW j \in I, i < j
      PROVE  Cardinality(Up(i)) # Cardinality(Up(j))
  <2>1. Up(i) \in SUBSET Up(j) /\ j \in Up(j) /\ j \notin Up(i)
    <3>1. \A k \in I : k \in Int
      OBVIOUS
    <3>2. \A k \in I : k <= i => k <= j
      BY <1>4, <3>1
    <3>3. j <= j /\ ~(j <= i)
      BY <1>4, <3>1
    <3>4. \A k \in Up(i) : k \in Up(j)
      BY <3>2
    <3> QED BY <3>3, <3>4
  <2>2. IsFiniteSet(Up(j))
    BY <1>3
  <2> QED BY <2>1, <2>2, FS_Subset
<1>5. rank \in [I -> 1..N] /\ \A i \in I : rank[i] = Cardinality(Up(i))
  BY <1>3
<1> HIDE DEF Up, N
<1>6. \A i, j \in I : rank[i] = rank[j] => i = j
  <2>1. \A i, j \in I : i < j \/ j < i \/ i = j
    OBVIOUS
  <2> QED BY <1>4, <1>5, <2>1
<1> HIDE DEF rank
<1>7. rank \in Injection(I, 1..N)
  BY <1>5, <1>6 DEF Injection, IsInjective
<1>8. IsFiniteSet(1..N) /\ Cardinality(1..N) = N
  BY <1>2, FS_Interval
<1>9. rank \in Surjection(I, 1..N)
  BY <1>7, <1>8, FS_Injection DEF N
<1>10. \A k \in 1..N : \E i \in I : Cardinality(Up(i)) = k
  BY <1>5, <1>9 DEF Surjection
<1>11. \A k \in 1..N : Nth(I, k) \in I /\ Cardinality(Up(Nth(I, k))) = k
  BY <1>10 DEF Nth, Up
<1> QED BY <1>2, <1>11 DEF N

\* A seed the Miner knows: get_details reported it or a processed
\* SeedUpdated event carried it.
Known(ev, sn, d, x) ==
  x = d \/ x = d + 1 \/ \E i \in sn : ev[i].type = "seed_updated" /\ ev[i].val = x

\* A seed that was reported both ways.
Twice(ev, sn, d, st, x) ==
  /\ x <= d + 1
  /\ \E i \in sn : ev[i].type = "seed_updated" /\ ev[i].val = x /\ ev[i].at = st

\* The workers of this Miner whose futures run.
Mines(w) == wk[w].pc \in Active /\ wk[w].inst = inst

\* The contract hands seeds out in order, up to the one after the current.
Rotations ==
  /\ \A i \in 1..Len(events) : events[i].type = "seed_updated" => events[i].val <= seed + 1
  /\ \A i, j \in 1..Len(events) :
       events[i].type = "seed_updated" /\ events[j].type = "seed_updated" /\ i < j
         => events[i].val < events[j].val

\* What get_details reported was handed out before events_after_dt was taken.
Reported ==
  \A i \in 1..Len(events) :
    events[i].type = "seed_updated" /\ events[i].val <= details.seed + 1
      => events[i].at <= started

\* What the poller has processed is not later than after_dt.
Processed == after >= started - 1 /\ \A i \in seen : events[i].at <= after

\* The queue and the workers hold seeds the Miner knows, each once.
Held ==
  /\ \A k \in 1..Len(seeds) : Known(events, seen, details.seed, seeds[k])
  /\ \A w \in Ids : Mines(w) => Known(events, seen, details.seed, job[w].seed)
  /\ \A j, k \in 1..Len(seeds) :
       j # k /\ seeds[j] = seeds[k] => Twice(events, seen, details.seed, started, seeds[j])
  /\ \A v, w \in Ids :
       v # w /\ Mines(v) /\ Mines(w) /\ job[v].seed = job[w].seed
         => Twice(events, seen, details.seed, started, job[v].seed)
  /\ \A k \in 1..Len(seeds), w \in Ids :
       Mines(w) /\ seeds[k] = job[w].seed => Twice(events, seen, details.seed, started, seeds[k])

HeldTypes ==
  /\ seeds \in Seq(Nat) /\ details.seed \in Nat
  /\ job = [w \in Ids |-> [seed |-> job[w].seed, comp |-> job[w].comp]]
  /\ \A w \in Ids : job[w].seed \in Nat
  /\ \A w \in Ids : wk[w].inst <= inst

HeldInv ==
  /\ HeldTypes
  /\ Rotations
  /\ phase # "down" => details.seed <= seed
  /\ phase \in {"cancelling", "ready"} => Reported /\ Processed
  /\ phase = "cancelling" => \A w \in Ids : ~Mines(w)
  /\ phase = "ready" => Held

\* The seed only moves with the SeedUpdated event that names the one after it.
LEMMA SeedEvent ==
  ASSUME SubmitInv, [Next]_vars
  PROVE  /\ seed' = seed \/ seed' = seed + 1
         /\ \A i \in 1..Len(events') :
              i > Len(events) /\ events'[i].type = "seed_updated"
                => i = Len(events') /\ events'[i].val = seed + 2 /\ seed' = seed + 1
<1> USE BoundsAssumption
<1>0. clock \in Nat /\ seed \in Nat /\ comp \in Nat /\ events \in Seq(Events) /\ Len(events) \in Nat
  BY DEF SubmitInv, Shape
<1> DEFINE Goal == /\ seed' = seed \/ seed' = seed + 1
                   /\ \A i \in 1..Len(events') :
                        i > Len(events) /\ events'[i].type = "seed_updated"
                          => i = Len(events') /\ events'[i].val = seed + 2 /\ seed' = seed + 1
<1>1. CASE UNCHANGED <<seed, events>>
  BY <1>0, <1>1
<1>2. ASSUME NEW e, e.type # "seed_updated", events' = Append(events, e), seed' = seed
      PROVE  Goal
  <2>1. Len(events') = Len(events) + 1 /\ events'[Len(events) + 1] = e
    BY <1>0, <1>2
  <2> QED BY <1>0, <1>2, <2>1
<1>3. CASE Rotate(events)
  <2> DEFINE e == Event("seed_updated", 0, seed + 2)
  <2>1. e.val = seed + 2
    BY DEF Event
  <2>2. events' = Append(events, e) /\ seed' = seed + 1
    BY <1>3 DEF Rotate
  <2> HIDE DEF e
  <2>3. Len(events') = Len(events) + 1 /\ events'[Len(events) + 1] = e
    BY <1>0, <2>2
  <2> QED BY <1>0, <2>1, <2>2, <2>3
<1>4. ASSUME NEW w \in Ids, Rotate(Append(events, Event("accepted", w, 0)))
      PROVE  Goal
  <2> DEFINE e == Event("seed_updated", 0, seed + 2)
             a == Event("accepted", w, 0)
  <2>1. e.val = seed + 2 /\ a.type = "accepted"
    BY DEF Event
  <2>2. events' = Append(Append(events, a), e) /\ seed' = seed + 1
    BY <1>4 DEF Rotate
  <2> HIDE DEF e, a
  <2>3. /\ Len(events') = Len(events) + 2 /\ events'[Len(events) + 2] = e
        /\ events'[Len(events) + 1] = a
    BY <1>0, <2>2
  <2>4. \A i \in 1..Len(events') : i > Len(events) => i = Len(events) + 1 \/ i = Len(events) + 2
    BY <1>0, <2>3
  <2>5. a.type # "seed_updated"
    BY <2>1
  <2> QED BY <1>0, <2>1, <2>2, <2>3, <2>4, <2>5
<1>5. ASSUME NEW w \in Ids, Contract(w) PROVE Goal
  <2> DEFINE e(t) == Event(t, w, 0)
  <2>1. \A t : e(t).type = t
    BY DEF Event
  <2>2. \/ UNCHANGED <<seed, events>>
        \/ \E t \in {"interval", "rejected"} : events' = Append(events, e(t)) /\ seed' = seed
        \/ Rotate(Append(events, e("accepted")))
    BY <1>5 DEF Contract, ContractSubmit, ContractVerify
  <2>3. \A t \in {"interval", "rejected"} : e(t).type # "seed_updated"
    BY <2>1
  <2> QED BY <1>1, <1>2, <1>4, <2>2, <2>3
<1>6. CASE ChangeComplexity
  <2> DEFINE e == Event("complexity_updated", 0, comp + 1)
  <2>1. e.type # "seed_updated"
    BY DEF Event
  <2>2. events' = Append(events, e) /\ seed' = seed
    BY <1>6 DEF ChangeComplexity
  <2> HIDE DEF e
  <2> QED BY <1>2, <2>1, <2>2
<1>7. ASSUME NEW i \in Miners, ContractCancel(i) PROVE Goal
  <2>1. UNCHANGED <<seed, events>> \/ Rotate(events)
    BY <1>7 DEF ContractCancel
  <2> QED BY <1>1, <1>3, <2>1
<1>8. ASSUME NEW w \in Ids, Step(w) \/ Mine(w) PROVE Goal
  <2>1. UNCHANGED <<seed, events>>
    BY <1>8 DEF Step, Run, Choose, MineEnds, Mine, Wait, TxReturns, Listen, contract, messages
  <2> QED BY <1>1, <2>1
<1>9. CASE Tick \/ NewDetails \/ NewReady \/ NewCancelled \/ Poll \/ LastPoll \/ Start \/ Stop
           \/ AddTap \/ RemoveSeed \/ Drop \/ UNCHANGED vars
  <2>1. UNCHANGED <<seed, events>>
    BY <1>9 DEF Tick, NewDetails, NewReady, NewCancelled, Poll, LastPoll, Start, Stop, AddTap, RemoveSeed, Drop, vars, contract, messages
  <2> QED BY <1>1, <2>1
<1> QED BY <1>5, <1>6, <1>7, <1>8, <1>9 DEF Next

LEMMA ValuesTyped ==
  ASSUME SubmitInv
  PROVE  /\ seed \in Nat /\ Len(events) \in Nat
         /\ \A i \in 1..Len(events) : events[i].val \in Nat /\ events[i].at \in Nat
<1>1. seed \in Nat /\ events \in Seq(Events) /\ Len(events) \in Nat
  BY DEF SubmitInv, Shape
<1>2. \A i \in 1..Len(events) : events[i] \in Events
  BY <1>1
<1>3. \A i \in 1..Len(events) : events[i].val \in Nat /\ events[i].at \in Nat
  BY <1>2 DEF Events
<1> QED BY <1>1, <1>3

\* Events of a step: an old one, or the last one, with the newest seed.
LEMMA OldOrNewest ==
  ASSUME SubmitInv, [Next]_vars, NEW i \in 1..Len(events'), events'[i].type = "seed_updated"
  PROVE  \/ i \in 1..Len(events) /\ events'[i] = events[i]
         \/ /\ i > Len(events) /\ i = Len(events')
            /\ events'[i].val = seed + 2 /\ seed' = seed + 1
<1>1. Continues(events, events')
  BY EventStep
<1>2. Len(events) \in Nat /\ Len(events') \in Nat
  BY SubmitStep, ValuesTyped
<1>3. CASE i \in 1..Len(events)
  BY <1>1, <1>3 DEF Continues
<1>4. CASE i > Len(events)
  BY <1>4, SeedEvent
<1> QED BY <1>2, <1>3, <1>4

LEMMA RotationsStep == SubmitInv /\ Rotations /\ [Next]_vars => Rotations'
<1> SUFFICES ASSUME SubmitInv, Rotations, [Next]_vars PROVE Rotations'
  OBVIOUS
<1>1. /\ seed \in Nat /\ Len(events) \in Nat /\ Len(events') \in Nat
      /\ \A i \in 1..Len(events) : events[i].val \in Nat
  BY SubmitStep, ValuesTyped
<1>2. seed' = seed \/ seed' = seed + 1
  BY SeedEvent
<1>3. ASSUME NEW i \in 1..Len(events'), events'[i].type = "seed_updated"
      PROVE  events'[i].val <= seed' + 1
  <2>1. CASE i \in 1..Len(events) /\ events'[i] = events[i]
    BY <1>1, <1>2, <1>3, <2>1 DEF Rotations
  <2>2. CASE events'[i].val = seed + 2 /\ seed' = seed + 1
    BY <1>1, <2>2
  <2> QED BY <1>3, <2>1, <2>2, OldOrNewest
<1>4. ASSUME NEW i \in 1..Len(events'), NEW j \in 1..Len(events'), i < j,
             events'[i].type = "seed_updated", events'[j].type = "seed_updated"
      PROVE  events'[i].val < events'[j].val
  <2>1. CASE j \in 1..Len(events) /\ events'[j] = events[j]
    <3>1. i \in 1..Len(events) /\ events'[i] = events[i]
      BY <1>1, <1>4, <2>1, OldOrNewest
    <3> QED BY <1>4, <2>1, <3>1 DEF Rotations
  <2>2. CASE j = Len(events') /\ events'[j].val = seed + 2
    <3>1. i \in 1..Len(events) /\ events'[i] = events[i]
      BY <1>1, <1>4, <2>2, OldOrNewest
    <3>2. events[i].val <= seed + 1
      BY <1>4, <3>1 DEF Rotations
    <3> QED BY <1>1, <2>2, <3>1, <3>2
  <2> QED BY <1>4, <2>1, <2>2, OldOrNewest
<1> QED BY <1>3, <1>4 DEF Rotations

\* Later rotations announce seeds get_details did not report.
LEMMA ReportedStep ==
  ASSUME SubmitInv, [Next]_vars, Reported, details.seed \in Nat, details.seed <= seed,
         details'.seed = details.seed, started' = started
  PROVE  Reported'
<1>1. seed \in Nat
  BY ValuesTyped
<1>2. ASSUME NEW i \in 1..Len(events'), events'[i].type = "seed_updated",
             events'[i].val <= details.seed + 1
      PROVE  events'[i].at <= started
  <2>1. i \in 1..Len(events) /\ events'[i] = events[i]
    BY <1>1, <1>2, OldOrNewest
  <2> QED BY <1>2, <2>1 DEF Reported
<1> QED BY <1>2 DEF Reported

LEMMA ProcessedStep ==
  ASSUME SubmitInv, [Next]_vars, PollerOK, Processed, UNCHANGED <<after, started, seen>>
  PROVE  Processed'
<1>1. \A i \in seen : events'[i] = events[i]
  BY EventStep DEF Continues, PollerOK
<1> QED BY <1>1 DEF Processed

\* What the Miner knows it does not forget.
LEMMA KnownStays ==
  ASSUME SubmitInv, [Next]_vars, PollerOK, seen \subseteq seen',
         details'.seed = details.seed, started' = started, NEW x
  PROVE  /\ Known(events, seen, details.seed, x) => Known(events', seen', details'.seed, x)
         /\ Twice(events, seen, details.seed, started, x) => Twice(events', seen', details'.seed, started', x)
<1>1. \A i \in seen : events'[i] = events[i]
  BY EventStep DEF Continues, PollerOK
<1> QED BY <1>1 DEF Known, Twice

\* A step that adds no seed and starts no worker.
LEMMA HeldStays ==
  ASSUME SubmitInv, [Next]_vars, PollerOK, Held, HeldTypes,
         UNCHANGED <<details, started, seen, inst, seeds>>,
         \A w \in Ids : Mines(w)' => Mines(w),
         \A w \in Ids : job'[w].seed = job[w].seed
  PROVE  Held'
<1> DEFINE K(x) == Known(events, seen, details.seed, x)
           K2(x) == Known(events', seen', details'.seed, x)
           T(x) == Twice(events, seen, details.seed, started, x)
           T2(x) == Twice(events', seen', details'.seed, started', x)
<1>1. \A x : (K(x) => K2(x)) /\ (T(x) => T2(x))
  BY KnownStays
<1>2. /\ \A k \in 1..Len(seeds) : K(seeds[k])
      /\ \A w \in Ids : Mines(w) => K(job[w].seed)
      /\ \A j, k \in 1..Len(seeds) : j # k /\ seeds[j] = seeds[k] => T(seeds[j])
      /\ \A v, w \in Ids : v # w /\ Mines(v) /\ Mines(w) /\ job[v].seed = job[w].seed
                             => T(job[v].seed)
      /\ \A k \in 1..Len(seeds), w \in Ids : Mines(w) /\ seeds[k] = job[w].seed => T(seeds[k])
  BY DEF Held
<1> DEFINE M2(w) == Mines(w)'
<1> HIDE DEF K, K2, T, T2, M2
<1>3. \A w \in Ids : M2(w) => Mines(w)
  BY DEF M2
<1>4. /\ \A k \in 1..Len(seeds') : K2(seeds'[k])
      /\ \A w \in Ids : M2(w) => K2(job'[w].seed)
      /\ \A j, k \in 1..Len(seeds') : j # k /\ seeds'[j] = seeds'[k] => T2(seeds'[j])
      /\ \A v, w \in Ids : v # w /\ M2(v) /\ M2(w) /\ job'[v].seed = job'[w].seed
                             => T2(job'[v].seed)
      /\ \A k \in 1..Len(seeds'), w \in Ids : M2(w) /\ seeds'[k] = job'[w].seed => T2(seeds'[k])
  BY <1>1, <1>2, <1>3
<1> QED BY <1>4 DEF Held, K2, T2, M2

\* start moves the front seed to a worker.
LEMMA HeldStart ==
  ASSUME SubmitInv, PollerOK, Held, HeldTypes, Start
  PROVE  Held' /\ HeldTypes'
<1> DEFINE K(x) == Known(events, seen, details.seed, x)
           T(x) == Twice(events, seen, details.seed, started, x)
           M2(v) == Mines(v)'
           r == [NoWorker EXCEPT !.pc = "spawned", !.inst = inst, !.listed = TRUE]
           h == Head(seeds)
<1>0. /\ wk \in [Ids -> Worker] /\ inst \in Nat /\ seeds \in Seq(Nat) /\ Len(seeds) \in Nat
      /\ job = [v \in Ids |-> [seed |-> job[v].seed, comp |-> job[v].comp]]
      /\ \A v \in Ids : job[v].seed \in Nat /\ wk[v].inst <= inst
  BY DEF SubmitInv, Shape, HeldTypes
<1>1. /\ UNCHANGED <<events, seen, details, started, inst>>
      /\ seeds # <<>> /\ seeds' = Tail(seeds)
  BY DEF Start, contract, messages
<1>2. PICK w \in Ids : /\ wk' = [wk EXCEPT ![w] = r]
                       /\ job' = [job EXCEPT ![w] = [seed |-> h, comp |-> complexity]]
  BY DEF Start
<1>3. r.inst = inst
  BY DEF NoWorker
<1> HIDE DEF r
<1>4. /\ wk'[w] = r /\ \A v \in Ids \ {w} : wk'[v] = wk[v]
      /\ job'[w] = [seed |-> h, comp |-> complexity] /\ \A v \in Ids \ {w} : job'[v] = job[v]
  BY <1>0, <1>2
<1>5. /\ h \in Nat /\ h = seeds[1] /\ 1 \in 1..Len(seeds)
      /\ seeds' \in Seq(Nat) /\ Len(seeds') = Len(seeds) - 1
      /\ \A k \in 1..Len(seeds') : k + 1 \in 1..Len(seeds) /\ k + 1 # 1 /\ seeds'[k] = seeds[k + 1]
  BY <1>0, <1>1
<1> HIDE DEF h
<1>6. job'[w].seed = h /\ \A v \in Ids \ {w} : job'[v].seed = job[v].seed
  BY <1>4
<1>7. HeldTypes'
  <2>1. \A v \in Ids : job'[v].seed \in Nat
    BY <1>0, <1>5, <1>6
  <2>2. inst <= inst
    BY <1>0
  <2>3. \A v \in Ids : wk'[v].inst <= inst'
    BY <1>0, <1>1, <1>3, <1>4, <2>2
  <2>4. job' = [v \in Ids |-> [seed |-> job'[v].seed, comp |-> job'[v].comp]]
    <3>1. \A v \in Ids : job[v] = [seed |-> job[v].seed, comp |-> job[v].comp]
      BY <1>0
    <3>2. \A v \in Ids : job'[v] = [seed |-> job'[v].seed, comp |-> job'[v].comp]
      BY <1>4, <3>1
    <3>3. job' = [v \in Ids |-> job'[v]]
      BY <1>0, <1>2
    <3> QED BY <3>2, <3>3
  <2>5. details'.seed \in Nat
    BY <1>1 DEF HeldTypes
  <2> QED BY <1>5, <2>1, <2>3, <2>4, <2>5 DEF HeldTypes
<1>8. \A v \in Ids \ {w} : M2(v) => Mines(v)
  BY <1>1, <1>4 DEF Mines
<1>9. /\ \A k \in 1..Len(seeds) : K(seeds[k])
      /\ \A v \in Ids : Mines(v) => K(job[v].seed)
      /\ \A j, k \in 1..Len(seeds) : j # k /\ seeds[j] = seeds[k] => T(seeds[j])
      /\ \A u, v \in Ids : u # v /\ Mines(u) /\ Mines(v) /\ job[u].seed = job[v].seed
                             => T(job[u].seed)
      /\ \A k \in 1..Len(seeds), v \in Ids : Mines(v) /\ seeds[k] = job[v].seed => T(seeds[k])
  BY DEF Held
<1> HIDE DEF K, T, M2
<1>10. \A k \in 1..Len(seeds') : K(seeds'[k])
  BY <1>5, <1>9
<1>11. \A v \in Ids : M2(v) => K(job'[v].seed)
  BY <1>5, <1>6, <1>8, <1>9
<1>12. ASSUME NEW j \in 1..Len(seeds'), NEW k \in 1..Len(seeds'), j # k, seeds'[j] = seeds'[k]
       PROVE  T(seeds'[j])
  <2>1. j + 1 # k + 1
    BY <1>5, <1>12, <1>0
  <2> QED BY <1>5, <1>9, <1>12, <2>1
<1>13. \A u, v \in Ids : u # v /\ M2(u) /\ M2(v) /\ job'[u].seed = job'[v].seed
                           => T(job'[u].seed)
  BY <1>5, <1>6, <1>8, <1>9
<1>14. \A k \in 1..Len(seeds'), v \in Ids : M2(v) /\ seeds'[k] = job'[v].seed => T(seeds'[k])
  BY <1>5, <1>6, <1>8, <1>9
<1>15. Held'
  BY <1>1, <1>10, <1>11, <1>12, <1>13, <1>14 DEF Held, K, T, M2
<1> QED BY <1>7, <1>15

\* A worker without leaves gives its seed back to the front.
LEMMA HeldReturn ==
  ASSUME SubmitInv, PollerOK, Held, HeldTypes, NEW w \in Ids, Mines(w),
         seeds' = <<job[w].seed>> \o seeds,
         UNCHANGED <<events, seen, details, started, inst, job>>,
         wk'[w].pc = "done", \A v \in Ids \ {w} : wk'[v] = wk[v]
  PROVE  Held' /\ seeds' \in Seq(Nat)
<1> DEFINE K(x) == Known(events, seen, details.seed, x)
           T(x) == Twice(events, seen, details.seed, started, x)
           M2(v) == Mines(v)'
           h == job[w].seed
<1>0. seeds \in Seq(Nat) /\ h \in Nat /\ Len(seeds) \in Nat
  BY DEF HeldTypes
<1>1. seeds' = <<h>> \o seeds
  OBVIOUS
<1> HIDE DEF h
<1>2. seeds' \in Seq(Nat) /\ Len(seeds') = Len(seeds) + 1 /\ seeds'[1] = h
  BY <1>0, <1>1
<1>3. ASSUME NEW k \in 1..Len(seeds'), k # 1
      PROVE  k - 1 \in 1..Len(seeds) /\ seeds'[k] = seeds[k - 1]
  <2>1. <<h>> \in Seq(Nat) /\ Len(<<h>>) = 1
    BY <1>0
  <2>2. k \in Nat /\ k > 1 /\ k <= Len(seeds) + 1
    BY <1>0, <1>2, <1>3
  <2>3. (<<h>> \o seeds)[k] = seeds[k - Len(<<h>>)]
    BY <1>0, <2>1, <2>2
  <2> QED BY <1>0, <1>1, <2>1, <2>2, <2>3
<1>4. ~M2(w) /\ \A v \in Ids : M2(v) => v # w /\ Mines(v)
  <2>1. ~M2(w)
    BY DEF Mines, Active, Queued, Computing, Submitting
  <2>2. \A v \in Ids \ {w} : M2(v) => Mines(v)
    BY DEF Mines
  <2> QED BY <2>1, <2>2
<1>5. /\ \A k \in 1..Len(seeds) : K(seeds[k])
      /\ \A v \in Ids : Mines(v) => K(job[v].seed)
      /\ \A j, k \in 1..Len(seeds) : j # k /\ seeds[j] = seeds[k] => T(seeds[j])
      /\ \A u, v \in Ids : u # v /\ Mines(u) /\ Mines(v) /\ job[u].seed = job[v].seed
                             => T(job[u].seed)
      /\ \A k \in 1..Len(seeds), v \in Ids : Mines(v) /\ seeds[k] = job[v].seed => T(seeds[k])
  BY DEF Held
<1> HIDE DEF K, T, M2
<1>6. K(h) /\ (\A k \in 1..Len(seeds) : seeds[k] = h => T(h))
      /\ \A v \in Ids : v # w /\ Mines(v) /\ job[v].seed = h => T(h)
  BY <1>5 DEF h
<1>7. \A k \in 1..Len(seeds') : K(seeds'[k])
  BY <1>2, <1>3, <1>5, <1>6
<1>8. ASSUME NEW j \in 1..Len(seeds'), NEW k \in 1..Len(seeds'), j # k, seeds'[j] = seeds'[k]
      PROVE  T(seeds'[j])
  <2>1. CASE j = 1 \/ k = 1
    BY <1>2, <1>3, <1>6, <1>8, <2>1
  <2>2. CASE j # 1 /\ k # 1
    <3>1. j - 1 # k - 1
      BY <1>2, <1>8, <1>0
    <3> QED BY <1>3, <1>5, <1>8, <2>2, <3>1
  <2> QED BY <2>1, <2>2
<1>9. ASSUME NEW k \in 1..Len(seeds'), NEW v \in Ids, M2(v), seeds'[k] = job[v].seed
      PROVE  T(seeds'[k])
  <2>1. v # w /\ Mines(v)
    BY <1>4, <1>9
  <2>2. CASE k = 1
    BY <1>2, <1>6, <1>9, <2>1, <2>2
  <2>3. CASE k # 1
    BY <1>3, <1>5, <1>9, <2>1, <2>3
  <2> QED BY <2>2, <2>3
<1>10. \A v \in Ids : M2(v) => K(job[v].seed)
  BY <1>4, <1>5
<1>11. \A u, v \in Ids : u # v /\ M2(u) /\ M2(v) /\ job[u].seed = job[v].seed
                           => T(job[u].seed)
  BY <1>4, <1>5
<1>12. Held'
  BY <1>7, <1>8, <1>9, <1>10, <1>11 DEF Held, K, T, M2
<1> QED BY <1>2, <1>12

\* remove_seed only takes places out of the queue.
LEMMA HeldRemove ==
  ASSUME SubmitInv, PollerOK, Held, HeldTypes, RemoveSeed
  PROVE  Held' /\ seeds' \in Seq(Nat)
<1> DEFINE K(x) == Known(events, seen, details.seed, x)
           T(x) == Twice(events, seen, details.seed, started, x)
<1>0. seeds \in Seq(Nat) /\ Len(seeds) \in Nat
  BY DEF HeldTypes
<1>1. PICK x : seeds' = [k \in 1..Cardinality({i \in 1..Len(seeds) : seeds[i] # x}) |->
                           seeds[Nth({i \in 1..Len(seeds) : seeds[i] # x}, k)]]
  BY DEF RemoveSeed
<1>2. UNCHANGED <<events, seen, details, started, inst, job, wk>>
  BY DEF RemoveSeed, contract, messages, workers
<1> DEFINE keep == {k \in 1..Len(seeds) : seeds[k] # x}
           n == Cardinality(keep)
           p == [k \in 1..n |-> Nth(keep, k)]
<1>3. keep \in SUBSET (1..Len(seeds))
  OBVIOUS
<1> HIDE DEF keep
<1>4. /\ n \in Nat /\ \A k \in 1..n : Nth(keep, k) \in keep
      /\ \A j, k \in 1..n : Nth(keep, j) = Nth(keep, k) => j = k
  BY <1>0, <1>3, NthIs
<1>5. \A k \in 1..n : p[k] \in 1..Len(seeds)
  BY <1>3, <1>4
<1>6. \A j, k \in 1..n : p[j] = p[k] => j = k
  BY <1>4
<1>7. seeds' = [k \in 1..n |-> seeds[p[k]]]
  BY <1>1 DEF keep
<1> HIDE DEF p, n
<1>8. \A k \in 1..n : seeds[p[k]] \in Nat
  BY <1>0, <1>5
<1>9. seeds' \in Seq(Nat) /\ Len(seeds') = n /\ \A k \in 1..n : seeds'[k] = seeds[p[k]]
  BY <1>4, <1>7, <1>8
<1>10. /\ \A k \in 1..Len(seeds) : K(seeds[k])
       /\ \A v \in Ids : Mines(v) => K(job[v].seed)
       /\ \A j, k \in 1..Len(seeds) : j # k /\ seeds[j] = seeds[k] => T(seeds[j])
       /\ \A u, v \in Ids : u # v /\ Mines(u) /\ Mines(v) /\ job[u].seed = job[v].seed
                              => T(job[u].seed)
       /\ \A k \in 1..Len(seeds), v \in Ids : Mines(v) /\ seeds[k] = job[v].seed => T(seeds[k])
  BY DEF Held
<1>11. \A v \in Ids : Mines(v)' <=> Mines(v)
  BY <1>2 DEF Mines
<1> HIDE DEF K, T
<1>12. \A k \in 1..Len(seeds') : K(seeds'[k])
  BY <1>5, <1>9, <1>10
<1>13. ASSUME NEW j \in 1..Len(seeds'), NEW k \in 1..Len(seeds'), j # k, seeds'[j] = seeds'[k]
       PROVE  T(seeds'[j])
  <2>1. /\ p[j] \in 1..Len(seeds) /\ p[k] \in 1..Len(seeds) /\ p[j] # p[k]
        /\ seeds'[j] = seeds[p[j]] /\ seeds'[k] = seeds[p[k]]
    BY <1>5, <1>6, <1>9, <1>13
  <2> QED BY <1>10, <1>13, <2>1
<1>14. ASSUME NEW k \in 1..Len(seeds'), NEW v \in Ids, Mines(v), seeds'[k] = job[v].seed
       PROVE  T(seeds'[k])
  <2>1. p[k] \in 1..Len(seeds) /\ seeds'[k] = seeds[p[k]]
    BY <1>5, <1>9
  <2> QED BY <1>10, <1>14, <2>1
<1>15. Held'
  BY <1>2, <1>10, <1>11, <1>12, <1>13, <1>14 DEF Held, K, T
<1> QED BY <1>9, <1>15

\* The seeds a poll adds to the queue.
LEMMA NewSeeds ==
  ASSUME SubmitInv, EventTimes, PollerOK, Rotations, Reported, Processed,
         details.seed \in Nat
  PROVE  LET nv == NewValues("seed_updated")
         IN  /\ nv \in Seq(Nat)
             /\ \A j, k \in 1..Len(nv) : nv[j] = nv[k] => j = k
             /\ \A k \in 1..Len(nv) :
                  /\ Known(events, NewEvents(after), details.seed, nv[k])
                  /\ Known(events, seen, details.seed, nv[k])
                       => Twice(events, NewEvents(after), details.seed, started, nv[k])
<1> DEFINE new == {i \in NewEvents(after) : events[i].type = "seed_updated"}
           n == Cardinality(new)
           nv == NewValues("seed_updated")
<1>0. /\ Len(events) \in Nat /\ after \in Int /\ started \in Nat
      /\ \A i \in 1..Len(events) : events[i].val \in Nat /\ events[i].at \in Nat
  BY ValuesTyped DEF PollerOK
<1>1. new \in SUBSET (1..Len(events))
  BY DEF NewEvents
<1>2. nv = [k \in 1..n |-> events[Nth(new, k)].val]
  BY DEF NewValues
<1>3. \A i \in new : /\ events[i].type = "seed_updated" /\ events[i].at > after
                     /\ i \in NewEvents(after)
  BY DEF NewEvents
<1> HIDE DEF new, nv
<1>4. /\ n \in Nat /\ \A k \in 1..n : Nth(new, k) \in new
      /\ \A j, k \in 1..n : Nth(new, j) = Nth(new, k) => j = k
  BY <1>0, <1>1, NthIs
<1> HIDE DEF n
<1>5. \A k \in 1..n : events[Nth(new, k)].val \in Nat
  BY <1>0, <1>1, <1>4
<1>6. nv \in Seq(Nat) /\ Len(nv) = n /\ \A k \in 1..n : nv[k] = events[Nth(new, k)].val
  BY <1>2, <1>4, <1>5
<1>7. ASSUME NEW i \in 1..Len(events), NEW j \in 1..Len(events), events[i].val = events[j].val,
             events[i].type = "seed_updated", events[j].type = "seed_updated"
      PROVE  i = j
  <2>1. ~(i < j) /\ ~(j < i)
    BY <1>0, <1>7 DEF Rotations
  <2> QED BY <1>0, <2>1
<1>8. ASSUME NEW j \in 1..n, NEW k \in 1..n, nv[j] = nv[k]
      PROVE  j = k
  <2>1. Nth(new, j) \in new /\ Nth(new, k) \in new
    BY <1>4
  <2>2. events[Nth(new, j)].val = events[Nth(new, k)].val
    BY <1>6, <1>8
  <2>3. Nth(new, j) = Nth(new, k)
    BY <1>1, <1>3, <1>7, <2>1, <2>2
  <2> QED BY <1>4, <2>3
<1>9. ASSUME NEW k \in 1..n
      PROVE  /\ Known(events, NewEvents(after), details.seed, nv[k])
             /\ Known(events, seen, details.seed, nv[k])
                  => Twice(events, NewEvents(after), details.seed, started, nv[k])
  <2>1. PICK i \in new : nv[k] = events[i].val
    BY <1>4, <1>6
  <2>2. /\ i \in 1..Len(events) /\ i \in NewEvents(after) /\ events[i].type = "seed_updated"
        /\ events[i].at > after /\ events[i].at \in Nat /\ events[i].val \in Nat
    BY <1>0, <1>1, <1>3
  <2>3. Known(events, NewEvents(after), details.seed, nv[k])
    BY <2>1, <2>2 DEF Known
  <2>4. ASSUME Known(events, seen, details.seed, nv[k])
        PROVE  Twice(events, NewEvents(after), details.seed, started, nv[k])
    <3>1. ~\E j \in seen : events[j].type = "seed_updated" /\ events[j].val = nv[k]
      <4> SUFFICES ASSUME NEW j \in seen, events[j].type = "seed_updated",
                          events[j].val = nv[k]
                   PROVE  FALSE
        OBVIOUS
      <4>1. j \in 1..Len(events) /\ events[j].at <= after
        BY DEF PollerOK, Processed
      <4>2. i = j
        BY <1>7, <2>1, <2>2, <4>1
      <4> QED BY <1>0, <2>2, <4>1, <4>2
    <3>2. events[i].val <= details.seed + 1
      BY <2>1, <2>2, <2>4, <3>1 DEF Known
    <3>3. events[i].at <= started
      BY <2>2, <3>2 DEF Reported
    <3>4. events[i].at = started
      BY <1>0, <2>2, <3>3 DEF Processed
    <3> QED BY <2>1, <2>2, <3>2, <3>4 DEF Twice
  <2> QED BY <2>3, <2>4
<1> QED BY <1>6, <1>8, <1>9 DEF nv

\* A poll only repeats a seed that get_details had reported.
LEMMA HeldPoll ==
  ASSUME SubmitInv, EventTimes, PollerOK, Rotations, Reported, Processed, Held, HeldTypes,
         Poll
  PROVE  Held' /\ seeds' \in Seq(Nat) /\ Processed'
<1> DEFINE nv == NewValues("seed_updated")
           K(x) == Known(events, seen, details.seed, x)
           T(x) == Twice(events, seen, details.seed, started, x)
           K2(x) == Known(events, seen', details.seed, x)
           T2(x) == Twice(events, seen', details.seed, started, x)
<1>0. seeds \in Seq(Nat) /\ Len(seeds) \in Nat /\ details.seed \in Nat
  BY DEF HeldTypes
<1>1. /\ UNCHANGED <<events, details, started, inst, job, wk>>
      /\ seeds' = seeds \o nv /\ after' = AfterDt /\ NewEvents(after) # {}
      /\ seen' = seen \cup NewEvents(after)
  BY DEF Poll, contract, messages
<1>2. /\ nv \in Seq(Nat) /\ Len(nv) \in Nat
      /\ \A j, k \in 1..Len(nv) : nv[j] = nv[k] => j = k
      /\ \A k \in 1..Len(nv) :
           /\ Known(events, NewEvents(after), details.seed, nv[k])
           /\ K(nv[k]) => Twice(events, NewEvents(after), details.seed, started, nv[k])
  BY <1>0, NewSeeds
<1> HIDE DEF nv
<1>3. /\ \A x : (K(x) => K2(x)) /\ (T(x) => T2(x))
      /\ \A x : /\ Known(events, NewEvents(after), details.seed, x) => K2(x)
                /\ Twice(events, NewEvents(after), details.seed, started, x) => T2(x)
  BY <1>1 DEF Known, Twice
<1>4. /\ seeds' \in Seq(Nat) /\ Len(seeds') = Len(seeds) + Len(nv)
      /\ \A k \in 1..Len(seeds) : seeds'[k] = seeds[k]
  BY <1>0, <1>1, <1>2
<1>5. ASSUME NEW k \in 1..Len(seeds'), k \notin 1..Len(seeds)
      PROVE  k - Len(seeds) \in 1..Len(nv) /\ seeds'[k] = nv[k - Len(seeds)]
  <2>1. k \in Nat /\ k > Len(seeds) /\ k <= Len(seeds) + Len(nv)
    BY <1>0, <1>2, <1>4, <1>5
  <2> QED BY <1>0, <1>1, <1>2, <2>1
<1>6. /\ \A k \in 1..Len(seeds) : K(seeds[k])
      /\ \A v \in Ids : Mines(v) => K(job[v].seed)
      /\ \A j, k \in 1..Len(seeds) : j # k /\ seeds[j] = seeds[k] => T(seeds[j])
      /\ \A u, v \in Ids : u # v /\ Mines(u) /\ Mines(v) /\ job[u].seed = job[v].seed
                             => T(job[u].seed)
      /\ \A k \in 1..Len(seeds), v \in Ids : Mines(v) /\ seeds[k] = job[v].seed => T(seeds[k])
  BY DEF Held
<1>7. \A v \in Ids : Mines(v)' <=> Mines(v)
  BY <1>1 DEF Mines
<1> HIDE DEF K, T, K2, T2
<1>8. \A k \in 1..Len(nv) : K2(nv[k]) /\ (K(nv[k]) => T2(nv[k]))
  BY <1>2, <1>3
<1>9. \A k \in 1..Len(seeds') :
         \/ k \in 1..Len(seeds) /\ seeds'[k] = seeds[k] /\ K(seeds'[k])
         \/ /\ k - Len(seeds) \in 1..Len(nv) /\ seeds'[k] = nv[k - Len(seeds)]
            /\ K(seeds'[k]) => T2(seeds'[k])
            /\ K2(seeds'[k])
  BY <1>4, <1>5, <1>6, <1>8
<1>10. ASSUME NEW j \in 1..Len(seeds'), NEW k \in 1..Len(seeds'), j # k, seeds'[j] = seeds'[k]
       PROVE  T2(seeds'[j])
  <2>1. CASE j \in 1..Len(seeds) /\ k \in 1..Len(seeds)
    <3>1. T(seeds[j]) /\ seeds'[j] = seeds[j]
      BY <1>4, <1>6, <1>10, <2>1
    <3> QED BY <1>3, <3>1
  <2>2. CASE j \notin 1..Len(seeds) /\ k \notin 1..Len(seeds)
    <3>1. j - Len(seeds) = k - Len(seeds)
      BY <1>2, <1>5, <1>10, <2>2
    <3> QED BY <1>0, <1>4, <1>10, <3>1
  <2>3. CASE j \in 1..Len(seeds) /\ k \notin 1..Len(seeds)
    <3>1. K(seeds'[k])
      BY <1>4, <1>6, <1>10, <2>3
    <3> QED BY <1>9, <1>10, <2>3, <3>1
  <2>4. CASE j \notin 1..Len(seeds) /\ k \in 1..Len(seeds)
    <3>1. K(seeds'[j])
      BY <1>4, <1>6, <1>10, <2>4
    <3> QED BY <1>9, <2>4, <3>1
  <2> QED BY <2>1, <2>2, <2>3, <2>4
<1>11. ASSUME NEW k \in 1..Len(seeds'), NEW v \in Ids, Mines(v), seeds'[k] = job[v].seed
       PROVE  T2(seeds'[k])
  <2>1. K(seeds'[k])
    BY <1>6, <1>11
  <2>2. CASE k \in 1..Len(seeds)
    <3>1. T(seeds[k]) /\ seeds'[k] = seeds[k]
      BY <1>4, <1>6, <1>11, <2>2
    <3> QED BY <1>3, <3>1
  <2>3. CASE k \notin 1..Len(seeds)
    BY <1>9, <2>1, <2>3
  <2> QED BY <2>2, <2>3
<1>12. /\ \A k \in 1..Len(seeds') : K2(seeds'[k])
       /\ \A v \in Ids : Mines(v) => K2(job[v].seed)
       /\ \A u, v \in Ids : u # v /\ Mines(u) /\ Mines(v) /\ job[u].seed = job[v].seed
                              => T2(job[u].seed)
  BY <1>3, <1>6, <1>9
<1>13. Held'
  BY <1>1, <1>7, <1>10, <1>11, <1>12 DEF Held, K2, T2
<1>14. Processed'
  <2>1. /\ Len(events) \in NewEvents(after) /\ after' = events[Len(events)].at
    BY <1>1, PolledTo DEF PollerOK
  <2>2. /\ \A i \in 1..Len(events) : events[i].at \in Nat
        /\ NewEvents(after) \subseteq 1..Len(events) /\ seen \subseteq 1..Len(events)
        /\ after \in Int /\ started \in Nat /\ Len(events) \in Nat
    BY ValuesTyped DEF NewEvents, PollerOK
  <2>3. \A i \in seen' : i \in 1..Len(events) /\ i <= Len(events)
    BY <1>1, <2>2
  <2>4. \A i \in seen' : events[i].at <= after'
    BY <2>1, <2>2, <2>3 DEF EventTimes
  <2>5. after' > after /\ after' \in Nat
    BY <2>1, <2>2 DEF NewEvents
  <2>6. after' >= started - 1
    BY <2>2, <2>5 DEF Processed
  <2> QED BY <1>1, <2>4, <2>6 DEF Processed
<1> QED BY <1>4, <1>13, <1>14

\* While the Miner object stays the same, the contract only moves on.
LEMMA SameMiner ==
  ASSUME SubmitInv, PollInv, HeldInv, [Next]_vars,
         UNCHANGED <<details, after, started, seen>>,
         phase' = phase \/ phase' = "down" \/ (phase = "cancelling" /\ phase' = "ready")
  PROVE  /\ Rotations'
         /\ phase' # "down" => details'.seed <= seed'
         /\ phase' \in {"cancelling", "ready"} => Reported' /\ Processed'
<1>1. Rotations'
  BY RotationsStep DEF HeldInv
<1>2. seed \in Nat /\ details.seed \in Nat /\ (seed' = seed \/ seed' = seed + 1)
  BY ValuesTyped, SeedEvent DEF HeldInv, HeldTypes
<1>3. ASSUME phase' # "down" PROVE details'.seed <= seed' /\ details.seed <= seed
  BY <1>2, <1>3 DEF HeldInv
<1>4. ASSUME phase' \in {"cancelling", "ready"} PROVE Reported' /\ Processed'
  <2>1. phase \in {"cancelling", "ready"}
    BY <1>4
  <2>2. Reported /\ Processed /\ PollerOK
    BY <2>1 DEF HeldInv, PollInv
  <2> QED BY <1>2, <1>3, <1>4, <2>2, ReportedStep, ProcessedStep
<1> QED BY <1>1, <1>3, <1>4

\* A step that leaves the Miner object alone and starts no worker.
LEMMA QuietStep ==
  ASSUME SubmitInv, PollInv, HeldInv, [Next]_vars,
         UNCHANGED <<phase, details, after, started, seen, inst, seeds>>,
         \A w \in Ids : Mines(w)' => Mines(w),
         \A w \in Ids : wk'[w].inst = wk[w].inst,
         \A w \in Ids : job'[w].seed = job[w].seed,
         job' = [w \in Ids |-> [seed |-> job'[w].seed, comp |-> job'[w].comp]]
  PROVE  HeldInv'
<1>1. /\ Rotations'
      /\ phase' # "down" => details'.seed <= seed'
      /\ phase' \in {"cancelling", "ready"} => Reported' /\ Processed'
  BY SameMiner
<1>2. HeldTypes'
  BY DEF HeldInv, HeldTypes
<1>3. phase' = "cancelling" => \A w \in Ids : ~Mines(w)'
  BY DEF HeldInv
<1>4. ASSUME phase' = "ready" PROVE Held'
  <2>1. PollerOK /\ Held /\ HeldTypes
    BY <1>4 DEF HeldInv, PollInv
  <2> QED BY <2>1, HeldStays
<1> QED BY <1>1, <1>2, <1>3, <1>4 DEF HeldInv

\* A worker's step leaves every other worker alone and starts none.
LEMMA WorkerMoves ==
  ASSUME SubmitInv, HeldTypes, NEW w \in Ids, Step(w) \/ Mine(w)
  PROVE  /\ \A v \in Ids \ {w} : wk'[v] = wk[v]
         /\ wk[w].pc \in Active /\ wk'[w].inst = wk[w].inst
         /\ \A v \in Ids : job'[v].seed = job[v].seed
         /\ job' = [v \in Ids |-> [seed |-> job'[v].seed, comp |-> job'[v].comp]]
<1>0. /\ wk \in [Ids -> Worker] /\ wk[w] \in Worker
      /\ job = [v \in Ids |-> [seed |-> job[v].seed, comp |-> job[v].comp]]
  BY DEF SubmitInv, Shape, HeldTypes
<1> DEFINE W == /\ \A v \in Ids \ {w} : wk'[v] = wk[v]
                /\ wk'[w].inst = wk[w].inst
           J == /\ \A v \in Ids : job'[v].seed = job[v].seed
                /\ job' = [v \in Ids |-> [seed |-> job'[v].seed, comp |-> job'[v].comp]]
<1>1. wk[w].pc \in Active
  BY DEF Step, Run, Choose, MineEnds, Mine, Wait, TxReturns, Listen, At, Active, Queued,
         Computing, Submitting
<1>2. ASSUME NEW r \in Worker, wk' = [wk EXCEPT ![w] = r], r.inst = wk[w].inst PROVE W
  BY <1>0, <1>2
<1>3. ASSUME wk' = wk PROVE W
  BY <1>3
<1>4. ASSUME NEW pc \in Pcs, wk' = GoTo(w, pc) PROVE W
  BY <1>0, <1>4 DEF GoTo, Worker
<1>5. ASSUME Shutdown(w) PROVE W
  BY <1>0, <1>5 DEF Shutdown, Ended, Worker
<1>6. ASSUME NEW r \in Worker, r.inst = wk[w].inst, SubmitRoot(w, r) PROVE W
  BY <1>0, <1>6 DEF SubmitRoot, Worker
<1>7. ASSUME job' = job PROVE J
  BY <1>0, <1>7
<1>8. ASSUME NEW c, job' = [job EXCEPT ![w].comp = c] PROVE J
  <2>1. \A v \in Ids \ {w} : job'[v] = job[v]
    BY <1>0, <1>8
  <2>2. job'[w] = [job[w] EXCEPT !.comp = c] /\ job' = [v \in Ids |-> job'[v]]
    BY <1>0, <1>8
  <2>3. \A v \in Ids : job[v] = [seed |-> job[v].seed, comp |-> job[v].comp]
    BY <1>0
  <2>4. job'[w] = [seed |-> job[w].seed, comp |-> c]
    BY <2>2, <2>3
  <2>5. \A v \in Ids : job'[v] = [seed |-> job'[v].seed, comp |-> job'[v].comp]
                       /\ job'[v].seed = job[v].seed
    BY <2>1, <2>3, <2>4
  <2> QED BY <2>2, <2>5
<1>9. Computed(w) \in Worker /\ Computed(w).inst = wk[w].inst
  BY <1>0, ComputedWorker
<1> HIDE DEF W, J
<1>10. W
  <2>1. CASE Run(w)
    <3> DEFINE r == [wk[w] EXCEPT !.pc = "choosing",
                       !.inFlight = (InStatus(wk[w].inst, Submitting) \ {w} # {})]
    <3>1. wk' = [wk EXCEPT ![w] = r]
      BY <2>1 DEF Run
    <3>2. r \in Worker /\ r.inst = wk[w].inst
      BY <1>0 DEF Worker, Pcs
    <3> HIDE DEF r
    <3> QED BY <1>2, <3>1, <3>2
  <2>2. CASE Choose(w)
    BY <1>4, <2>2 DEF Choose, Pcs
  <2>3. CASE Mine(w)
    BY <1>2, <1>9, <2>3 DEF Mine
  <2>4. CASE MineEnds(w)
    BY <1>5, <1>6, <1>9, <2>4 DEF MineEnds
  <2>5. CASE Wait(w)
    BY <1>0, <1>6, <2>5 DEF Wait
  <2>6. CASE TxReturns(w)
    BY <1>4, <1>5, <2>6 DEF TxReturns, Pcs
  <2>7. CASE Listen(w)
    <3>1. wk' = GoTo(w, "proving") \/ Shutdown(w) \/ wk' = wk
      BY <2>7 DEF Listen
    <3> QED BY <1>3, <1>4, <1>5, <3>1 DEF Pcs
  <2> QED BY <2>1, <2>2, <2>3, <2>4, <2>5, <2>6, <2>7 DEF Step
<1>11. J
  <2>1. job' = job \/ \E c : job' = [job EXCEPT ![w].comp = c]
    BY DEF Step, Run, Choose, MineEnds, Mine, Wait, TxReturns, Listen, Shutdown
  <2> QED BY <1>7, <1>8, <2>1
<1> QED BY <1>1, <1>10, <1>11 DEF W, J

\* The workers' steps keep the invariant.
LEMMA HeldWorkerStep ==
  ASSUME SubmitInv, PollInv, HeldInv, NEW w \in Ids, Step(w) \/ Mine(w)
  PROVE  HeldInv'
<1>0. [Next]_vars /\ HeldTypes
  BY DEF Next, HeldInv
<1>1. UNCHANGED <<phase, details, after, started, seen, inst, events, seed>>
  BY DEF Step, Run, Choose, MineEnds, Mine, Wait, TxReturns, Listen, miner, MinerButSeeds, contract, messages
<1>2. /\ \A v \in Ids \ {w} : wk'[v] = wk[v]
      /\ wk[w].pc \in Active /\ wk'[w].inst = wk[w].inst
      /\ \A v \in Ids : job'[v].seed = job[v].seed
      /\ job' = [v \in Ids |-> [seed |-> job'[v].seed, comp |-> job'[v].comp]]
  BY <1>0, WorkerMoves
<1>3. \A v \in Ids : wk'[v].inst = wk[v].inst
  BY <1>2
<1>4. \A v \in Ids : Mines(v)' => Mines(v)
  BY <1>1, <1>2 DEF Mines
<1>5. CASE seeds' = seeds
  BY <1>0, <1>1, <1>2, <1>3, <1>4, <1>5, QuietStep
<1>6. CASE MineEnds(w) /\ Shutdown(w) /\ ReturnSeed(w) /\ wk[w].inst = inst
  <2>1. seeds' = <<job[w].seed>> \o seeds /\ job' = job
    BY <1>6 DEF ReturnSeed, Shutdown
  <2>2. wk'[w].pc = "done"
    <3>1. wk \in [Ids -> Worker] /\ wk[w] \in Worker
      BY DEF SubmitInv, Shape
    <3> QED BY <1>6, <3>1 DEF Shutdown, Ended, Worker
  <2>3. Mines(w)
    BY <1>2, <1>6 DEF Mines
  <2>4. seeds' \in Seq(Nat)
    <3>1. seeds \in Seq(Nat) /\ job[w].seed \in Nat
      BY <1>0 DEF HeldTypes
    <3> QED BY <2>1, <3>1
  <2>5. HeldTypes'
    BY <1>0, <1>1, <1>2, <1>3, <2>4 DEF HeldTypes
  <2>6. ASSUME phase' = "ready" PROVE Held'
    <3>1. PollerOK /\ Held
      BY <1>1, <2>6 DEF HeldInv, PollInv
    <3> QED BY <1>0, <1>1, <1>2, <2>1, <2>2, <2>3, <3>1, HeldReturn
  <2>7. phase' = "cancelling" => \A v \in Ids : ~Mines(v)'
    BY <1>1, <1>4 DEF HeldInv
  <2>8. /\ Rotations'
        /\ phase' # "down" => details'.seed <= seed'
        /\ phase' \in {"cancelling", "ready"} => Reported' /\ Processed'
    BY <1>0, <1>1, SameMiner
  <2> QED BY <2>5, <2>6, <2>7, <2>8 DEF HeldInv
<1>7. seeds' = seeds \/ (MineEnds(w) /\ Shutdown(w) /\ ReturnSeed(w) /\ wk[w].inst = inst)
  BY DEF Step, Run, Choose, MineEnds, Mine, Wait, TxReturns, Listen, miner, ReturnSeed
<1> QED BY <1>5, <1>6, <1>7

\* The steps of the contract, of time and of freed Miners, stop and taps.
LEMMA HeldOtherStep ==
  ASSUME SubmitInv, PollInv, HeldInv,
         \/ Tick \/ ChangeComplexity \/ LastPoll \/ Stop \/ AddTap \/ UNCHANGED vars
         \/ \E w \in Ids : Contract(w)
         \/ \E i \in Miners : ContractCancel(i)
  PROVE  HeldInv'
<1>0. [Next]_vars /\ HeldTypes
  BY DEF Next, HeldInv
<1>1. UNCHANGED <<phase, details, after, started, seen, inst, seeds, job>>
  BY DEF Tick, ChangeComplexity, LastPoll, Stop, AddTap, vars, Contract, ContractSubmit,
         ContractVerify, ContractCancel, miner, workers
<1>2. \A v \in Ids : wk'[v].pc = wk[v].pc /\ wk'[v].inst = wk[v].inst
  <2>1. CASE Stop
    <3>1. wk \in [Ids -> Worker]
      BY DEF SubmitInv, Shape
    <3>2. wk' = [v \in Ids |-> IF v \in InStatus(inst, Queued)
                               THEN [wk[v] EXCEPT !.listed = FALSE] ELSE wk[v]]
      BY <2>1 DEF Stop
    <3>3. ASSUME NEW v \in Ids PROVE wk'[v].pc = wk[v].pc /\ wk'[v].inst = wk[v].inst
      <4>1. wk[v] \in Worker
        BY <3>1
      <4>2. wk'[v] = wk[v] \/ wk'[v] = [wk[v] EXCEPT !.listed = FALSE]
        BY <3>2
      <4> QED BY <4>1, <4>2 DEF Worker
    <3> QED BY <3>3
  <2>2. CASE ~Stop
    <3>1. wk' = wk
      BY <2>2 DEF Tick, ChangeComplexity, LastPoll, AddTap, vars, Contract, ContractSubmit,
                  ContractVerify, ContractCancel, workers
    <3> QED BY <3>1
  <2> QED BY <2>1, <2>2
<1>3. \A v \in Ids : Mines(v)' => Mines(v)
  BY <1>1, <1>2 DEF Mines
<1>4. job' = [v \in Ids |-> [seed |-> job'[v].seed, comp |-> job'[v].comp]]
  BY <1>0, <1>1 DEF HeldTypes
<1> QED BY <1>0, <1>1, <1>2, <1>3, <1>4, QuietStep

\* start, remove_seed and the poller.
LEMMA HeldQueueStep ==
  ASSUME SubmitInv, PollInv, HeldInv, Start \/ RemoveSeed \/ Poll
  PROVE  HeldInv'
<1>0. [Next]_vars /\ HeldTypes
  BY DEF Next, HeldInv
<1>1. phase = "ready" /\ phase' = "ready"
  BY DEF Start, RemoveSeed, Poll
<1>2. /\ UNCHANGED <<details, started, inst, seed, events>>
  BY DEF Start, RemoveSeed, Poll, contract, messages
<1>3. EventTimes /\ PollerOK /\ Rotations /\ Reported /\ Processed /\ Held /\ details.seed <= seed
  BY <1>1 DEF HeldInv, PollInv
<1>4. Rotations' /\ Reported' /\ details'.seed <= seed'
  BY <1>2, <1>3 DEF Rotations, Reported
<1>5. Held' /\ HeldTypes' /\ Processed'
  <2>1. CASE Start
    <3>1. UNCHANGED <<after, seen>>
      BY <2>1 DEF Start
    <3> QED BY <1>0, <1>2, <1>3, <2>1, <3>1, HeldStart DEF Processed
  <2>2. CASE RemoveSeed
    <3>1. UNCHANGED <<after, seen, job, wk>>
      BY <2>2 DEF RemoveSeed, workers
    <3>2. Held' /\ seeds' \in Seq(Nat)
      BY <1>0, <1>3, <2>2, HeldRemove
    <3> QED BY <1>0, <1>2, <1>3, <3>1, <3>2 DEF Processed, HeldTypes
  <2>3. CASE Poll
    <3>1. UNCHANGED <<job, wk>>
      BY <2>3 DEF Poll
    <3>2. Held' /\ seeds' \in Seq(Nat) /\ Processed'
      BY <1>0, <1>3, <2>3, HeldPoll
    <3> QED BY <1>0, <1>2, <3>1, <3>2 DEF HeldTypes
  <2> QED BY <2>1, <2>2, <2>3
<1> QED BY <1>1, <1>4, <1>5 DEF HeldInv

\* A new queue holds its seeds once, and no worker is the new Miner's.
LEMMA HeldFresh ==
  ASSUME details.seed \in Nat, details' = details, \A w \in Ids : ~Mines(w)',
         seeds' = <<details.seed, details.seed + 1>> \/ seeds' = <<details.seed + 1>>
  PROVE  Held' /\ seeds' \in Seq(Nat)
<1>1. /\ \A k \in 1..Len(seeds') : seeds'[k] = details.seed \/ seeds'[k] = details.seed + 1
      /\ \A j, k \in 1..Len(seeds') : seeds'[j] = seeds'[k] => j = k
      /\ seeds' \in Seq(Nat)
  <2> DEFINE d == details.seed
  <2>1. d \in Nat
    OBVIOUS
  <2>2. seeds' = <<d, d + 1>> \/ seeds' = <<d + 1>>
    OBVIOUS
  <2> HIDE DEF d
  <2>3. /\ \A k \in 1..Len(seeds') : seeds'[k] = d \/ seeds'[k] = d + 1
        /\ \A j, k \in 1..Len(seeds') : seeds'[j] = seeds'[k] => j = k
        /\ seeds' \in Seq(Nat)
    <3>1. CASE seeds' = <<d, d + 1>>
      BY <2>1, <3>1
    <3>2. CASE seeds' = <<d + 1>>
      BY <2>1, <3>2
    <3> QED BY <2>2, <3>1, <3>2
  <2> QED BY <2>3 DEF d
<1>2. \A k \in 1..Len(seeds') : Known(events', seen', details'.seed, seeds'[k])
  BY <1>1 DEF Known
<1> QED BY <1>1, <1>2 DEF Held

\* The constructor: the new Miner's queue is what get_details reported, the
\* seed of a cancelled session left out.
LEMMA HeldNewStep ==
  ASSUME SubmitInv, PollInv, HeldInv, NewDetails \/ NewReady \/ NewCancelled
  PROVE  HeldInv'
<1>0. [Next]_vars /\ HeldTypes
  BY DEF Next, HeldInv
<1>1. /\ seed \in Nat /\ clock \in Nat /\ inst \in Nat /\ details.seed \in Nat
      /\ \A w \in Ids : wk[w].inst <= inst /\ wk[w].inst \in Nat
  <2>1. seed \in Nat /\ clock \in Nat /\ inst \in Nat /\ wk \in [Ids -> Worker]
    BY DEF SubmitInv, Shape
  <2>2. \A w \in Ids : wk[w].inst \in Nat
    BY <2>1 DEF Worker
  <2> QED BY <1>0, <2>1, <2>2 DEF HeldTypes
<1>2. UNCHANGED <<wk, job>>
  BY DEF NewDetails, NewReady, NewCancelled, workers
<1>3. CASE NewDetails
  <2>1. /\ phase' = "details" /\ details'.seed = seed
        /\ UNCHANGED <<seed, events, seeds, inst>>
    BY <1>3 DEF NewDetails, contract, messages
  <2>2. Rotations'
    BY <2>1 DEF HeldInv, Rotations
  <2>3. HeldTypes'
    BY <1>0, <1>1, <1>2, <2>1 DEF HeldTypes
  <2>4. details'.seed <= seed'
    BY <1>1, <2>1
  <2> QED BY <2>1, <2>2, <2>3, <2>4 DEF HeldInv
<1>4. CASE NewReady
  <2>1. /\ phase = "details"
        /\ UNCHANGED <<seed, events, details>>
        /\ started' = clock /\ after' = clock - 1 /\ inst' = inst + 1 /\ seen' = {}
        /\ \/ phase' = "ready" /\ seeds' = <<details.seed, details.seed + 1>>
           \/ phase' = "cancelling" /\ seeds' = seeds
    BY <1>4 DEF NewReady, contract, messages
  <2>2. Rotations' /\ details'.seed <= seed'
    BY <2>1 DEF HeldInv, Rotations
  <2>3. \A w \in Ids : ~Mines(w)' /\ wk'[w].inst <= inst'
    BY <1>1, <1>2, <2>1 DEF Mines
  <2>4. Reported' /\ Processed'
    BY <1>1, <2>1 DEF Reported, Processed, PollInv, EventTimes
  <2>5. (phase' = "ready" => Held') /\ seeds' \in Seq(Nat)
    BY <1>0, <1>1, <2>1, <2>3, HeldFresh DEF HeldTypes
  <2>6. HeldTypes'
    BY <1>0, <1>1, <1>2, <2>1, <2>3, <2>5 DEF HeldTypes
  <2> QED BY <2>2, <2>3, <2>4, <2>5, <2>6 DEF HeldInv
<1>5. CASE NewCancelled
  <2>1. /\ phase = "cancelling"
        /\ UNCHANGED <<details, after, started, inst, seen>>
        /\ \/ phase' = "ready" /\ seeds' = <<details.seed + 1>>
           \/ phase' = "down" /\ seeds' = seeds
    BY <1>5 DEF NewCancelled
  <2>2. \A w \in Ids : ~Mines(w)'
    BY <1>2, <2>1 DEF HeldInv, Mines
  <2>3. (phase' = "ready" => Held') /\ seeds' \in Seq(Nat)
    BY <1>0, <1>1, <2>1, <2>2, HeldFresh DEF HeldTypes
  <2>4. HeldTypes'
    BY <1>0, <1>2, <2>1, <2>3 DEF HeldTypes
  <2>5. /\ Rotations'
        /\ phase' # "down" => details'.seed <= seed'
        /\ phase' \in {"cancelling", "ready"} => Reported' /\ Processed'
    BY <1>0, <2>1, SameMiner
  <2> QED BY <2>2, <2>3, <2>4, <2>5 DEF HeldInv
<1> QED BY <1>3, <1>4, <1>5

\* free and a reload empty the queue.
LEMMA HeldDrop ==
  ASSUME SubmitInv, PollInv, HeldInv, Drop
  PROVE  HeldInv'
<1>0. HeldTypes /\ wk \in [Ids -> Worker]
  BY DEF HeldInv, SubmitInv, Shape
<1>1. /\ phase' = "down" /\ seeds' = <<>>
      /\ UNCHANGED <<seed, events, details, inst, job>>
  BY DEF Drop, contract, messages
<1>2. ASSUME NEW w \in Ids PROVE wk'[w].inst = wk[w].inst
  <2>1. wk[w] \in Worker
    BY <1>0
  <2>2. wk'[w] = wk[w] \/ wk'[w] = Ended(w)
    BY DEF Drop
  <2> QED BY <2>1, <2>2 DEF Ended, Worker
<1>3. HeldTypes'
  <2>1. seeds' \in Seq(Nat)
    BY <1>1
  <2>2. \A w \in Ids : wk'[w].inst <= inst'
    BY <1>0, <1>1, <1>2 DEF HeldTypes
  <2> QED BY <1>0, <1>1, <2>1, <2>2 DEF HeldTypes
<1>4. Rotations'
  BY <1>1 DEF HeldInv, Rotations
<1> QED BY <1>1, <1>3, <1>4 DEF HeldInv

LEMMA HeldInit == Init => HeldInv
<1> SUFFICES ASSUME Init PROVE HeldInv
  OBVIOUS
<1>1. /\ phase = "down" /\ seeds = <<>> /\ details.seed = 0 /\ inst = 0 /\ events = <<>>
      /\ job = [w \in Ids |-> [seed |-> 0, comp |-> 0]] /\ wk = [w \in Ids |-> NoWorker]
  BY DEF Init
<1>2. \A w \in Ids : wk[w].inst = 0
  BY <1>1 DEF NoWorker
<1>3. \A w \in Ids : job[w].seed = 0 /\ job[w].comp = 0
  BY <1>1
<1>4. HeldTypes
  BY <1>1, <1>2, <1>3 DEF HeldTypes
<1>5. Rotations
  BY <1>1 DEF Rotations
<1> QED BY <1>1, <1>4, <1>5 DEF HeldInv

LEMMA HeldInvStep == SubmitInv /\ PollInv /\ HeldInv /\ [Next]_vars => HeldInv'
BY HeldWorkerStep, HeldOtherStep, HeldQueueStep, HeldNewStep, HeldDrop DEF Next

\* No worker mines a seed the contract has not handed out, and those that
\* outlived their Miner mine one get_details knew of.
JobsInv ==
  /\ \A w \in Ids : job[w].seed <= seed + 1
  /\ phase # "down" =>
       \A w \in Ids : phase = "details" \/ wk[w].inst # inst => job[w].seed <= details.seed + 1

\* A step that starts no worker and makes no Miner.
LEMMA JobsSame ==
  ASSUME SubmitInv, HeldInv, JobsInv, [Next]_vars,
         UNCHANGED <<details, inst>>,
         phase' = phase \/ phase' = "down" \/ (phase = "cancelling" /\ phase' = "ready"),
         \A w \in Ids : job'[w].seed = job[w].seed /\ wk'[w].inst = wk[w].inst
  PROVE  JobsInv'
<1>1. seed \in Nat /\ (seed' = seed \/ seed' = seed + 1) /\ \A w \in Ids : job[w].seed \in Nat
  BY ValuesTyped, SeedEvent DEF HeldInv, HeldTypes
<1>2. \A w \in Ids : job'[w].seed <= seed' + 1
  BY <1>1 DEF JobsInv
<1>3. ASSUME phase' # "down", NEW w \in Ids, phase' = "details" \/ wk'[w].inst # inst'
      PROVE  job'[w].seed <= details'.seed + 1
  <2>1. phase # "down" /\ (phase = "details" \/ wk[w].inst # inst)
    BY <1>3
  <2> QED BY <2>1 DEF JobsInv
<1> QED BY <1>2, <1>3 DEF JobsInv

LEMMA JobsStep ==
  SubmitInv /\ PollInv /\ HeldInv /\ JobsInv /\ [Next]_vars => JobsInv'
<1> SUFFICES ASSUME SubmitInv, PollInv, HeldInv, JobsInv, [Next]_vars PROVE JobsInv'
  OBVIOUS
<1>0. /\ seed \in Nat /\ inst \in Nat /\ wk \in [Ids -> Worker] /\ HeldTypes
      /\ \A w \in Ids : job[w].seed \in Nat /\ wk[w].inst \in Nat /\ wk[w].inst <= inst
  BY DEF SubmitInv, Shape, HeldInv, HeldTypes, Worker
<1>1. ASSUME NEW w \in Ids, Step(w) \/ Mine(w) PROVE JobsInv'
  <2>1. UNCHANGED <<phase, details, inst>>
    BY <1>1 DEF Step, Run, Choose, MineEnds, Mine, Wait, TxReturns, Listen, miner, MinerButSeeds
  <2>2. /\ \A v \in Ids \ {w} : wk'[v] = wk[v]
        /\ wk'[w].inst = wk[w].inst
        /\ \A v \in Ids : job'[v].seed = job[v].seed
    BY <1>0, <1>1, WorkerMoves
  <2> QED BY <2>1, <2>2, JobsSame
<1>2. CASE \/ Tick \/ ChangeComplexity \/ Poll \/ LastPoll \/ AddTap \/ RemoveSeed \/ NewCancelled
           \/ UNCHANGED vars
           \/ \E w \in Ids : Contract(w)
           \/ \E i \in Miners : ContractCancel(i)
  <2>1. UNCHANGED <<details, inst, job, wk>>
    BY <1>2 DEF Tick, ChangeComplexity, Poll, LastPoll, AddTap, RemoveSeed, NewCancelled, vars,
                Contract, ContractSubmit, ContractVerify, ContractCancel, miner, workers
  <2>2. phase' = phase \/ phase' = "down" \/ (phase = "cancelling" /\ phase' = "ready")
    BY <1>2 DEF Tick, ChangeComplexity, Poll, LastPoll, AddTap, RemoveSeed, NewCancelled, vars,
                Contract, ContractSubmit, ContractVerify, ContractCancel, miner
  <2> QED BY <2>1, <2>2, JobsSame
<1>3. CASE Stop \/ Drop
  <2>1. UNCHANGED <<details, inst, job>> /\ (phase' = phase \/ phase' = "down")
    BY <1>3 DEF Stop, Drop, miner
  <2>2. ASSUME NEW w \in Ids PROVE wk'[w].inst = wk[w].inst
    <3>1. wk'[w] = wk[w] \/ wk'[w] = Ended(w) \/ wk'[w] = [wk[w] EXCEPT !.listed = FALSE]
      BY <1>3 DEF Stop, Drop
    <3>2. wk[w] \in Worker
      BY <1>0
    <3> QED BY <3>1, <3>2 DEF Ended, Worker
  <2> QED BY <2>1, <2>2, JobsSame
<1>4. CASE NewDetails
  <2>1. phase' = "details" /\ details'.seed = seed /\ UNCHANGED <<seed, job>>
    BY <1>4 DEF NewDetails, contract, workers
  <2> QED BY <2>1 DEF JobsInv
<1>5. CASE NewReady
  <2>1. phase = "details" /\ phase' \in {"ready", "cancelling"} /\ UNCHANGED <<seed, details, job>>
    BY <1>5 DEF NewReady, contract, workers
  <2> QED BY <2>1 DEF JobsInv
<1>6. CASE Start
  <2> DEFINE r == [NoWorker EXCEPT !.pc = "spawned", !.inst = inst, !.listed = TRUE]
             h == Head(seeds)
  <2>1. /\ phase = "ready" /\ seeds # <<>> /\ UNCHANGED <<phase, seed, details, inst>>
        /\ \E w \in Ids : /\ wk' = [wk EXCEPT ![w] = r]
                          /\ job' = [job EXCEPT ![w] = [seed |-> h, comp |-> complexity]]
    BY <1>6 DEF Start, contract
  <2>2. r.inst = inst
    BY DEF NoWorker
  <2>3. h <= seed + 1
    <3>1. /\ seeds \in Seq(Nat) /\ details.seed \in Nat /\ details.seed <= seed
          /\ Known(events, seen, details.seed, seeds[1]) /\ seen \subseteq 1..Len(events)
      <4>1. seeds \in Seq(Nat) /\ 1 \in 1..Len(seeds)
        BY <1>0, <2>1 DEF HeldTypes
      <4> QED BY <1>0, <2>1, <4>1 DEF HeldInv, HeldTypes, Held, PollInv, PollerOK
    <3>2. h = seeds[1] /\ h \in Nat
      BY <2>1, <3>1
    <3>3. \A i \in 1..Len(events) : events[i].type = "seed_updated" => events[i].val <= seed + 1
      BY DEF HeldInv, Rotations
    <3> HIDE DEF h
    <3> QED BY <1>0, <3>1, <3>2, <3>3 DEF Known
  <2> HIDE DEF r, h
  <2>4. PICK w \in Ids : /\ wk' = [wk EXCEPT ![w] = r]
                         /\ job' = [job EXCEPT ![w] = [seed |-> h, comp |-> complexity]]
    BY <2>1
  <2>5. /\ job'[w].seed = h /\ wk'[w].inst = inst
        /\ \A v \in Ids \ {w} : job'[v] = job[v] /\ wk'[v] = wk[v]
    <3>1. job = [v \in Ids |-> [seed |-> job[v].seed, comp |-> job[v].comp]]
      BY <1>0 DEF HeldTypes
    <3> QED BY <1>0, <2>2, <2>4, <3>1
  <2>6. \A v \in Ids : job'[v].seed <= seed + 1
    BY <2>3, <2>5 DEF JobsInv
  <2>7. \A v \in Ids : wk'[v].inst # inst => job'[v].seed <= details.seed + 1
    BY <2>1, <2>5 DEF JobsInv
  <2> QED BY <2>1, <2>6, <2>7 DEF JobsInv
<1> QED BY <1>1, <1>2, <1>3, <1>4, <1>5, <1>6 DEF Next

\* What the invariants say of the places a seed is in.
LEMMA HeldOnce == HeldInv /\ JobsInv => SeedsHeldOnce
<1> SUFFICES ASSUME HeldInv, JobsInv, phase = "ready", NEW x,
                    NEW a \in Holders(x), NEW b \in Holders(x), a # b
             PROVE  /\ x <= details.seed + 1
                    /\ \/ Freed(a) \/ Freed(b)
                       \/ \E i \in seen : events[i].type = "seed_updated" /\ events[i].val = x
                                          /\ events[i].at = started
  BY DEF SeedsHeldOnce
<1>1. Held
  BY DEF HeldInv
<1> DEFINE T == Twice(events, seen, details.seed, started, x)
<1>2. ASSUME NEW c \in Holders(x), ~Freed(c)
      PROVE  \/ \E k \in 1..Len(seeds) : c = <<"queue", k>> /\ seeds[k] = x
             \/ \E w \in Ids : c = <<"worker", w>> /\ Mines(w) /\ job[w].seed = x
  <2>1. CASE \E k \in 1..Len(seeds) : c = <<"queue", k>> /\ seeds[k] = x
    BY <2>1
  <2>2. CASE \E w \in Ids : c = <<"worker", w>> /\ wk[w].pc \in Active /\ job[w].seed = x
    BY <1>2, <2>2 DEF Freed, Mines
  <2> QED BY <2>1, <2>2 DEF Holders
<1>3. ASSUME NEW c \in Holders(x), Freed(c) PROVE x <= details.seed + 1
  <2>1. PICK w \in Ids : c = <<"worker", w>> /\ wk[w].inst # inst
    BY <1>3 DEF Freed
  <2>2. job[w].seed = x
    BY <2>1 DEF Holders
  <2> QED BY <2>1, <2>2 DEF JobsInv
<1>4. ASSUME ~Freed(a), ~Freed(b) PROVE T
  <2> HIDE DEF T
  <2>1. CASE \E k \in 1..Len(seeds) : a = <<"queue", k>> /\ seeds[k] = x
    <3>1. PICK k \in 1..Len(seeds) : a = <<"queue", k>> /\ seeds[k] = x
      BY <2>1
    <3>2. ASSUME NEW j \in 1..Len(seeds), b = <<"queue", j>>, seeds[j] = x PROVE T
      <4>1. j # k
        BY <3>1, <3>2
      <4> QED BY <1>1, <3>1, <3>2, <4>1 DEF Held, T
    <3>3. ASSUME NEW w \in Ids, Mines(w), job[w].seed = x PROVE T
      BY <1>1, <3>1, <3>3 DEF Held, T
    <3> QED BY <1>2, <1>4, <3>2, <3>3
  <2>2. CASE \E w \in Ids : a = <<"worker", w>> /\ Mines(w) /\ job[w].seed = x
    <3>1. PICK w \in Ids : a = <<"worker", w>> /\ Mines(w) /\ job[w].seed = x
      BY <2>2
    <3>2. ASSUME NEW j \in 1..Len(seeds), seeds[j] = x PROVE T
      BY <1>1, <3>1, <3>2 DEF Held, T
    <3>3. ASSUME NEW v \in Ids, b = <<"worker", v>>, Mines(v), job[v].seed = x PROVE T
      <4>1. v # w
        BY <3>1, <3>3
      <4> QED BY <1>1, <3>1, <3>3, <4>1 DEF Held, T
    <3> QED BY <1>2, <1>4, <3>2, <3>3
  <2> QED BY <1>2, <1>4, <2>1, <2>2
<1> QED BY <1>3, <1>4 DEF Twice

\* No seed is queued or mined twice, whatever is stopped, given back, removed
\* or polled, workers that outlived their Miner included, except a seed that
\* get_details had reported: a freed Miner's worker may still mine it, or
\* Miner::new took events_after_dt in the second of its SeedUpdated, which the
\* poller then brings again.
THEOREM SeedsHeldOnceAlways == Spec => []SeedsHeldOnce
<1>1. Init => PollInv
  BY DEF Init, PollInv, EventTimes
<1>2. Init => JobsInv
  <2> SUFFICES ASSUME Init PROVE JobsInv
    OBVIOUS
  <2>1. phase = "down" /\ seed = 1 /\ \A w \in Ids : job[w].seed = 0
    BY DEF Init
  <2> QED BY <2>1 DEF JobsInv
<1> QED BY <1>1, <1>2, HeldOnce, HeldInit, HeldInvStep, JobsStep, SubmitInit, SubmitStep,
           PollInvStep, PTL DEF Spec
-----------------------------------------------------------------------------
(* The calm application: no failures, one call at a time, complexity only   *)
(* changes between sessions.  The seeds wait in line: one is submitted, the *)
(* next computed, the rest queued, and a worker leaves the line only once   *)
(* the seed its session released has been polled.                           *)

\* A worker that still mines.
Computer(w) == wk[w].pc \in Queued \cup Computing

\* One whose session the contract has not accepted yet.
Fresh(w) == wk[w].pc = "sending" \/ commit = w

\* One whose session the contract has accepted.
Past(w) == wk[w].pc \in {"listening", "proving"} /\ commit # w

\* One that has not been asked for its proof.
Unanswered(w) == wk[w].pc = "sending" \/ (wk[w].pc = "listening" /\ commit = w)

\* A SeedUpdated event that has not been polled.
Unseen(i) == i \in 1..Len(events) /\ events[i].type = "seed_updated" /\ i \notin seen

AllSeen == \A i \in 1..Len(events) : ~Unseen(i)

\* How far a worker is and what became of its message.
MessageOK(w) ==
  /\ wk[w].pc \in {"none", "spawned", "choosing", "mining", "waiting"} => tx[w] = "none"
  /\ wk[w].pc = "sending" => (tx[w] = "submit" /\ commit = 0) \/ (tx[w] = "ok" /\ commit = w)
  /\ wk[w].pc = "listening" => tx[w] = "ok" /\ (commit = 0 \/ commit = w)
  /\ wk[w].pc = "proving" => (tx[w] = "verify" /\ commit = w) \/ (tx[w] = "ok" /\ commit = 0)
  /\ wk[w].pc = "done" => tx[w] = "none" \/ tx[w] = "ok"
  /\ wk[w].pc \in Active => wk[w].listed /\ wk[w].inst = inst
  /\ wk[w].listed => wk[w].pc \in Active

CommitOK == commit # 0 => commit \in Ids /\ wk[commit].pc \in Submitting

\* The contract has nothing to say to a worker before its session is there.
Silent(w) ==
  tx[w] \in {"none", "submit"} =>
    /\ \A i \in 1..Len(events) : events[i].w # w
    /\ \A k \in 1..Len(queue[w]) : queue[w][k] \notin {"interval", "accepted"}

\* The event that asks the worker for its proof.
IntervalFor(w, i) == events[i].w = w /\ events[i].type = "interval"

\* The interval is announced, delivered and answered once.
OneInterval(w) ==
  /\ \A i, j \in 1..Len(events) : IntervalFor(w, i) /\ IntervalFor(w, j) => i = j
  /\ \A i \in 1..Len(events) :
       IntervalFor(w, i) /\ i \notin seen
         => Unanswered(w) /\ \A k \in 1..Len(queue[w]) : queue[w][k] # "interval"
  /\ \A j, k \in 1..Len(queue[w]) :
       queue[w][j] = "interval" /\ queue[w][k] = "interval" => j = k /\ Unanswered(w)

\* A result comes with the seed it released.
ResultOK(w) ==
  /\ \A i \in 1..Len(events) :
       events[i].w = w /\ events[i].type = "accepted" => Past(w) \/ wk[w].pc = "done"
  /\ \A k \in 1..Len(queue[w]) : queue[w][k] = "accepted" => Past(w) /\ AllSeen
  /\ \A k \in 1..Len(queue[w]) : queue[w][k] # "rejected"

WorkersOK ==
  /\ queue \in [Ids -> Seq(Commands \cup EventTypes)]
  /\ \A w \in Ids : MessageOK(w) /\ Silent(w) /\ OneInterval(w) /\ ResultOK(w)
  /\ CommitOK
  /\ \A v, w \in Ids : Computer(v) /\ Computer(w) => v = w

\* At most one released seed has not been polled, the newest; the worker that
\* released it is still there.
OneUnseen ==
  /\ \A i, j \in 1..Len(events) : Unseen(i) /\ Unseen(j) => i = j
  /\ \A i \in 1..Len(events) : Unseen(i) => events[i].val = seed + 1 /\ \E w \in Ids : Past(w)
  /\ \A i, k \in 1..Len(events) :
       Unseen(i) /\ events[k].type = "accepted" /\ k \notin seen => k <= i

\* The newest seed the Miner was told of, and the last one it took out of
\* its queue.
Newest == IF AllSeen THEN seed + 1 ELSE seed
LastTaken == Newest - Len(seeds)

Submits  == IF \E w \in Ids : Fresh(w) THEN 1 ELSE 0
Computes == IF \E w \in Ids : Computer(w) THEN 1 ELSE 0

\* The seeds are in line, behind the contract's.
InLine ==
  /\ \A k \in 1..Len(seeds) : seeds[k] = LastTaken + k
  /\ \A w \in Ids : Computer(w) => job[w].seed = LastTaken
  /\ LastTaken = seed - 1 + Submits + Computes

\* The complexity a session is mined with is the one it is verified with.
ComplexityOK(w) ==
  /\ Fresh(w) => job[w].seed = seed /\ job[w].comp = compOld
  /\ Past(w) => compOld = comp
  /\ wk[w].pc = "choosing" /\ Submits = 1 => wk[w].inFlight
  /\ wk[w].pc \in {"mining", "waiting"} => job[w].comp = IF Submits = 1 THEN comp ELSE compOld

\* Before the Miner is ready nothing has happened.
NotYet ==
  /\ phase \in {"down", "details"}
  /\ \A w \in Ids : wk[w].pc = "none"
  /\ \A i \in 1..Len(events) : events[i].type = "complexity_updated"
  /\ phase = "details" => details.commit = 0 /\ details.seed = seed

CalmInv ==
  /\ lingering = {}
  /\ NoSessionRejected
  /\ WorkersOK
  /\ NotYet \/ (phase = "ready" /\ OneUnseen /\ InLine /\ \A w \in Ids : ComplexityOK(w))

\* A step of one worker that leaves the contract and the poller alone.
LEMMA CalmWorker ==
  ASSUME CalmInv, phase = "ready", NEW w \in Ids,
         UNCHANGED <<phase, events, seen, seed, commit, inst, lingering>>,
         queue' \in [Ids -> Seq(Commands \cup EventTypes)],
         \A v \in Ids \ {w} : wk'[v] = wk[v] /\ tx'[v] = tx[v] /\ queue'[v] = queue[v],
         MessageOK(w)', Silent(w)', OneInterval(w)', ResultOK(w)',
         commit = w => wk'[w].pc \in Submitting,
         Computer(w)' => Computer(w) \/ \A v \in Ids : ~Computer(v),
         Past(w) => Past(w)' \/ AllSeen,
         InLine', \A v \in Ids : ComplexityOK(v)'
  PROVE  CalmInv'
<1>0. WorkersOK /\ NoSessionRejected /\ OneUnseen /\ lingering = {}
  BY DEF CalmInv, NotYet
<1>1. ASSUME NEW v \in Ids, v # w
      PROVE  /\ MessageOK(v)' /\ Silent(v)' /\ OneInterval(v)' /\ ResultOK(v)'
             /\ Computer(v)' <=> Computer(v)
             /\ Past(v)' <=> Past(v)
  <2>0. wk'[v] = wk[v] /\ tx'[v] = tx[v] /\ queue'[v] = queue[v]
    BY <1>1
  <2>1. MessageOK(v) /\ Silent(v) /\ OneInterval(v) /\ ResultOK(v)
    BY <1>0 DEF WorkersOK
  <2>2. MessageOK(v)'
    BY <2>0, <2>1 DEF MessageOK
  <2>3. Silent(v)'
    BY <2>0, <2>1 DEF Silent
  <2>4. OneInterval(v)'
    BY <2>0, <2>1 DEF OneInterval, IntervalFor, Unanswered
  <2>5. Past(v)' <=> Past(v)
    BY <2>0 DEF Past
  <2>6. AllSeen' <=> AllSeen
    BY DEF AllSeen, Unseen
  <2>7. ResultOK(v)'
    BY <2>0, <2>1, <2>5, <2>6 DEF ResultOK
  <2>8. Computer(v)' <=> Computer(v)
    BY <2>0 DEF Computer
  <2> QED BY <2>2, <2>3, <2>4, <2>5, <2>7, <2>8
<1>2. CommitOK'
  BY <1>0 DEF CommitOK, WorkersOK
<1>3. \A u, v \in Ids : Computer(u)' /\ Computer(v)' => u = v
  BY <1>0, <1>1 DEF WorkersOK
<1>4. WorkersOK'
  BY <1>1, <1>2, <1>3 DEF WorkersOK
<1>5. OneUnseen'
  <2>1. \A i : Unseen(i)' <=> Unseen(i)
    BY DEF Unseen
  <2>2. ASSUME NEW i \in 1..Len(events), Unseen(i)
        PROVE  events[i].val = seed + 1 /\ \E v \in Ids : Past(v)'
    <3>1. PICK u \in Ids : Past(u)
      BY <1>0, <2>2 DEF OneUnseen
    <3>2. Past(u)'
      BY <1>1, <2>2, <3>1 DEF AllSeen
    <3>3. events[i].val = seed + 1
      BY <1>0, <2>2 DEF OneUnseen
    <3> QED BY <3>2, <3>3
  <2> QED BY <1>0, <2>1, <2>2 DEF OneUnseen
<1>6. NoSessionRejected'
  BY <1>0 DEF NoSessionRejected
<1> QED BY <1>0, <1>4, <1>5, <1>6 DEF CalmInv

\* If the worker keeps its place in line, so do the others.
LEMMA SameLine ==
  ASSUME CalmInv, phase = "ready", NEW w \in Ids,
         UNCHANGED <<events, seen, seed, commit, comp, compOld, seeds>>,
         \A v \in Ids \ {w} : wk'[v] = wk[v] /\ job'[v] = job[v],
         job'[w].seed = job[w].seed,
         Computer(w)' <=> Computer(w), Fresh(w)' <=> Fresh(w)
  PROVE  /\ Submits' = Submits /\ InLine'
         /\ \A v \in Ids \ {w} : ComplexityOK(v)'
<1>0. InLine /\ \A v \in Ids : ComplexityOK(v)
  BY DEF CalmInv, NotYet
<1>1. /\ \A v \in Ids : Computer(v)' <=> Computer(v)
      /\ \A v \in Ids : Fresh(v)' <=> Fresh(v)
      /\ \A v \in Ids \ {w} : Past(v)' <=> Past(v)
  BY DEF Computer, Fresh, Past
<1>2. Submits' = Submits /\ Computes' = Computes
  BY <1>1 DEF Submits, Computes
<1>3. LastTaken' = LastTaken
  BY DEF LastTaken, Newest, AllSeen, Unseen
<1>4. InLine'
  <2>1. \A v \in Ids : job'[v].seed = job[v].seed
    OBVIOUS
  <2> QED BY <1>0, <1>1, <1>2, <1>3, <2>1 DEF InLine
<1>5. ASSUME NEW v \in Ids \ {w} PROVE ComplexityOK(v)'
  <2>1. ComplexityOK(v) /\ wk'[v] = wk[v] /\ job'[v] = job[v]
    BY <1>0
  <2> QED BY <1>1, <1>2, <2>1 DEF ComplexityOK
<1> QED BY <1>2, <1>4, <1>5

\* The queue s continues as t: d commands have been received.
Shifted(s, t, d) == \A k \in 1..Len(t) : k + d \in 1..Len(s) /\ t[k] = s[k + d]

LEMMA ReceivedShifts ==
  ASSUME queue \in [Ids -> Seq(Commands \cup EventTypes)], NEW w \in Ids, Received(w)
  PROVE  /\ queue' \in [Ids -> Seq(Commands \cup EventTypes)]
         /\ \A v \in Ids \ {w} : queue'[v] = queue[v]
         /\ \E d \in {0, 1} : /\ Shifted(queue[w], queue'[w], d)
                              /\ queue[w] # <<>> => d = 1
<1> DEFINE C == Commands \cup EventTypes
           s == queue[w]
           t == IF s = <<>> THEN s ELSE Tail(s)
<1>1. s \in Seq(C) /\ queue' = [queue EXCEPT ![w] = t]
  BY DEF Received
<1> HIDE DEF C, s
<1>2. t \in Seq(C)
  BY <1>1
<1>3. CASE s = <<>>
  <2>1. Shifted(s, t, 0)
    BY <1>1, <1>3 DEF Shifted
  <2> QED BY <1>1, <1>2, <1>3, <2>1 DEF C, s
<1>4. CASE s # <<>>
  <2>1. Shifted(s, t, 1)
    BY <1>1, <1>4 DEF Shifted
  <2> QED BY <1>1, <1>2, <1>4, <2>1 DEF C, s
<1> QED BY <1>3, <1>4

\* A worker that only receives commands, and stays on its side of the answer
\* and of the result.
LEMMA KeepsCommands ==
  ASSUME WorkersOK, NEW w \in Ids, UNCHANGED <<events, seen>>, NEW d \in Nat,
         queue'[w] \in Seq(Commands \cup EventTypes),
         Shifted(queue[w], queue'[w], d), wk[w].pc # "done",
         tx'[w] \in {"none", "submit"} => tx[w] \in {"none", "submit"},
         Unanswered(w) => Unanswered(w)', Past(w) => Past(w)'
  PROVE  Silent(w)' /\ OneInterval(w)' /\ ResultOK(w)'
<1>0. Silent(w) /\ OneInterval(w) /\ ResultOK(w) /\ queue[w] \in Seq(Commands \cup EventTypes)
  BY DEF WorkersOK
<1>1. \A k \in 1..Len(queue'[w]) : k + d \in 1..Len(queue[w]) /\ queue'[w][k] = queue[w][k + d]
  BY DEF Shifted
<1>2. Silent(w)'
  BY <1>0, <1>1 DEF Silent
<1>3. OneInterval(w)'
  <2>1. ASSUME NEW j \in 1..Len(queue'[w]), NEW k \in 1..Len(queue'[w]),
               queue'[w][j] = "interval", queue'[w][k] = "interval"
        PROVE  j = k /\ Unanswered(w)'
    <3>1. j + d = k + d /\ Unanswered(w)
      BY <1>0, <1>1, <2>1 DEF OneInterval, IntervalFor
    <3>2. j \in Int /\ k \in Int
      BY <1>0
    <3> QED BY <3>1, <3>2
  <2>2. ASSUME NEW i \in 1..Len(events), IntervalFor(w, i), i \notin seen
        PROVE  Unanswered(w)' /\ \A k \in 1..Len(queue'[w]) : queue'[w][k] # "interval"
    BY <1>0, <1>1, <2>2 DEF OneInterval, IntervalFor
  <2>3. \A i, j \in 1..Len(events) : IntervalFor(w, i) /\ IntervalFor(w, j) => i = j
    BY <1>0 DEF OneInterval, IntervalFor
  <2> QED BY <2>1, <2>2, <2>3 DEF OneInterval, IntervalFor
<1>4. ResultOK(w)'
  <2>1. AllSeen' <=> AllSeen
    BY DEF AllSeen, Unseen
  <2>2. \A k \in 1..Len(queue'[w]) : queue'[w][k] = "accepted" => Past(w)' /\ AllSeen'
    BY <1>0, <1>1, <2>1 DEF ResultOK
  <2>3. \A k \in 1..Len(queue'[w]) : queue'[w][k] # "rejected"
    BY <1>0, <1>1 DEF ResultOK
  <2>4. \A i \in 1..Len(events) : events[i].w = w /\ events[i].type = "accepted" => Past(w)'
    BY <1>0 DEF ResultOK
  <2> QED BY <2>2, <2>3, <2>4 DEF ResultOK
<1> QED BY <1>2, <1>3, <1>4

\* What is known of a worker of a ready Miner.
LEMMA CalmFacts ==
  ASSUME SubmitInv, CalmInv, NEW w \in Ids, wk[w].pc # "none"
  PROVE  /\ phase = "ready" /\ WorkersOK /\ OneUnseen /\ InLine
         /\ \A v \in Ids : ComplexityOK(v)
         /\ MessageOK(w) /\ wk \in [Ids -> Worker] /\ wk[w] \in Worker /\ 0 \notin Ids
         /\ tx \in [Ids -> TxStates]
BY BoundsAssumption DEF CalmInv, NotYet, WorkersOK, SubmitInv, Shape, Ids

\* A step of the worker that keeps its place in line.
LEMMA CalmSame ==
  ASSUME SubmitInv, HeldInv, CalmInv, NEW w \in Ids, wk[w].pc # "none",
         UNCHANGED <<phase, events, seen, seed, commit, comp, compOld, inst, lingering, seeds>>,
         queue' \in [Ids -> Seq(Commands \cup EventTypes)],
         \A v \in Ids \ {w} : /\ wk'[v] = wk[v] /\ tx'[v] = tx[v] /\ queue'[v] = queue[v]
                              /\ job'[v] = job[v],
         job'[w].seed = job[w].seed,
         MessageOK(w)', Silent(w)', OneInterval(w)', ResultOK(w)',
         commit = w => wk'[w].pc \in Submitting,
         Computer(w)' <=> Computer(w), Fresh(w)' <=> Fresh(w),
         Past(w) => Past(w)' \/ AllSeen,
         ComplexityOK(w)'
  PROVE  CalmInv'
<1>1. phase = "ready"
  BY CalmFacts
<1>2. InLine' /\ \A v \in Ids \ {w} : ComplexityOK(v)'
  BY <1>1, SameLine
<1> QED BY <1>1, <1>2, CalmWorker

\* The first stretch and the choice of the complexity.
LEMMA CalmRun ==
  ASSUME SubmitInv, HeldInv, CalmInv, NEW w \in Ids, Run(w)
  PROVE  CalmInv'
<1>0. wk[w].pc = "spawned"
  BY DEF Run, At
<1>1. /\ phase = "ready" /\ WorkersOK /\ OneUnseen /\ InLine
      /\ \A v \in Ids : ComplexityOK(v)
      /\ MessageOK(w) /\ wk \in [Ids -> Worker] /\ wk[w] \in Worker /\ 0 \notin Ids
  BY <1>0, CalmFacts
<1>2. UNCHANGED <<phase, events, seen, seed, commit, comp, compOld, inst, lingering, seeds, queue, tx, job>>
  BY DEF Run, contract, messages, miner
<1>3. /\ wk'[w].pc = "choosing" /\ wk'[w].listed = wk[w].listed /\ wk'[w].inst = wk[w].inst
      /\ wk'[w].inFlight = (InStatus(wk[w].inst, Submitting) \ {w} # {})
      /\ \A v \in Ids \ {w} : wk'[v] = wk[v]
  BY <1>1 DEF Run, Worker
<1>4. commit # w
  BY <1>0, <1>1 DEF WorkersOK, CommitOK, Submitting
<1>5. /\ Computer(w)' /\ Computer(w) /\ ~Fresh(w) /\ ~Fresh(w)' /\ ~Past(w) /\ ~Past(w)'
      /\ ~Unanswered(w)
  BY <1>0, <1>2, <1>3, <1>4 DEF Computer, Fresh, Past, Unanswered, Queued, Computing
<1>6. MessageOK(w)'
  BY <1>0, <1>1, <1>2, <1>3 DEF MessageOK, Active, Queued, Computing
<1>7. queue' \in [Ids -> Seq(Commands \cup EventTypes)] /\ Shifted(queue[w], queue'[w], 0)
  <2>1. queue[w] \in Seq(Commands \cup EventTypes) /\ queue'[w] = queue[w]
    BY <1>1, <1>2 DEF WorkersOK
  <2>2. \A k \in 1..Len(queue[w]) : k + 0 = k
    BY <2>1
  <2> QED BY <1>1, <1>2, <2>1, <2>2 DEF WorkersOK, Shifted
<1>8. Silent(w)' /\ OneInterval(w)' /\ ResultOK(w)'
  BY <1>0, <1>1, <1>2, <1>5, <1>7, KeepsCommands
<1>9. ComplexityOK(w)'
  <2>1. ASSUME Submits' = 1 PROVE wk'[w].inFlight
    <3>1. PICK v \in Ids : Fresh(v)'
      BY <2>1 DEF Submits
    <3>2. v # w /\ wk[v].pc \in Submitting
      BY <1>1, <1>2, <1>3, <1>5, <3>1 DEF Fresh, WorkersOK, CommitOK, Submitting
    <3>3. MessageOK(v) /\ wk[v].pc \in Active /\ MessageOK(w) /\ wk[w].pc \in Active
      BY <1>0, <1>1, <3>2 DEF WorkersOK, Active, Queued
    <3>4. v \in InStatus(wk[w].inst, Submitting)
      BY <3>2, <3>3 DEF MessageOK, InStatus, Listed
    <3> QED BY <1>3, <3>2, <3>4
  <2> QED BY <1>3, <1>5, <2>1 DEF ComplexityOK
<1> QED BY <1>0, <1>2, <1>3, <1>4, <1>5, <1>6, <1>7, <1>8, <1>9, CalmSame

LEMMA CalmChoose ==
  ASSUME SubmitInv, HeldInv, CalmInv, Env = {}, NEW w \in Ids, Choose(w)
  PROVE  CalmInv'
<1>0. wk[w].pc = "choosing"
  BY DEF Choose, At
<1>1. /\ phase = "ready" /\ WorkersOK /\ OneUnseen /\ InLine
      /\ \A v \in Ids : ComplexityOK(v)
      /\ MessageOK(w) /\ wk \in [Ids -> Worker] /\ wk[w] \in Worker /\ 0 \notin Ids
  BY <1>0, CalmFacts
<1>2. /\ UNCHANGED <<phase, events, seen, seed, commit, comp, compOld, inst, lingering, seeds, queue, tx>>
      /\ job' = [job EXCEPT ![w].comp = SelectSessionComplexity(w)]
  BY DEF Choose, contract, messages, miner
<1>3. /\ wk'[w].pc = "mining" /\ wk'[w].listed = wk[w].listed /\ wk'[w].inst = wk[w].inst
      /\ \A v \in Ids \ {w} : wk'[v] = wk[v]
  BY <1>1 DEF Choose, GoTo, Worker
<1>4. /\ job'[w].seed = job[w].seed /\ job'[w].comp = SelectSessionComplexity(w)
      /\ \A v \in Ids \ {w} : job'[v] = job[v]
  <2> DEFINE c == SelectSessionComplexity(w)
  <2>1. /\ job = [v \in Ids |-> [seed |-> job[v].seed, comp |-> job[v].comp]]
        /\ job' = [job EXCEPT ![w].comp = c]
    BY <1>2 DEF HeldInv, HeldTypes
  <2> HIDE DEF c
  <2>2. job[w] = [seed |-> job[w].seed, comp |-> job[w].comp]
    BY <2>1
  <2>3. job'[w] = [job[w] EXCEPT !.comp = c] /\ \A v \in Ids \ {w} : job'[v] = job[v]
    BY <2>1
  <2>4. job'[w] = [seed |-> job[w].seed, comp |-> c]
    BY <2>2, <2>3
  <2> QED BY <2>3, <2>4 DEF c
<1>5. commit # w
  BY <1>0, <1>1 DEF WorkersOK, CommitOK, Submitting
<1>6. /\ Computer(w)' /\ Computer(w) /\ ~Fresh(w) /\ ~Fresh(w)' /\ ~Past(w) /\ ~Past(w)'
      /\ ~Unanswered(w)
  BY <1>0, <1>2, <1>3, <1>5 DEF Computer, Fresh, Past, Unanswered, Queued, Computing
<1>7. MessageOK(w)'
  BY <1>0, <1>1, <1>2, <1>3 DEF MessageOK, Active, Queued, Computing
<1>8. queue' \in [Ids -> Seq(Commands \cup EventTypes)] /\ Shifted(queue[w], queue'[w], 0)
  <2>1. queue[w] \in Seq(Commands \cup EventTypes) /\ queue'[w] = queue[w]
    BY <1>1, <1>2 DEF WorkersOK
  <2>2. \A k \in 1..Len(queue[w]) : k + 0 = k
    BY <2>1
  <2> QED BY <1>1, <1>2, <2>1, <2>2 DEF WorkersOK, Shifted
<1>9. Silent(w)' /\ OneInterval(w)' /\ ResultOK(w)'
  BY <1>0, <1>1, <1>2, <1>6, <1>8, KeepsCommands
<1>10. Submits' = Submits
  BY <1>1, <1>2, <1>3, <1>4, <1>6, SameLine
<1>11. ComplexityOK(w)'
  <2>1. seed \in Nat /\ job[w].seed = LastTaken /\ LastTaken = seed + Submits
    <3>1. Computes = 1
      BY <1>6 DEF Computes
    <3>2. seed \in Nat
      BY ValuesTyped
    <3>3. Submits \in {0, 1} /\ LastTaken = seed - 1 + Submits + Computes /\ job[w].seed = LastTaken
      BY <1>1, <1>6 DEF InLine, Submits
    <3> QED BY <3>1, <3>2, <3>3
  <2>2. CASE Submits = 1
    <3>1. wk[w].inFlight /\ job[w].seed = seed + 1 /\ job[w].seed # seed
      BY <1>0, <1>1, <2>1, <2>2 DEF ComplexityOK
    <3>2. SelectSessionComplexity(w) = comp
      BY <3>1 DEF SelectSessionComplexity
    <3> QED BY <1>2, <1>3, <1>4, <1>6, <1>10, <2>2, <3>2 DEF ComplexityOK
  <2>3. CASE Submits # 1
    <3>1. job[w].seed = seed /\ job[w].seed # seed + 1
      BY <2>1, <2>3 DEF Submits
    <3>2. SelectSessionComplexity(w) = compOld
      BY <3>1 DEF SelectSessionComplexity
    <3> QED BY <1>2, <1>3, <1>4, <1>6, <1>10, <2>3, <3>2 DEF ComplexityOK
  <2> QED BY <2>2, <2>3
<1> QED BY <1>0, <1>2, <1>3, <1>4, <1>5, <1>6, <1>7, <1>8, <1>9, <1>11, CalmSame

\* A round of the computation loop.
LEMMA CalmMine ==
  ASSUME SubmitInv, HeldInv, CalmInv, NEW w \in Ids, Mine(w)
  PROVE  CalmInv'
<1>0. wk[w].pc = "mining"
  BY DEF Mine, At
<1>1. /\ phase = "ready" /\ WorkersOK /\ OneUnseen /\ InLine
      /\ \A v \in Ids : ComplexityOK(v)
      /\ MessageOK(w) /\ wk \in [Ids -> Worker] /\ wk[w] \in Worker /\ 0 \notin Ids
  BY <1>0, CalmFacts
<1>2. /\ UNCHANGED <<phase, events, seen, seed, commit, comp, compOld, inst, lingering, seeds, tx, job>>
      /\ Received(w)
  BY DEF Mine, contract, messages, miner
<1>3. /\ wk'[w].pc = "mining" /\ wk'[w].listed = wk[w].listed /\ wk'[w].inst = wk[w].inst
      /\ \A v \in Ids \ {w} : wk'[v] = wk[v]
  BY <1>0, <1>1, ComputedWorker DEF Mine
<1>4. commit # w
  BY <1>0, <1>1 DEF WorkersOK, CommitOK, Submitting
<1>5. /\ Computer(w)' /\ Computer(w) /\ ~Fresh(w) /\ ~Fresh(w)' /\ ~Past(w) /\ ~Past(w)'
      /\ ~Unanswered(w)
  BY <1>0, <1>2, <1>3, <1>4 DEF Computer, Fresh, Past, Unanswered, Queued, Computing
<1>6. MessageOK(w)'
  BY <1>0, <1>1, <1>2, <1>3 DEF MessageOK, Active, Queued, Computing
<1>7. PICK d \in {0, 1} : /\ queue' \in [Ids -> Seq(Commands \cup EventTypes)]
                          /\ \A v \in Ids \ {w} : queue'[v] = queue[v]
                          /\ Shifted(queue[w], queue'[w], d)
  BY <1>1, <1>2, ReceivedShifts DEF WorkersOK
<1>8. Silent(w)' /\ OneInterval(w)' /\ ResultOK(w)'
  <2>1. d \in Nat /\ queue'[w] \in Seq(Commands \cup EventTypes) /\ wk[w].pc # "done"
    BY <1>0, <1>7
  <2> QED BY <1>1, <1>2, <1>5, <1>7, <2>1, KeepsCommands
<1>9. Submits' = Submits
  BY <1>1, <1>2, <1>3, <1>5, SameLine
<1>10. ComplexityOK(w)'
  BY <1>0, <1>1, <1>2, <1>3, <1>5, <1>9 DEF ComplexityOK
<1> QED BY <1>0, <1>2, <1>3, <1>4, <1>5, <1>6, <1>7, <1>8, <1>10, CalmSame

\* From the end of the computation, or of the wait, to submit_session: the
\* wait loop sees no session, so the worker's seed is the contract's.
LEMMA CalmSubmit ==
  ASSUME SubmitInv, HeldInv, CalmInv, NEW w \in Ids, wk[w].pc \in {"mining", "waiting"},
         NEW r \in Worker, r.listed = wk[w].listed, r.inst = wk[w].inst, SubmitRoot(w, r),
         UNCHANGED <<phase, events, seen, seed, commit, comp, compOld, inst, lingering, seeds, job>>,
         NEW d \in Nat, queue' \in [Ids -> Seq(Commands \cup EventTypes)],
         \A v \in Ids \ {w} : queue'[v] = queue[v], Shifted(queue[w], queue'[w], d)
  PROVE  CalmInv'
<1>1. /\ phase = "ready" /\ WorkersOK /\ OneUnseen /\ InLine
      /\ \A v \in Ids : ComplexityOK(v)
      /\ MessageOK(w) /\ wk \in [Ids -> Worker] /\ wk[w] \in Worker /\ 0 \notin Ids
      /\ tx \in [Ids -> TxStates]
  BY CalmFacts
<1>2. commit # w
  BY <1>1 DEF WorkersOK, CommitOK, Submitting
<1>3. /\ Computer(w) /\ ~Fresh(w) /\ ~Past(w) /\ ~Unanswered(w)
  BY <1>2 DEF Computer, Fresh, Past, Unanswered, Queued, Computing
<1>4. queue'[w] \in Seq(Commands \cup EventTypes) /\ wk[w].pc # "done" /\ wk[w].pc # "none"
  OBVIOUS
<1>5. tx[w] = "none" /\ wk[w].listed /\ wk[w].inst = inst
  BY <1>1 DEF MessageOK, Active, Computing
<1>6. CASE ~MaySubmit(w)
  <2>1. /\ wk'[w].pc = "waiting" /\ wk'[w].listed = wk[w].listed /\ wk'[w].inst = wk[w].inst
        /\ \A v \in Ids \ {w} : wk'[v] = wk[v]
        /\ UNCHANGED tx
    BY <1>1, <1>6 DEF SubmitRoot, Worker
  <2>2. Computer(w)' /\ ~Fresh(w)' /\ ~Past(w)'
    BY <1>2, <2>1 DEF Computer, Fresh, Past, Queued, Computing
  <2>3. MessageOK(w)'
    BY <1>5, <2>1 DEF MessageOK, Active, Queued, Computing
  <2>4. Silent(w)' /\ OneInterval(w)' /\ ResultOK(w)'
    BY <1>1, <1>3, <1>4, <2>1, KeepsCommands
  <2>5. Submits' = Submits
    BY <1>1, <1>3, <2>1, <2>2, SameLine
  <2>6. ComplexityOK(w)'
    BY <1>1, <2>1, <2>2, <2>5 DEF ComplexityOK
  <2> QED BY <1>2, <1>3, <1>4, <2>1, <2>2, <2>3, <2>4, <2>6, CalmSame
<1>7. CASE MaySubmit(w)
  <2>1. /\ wk'[w].pc = "sending" /\ wk'[w].listed = wk[w].listed /\ wk'[w].inst = wk[w].inst
        /\ \A v \in Ids \ {w} : wk'[v] = wk[v]
        /\ tx'[w] = "submit" /\ \A v \in Ids \ {w} : tx'[v] = tx[v]
    BY <1>1, <1>7 DEF SubmitRoot, Worker
  <2>2. \A v \in Ids : wk[v].pc \notin Submitting
    <3> SUFFICES ASSUME NEW v \in Ids, wk[v].pc \in Submitting PROVE FALSE
      OBVIOUS
    <3>1. wk[v].inst # wk[w].inst
      BY <1>7, WaitSeesAll
    <3>2. MessageOK(v) /\ wk[v].pc \in Active
      BY <1>1 DEF WorkersOK, Active
    <3> QED BY <1>5, <3>1, <3>2 DEF MessageOK
  <2>3. commit = 0
    BY <1>1, <2>2 DEF WorkersOK, CommitOK
  <2>4. /\ \A v \in Ids : ~Fresh(v) /\ ~Past(v)
        /\ \A v \in Ids : Fresh(v)' <=> v = w
        /\ \A v \in Ids : ~Past(v)'
    <3>1. ASSUME NEW v \in Ids PROVE ~Fresh(v) /\ ~Past(v)
      BY <1>1, <2>2, <2>3 DEF Fresh, Past, Submitting
    <3>2. ASSUME NEW v \in Ids PROVE (Fresh(v)' <=> v = w) /\ ~Past(v)'
      <4>1. CASE v = w
        BY <2>1, <4>1 DEF Fresh, Past
      <4>2. CASE v # w
        BY <2>1, <3>1, <4>2 DEF Fresh, Past
      <4> QED BY <4>1, <4>2
    <3> QED BY <3>1, <3>2
  <2>5. \A v \in Ids : Computer(v) <=> v = w
    BY <1>1, <1>3 DEF WorkersOK
  <2>6. \A v \in Ids : ~Computer(v)'
    <3>1. ~Computer(w)'
      BY <2>1 DEF Computer, Queued, Computing
    <3>2. \A v \in Ids \ {w} : Computer(v)' <=> Computer(v)
      BY <2>1 DEF Computer
    <3> QED BY <2>5, <3>1, <3>2
  <2>7. Submits = 0 /\ Submits' = 1 /\ Computes = 1 /\ Computes' = 0
    BY <2>4, <2>5, <2>6 DEF Submits, Computes
  <2>8. LastTaken' = LastTaken
    BY DEF LastTaken, Newest, AllSeen, Unseen
  <2>9. InLine' /\ job[w].seed = seed
    <3>1. seed \in Nat
      BY ValuesTyped
    <3>2. LastTaken = seed - 1 + 0 + 1 /\ job[w].seed = LastTaken
      BY <1>1, <1>3, <2>7 DEF InLine
    <3>3. LastTaken' = seed - 1 + 1 + 0
      BY <2>8, <3>1, <3>2
    <3>4. job[w].seed = seed
      BY <3>1, <3>2
    <3> QED BY <1>1, <2>6, <2>7, <2>8, <3>3, <3>4 DEF InLine
  <2>10. ComplexityOK(w) /\ job[w].comp = compOld
    BY <1>1, <2>7 DEF ComplexityOK
  <2>11. ASSUME NEW v \in Ids PROVE ComplexityOK(v)'
    <3>1. CASE v = w
      BY <2>1, <2>4, <2>9, <2>10, <3>1 DEF ComplexityOK
    <3>2. CASE v # w
      BY <2>4, <2>6, <3>2 DEF ComplexityOK, Computer, Queued, Computing
    <3> QED BY <3>1, <3>2
  <2>12. MessageOK(w)'
    BY <1>5, <2>1, <2>3 DEF MessageOK, Active, Submitting
  <2>13. Silent(w)' /\ OneInterval(w)' /\ ResultOK(w)'
    BY <1>1, <1>3, <1>4, <1>5, <2>1, KeepsCommands
  <2> QED BY <1>1, <1>2, <2>1, <2>4, <2>6, <2>9, <2>11, <2>12, <2>13, CalmWorker
<1> QED BY <1>6, <1>7

\* shutdown_worker of a worker that is not submitting, or whose result came.
LEMMA EndedOK ==
  ASSUME WorkersOK, NEW w \in Ids, wk[w] \in Worker, wk \in [Ids -> Worker], Shutdown(w),
         UNCHANGED <<events, seen, tx>>, ~Unanswered(w),
         tx[w] = "none" \/ tx[w] = "ok"
  PROVE  /\ MessageOK(w)' /\ Silent(w)' /\ OneInterval(w)' /\ ResultOK(w)'
         /\ wk'[w].pc = "done" /\ \A v \in Ids \ {w} : wk'[v] = wk[v] /\ queue'[v] = queue[v]
         /\ queue' \in [Ids -> Seq(Commands \cup EventTypes)]
<1>0. Silent(w) /\ OneInterval(w) /\ ResultOK(w)
      /\ queue \in [Ids -> Seq(Commands \cup EventTypes)]
  BY DEF WorkersOK
<1>1. wk'[w].pc = "done" /\ wk'[w].listed = FALSE /\ \A v \in Ids \ {w} : wk'[v] = wk[v]
  BY DEF Shutdown, Ended, Worker
<1>2. /\ queue'[w] = <<>> /\ \A v \in Ids \ {w} : queue'[v] = queue[v]
      /\ queue' \in [Ids -> Seq(Commands \cup EventTypes)]
  <2>1. <<>> \in Seq(Commands \cup EventTypes)
    OBVIOUS
  <2> QED BY <1>0, <2>1 DEF Shutdown
<1>3. MessageOK(w)'
  BY <1>1 DEF MessageOK, Active, Queued, Computing, Submitting
<1>4. \A k \in 1..Len(queue'[w]) : FALSE
  BY <1>2
<1>5. Silent(w)'
  BY <1>0, <1>4 DEF Silent
<1>6. OneInterval(w)'
  BY <1>0, <1>4 DEF OneInterval, IntervalFor
<1>7. ResultOK(w)'
  BY <1>1, <1>4 DEF ResultOK
<1> QED BY <1>1, <1>2, <1>3, <1>5, <1>6, <1>7

\* A worker without leaves steps back in line.
LEMMA CalmReturn ==
  ASSUME SubmitInv, HeldInv, CalmInv, NEW w \in Ids, wk[w].pc = "mining",
         Shutdown(w), ReturnSeed(w), UNCHANGED tx,
         UNCHANGED <<phase, events, seen, seed, commit, comp, compOld, inst, lingering>>
  PROVE  CalmInv'
<1>1. /\ phase = "ready" /\ WorkersOK /\ OneUnseen /\ InLine
      /\ \A v \in Ids : ComplexityOK(v)
      /\ MessageOK(w) /\ wk \in [Ids -> Worker] /\ wk[w] \in Worker /\ 0 \notin Ids
  BY CalmFacts
<1>2. commit # w
  BY <1>1 DEF WorkersOK, CommitOK, Submitting
<1>3. Computer(w) /\ ~Fresh(w) /\ ~Past(w) /\ ~Unanswered(w)
  BY <1>2 DEF Computer, Fresh, Past, Unanswered, Queued, Computing
<1>4. tx[w] = "none" /\ wk[w].inst = inst
  BY <1>1 DEF MessageOK, Active, Computing
<1>5. /\ MessageOK(w)' /\ Silent(w)' /\ OneInterval(w)' /\ ResultOK(w)'
      /\ wk'[w].pc = "done" /\ \A v \in Ids \ {w} : wk'[v] = wk[v] /\ queue'[v] = queue[v]
      /\ queue' \in [Ids -> Seq(Commands \cup EventTypes)]
  BY <1>1, <1>3, <1>4, EndedOK
<1>6. job' = job /\ seeds' = <<job[w].seed>> \o seeds
  BY <1>4 DEF Shutdown, ReturnSeed
<1>7. ~Computer(w)' /\ ~Fresh(w)' /\ ~Past(w)'
  BY <1>2, <1>5 DEF Computer, Fresh, Past, Queued, Computing
<1>8. /\ \A v \in Ids : ~Computer(v)'
      /\ \A v \in Ids : Fresh(v)' <=> Fresh(v)
      /\ \A v \in Ids : Past(v)' <=> Past(v)
  <2>1. \A v \in Ids \ {w} : ~Computer(v)
    BY <1>1, <1>3 DEF WorkersOK
  <2>2. ASSUME NEW v \in Ids PROVE ~Computer(v)' /\ (Fresh(v)' <=> Fresh(v)) /\ (Past(v)' <=> Past(v))
    <3>1. CASE v = w
      BY <1>3, <1>7, <3>1
    <3>2. CASE v # w
      <4>1. wk'[v] = wk[v] /\ ~Computer(v)
        BY <1>5, <2>1, <3>2
      <4> QED BY <4>1 DEF Computer, Fresh, Past
    <3> QED BY <3>1, <3>2
  <2> QED BY <2>2
<1>9. Submits' = Submits /\ Computes = 1 /\ Computes' = 0
  BY <1>3, <1>8 DEF Submits, Computes
<1>10. Newest' = Newest
  BY DEF Newest, AllSeen, Unseen
<1>11. InLine'
  <2> DEFINE h == job[w].seed
  <2>1. /\ seed \in Nat /\ Submits \in {0, 1} /\ seeds \in Seq(Nat) /\ Len(seeds) \in Nat
        /\ h \in Nat /\ Newest \in Int
    BY ValuesTyped DEF Submits, HeldInv, HeldTypes, Newest
  <2>2. /\ h = LastTaken /\ LastTaken = seed - 1 + Submits + 1
        /\ LastTaken = Newest - Len(seeds)
        /\ \A k \in 1..Len(seeds) : seeds[k] = LastTaken + k
    BY <1>1, <1>3, <1>9 DEF InLine, LastTaken
  <2> HIDE DEF h
  <2>3. seeds' = <<h>> \o seeds
    BY <1>6 DEF h
  <2>4. Len(seeds') = Len(seeds) + 1 /\ seeds'[1] = h
    BY <2>1, <2>3
  <2>5. LastTaken' = Newest - Len(seeds')
    BY <1>10 DEF LastTaken
  <2>6. LastTaken' = LastTaken - 1 /\ LastTaken \in Int
    BY <2>1, <2>2, <2>4, <2>5
  <2>7. ASSUME NEW k \in 1..Len(seeds') PROVE seeds'[k] = LastTaken' + k
    <3>1. CASE k = 1
      BY <2>2, <2>4, <2>6, <3>1
    <3>2. CASE k # 1
      <4>1. <<h>> \in Seq(Nat) /\ Len(<<h>>) = 1
        BY <2>1
      <4>2. k \in Nat /\ k > 1 /\ k <= Len(seeds) + 1
        BY <2>1, <2>4, <3>2
      <4>3. (<<h>> \o seeds)[k] = seeds[k - Len(<<h>>)]
        BY <2>1, <4>1, <4>2
      <4>4. seeds'[k] = seeds[k - 1] /\ k - 1 \in 1..Len(seeds)
        BY <2>1, <2>3, <4>1, <4>2, <4>3
      <4>5. seeds[k - 1] = LastTaken + (k - 1)
        BY <2>2, <4>4
      <4> QED BY <2>6, <4>2, <4>4, <4>5
    <3> QED BY <3>1, <3>2
  <2>8. LastTaken' = seed' - 1 + Submits' + Computes'
    BY <1>9, <2>1, <2>2, <2>6
  <2> QED BY <1>8, <2>7, <2>8 DEF InLine
<1>12. ASSUME NEW v \in Ids PROVE ComplexityOK(v)'
  BY <1>1, <1>6, <1>8, <1>9 DEF ComplexityOK, Computer, Queued, Computing
<1> QED BY <1>1, <1>2, <1>3, <1>5, <1>7, <1>11, <1>12, CalmWorker

\* submit_session or verify_session returns; neither is refused.
LEMMA CalmTxReturns ==
  ASSUME SubmitInv, HeldInv, CalmInv, Env = {}, NEW w \in Ids, TxReturns(w)
  PROVE  CalmInv'
<1>0. wk[w].pc \in {"sending", "proving"}
  BY DEF TxReturns
<1>1. /\ phase = "ready" /\ WorkersOK /\ OneUnseen /\ InLine
      /\ \A v \in Ids : ComplexityOK(v)
      /\ MessageOK(w) /\ wk \in [Ids -> Worker] /\ wk[w] \in Worker /\ 0 \notin Ids
  BY <1>0, CalmFacts
<1>2. tx[w] = "ok" /\ wk' = GoTo(w, "listening")
  BY <1>0, <1>1 DEF TxReturns, MessageOK
<1>3. UNCHANGED <<phase, events, seen, seed, commit, comp, compOld, inst, lingering, seeds, queue, tx, job>>
  <2>1. tx[w] # "refused"
    BY <1>2
  <2> QED BY <2>1 DEF TxReturns, contract, messages, miner
<1>4. /\ wk'[w].pc = "listening" /\ wk'[w].listed = wk[w].listed /\ wk'[w].inst = wk[w].inst
      /\ \A v \in Ids \ {w} : wk'[v] = wk[v]
  BY <1>1, <1>2 DEF GoTo, Worker
<1>5. commit = w \/ (commit = 0 /\ wk[w].pc = "proving" /\ commit # w)
  BY <1>0, <1>1, <1>2 DEF MessageOK
<1>6. /\ ~Computer(w)' /\ ~Computer(w) /\ (Fresh(w)' <=> Fresh(w)) /\ (Past(w)' <=> Past(w))
      /\ (Unanswered(w) => Unanswered(w)')
  BY <1>0, <1>3, <1>4, <1>5 DEF Computer, Fresh, Past, Unanswered, Queued, Computing
<1>7. MessageOK(w)' /\ wk'[w].pc \in Submitting
  BY <1>0, <1>1, <1>2, <1>3, <1>4, <1>5 DEF MessageOK, Active, Submitting
<1>8. queue' \in [Ids -> Seq(Commands \cup EventTypes)] /\ Shifted(queue[w], queue'[w], 0)
  <2>1. queue[w] \in Seq(Commands \cup EventTypes) /\ queue'[w] = queue[w]
    BY <1>1, <1>3 DEF WorkersOK
  <2>2. \A k \in 1..Len(queue[w]) : k + 0 = k
    BY <2>1
  <2> QED BY <1>1, <1>3, <2>1, <2>2 DEF WorkersOK, Shifted
<1>9. Silent(w)' /\ OneInterval(w)' /\ ResultOK(w)'
  BY <1>0, <1>1, <1>3, <1>6, <1>8, KeepsCommands
<1>10. Submits' = Submits
  BY <1>1, <1>3, <1>4, <1>6, SameLine
<1>11. ComplexityOK(w)'
  BY <1>1, <1>3, <1>4, <1>6, <1>10 DEF ComplexityOK
<1> QED BY <1>0, <1>3, <1>4, <1>6, <1>7, <1>8, <1>9, <1>11, CalmSame

\* The last loop: the interval comes once, the result with its seed.
LEMMA CalmListen ==
  ASSUME SubmitInv, HeldInv, CalmInv, NEW w \in Ids, Listen(w)
  PROVE  CalmInv'
<1>0. wk[w].pc = "listening" /\ queue[w] # <<>>
  BY DEF Listen, At
<1>1. /\ phase = "ready" /\ WorkersOK /\ OneUnseen /\ InLine
      /\ \A v \in Ids : ComplexityOK(v)
      /\ MessageOK(w) /\ wk \in [Ids -> Worker] /\ wk[w] \in Worker /\ 0 \notin Ids
      /\ tx \in [Ids -> TxStates]
  BY <1>0, CalmFacts
<1>2. UNCHANGED <<phase, events, seen, seed, commit, comp, compOld, inst, lingering, seeds>>
  BY DEF Listen, contract, messages, miner
<1>3. /\ queue \in [Ids -> Seq(Commands \cup EventTypes)] /\ queue[w] \in Seq(Commands \cup EventTypes)
      /\ Silent(w) /\ OneInterval(w) /\ ResultOK(w)
  BY <1>1 DEF WorkersOK
<1>4. 1 \in 1..Len(queue[w]) /\ Head(queue[w]) = queue[w][1]
  BY <1>0, <1>3
<1>5. /\ tx[w] = "ok" /\ (commit = 0 \/ commit = w) /\ wk[w].listed /\ wk[w].inst = inst
  BY <1>0, <1>1 DEF MessageOK, Active, Submitting
<1>6. CASE Receives(w, "interval") /\ Listen(w)
  <2>1. wk' = GoTo(w, "proving") /\ Received(w) /\ tx' = [tx EXCEPT ![w] = "verify"] /\ job' = job
    BY <1>6 DEF Listen, Receives
  <2>2. queue[w][1] = "interval" /\ Unanswered(w) /\ commit = w
    <3>1. queue[w][1] = "interval"
      BY <1>4, <1>6 DEF Receives
    <3>2. Unanswered(w)
      BY <1>3, <1>4, <3>1 DEF OneInterval, IntervalFor
    <3> QED BY <1>0, <3>1, <3>2 DEF Unanswered
  <2>3. /\ wk'[w].pc = "proving" /\ wk'[w].listed = wk[w].listed /\ wk'[w].inst = wk[w].inst
        /\ \A v \in Ids \ {w} : wk'[v] = wk[v]
        /\ tx'[w] = "verify" /\ \A v \in Ids \ {w} : tx'[v] = tx[v]
    BY <1>1, <2>1 DEF GoTo, Worker
  <2>4. PICK d \in {0, 1} : /\ queue' \in [Ids -> Seq(Commands \cup EventTypes)]
                            /\ \A v \in Ids \ {w} : queue'[v] = queue[v]
                            /\ Shifted(queue[w], queue'[w], d) /\ d = 1
    BY <1>0, <1>3, <2>1, ReceivedShifts
  <2>5. \A k \in 1..Len(queue'[w]) :
           k + 1 \in 1..Len(queue[w]) /\ k + 1 # 1 /\ queue'[w][k] = queue[w][k + 1]
    <3>1. queue'[w] \in Seq(Commands \cup EventTypes)
      BY <2>4
    <3> QED BY <2>4, <3>1 DEF Shifted
  <2>6. \A k \in 1..Len(queue'[w]) : queue'[w][k] # "interval" /\ queue'[w][k] # "accepted"
                                     /\ queue'[w][k] # "rejected"
    <3>1. \A k \in 1..Len(queue[w]) : queue[w][k] = "interval" => k = 1
      BY <1>3, <1>4, <2>2 DEF OneInterval, IntervalFor
    <3>2. \A k \in 1..Len(queue[w]) : queue[w][k] # "accepted" /\ queue[w][k] # "rejected"
      BY <1>3, <2>2 DEF ResultOK, Past
    <3> QED BY <2>5, <3>1, <3>2
  <2>7. /\ ~Computer(w)' /\ ~Computer(w) /\ Fresh(w)' /\ Fresh(w) /\ ~Past(w)' /\ ~Past(w)
    BY <1>0, <1>2, <2>2, <2>3 DEF Computer, Fresh, Past, Queued, Computing
  <2>8. MessageOK(w)' /\ wk'[w].pc \in Submitting
    BY <1>2, <1>5, <2>2, <2>3 DEF MessageOK, Active, Submitting
  <2>9. Silent(w)'
    BY <2>3 DEF Silent
  <2>10. OneInterval(w)'
    <3>1. \A i \in 1..Len(events) : events[i].w = w /\ events[i].type = "interval" => i \in seen
      BY <1>3, <1>4, <2>2 DEF OneInterval, IntervalFor
    <3> QED BY <1>2, <1>3, <2>6, <3>1 DEF OneInterval, IntervalFor
  <2>11. ResultOK(w)'
    BY <1>0, <1>2, <1>3, <2>6, <2>7 DEF ResultOK
  <2>12. Submits' = Submits
    BY <1>1, <1>2, <2>1, <2>3, <2>7, SameLine
  <2>13. ComplexityOK(w)'
    BY <1>1, <1>2, <2>1, <2>3, <2>7, <2>12 DEF ComplexityOK
  <2> QED BY <1>0, <1>2, <2>1, <2>3, <2>4, <2>7, <2>8, <2>9, <2>10, <2>11, <2>13, CalmSame
<1>7. CASE Receives(w, "accepted") \/ Receives(w, "rejected")
  <2>1. queue[w][1] = "accepted"
    BY <1>3, <1>4, <1>7 DEF Receives, ResultOK
  <2>2. Past(w) /\ AllSeen
    BY <1>3, <1>4, <2>1 DEF ResultOK
  <2>3. Shutdown(w) /\ UNCHANGED tx /\ job' = job
    BY <1>7 DEF Listen, Receives, Shutdown
  <2>4. ~Unanswered(w) /\ commit # w
    BY <1>0, <2>2 DEF Unanswered, Past
  <2>5. /\ MessageOK(w)' /\ Silent(w)' /\ OneInterval(w)' /\ ResultOK(w)'
        /\ wk'[w].pc = "done" /\ \A v \in Ids \ {w} : wk'[v] = wk[v] /\ queue'[v] = queue[v]
        /\ queue' \in [Ids -> Seq(Commands \cup EventTypes)]
    BY <1>1, <1>2, <1>5, <2>3, <2>4, EndedOK
  <2>6. ~Computer(w)' /\ ~Computer(w) /\ ~Fresh(w)' /\ ~Fresh(w) /\ ~Past(w)'
    BY <1>0, <1>2, <2>4, <2>5 DEF Computer, Fresh, Past, Queued, Computing
  <2>7. ComplexityOK(w)'
    BY <2>5, <2>6 DEF ComplexityOK
  <2> QED BY <1>0, <1>2, <2>2, <2>3, <2>4, <2>5, <2>6, <2>7, CalmSame
<1>8. CASE Received(w) /\ UNCHANGED <<wk, job, tx>>
  <2>1. PICK d \in {0, 1} : /\ queue' \in [Ids -> Seq(Commands \cup EventTypes)]
                            /\ \A v \in Ids \ {w} : queue'[v] = queue[v]
                            /\ Shifted(queue[w], queue'[w], d)
    BY <1>3, <1>8, ReceivedShifts
  <2>2. /\ Computer(w)' <=> Computer(w)
        /\ Fresh(w)' <=> Fresh(w)
        /\ Past(w)' <=> Past(w)
        /\ Unanswered(w)' <=> Unanswered(w)
    BY <1>2, <1>8 DEF Computer, Fresh, Past, Unanswered
  <2>3. MessageOK(w)' /\ wk'[w].pc \in Submitting
    BY <1>0, <1>1, <1>2, <1>8 DEF MessageOK, Submitting
  <2>4. Silent(w)' /\ OneInterval(w)' /\ ResultOK(w)'
    <3>1. d \in Nat /\ queue'[w] \in Seq(Commands \cup EventTypes) /\ wk[w].pc # "done"
      BY <1>0, <2>1
    <3> QED BY <1>1, <1>2, <1>8, <2>1, <2>2, <3>1, KeepsCommands
  <2>5. Submits' = Submits
    BY <1>1, <1>2, <1>8, <2>2, SameLine
  <2>6. ComplexityOK(w)'
    BY <1>1, <1>2, <1>8, <2>2, <2>5 DEF ComplexityOK
  <2> QED BY <1>0, <1>2, <1>8, <2>1, <2>2, <2>3, <2>4, <2>6, CalmSame
<1> QED BY <1>6, <1>7, <1>8 DEF Listen

\* The workers' steps keep the invariant.
LEMMA CalmWorkerStep ==
  ASSUME SubmitInv, HeldInv, CalmInv, Env = {}, NEW w \in Ids, Step(w) \/ Mine(w)
  PROVE  CalmInv'
<1>1. CASE MineEnds(w)
  <2>0. wk[w].pc = "mining"
    BY <1>1 DEF MineEnds, At
  <2>1. /\ WorkersOK /\ wk \in [Ids -> Worker]
    BY <2>0, CalmFacts
  <2>2. UNCHANGED <<phase, events, seen, seed, commit, comp, compOld, inst, lingering>>
    BY <1>1 DEF MineEnds, MinerButSeeds, contract, messages
  <2>3. CASE SubmitRoot(w, Computed(w)) /\ Received(w) /\ UNCHANGED <<seeds, job>>
    <3>1. /\ Computed(w) \in Worker /\ Computed(w).listed = wk[w].listed
          /\ Computed(w).inst = wk[w].inst
      BY <2>1, ComputedWorker
    <3>2. PICK d \in {0, 1} : /\ queue' \in [Ids -> Seq(Commands \cup EventTypes)]
                              /\ \A v \in Ids \ {w} : queue'[v] = queue[v]
                              /\ Shifted(queue[w], queue'[w], d)
      BY <2>1, <2>3, ReceivedShifts DEF WorkersOK
    <3>3. d \in Nat /\ wk[w].pc \in {"mining", "waiting"}
      BY <2>0
    <3> QED BY <2>2, <2>3, <3>1, <3>2, <3>3, CalmSubmit
  <2>4. CASE Shutdown(w) /\ ReturnSeed(w) /\ UNCHANGED tx
    BY <2>0, <2>2, <2>4, CalmReturn
  <2> QED BY <1>1, <2>3, <2>4 DEF MineEnds
<1>2. CASE Wait(w)
  <2>0. wk[w].pc \in {"mining", "waiting"} /\ SubmitRoot(w, wk[w])
    BY <1>2 DEF Wait, At
  <2>1. WorkersOK /\ wk[w] \in Worker
    BY <2>0, CalmFacts
  <2>2. UNCHANGED <<phase, events, seen, seed, commit, comp, compOld, inst, lingering, seeds, job, queue>>
    BY <1>2 DEF Wait, contract, messages, miner
  <2>3. queue' \in [Ids -> Seq(Commands \cup EventTypes)] /\ Shifted(queue[w], queue'[w], 0)
    <3>1. queue[w] \in Seq(Commands \cup EventTypes) /\ queue'[w] = queue[w]
      BY <2>1, <2>2 DEF WorkersOK
    <3>2. \A k \in 1..Len(queue[w]) : k + 0 = k
      BY <3>1
    <3> QED BY <2>1, <2>2, <3>1, <3>2 DEF WorkersOK, Shifted
  <2> QED BY <2>0, <2>1, <2>2, <2>3, CalmSubmit
<1> QED BY <1>1, <1>2, CalmRun, CalmChoose, CalmMine, CalmTxReturns, CalmListen DEF Step

\* An event that releases no seed.
LEMMA AppendQuiet ==
  ASSUME events \in Seq(Events), NEW e, events' = Append(events, e), e.type # "seed_updated",
         seen' = seen, seen \subseteq 1..Len(events)
  PROVE  /\ Len(events') = Len(events) + 1 /\ Len(events) \in Nat
         /\ \A i \in 1..Len(events) : i \in 1..Len(events') /\ events'[i] = events[i]
         /\ \A i \in 1..Len(events') : \/ i \in 1..Len(events) /\ events'[i] = events[i]
                                       \/ events'[i] = e /\ i \notin 1..Len(events)
         /\ \A i : Unseen(i)' <=> Unseen(i)
         /\ AllSeen' <=> AllSeen
<1>1. /\ Len(events') = Len(events) + 1 /\ Len(events) \in Nat
      /\ \A i \in 1..Len(events) : i \in 1..Len(events') /\ events'[i] = events[i]
  OBVIOUS
<1>2. \A i \in 1..Len(events') : \/ i \in 1..Len(events) /\ events'[i] = events[i]
                                 \/ events'[i] = e /\ i \notin 1..Len(events)
  OBVIOUS
<1>3. \A i : Unseen(i)' <=> Unseen(i)
  BY <1>1, <1>2 DEF Unseen
<1>4. AllSeen' <=> AllSeen
  BY <1>1, <1>3 DEF AllSeen, Unseen
<1> QED BY <1>1, <1>2, <1>3, <1>4

\* Only one worker of the calm Miner submits.
LEMMA CalmAlone ==
  ASSUME SubmitInv, WorkersOK, NEW v \in Ids, NEW w \in Ids, v # w, wk[w].pc \in Submitting
  PROVE  wk[v].pc \notin Submitting
<1> SUFFICES ASSUME wk[v].pc \in Submitting PROVE FALSE
  OBVIOUS
<1>1. MessageOK(v) /\ MessageOK(w) /\ wk[v].pc \in Active /\ wk[w].pc \in Active
  BY DEF WorkersOK, Active
<1>2. wk[v].inst = wk[w].inst
  BY <1>1 DEF MessageOK
<1> QED BY <1>2 DEF SubmitInv, OneSubmission

\* A worker that has answered its interval gets no other.
LEMMA NoNewInterval ==
  ASSUME NEW v \in Ids, OneInterval(v), ~Unanswered(v), UNCHANGED <<queue, seen>>,
         \A i \in 1..Len(events') : events'[i].w = v /\ events'[i].type = "interval"
                                     => i \in 1..Len(events) /\ events'[i] = events[i]
  PROVE  OneInterval(v)'
<1>1. ASSUME NEW i \in 1..Len(events'), IntervalFor(v, i)'
      PROVE  i \in 1..Len(events) /\ IntervalFor(v, i)
  BY <1>1 DEF IntervalFor
<1>2. \A i, j \in 1..Len(events') : IntervalFor(v, i)' /\ IntervalFor(v, j)' => i = j
  BY <1>1 DEF OneInterval
<1>3. \A i \in 1..Len(events') : IntervalFor(v, i)' => i \in seen'
  BY <1>1 DEF OneInterval
<1>4. \A k \in 1..Len(queue'[v]) : queue'[v][k] # "interval"
  BY DEF OneInterval
<1> QED BY <1>2, <1>3, <1>4 DEF OneInterval

\* submit_session is never refused.
LEMMA CalmContractSubmit ==
  ASSUME SubmitInv, PollInv, CalmInv, NEW w \in Ids, ContractSubmit(w)
  PROVE  CalmInv'
<1>0. tx[w] = "submit" /\ WorkersOK /\ MessageOK(w) /\ wk \in [Ids -> Worker] /\ tx \in [Ids -> TxStates]
  BY DEF ContractSubmit, CalmInv, WorkersOK, SubmitInv, Shape
<1>1. wk[w].pc = "sending" /\ commit = 0 /\ 0 \notin Ids
  <2>1. wk[w].pc \in Pcs
    BY <1>0 DEF Worker
  <2> QED BY <1>0, <2>1, BoundsAssumption DEF Pcs, MessageOK, Ids
<1>2. /\ phase = "ready" /\ OneUnseen /\ InLine /\ \A v \in Ids : ComplexityOK(v)
  BY <1>1, CalmFacts
<1> DEFINE e == Event("interval", w, 0)
<1>3. /\ commit' = w /\ events' = Append(events, e) /\ tx'[w] = "ok"
      /\ \A v \in Ids \ {w} : tx'[v] = tx[v]
      /\ UNCHANGED <<phase, seen, seed, comp, compOld, inst, lingering, seeds, wk, job, queue>>
  BY <1>0, <1>1 DEF ContractSubmit, miner, workers
<1>4. e.type = "interval" /\ e.w = w
  BY DEF Event
<1> HIDE DEF e
<1>5. /\ Len(events') = Len(events) + 1 /\ Len(events) \in Nat
      /\ \A i \in 1..Len(events) : i \in 1..Len(events') /\ events'[i] = events[i]
      /\ \A i \in 1..Len(events') : \/ i \in 1..Len(events) /\ events'[i] = events[i]
                                    \/ events'[i] = e /\ i \notin 1..Len(events)
      /\ \A i : Unseen(i)' <=> Unseen(i)
      /\ AllSeen' <=> AllSeen
  <2>1. events \in Seq(Events) /\ seen \subseteq 1..Len(events)
    BY <1>2 DEF SubmitInv, Shape, PollInv, PollerOK
  <2>2. e.type # "seed_updated"
    BY <1>4
  <2> QED BY <1>3, <2>1, <2>2, AppendQuiet
<1>6. ASSUME NEW v \in Ids, v # w
      PROVE  MessageOK(v)' /\ Silent(v)' /\ OneInterval(v)' /\ ResultOK(v)'
  <2>0. MessageOK(v) /\ Silent(v) /\ OneInterval(v) /\ ResultOK(v)
    BY <1>0 DEF WorkersOK
  <2>1. wk[v].pc \notin Submitting
    BY <1>0, <1>1, <1>6, CalmAlone DEF Submitting
  <2>2. MessageOK(v)'
    BY <1>3, <1>6, <2>0, <2>1 DEF MessageOK, Submitting
  <2>3. e.w # v
    BY <1>4, <1>6
  <2>4. Silent(v)'
    BY <1>3, <1>5, <1>6, <2>0, <2>3 DEF Silent
  <2>5. ~Unanswered(v) /\ ~Past(v)
    BY <2>1, <1>1 DEF Unanswered, Past, Submitting
  <2>6. OneInterval(v)'
    BY <1>3, <1>5, <2>0, <2>3, <2>5, NoNewInterval
  <2>7. ResultOK(v)'
    BY <1>3, <1>5, <2>0, <2>3, <2>5 DEF ResultOK
  <2> QED BY <2>2, <2>4, <2>6, <2>7
<1>7. MessageOK(w)' /\ Silent(w)' /\ OneInterval(w)' /\ ResultOK(w)'
  <2>0. MessageOK(w) /\ Silent(w) /\ OneInterval(w) /\ ResultOK(w)
    BY <1>0 DEF WorkersOK
  <2>1. MessageOK(w)'
    BY <1>1, <1>3, <2>0 DEF MessageOK
  <2>2. Silent(w)'
    BY <1>3 DEF Silent
  <2>3. /\ \A i \in 1..Len(events) : events[i].w # w
        /\ \A k \in 1..Len(queue[w]) : queue[w][k] \notin {"interval", "accepted"}
    BY <1>0, <2>0 DEF Silent
  <2>4. Unanswered(w)'
    BY <1>1, <1>3 DEF Unanswered
  <2>5. \A i \in 1..Len(events') : events'[i].w = w => i = Len(events) + 1 /\ events'[i] = e
    BY <1>5, <2>3
  <2>6. OneInterval(w)'
    <3>1. \A i, j \in 1..Len(events') : IntervalFor(w, i)' /\ IntervalFor(w, j)' => i = j
      BY <2>5 DEF IntervalFor
    <3>2. \A k \in 1..Len(queue'[w]) : queue'[w][k] # "interval"
      BY <1>3, <2>3
    <3> QED BY <2>4, <3>1, <3>2 DEF OneInterval, IntervalFor
  <2>7. ResultOK(w)'
    BY <1>3, <1>4, <2>0, <2>3, <2>5 DEF ResultOK
  <2> QED BY <2>1, <2>2, <2>6, <2>7
<1>8. WorkersOK'
  <2>1. CommitOK'
    BY <1>1, <1>3 DEF CommitOK, Submitting
  <2>2. \A u, v \in Ids : Computer(u)' /\ Computer(v)' => u = v
    BY <1>0, <1>3 DEF WorkersOK, Computer
  <2> QED BY <1>0, <1>3, <1>6, <1>7, <2>1, <2>2 DEF WorkersOK
<1>9. /\ \A v \in Ids : Fresh(v)' <=> Fresh(v)
      /\ \A v \in Ids : Past(v)' <=> Past(v)
      /\ \A v \in Ids : Computer(v)' <=> Computer(v)
  <2>1. \A v \in Ids : v # w => wk[v].pc \notin Submitting
    BY <1>0, <1>1, CalmAlone DEF Submitting
  <2> QED BY <1>1, <1>3, <2>1 DEF Fresh, Past, Computer, Submitting
<1>10. Submits' = Submits /\ Computes' = Computes /\ LastTaken' = LastTaken
  BY <1>3, <1>5, <1>9 DEF Submits, Computes, LastTaken, Newest
<1>11. InLine'
  BY <1>2, <1>3, <1>9, <1>10 DEF InLine
<1>12. ASSUME NEW v \in Ids PROVE ComplexityOK(v)'
  BY <1>2, <1>3, <1>9, <1>10 DEF ComplexityOK
<1>13. OneUnseen'
  <2>1. \A i : Unseen(i) => i \in 1..Len(events)
    BY DEF Unseen
  <2>2. \A i, j \in 1..Len(events') : Unseen(i)' /\ Unseen(j)' => i = j
    BY <1>2, <1>5, <2>1 DEF OneUnseen
  <2>3. ASSUME NEW i \in 1..Len(events'), Unseen(i)'
        PROVE  events'[i].val = seed' + 1 /\ \E v \in Ids : Past(v)'
    BY <1>2, <1>3, <1>5, <1>9, <2>1, <2>3 DEF OneUnseen
  <2>4. ASSUME NEW i \in 1..Len(events'), NEW k \in 1..Len(events'), Unseen(i)',
               events'[k].type = "accepted", k \notin seen
        PROVE  k <= i
    <3>1. k \in 1..Len(events) /\ events'[k] = events[k]
      BY <1>4, <1>5, <2>4
    <3> QED BY <1>2, <1>5, <2>1, <2>4, <3>1 DEF OneUnseen
  <2> QED BY <1>3, <2>2, <2>3, <2>4 DEF OneUnseen
<1>14. NoSessionRejected' /\ lingering' = {}
  BY <1>3, <1>4, <1>5 DEF NoSessionRejected, CalmInv
<1> QED BY <1>2, <1>3, <1>8, <1>11, <1>12, <1>13, <1>14 DEF CalmInv

\* verify_session accepts: the seed and the complexity are the contract's.
LEMMA CalmContractVerify ==
  ASSUME SubmitInv, PollInv, HeldInv, CalmInv, NEW w \in Ids, ContractVerify(w)
  PROVE  CalmInv'
<1>0. tx[w] = "verify" /\ WorkersOK /\ MessageOK(w) /\ wk \in [Ids -> Worker] /\ tx \in [Ids -> TxStates]
  BY DEF ContractVerify, CalmInv, WorkersOK, SubmitInv, Shape
<1>1. wk[w].pc = "proving" /\ commit = w /\ 0 \notin Ids
  <2>1. wk[w].pc \in Pcs
    BY <1>0 DEF Worker
  <2> QED BY <1>0, <2>1, BoundsAssumption DEF Pcs, MessageOK, Ids
<1>2. /\ phase = "ready" /\ OneUnseen /\ InLine /\ \A v \in Ids : ComplexityOK(v)
  BY <1>1, CalmFacts
<1>3. job[w].seed = seed /\ job[w].comp = compOld
  BY <1>1, <1>2 DEF ComplexityOK, Fresh
<1> DEFINE a == Event("accepted", w, 0)
           u == Event("seed_updated", 0, seed + 2)
<1>4. /\ seed' = seed + 1 /\ events' = Append(Append(events, a), u)
      /\ compOld' = comp /\ commit' = 0
      /\ tx'[w] = "ok" /\ \A v \in Ids \ {w} : tx'[v] = tx[v]
      /\ UNCHANGED <<phase, seen, comp, inst, lingering, seeds, wk, job, queue>>
  BY <1>0, <1>1, <1>3 DEF ContractVerify, Rotate, miner, workers
<1>5. /\ a.type = "accepted" /\ a.w = w
      /\ u.type = "seed_updated" /\ u.w = 0 /\ u.val = seed + 2
  BY DEF Event
<1> HIDE DEF a, u
<1>6. /\ events \in Seq(Events) /\ seen \subseteq 1..Len(events) /\ Len(events) \in Nat /\ seed \in Nat
  BY <1>2 DEF SubmitInv, Shape, PollInv, PollerOK
<1>7. /\ Len(events') = Len(events) + 2
      /\ \A i \in 1..Len(events) : i \in 1..Len(events') /\ events'[i] = events[i]
      /\ events'[Len(events) + 1] = a /\ events'[Len(events) + 2] = u
  BY <1>4, <1>6
<1>8. \A i \in 1..Len(events') : \/ i \in 1..Len(events) /\ events'[i] = events[i]
                                 \/ i = Len(events) + 1 /\ events'[i] = a
                                 \/ i = Len(events) + 2 /\ events'[i] = u
  BY <1>6, <1>7
<1>9. \A v \in Ids : v # w => wk[v].pc \notin Submitting
  BY <1>0, <1>1, CalmAlone DEF Submitting
<1>10. \A v \in Ids : ~Past(v)
  BY <1>1, <1>9 DEF Past, Submitting
<1>11. AllSeen
  BY <1>2, <1>10 DEF AllSeen, OneUnseen
<1>12. ASSUME NEW i PROVE Unseen(i)' <=> i = Len(events) + 2
  <2>1. ~Unseen(i) \/ i \notin 1..Len(events)
    BY <1>11 DEF AllSeen
  <2>2. CASE i = Len(events) + 2
    BY <1>4, <1>5, <1>6, <1>7, <2>2 DEF Unseen
  <2>3. CASE i # Len(events) + 2
    <3> SUFFICES ASSUME Unseen(i)' PROVE FALSE
      BY <2>3
    <3>1. i \in 1..Len(events') /\ events'[i].type = "seed_updated" /\ i \notin seen
      BY <1>4 DEF Unseen
    <3>2. i \in 1..Len(events) /\ events'[i] = events[i]
      BY <1>5, <1>8, <2>3, <3>1
    <3> QED BY <2>1, <3>1, <3>2 DEF Unseen
  <2> QED BY <2>2, <2>3
<1>13. ~AllSeen'
  <2>1. Len(events) + 2 \in 1..Len(events')
    BY <1>6, <1>7
  <2> QED BY <1>12, <2>1 DEF AllSeen
<1>14. ASSUME NEW v \in Ids, v # w
       PROVE  MessageOK(v)' /\ Silent(v)' /\ OneInterval(v)' /\ ResultOK(v)'
  <2>0. MessageOK(v) /\ Silent(v) /\ OneInterval(v) /\ ResultOK(v)
    BY <1>0 DEF WorkersOK
  <2>1. wk[v].pc \notin Submitting
    BY <1>9, <1>14
  <2>2. MessageOK(v)'
    BY <1>4, <1>14, <2>0, <2>1 DEF MessageOK, Submitting
  <2>3. a.w # v /\ u.w # v
    BY <1>1, <1>5, <1>14
  <2>4. Silent(v)'
    BY <1>4, <1>8, <1>14, <2>0, <2>3 DEF Silent
  <2>5. ~Unanswered(v) /\ ~Past(v)
    BY <2>1, <1>1, <1>14 DEF Unanswered, Past, Submitting
  <2>6. OneInterval(v)'
    BY <1>4, <1>8, <2>0, <2>3, <2>5, NoNewInterval
  <2>7. ResultOK(v)'
    BY <1>4, <1>8, <2>0, <2>3, <2>5 DEF ResultOK
  <2> QED BY <2>2, <2>4, <2>6, <2>7
<1>15. MessageOK(w)' /\ Silent(w)' /\ OneInterval(w)' /\ ResultOK(w)'
  <2>0. MessageOK(w) /\ Silent(w) /\ OneInterval(w) /\ ResultOK(w)
    BY <1>0 DEF WorkersOK
  <2>1. MessageOK(w)'
    BY <1>1, <1>4, <2>0 DEF MessageOK
  <2>2. Silent(w)'
    BY <1>4 DEF Silent
  <2>3. ~Unanswered(w) /\ ~Past(w) /\ Past(w)'
    BY <1>1, <1>4 DEF Unanswered, Past
  <2>4. a.type # "interval" /\ u.type # "interval"
    BY <1>5
  <2>5. OneInterval(w)'
    BY <1>4, <1>8, <2>0, <2>3, <2>4, NoNewInterval
  <2>6. ResultOK(w)'
    BY <1>4, <2>0, <2>3 DEF ResultOK
  <2> QED BY <2>1, <2>2, <2>5, <2>6
<1>16. WorkersOK'
  <2>1. CommitOK'
    BY <1>4 DEF CommitOK
  <2>2. \A v, x \in Ids : Computer(v)' /\ Computer(x)' => v = x
    BY <1>0, <1>4 DEF WorkersOK, Computer
  <2> QED BY <1>0, <1>4, <1>14, <1>15, <2>1, <2>2 DEF WorkersOK
<1>17. OneUnseen'
  <2>1. \A i \in 1..Len(events') : Unseen(i)' => events'[i].val = seed' + 1
    BY <1>4, <1>5, <1>6, <1>7, <1>12
  <2>2. Past(w)'
    BY <1>1, <1>4 DEF Past
  <2>3. \A k \in 1..Len(events') : k <= Len(events) + 2
    BY <1>6, <1>7
  <2> QED BY <1>12, <2>1, <2>2, <2>3 DEF OneUnseen
<1>18. /\ Submits = 1 /\ Submits' = 0 /\ Computes' = Computes
       /\ \A v \in Ids : ~Fresh(v)' /\ (Computer(v)' <=> Computer(v))
  <2>1. Submits = 1
    BY <1>1 DEF Submits, Fresh
  <2>2. ASSUME NEW v \in Ids PROVE ~Fresh(v)' /\ (Computer(v)' <=> Computer(v))
    BY <1>1, <1>4, <1>9 DEF Fresh, Computer, Submitting
  <2> QED BY <2>1, <2>2 DEF Submits, Computes
<1>19. InLine'
  <2>1. Newest' = Newest /\ LastTaken' = LastTaken
    BY <1>4, <1>11, <1>13 DEF Newest, LastTaken
  <2>2. Computes \in {0, 1} /\ LastTaken = seed - 1 + 1 + Computes
    BY <1>2, <1>18 DEF InLine, Computes
  <2>3. LastTaken' = seed' - 1 + Submits' + Computes'
    BY <1>4, <1>6, <1>18, <2>1, <2>2
  <2> QED BY <1>2, <1>4, <1>18, <2>1, <2>3 DEF InLine
<1>20. ASSUME NEW v \in Ids PROVE ComplexityOK(v)'
  BY <1>2, <1>4, <1>18 DEF ComplexityOK
<1>21. NoSessionRejected' /\ lingering' = {}
  BY <1>4, <1>5, <1>8 DEF NoSessionRejected, CalmInv
<1> QED BY <1>2, <1>4, <1>16, <1>17, <1>19, <1>20, <1>21 DEF CalmInv

\* The commands of a round come from the new events of the worker, one each.
LEMMA CommandsPlaces ==
  ASSUME SubmitInv, NEW v \in Ids, NEW dt
  PROVE  LET I == {i \in NewEvents(dt) : events[i].w = v}
             c == CommandsFor(v, dt)
         IN  /\ c \in Seq(EventTypes)
             /\ \A k \in 1..Len(c) : Nth(I, k) \in I /\ c[k] = events[Nth(I, k)].type
             /\ \A j, k \in 1..Len(c) : Nth(I, j) = Nth(I, k) => j = k
<1> DEFINE I == {i \in NewEvents(dt) : events[i].w = v}
           n == Cardinality(I)
           c == CommandsFor(v, dt)
<1>0. events \in Seq(Events) /\ Len(events) \in Nat /\ \A i \in 1..Len(events) : events[i].type \in EventTypes
  <2>1. events \in Seq(Events) /\ Len(events) \in Nat
    BY DEF SubmitInv, Shape
  <2>2. \A i \in 1..Len(events) : events[i] \in Events
    BY <2>1
  <2> QED BY <2>1, <2>2 DEF Events
<1>1. I \in SUBSET (1..Len(events))
  BY DEF NewEvents
<1>2. c = [k \in 1..n |-> events[Nth(I, k)].type]
  BY DEF CommandsFor, Types
<1> HIDE DEF I, c
<1>3. /\ n \in Nat /\ \A k \in 1..n : Nth(I, k) \in I
      /\ \A j, k \in 1..n : Nth(I, j) = Nth(I, k) => j = k
  BY <1>0, <1>1, NthIs
<1> HIDE DEF n
<1>4. \A k \in 1..n : events[Nth(I, k)].type \in EventTypes
  BY <1>0, <1>1, <1>3
<1>5. c \in Seq(EventTypes) /\ Len(c) = n /\ \A k \in 1..n : c[k] = events[Nth(I, k)].type
  BY <1>2, <1>3, <1>4
<1> QED BY <1>3, <1>5 DEF I, c

\* A round processes events it has not processed before, and every later one.
LEMMA PollSeen ==
  ASSUME SubmitInv, PollInv, HeldInv, Poll
  PROVE  /\ UNCHANGED events /\ seen' = seen \cup NewEvents(after)
         /\ NewEvents(after) \subseteq 1..Len(events)
         /\ \A i \in NewEvents(after) : i \notin seen
         /\ \A i : Unseen(i)' <=> Unseen(i) /\ i \notin NewEvents(after)
         /\ AllSeen => AllSeen'
         /\ \A k \in NewEvents(after) :
              \A j \in 1..Len(events) : k <= j => j \in NewEvents(after)
<1>0. /\ UNCHANGED events /\ seen' = seen \cup NewEvents(after)
      /\ NewEvents(after) \subseteq 1..Len(events)
  BY DEF Poll, contract, messages, NewEvents
<1>1. /\ after \in Int /\ EventTimes /\ Processed /\ Len(events) \in Nat /\ EventLimit \in Nat
      /\ \A i \in 1..Len(events) : events[i].at \in Nat
  BY EventsTyped DEF Poll, PollInv, PollerOK, HeldInv
<1>2. \A i \in NewEvents(after) : i \notin seen
  <2> SUFFICES ASSUME NEW i \in NewEvents(after), i \in seen PROVE FALSE
    OBVIOUS
  <2>1. i \in 1..Len(events) /\ events[i].at > after /\ events[i].at <= after
    BY <1>1 DEF NewEvents, Processed
  <2> QED BY <1>1, <2>1
<1>3. \A i : Unseen(i)' <=> Unseen(i) /\ i \notin NewEvents(after)
  BY <1>0 DEF Unseen
<1>4. AllSeen => AllSeen'
  BY <1>0, <1>3 DEF AllSeen
<1>5. ASSUME NEW k \in NewEvents(after), NEW j \in 1..Len(events), k <= j
      PROVE  j \in NewEvents(after)
  <2>1. /\ k \in 1..Len(events) /\ k + EventLimit > Len(events)
        /\ events[k].at > after /\ events[k].at <= events[j].at
    BY <1>0, <1>1, <1>5 DEF NewEvents, EventTimes
  <2>2. j + EventLimit > Len(events) /\ events[j].at > after
    BY <1>1, <1>5, <2>1
  <2> QED BY <2>2 DEF NewEvents
<1> QED BY <1>0, <1>2, <1>3, <1>4, <1>5

\* What a round sends to a worker.
LEMMA CalmCommands ==
  ASSUME SubmitInv, PollInv, HeldInv, CalmInv, Poll, NEW v \in Ids
  PROVE  /\ queue'[v] \in Seq(Commands \cup EventTypes)
         /\ Silent(v)' /\ OneInterval(v)' /\ ResultOK(v)'
<1> DEFINE New == NewEvents(after)
           I == {i \in New : events[i].w = v}
           q == queue[v]
           c == CommandsFor(v, after)
<1>0. /\ UNCHANGED <<wk, tx, commit, inst>>
      /\ phase = "ready" /\ OneUnseen /\ NoSessionRejected
      /\ MessageOK(v) /\ Silent(v) /\ OneInterval(v) /\ ResultOK(v)
      /\ q \in Seq(Commands \cup EventTypes)
  BY DEF Poll, contract, messages, CalmInv, NotYet, WorkersOK
<1>1. /\ UNCHANGED events /\ seen' = seen \cup New
      /\ New \subseteq 1..Len(events)
      /\ \A i \in New : i \notin seen
      /\ \A i : Unseen(i)' <=> Unseen(i) /\ i \notin New
      /\ AllSeen => AllSeen'
      /\ \A k \in New : \A j \in 1..Len(events) : k <= j => j \in New
  BY PollSeen
<1>2. queue'[v] = IF v \in Listed(inst) /\ HasEvents(v, after) THEN q \o c ELSE q
  BY DEF Poll, Deliver
<1>3. /\ Unanswered(v)' <=> Unanswered(v)
      /\ Past(v)' <=> Past(v)
      /\ \A i \in 1..Len(events) : IntervalFor(v, i)' <=> IntervalFor(v, i)
  BY <1>0, <1>1 DEF Unanswered, Past, IntervalFor
<1>4. CASE ~(v \in Listed(inst) /\ HasEvents(v, after))
  <2>1. queue'[v] = q
    BY <1>2, <1>4
  <2>2. Silent(v)'
    BY <1>0, <1>1, <2>1 DEF Silent
  <2>3. OneInterval(v)'
    BY <1>0, <1>1, <1>3, <2>1 DEF OneInterval
  <2>4. ResultOK(v)'
    BY <1>0, <1>1, <1>3, <2>1 DEF ResultOK
  <2> QED BY <1>0, <2>1, <2>2, <2>3, <2>4
<1>5. CASE v \in Listed(inst) /\ HasEvents(v, after)
  <2>1. /\ c \in Seq(EventTypes)
        /\ \A k \in 1..Len(c) : Nth(I, k) \in I /\ c[k] = events[Nth(I, k)].type
        /\ \A j, k \in 1..Len(c) : Nth(I, j) = Nth(I, k) => j = k
    BY CommandsPlaces
  <2>2. \A i \in I : i \in New /\ i \in 1..Len(events) /\ events[i].w = v
    BY <1>1
  <2>3. queue'[v] = q \o c
    BY <1>2, <1>5
  <2>4. Silent(v)'
    <3>1. tx[v] \notin {"none", "submit"}
      BY <1>0, <1>1, <1>5 DEF Silent, HasEvents
    <3> QED BY <1>0, <3>1 DEF Silent
  <2> HIDE DEF New, I, q, c
  <2>5. /\ q \o c \in Seq(Commands \cup EventTypes)
        /\ Len(q) \in Nat
        /\ \A k \in 1..Len(q \o c) : \/ k \in 1..Len(q) /\ (q \o c)[k] = q[k]
                                     \/ k - Len(q) \in 1..Len(c) /\ (q \o c)[k] = c[k - Len(q)]
    BY <1>0, <2>1
  <2>6. ASSUME NEW m \in 1..Len(c), c[m] = "interval"
        PROVE  /\ IntervalFor(v, Nth(I, m)) /\ Nth(I, m) \in 1..Len(events) /\ Nth(I, m) \in New
               /\ Unanswered(v) /\ \A l \in 1..Len(q) : q[l] # "interval"
    <3>1. IntervalFor(v, Nth(I, m)) /\ Nth(I, m) \in 1..Len(events) /\ Nth(I, m) \in New
      BY <2>1, <2>2, <2>6 DEF IntervalFor
    <3>2. Nth(I, m) \notin seen
      BY <1>1, <3>1
    <3>3. \A i \in 1..Len(events) :
            IntervalFor(v, i) /\ i \notin seen
              => Unanswered(v) /\ \A k \in 1..Len(q) : q[k] # "interval"
      BY <1>0 DEF OneInterval, q
    <3> QED BY <3>1, <3>2, <3>3
  <2>7. OneInterval(v)'
    <3>0. \A i, j \in 1..Len(events) : IntervalFor(v, i) /\ IntervalFor(v, j) => i = j
      BY <1>0 DEF OneInterval
    <3>1. ASSUME NEW i \in 1..Len(events), IntervalFor(v, i), i \notin seen'
          PROVE  Unanswered(v) /\ \A k \in 1..Len(q \o c) : (q \o c)[k] # "interval"
      <4>1. i \notin seen /\ i \notin New
        BY <1>1, <3>1
      <4>2. Unanswered(v) /\ \A k \in 1..Len(q) : q[k] # "interval"
        BY <1>0, <3>1, <4>1 DEF OneInterval, q
      <4>3. \A m \in 1..Len(c) : c[m] # "interval"
        BY <2>6, <3>0, <3>1, <4>1
      <4> QED BY <2>5, <4>2, <4>3
    <3>2. ASSUME NEW j \in 1..Len(q \o c), NEW k \in 1..Len(q \o c),
                 (q \o c)[j] = "interval", (q \o c)[k] = "interval"
          PROVE  j = k /\ Unanswered(v)
      <4>1. CASE j \in 1..Len(q) /\ (q \o c)[j] = q[j]
        <5>1. k \in 1..Len(q) /\ (q \o c)[k] = q[k]
          BY <2>5, <2>6, <3>2, <4>1
        <5> QED BY <1>0, <3>2, <4>1, <5>1 DEF OneInterval, q
      <4>2. CASE j - Len(q) \in 1..Len(c) /\ (q \o c)[j] = c[j - Len(q)]
        <5>1. c[j - Len(q)] = "interval"
          BY <3>2, <4>2
        <5>2. k - Len(q) \in 1..Len(c) /\ (q \o c)[k] = c[k - Len(q)]
          BY <2>5, <2>6, <3>2, <4>2, <5>1
        <5>3. Nth(I, j - Len(q)) = Nth(I, k - Len(q))
          BY <2>6, <3>0, <3>2, <4>2, <5>1, <5>2
        <5>4. j - Len(q) = k - Len(q)
          BY <2>1, <4>2, <5>2, <5>3
        <5>5. j = k
          BY <2>5, <5>4
        <5> QED BY <2>6, <4>2, <5>1, <5>5
      <4> QED BY <2>5, <3>2, <4>1, <4>2
    <3> QED BY <1>1, <1>3, <2>3, <3>0, <3>1, <3>2 DEF OneInterval
  <2>8. ResultOK(v)'
    <3>1. \A i \in 1..Len(events) :
            events[i].w = v /\ events[i].type = "accepted" => Past(v) \/ wk[v].pc = "done"
      BY <1>0 DEF ResultOK
    <3>2. ASSUME NEW m \in 1..Len(c), c[m] = "accepted" PROVE Past(v) /\ AllSeen'
      <4>1. /\ Nth(I, m) \in New /\ Nth(I, m) \in 1..Len(events) /\ Nth(I, m) \notin seen
            /\ events[Nth(I, m)].w = v /\ events[Nth(I, m)].type = "accepted"
        BY <1>1, <2>1, <2>2, <3>2
      <4>2. wk[v].pc \in Active
        BY <1>0, <1>5 DEF MessageOK, Listed
      <4>3. Past(v)
        BY <3>1, <4>1, <4>2 DEF Active, Queued, Computing, Submitting
      <4>4. ASSUME NEW i \in 1..Len(events'), Unseen(i)' PROVE FALSE
        <5>1. Unseen(i) /\ i \notin New /\ i \in 1..Len(events)
          BY <1>1, <4>4
        <5>2. Nth(I, m) <= i
          BY <1>0, <4>1, <5>1 DEF OneUnseen
        <5> QED BY <1>1, <4>1, <5>1, <5>2
      <4> QED BY <4>3, <4>4 DEF AllSeen
    <3>3. \A k \in 1..Len(q \o c) : (q \o c)[k] = "accepted" => Past(v) /\ AllSeen'
      BY <1>0, <1>1, <2>5, <3>2 DEF ResultOK, q
    <3>4. \A m \in 1..Len(c) : c[m] # "rejected"
      BY <1>0, <2>1, <2>2 DEF NoSessionRejected
    <3>5. \A k \in 1..Len(q \o c) : (q \o c)[k] # "rejected"
      BY <1>0, <2>5, <3>4 DEF ResultOK, q
    <3> QED BY <1>0, <1>1, <1>3, <2>3, <3>1, <3>3, <3>5 DEF ResultOK
  <2> QED BY <2>3, <2>4, <2>5, <2>7, <2>8
<1> QED BY <1>4, <1>5

\* The seed a round brings, if any, is the newest.
LEMMA NewestPolled ==
  ASSUME SubmitInv, PollInv, HeldInv, OneUnseen, Poll
  PROVE  \/ NewValues("seed_updated") = <<>> /\ (AllSeen' <=> AllSeen)
         \/ NewValues("seed_updated") = <<seed + 1>> /\ ~AllSeen /\ AllSeen'
<1> DEFINE New == NewEvents(after)
           new == {i \in New : events[i].type = "seed_updated"}
           nv == NewValues("seed_updated")
<1>1. /\ UNCHANGED events /\ seen' = seen \cup New
      /\ New \subseteq 1..Len(events)
      /\ \A i \in New : i \notin seen
      /\ \A i : Unseen(i)' <=> Unseen(i) /\ i \notin New
  BY PollSeen
<1>2. nv = [k \in 1..Cardinality(new) |-> events[Nth(new, k)].val]
  BY DEF NewValues
<1>3. \A i : i \in new <=> Unseen(i) /\ i \in New
  BY <1>1 DEF Unseen
<1>4. Len(events) \in Nat /\ new \in SUBSET (1..Len(events))
  BY <1>1, ValuesTyped
<1> HIDE DEF nv, new, New
<1>5. CASE new = {}
  <2>1. Cardinality(new) = 0
    BY <1>5, FS_EmptySet
  <2>2. nv = <<>>
    BY <1>2, <2>1
  <2>3. AllSeen' <=> AllSeen
    BY <1>1, <1>3, <1>5 DEF AllSeen
  <2> QED BY <2>2, <2>3 DEF nv
<1>6. CASE new # {}
  <2>1. PICK i \in new : TRUE
    BY <1>6
  <2>2. i \in 1..Len(events) /\ Unseen(i) /\ \A j \in 1..Len(events) : Unseen(j) => j = i
    BY <1>3, <1>4, <2>1 DEF OneUnseen
  <2>3. new = {i}
    BY <1>3, <1>4, <2>1, <2>2
  <2>4. Cardinality(new) = 1
    BY <2>3, FS_Singleton
  <2>5. Nth(new, 1) = i
    <3>1. \A k \in 1..Cardinality(new) : Nth(new, k) \in new
      BY <1>4, NthIs
    <3>2. 1 \in 1..Cardinality(new)
      BY <2>4
    <3> QED BY <2>3, <3>1, <3>2
  <2>6. events[i].val = seed + 1
    BY <2>2 DEF OneUnseen
  <2>7. nv = <<seed + 1>>
    <3>1. nv = [k \in 1..1 |-> events[Nth(new, k)].val]
      BY <1>2, <2>4
    <3>2. \A k \in 1..1 : events[Nth(new, k)].val = seed + 1
      BY <2>5, <2>6
    <3> QED BY <3>1, <3>2
  <2>8. ~AllSeen /\ AllSeen'
    BY <1>1, <1>3, <2>1, <2>2 DEF AllSeen
  <2> QED BY <2>7, <2>8 DEF nv
<1> QED BY <1>5, <1>6

\* A round of the event thread.
LEMMA CalmPoll ==
  ASSUME SubmitInv, PollInv, HeldInv, CalmInv, Poll
  PROVE  CalmInv'
<1>0. /\ phase = "ready" /\ WorkersOK /\ OneUnseen /\ InLine /\ NoSessionRejected
      /\ \A v \in Ids : ComplexityOK(v)
      /\ seed \in Nat /\ seeds \in Seq(Nat) /\ Len(seeds) \in Nat
  BY DEF Poll, CalmInv, NotYet, SubmitInv, Shape, HeldInv, HeldTypes
<1>1. /\ UNCHANGED <<phase, events, seed, commit, comp, compOld, tx, inst, wk, job, lingering>>
      /\ seeds' = seeds \o NewValues("seed_updated") /\ seen' = seen \cup NewEvents(after)
      /\ queue' = [v \in Ids |-> queue'[v]]
  BY DEF Poll, contract, messages, Deliver
<1>2. /\ NewEvents(after) \subseteq 1..Len(events)
      /\ \A i : Unseen(i)' <=> Unseen(i) /\ i \notin NewEvents(after)
  BY PollSeen
<1>3. /\ \A v \in Ids : Fresh(v)' <=> Fresh(v)
      /\ \A v \in Ids : Past(v)' <=> Past(v)
      /\ \A v \in Ids : Computer(v)' <=> Computer(v)
  BY <1>1 DEF Fresh, Past, Computer
<1>4. WorkersOK'
  <2>1. \A v \in Ids : /\ queue'[v] \in Seq(Commands \cup EventTypes)
                       /\ Silent(v)' /\ OneInterval(v)' /\ ResultOK(v)'
    BY CalmCommands
  <2>2. ASSUME NEW v \in Ids PROVE MessageOK(v)'
    BY <1>0, <1>1 DEF MessageOK, WorkersOK
  <2>3. CommitOK'
    BY <1>0, <1>1 DEF CommitOK, WorkersOK
  <2>4. \A u, v \in Ids : Computer(u)' /\ Computer(v)' => u = v
    BY <1>0, <1>3 DEF WorkersOK
  <2>5. queue' \in [Ids -> Seq(Commands \cup EventTypes)]
    BY <1>1, <2>1
  <2> QED BY <2>1, <2>2, <2>3, <2>4, <2>5 DEF WorkersOK
<1>5. OneUnseen'
  BY <1>0, <1>1, <1>2, <1>3 DEF OneUnseen
<1>6. Submits' = Submits /\ Computes' = Computes
  BY <1>3 DEF Submits, Computes
<1>7. /\ LastTaken' = LastTaken
      /\ \A k \in 1..Len(seeds') : seeds'[k] = LastTaken + k
  <2>1. LastTaken \in Int /\ \A k \in 1..Len(seeds) : seeds[k] = LastTaken + k
    BY <1>0 DEF InLine, LastTaken, Newest
  <2>2. CASE NewValues("seed_updated") = <<>> /\ (AllSeen' <=> AllSeen)
    <3>1. seeds' = seeds
      BY <1>0, <1>1, <2>2
    <3>2. LastTaken' = LastTaken
      BY <1>1, <2>2, <3>1 DEF LastTaken, Newest
    <3> QED BY <2>1, <3>1, <3>2
  <2>3. CASE NewValues("seed_updated") = <<seed + 1>> /\ ~AllSeen /\ AllSeen'
    <3>1. /\ Len(seeds') = Len(seeds) + 1 /\ seeds'[Len(seeds) + 1] = seed + 1
          /\ \A k \in 1..Len(seeds) : seeds'[k] = seeds[k]
      <4>1. seeds' = seeds \o <<seed + 1>>
        BY <1>1, <2>3
      <4> QED BY <1>0, <4>1
    <3>2. LastTaken = seed - Len(seeds) /\ LastTaken' = (seed + 1) - Len(seeds')
      <4>1. Newest = seed
        BY <2>3 DEF Newest
      <4>2. Newest' = seed + 1
        BY <1>1, <2>3 DEF Newest
      <4>3. LastTaken = Newest - Len(seeds) /\ LastTaken' = Newest' - Len(seeds')
        BY DEF LastTaken
      <4> QED BY <4>1, <4>2, <4>3
    <3>3. LastTaken' = LastTaken /\ seed + 1 = LastTaken + (Len(seeds) + 1)
      BY <1>0, <3>1, <3>2
    <3>4. \A k \in 1..Len(seeds') : k \in 1..Len(seeds) \/ k = Len(seeds) + 1
      BY <1>0, <3>1
    <3> QED BY <2>1, <3>1, <3>3, <3>4
  <2> QED BY <1>0, <2>2, <2>3, NewestPolled
<1>8. InLine'
  BY <1>0, <1>1, <1>3, <1>6, <1>7 DEF InLine
<1>9. ASSUME NEW v \in Ids PROVE ComplexityOK(v)'
  BY <1>0, <1>1, <1>3, <1>6 DEF ComplexityOK
<1>10. NoSessionRejected' /\ lingering' = {}
  BY <1>0, <1>1 DEF NoSessionRejected, CalmInv
<1> QED BY <1>0, <1>1, <1>4, <1>5, <1>8, <1>9, <1>10 DEF CalmInv

\* The game root changes the complexity between sessions.
LEMMA CalmChangeComplexity ==
  ASSUME SubmitInv, PollInv, CalmInv, Env = {}, ChangeComplexity
  PROVE  CalmInv'
<1> DEFINE e == Event("complexity_updated", 0, comp + 1)
<1>0. /\ WorkersOK /\ events \in Seq(Events) /\ Len(events) \in Nat /\ 0 \notin Ids
      /\ NoSessionRejected /\ lingering = {}
      /\ NotYet \/ (phase = "ready" /\ OneUnseen /\ InLine /\ \A v \in Ids : ComplexityOK(v))
  BY BoundsAssumption DEF CalmInv, SubmitInv, Shape, Ids
<1>1. /\ \A v \in Ids : wk[v].pc \notin Submitting
      /\ events' = Append(events, e)
      /\ UNCHANGED <<phase, details, seen, seed, commit, compOld, inst, lingering, seeds, tx, wk, job, queue>>
  BY DEF ChangeComplexity, miner, workers, messages
<1>2. e.type = "complexity_updated" /\ e.w = 0
  BY DEF Event
<1> HIDE DEF e
<1>3. /\ \A i \in 1..Len(events) : i \in 1..Len(events') /\ events'[i] = events[i]
      /\ \A i \in 1..Len(events') : \/ i \in 1..Len(events) /\ events'[i] = events[i]
                                    \/ events'[i] = e
  BY <1>0, <1>1
<1>4. commit = 0
  BY <1>0, <1>1 DEF WorkersOK, CommitOK
<1>5. \A v \in Ids : /\ ~Fresh(v) /\ ~Fresh(v)' /\ ~Past(v) /\ ~Past(v)' /\ ~Unanswered(v)
                     /\ Computer(v)' <=> Computer(v)
  BY <1>0, <1>1, <1>4 DEF Fresh, Past, Unanswered, Computer, Submitting
<1>6. ASSUME NEW v \in Ids
      PROVE  MessageOK(v)' /\ Silent(v)' /\ OneInterval(v)' /\ ResultOK(v)'
  <2>0. MessageOK(v) /\ Silent(v) /\ OneInterval(v) /\ ResultOK(v) /\ e.w # v
    BY <1>0, <1>2 DEF WorkersOK
  <2>1. MessageOK(v)'
    BY <1>1, <2>0 DEF MessageOK
  <2>2. Silent(v)'
    BY <1>1, <1>3, <2>0 DEF Silent
  <2>3. OneInterval(v)'
    BY <1>1, <1>3, <1>5, <2>0, NoNewInterval
  <2>4. ResultOK(v)'
    BY <1>1, <1>3, <1>5, <2>0 DEF ResultOK
  <2> QED BY <2>1, <2>2, <2>3, <2>4
<1>7. WorkersOK'
  <2>1. CommitOK'
    BY <1>1, <1>4 DEF CommitOK
  <2>2. \A u, v \in Ids : Computer(u)' /\ Computer(v)' => u = v
    BY <1>0, <1>5 DEF WorkersOK
  <2> QED BY <1>0, <1>1, <1>6, <2>1, <2>2 DEF WorkersOK
<1>8. NoSessionRejected' /\ lingering' = {}
  BY <1>0, <1>1, <1>2, <1>3 DEF NoSessionRejected
<1>9. CASE NotYet
  <2>1. NotYet'
    BY <1>1, <1>2, <1>3, <1>9 DEF NotYet
  <2> QED BY <1>7, <1>8, <2>1 DEF CalmInv
<1>10. CASE phase = "ready" /\ OneUnseen /\ InLine /\ \A v \in Ids : ComplexityOK(v)
  <2>1. /\ \A i : Unseen(i)' <=> Unseen(i)
        /\ AllSeen' <=> AllSeen
    <3>1. seen \subseteq 1..Len(events)
      BY <1>10 DEF PollInv, PollerOK
    <3>2. e.type # "seed_updated"
      BY <1>2
    <3> QED BY <1>0, <1>1, <3>1, <3>2, AppendQuiet
  <2>2. AllSeen
    BY <1>5, <1>10 DEF AllSeen, OneUnseen
  <2>3. \A i : ~Unseen(i)'
    BY <2>1, <2>2 DEF AllSeen, Unseen
  <2>4. OneUnseen'
    BY <2>3 DEF OneUnseen
  <2>5. Submits = 0 /\ Submits' = 0 /\ Computes' = Computes /\ LastTaken' = LastTaken
    BY <1>1, <1>5, <2>1 DEF Submits, Computes, LastTaken, Newest
  <2>6. InLine'
    BY <1>1, <1>5, <1>10, <2>5 DEF InLine
  <2>7. ASSUME NEW v \in Ids PROVE ComplexityOK(v)'
    BY <1>1, <1>5, <1>10, <2>5 DEF ComplexityOK
  <2> QED BY <1>1, <1>7, <1>8, <1>10, <2>4, <2>6, <2>7 DEF CalmInv
<1> QED BY <1>0, <1>9, <1>10

\* start gives the first seed in line to a new worker.
LEMMA CalmStart ==
  ASSUME SubmitInv, HeldInv, CalmInv, Env = {}, Start
  PROVE  CalmInv'
<1> DEFINE r == [NoWorker EXCEPT !.pc = "spawned", !.inst = inst, !.listed = TRUE]
<1>0. /\ phase = "ready" /\ WorkersOK /\ InLine /\ \A v \in Ids : ComplexityOK(v)
      /\ wk \in [Ids -> Worker] /\ 0 \notin Ids /\ seed \in Nat
      /\ seeds \in Seq(Nat) /\ Len(seeds) \in Nat
      /\ job = [v \in Ids |-> [seed |-> job[v].seed, comp |-> job[v].comp]]
  <2>1. phase = "ready"
    BY DEF Start
  <2>2. WorkersOK /\ InLine /\ \A v \in Ids : ComplexityOK(v)
    BY <2>1 DEF CalmInv, NotYet
  <2>3. wk \in [Ids -> Worker] /\ seed \in Nat /\ 0 \notin Ids
    BY BoundsAssumption DEF SubmitInv, Shape, Ids
  <2>4. /\ seeds \in Seq(Nat) /\ Len(seeds) \in Nat
        /\ job = [v \in Ids |-> [seed |-> job[v].seed, comp |-> job[v].comp]]
    BY DEF HeldInv, HeldTypes
  <2> QED BY <2>1, <2>2, <2>3, <2>4
<1>1. /\ InStatus(inst, Queued) = {} /\ InStatus(inst, Computing) = {}
      /\ seeds # <<>> /\ seeds' = Tail(seeds)
      /\ UNCHANGED <<phase, events, seen, seed, commit, comp, compOld, inst, lingering, tx, queue>>
  BY DEF Start, Settled, contract, messages
<1>2. PICK w \in Ids : /\ wk[w].pc = "none" /\ wk' = [wk EXCEPT ![w] = r]
                       /\ job' = [job EXCEPT ![w] = [seed |-> Head(seeds), comp |-> complexity]]
  BY DEF Start, At
<1>3. r.pc = "spawned" /\ r.inst = inst /\ r.listed
  BY DEF NoWorker
<1> HIDE DEF r
<1>4. /\ wk'[w] = r /\ \A v \in Ids \ {w} : wk'[v] = wk[v] /\ job'[v] = job[v]
      /\ job'[w].seed = Head(seeds)
  BY <1>0, <1>2
<1>5. \A v \in Ids : ~Computer(v)
  <2> SUFFICES ASSUME NEW v \in Ids, Computer(v) PROVE FALSE
    OBVIOUS
  <2>1. wk[v].pc \in Active /\ MessageOK(v)
    BY <1>0 DEF Computer, Active, WorkersOK
  <2>2. v \in Listed(inst)
    BY <2>1 DEF MessageOK, Listed
  <2> QED BY <1>1, <2>2 DEF Computer, InStatus
<1>6. MessageOK(w) /\ Silent(w) /\ tx[w] = "none" /\ queue[w] = <<>> /\ commit # w
  BY <1>0, <1>2 DEF WorkersOK, MessageOK, CommitOK, Submitting, SubmitInv, WorkerOK
<1>7. ~Fresh(w) /\ ~Fresh(w)' /\ ~Past(w) /\ ~Past(w)' /\ Computer(w)'
  BY <1>1, <1>2, <1>3, <1>4, <1>6 DEF Fresh, Past, Computer, Queued
<1>8. \A v \in Ids \ {w} : (Fresh(v)' <=> Fresh(v)) /\ (Past(v)' <=> Past(v)) /\ ~Computer(v)'
  BY <1>1, <1>4, <1>5 DEF Fresh, Past, Computer
<1>9. MessageOK(w)' /\ Silent(w)' /\ OneInterval(w)' /\ ResultOK(w)'
  <2>1. wk'[w].pc = "spawned" /\ wk'[w].listed /\ wk'[w].inst = inst' /\ tx'[w] = "none"
        /\ queue'[w] = <<>>
    BY <1>1, <1>3, <1>4, <1>6
  <2>2. MessageOK(w)'
    BY <2>1 DEF MessageOK, Active, Queued
  <2>3. Silent(w)'
    BY <1>1, <1>6 DEF Silent
  <2>4. \A i \in 1..Len(events') : events'[i].w # w
    BY <1>1, <1>6 DEF Silent
  <2>5. OneInterval(w)'
    BY <2>1, <2>4 DEF OneInterval, IntervalFor
  <2>6. ResultOK(w)'
    BY <2>1, <2>4 DEF ResultOK
  <2> QED BY <2>2, <2>3, <2>5, <2>6
<1>10. Submits' = Submits /\ Computes = 0 /\ Computes' = 1
  <2>1. \A v \in Ids : Fresh(v)' <=> Fresh(v)
    BY <1>7, <1>8
  <2> QED BY <1>5, <1>7, <2>1 DEF Submits, Computes
<1>11. InLine'
  <2>1. /\ Head(seeds) = seeds[1] /\ 1 \in 1..Len(seeds) /\ Len(seeds') = Len(seeds) - 1
        /\ \A k \in 1..Len(seeds') : k + 1 \in 1..Len(seeds) /\ seeds'[k] = seeds[k + 1]
    BY <1>0, <1>1
  <2>2. Newest' = Newest /\ Newest \in Int
    BY <1>0, <1>1 DEF Newest, AllSeen, Unseen
  <2>3. LastTaken' = LastTaken + 1 /\ LastTaken \in Int
    BY <1>0, <2>1, <2>2 DEF LastTaken
  <2>4. \A k \in 1..Len(seeds) : seeds[k] = LastTaken + k
    BY <1>0 DEF InLine
  <2>5. \A k \in 1..Len(seeds') : seeds'[k] = LastTaken' + k
    BY <2>1, <2>3, <2>4
  <2>6. job'[w].seed = LastTaken'
    BY <1>4, <2>1, <2>3, <2>4
  <2>7. Submits \in {0, 1} /\ LastTaken = seed - 1 + Submits + 0
    BY <1>0, <1>10 DEF InLine, Submits
  <2>8. LastTaken' = seed' - 1 + Submits' + Computes'
    BY <1>0, <1>1, <1>10, <2>3, <2>7
  <2> QED BY <1>8, <2>5, <2>6, <2>8 DEF InLine
<1>12. ASSUME NEW v \in Ids PROVE ComplexityOK(v)'
  <2>1. CASE v = w
    <3>1. wk'[w].pc = "spawned"
      BY <1>3, <1>4
    <3> QED BY <1>7, <2>1, <3>1 DEF ComplexityOK
  <2>2. CASE v # w
    <3>1. ComplexityOK(v) /\ wk'[v] = wk[v] /\ job'[v] = job[v] /\ ~Computer(v)
      BY <1>0, <1>4, <1>5, <2>2
    <3> QED BY <1>1, <1>8, <2>2, <3>1 DEF ComplexityOK, Computer, Computing
  <2> QED BY <2>1, <2>2
<1>13. queue' \in [Ids -> Seq(Commands \cup EventTypes)]
  BY <1>0, <1>1 DEF WorkersOK
<1> QED BY <1>0, <1>1, <1>4, <1>5, <1>6, <1>7, <1>9, <1>11, <1>12, <1>13, CalmWorker

\* Commands the contract has no part in: stop and taps.
LEMMA CalmQueue ==
  ASSUME CalmInv,
         UNCHANGED <<phase, details, events, seen, seed, commit, comp, compOld, inst, lingering,
                     seeds, tx, wk, job>>,
         queue' = [v \in Ids |-> queue'[v]],
         \A v \in Ids : \/ queue'[v] = queue[v]
                        \/ \E c \in {"stop", "tap"} : queue'[v] = Append(queue[v], c)
  PROVE  CalmInv'
<1>0. WorkersOK /\ queue \in [Ids -> Seq(Commands \cup EventTypes)]
  BY DEF CalmInv, WorkersOK
<1>1. /\ AllSeen' <=> AllSeen
      /\ \A i : Unseen(i)' <=> Unseen(i)
      /\ \A v \in Ids : /\ (Fresh(v)' <=> Fresh(v)) /\ (Past(v)' <=> Past(v))
                        /\ (Computer(v)' <=> Computer(v)) /\ (Unanswered(v)' <=> Unanswered(v))
  BY DEF AllSeen, Unseen, Fresh, Past, Computer, Unanswered
<1>2. ASSUME NEW v \in Ids
      PROVE  /\ queue'[v] \in Seq(Commands \cup EventTypes)
             /\ \A k \in 1..Len(queue'[v]) :
                  \/ k \in 1..Len(queue[v]) /\ queue'[v][k] = queue[v][k]
                  \/ queue'[v][k] \in {"stop", "tap"}
  <2>0. queue[v] \in Seq(Commands \cup EventTypes)
    BY <1>0
  <2>1. CASE queue'[v] = queue[v]
    BY <2>0, <2>1
  <2>2. ASSUME NEW c \in {"stop", "tap"}, queue'[v] = Append(queue[v], c)
        PROVE  /\ queue'[v] \in Seq(Commands \cup EventTypes)
               /\ \A k \in 1..Len(queue'[v]) :
                    \/ k \in 1..Len(queue[v]) /\ queue'[v][k] = queue[v][k]
                    \/ queue'[v][k] \in {"stop", "tap"}
    <3>1. c \in Commands \cup EventTypes
      BY DEF Commands
    <3> QED BY <2>0, <2>2, <3>1
  <2> QED BY <2>1, <2>2
<1>3. ASSUME NEW v \in Ids
      PROVE  MessageOK(v)' /\ Silent(v)' /\ OneInterval(v)' /\ ResultOK(v)'
  <2>0. /\ MessageOK(v) /\ Silent(v) /\ OneInterval(v) /\ ResultOK(v)
        /\ \A k \in 1..Len(queue'[v]) :
             \/ k \in 1..Len(queue[v]) /\ queue'[v][k] = queue[v][k]
             \/ queue'[v][k] \in {"stop", "tap"}
    BY <1>0, <1>2 DEF WorkersOK
  <2>1. MessageOK(v)'
    BY <2>0 DEF MessageOK
  <2>2. Silent(v)'
    BY <2>0 DEF Silent
  <2>3. OneInterval(v)'
    <3>1. \A i \in 1..Len(events) : IntervalFor(v, i)' <=> IntervalFor(v, i)
      BY DEF IntervalFor
    <3>2. \A k \in 1..Len(queue'[v]) : queue'[v][k] = "interval"
            => k \in 1..Len(queue[v]) /\ queue[v][k] = "interval"
      BY <2>0
    <3> QED BY <1>1, <2>0, <3>1, <3>2 DEF OneInterval
  <2>4. ResultOK(v)'
    BY <1>1, <2>0 DEF ResultOK
  <2> QED BY <2>1, <2>2, <2>3, <2>4
<1>4. WorkersOK'
  <2>1. CommitOK'
    BY <1>0 DEF CommitOK, WorkersOK
  <2>2. queue' \in [Ids -> Seq(Commands \cup EventTypes)]
    BY <1>2
  <2>3. \A u, v \in Ids : Computer(u)' /\ Computer(v)' => u = v
    BY <1>0, <1>1 DEF WorkersOK
  <2> QED BY <1>3, <2>1, <2>2, <2>3 DEF WorkersOK
<1>5. NoSessionRejected' /\ lingering' = {}
  BY DEF NoSessionRejected, CalmInv
<1>6. NotYet => NotYet'
  BY DEF NotYet
<1>7. ASSUME phase = "ready", OneUnseen, InLine, \A v \in Ids : ComplexityOK(v)
      PROVE  OneUnseen' /\ InLine' /\ \A v \in Ids : ComplexityOK(v)'
  <2>1. OneUnseen'
    BY <1>1, <1>7 DEF OneUnseen
  <2>2. Submits' = Submits /\ Computes' = Computes /\ LastTaken' = LastTaken
    BY <1>1 DEF Submits, Computes, LastTaken, Newest
  <2>3. InLine'
    BY <1>1, <1>7, <2>2 DEF InLine
  <2>4. ASSUME NEW v \in Ids PROVE ComplexityOK(v)'
    BY <1>1, <1>7, <2>2 DEF ComplexityOK
  <2> QED BY <2>1, <2>3, <2>4
<1> QED BY <1>4, <1>5, <1>6, <1>7 DEF CalmInv

\* The application's stop and taps, and time.
LEMMA CalmCommand ==
  ASSUME SubmitInv, CalmInv, Env = {}, Stop \/ AddTap \/ Tick \/ UNCHANGED vars
  PROVE  CalmInv'
<1>0. queue = [v \in Ids |-> queue[v]] /\ wk \in [Ids -> Worker]
  BY DEF SubmitInv, Shape
<1>1. CASE Stop
  <2>1. /\ InStatus(inst, Queued) = {}
        /\ wk' = [w \in Ids |-> IF w \in InStatus(inst, Queued)
                                THEN [wk[w] EXCEPT !.listed = FALSE] ELSE wk[w]]
        /\ queue' = [w \in Ids |-> IF w \in InStatus(inst, Computing)
                                   THEN Append(queue[w], "stop") ELSE queue[w]]
        /\ UNCHANGED <<phase, details, events, seen, seed, commit, comp, compOld, inst, lingering,
                       seeds, tx, job>>
    BY <1>1 DEF Stop, Settled, contract, messages, miner
  <2>2. wk' = wk
    BY <1>0, <2>1
  <2>3. /\ queue' = [v \in Ids |-> queue'[v]]
        /\ \A v \in Ids : queue'[v] = queue[v] \/ queue'[v] = Append(queue[v], "stop")
    BY <2>1
  <2> QED BY <2>1, <2>2, <2>3, CalmQueue
<1>2. CASE AddTap
  <2>1. PICK w \in Ids : queue' = [queue EXCEPT ![w] = Append(@, "tap")]
    BY <1>2 DEF AddTap, InStatus, Listed
  <2>2. UNCHANGED <<phase, details, events, seen, seed, commit, comp, compOld, inst, lingering,
                    seeds, tx, wk, job>>
    BY <1>2 DEF AddTap, contract, messages, miner
  <2> QED BY <1>0, <2>1, <2>2, CalmQueue
<1>3. CASE Tick \/ UNCHANGED vars
  <2>1. UNCHANGED <<phase, details, events, seen, seed, commit, comp, compOld, inst, lingering,
                    seeds, tx, wk, job, queue>>
    BY <1>3 DEF Tick, vars, contract, messages, miner, workers
  <2> QED BY <1>0, <2>1, CalmQueue
<1> QED BY <1>1, <1>2, <1>3

\* The constructor finds no session to cancel.
LEMMA CalmNew ==
  ASSUME SubmitInv, CalmInv, NewDetails \/ NewReady
  PROVE  CalmInv'
<1>0. /\ WorkersOK /\ NotYet /\ NoSessionRejected /\ lingering = {} /\ 0 \notin Ids /\ seed \in Nat
  BY BoundsAssumption DEF NewDetails, NewReady, CalmInv, SubmitInv, Shape, Ids
<1>1. UNCHANGED <<events, seed, commit, tx, wk, job, queue, lingering>>
  BY DEF NewDetails, NewReady, contract, messages, workers
<1>2. commit = 0
  BY <1>0 DEF WorkersOK, CommitOK, NotYet, Submitting
<1>3. ASSUME NEW v \in Ids
      PROVE  MessageOK(v)' /\ Silent(v)' /\ OneInterval(v)' /\ ResultOK(v)'
  <2>0. MessageOK(v) /\ Silent(v) /\ ResultOK(v) /\ wk[v].pc = "none" /\ tx[v] = "none"
    BY <1>0 DEF WorkersOK, NotYet, MessageOK
  <2>1. MessageOK(v)'
    BY <1>1, <2>0 DEF MessageOK, Active, Queued, Computing, Submitting
  <2>2. Silent(v)'
    BY <1>1, <2>0 DEF Silent
  <2>3. /\ \A i \in 1..Len(events') : events'[i].w # v
        /\ \A k \in 1..Len(queue'[v]) : queue'[v][k] \notin {"interval", "accepted"}
    BY <1>1, <2>0 DEF Silent
  <2>4. OneInterval(v)'
    BY <2>3 DEF OneInterval, IntervalFor
  <2>5. ResultOK(v)'
    BY <1>1, <2>0, <2>3 DEF ResultOK
  <2> QED BY <2>1, <2>2, <2>4, <2>5
<1>4. WorkersOK'
  <2>1. CommitOK'
    BY <1>1, <1>2 DEF CommitOK
  <2>2. \A u, v \in Ids : Computer(u)' /\ Computer(v)' => u = v
    BY <1>0, <1>1 DEF WorkersOK, Computer
  <2> QED BY <1>0, <1>1, <1>3, <2>1, <2>2 DEF WorkersOK
<1>5. NoSessionRejected' /\ lingering' = {}
  BY <1>0, <1>1 DEF NoSessionRejected
<1>6. CASE NewDetails
  <2>1. phase' = "details" /\ details'.commit = 0 /\ details'.seed = seed
    BY <1>2, <1>6 DEF NewDetails
  <2>2. NotYet'
    BY <1>0, <1>1, <2>1 DEF NotYet
  <2> QED BY <1>4, <1>5, <2>2 DEF CalmInv
<1>7. CASE NewReady
  <2>1. phase' = "ready" /\ seeds' = <<seed, seed + 1>>
    BY <1>0, <1>7 DEF NewReady, NotYet
  <2>2. \A v \in Ids : ~Fresh(v)' /\ ~Past(v)' /\ ~Computer(v)' /\ wk'[v].pc = "none"
    BY <1>0, <1>1, <1>2 DEF NotYet, Fresh, Past, Computer, Queued, Computing
  <2>3. \A i : ~Unseen(i)'
    <3>1. \A i \in 1..Len(events') : events'[i].type # "seed_updated"
      BY <1>0, <1>1 DEF NotYet
    <3> QED BY <3>1 DEF Unseen
  <2>4. OneUnseen' /\ AllSeen'
    BY <2>3 DEF OneUnseen, AllSeen
  <2>5. Submits' = 0 /\ Computes' = 0
    BY <2>2 DEF Submits, Computes
  <2>6. InLine'
    <3>1. /\ Len(seeds') = 2 /\ seeds'[1] = seed /\ seeds'[2] = seed + 1
          /\ \A k \in 1..Len(seeds') : k = 1 \/ k = 2
      BY <2>1
    <3>2. Newest' = seed + 1
      BY <1>1, <2>4 DEF Newest
    <3>3. LastTaken' = (seed + 1) - Len(seeds')
      BY <3>2 DEF LastTaken
    <3>4. LastTaken' = seed - 1
      BY <1>0, <3>1, <3>3
    <3>5. \A k \in 1..Len(seeds') : seeds'[k] = LastTaken' + k
      BY <1>0, <3>1, <3>4
    <3>6. LastTaken' = seed' - 1 + Submits' + Computes'
      BY <1>0, <1>1, <2>5, <3>4
    <3> QED BY <2>2, <3>5, <3>6 DEF InLine
  <2>7. \A v \in Ids : ComplexityOK(v)'
    BY <2>2 DEF ComplexityOK
  <2> QED BY <1>4, <1>5, <2>1, <2>4, <2>6, <2>7 DEF CalmInv
<1> QED BY <1>6, <1>7

LEMMA CalmInit == Init => CalmInv
<1> SUFFICES ASSUME Init PROVE CalmInv
  OBVIOUS
<1>1. /\ \A v \in Ids : wk[v] = NoWorker /\ queue[v] = <<>> /\ tx[v] = "none"
      /\ NoWorker.pc = "none" /\ ~NoWorker.listed
      /\ events = <<>> /\ commit = 0 /\ lingering = {} /\ phase = "down"
  BY DEF Init, NoWorker
<1>2. ASSUME NEW v \in Ids PROVE MessageOK(v) /\ Silent(v) /\ OneInterval(v) /\ ResultOK(v)
  <2>0. /\ wk[v].pc = "none" /\ ~wk[v].listed /\ queue[v] = <<>> /\ tx[v] = "none"
        /\ Len(events) = 0 /\ Len(queue[v]) = 0
    BY <1>1
  <2>1. MessageOK(v)
    BY <2>0 DEF MessageOK, Active, Queued, Computing, Submitting
  <2>2. Silent(v) /\ OneInterval(v) /\ ResultOK(v)
    BY <2>0 DEF Silent, OneInterval, ResultOK
  <2> QED BY <2>1, <2>2
<1>3. WorkersOK
  <2>1. queue \in [Ids -> Seq(Commands \cup EventTypes)]
    BY DEF Init
  <2>2. \A u, v \in Ids : Computer(u) /\ Computer(v) => u = v
    BY <1>1 DEF Computer, Queued, Computing
  <2> QED BY <1>1, <1>2, <2>1, <2>2 DEF WorkersOK, CommitOK
<1>4. NotYet /\ NoSessionRejected
  BY <1>1 DEF NotYet, NoSessionRejected
<1> QED BY <1>1, <1>3, <1>4 DEF CalmInv

\* A constructor that finds no session sends no cancel.
NoCancel == \A i \in Miners : cancel[i] # "sent"

LEMMA NoCancelStep == CalmInv /\ NoCancel /\ [Next]_vars => NoCancel'
<1> SUFFICES ASSUME CalmInv, NoCancel, [Next]_vars PROVE NoCancel'
  OBVIOUS
<1>1. \A i \in Miners : ~ContractCancel(i)
  BY DEF NoCancel, ContractCancel
<1>2. ASSUME NEW w \in Ids, Contract(w) \/ Step(w) \/ Mine(w) PROVE cancel' = cancel
  BY <1>2 DEF Contract, ContractSubmit, ContractVerify, Step, Run, Choose, MineEnds, Mine, Wait,
              TxReturns, Listen, messages
<1>3. ASSUME NewReady PROVE cancel' = cancel
  BY <1>3 DEF NewReady, CalmInv, NotYet
<1>4. CASE \/ Tick \/ ChangeComplexity \/ NewDetails \/ NewCancelled \/ Poll \/ LastPoll \/ Start
           \/ Stop \/ AddTap \/ RemoveSeed \/ Drop \/ UNCHANGED vars
  <2>1. cancel' = cancel
    BY <1>4 DEF Tick, ChangeComplexity, NewDetails, NewCancelled, Poll, LastPoll, Start, Stop,
                AddTap, RemoveSeed, Drop, vars, messages
  <2> QED BY <2>1 DEF NoCancel
<1> QED BY <1>1, <1>2, <1>3, <1>4 DEF Next, NoCancel

LEMMA CalmStep ==
  ASSUME Env = {}
  PROVE  SubmitInv /\ PollInv /\ HeldInv /\ CalmInv /\ NoCancel /\ [Next]_vars => CalmInv'
<1> SUFFICES ASSUME SubmitInv, PollInv, HeldInv, CalmInv, NoCancel, [Next]_vars PROVE CalmInv'
  OBVIOUS
<1>1. ~NewCancelled /\ \A i \in Miners : ~ContractCancel(i)
  BY DEF NewCancelled, ContractCancel, CalmInv, NotYet, NoCancel
<1>2. ~LastPoll /\ ~RemoveSeed /\ ~Drop
  BY DEF LastPoll, RemoveSeed, Drop, CalmInv
<1>3. ASSUME NEW w \in Ids, Contract(w) PROVE CalmInv'
  BY <1>3, CalmContractSubmit, CalmContractVerify DEF Contract
<1>4. ASSUME NEW w \in Ids, Step(w) \/ Mine(w) PROVE CalmInv'
  BY <1>4, CalmWorkerStep
<1>5. CASE Stop \/ AddTap \/ Tick \/ UNCHANGED vars
  BY <1>5, CalmCommand
<1>6. CASE NewDetails \/ NewReady
  BY <1>6, CalmNew
<1> QED BY <1>1, <1>2, <1>3, <1>4, <1>5, <1>6, CalmChangeComplexity, CalmPoll, CalmStart DEF Next

\* Without failures, with one call of the application at a time and complexity
\* changed only between sessions, no session is ever rejected, for any number
\* of workers, seeds and events per query: worker::run submits the seeds in the
\* contract's order, each with the complexity select_session_complexity
\* foretold for the moment it is verified.
THEOREM NoSessionRejectedAlways ==
  ASSUME Env = {}
  PROVE  Spec => []NoSessionRejected
<1>1. Init => PollInv
  BY DEF Init, PollInv, EventTimes
<1>2. CalmInv => NoSessionRejected
  BY DEF CalmInv
<1>3. SubmitInv /\ PollInv /\ HeldInv /\ CalmInv /\ NoCancel /\ [Next]_vars => CalmInv'
  BY CalmStep
<1>4. Init => NoCancel
  BY DEF Init, NoCancel
<1> QED BY <1>1, <1>2, <1>3, <1>4, CalmInit, NoCancelStep, HeldInit, HeldInvStep, SubmitInit,
           SubmitStep, PollInvStep, PTL DEF Spec
=============================================================================
