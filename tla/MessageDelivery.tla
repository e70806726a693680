--------------------------- MODULE MessageDelivery ---------------------------
(***************************************************************************)
(* Sending signed messages to a block manager whose queue may be full      *)
(* (bee_infra, QueueOverflowRetrySender).  The same message is sent again  *)
(* after a QUEUE_OVERFLOW, and after nothing else, until shortly before it *)
(* expires.                                                                *)
(*                                                                         *)
(* The network and the block manager are outside the repository.  They are *)
(* modelled from the answers the sender tells apart: a request reaches the *)
(* block manager once or not at all, at any time, also after the client    *)
(* has given it up; answers may be lost.                                   *)
(***************************************************************************)
EXTENDS Integers, FiniteSets

CONSTANTS
  Msgs,       \* prepared messages
  Second,     \* milliseconds in a second
  Lifetime,   \* MESSAGE_LIFETIME
  Interval,   \* QUEUE_OVERFLOW_RETRY_INTERVAL
  MaxRetries, \* QUEUE_OVERFLOW_MAX_RETRIES
  QueueSize,  \* places in the block manager's queue
  Late,       \* timers may fire late
  MaxStart,   \* bound: the last time at which a message is prepared
  MaxClock    \* bound: the clock

ASSUME DeliveryAssumption ==
  /\ Second \in Nat \ {0} /\ Interval \in Nat \ {0}
  /\ Lifetime \in Nat /\ MaxRetries \in Nat /\ QueueSize \in Nat
  /\ Late \in BOOLEAN
  /\ MaxStart \in Nat /\ MaxClock \in Nat

VARIABLES
  clock,   \* context.now_ms
  snd,     \* the sender of each message
  net,     \* messages of which a request is under way
  queue,   \* messages in the block manager's queue
  taken    \* how often each message was put into the queue (history)

vars == <<clock, snd, net, queue, taken>>

None == 0

Answers == {"ok", "overflow", "other"}

\* pc, the answer that arrived or was returned, expires_at in seconds, the
\* number of retries, the end of the current sleep, and the time of the
\* current attempt (history)
Sender == [pc : {"new", "sending", "sleeping", "done"},
           answer : Answers \cup {"none"},
           expires : Nat, retries : Nat, until : Nat, began : Nat]

-----------------------------------------------------------------------------
(* The network and the block manager. *)

\* The answer m's sender waits for, if it still waits
Answered(m, a) ==
  IF snd[m].pc = "sending" /\ snd[m].answer = "none"
  THEN [snd EXCEPT ![m].answer = a] ELSE snd

\* A request arrives and finds a place
Enqueue(m) ==
  /\ m \in net /\ Cardinality(queue) < QueueSize
  /\ net' = net \ {m}
  /\ queue' = queue \cup {m}
  /\ taken' = [taken EXCEPT ![m] = @ + 1]
  /\ \E a \in {"ok", "other"} : snd' = Answered(m, a)    \* "other": the answer is lost
  /\ UNCHANGED clock

\* A request arrives and the queue is full, or the request is refused
Refuse(m) ==
  /\ m \in net
  /\ net' = net \ {m}
  /\ \E a \in {"overflow", "other"} :
       /\ a = "overflow" => Cardinality(queue) >= QueueSize
       /\ snd' = Answered(m, a)
  /\ UNCHANGED <<clock, queue, taken>>

\* The client gives a request up, which may still arrive or not
Disconnect(m) ==
  /\ snd[m].pc = "sending" /\ snd[m].answer = "none"
  /\ snd' = Answered(m, "other")
  /\ net' \in {net, net \ {m}}
  /\ UNCHANGED <<clock, queue, taken>>

\* The block manager works on its queue
Drain(m) ==
  /\ m \in queue
  /\ queue' = queue \ {m}
  /\ UNCHANGED <<clock, snd, net, taken>>

-----------------------------------------------------------------------------
(* The sender. *)

\* attempt(): a request goes out
Attempt(m, s) ==
  /\ snd' = [snd EXCEPT ![m] = [s EXCEPT !.pc = "sending", !.answer = "none",
                                         !.began = clock]]
  /\ net' = net \cup {m}

\* contract_context prepares a message, which expires MESSAGE_LIFETIME later,
\* in whole seconds, or has no expiry; the first attempt
Send(m) ==
  /\ snd[m].pc = "new" /\ clock <= MaxStart
  /\ \E e \in {None, (clock + Lifetime) \div Second} :
       Attempt(m, [snd[m] EXCEPT !.expires = e])
  /\ UNCHANGED <<clock, queue, taken>>

\* Mutated form: any error is tried again.
IsQueueOverflow_AnyError(a) == a # "ok"

\* is_queue_overflow
IsQueueOverflow(a) == a = "overflow"

\* deadline_millis
Deadline(s) == s.expires * Second

\* Mutated form: the time of the next attempt is not looked at.
MayRetry_Blind(s) ==
  /\ IsQueueOverflow(s.answer)
  /\ s.expires # None
  /\ s.retries < MaxRetries

\* Mutated form: nothing ends the loop.
MayRetry_Forever(s) == IsQueueOverflow(s.answer)

\* The conditions of the loop for another attempt
MayRetry(s) ==
  /\ IsQueueOverflow(s.answer)
  /\ s.expires # None
  /\ s.retries < MaxRetries
  /\ clock + Interval < Deadline(s)

\* An answer, and the loop sleeps
Sleep(m) ==
  /\ snd[m].pc = "sending" /\ snd[m].answer # "none" /\ MayRetry(snd[m])
  /\ snd' = [snd EXCEPT ![m] = [@ EXCEPT !.pc = "sleeping", !.until = clock + Interval]]
  /\ UNCHANGED <<clock, net, queue, taken>>

\* An answer, and the loop returns it
Return(m) ==
  /\ snd[m].pc = "sending" /\ snd[m].answer # "none" /\ ~MayRetry(snd[m])
  /\ snd' = [snd EXCEPT ![m].pc = "done"]
  /\ UNCHANGED <<clock, net, queue, taken>>

\* The sleep is over: the same message again
Resend(m) ==
  /\ snd[m].pc = "sleeping" /\ clock >= snd[m].until
  /\ Attempt(m, [snd[m] EXCEPT !.retries = @ + 1])
  /\ UNCHANGED <<clock, queue, taken>>

-----------------------------------------------------------------------------
Init ==
  /\ clock = Second
  /\ snd = [m \in Msgs |-> [pc |-> "new", answer |-> "none", expires |-> None,
                            retries |-> 0, until |-> 0, began |-> 0]]
  /\ net = {} /\ queue = {}
  /\ taken = [m \in Msgs |-> 0]

\* What runs as soon as the thread is free
Due == {m \in Msgs : \/ snd[m].pc = "sleeping" /\ snd[m].until <= clock
                     \/ snd[m].pc = "sending" /\ snd[m].answer # "none"}

Tick ==
  /\ clock < MaxClock
  /\ ~Late => Due = {}
  /\ clock' = clock + 1
  /\ UNCHANGED <<snd, net, queue, taken>>

Client(m) == Sleep(m) \/ Return(m) \/ Resend(m)

Next ==
  \/ Tick
  \/ \E m \in Msgs : \/ Send(m) \/ Client(m)
                     \/ Enqueue(m) \/ Refuse(m) \/ Disconnect(m) \/ Drain(m)

Spec == Init /\ [][Next]_vars

\* Every request is answered or given up, sleeps end, the clock goes on
FairSpec ==
  /\ Spec /\ WF_vars(Tick)
  /\ \A m \in Msgs : WF_vars(Client(m)) /\ WF_vars(Disconnect(m))

-----------------------------------------------------------------------------
(* Properties. *)

\* Every variable has its type; a message is not resent more often than
\* QUEUE_OVERFLOW_MAX_RETRIES times.
TypeOK ==
  /\ clock \in Nat
  /\ snd \in [Msgs -> Sender]
  /\ \A m \in Msgs : snd[m].retries <= MaxRetries
  /\ net \subseteq Msgs /\ queue \subseteq Msgs
  /\ taken \in [Msgs -> Nat]

\* However answers are lost and requests delayed, resending never puts a
\* message into the queue a second time (is_queue_overflow is the only error
\* after which a request is known to be gone).
QueuedAtMostOnce == \A m \in Msgs : taken[m] <= 1

\* A caller that is told QUEUE_OVERFLOW may build a new message: the old one
\* is not in the queue and cannot get there any more, although several
\* requests carried it.
OverflowIsFinal ==
  \A m \in Msgs :
    snd[m].pc = "done" /\ snd[m].answer = "overflow" => taken[m] = 0 /\ m \notin net

\* With punctual timers no request is made when the message has expired.
ResentInTime ==
  ~Late => \A m \in Msgs :
             snd[m].pc = "sending" /\ snd[m].retries > 0 => snd[m].began < Deadline(snd[m])

\* Every send comes back, also when the queue stays full.
SendEnds == \A m \in Msgs : (snd[m].pc = "sending") ~> (snd[m].pc = "done")
=============================================================================
