----------------------------- MODULE RatedCalls -----------------------------
(***************************************************************************)
(* bee_infra's RateLimiter shared by several callers, each of which makes  *)
(* its network calls through with_retry_policy.                            *)
(*                                                                         *)
(* A step is what runs between two awaits.  Time is in milliseconds of one *)
(* clock.  A timer never fires early; whether it may fire late, because    *)
(* the thread is busy or the browser throttles timers, is the parameter    *)
(* Late: when timers are punctual the clock stands still while one is due. *)
(***************************************************************************)
EXTENDS Integers, Sequences, FiniteSets

CONSTANTS
  Callers,     \* tasks that share the limiter
  Second,      \* 1000 in RateLimiter::new
  MaxRps,      \* max_rps
  MaxAttempts, \* RetryPolicy.max_attempts
  Capped,      \* whether max_total is given
  MaxTotal,    \* RetryPolicy.max_total
  BaseDelay,   \* RetryPolicy.base_delay
  MaxDelay,    \* RetryPolicy.max_delay
  Jitter,      \* RetryPolicy.jitter
  Late,        \* timers may fire late
  MaxClock,    \* bound: the clock
  MaxSlots     \* bound: slots reserved

ASSUME RateAssumption ==
  /\ Second \in Nat \ {0}
  /\ MaxRps \in Nat \ {0}    \* assert!(max_rps > 0)
  /\ Late \in BOOLEAN

ASSUME CallersAssumption == IsFiniteSet(Callers)

ASSUME PolicyAssumption ==
  /\ MaxAttempts \in Nat \ {0}    \* assert!(policy.max_attempts >= 1)
  /\ Capped \in BOOLEAN /\ Jitter \in BOOLEAN
  /\ MaxTotal \in Nat /\ BaseDelay \in Nat /\ MaxDelay \in Nat

ASSUME BoundsAssumption == MaxClock \in Nat /\ MaxSlots \in Nat

VARIABLES
  clock,  \* now_ms
  next,   \* TokenBucket.next_allowed_ms
  task,   \* what each caller is doing
  slots,  \* slots reserved, in the order of reservation (history)
  calls   \* times at which operations were started (history)

vars == <<clock, next, task, slots, calls>>

Pcs == {"idle", "reserved", "running", "backoff"}

\* pc, the attempt of the for loop, start_ms, and the time the current sleep
\* ends or the slot the running operation had
Task == [pc : Pcs, attempt : Nat, start : Nat, until : Nat]

In(pc) == {c \in Callers : task[c].pc = pc}

-----------------------------------------------------------------------------
(* The rate limiter. *)

\* RateLimiter::new, rounded down
Interval == Second \div MaxRps

\* acquire, under the lock: the slot this caller gets
Slot == IF clock >= next THEN clock ELSE next

\* Mutated form: an interval from now, also when the caller has to wait.
NextAllowed_FromNow == clock + Interval

\* Mutated form: the wait is added as well.
NextAllowed_WithWait == Slot + Interval + (Slot - clock)

\* and next_allowed_ms after it
NextAllowed == Slot + Interval

\* acquire: the slot is reserved at once; the operation starts now, or after
\* a sleep until the slot
Acquire(c, attempt, start) ==
  /\ Len(slots) < MaxSlots
  /\ next' = NextAllowed
  /\ slots' = Append(slots, Slot)
  /\ \/ /\ Slot <= clock
        /\ task' = [task EXCEPT ![c] = [pc |-> "running", attempt |-> attempt,
                                        start |-> start, until |-> clock]]
        /\ calls' = Append(calls, clock)
     \/ /\ Slot > clock
        /\ task' = [task EXCEPT ![c] = [pc |-> "reserved", attempt |-> attempt,
                                        start |-> start, until |-> Slot]]
        /\ UNCHANGED calls
  /\ UNCHANGED clock

\* The sleep of acquire is over and the operation starts
SlotReached(c) ==
  /\ task[c].pc = "reserved" /\ clock >= task[c].until
  /\ task' = [task EXCEPT ![c].pc = "running"]
  /\ calls' = Append(calls, clock)
  /\ UNCHANGED <<clock, next, slots>>

-----------------------------------------------------------------------------
(* with_retry_policy. *)

Least(a, b) == IF a <= b THEN a ELSE b

\* backoff_delay, for every value of jitter_up_to(base_delay)
BackoffDelays(attempt) ==
  {d \in 0..MaxDelay :
     \E j \in IF Jitter /\ BaseDelay > 0 THEN 0..(BaseDelay - 1) ELSE {0} :
       d = Least(Least(BaseDelay * 2^(attempt - 1), MaxDelay) + j, MaxDelay)}

\* Mutated form: the time cap is not looked at.
GivesUp_NoCap(t) == t.attempt = MaxAttempts

\* The loop returns a retryable error
GivesUp(t) ==
  \/ t.attempt = MaxAttempts
  \/ Capped /\ clock - t.start >= MaxTotal

\* A call enters the loop
Begin(c) ==
  /\ task[c].pc = "idle"
  /\ Acquire(c, 1, clock)

\* The operation returns a value, an error that is not retryable, or one that
\* is and nothing is left to try
Return(c) ==
  /\ task[c].pc = "running"
  /\ task' = [task EXCEPT ![c].pc = "idle"]
  /\ UNCHANGED <<clock, next, slots, calls>>

\* A retryable error: the caller sleeps
Fail(c) ==
  /\ task[c].pc = "running" /\ ~GivesUp(task[c])
  /\ \E d \in BackoffDelays(task[c].attempt) :
       task' = [task EXCEPT ![c] = [@ EXCEPT !.pc = "backoff", !.until = clock + d]]
  /\ UNCHANGED <<clock, next, slots, calls>>

\* and then makes the next attempt, with a slot of its own
Retry(c) ==
  /\ task[c].pc = "backoff" /\ clock >= task[c].until
  /\ Acquire(c, task[c].attempt + 1, task[c].start)

-----------------------------------------------------------------------------
Init ==
  /\ clock = 1 /\ next = 0
  /\ task = [c \in Callers |-> [pc |-> "idle", attempt |-> 0, start |-> 0, until |-> 0]]
  /\ slots = <<>> /\ calls = <<>>

Due == {c \in In("reserved") \cup In("backoff") : task[c].until <= clock}

Tick ==
  /\ clock < MaxClock
  /\ ~Late => Due = {}
  /\ clock' = clock + 1
  /\ UNCHANGED <<next, task, slots, calls>>

Next ==
  \/ Tick
  \/ \E c \in Callers : Begin(c) \/ SlotReached(c) \/ Return(c) \/ Fail(c) \/ Retry(c)

Spec == Init /\ [][Next]_vars

-----------------------------------------------------------------------------
(* Properties. *)

\* Every variable has its type; the loop makes at most max_attempts attempts.
TypeOK ==
  /\ clock \in Nat /\ next \in Nat
  /\ task \in [Callers -> Task]
  /\ \A c \in Callers : task[c].attempt <= MaxAttempts
  /\ slots \in Seq(Nat) /\ calls \in Seq(Nat)

Spaced(s) == \A i \in 1..(Len(s) - 1) : s[i] + Interval <= s[i + 1]

\* Reserved slots are an interval apart, in whatever order callers come, sleep
\* and retry, and however late they wake (next_allowed_ms).
SlotsSpaced == Spaced(slots)

\* With punctual timers the operations themselves start an interval apart,
\* retries included: nobody who slept for a slot is overtaken by a caller who
\* came later (acquire).  The interval is the code's, rounded down: this is
\* less than the "at most `max_rps` calls per second" of rate_limiter.rs:8.
CallsSpaced == ~Late => Spaced(calls)

\* No caller has to wait for its slot longer than one interval per caller,
\* however late others wake: slots are not given out too far ahead.
WaitBounded ==
  \A c \in In("reserved") : task[c].until - clock <= Interval * Cardinality(Callers)

\* max_total bounds a whole call: with punctual timers no attempt starts later
\* than the cap, one delay and one round of the limiter after the call began.
RetriesInBudget ==
  ~Late /\ Capped =>
    \A c \in In("reserved") \cup In("running") :
      task[c].attempt > 1 =>
        task[c].until - task[c].start < MaxTotal + MaxDelay + Interval * Cardinality(Callers)
=============================================================================
