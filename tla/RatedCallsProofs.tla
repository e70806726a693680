-------------------------- MODULE RatedCallsProofs --------------------------
(* The rate limiter keeps its distance: proofs for any number of callers,  *)
(* any rate, any retry policy and any bound.                               *)
EXTENDS RatedCalls, FiniteSetTheorems, TLAPS

\* The interval is a number.
LEMMA IntervalType == Interval \in Nat
BY RateAssumption DEF Interval

\* The slot a caller gets is a number, not before now nor before
\* next_allowed_ms.
LEMMA SlotFacts ==
  ASSUME clock \in Nat, next \in Nat
  PROVE  /\ Slot \in Nat /\ NextAllowed \in Nat
         /\ Slot >= clock /\ Slot >= next
         /\ Slot > clock => Slot = next
         /\ NextAllowed = Slot + Interval
BY IntervalType DEF Slot, NextAllowed

\* A spaced sequence stays spaced when its new last element keeps the distance.
LEMMA SpacedAppend ==
  ASSUME NEW s \in Seq(Nat), NEW x \in Nat, Spaced(s),
         s # <<>> => s[Len(s)] + Interval <= x
  PROVE  Append(s, x) \in Seq(Nat) /\ Spaced(Append(s, x))
         /\ Append(s, x) # <<>> /\ Append(s, x)[Len(Append(s, x))] = x
<1> DEFINE t == Append(s, x)
<1>1. t \in Seq(Nat) /\ Len(t) = Len(s) + 1 /\ t[Len(s) + 1] = x /\ t # <<>>
  BY SMTT(30)
<1>2. \A i \in 1..Len(s) : t[i] = s[i]
  OBVIOUS
<1>3. ASSUME NEW i \in 1..(Len(t) - 1) PROVE t[i] + Interval <= t[i + 1]
  <2>1. CASE i < Len(s)
    <3>1. i \in 1..(Len(s) - 1) /\ i + 1 \in 1..Len(s)
      BY <2>1
    <3> QED BY <3>1, <1>2 DEF Spaced
  <2>2. CASE i = Len(s)
    BY <2>2, <1>1, <1>2
  <2> QED BY <2>1, <2>2, <1>1
<1> QED BY <1>1, <1>3 DEF Spaced

-----------------------------------------------------------------------------
(* Types. *)

\* A caller sleeps after a failure only when an attempt is left.
TypeInv ==
  /\ TypeOK
  /\ \A c \in Callers : task[c].pc = "backoff" => task[c].attempt < MaxAttempts

\* A reservation keeps the types.
LEMMA AcquireType ==
  ASSUME TypeInv, NEW c \in Callers, NEW n \in Nat, n <= MaxAttempts,
         NEW t \in Nat, Acquire(c, n, t)
  PROVE  TypeInv'
<1>1. Slot \in Nat /\ NextAllowed \in Nat
  BY SlotFacts DEF TypeInv, TypeOK
<1>2. clock' \in Nat /\ next' \in Nat /\ slots' \in Seq(Nat) /\ calls' \in Seq(Nat)
  <2>1. clock' = clock /\ next' = NextAllowed /\ slots' = Append(slots, Slot)
        /\ (calls' = calls \/ calls' = Append(calls, clock))
    BY DEF Acquire
  <2>2. clock \in Nat /\ slots \in Seq(Nat) /\ calls \in Seq(Nat)
    BY DEF TypeInv, TypeOK
  <2>3. Append(slots, Slot) \in Seq(Nat) /\ Append(calls, clock) \in Seq(Nat)
    BY <2>2, <1>1
  <2> QED BY <2>1, <2>2, <2>3, <1>1
<1>3. PICK r \in Task : task' = [task EXCEPT ![c] = r] /\ r.attempt = n /\ r.pc # "backoff"
  <2>1. CASE Slot <= clock
    BY <2>1, <1>1, SMTT(30) DEF Acquire, TypeInv, TypeOK, Task, Pcs
  <2>2. CASE Slot > clock
    BY <2>2, <1>1 DEF Acquire, TypeInv, TypeOK, Task, Pcs
  <2> QED BY <2>1, <2>2, <1>1 DEF TypeInv, TypeOK
<1> QED BY <1>2, <1>3 DEF TypeInv, TypeOK

\* Every step keeps the types.
LEMMA TypeStep == TypeInv /\ [Next]_vars => TypeInv'
<1> SUFFICES ASSUME TypeInv, [Next]_vars PROVE TypeInv'
  OBVIOUS
<1>1. CASE Tick
  BY <1>1 DEF Tick, TypeInv, TypeOK
<1>2. ASSUME NEW c \in Callers, Begin(c) PROVE TypeInv'
  BY <1>2, AcquireType, PolicyAssumption DEF Begin, TypeInv, TypeOK
<1>3. ASSUME NEW c \in Callers, SlotReached(c) PROVE TypeInv'
  <2>1. /\ clock \in Nat /\ next \in Nat /\ slots \in Seq(Nat) /\ calls \in Seq(Nat)
        /\ task \in [Callers -> Task]
    BY DEF TypeInv, TypeOK
  <2>2. /\ clock' = clock /\ next' = next /\ slots' = slots /\ calls' = Append(calls, clock)
        /\ task' = [task EXCEPT ![c] = [task[c] EXCEPT !.pc = "running"]]
    BY <1>3 DEF SlotReached
  <2>3. /\ task' \in [Callers -> Task]
        /\ \A d \in Callers : task'[d].attempt = task[d].attempt
        /\ \A d \in Callers : task'[d].pc = "backoff" => task[d].pc = "backoff"
    BY <2>1, <2>2 DEF Task, Pcs
  <2>4. calls' \in Seq(Nat)
    BY <2>1, <2>2
  <2> QED BY <2>1, <2>2, <2>3, <2>4 DEF TypeInv, TypeOK
<1>4. ASSUME NEW c \in Callers, Return(c) PROVE TypeInv'
  BY <1>4 DEF Return, TypeInv, TypeOK, Task, Pcs
<1>5. ASSUME NEW c \in Callers, Fail(c) PROVE TypeInv'
  <2>1. PICK d \in 0..MaxDelay :
          task' = [task EXCEPT ![c] = [@ EXCEPT !.pc = "backoff", !.until = clock + d]]
    BY <1>5 DEF Fail, BackoffDelays
  <2>2. task[c].attempt < MaxAttempts
    BY <1>5, PolicyAssumption DEF Fail, GivesUp, TypeInv, TypeOK, Task
  <2>3. /\ task' \in [Callers -> Task]
        /\ \A e \in Callers : task'[e].attempt = task[e].attempt
        /\ \A e \in Callers : e # c => task'[e] = task[e]
    <3>1. task \in [Callers -> Task] /\ clock + d \in Nat
      BY PolicyAssumption DEF TypeInv, TypeOK
    <3>2. [task[c] EXCEPT !.pc = "backoff", !.until = clock + d] \in Task
          /\ [task[c] EXCEPT !.pc = "backoff", !.until = clock + d].attempt = task[c].attempt
      BY <3>1 DEF Task, Pcs
    <3> QED BY <2>1, <3>1, <3>2
  <2>4. UNCHANGED <<clock, next, slots, calls>>
    BY <1>5 DEF Fail
  <2> QED BY <2>2, <2>3, <2>4 DEF TypeInv, TypeOK
<1>6. ASSUME NEW c \in Callers, Retry(c) PROVE TypeInv'
  <2>1. task[c].attempt + 1 \in Nat /\ task[c].attempt + 1 <= MaxAttempts /\ task[c].start \in Nat
    BY <1>6, PolicyAssumption DEF Retry, TypeInv, TypeOK, Task
  <2> QED BY <1>6, <2>1, AcquireType DEF Retry
<1>7. CASE UNCHANGED vars
  BY <1>7 DEF vars, TypeInv, TypeOK
<1> QED BY <1>1, <1>2, <1>3, <1>4, <1>5, <1>6, <1>7 DEF Next

\* The initial state has its types.
LEMMA TypeInit == Init => TypeInv
BY PolicyAssumption DEF Init, TypeInv, TypeOK, Task, Pcs

\* The variables keep their types and no call makes more than max_attempts
\* attempts (with_retry_policy).
THEOREM TypeCorrect == Spec => []TypeOK
<1>1. TypeInv => TypeOK
  BY DEF TypeInv
<1> QED BY <1>1, TypeInit, TypeStep, PTL DEF Spec

-----------------------------------------------------------------------------
(* Slots. *)

\* next_allowed_ms is an interval after the last slot.
SlotInv ==
  /\ slots # <<>> => slots[Len(slots)] + Interval = next
  /\ SlotsSpaced

\* A reservation keeps the distance.
LEMMA AcquireSlot ==
  ASSUME TypeInv, SlotInv, NEW c, NEW n, NEW t, Acquire(c, n, t)
  PROVE  SlotInv'
<1>1. /\ Slot \in Nat /\ Slot >= next /\ NextAllowed = Slot + Interval
      /\ slots \in Seq(Nat) /\ next \in Nat
  BY SlotFacts DEF TypeInv, TypeOK
<1>2. next' = Slot + Interval /\ slots' = Append(slots, Slot)
  BY <1>1 DEF Acquire
<1>3. slots # <<>> => slots[Len(slots)] + Interval <= Slot
  BY <1>1 DEF SlotInv
<1>4. Spaced(Append(slots, Slot)) /\ Append(slots, Slot)[Len(Append(slots, Slot))] = Slot
  BY <1>1, <1>3, SpacedAppend DEF SlotInv, SlotsSpaced
<1> QED BY <1>2, <1>4 DEF SlotInv, SlotsSpaced, Spaced, Interval

\* Every step keeps the distance.
LEMMA SlotStep == TypeInv /\ SlotInv /\ [Next]_vars => SlotInv'
<1> SUFFICES ASSUME TypeInv, SlotInv, [Next]_vars PROVE SlotInv'
  OBVIOUS
<1>1. CASE UNCHANGED <<next, slots>>
  BY <1>1 DEF SlotInv, SlotsSpaced, Spaced, Interval
<1>2. ASSUME NEW c \in Callers, Begin(c) \/ Retry(c) PROVE SlotInv'
  BY <1>2, AcquireSlot DEF Begin, Retry
<1> QED BY <1>1, <1>2 DEF Next, Tick, SlotReached, Return, Fail, vars

\* Reserved slots are an interval apart, for any callers, clock and policy
\* (RateLimiter::acquire).
THEOREM SlotsSpacedAlways == Spec => []SlotsSpaced
<1>1. Init => SlotInv
  BY DEF Init, SlotInv, SlotsSpaced, Spaced
<1>2. SlotInv => SlotsSpaced
  BY DEF SlotInv
<1> QED BY <1>1, <1>2, TypeInit, TypeStep, SlotStep, PTL DEF Spec

-----------------------------------------------------------------------------
(* Calls. *)

\* A caller that sleeps for a slot has it ahead of it and before
\* next_allowed_ms; slots are apart; the last call is an interval before all.
CallInv ==
  /\ \A c \in In("reserved") : clock <= task[c].until /\ task[c].until + Interval <= next
  /\ \A c, d \in In("reserved") :
       c # d => \/ task[c].until + Interval <= task[d].until
                \/ task[d].until + Interval <= task[c].until
  /\ calls # <<>> =>
       /\ calls[Len(calls)] <= clock
       /\ calls[Len(calls)] + Interval <= next
       /\ \A c \in In("reserved") : calls[Len(calls)] + Interval <= task[c].until
  /\ Spaced(calls)

\* A reservation keeps the calls apart.
LEMMA AcquireCalls ==
  ASSUME TypeInv, CallInv, NEW c \in Callers, task[c].pc # "reserved",
         NEW n, NEW t, Acquire(c, n, t)
  PROVE  CallInv'
<1>1. /\ clock \in Nat /\ next \in Nat /\ calls \in Seq(Nat) /\ task \in [Callers -> Task]
      /\ Interval \in Nat /\ Slot \in Nat /\ Slot >= next /\ Slot >= clock
      /\ Slot > clock => Slot = next
      /\ NextAllowed = Slot + Interval
  BY SlotFacts, IntervalType DEF TypeInv, TypeOK
<1>2. next' = Slot + Interval /\ clock' = clock /\ Interval' = Interval
  BY <1>1 DEF Acquire, Interval
<1>3. \A d \in In("reserved") : task[d].until \in Nat
  BY <1>1 DEF In, Task
<1>4. CASE Slot <= clock
  <2>1. calls' = Append(calls, clock) /\ task'[c].pc = "running"
        /\ \A d \in Callers : d # c => task'[d] = task[d]
    BY <1>1, <1>4 DEF Acquire
  <2>2. In("reserved")' = In("reserved") /\ \A d \in In("reserved") : task'[d] = task[d]
    BY <2>1 DEF In
  <2>3. calls # <<>> => calls[Len(calls)] + Interval <= clock
    <3> SUFFICES ASSUME calls # <<>> PROVE calls[Len(calls)] + Interval <= clock
      OBVIOUS
    <3>1. calls[Len(calls)] + Interval <= next /\ calls[Len(calls)] \in Nat
      BY <1>1 DEF CallInv
    <3> QED BY <3>1, <1>1, <1>4
  <2>4. Spaced(calls)' /\ calls' # <<>> /\ calls'[Len(calls')] = clock
    BY <2>1, <2>3, <1>1, <1>2, SpacedAppend DEF CallInv, Spaced
  <2>5. \A d \in In("reserved") : clock + Interval <= task[d].until
    BY <1>1, <1>3, <1>4 DEF CallInv
  <2>6. \A d \in In("reserved") : clock <= task[d].until /\ task[d].until + Interval <= Slot + Interval
    BY <1>1, <1>3 DEF CallInv
  <2>7. \A d, e \in In("reserved") :
           d # e => \/ task[d].until + Interval <= task[e].until
                    \/ task[e].until + Interval <= task[d].until
    BY DEF CallInv
  <2>8. clock + Interval <= Slot + Interval
    BY <1>1
  <2> QED BY <1>2, <1>1, <2>2, <2>4, <2>5, <2>6, <2>7, <2>8 DEF CallInv
<1>5. CASE Slot > clock
  <2>1. calls' = calls /\ task'[c].pc = "reserved" /\ task'[c].until = Slot
        /\ \A d \in Callers : d # c => task'[d] = task[d]
    BY <1>1, <1>5 DEF Acquire
  <2>2. In("reserved")' = In("reserved") \cup {c} /\ c \notin In("reserved")
        /\ \A d \in In("reserved") : task'[d] = task[d]
    BY <2>1 DEF In
  <2>3. \A d \in In("reserved") : task[d].until + Interval <= Slot /\ clock <= task[d].until
    BY <1>1, <1>5, <1>3 DEF CallInv
  <2>4. \A d \in In("reserved")' : clock' <= task'[d].until /\ task'[d].until + Interval <= next'
    BY <1>1, <1>2, <1>3, <1>5, <2>1, <2>2, <2>3
  <2>5. \A d, e \in In("reserved")' :
          d # e => \/ task'[d].until + Interval <= task'[e].until
                   \/ task'[e].until + Interval <= task'[d].until
    BY <2>1, <2>2, <2>3 DEF CallInv
  <2>6. ASSUME calls # <<>>
        PROVE  /\ calls[Len(calls)] <= clock
               /\ calls[Len(calls)] + Interval <= next'
               /\ \A d \in In("reserved")' : calls[Len(calls)] + Interval <= task'[d].until
    <3>1. calls[Len(calls)] \in Nat /\ calls[Len(calls)] + Interval <= next
      BY <2>6, <1>1 DEF CallInv
    <3>2. \A d \in In("reserved") : calls[Len(calls)] + Interval <= task'[d].until
      BY <2>6, <2>2 DEF CallInv
    <3>3. calls[Len(calls)] + Interval <= task'[c].until
      BY <3>1, <2>1, <1>1
    <3>4. calls[Len(calls)] <= clock
      BY <2>6 DEF CallInv
    <3>5. calls[Len(calls)] + Interval <= next'
      BY <3>1, <1>1, <1>2
    <3> QED BY <3>2, <3>3, <3>4, <3>5, <2>2
  <2>7. Spaced(calls)'
    BY <2>1, <1>2 DEF CallInv, Spaced
  <2> QED BY <1>2, <2>1, <2>4, <2>5, <2>6, <2>7 DEF CallInv
<1> QED BY <1>1, <1>4, <1>5

\* With punctual timers every step keeps the calls apart.
LEMMA CallStep == ~Late /\ TypeInv /\ CallInv /\ [Next]_vars => CallInv'
<1> SUFFICES ASSUME ~Late, TypeInv, CallInv, [Next]_vars PROVE CallInv'
  OBVIOUS
<1>0. /\ clock \in Nat /\ next \in Nat /\ calls \in Seq(Nat) /\ task \in [Callers -> Task]
      /\ Interval \in Nat /\ Interval' = Interval
  BY IntervalType DEF TypeInv, TypeOK, Interval
<1>a. \A d \in In("reserved") : task[d].until \in Nat /\ d \in Callers
  BY <1>0 DEF In, Task
<1>1. CASE Tick
  <2>1. \A d \in In("reserved") : clock < task[d].until
    BY <1>1, <1>0, <1>a DEF Tick, Due
  <2>2. In("reserved")' = In("reserved") /\ task' = task /\ calls' = calls /\ next' = next
        /\ clock' = clock + 1
    BY <1>1 DEF Tick, In
  <2>3. \A d \in In("reserved") : clock + 1 <= task[d].until
    BY <2>1, <1>0, <1>a
  <2>4. calls # <<>> => calls[Len(calls)] <= clock + 1
    BY <1>0 DEF CallInv
  <2> QED BY <2>2, <2>3, <2>4, <1>0 DEF CallInv, Spaced
<1>2. ASSUME NEW c \in Callers, Begin(c) \/ Retry(c) PROVE CallInv'
  BY <1>2, AcquireCalls DEF Begin, Retry
<1>3. ASSUME NEW c \in Callers, SlotReached(c) PROVE CallInv'
  <2>1. c \in In("reserved") /\ clock = task[c].until
    BY <1>3, <1>0, <1>a DEF SlotReached, In, CallInv
  <2>2. /\ clock' = clock /\ next' = next /\ calls' = Append(calls, clock)
        /\ task'[c].pc = "running" /\ \A d \in Callers : d # c => task'[d] = task[d]
    BY <1>3, <1>0 DEF SlotReached, Task
  <2>3. In("reserved")' = In("reserved") \ {c} /\ \A d \in In("reserved") \ {c} : task'[d] = task[d]
    BY <2>2 DEF In
  <2>4. Spaced(calls)' /\ calls' # <<>> /\ calls'[Len(calls')] = clock
    <3>1. calls # <<>> => calls[Len(calls)] + Interval <= clock
      BY <2>1 DEF CallInv
    <3> QED BY <3>1, <2>2, <1>0, SpacedAppend DEF CallInv, Spaced
  <2>5. \A d \in In("reserved") \ {c} : clock + Interval <= task[d].until
    <3> SUFFICES ASSUME NEW d \in In("reserved") \ {c} PROVE clock + Interval <= task[d].until
      OBVIOUS
    <3>1. \/ task[c].until + Interval <= task[d].until
          \/ task[d].until + Interval <= task[c].until
      BY <2>1 DEF CallInv
    <3>2. clock <= task[d].until
      BY DEF CallInv
    <3> QED BY <3>1, <3>2, <2>1, <1>0, <1>a
  <2>6. clock + Interval <= next
    BY <2>1 DEF CallInv
  <2>7. \A d \in In("reserved")' : clock' <= task'[d].until /\ task'[d].until + Interval <= next'
    BY <2>2, <2>3 DEF CallInv
  <2>8. \A d, e \in In("reserved")' :
          d # e => \/ task'[d].until + Interval <= task'[e].until
                   \/ task'[e].until + Interval <= task'[d].until
    BY <2>3 DEF CallInv
  <2>9. /\ calls'[Len(calls')] <= clock' /\ calls'[Len(calls')] + Interval <= next'
        /\ \A d \in In("reserved")' : calls'[Len(calls')] + Interval <= task'[d].until
    BY <2>2, <2>3, <2>4, <2>5, <2>6, <1>0
  <2> QED BY <2>4, <2>7, <2>8, <2>9, <1>0 DEF CallInv
<1>4. ASSUME NEW c \in Callers, Return(c) \/ Fail(c) PROVE CallInv'
  <2>1. /\ clock' = clock /\ next' = next /\ calls' = calls
        /\ task[c].pc # "reserved" /\ task'[c].pc # "reserved"
        /\ \A d \in Callers : d # c => task'[d] = task[d]
    BY <1>4, <1>0 DEF Return, Fail, Task
  <2>2. In("reserved")' = In("reserved") /\ \A d \in In("reserved") : task'[d] = task[d]
    BY <2>1 DEF In
  <2> QED BY <2>1, <2>2, <1>0 DEF CallInv, Spaced
<1>5. CASE UNCHANGED vars
  BY <1>5, <1>0 DEF vars, CallInv, In, Spaced
<1> QED BY <1>1, <1>2, <1>3, <1>4, <1>5 DEF Next

\* With punctual timers operations start an interval apart, retries included,
\* for any number of callers (RateLimiter::acquire).
THEOREM CallsSpacedAlways == Spec => []CallsSpaced
<1>1. CASE Late
  <2>1. TypeInv => CallsSpaced
    BY <1>1 DEF CallsSpaced
  <2> QED BY <2>1, TypeInit, TypeStep, PTL DEF Spec
<1>2. CASE ~Late
  <2>1. Init => CallInv
    BY DEF Init, CallInv, In, Spaced
  <2>2. CallInv => CallsSpaced
    BY DEF CallInv, CallsSpaced
  <2>3. TypeInv /\ CallInv /\ [Next]_vars => CallInv'
    BY <1>2, CallStep
  <2> QED BY <2>1, <2>2, <2>3, TypeInit, TypeStep, PTL DEF Spec
<1> QED BY <1>1, <1>2

-----------------------------------------------------------------------------
(* How far ahead slots are given out. *)

\* Products of numbers.
LEMMA Times ==
  ASSUME NEW n \in Nat, NEW k \in Nat
  PROVE  /\ n * k \in Nat /\ (n + 1) * k = n * k + k /\ 0 * k = 0 /\ 1 * k = k
         /\ n >= 1 /\ k >= 1 => n * k >= 1
OBVIOUS

LEMMA TimesMono ==
  ASSUME NEW m \in Nat, NEW n \in Nat, NEW k \in Nat, m <= n
  PROVE  m * k <= n * k
OBVIOUS

\* The elements of an extended sequence.
LEMMA AppendParts ==
  ASSUME NEW s \in Seq(Nat), NEW x \in Nat
  PROVE  /\ Append(s, x) \in Seq(Nat) /\ Len(s) \in Nat
         /\ Len(Append(s, x)) = Len(s) + 1 /\ Append(s, x)[Len(s) + 1] = x
         /\ \A i \in 1..Len(s) : Append(s, x)[i] = s[i] /\ s[i] \in Nat
BY SMTT(30)

\* Slots ahead of the clock follow each other without gaps, the first of them
\* is at most an interval away, and each has a caller that sleeps for it.
WaitInv ==
  /\ \A i, j \in 1..Len(slots) :
       i <= j /\ slots[i] > clock => slots[j] = slots[i] + (j - i) * Interval
  /\ \A i \in 1..Len(slots) : slots[i] > clock =>
       \E f \in 1..i : slots[f] > clock /\ slots[f] <= clock + Interval
  /\ \A i \in 1..Len(slots) : slots[i] > clock =>
       \E c \in In("reserved") : task[c].until = slots[i]
  /\ \A c \in In("reserved") : task[c].until > clock =>
       \E i \in 1..Len(slots) : slots[i] = task[c].until
  /\ slots = <<>> => next = 0

\* A reservation keeps this.
LEMMA AcquireWait ==
  ASSUME TypeInv, SlotInv, WaitInv, NEW c \in Callers, task[c].pc # "reserved",
         NEW n, NEW t, Acquire(c, n, t)
  PROVE  WaitInv'
<1> DEFINE N == Len(slots)
<1>1. /\ clock \in Nat /\ next \in Nat /\ slots \in Seq(Nat) /\ task \in [Callers -> Task]
      /\ Interval \in Nat /\ Slot \in Nat /\ Slot >= next /\ Slot >= clock
      /\ Slot > clock => Slot = next
      /\ N \in Nat
  BY SlotFacts, IntervalType DEF TypeInv, TypeOK
<1>2. /\ clock' = clock /\ Interval' = Interval /\ Len(slots') = N + 1
      /\ slots' = Append(slots, Slot) /\ slots'[N + 1] = Slot
      /\ \A i \in 1..N : slots'[i] = slots[i] /\ slots[i] \in Nat
  <2>1. clock' = clock /\ slots' = Append(slots, Slot) /\ Interval' = Interval
    BY DEF Acquire, Interval
  <2> QED BY <1>1, <2>1, AppendParts
<1>3. N >= 1 => /\ Slot >= slots[N] + Interval
                /\ Slot > clock => Slot = slots[N] + Interval
  <2>1. N >= 1 => slots[N] + Interval = next
    BY <1>1 DEF SlotInv
  <2> QED BY <1>1, <2>1
<1>4. N = 0 => Slot = clock
  <2>1. N = 0 => next = 0
    BY <1>1 DEF WaitInv
  <2> QED BY <1>1, <2>1
<1> HIDE DEF N
<1>5. ASSUME NEW i \in 1..N, slots[i] > clock
      PROVE  Slot = slots[i] + (N + 1 - i) * Interval /\ Slot = slots[N] + Interval
             /\ slots[N] > clock
  <2>1. slots[N] = slots[i] + (N - i) * Interval
    BY <1>1, <1>5 DEF WaitInv, N
  <2>2. (N - i) * Interval \in Nat /\ ((N - i) + 1) * Interval = (N - i) * Interval + Interval
    BY <1>1, Times
  <2>3. slots[i] \in Nat /\ slots[N] \in Nat
    BY <1>1, <1>2
  <2>4. slots[N] > clock
    BY <1>1, <1>5, <2>1, <2>2, <2>3
  <2>5. Slot = slots[N] + Interval
    BY <1>1, <1>3, <2>3, <2>4
  <2>6. (N - i) + 1 = N + 1 - i
    BY <1>1
  <2> QED BY <1>1, <2>1, <2>2, <2>3, <2>4, <2>5, <2>6
<1>6. ASSUME NEW i \in 1..(N + 1), NEW j \in 1..(N + 1), i <= j, slots'[i] > clock
      PROVE  slots'[j] = slots'[i] + (j - i) * Interval
  <2>1. CASE j \in 1..N
    <3>1. i \in 1..N
      BY <1>1, <1>6, <2>1
    <3> QED BY <1>2, <1>6, <2>1, <3>1 DEF WaitInv, N
  <2>2. CASE j = N + 1 /\ i \in 1..N
    <3>1. slots'[j] = Slot /\ slots'[i] = slots[i] /\ j - i = N + 1 - i
      <4>1. j = N + 1 /\ i \in 1..N
        BY <2>2
      <4>2. slots'[N + 1] = Slot
        BY <1>2
      <4>3. slots'[i] = slots[i]
        BY <1>2, <4>1
      <4>4. j - i = N + 1 - i
        BY <1>1, <4>1
      <4>5. slots'[j] = Slot
        BY <4>1, <4>2
      <4> QED BY <4>3, <4>4, <4>5
    <3>3. slots[i] > clock
      BY <1>6, <3>1
    <3>2. Slot = slots[i] + (N + 1 - i) * Interval
      BY <1>5, <2>2, <3>3
    <3> QED BY <3>1, <3>2
  <2>3. CASE j = N + 1 /\ i = N + 1
    <3>1. j - i = 0 /\ 0 * Interval = 0
      BY <1>1, <2>3, Times
    <3> QED BY <1>1, <1>2, <2>3, <3>1
  <2> QED BY <1>1, <1>6, <2>1, <2>2, <2>3
<1>7. ASSUME NEW i \in 1..(N + 1), slots'[i] > clock
      PROVE  \E f \in 1..i : slots'[f] > clock /\ slots'[f] <= clock + Interval
  <2>1. CASE i \in 1..N
    <3>1. PICK f \in 1..i : slots[f] > clock /\ slots[f] <= clock + Interval
      BY <1>2, <1>7, <2>1 DEF WaitInv, N
    <3>2. f \in 1..N
      BY <1>1, <2>1
    <3> QED BY <1>2, <3>1, <3>2
  <2>2. CASE i = N + 1 /\ N >= 1 /\ slots[N] > clock
    <3>1. PICK f \in 1..N : slots[f] > clock /\ slots[f] <= clock + Interval
      BY <1>1, <2>2 DEF WaitInv, N
    <3>2. f \in 1..i
      BY <1>1, <2>2
    <3> QED BY <1>2, <3>1, <3>2
  <2>3. CASE i = N + 1 /\ ~(N >= 1 /\ slots[N] > clock)
    <3>1. Slot > clock
      BY <1>2, <1>7, <2>3
    <3>2. N >= 1
      BY <1>1, <1>4, <3>1
    <3>3. slots[N] \in Nat /\ slots[N] <= clock
      BY <1>1, <1>2, <2>3, <3>2
    <3>4. Slot <= clock + Interval
      BY <1>1, <1>3, <3>1, <3>2, <3>3
    <3>5. i \in 1..i /\ slots'[i] = Slot
      BY <1>1, <1>2, <2>3
    <3> QED BY <3>1, <3>4, <3>5
  <2> QED BY <1>1, <2>1, <2>2, <2>3
<1>8. /\ \A d \in In("reserved") : d \in In("reserved")' /\ task'[d] = task[d]
      /\ Slot > clock => c \in In("reserved")' /\ task'[c].until = Slot
      /\ \A d \in In("reserved")' : d \in In("reserved") \/ (d = c /\ task'[c].until = Slot)
  <2>1. /\ \A d \in Callers : d # c => task'[d] = task[d]
        /\ Slot > clock => task'[c].pc = "reserved" /\ task'[c].until = Slot
        /\ Slot <= clock => task'[c].pc = "running"
    BY <1>1 DEF Acquire
  <2> QED BY <1>1, <2>1 DEF In
<1>9. ASSUME NEW i \in 1..(N + 1), slots'[i] > clock
      PROVE  \E d \in In("reserved")' : task'[d].until = slots'[i]
  <2>1. CASE i \in 1..N
    <3>1. PICK d \in In("reserved") : task[d].until = slots[i]
      BY <1>2, <1>9, <2>1 DEF WaitInv, N
    <3> QED BY <1>2, <1>8, <2>1, <3>1
  <2>2. CASE i = N + 1
    BY <1>2, <1>8, <1>9, <2>2
  <2> QED BY <1>1, <2>1, <2>2
<1>10. ASSUME NEW d \in In("reserved")', task'[d].until > clock
       PROVE  \E i \in 1..(N + 1) : slots'[i] = task'[d].until
  <2>1. CASE d \in In("reserved")
    <3>1. PICK i \in 1..N : slots[i] = task[d].until
      BY <1>8, <1>10, <2>1 DEF WaitInv, N
    <3>2. i \in 1..(N + 1) /\ slots'[i] = slots[i]
      BY <1>1, <1>2
    <3> QED BY <1>8, <2>1, <3>1, <3>2
  <2>2. CASE d \notin In("reserved")
    <3>1. N + 1 \in 1..(N + 1)
      BY <1>1
    <3> QED BY <1>2, <1>8, <2>2, <3>1
  <2> QED BY <2>1, <2>2
<1>11. slots' # <<>>
  BY <1>1, <1>2
<1>12. \A i, j \in 1..Len(slots') :
         i <= j /\ slots'[i] > clock' => slots'[j] = slots'[i] + (j - i) * Interval'
  BY <1>2, <1>6
<1>13. \A i \in 1..Len(slots') : slots'[i] > clock' =>
         /\ \E f \in 1..i : slots'[f] > clock' /\ slots'[f] <= clock' + Interval'
         /\ \E d \in In("reserved")' : task'[d].until = slots'[i]
  BY <1>2, <1>7, <1>9
<1>14. \A d \in In("reserved")' : task'[d].until > clock' =>
         \E i \in 1..Len(slots') : slots'[i] = task'[d].until
  BY <1>2, <1>10
<1> QED BY <1>11, <1>12, <1>13, <1>14, Zenon DEF WaitInv

\* Every step keeps it.
LEMMA WaitStep == TypeInv /\ SlotInv /\ WaitInv /\ [Next]_vars => WaitInv'
<1> SUFFICES ASSUME TypeInv, SlotInv, WaitInv, [Next]_vars PROVE WaitInv'
  OBVIOUS
<1>0. /\ clock \in Nat /\ next \in Nat /\ slots \in Seq(Nat) /\ task \in [Callers -> Task]
      /\ Interval \in Nat /\ Interval' = Interval /\ Len(slots) \in Nat
      /\ \A i \in 1..Len(slots) : slots[i] \in Nat
  BY IntervalType DEF TypeInv, TypeOK, Interval
<1>1. CASE Tick
  <2>1. /\ clock' = clock + 1 /\ slots' = slots /\ task' = task /\ next' = next
        /\ In("reserved")' = In("reserved")
    BY <1>1 DEF Tick, In
  <2>2. \A x \in Nat : x > clock + 1 => x > clock
    BY <1>0
  <2>3. ASSUME NEW i \in 1..Len(slots), slots[i] > clock + 1
        PROVE  \E f \in 1..i : slots[f] > clock + 1 /\ slots[f] <= clock + 1 + Interval
    <3>1. PICK f \in 1..i : slots[f] > clock /\ slots[f] <= clock + Interval
      BY <1>0, <2>2, <2>3 DEF WaitInv
    <3>2. f \in 1..Len(slots) /\ slots[f] \in Nat /\ i \in Nat /\ slots[i] \in Nat
      BY <1>0
    <3>3. CASE slots[f] > clock + 1
      BY <1>0, <3>1, <3>2, <3>3
    <3>4. CASE slots[f] = clock + 1
      <4>1. f # i
        BY <2>3, <1>0, <3>4
      <4>2. f + 1 \in 1..i /\ f + 1 \in 1..Len(slots) /\ f <= f + 1 /\ (f + 1) - f = 1
        BY <1>0, <3>2, <4>1
      <4>3. slots[f + 1] = slots[f] + ((f + 1) - f) * Interval
        BY <3>1, <3>2, <4>2 DEF WaitInv
      <4>4. slots[f + 1] = clock + 1 + Interval
        BY <1>0, <3>4, <4>2, <4>3, Times
      <4>5. Interval >= 1
        BY <1>0, <3>1, <3>2
      <4>6. slots[f + 1] > clock + 1 /\ slots[f + 1] <= clock + 1 + Interval
        BY <1>0, <4>4, <4>5
      <4> QED BY <4>2, <4>6
    <3> QED BY <1>0, <3>1, <3>2, <3>3, <3>4
  <2>4. \A i \in 1..Len(slots) : slots[i] > clock + 1 => slots[i] > clock
    BY <1>0, <2>2
  <2>5. \A d \in In("reserved") : task[d].until > clock + 1 => task[d].until > clock
    <3>1. \A d \in In("reserved") : task[d].until \in Nat
      BY <1>0 DEF In, Task
    <3> QED BY <2>2, <3>1
  <2>6. \A i, j \in 1..Len(slots) :
          i <= j /\ slots[i] > clock + 1 => slots[j] = slots[i] + (j - i) * Interval
    BY <2>4 DEF WaitInv
  <2>7. \A i \in 1..Len(slots) : slots[i] > clock + 1 =>
          \E c \in In("reserved") : task[c].until = slots[i]
    BY <2>4 DEF WaitInv
  <2>8. \A c \in In("reserved") : task[c].until > clock + 1 =>
          \E i \in 1..Len(slots) : slots[i] = task[c].until
    BY <2>5 DEF WaitInv
  <2>9. slots = <<>> => next = 0
    BY DEF WaitInv
  <2> QED BY <1>0, <2>1, <2>3, <2>6, <2>7, <2>8, <2>9 DEF WaitInv
<1>2. ASSUME NEW c \in Callers, Begin(c) \/ Retry(c) PROVE WaitInv'
  BY <1>2, AcquireWait DEF Begin, Retry
<1>3. ASSUME NEW c \in Callers, SlotReached(c) \/ Return(c) \/ Fail(c) PROVE WaitInv'
  <2>1. /\ clock' = clock /\ next' = next /\ slots' = slots
        /\ task'[c].pc # "reserved"
        /\ task[c].pc = "reserved" => task[c].until <= clock
        /\ \A d \in Callers : d # c => task'[d] = task[d]
    BY <1>0, <1>3 DEF SlotReached, Return, Fail, Task
  <2>2. \A d \in In("reserved") : /\ d \in Callers /\ task[d].until \in Nat
                                  /\ d = c => ~(task[d].until > clock)
    BY <1>0, <2>1 DEF In, Task
  <2>3. /\ In("reserved")' = In("reserved") \ {c}
        /\ \A d \in In("reserved") \ {c} : task'[d] = task[d]
    BY <2>1 DEF In
  <2>4. ASSUME NEW i \in 1..Len(slots), slots[i] > clock
        PROVE  \E d \in In("reserved")' : task'[d].until = slots[i]
    <3>1. PICK d \in In("reserved") : task[d].until = slots[i]
      BY <2>4 DEF WaitInv
    <3>2. d # c
      BY <2>2, <2>4, <3>1
    <3> QED BY <2>3, <3>1, <3>2
  <2>5. ASSUME NEW d \in In("reserved")', task'[d].until > clock
        PROVE  \E i \in 1..Len(slots) : slots[i] = task'[d].until
    BY <2>3, <2>5 DEF WaitInv
  <2> QED BY <1>0, <2>1, <2>4, <2>5 DEF WaitInv
<1>4. CASE UNCHANGED vars
  BY <1>4, <1>0 DEF vars, WaitInv, In
<1> QED BY <1>1, <1>2, <1>3, <1>4 DEF Next

\* Slots ahead of the clock have a caller each, so they are no more than the
\* callers are.
LEMMA AheadBounded ==
  ASSUME TypeInv, WaitInv, NEW i \in 1..Len(slots), slots[i] > clock
  PROVE  slots[i] - clock <= Interval * Cardinality(Callers)
<1>0. /\ clock \in Nat /\ slots \in Seq(Nat) /\ Interval \in Nat /\ Len(slots) \in Nat
      /\ \A k \in 1..Len(slots) : slots[k] \in Nat
      /\ Cardinality(Callers) \in Nat
  BY IntervalType, CallersAssumption, FS_CardinalityType DEF TypeInv, TypeOK
<1>1. PICK f \in 1..i : slots[f] > clock /\ slots[f] <= clock + Interval
  BY DEF WaitInv
<1>2. Interval >= 1 /\ f \in 1..Len(slots) /\ slots[f] \in Nat /\ i \in Nat /\ f \in Nat
  BY <1>0, <1>1
<1>3. \A k \in f..i : k \in 1..Len(slots) /\ slots[k] = slots[f] + (k - f) * Interval
  <2> SUFFICES ASSUME NEW k \in f..i
               PROVE  k \in 1..Len(slots) /\ slots[k] = slots[f] + (k - f) * Interval
    OBVIOUS
  <2>1. k \in 1..Len(slots) /\ f <= k
    BY <1>0, <1>2
  <2> QED BY <1>1, <1>2, <2>1 DEF WaitInv
<1>4. \A k \in f..i : (k - f) \in Nat /\ (k - f) * Interval \in Nat
  BY <1>0, <1>2, Times
<1>5. \A k \in f..i : slots[k] > clock
  <2> SUFFICES ASSUME NEW k \in f..i PROVE slots[k] > clock
    OBVIOUS
  <2> DEFINE x == (k - f) * Interval
  <2>1. x \in Nat /\ slots[k] = slots[f] + x
    BY <1>3, <1>4
  <2> HIDE DEF x
  <2> QED BY <1>0, <1>1, <1>2, <2>1
<1>6. \A k, l \in f..i : k < l => slots[k] < slots[l]
  <2> SUFFICES ASSUME NEW k \in f..i, NEW l \in f..i, k < l PROVE slots[k] < slots[l]
    OBVIOUS
  <2>1. slots[l] = slots[k] + (l - k) * Interval
    BY <1>2, <1>3, <1>5 DEF WaitInv
  <2>2. (l - k) \in Nat /\ l - k >= 1
    BY <1>2
  <2>3. (l - k) * Interval >= 1 /\ (l - k) * Interval \in Nat
    BY <1>0, <1>2, <2>2, Times
  <2>4. slots[k] \in Nat /\ slots[l] \in Nat
    BY <1>0, <1>3
  <2> QED BY <2>1, <2>3, <2>4
<1> DEFINE g == [k \in f..i |-> CHOOSE c \in In("reserved") : task[c].until = slots[k]]
<1>7. \A k \in f..i : g[k] \in In("reserved") /\ task[g[k]].until = slots[k]
  BY <1>3, <1>5 DEF WaitInv
<1>8. g \in Injection(f..i, Callers)
  <2>1. g \in [f..i -> Callers]
    BY <1>7 DEF In
  <2>2. \A k, l \in f..i : g[k] = g[l] => slots[k] = slots[l]
    BY <1>7, Zenon
  <2> HIDE DEF g
  <2>3. \A k, l \in f..i : slots[k] = slots[l] => k = l
    <3> SUFFICES ASSUME NEW k \in f..i, NEW l \in f..i, k # l PROVE slots[k] # slots[l]
      OBVIOUS
    <3>1. k < l \/ l < k
      BY <1>2
    <3>4. slots[k] \in Nat /\ slots[l] \in Nat
      <4>1. k \in 1..Len(slots) /\ l \in 1..Len(slots)
        BY <1>3
      <4> QED BY <1>0, <4>1
    <3>2. CASE k < l
      BY <1>6, <3>2, <3>4
    <3>3. CASE l < k
      BY <1>6, <3>3, <3>4
    <3> QED BY <3>1, <3>2, <3>3
  <2>4. \A k, l \in f..i : g[k] = g[l] => k = l
    BY <2>2, <2>3
  <2> QED BY <2>1, <2>4 DEF Injection, IsInjective
<1>9. Cardinality(f..i) <= Cardinality(Callers) /\ Cardinality(f..i) = i - f + 1
  BY <1>2, <1>8, CallersAssumption, FS_Injection, FS_Interval
<1>10. (i - f) + 1 <= Cardinality(Callers) /\ i - f \in Nat
  BY <1>0, <1>2, <1>9
<1>11. ((i - f) + 1) * Interval <= Cardinality(Callers) * Interval
  <2>1. (i - f) + 1 \in Nat
    BY <1>10
  <2> HIDE DEF g
  <2> QED BY <1>0, <1>10, <2>1, TimesMono
<1>12. ((i - f) + 1) * Interval = (i - f) * Interval + Interval
  BY <1>0, <1>10, Times
<1>13. slots[i] = slots[f] + (i - f) * Interval
  BY <1>2, <1>3
<1>14. Cardinality(Callers) * Interval = Interval * Cardinality(Callers)
  BY <1>0
<1>15. (i - f) * Interval \in Nat /\ Cardinality(Callers) * Interval \in Nat /\ slots[i] \in Nat
  BY <1>0, <1>10, Times
<1> HIDE DEF g
<1> DEFINE x == (i - f) * Interval
           y == Cardinality(Callers) * Interval
<1>16. slots[i] = slots[f] + x /\ x + Interval <= y /\ x \in Nat /\ y \in Nat
  BY <1>11, <1>12, <1>13, <1>15
<1>17. Interval * Cardinality(Callers) = y
  BY <1>14
<1> HIDE DEF x, y
<1>18. \A a, b, c, u, v, w \in Int : a = b + u /\ u + w <= v /\ b <= c + w => a - c <= v
  OBVIOUS
<1>19. slots[i] - clock <= y
  <2>1. slots[i] \in Int /\ slots[f] \in Int /\ clock \in Int /\ x \in Int /\ y \in Int
        /\ Interval \in Int
    BY <1>0, <1>2, <1>16
  <2> QED BY <1>1, <1>16, <1>18, <2>1
<1> QED BY <1>17, <1>19

\* A caller waits at most one interval per caller.
LEMMA WaitBound == TypeInv /\ WaitInv => WaitBounded
<1> SUFFICES ASSUME TypeInv, WaitInv, NEW c \in In("reserved")
             PROVE  task[c].until - clock <= Interval * Cardinality(Callers)
  BY DEF WaitBounded
<1>1. /\ clock \in Nat /\ task[c].until \in Nat /\ Interval \in Nat
      /\ Cardinality(Callers) \in Nat
  BY IntervalType, CallersAssumption, FS_CardinalityType DEF TypeInv, TypeOK, In, Task
<1>2. CASE task[c].until > clock
  <2>1. PICK i \in 1..Len(slots) : slots[i] = task[c].until
    BY <1>2 DEF WaitInv
  <2> QED BY <1>2, <2>1, AheadBounded
<1>3. CASE ~(task[c].until > clock)
  <2>1. Interval * Cardinality(Callers) \in Nat
    BY <1>1, Times
  <2> QED BY <1>1, <1>3, <2>1
<1> QED BY <1>2, <1>3

\* For any number of callers and however late they wake, none has to wait for
\* its slot longer than one interval per caller (RateLimiter::acquire).
THEOREM WaitBoundedAlways == Spec => []WaitBounded
<1>1. Init => SlotInv /\ WaitInv
  BY DEF Init, SlotInv, SlotsSpaced, Spaced, WaitInv, In
<1> QED BY <1>1, TypeInit, TypeStep, SlotStep, WaitStep, WaitBound, PTL DEF Spec

-----------------------------------------------------------------------------
(* The time cap of a call. *)

\* With punctual timers a caller that sleeps after a failure does not oversleep
\* and wakes less than the cap and a delay after its call began.
BudgetInv ==
  /\ \A c \in Callers : task[c].pc = "backoff" =>
       clock <= task[c].until /\ task[c].until - task[c].start < MaxTotal + MaxDelay
  /\ RetriesInBudget

\* Every step keeps this, since no slot is too far ahead.
LEMMA BudgetStep ==
  ASSUME ~Late, Capped, TypeInv, WaitBounded', BudgetInv, [Next]_vars
  PROVE  BudgetInv'
<1> DEFINE Round == Interval * Cardinality(Callers)
<1>0. /\ clock \in Nat /\ task \in [Callers -> Task] /\ Round \in Nat /\ Round' = Round
      /\ MaxTotal \in Nat /\ MaxDelay \in Nat
      /\ \A c \in Callers : task[c].until \in Nat /\ task[c].start \in Nat /\ task[c].attempt \in Nat
  <2>1. Interval \in Nat /\ Cardinality(Callers) \in Nat /\ Interval' = Interval
    BY IntervalType, CallersAssumption, FS_CardinalityType DEF Interval
  <2>2. Round \in Nat
    BY <2>1, Times
  <2> QED BY <2>1, <2>2, PolicyAssumption DEF TypeInv, TypeOK, Task
<1>1. RetriesInBudget <=>
        \A c \in Callers : task[c].pc \in {"reserved", "running"} /\ task[c].attempt > 1
          => task[c].until - task[c].start < MaxTotal + MaxDelay + Round
  BY DEF RetriesInBudget, In
<1>2. RetriesInBudget' <=>
        \A c \in Callers : task'[c].pc \in {"reserved", "running"} /\ task'[c].attempt > 1
          => task'[c].until - task'[c].start < MaxTotal + MaxDelay + Round
  BY <1>0 DEF RetriesInBudget, In, Round
<1>3. \A c \in Callers : task'[c].pc = "reserved" => task'[c].until - clock' <= Round
  BY <1>0 DEF WaitBounded, In, Round
<1> HIDE DEF Round
<1> DEFINE Ok(t, now) ==
             /\ t.pc = "backoff" => now <= t.until /\ t.until - t.start < MaxTotal + MaxDelay
             /\ t.pc \in {"reserved", "running"} /\ t.attempt > 1
                  => t.until - t.start < MaxTotal + MaxDelay + Round
<1>4. \A c \in Callers : Ok(task[c], clock)
  BY <1>1 DEF BudgetInv
<1>5. SUFFICES \A c \in Callers : Ok(task'[c], clock')
  BY <1>2 DEF BudgetInv
<1>6. CASE Tick
  <2>1. task' = task /\ clock' = clock + 1
        /\ \A c \in Callers : task[c].pc = "backoff" => ~(task[c].until <= clock)
    BY <1>6 DEF Tick, Due, In
  <2> QED BY <1>0, <1>4, <2>1
<1>7. ASSUME NEW c \in Callers, Begin(c) PROVE \A d \in Callers : Ok(task'[d], clock')
  <2>1. clock' = clock /\ task'[c].attempt = 1 /\ task'[c].pc # "backoff"
        /\ \A d \in Callers : d # c => task'[d] = task[d]
    BY <1>0, <1>7 DEF Begin, Acquire
  <2> QED BY <1>4, <2>1
<1>8. ASSUME NEW c \in Callers, SlotReached(c) PROVE \A d \in Callers : Ok(task'[d], clock')
  <2>1. /\ clock' = clock /\ task[c].pc = "reserved" /\ task'[c].pc = "running"
        /\ task'[c].attempt = task[c].attempt /\ task'[c].until = task[c].until
        /\ task'[c].start = task[c].start
        /\ \A d \in Callers : d # c => task'[d] = task[d]
    BY <1>0, <1>8 DEF SlotReached, Task
  <2> QED BY <1>4, <2>1
<1>9. ASSUME NEW c \in Callers, Return(c) PROVE \A d \in Callers : Ok(task'[d], clock')
  <2>1. clock' = clock /\ task'[c].pc = "idle" /\ \A d \in Callers : d # c => task'[d] = task[d]
    BY <1>0, <1>9 DEF Return, Task
  <2> QED BY <1>4, <2>1
<1>10. ASSUME NEW c \in Callers, Fail(c) PROVE \A d \in Callers : Ok(task'[d], clock')
  <2>1. PICK e \in 0..MaxDelay :
          task' = [task EXCEPT ![c] = [@ EXCEPT !.pc = "backoff", !.until = clock + e]]
    BY <1>10 DEF Fail, BackoffDelays
  <2>2. clock' = clock /\ clock - task[c].start < MaxTotal
    BY <1>0, <1>10 DEF Fail, GivesUp
  <2>3. /\ task'[c].pc = "backoff" /\ task'[c].until = clock + e /\ task'[c].start = task[c].start
        /\ \A d \in Callers : d # c => task'[d] = task[d]
    BY <1>0, <2>1 DEF Task
  <2>4. Ok(task'[c], clock')
    BY <1>0, <2>2, <2>3
  <2> QED BY <1>4, <2>2, <2>3, <2>4
<1>11. ASSUME NEW c \in Callers, Retry(c) PROVE \A d \in Callers : Ok(task'[d], clock')
  <2>1. /\ clock' = clock /\ task[c].pc = "backoff" /\ task[c].until <= clock
        /\ task'[c].pc \in {"reserved", "running"} /\ task'[c].start = task[c].start
        /\ task'[c].pc = "running" => task'[c].until = clock
        /\ task'[c].until \in Int
        /\ \A d \in Callers : d # c => task'[d] = task[d]
    <3>1. Slot \in Nat
      BY SlotFacts DEF TypeInv, TypeOK
    <3> QED BY <1>0, <1>11, <3>1 DEF Retry, Acquire
  <2>2. clock - task[c].start < MaxTotal + MaxDelay
    BY <1>0, <1>4, <2>1
  <2>3. task'[c].until - clock <= Round
    BY <1>0, <1>3, <2>1
  <2>4. Ok(task'[c], clock')
    BY <1>0, <2>1, <2>2, <2>3
  <2> QED BY <1>4, <2>1, <2>4
<1>12. CASE UNCHANGED vars
  BY <1>4, <1>12 DEF vars
<1> QED BY <1>6, <1>7, <1>8, <1>9, <1>10, <1>11, <1>12 DEF Next

\* max_total bounds a whole call, for any number of callers and any policy:
\* with punctual timers no attempt starts later than the cap, one delay and one
\* round of the limiter after the call began (with_retry_policy).
THEOREM RetriesInBudgetAlways == Spec => []RetriesInBudget
<1>1. CASE Late \/ ~Capped
  <2>1. TypeInv => RetriesInBudget
    BY <1>1 DEF RetriesInBudget
  <2> QED BY <2>1, TypeInit, TypeStep, PTL DEF Spec
<1>2. CASE ~Late /\ Capped
  <2>1. Init => SlotInv /\ WaitInv /\ BudgetInv
    BY DEF Init, SlotInv, SlotsSpaced, Spaced, WaitInv, BudgetInv, RetriesInBudget, In
  <2>2. TypeInv /\ WaitBounded' /\ BudgetInv /\ [Next]_vars => BudgetInv'
    BY <1>2, BudgetStep
  <2>3. BudgetInv => RetriesInBudget
    BY DEF BudgetInv
  <2> QED BY <2>1, <2>2, <2>3, TypeInit, TypeStep, SlotStep, WaitStep, WaitBound, PTL DEF Spec
<1> QED BY <1>1, <1>2, PolicyAssumption, RateAssumption
=============================================================================
