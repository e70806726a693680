------------------------ MODULE MessageDeliveryProofs ------------------------
(***************************************************************************)
(* Proofs about MessageDelivery, for every number of messages, every       *)
(* lifetime, limit and queue, and timers as late as they like.             *)
(***************************************************************************)
EXTENDS MessageDelivery, TLAPS

\* A sleeping sender was told QUEUE_OVERFLOW and has a retry left.
SleepOK(s) == s.pc = "sleeping" => s.answer = "overflow" /\ s.retries < MaxRetries

\* A message whose request is under way is not in the queue; one that was not
\* sent, or whose last answer is QUEUE_OVERFLOW, is neither.
RequestOK(m) ==
  /\ m \in net => taken[m] = 0
  /\ taken[m] <= 1
  /\ snd[m].pc = "new" \/ snd[m].answer = "overflow" => m \notin net /\ taken[m] = 0

Inv ==
  /\ TypeOK
  /\ \A m \in Msgs : SleepOK(snd[m]) /\ RequestOK(m)

\* What an attempt leaves, when the message is not under way or queued.
LEMMA AttemptStep ==
  ASSUME Inv, NEW m \in Msgs, NEW s \in Sender, s.retries <= MaxRetries,
         taken[m] = 0, Attempt(m, s), UNCHANGED <<clock, queue, taken>>
  PROVE  Inv'
<1> DEFINE t == [s EXCEPT !.pc = "sending", !.answer = "none", !.began = clock]
<1>1. t \in Sender /\ t.pc = "sending" /\ t.answer = "none" /\ t.retries = s.retries
  <2>1. clock \in Nat /\ "none" \in Answers \cup {"none"}
    BY DEF Inv, TypeOK
  <2> QED
    BY <2>1 DEF Sender
<1>2. snd' = [snd EXCEPT ![m] = t] /\ net' = net \cup {m}
  BY DEF Attempt
<1> HIDE DEF t
<1> QED
  BY <1>1, <1>2 DEF Inv, TypeOK, SleepOK, RequestOK

\* What an answer to a request that has arrived leaves.
LEMMA AnswerStep ==
  ASSUME Inv, NEW m \in Msgs, NEW a \in Answers, snd' = Answered(m, a),
         UNCHANGED <<clock, queue>> \/ (UNCHANGED clock /\ queue' = queue \cup {m}),
         net' \in {net, net \ {m}},
         taken' \in [Msgs -> Nat],
         \A k \in Msgs \ {m} : taken'[k] = taken[k],
         m \in net' => taken'[m] = 0,
         taken'[m] <= 1,
         a = "overflow" => m \notin net' /\ taken'[m] = 0,
         (snd[m].pc = "new" \/ snd[m].answer = "overflow") => m \notin net' /\ taken'[m] = 0
  PROVE  Inv'
<1>1. CASE snd[m].pc = "sending" /\ snd[m].answer = "none"
  <2> DEFINE t == [snd[m] EXCEPT !.answer = a]
  <2>1. t \in Sender /\ t.pc = "sending" /\ t.answer = a /\ t.retries = snd[m].retries
    BY <1>1 DEF Inv, TypeOK, Sender
  <2>2. snd' = [snd EXCEPT ![m] = t]
    BY <1>1 DEF Answered
  <2> HIDE DEF t
  <2>3. snd \in [Msgs -> Sender] /\ snd'[m] = t
    BY <2>2 DEF Inv, TypeOK
  <2>4. TypeOK'
    <3>1. snd' \in [Msgs -> Sender]
      BY <2>1, <2>2, <2>3
    <3>2. clock' \in Nat /\ net' \subseteq Msgs /\ queue' \subseteq Msgs
      BY DEF Inv, TypeOK
    <3>3. ASSUME NEW k \in Msgs PROVE snd'[k].retries <= MaxRetries
      BY <2>1, <2>2, <2>3 DEF Inv, TypeOK
    <3> QED BY <3>1, <3>2, <3>3 DEF TypeOK
  <2>5. SleepOK(snd'[m]) /\ RequestOK(m)'
    BY <2>1, <2>3 DEF SleepOK, RequestOK
  <2>6. ASSUME NEW k \in Msgs, k # m PROVE SleepOK(snd'[k]) /\ RequestOK(k)'
    <3>1. snd'[k] = snd[k] /\ taken'[k] = taken[k] /\ (k \in net' <=> k \in net)
      BY <2>2, <2>3, <2>6
    <3> QED BY <3>1 DEF Inv, SleepOK, RequestOK
  <2> QED BY <2>4, <2>5, <2>6 DEF Inv
<1>2. CASE ~(snd[m].pc = "sending" /\ snd[m].answer = "none")
  <2>1. snd' = snd
    BY <1>2 DEF Answered
  <2> QED
    BY <2>1 DEF Inv, TypeOK, SleepOK, RequestOK
<1> QED
  BY <1>1, <1>2

\* The invariant holds at the start and is kept by every step.
LEMMA InvInit == Init => Inv
BY DeliveryAssumption DEF Init, Inv, TypeOK, SleepOK, RequestOK, Sender, Answers, None

LEMMA InvStep == Inv /\ [Next]_vars => Inv'
<1> SUFFICES ASSUME Inv, [Next]_vars PROVE Inv'
  OBVIOUS
<1> USE DeliveryAssumption
<1>0. /\ clock \in Nat /\ taken \in [Msgs -> Nat]
      /\ \A m \in Msgs : snd[m] \in Sender /\ SleepOK(snd[m]) /\ RequestOK(m)
                         /\ snd[m].retries \in Nat /\ snd[m].retries <= MaxRetries
  BY DEF Inv, TypeOK, Sender
<1>1. CASE Tick
  BY <1>1 DEF Inv, TypeOK, SleepOK, RequestOK, Tick
<1>2. ASSUME NEW m \in Msgs, Send(m) PROVE Inv'
  <2>1. PICK e \in {None, (clock + Lifetime) \div Second} :
               Attempt(m, [snd[m] EXCEPT !.expires = e])
    BY <1>2 DEF Send
  <2>2. e \in Nat
    BY <1>0 DEF None
  <2>3. /\ [snd[m] EXCEPT !.expires = e] \in Sender
        /\ [snd[m] EXCEPT !.expires = e].retries = snd[m].retries
    BY <1>0, <2>2 DEF Sender
  <2>4. taken[m] = 0 /\ UNCHANGED <<clock, queue, taken>>
    BY <1>0, <1>2 DEF Send, RequestOK
  <2> QED
    BY <1>0, <2>1, <2>3, <2>4, AttemptStep
<1>3. ASSUME NEW m \in Msgs, Sleep(m) PROVE Inv'
  <2> DEFINE t == [snd[m] EXCEPT !.pc = "sleeping", !.until = clock + Interval]
  <2>1. snd[m].answer = "overflow" /\ snd[m].retries < MaxRetries
    BY <1>3 DEF Sleep, MayRetry, IsQueueOverflow
  <2>2. /\ t \in Sender /\ t.pc = "sleeping"
        /\ t.answer = snd[m].answer /\ t.retries = snd[m].retries
    <3>1. snd[m] \in Sender /\ clock + Interval \in Nat
      BY <1>0
    <3> QED
      BY <3>1 DEF Sender
  <2>3. snd' = [snd EXCEPT ![m] = t] /\ UNCHANGED <<clock, net, queue, taken>>
    BY <1>3 DEF Sleep
  <2> HIDE DEF t
  <2> QED
    BY <2>1, <2>2, <2>3 DEF Inv, TypeOK, SleepOK, RequestOK
<1>4. ASSUME NEW m \in Msgs, Return(m) PROVE Inv'
  <2> DEFINE t == [snd[m] EXCEPT !.pc = "done"]
  <2>1. /\ t \in Sender /\ t.pc = "done"
        /\ t.answer = snd[m].answer /\ t.retries = snd[m].retries
    BY <1>0 DEF Sender
  <2>2. snd' = [snd EXCEPT ![m] = t] /\ UNCHANGED <<clock, net, queue, taken>>
    BY <1>4 DEF Return
  <2> HIDE DEF t
  <2> QED
    BY <2>1, <2>2 DEF Inv, TypeOK, SleepOK, RequestOK
<1>5. ASSUME NEW m \in Msgs, Resend(m) PROVE Inv'
  <2>1. taken[m] = 0 /\ snd[m].retries < MaxRetries
    BY <1>0, <1>5 DEF Resend, SleepOK, RequestOK
  <2> DEFINE s == [snd[m] EXCEPT !.retries = snd[m].retries + 1]
  <2>2. s \in Sender /\ s.retries = snd[m].retries + 1
    BY <1>0 DEF Sender
  <2>3. Attempt(m, s) /\ UNCHANGED <<clock, queue, taken>>
    BY <1>5 DEF Resend
  <2> HIDE DEF s
  <2> QED
    BY <1>0, <2>1, <2>2, <2>3, AttemptStep
<1>6. ASSUME NEW m \in Msgs, Enqueue(m) PROVE Inv'
  <2>1. PICK a \in {"ok", "other"} : snd' = Answered(m, a)
    BY <1>6 DEF Enqueue
  <2>2. /\ a \in Answers /\ a # "overflow"
        /\ net' = net \ {m} /\ queue' = queue \cup {m} /\ clock' = clock
        /\ taken[m] = 0 /\ taken' = [taken EXCEPT ![m] = taken[m] + 1]
        /\ ~(snd[m].pc = "new" \/ snd[m].answer = "overflow")
    BY <1>0, <1>6, <2>1 DEF Enqueue, RequestOK, Answers
  <2>3. /\ taken' \in [Msgs -> Nat] /\ taken'[m] = 1
        /\ \A k \in Msgs \ {m} : taken'[k] = taken[k]
    BY <1>0, <2>2
  <2> QED
    BY <2>1, <2>2, <2>3, AnswerStep
<1>7. ASSUME NEW m \in Msgs, Refuse(m) PROVE Inv'
  <2>1. PICK a \in {"overflow", "other"} : snd' = Answered(m, a)
    BY <1>7 DEF Refuse
  <2>2. /\ a \in Answers /\ net' = net \ {m} /\ taken[m] = 0
        /\ UNCHANGED <<clock, queue, taken>>
    BY <1>0, <1>7, <2>1 DEF Refuse, RequestOK, Answers
  <2> QED
    BY <1>0, <2>1, <2>2, AnswerStep
<1>8. ASSUME NEW m \in Msgs, Disconnect(m) PROVE Inv'
  <2>1. /\ snd' = Answered(m, "other") /\ net' \in {net, net \ {m}}
        /\ UNCHANGED <<clock, queue, taken>> /\ "other" \in Answers
        /\ ~(snd[m].pc = "new" \/ snd[m].answer = "overflow")
    BY <1>8 DEF Disconnect, Answers
  <2>2. (m \in net' => taken'[m] = 0) /\ taken'[m] <= 1
    BY <1>0, <2>1 DEF RequestOK
  <2> QED
    BY <1>0, <2>1, <2>2, AnswerStep
<1>9. ASSUME NEW m \in Msgs, Drain(m) PROVE Inv'
  BY <1>9 DEF Inv, TypeOK, SleepOK, RequestOK, Drain
<1>10. CASE UNCHANGED vars
  BY <1>10 DEF Inv, TypeOK, SleepOK, RequestOK, vars
<1> QED
  BY <1>1, <1>2, <1>3, <1>4, <1>5, <1>6, <1>7, <1>8, <1>9, <1>10 DEF Next, Client

\* Types, and no more than QUEUE_OVERFLOW_MAX_RETRIES retries of a message.
THEOREM TypeCorrect == Spec => []TypeOK
<1>1. Inv => TypeOK
  BY DEF Inv
<1> QED
  BY <1>1, InvInit, InvStep, PTL DEF Spec

\* Resending after QUEUE_OVERFLOW never queues a message twice.
THEOREM QueuedAtMostOnceAlways == Spec => []QueuedAtMostOnce
<1>1. Inv => QueuedAtMostOnce
  BY DEF Inv, RequestOK, QueuedAtMostOnce
<1> QED
  BY <1>1, InvInit, InvStep, PTL DEF Spec

\* A send that returns QUEUE_OVERFLOW left nothing in the queue or under way.
THEOREM OverflowIsFinalAlways == Spec => []OverflowIsFinal
<1>1. Inv => OverflowIsFinal
  BY DEF Inv, RequestOK, OverflowIsFinal
<1> QED
  BY <1>1, InvInit, InvStep, PTL DEF Spec

-----------------------------------------------------------------------------
(* Punctual timers. *)

\* A sender sleeps no longer than until the end of its sleep, which is before
\* the message expires; an attempt after the first began before that.
InTime(s) ==
  /\ s.pc = "new" => s.retries = 0
  /\ s.pc = "sleeping" => clock <= s.until /\ s.until < Deadline(s)
  /\ s.pc = "sending" /\ s.retries > 0 => s.began < Deadline(s)

TimeInv == \A m \in Msgs : InTime(snd[m])

\* An answer changes nothing of this.
LEMMA AnswerInTime ==
  ASSUME Inv, TimeInv, NEW m \in Msgs, NEW a \in Answers,
         snd' = Answered(m, a), clock' = clock
  PROVE  TimeInv'
<1>1. ASSUME NEW k \in Msgs
      PROVE  /\ snd'[k].pc = snd[k].pc /\ snd'[k].retries = snd[k].retries
             /\ snd'[k].until = snd[k].until /\ snd'[k].began = snd[k].began
             /\ snd'[k].expires = snd[k].expires
  BY DEF Inv, TypeOK, Sender, Answered
<1> QED BY <1>1 DEF TimeInv, InTime, Deadline

\* A change of one sender keeps it if the new sender is in time.
LEMMA SenderInTime ==
  ASSUME Inv, TimeInv, NEW m \in Msgs, NEW t, snd' = [snd EXCEPT ![m] = t],
         clock' = clock, InTime(t)
  PROVE  TimeInv'
<1>1. \A k \in Msgs : snd'[k] = IF k = m THEN t ELSE snd[k]
  BY DEF Inv, TypeOK
<1> QED BY <1>1 DEF TimeInv, InTime

LEMMA TimeStep == ~Late /\ Inv /\ TimeInv /\ [Next]_vars => TimeInv'
<1> SUFFICES ASSUME ~Late, Inv, TimeInv, [Next]_vars PROVE TimeInv'
  OBVIOUS
<1>0. /\ clock \in Nat /\ Second \in Nat /\ Interval \in Nat
      /\ \A m \in Msgs : /\ snd[m] \in Sender /\ InTime(snd[m])
                         /\ snd[m].until \in Nat /\ snd[m].retries \in Nat
  BY DeliveryAssumption DEF Inv, TypeOK, TimeInv, Sender
<1>1. CASE Tick
  <2>1. snd' = snd /\ clock' = clock + 1 /\ Due = {}
    BY <1>1 DEF Tick
  <2>2. ASSUME NEW m \in Msgs, snd[m].pc = "sleeping" PROVE clock + 1 <= snd[m].until
    <3>1. ~(snd[m].until <= clock)
      BY <2>1, <2>2 DEF Due
    <3> QED BY <1>0, <3>1
  <2> QED BY <1>0, <2>1, <2>2 DEF TimeInv, InTime
<1>2. ASSUME NEW m \in Msgs, Send(m) PROVE TimeInv'
  <2>1. PICK e : Attempt(m, [snd[m] EXCEPT !.expires = e])
    BY <1>2 DEF Send
  <2> DEFINE t == [[snd[m] EXCEPT !.expires = e]
                     EXCEPT !.pc = "sending", !.answer = "none", !.began = clock]
  <2>2. t.pc = "sending" /\ t.retries = 0
    BY <1>0, <1>2 DEF Send, InTime, Sender
  <2>3. snd' = [snd EXCEPT ![m] = t] /\ clock' = clock
    BY <1>2, <2>1 DEF Send, Attempt
  <2> HIDE DEF t
  <2>4. InTime(t)
    BY <2>2 DEF InTime
  <2> QED BY <2>3, <2>4, SenderInTime
<1>3. ASSUME NEW m \in Msgs, Sleep(m) PROVE TimeInv'
  <2> DEFINE t == [snd[m] EXCEPT !.pc = "sleeping", !.until = clock + Interval]
  <2>1. /\ t.pc = "sleeping" /\ t.until = clock + Interval
        /\ t.expires = snd[m].expires
    BY <1>0 DEF Sender
  <2>2. /\ snd' = [snd EXCEPT ![m] = t] /\ clock' = clock
        /\ clock + Interval < Deadline(snd[m])
    BY <1>3 DEF Sleep, MayRetry
  <2> HIDE DEF t
  <2>3. clock <= t.until /\ t.until < Deadline(t)
    BY <1>0, <2>1, <2>2 DEF Deadline
  <2>4. InTime(t)
    BY <2>1, <2>3 DEF InTime
  <2> QED BY <2>2, <2>4, SenderInTime
<1>4. ASSUME NEW m \in Msgs, Return(m) PROVE TimeInv'
  <2> DEFINE t == [snd[m] EXCEPT !.pc = "done"]
  <2>1. t.pc = "done"
    BY <1>0 DEF Sender
  <2>2. snd' = [snd EXCEPT ![m] = t] /\ clock' = clock
    BY <1>4 DEF Return
  <2> HIDE DEF t
  <2>3. InTime(t)
    BY <2>1 DEF InTime
  <2> QED BY <2>2, <2>3, SenderInTime
<1>5. ASSUME NEW m \in Msgs, Resend(m) PROVE TimeInv'
  <2> DEFINE t == [[snd[m] EXCEPT !.retries = snd[m].retries + 1]
                     EXCEPT !.pc = "sending", !.answer = "none", !.began = clock]
  <2>1. t.pc = "sending" /\ t.began = clock /\ t.expires = snd[m].expires
    BY <1>0 DEF Sender
  <2>2. snd' = [snd EXCEPT ![m] = t] /\ clock' = clock
    BY <1>5 DEF Resend, Attempt
  <2>3. clock <= snd[m].until /\ snd[m].until < Deadline(snd[m])
    BY <1>0, <1>5 DEF Resend, InTime
  <2> HIDE DEF t
  <2>4. Deadline(t) = Deadline(snd[m]) /\ Deadline(snd[m]) \in Int
    <3>1. snd[m].expires \in Nat
      BY <1>0 DEF Sender
    <3> QED BY <1>0, <2>1, <3>1 DEF Deadline
  <2>5. clock < Deadline(t)
    BY <1>0, <2>3, <2>4
  <2>6. InTime(t)
    BY <2>1, <2>5 DEF InTime
  <2> QED BY <2>2, <2>6, SenderInTime
<1>6. ASSUME NEW m \in Msgs, Enqueue(m) \/ Refuse(m) \/ Disconnect(m) PROVE TimeInv'
  <2>1. \E a \in Answers : snd' = Answered(m, a)
    BY <1>6 DEF Enqueue, Refuse, Disconnect, Answers
  <2>2. clock' = clock
    BY <1>6 DEF Enqueue, Refuse, Disconnect
  <2> QED BY <2>1, <2>2, AnswerInTime
<1>7. ASSUME snd' = snd, clock' = clock PROVE TimeInv'
  BY <1>7 DEF TimeInv, InTime
<1>8. ASSUME NEW m \in Msgs, Drain(m) PROVE TimeInv'
  BY <1>7, <1>8 DEF Drain
<1>9. CASE UNCHANGED vars
  BY <1>7, <1>9 DEF vars
<1> QED
  BY <1>1, <1>2, <1>3, <1>4, <1>5, <1>6, <1>8, <1>9 DEF Next, Client

\* With punctual timers a message is not sent again when it has expired.
THEOREM ResentInTimeAlways == Spec => []ResentInTime
<1>1. CASE Late
  <2>1. Inv => ResentInTime
    BY <1>1 DEF ResentInTime
  <2> QED BY <2>1, InvInit, InvStep, PTL DEF Spec
<1>2. CASE ~Late
  <2>1. Init => TimeInv
    BY DEF Init, TimeInv, InTime
  <2>2. Inv /\ TimeInv /\ [Next]_vars => TimeInv'
    BY <1>2, TimeStep
  <2>3. TimeInv => ResentInTime
    BY DEF TimeInv, InTime, ResentInTime
  <2> QED BY <2>1, <2>2, <2>3, InvInit, InvStep, PTL DEF Spec
<1> QED BY <1>1, <1>2
=============================================================================
