------------------------ MODULE ActiveSessionsProofs ------------------------
(***************************************************************************)
(* The listing of active sessions is complete up to full chunks, for every *)
(* log, chunk size, set of filters and interleaving with the chain.        *)
(***************************************************************************)
EXTENDS ActiveSessions, TLAPS

Seen == {call.sessions[i] : i \in DOMAIN call.sessions}

Calls == [before : Nat, todo : Seq(Nat), page : Seq(Nat), sessions : Seq(Profiles),
          yes : SUBSET Profiles, no : SUBSET Profiles, nextBefore : Nat]

Types ==
  /\ events \in Seq(Profiles) /\ deployed \subseteq Profiles
  /\ inclusive \in BOOLEAN /\ from \in {1, 2}
  /\ phase \in {"idle", "query", "records", "done"}
  /\ asked \in Nat /\ call \in Calls

\* What is owed is deployed, wanted, in the log, and never answered for as
\* not deployed.
OwedOK ==
  /\ owed \subseteq deployed /\ owed \cap call.no = {}
  /\ \A p \in owed : /\ IsConnectDescription(p) /\ Matches(p)
                     /\ \E i \in from .. Len(events) : events[i] = p

\* All that is owed at place c of the log or above it is in S.
Covered(c, S) ==
  \A i \in from .. Len(events) : i >= c /\ events[i] \in owed => events[i] \in S

\* The oldest place a caller with this cursor has passed
Passed(c) == IF c = 0 THEN Len(events) + 1 ELSE c

\* Consecutive places, newest first
Descending(s) == \A k \in 1 .. Len(s) : s[k] = s[1] - k + 1

\* The page under way, as far as it is read
PageOK ==
  LET cursor == call.page[Len(call.page)]
  IN  /\ call.page # <<>> /\ Descending(call.page)
      /\ cursor >= from /\ call.page[1] <= Len(events)
      /\ call.before # 0 => call.page[1] <= call.before
      /\ Len(call.page) < Chunk => cursor = from
      /\ call.todo # <<>> =>
           /\ Descending(call.todo) /\ call.todo[1] <= call.page[1]
           /\ call.todo[Len(call.todo)] = cursor
      /\ Covered(IF call.todo = <<>> THEN cursor ELSE call.todo[1] + 1,
                 listed \cup cut \cup Seen)

Inv ==
  /\ Types /\ OwedOK
  /\ Seen \subseteq call.yes
  /\ asked <= Len(events) /\ call.before <= Len(events)
  /\ phase \in {"query", "records"} => Covered(Passed(asked), listed \cup cut)
  /\ phase = "query" => Covered(Passed(call.before), listed \cup cut \cup Seen)
  /\ phase = "records" => PageOK
  /\ call.nextBefore <= Len(events)
  /\ ListedUnlessCutOff

\* A new call has seen nothing.
LEMMA NewCallType ==
  ASSUME NEW c \in Nat
  PROVE  /\ NewCall(c) \in Calls /\ NewCall(c).before = c /\ NewCall(c).no = {}
         /\ NewCall(c).yes = {} /\ NewCall(c).nextBefore = 0
         /\ {NewCall(c).sessions[i] : i \in DOMAIN NewCall(c).sessions} = {}
BY DEF NewCall, Calls

\* A page of the log: consecutive places below the cursor, short only where
\* the log begins, and empty only where nothing is left.
LEMMA PageProperties ==
  ASSUME Types, NEW c \in Nat, c <= Len(events)
  PROVE  LET page == QueryProfiles(c) IN
         /\ page \in Seq(Nat) /\ Descending(page)
         /\ page = <<>> => Newest(c) < from
         /\ page # <<>> =>
              /\ page[1] = Newest(c) /\ page[Len(page)] >= from
              /\ Len(page) < Chunk => page[Len(page)] = from
<1> DEFINE top == Newest(c)
           low == IF top - Chunk + 1 > from THEN top - Chunk + 1 ELSE from
           n == IF top < low THEN 0 ELSE top - low + 1
           page == QueryProfiles(c)
<1>1. Len(events) \in Nat /\ top \in Nat /\ top <= Len(events) /\ from \in 1 .. 2
  BY DEF Types, Newest
<1>2. Chunk \in Nat /\ Chunk >= 2
  BY ActiveAssumption
<1>3. low \in Nat /\ low >= from /\ n \in Nat /\ (n = 0 => top < low) /\ (n # 0 => n = top - low + 1)
  <2>1. \A a, f, k \in Int : LET l == IF a - k + 1 > f THEN a - k + 1 ELSE f
                               m == IF a < l THEN 0 ELSE a - l + 1
                           IN  /\ l \in Int /\ l >= f /\ m \in Nat
                               /\ m = 0 => a < l
                               /\ m # 0 => m = a - l + 1
    OBVIOUS
  <2>2. top \in Int /\ from \in Int /\ Chunk \in Int /\ from >= 1
    BY <1>1, <1>2
  <2> HIDE DEF top
  <2> QED BY <2>1, <2>2
<1>4. page = [i \in 1 .. n |-> top - i + 1]
  BY DEF QueryProfiles
<1>5. n = 0 => top < from
  BY <1>1, <1>2, <1>3
<1>6. n # 0 /\ n < Chunk => low = from
  BY <1>1, <1>2
<1> HIDE DEF top, low, n, page
<1>7. \A i \in 1 .. n : top - i + 1 \in Nat
  BY <1>1, <1>3
<1>8. page \in Seq(Nat) /\ Len(page) = n /\ \A i \in 1 .. n : page[i] = top - i + 1
  BY <1>3, <1>4, <1>7
<1>9. page # <<>> => n # 0
  BY <1>4, <1>8
<1>10. page = <<>> => n = 0
  BY <1>8
<1>11. Descending(page)
  BY <1>1, <1>3, <1>8 DEF Descending
<1>12. n # 0 => page[1] = top /\ page[Len(page)] = low
  BY <1>1, <1>3, <1>8
<1> QED BY <1>3, <1>5, <1>6, <1>8, <1>9, <1>10, <1>11, <1>12 DEF page, top

\* Less of the log and more profiles: still covered.
LEMMA CoveredMono ==
  ASSUME Types, NEW c \in Nat, NEW d \in Nat, c <= d, NEW S, NEW T, S \subseteq T, Covered(c, S)
  PROVE  Covered(d, T)
BY DEF Covered, Types

\* When the whole log is covered, nothing is owed any more.
LEMMA AllCovered ==
  ASSUME Types, OwedOK, NEW c \in Nat, c <= from, NEW S, Covered(c, S)
  PROVE  owed \subseteq S
BY DEF Covered, OwedOK, Types

\* A deployment or a destruction during the listing.
LEMMA ChainStep ==
  ASSUME Inv, NEW p \in Profiles, Deploy(p) \/ Destroy(p)
  PROVE  Inv'
<1>1. UNCHANGED <<inclusive, from, filter, phase, asked, call, listed, cut>>
  BY DEF Deploy, Destroy
<1>2. Types /\ OwedOK
  BY DEF Inv
<1>3. /\ events' \in Seq(Profiles) /\ deployed' \subseteq Profiles
      /\ Len(events) \in Nat /\ Len(events') \in Nat /\ Len(events) <= Len(events')
      /\ \A i \in 1 .. Len(events) : events'[i] = events[i]
      /\ owed' \subseteq owed /\ owed' \subseteq deployed'
  BY <1>2 DEF Deploy, Destroy, Types, OwedOK
<1>4. \A i \in 1 .. Len(events') : i > Len(events) => events'[i] \notin owed'
  <2>1. CASE Deploy(p)
    <3>1. p \notin owed' /\ events' = Append(events, p)
      BY <1>2, <2>1 DEF Deploy, OwedOK
    <3> QED BY <1>2, <3>1 DEF Types
  <2>2. CASE Destroy(p)
    BY <1>3, <2>2 DEF Destroy
  <2> QED BY <2>1, <2>2
<1>5. from \in 1 .. 2
  BY <1>2 DEF Types
<1>6. ASSUME NEW c \in Nat, NEW S, Covered(c, S)
      PROVE  /\ Covered(c, S)'
             /\ \A d \in Nat : d >= c => Covered(d, S)'
  <2>1. \A j \in from .. Len(events') : j >= c /\ events'[j] \in owed' => events'[j] \in S
    <3> SUFFICES ASSUME NEW j \in from .. Len(events'), j >= c, events'[j] \in owed'
                 PROVE  events'[j] \in S
      OBVIOUS
    <3>1. j \in 1 .. Len(events')
      BY <1>5
    <3>2. j \in from .. Len(events)
      BY <1>3, <1>4, <3>1
    <3> QED BY <1>3, <1>5, <1>6, <3>2 DEF Covered
  <2> QED BY <1>1, <2>1 DEF Covered
<1>7. Types'
  BY <1>1, <1>2, <1>3 DEF Types
<1>8. OwedOK'
  <2>1. \A q \in owed' : \E i \in from .. Len(events') : events'[i] = q
    <3> SUFFICES ASSUME NEW q \in owed' PROVE \E i \in from .. Len(events') : events'[i] = q
      OBVIOUS
    <3>1. PICK i \in from .. Len(events) : events[i] = q
      BY <1>2, <1>3 DEF OwedOK
    <3>2. i \in from .. Len(events') /\ events'[i] = q
      BY <1>3, <1>5, <3>1
    <3> QED BY <3>2
  <2>2. \A q \in owed' : IsConnectDescription(q) /\ Matches(q)
    BY <1>2, <1>3 DEF OwedOK
  <2>3. owed' \cap call.no = {}
    BY <1>2, <1>3 DEF OwedOK
  <2> QED BY <1>1, <1>3, <2>1, <2>2, <2>3 DEF OwedOK, Matches
<1>9. Seen' = Seen
  BY <1>1 DEF Seen
<1>10. Passed(asked) \in Nat /\ Passed(asked)' \in Nat /\ Passed(asked)' >= Passed(asked)
       /\ Passed(call.before) \in Nat /\ Passed(call.before)' \in Nat
       /\ Passed(call.before)' >= Passed(call.before)
  BY <1>1, <1>2, <1>3 DEF Passed, Types, Calls
<1>11. phase' \in {"query", "records"} => Covered(Passed(asked), listed \cup cut)'
  <2> SUFFICES ASSUME phase \in {"query", "records"}
               PROVE  Covered(Passed(asked), listed \cup cut)'
    BY <1>1
  <2>1. Covered(Passed(asked), listed \cup cut)
    BY DEF Inv
  <2> QED BY <1>1, <1>6, <1>10, <2>1 DEF Covered
<1>12. phase' = "query" => Covered(Passed(call.before), listed \cup cut \cup Seen)'
  <2> SUFFICES ASSUME phase = "query"
               PROVE  Covered(Passed(call.before), listed \cup cut \cup Seen)'
    BY <1>1
  <2>1. Covered(Passed(call.before), listed \cup cut \cup Seen)
    BY DEF Inv
  <2> QED BY <1>1, <1>6, <1>9, <1>10, <2>1 DEF Covered
<1>13. phase' = "records" => PageOK'
  <2> SUFFICES ASSUME phase = "records" PROVE PageOK'
    BY <1>1
  <2>1. PageOK
    BY DEF Inv
  <2> DEFINE c == IF call.todo = <<>> THEN call.page[Len(call.page)] ELSE call.todo[1] + 1
  <2>2. c \in Nat
    <3>1. call.page \in Seq(Nat) /\ call.todo \in Seq(Nat) /\ call.page # <<>>
      BY <1>2, <2>1 DEF Types, Calls, PageOK
    <3>2. call.page[Len(call.page)] \in Nat
      BY <3>1
    <3>3. call.todo # <<>> => call.todo[1] \in Nat
      BY <3>1
    <3> QED BY <3>2, <3>3
  <2>3. Covered(c, listed \cup cut \cup Seen)
    BY <2>1 DEF PageOK
  <2> HIDE DEF c
  <2>4. Covered(c, listed \cup cut \cup Seen)'
    <3>1. c' = c
      BY <1>1 DEF c
    <3> QED BY <1>1, <1>6, <1>9, <2>2, <2>3, <3>1 DEF Covered
  <2>5. call.page[1] <= Len(events')
    <3>1. call.page[1] \in Nat
      BY <1>2, <2>1 DEF Types, Calls, PageOK
    <3> QED BY <1>3, <2>1, <3>1 DEF PageOK
  <2> QED BY <1>1, <2>1, <2>4, <2>5 DEF PageOK, Descending, c
<1>14. ListedUnlessCutOff'
  BY <1>1, <1>3 DEF Inv, ListedUnlessCutOff
<1>15. asked' <= Len(events') /\ call'.before <= Len(events') /\ call'.nextBefore <= Len(events')
  BY <1>1, <1>2, <1>3 DEF Inv, Types, Calls
<1> QED BY <1>1, <1>7, <1>8, <1>9, <1>11, <1>12, <1>13, <1>14, <1>15 DEF Inv

\* After a step that starts a call, nothing is seen in it.
LEMMA NothingSeen ==
  ASSUME NEW c \in Nat, call' = NewCall(c)
  PROVE  Seen' = {} /\ call'.no = {}
BY NewCallType DEF Seen

\* A call returns: what it saw is listed, and if the caller stops there,
\* nothing owed is left.
LEMMA ReturnStep ==
  ASSUME Inv, NEW next \in Nat, next <= Len(events), NEW stalled \in BOOLEAN,
         Return(next, stalled, call.sessions),
         UNCHANGED <<root, from, filter, owed, cut, upsets>>,
         Covered(Passed(next), listed \cup cut \cup Seen),
         next = 0 \/ stalled \/ call.yes = {} => owed \subseteq listed \cup cut \cup Seen
  PROVE  Inv'
<1>1. UNCHANGED <<events, deployed, inclusive, from, filter, owed, cut>>
  BY DEF root
<1>2. Types /\ OwedOK /\ Len(events) \in Nat
  BY DEF Inv, Types
<1>3. listed' = listed \cup Seen /\ asked' = next
  BY DEF Return, Seen
<1>4. CASE stalled \/ call.yes = {} \/ next = 0
  <2>1. phase' = "done" /\ call' = NewCall(0)
    BY <1>4 DEF Return
  <2>2. Types'
    BY <1>1, <1>2, <1>3, <2>1, NewCallType DEF Types
  <2>3. OwedOK' /\ Seen' = {}
    <3>1. call'.no = {} /\ Seen' = {}
      BY <2>1, NothingSeen
    <3> QED BY <1>1, <1>2, <3>1 DEF OwedOK, Matches
  <2>4. ListedUnlessCutOff'
    BY <1>1, <1>3, <1>4, <2>1 DEF ListedUnlessCutOff
  <2> QED BY <1>1, <1>2, <1>3, <2>1, <2>2, <2>3, <2>4, NewCallType DEF Inv
<1>5. CASE ~(stalled \/ call.yes = {} \/ next = 0)
  <2>1. phase' = "query" /\ call' = NewCall(next)
    BY <1>5 DEF Return
  <2>2. Types'
    BY <1>1, <1>2, <1>3, <2>1, NewCallType DEF Types
  <2>3. OwedOK' /\ Seen' = {}
    <3>1. call'.no = {} /\ Seen' = {}
      BY <2>1, NothingSeen
    <3> QED BY <1>1, <1>2, <3>1 DEF OwedOK, Matches
  <2>4. asked' = next /\ call'.before = next /\ call'.nextBefore = 0
    BY <1>3, <2>1, NewCallType
  <2>5. listed' \cup cut' = listed \cup cut \cup Seen
        /\ listed' \cup cut' \cup Seen' = listed \cup cut \cup Seen
    BY <1>1, <1>3, <2>3
  <2>6. Covered(Passed(asked), listed \cup cut)'
    BY <1>1, <2>4, <2>5 DEF Covered, Passed
  <2>7. Covered(Passed(call.before), listed \cup cut \cup Seen)'
    BY <1>1, <2>4, <2>5 DEF Covered, Passed
  <2> QED BY <1>1, <1>2, <2>1, <2>2, <2>3, <2>4, <2>6, <2>7 DEF Inv, ListedUnlessCutOff
<1> QED BY <1>4, <1>5

\* A page is read.
LEMMA QueryPageStep ==
  ASSUME Inv, QueryPage
  PROVE  Inv'
<1> DEFINE page == QueryProfiles(call.before)
<1>1. UNCHANGED <<events, deployed, inclusive, from, filter, owed, cut>>
      /\ UNCHANGED <<root, from, filter, owed, cut, upsets>>
  BY DEF QueryPage, root
<1>2. /\ Types /\ OwedOK /\ Len(events) \in Nat /\ from \in 1 .. 2
      /\ call.before \in Nat /\ call.before <= Len(events)
      /\ call.nextBefore \in Nat /\ call.nextBefore <= Len(events)
  BY DEF Inv, Types, Calls
<1>3. phase = "query" /\ Covered(Passed(call.before), listed \cup cut \cup Seen)
  BY DEF QueryPage, Inv
<1>4. /\ page \in Seq(Nat) /\ Descending(page)
      /\ page = <<>> => Newest(call.before) < from
      /\ page # <<>> =>
           /\ page[1] = Newest(call.before) /\ page[Len(page)] >= from
           /\ Len(page) < Chunk => page[Len(page)] = from
  BY <1>2, PageProperties
<1>5. /\ Newest(call.before) \in Nat /\ Newest(call.before) <= Len(events)
      /\ Passed(call.before) \in Nat /\ Passed(call.before) <= Newest(call.before) + 1
      /\ call.before # 0 => Newest(call.before) <= call.before
  BY <1>2 DEF Newest, Passed
<1>6. CASE page = <<>>
  <2>1. Return(call.nextBefore, FALSE, call.sessions)
    BY <1>6 DEF QueryPage
  <2>2. owed \subseteq listed \cup cut \cup Seen
    <3>1. Passed(call.before) <= from
      BY <1>2, <1>4, <1>5, <1>6
    <3> QED BY <1>2, <1>3, <1>5, <3>1, AllCovered
  <2>3. Covered(Passed(call.nextBefore), listed \cup cut \cup Seen)
    BY <2>2 DEF Covered
  <2> QED BY <1>1, <1>2, <2>1, <2>2, <2>3, ReturnStep
<1>7. CASE page # <<>>
  <2>1. /\ phase' = "records" /\ call' = [call EXCEPT !.page = page, !.todo = page]
        /\ UNCHANGED <<listed, asked>>
    BY <1>7 DEF QueryPage
  <2> HIDE DEF page
  <2>2. /\ call' \in Calls /\ call'.page = page /\ call'.todo = page
        /\ UNCHANGED <<call.before, call.sessions, call.yes, call.no, call.nextBefore>>
    BY <1>2, <1>4, <2>1 DEF Types, Calls
  <2>3. Types' /\ OwedOK' /\ Seen' = Seen
    BY <1>1, <1>2, <2>1, <2>2 DEF Types, OwedOK, Seen, Matches
  <2>4. Covered(page[1] + 1, listed \cup cut \cup Seen)
    BY <1>2, <1>3, <1>4, <1>5, <1>7, CoveredMono
  <2>5. Covered(IF call.todo = <<>> THEN call.page[Len(call.page)] ELSE call.todo[1] + 1,
                listed \cup cut \cup Seen)'
    BY <1>1, <1>7, <2>1, <2>2, <2>3, <2>4 DEF Covered
  <2>6. page[1] \in Nat
    BY <1>4, <1>5, <1>7
  <2>7. PageOK'
    <3>1. page[1] <= Len(events') /\ (call'.before # 0 => page[1] <= call'.before)
      BY <1>1, <1>4, <1>5, <1>7, <2>2
    <3> QED BY <1>1, <1>4, <1>7, <2>2, <2>5, <2>6, <3>1 DEF PageOK, Descending
  <2>8. Covered(Passed(asked), listed \cup cut)'
    BY <1>1, <1>3, <2>1 DEF Inv, Covered, Passed
  <2> QED BY <1>1, <1>2, <2>1, <2>2, <2>3, <2>7, <2>8 DEF Inv, ListedUnlessCutOff
<1> QED BY <1>6, <1>7

\* A failed query: the call begins again.
LEMMA QueryFailsStep ==
  ASSUME Inv, QueryFails
  PROVE  Inv'
<1>1. /\ UNCHANGED <<events, deployed, inclusive, from, filter, owed, cut, phase, asked, listed>>
      /\ phase = "query" /\ call' = NewCall(asked)
  BY DEF QueryFails, root
<1>2. Types /\ OwedOK /\ asked \in Nat /\ asked <= Len(events) /\ Len(events) \in Nat
      /\ Covered(Passed(asked), listed \cup cut)
  BY <1>1 DEF Inv, Types
<1>3. Types'
  BY <1>1, <1>2, NewCallType DEF Types
<1>4. OwedOK' /\ Seen' = {}
  <2>1. Seen' = {} /\ call'.no = {}
    BY <1>1, <1>2, NothingSeen
  <2> QED BY <1>1, <1>2, <2>1 DEF OwedOK, Matches
<1>5. call'.before = asked /\ call'.nextBefore = 0
  BY <1>1, <1>2, NewCallType
<1>6. Covered(Passed(asked), listed \cup cut)'
  BY <1>1, <1>2 DEF Covered, Passed
<1>7. Covered(Passed(call.before), listed \cup cut \cup Seen)'
  BY <1>1, <1>2, <1>4, <1>5 DEF Covered, Passed
<1> QED BY <1>1, <1>2, <1>3, <1>4, <1>5, <1>6, <1>7 DEF Inv, ListedUnlessCutOff

\* A page has ended.
LEMMA PageEndsStep ==
  ASSUME Inv, PageEnds
  PROVE  Inv'
<1> DEFINE cursor == call.page[Len(call.page)]
<1>1. UNCHANGED <<events, deployed, inclusive, from, filter, owed, cut>>
      /\ UNCHANGED <<root, from, filter, owed, cut, upsets>>
  BY DEF PageEnds, root
<1>2. /\ Types /\ OwedOK /\ Len(events) \in Nat /\ from \in 1 .. 2
      /\ call.before \in Nat /\ call.page \in Seq(Nat) /\ call.sessions \in Seq(Profiles)
      /\ Chunk \in Nat /\ Chunk >= 2 /\ Seen \subseteq call.yes
  BY ActiveAssumption DEF Inv, Types, Calls
<1>3. phase = "records" /\ call.todo = <<>> /\ PageOK
  BY DEF PageEnds, Inv
<1>4. Covered(cursor, listed \cup cut \cup Seen)
  BY <1>3 DEF PageOK
<1>5. /\ call.page # <<>> /\ Len(call.page) \in Nat /\ Len(call.page) >= 1
      /\ call.page[1] \in Nat /\ cursor \in Nat
  <2>1. call.page # <<>>
    BY <1>3 DEF PageOK
  <2>2. Len(call.page) \in Nat /\ Len(call.page) >= 1
    BY <1>2, <2>1
  <2> QED BY <1>2, <2>1, <2>2
<1>6. /\ cursor = call.page[1] - Len(call.page) + 1 /\ cursor >= from
      /\ call.page[1] <= Len(events)
      /\ call.before # 0 => call.page[1] <= call.before
      /\ Len(call.page) < Chunk => cursor = from
  BY <1>2, <1>3, <1>5 DEF PageOK, Descending
<1>7. cursor # 0 /\ cursor <= Len(events) /\ Passed(cursor) = cursor
  BY <1>2, <1>5, <1>6 DEF Passed
<1>8. cursor = from => owed \subseteq listed \cup cut \cup Seen
  BY <1>2, <1>4, <1>5, AllCovered
<1>9. cursor = call.before => cursor = from
  BY <1>2, <1>5, <1>6, <1>7
<1> HIDE DEF cursor
<1>10. CASE cursor = call.before /\ Return(0, TRUE, call.sessions)
  <2>1. owed \subseteq listed \cup cut \cup Seen
    BY <1>8, <1>9, <1>10
  <2>2. Covered(Passed(0), listed \cup cut \cup Seen)
    BY <2>1 DEF Covered
  <2>3. 0 \in Nat /\ 0 <= Len(events)
    BY <1>2
  <2> QED BY <1>1, <1>10, <2>1, <2>2, <2>3, ReturnStep
<1>11. CASE (LastPage \/ Full(call.sessions)) /\ Return(cursor, FALSE, call.sessions)
  <2>1. call.yes = {} => LastPage
    <3> SUFFICES ASSUME call.yes = {}, Full(call.sessions) PROVE FALSE
      BY <1>11
    <3>1. Len(call.sessions) >= 2
      BY <1>2 DEF Full
    <3>2. call.sessions[1] \in Seen
      BY <1>2, <3>1 DEF Seen
    <3> QED BY <1>2, <3>2
  <2>2. call.yes = {} => owed \subseteq listed \cup cut \cup Seen
    BY <1>6, <1>8, <2>1 DEF LastPage
  <2> QED BY <1>1, <1>4, <1>5, <1>7, <1>11, <2>2, ReturnStep
<1>12. CASE /\ phase' = "query"
            /\ call' = [call EXCEPT !.before = Onward(cursor),
                                    !.nextBefore = cursor, !.page = <<>>]
            /\ UNCHANGED <<listed, asked>>
  <2>1. /\ call' \in Calls /\ call'.before = cursor /\ call'.nextBefore = cursor
        /\ UNCHANGED <<call.sessions, call.yes, call.no>>
    <3>1. call \in Calls /\ <<>> \in Seq(Nat) /\ cursor \in Nat
      BY <1>2, <1>5 DEF Types
    <3>2. call' = [call EXCEPT !.before = cursor, !.nextBefore = cursor, !.page = <<>>]
      BY <1>12 DEF Onward
    <3> QED BY <3>1, <3>2 DEF Calls
  <2>2. Types' /\ OwedOK' /\ Seen' = Seen
    BY <1>1, <1>2, <1>12, <2>1 DEF Types, OwedOK, Seen, Matches
  <2>3. Covered(Passed(call.before), listed \cup cut \cup Seen)'
    BY <1>1, <1>4, <1>7, <1>12, <2>1, <2>2 DEF Covered, Passed
  <2>4. Covered(Passed(asked), listed \cup cut)'
    BY <1>1, <1>3, <1>12 DEF Inv, Covered, Passed
  <2> QED BY <1>1, <1>2, <1>7, <1>12, <2>1, <2>2, <2>3, <2>4 DEF Inv, ListedUnlessCutOff
<1> QED BY <1>10, <1>11, <1>12 DEF PageEnds, cursor

\* Places and distances.
LEMMA Distances ==
  ASSUME NEW a \in Int, NEW b \in Int, NEW c \in Int, NEW n \in Int
  PROVE  /\ a - (b + 1) + 1 = a - b /\ a - (a - b) = b
         /\ b >= a /\ b # a => b >= a + 1
         /\ b < a /\ b >= c /\ c = a - n + 1 => a - b \in 1 .. n - 1
         /\ c = a - n + 1 /\ n >= 1 => a >= c
         /\ b = a - 1 /\ a <= c => b <= c
OBVIOUS

\* The parts of a run of consecutive places.
LEMMA DescendingParts ==
  ASSUME NEW s \in Seq(Nat), s # <<>>, Descending(s)
  PROVE  /\ Len(s) \in Nat /\ Len(s) >= 1 /\ s[1] \in Nat /\ Head(s) = s[1]
         /\ s[Len(s)] = s[1] - Len(s) + 1 /\ s[Len(s)] \in Nat
         /\ Tail(s) \in Seq(Nat) /\ Len(Tail(s)) = Len(s) - 1
         /\ \A k \in 1 .. Len(Tail(s)) : Tail(s)[k] = s[1] - k
         /\ Tail(s) = <<>> => s[Len(s)] = s[1]
         /\ Tail(s) # <<>> => /\ Tail(s)[1] = s[1] - 1 /\ Descending(Tail(s))
                              /\ Tail(s)[Len(Tail(s))] = s[Len(s)]
<1>1. Len(s) \in Nat /\ Len(s) >= 1 /\ Head(s) = s[1]
  OBVIOUS
<1>2. s[1] \in Nat /\ s[Len(s)] \in Nat
  BY <1>1
<1>3. \A k \in 1 .. Len(s) : s[k] = s[1] - k + 1
  BY DEF Descending
<1>4. s[Len(s)] = s[1] - Len(s) + 1
  BY <1>1, <1>3
<1> DEFINE r == Tail(s)
<1>5. r \in Seq(Nat) /\ Len(r) = Len(s) - 1 /\ \A k \in 1 .. Len(r) : r[k] = s[k + 1]
  BY <1>1
<1> HIDE DEF r
<1>6. \A k \in 1 .. Len(r) : r[k] = s[1] - k
  <2> SUFFICES ASSUME NEW k \in 1 .. Len(r) PROVE r[k] = s[1] - k
    OBVIOUS
  <2>1. k + 1 \in 1 .. Len(s) /\ k \in Int
    BY <1>1, <1>5
  <2>2. s[k + 1] = s[1] - (k + 1) + 1
    BY <1>3, <2>1
  <2>3. r[k] = s[k + 1]
    BY <1>5
  <2>4. s[1] - (k + 1) + 1 = s[1] - k
    <3>1. s[1] \in Int
      BY <1>2
    <3> QED BY <2>1, <3>1, Distances
  <2> QED BY <2>2, <2>3, <2>4
<1>7. r = <<>> => s[Len(s)] = s[1]
  <2> SUFFICES ASSUME r = <<>> PROVE s[Len(s)] = s[1]
    OBVIOUS
  <2>1. Len(r) = 0
    OBVIOUS
  <2>2. Len(s) = 1
    BY <1>1, <1>5, <2>1
  <2> QED BY <2>2
<1>8. r # <<>> => r[1] = s[1] - 1 /\ Descending(r) /\ r[Len(r)] = s[Len(s)]
  <2> SUFFICES ASSUME r # <<>> PROVE r[1] = s[1] - 1 /\ Descending(r) /\ r[Len(r)] = s[Len(s)]
    OBVIOUS
  <2>1. Len(r) \in Nat /\ Len(r) >= 1
    BY <1>5
  <2>2. r[1] = s[1] - 1
    BY <1>6, <2>1
  <2>3. \A k \in 1 .. Len(r) : r[k] = r[1] - k + 1
    BY <1>2, <1>6, <2>2
  <2>4. r[Len(r)] = s[1] - Len(r)
    BY <1>6, <2>1
  <2>5. r[Len(r)] = s[Len(s)]
    <3>1. s[1] \in Int /\ Len(s) \in Int /\ Len(r) = Len(s) - 1
      BY <1>1, <1>2, <1>5
    <3>2. \A a, n \in Int : a - (n - 1) = a - n + 1
      OBVIOUS
    <3>3. s[1] - (Len(s) - 1) = s[1] - Len(s) + 1
      BY <3>1, <3>2
    <3> QED BY <1>4, <2>4, <3>1, <3>3
  <2> QED BY <2>2, <2>3, <2>5 DEF Descending
<1> QED BY <1>1, <1>2, <1>4, <1>5, <1>6, <1>7, <1>8 DEF r

\* A pushed session is in the list beside what was there.
LEMMA PushSeen ==
  ASSUME NEW s \in Seq(Profiles), NEW p \in Profiles
  PROVE  LET q == PushUniqueActiveSession(s, p)
         IN  q \in Seq(Profiles) /\ {q[i] : i \in DOMAIN q} = {s[i] : i \in DOMAIN s} \cup {p}
<1>1. CASE \E i \in DOMAIN s : s[i] = p
  <2>1. PushUniqueActiveSession(s, p) = s
    BY <1>1 DEF PushUniqueActiveSession
  <2> QED BY <1>1, <2>1
<1>2. CASE ~\E i \in DOMAIN s : s[i] = p
  <2> DEFINE q == Append(s, p)
  <2>1. PushUniqueActiveSession(s, p) = q
    BY <1>2 DEF PushUniqueActiveSession
  <2>2. /\ q \in Seq(Profiles) /\ DOMAIN q = 1 .. Len(s) + 1
        /\ DOMAIN s = 1 .. Len(s) /\ Len(s) \in Nat /\ q[Len(s) + 1] = p
        /\ \A i \in 1 .. Len(s) : q[i] = s[i]
    OBVIOUS
  <2> HIDE DEF q
  <2>3. \A i \in 1 .. Len(s) + 1 : i \in 1 .. Len(s) \/ i = Len(s) + 1
    BY <2>2
  <2>4. 1 .. Len(s) \subseteq 1 .. Len(s) + 1 /\ Len(s) + 1 \in 1 .. Len(s) + 1
    BY <2>2
  <2>5. {q[i] : i \in 1 .. Len(s) + 1} = {s[i] : i \in 1 .. Len(s)} \cup {p}
    BY <2>2, <2>3, <2>4
  <2> QED BY <2>1, <2>2, <2>5
<1> QED BY <1>1, <1>2

\* The first position of what is left of a page lies between the last one and
\* the newest event.
LEMMA HeadInRange ==
  ASSUME NEW first \in Nat, NEW last \in Nat, NEW n \in Nat, NEW top \in Nat,
         NEW low \in Nat, NEW high \in Nat,
         last = first - n + 1, n >= 1, first <= top, top <= high, last >= low
  PROVE  first \in low .. high
OBVIOUS

\* One record of the page: a profile that is owed is shown, and a full chunk
\* puts the rest of the page among what was cut.
LEMMA RecordStep ==
  ASSUME Inv, Record
  PROVE  Inv'
<1> DEFINE t    == Head(call.todo)
           p    == events[t]
           is   == IsConnectDescription(p) /\ IsDeployed(p)
           ss   == IF is /\ Matches(p)
                     THEN PushUniqueActiveSession(call.sessions, p)
                     ELSE call.sessions
           stop == is /\ Matches(p) /\ Full(ss)
           rest == Tail(call.todo)
           cursor == call.page[Len(call.page)]
           newYes == IF is THEN call.yes \cup {p} ELSE call.yes
           newNo == IF IsConnectDescription(p) /\ ~is THEN call.no \cup {p} ELSE call.no
           newTodo == IF stop THEN <<>> ELSE rest
<1>1. /\ UNCHANGED <<events, deployed, inclusive, from, filter, phase, asked, listed, owed>>
      /\ phase = "records" /\ call.todo # <<>>
      /\ cut' = IF stop THEN cut \cup {events[rest[i]] : i \in DOMAIN rest} ELSE cut
      /\ call' = [call EXCEPT !.sessions = ss, !.todo = newTodo,
                              !.yes = newYes, !.no = newNo]
  BY DEF Record, root
<1>2. /\ Types /\ OwedOK /\ PageOK /\ Seen \subseteq call.yes /\ call \in Calls
      /\ events \in Seq(Profiles) /\ Len(events) \in Nat /\ from \in 1 .. 2
      /\ call.todo \in Seq(Nat) /\ call.page \in Seq(Nat) /\ call.sessions \in Seq(Profiles)
      /\ call.yes \subseteq Profiles /\ call.no \subseteq Profiles
  BY <1>1 DEF Inv, Types, Calls
<1>3. /\ call.page # <<>> /\ Descending(call.todo) /\ call.todo[1] <= call.page[1]
      /\ call.todo[Len(call.todo)] = cursor /\ cursor >= from
      /\ call.page[1] <= Len(events)
      /\ Covered(call.todo[1] + 1, listed \cup cut \cup Seen)
  BY <1>1, <1>2 DEF PageOK
<1>3a. call.todo[1] <= call.page[1]
  BY <1>3
<1>4. /\ Len(call.todo) \in Nat /\ Len(call.todo) >= 1 /\ t = call.todo[1] /\ t \in Nat
      /\ cursor = t - Len(call.todo) + 1 /\ cursor \in Nat
      /\ rest \in Seq(Nat) /\ Len(rest) = Len(call.todo) - 1
      /\ \A k \in 1 .. Len(rest) : rest[k] = t - k
      /\ rest = <<>> => cursor = t
      /\ rest # <<>> => rest[1] = t - 1 /\ Descending(rest) /\ rest[Len(rest)] = cursor
  <2> HIDE DEF p, is, ss, stop, newYes, newNo, newTodo
  <2>1. call.todo \in Seq(Nat) /\ call.todo # <<>> /\ Descending(call.todo)
    BY <1>1, <1>2, <1>3
  <2>2. call.todo[Len(call.todo)] = cursor
    BY <1>3
  <2> HIDE DEF cursor
  <2> QED BY <2>1, <2>2, DescendingParts
<1>5. call.page[1] \in Nat /\ from \in Nat
  BY <1>2, <1>3
<1> HIDE DEF t, rest, cursor
<1>4a. t \in Nat /\ t = call.todo[1]
  BY <1>4
<1>4b. rest # <<>> => rest[1] = t - 1
  BY <1>4
<1>4c. rest \in Seq(Nat) /\ Len(rest) \in Nat
  BY <1>4
<1>6. t \in from .. Len(events)
  <2> HIDE DEF p, is, ss, stop, newYes, newNo, newTodo
  <2>1. t <= call.page[1]
    BY <1>3a, <1>4a
  <2>2. call.page[1] <= Len(events) /\ cursor >= from
    BY <1>3
  <2>3. Len(events) \in Nat /\ Len(call.todo) \in Nat /\ t \in Nat /\ cursor \in Nat
    BY <1>2, <1>4
  <2>4. cursor = t - Len(call.todo) + 1 /\ Len(call.todo) >= 1
    BY <1>4
  <2> QED BY <1>5, <2>1, <2>2, <2>3, <2>4, HeadInRange
<1>7. p \in Profiles
  BY <1>2, <1>6
<1> HIDE DEF p
<1>8. ss \in Seq(Profiles) /\ {ss[i] : i \in DOMAIN ss} = IF is /\ Matches(p) THEN Seen \cup {p} ELSE Seen
  <2>1. CASE ~(is /\ Matches(p))
    BY <1>2, <2>1 DEF Seen
  <2>2. CASE is /\ Matches(p)
    <3>1. ss = PushUniqueActiveSession(call.sessions, p)
      BY <2>2
    <3> HIDE DEF ss, is
    <3>2. /\ PushUniqueActiveSession(call.sessions, p) \in Seq(Profiles)
          /\ {PushUniqueActiveSession(call.sessions, p)[i] :
               i \in DOMAIN PushUniqueActiveSession(call.sessions, p)}
             = {call.sessions[i] : i \in DOMAIN call.sessions} \cup {p}
      BY <1>2, <1>7, PushSeen
    <3> QED BY <2>2, <3>1, <3>2 DEF Seen
  <2> QED BY <2>1, <2>2
<1>9. is => p \in newYes
  OBVIOUS
<1>10. newYes \subseteq Profiles /\ newNo \subseteq Profiles /\ call.yes \subseteq newYes
  BY <1>2, <1>7
<1>11. p \in owed => is /\ Matches(p)
  BY <1>2 DEF OwedOK, IsDeployed
<1>12. owed \cap newNo = {}
  BY <1>2, <1>11 DEF OwedOK
<1>13. newTodo \in Seq(Nat)
  BY <1>4
<1> HIDE DEF ss, newYes, newNo, newTodo, is
<1>14. /\ call' \in Calls /\ call'.sessions = ss /\ call'.todo = newTodo
       /\ call'.yes = newYes /\ call'.no = newNo
       /\ call'.page = call.page /\ call'.before = call.before
       /\ call'.nextBefore = call.nextBefore
  BY <1>1, <1>2, <1>8, <1>10, <1>13 DEF Calls
<1>15. Seen' = IF is /\ Matches(p) THEN Seen \cup {p} ELSE Seen
  BY <1>8, <1>14 DEF Seen
<1>16. Seen' \subseteq call'.yes
  BY <1>2, <1>9, <1>10, <1>14, <1>15
<1>17. Types'
  BY <1>1, <1>2, <1>14 DEF Types
<1>18. OwedOK'
  BY <1>1, <1>2, <1>12, <1>14 DEF OwedOK, Matches
<1>19. Covered(t, listed \cup cut \cup Seen')
  <2> SUFFICES ASSUME NEW i \in from .. Len(events), i >= t, events[i] \in owed
               PROVE  events[i] \in listed \cup cut \cup Seen'
    BY DEF Covered
  <2>1. CASE i = t
    BY <1>11, <1>15, <2>1 DEF p
  <2>2. CASE i # t
    <3>1. i >= call.todo[1] + 1
      <4>1. i \in Int /\ i >= t + 1
        <5>1. i \in Int /\ t \in Int
          BY <1>2, <1>4
        <5> QED BY <2>2, <5>1, Distances
      <4> QED BY <1>4, <4>1
    <3> QED BY <1>3, <1>15, <3>1 DEF Covered
  <2> QED BY <2>1, <2>2
<1>20. stop => Covered(cursor, listed \cup cut' \cup Seen')
  <2> SUFFICES ASSUME stop, NEW i \in from .. Len(events), i >= cursor, events[i] \in owed
               PROVE  events[i] \in listed \cup cut' \cup Seen'
    BY DEF Covered
  <2>1. cut' = cut \cup {events[rest[k]] : k \in DOMAIN rest}
    BY <1>1
  <2>2. CASE i >= t
    BY <1>19, <2>1, <2>2 DEF Covered
  <2>3. CASE i < t
    <3>0. i \in Int /\ t - i \in 1 .. Len(rest) /\ t - (t - i) = i
      <4>1. i \in Int /\ t \in Int /\ cursor \in Int /\ Len(call.todo) \in Int
        BY <1>2, <1>4
      <4>2. t - i \in 1 .. Len(call.todo) - 1 /\ t - (t - i) = i
        <5>1. cursor = t - Len(call.todo) + 1 /\ i >= cursor
          BY <1>4
        <5>2. \A a, b, c, n \in Int : /\ a - (a - b) = b
                /\ b < a /\ b >= c /\ c = a - n + 1 => a - b \in 1 .. n - 1
          BY Distances
        <5> HIDE DEF stop
        <5> QED BY <2>3, <4>1, <5>1, <5>2
      <4> QED BY <1>4, <4>1, <4>2
    <3>1. t - i \in 1 .. Len(rest) /\ rest[t - i] = i
      BY <1>4, <3>0
    <3>2. t - i \in DOMAIN rest /\ events[rest[t - i]] = events[i]
      BY <1>4c, <3>1
    <3>3. events[i] \in {events[rest[k]] : k \in DOMAIN rest}
      <4> HIDE DEF p, is, stop
      <4> QED BY <3>2
    <3>4. events[i] \in cut'
      BY <2>1, <3>3
    <3> QED BY <3>4
  <2>4. i >= t \/ i < t
    <3>1. i \in Int /\ t \in Int
      BY <1>4a
    <3> HIDE DEF p, is, stop
    <3> QED BY <3>1
  <2> QED BY <2>2, <2>3, <2>4
<1>21. ~stop => cut' = cut
  BY <1>1
<1>22. newTodo # <<>> => ~stop /\ newTodo = rest /\ rest # <<>>
  BY DEF newTodo
<1>23. newTodo = <<>> => stop \/ rest = <<>>
  BY DEF newTodo
<1> HIDE DEF stop
<1>26. newTodo = <<>> => Covered(cursor, listed \cup cut' \cup Seen')
  BY <1>4, <1>19, <1>20, <1>21, <1>23
<1>27. newTodo # <<>> => Covered(newTodo[1] + 1, listed \cup cut' \cup Seen')
  <2> SUFFICES ASSUME newTodo # <<>>
               PROVE  Covered(newTodo[1] + 1, listed \cup cut' \cup Seen')
    OBVIOUS
  <2>1. newTodo[1] + 1 = t
    <3>1. newTodo[1] = t - 1
      BY <1>4b, <1>22
    <3> QED BY <1>4a, <3>1
  <2> QED BY <1>19, <1>21, <1>22, <2>1
<1>28. PageOK'
  <2>1. Covered(IF call.todo = <<>> THEN call.page[Len(call.page)] ELSE call.todo[1] + 1,
                listed \cup cut \cup Seen)'
    BY <1>1, <1>14, <1>26, <1>27 DEF Covered, cursor
  <2>2. call'.todo # <<>> => /\ Descending(call'.todo) /\ call'.todo[1] <= call'.page[1]
                             /\ call'.todo[Len(call'.todo)] = cursor
    <3>1. rest # <<>> => rest[1] <= call.page[1]
      <4>1. t \in Int /\ call.page[1] \in Int /\ t <= call.page[1]
        BY <1>3a, <1>4a, <1>5
      <4>2. rest # <<>> => rest[1] = t - 1
        BY <1>4
      <4>3. t - 1 <= call.page[1]
        BY <4>1
      <4> QED BY <4>2, <4>3
    <3> QED BY <1>4, <1>14, <1>22, <3>1
  <2> QED BY <1>1, <1>2, <1>14, <2>1, <2>2 DEF PageOK, Descending, cursor
<1>29. Covered(Passed(asked), listed \cup cut)'
  <2>1. Covered(Passed(asked), listed \cup cut) /\ cut \subseteq cut'
    BY <1>1 DEF Inv
  <2> QED BY <1>1, <2>1 DEF Covered, Passed
<1> QED BY <1>1, <1>14, <1>16, <1>17, <1>18, <1>28, <1>29 DEF Inv, ListedUnlessCutOff

\* The listing begins: nothing of the log is passed yet.
LEMMA BeginStep ==
  ASSUME Inv, Begin
  PROVE  Inv'
<1>1. /\ UNCHANGED <<events, deployed, inclusive>> /\ phase' = "query" /\ asked' = 0
      /\ call' = NewCall(0) /\ listed' = {} /\ cut' = {} /\ from' \in {1, 2}
      /\ owed' = {p \in deployed : /\ IsConnectDescription(p)
                                   /\ filter' = "none" \/ ParsedAppId(p) = filter'
                                   /\ \E i \in from' .. Len(events) : events[i] = p}
  BY DEF Begin, root
<1>2. Types /\ Len(events) \in Nat
  BY DEF Inv, Types
<1>3. Types'
  BY <1>1, <1>2, NewCallType DEF Types
<1>4. Seen' = {} /\ call'.no = {} /\ call'.before = 0 /\ call'.nextBefore = 0
  BY <1>1, NothingSeen, NewCallType
<1>5. OwedOK'
  BY <1>1, <1>4 DEF OwedOK, Matches
<1>6. \A i \in from' .. Len(events) : ~(i >= Len(events) + 1)
  BY <1>1, <1>2
<1>7. Covered(Passed(asked), listed \cup cut)'
  BY <1>1, <1>6 DEF Covered, Passed
<1>8. Covered(Passed(call.before), listed \cup cut \cup Seen)'
  BY <1>1, <1>4, <1>6 DEF Covered, Passed
<1> QED BY <1>1, <1>2, <1>3, <1>4, <1>5, <1>7, <1>8 DEF Inv, ListedUnlessCutOff

LEMMA InitInv ==
  ASSUME Init
  PROVE  Inv
<1>1. events \in Seq(Profiles)
  BY ActiveAssumption DEF Init
<1>2. deployed \subseteq Profiles
  BY <1>1 DEF Init
<1>3. call = NewCall(0) /\ owed = {} /\ phase = "idle" /\ asked = 0 /\ from = 1 /\ inclusive \in BOOLEAN
  BY DEF Init
<1>4. Types
  BY <1>1, <1>2, <1>3, NewCallType DEF Types
<1>5. Seen = {} /\ call.no = {} /\ call.before = 0 /\ call.nextBefore = 0
  BY <1>3, NewCallType DEF Seen
<1> QED BY <1>1, <1>3, <1>4, <1>5 DEF Inv, OwedOK, ListedUnlessCutOff

LEMMA Stutter ==
  ASSUME Inv, UNCHANGED vars
  PROVE  Inv'
BY DEF vars, Inv, Types, OwedOK, Seen, Covered, Passed, PageOK, Descending, ListedUnlessCutOff, Matches

\* A caller that follows the cursors of query_active_sessions_by_multifactor
\* to the end has been shown every matching session that stayed deployed,
\* but for those behind a chunk that was full in the middle of a page.
THEOREM ListingComplete == Spec => []ListedUnlessCutOff
<1>1. Inv /\ [Next]_vars => Inv'
  BY ChainStep, BeginStep, QueryFailsStep, QueryPageStep, RecordStep, PageEndsStep, Stutter
  DEF Next, Client
<1>2. Inv => ListedUnlessCutOff
  BY DEF Inv
<1> QED BY <1>1, <1>2, InitInv, PTL DEF Spec
=============================================================================
