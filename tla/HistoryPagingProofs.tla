------------------------- MODULE HistoryPagingProofs -------------------------
(***************************************************************************)
(* Paging through the history (bee_wallet, services/transaction/history.rs)*)
(* skips nothing and repeats no record of an endpoint before its stream    *)
(* has ended, for every length of the streams, page size,                  *)
(* MAX_AUTO_FETCH_PAGES, with and without an archive, and any number of    *)
(* changes and failed queries.                                             *)
(***************************************************************************)
EXTENDS HistoryPaging, TLAPS, FiniteSetTheorems, WellFoundedInduction

-----------------------------------------------------------------------------
(* The invariants. *)

Cursor == [src : {"none", "hot", "archive"}, at : Nat]

Calls == [pc : {"idle", "open", "hot", "archive", "probe", "reply"}, stream : Streams,
          at : Nat, pages : Nat, got : SUBSET Nat, popitgame : BOOLEAN]

Parts == [src : Sources, msgs : SUBSET Nat, next : Cursor, more : BOOLEAN]

Types ==
  /\ token \in {"nackl", "ecc", "tip3"} /\ phase \in {"paging", "done"}
  /\ len \in [Streams -> Nat] /\ base \in [Streams -> Nat]
  /\ hotFrom \in [Streams -> Nat \ {0}] /\ archTo \in [Streams -> Nat]
  /\ pays \subseteq Nat /\ shown \in [Streams -> [Sources -> SUBSET Nat]]
  /\ ended \subseteq Streams
  /\ cur \in [Streams -> Cursor]
  /\ call \in Calls /\ part \in [Streams -> Parts]
  /\ missed \subseteq {"archive", "popitgame", "probe"} /\ again \in BOOLEAN

\* The endpoints: what has left the hot one is in the archive.
EndpointsOK ==
  \A s \in Streams : /\ base[s] <= len[s] /\ archTo[s] <= len[s]
                     /\ hotFrom[s] <= archTo[s] + 1 /\ (~HasArchive => archTo[s] = 0)

\* The calls: only a probe keeps messages back, a position is 0 only for "no
\* cursor" or the newest page of the archive.
CallOK ==
  /\ \A s \in Streams : cur[s].src = "none" => cur[s].at = 0
  /\ \A s \in Streams : part[s].next.src = "none" => part[s].next.at = 0
  /\ phase = "done" => call.pc = "idle"
  /\ call.pc # "probe" => call.got = {}
  /\ token = "tip3" => call.pc = "idle"
  /\ call.pc = "reply" => call.stream = "pg"

Inv == Types /\ EndpointsOK /\ CallOK

Before(k, at) == at = 0 \/ k < at

\* What is still to be shown of a stream, but for the messages at hand.
Owed(s, have) ==
  {k \in Wanted(s) : (\A src \in Sources : k \notin shown[s][src]) /\ k \notin have}

\* A call with the cursor c can still come to the record.
Reaches(s, c, k) ==
  /\ c.src = "hot" => k < c.at
  /\ c.src = "archive" => k <= archTo[s] /\ Before(k, c.at)

\* The call under way has read the stream.
Finished(s) == call.pc = "reply" \/ (call.pc # "idle" /\ call.stream = "pg" /\ s = "mf")

\* Whatever has not been shown can be reached with the cursors, is at hand, or
\* is before the position of the query under way.
NothingLost ==
  /\ \A s \in Streams : \A k \in Owed(s, {}) : Reaches(s, cur[s], k)
  /\ \A s \in Streams : Finished(s) =>
       \A k \in Owed(s, part[s].msgs) : part[s].more /\ Reaches(s, part[s].next, k)
  /\ call.pc # "idle" /\ token = "nackl" => call.popitgame
  /\ call.pc \in {"hot", "archive", "probe"} =>
       \A k \in Owed(call.stream, call.got) :
         Before(k, call.at) /\ (call.pc # "hot" => k <= archTo[call.stream])
  /\ phase = "done" /\ token # "tip3" => \A s \in Streams : Owed(s, {}) = {}

\* A position before the given records; there are none before "no position".
Behind(at, K) == \A k \in K : at # 0 /\ at <= k

\* A cursor from which only records follow that its endpoint has not shown;
\* from the hot endpoint paging goes on to the archive.
Ahead(src, at, hot, arch) ==
  IF src = "archive" THEN Behind(at, arch) ELSE Behind(at, hot) /\ arch = {}

\* What has been shown of a stream once its part of the page is
ShownWith(s, src) == shown[s][src] \cup (IF part[s].src = src THEN part[s].msgs ELSE {})

\* The query under way only reads records its endpoint has not shown.
CallAhead ==
  LET s == call.stream
  IN  /\ call.pc = "hot" => Ahead("hot", call.at, shown[s]["hot"], shown[s]["archive"])
      /\ call.pc = "archive" => Behind(call.at, shown[s]["archive"])
      /\ call.pc = "probe" => shown[s]["archive"] = {} /\ call.got \cap shown[s]["hot"] = {}

\* What is at hand was not shown, and its cursor leads on.
PartAhead(s) ==
  /\ part[s].msgs \cap shown[s][part[s].src] = {}
  /\ part[s].more => Ahead(part[s].next.src, part[s].next.at,
                           ShownWith(s, "hot"), ShownWith(s, "archive"))

\* Each endpoint is read strictly downwards until the stream ends.
NotAgain ==
  /\ ~again
  /\ phase = "paging" => \A s \in Streams \ ended :
       Ahead(cur[s].src, cur[s].at, shown[s]["hot"], shown[s]["archive"])
  /\ call.stream \notin ended => CallAhead
  /\ \A s \in Streams \ ended : Finished(s) => PartAhead(s)

\* Without mining rewards there is one stream.
OneStream ==
  /\ call.pc # "idle" => ~call.popitgame
  /\ call.pc \in {"hot", "archive", "probe"} => call.stream = "mf"
  /\ ~part["pg"].more
  /\ phase = "paging" => "mf" \notin ended

Good ==
  /\ Inv
  /\ missed = {} => NothingLost
  /\ NotAgain
  /\ token # "nackl" => OneStream

-----------------------------------------------------------------------------
(* Pages. *)

LEMMA SmallestNat ==
  ASSUME NEW T \in SUBSET Nat, T # {}
  PROVE  \E n \in T : \A m \in T : n <= m
<1> DEFINE R == OpToRel(<, Nat)
<1>1. IsWellFoundedOn(R, Nat)
  BY NatLessThanWellFounded
<1>2. \A m, n \in Nat : <<m, n>> \in R <=> m < n
  BY DEF OpToRel
<1> HIDE DEF R
<1>3. PICK n \in T : \A m \in T : ~(<<m, n>> \in R)
  BY <1>1, WFMin
<1>4. n \in Nat /\ \A m \in T : m \in Nat /\ ~(m < n)
  BY <1>2, <1>3
<1>5. \A m \in T : n <= m
  BY <1>4
<1> QED BY <1>5

\* The n newest of a finite set of records: none is left out between them,
\* and if there are none the set is empty.
LEMMA Newest ==
  ASSUME NEW old \in SUBSET Nat, IsFiniteSet(old), NEW n \in Nat \ {0}
  PROVE  LET P == {k \in old : Cardinality({j \in old : j > k}) < n}
         IN  /\ \A k \in P, j \in old : k <= j => j \in P
             /\ P = {} => old = {}
<1> DEFINE Newer(k) == {j \in old : j > k}
           P == {k \in old : Cardinality(Newer(k)) < n}
<1>1. ASSUME NEW k \in old PROVE IsFiniteSet(Newer(k)) /\ Cardinality(Newer(k)) \in Nat
  <2>1. IsFiniteSet(Newer(k))
    BY FS_Subset
  <2> QED BY <2>1, FS_CardinalityType
<1>2. ASSUME NEW k \in old, NEW j \in old, k <= j
      PROVE  Cardinality(Newer(j)) <= Cardinality(Newer(k))
  <2>1. \A x \in old : x > j => x > k
    BY <1>2
  <2>2. Newer(j) \subseteq Newer(k)
    BY <2>1
  <2> HIDE DEF Newer
  <2> QED BY <1>1, <2>2, FS_Subset
<1>3. ASSUME NEW k \in P, NEW j \in old, k <= j PROVE j \in P
  <2>1. Cardinality(Newer(k)) < n /\ Cardinality(Newer(j)) <= Cardinality(Newer(k))
    BY <1>2, <1>3
  <2>2. Cardinality(Newer(k)) \in Nat /\ Cardinality(Newer(j)) \in Nat
    BY <1>1, <1>3
  <2> HIDE DEF Newer
  <2> QED BY <2>1, <2>2
<1>4. ASSUME old # {} PROVE P # {}
  <2> DEFINE T == {Cardinality(Newer(k)) : k \in old}
  <2>1. T \in SUBSET Nat /\ T # {}
    BY <1>1, <1>4
  <2>2. PICK m \in T : \A x \in T : m <= x
    BY <2>1, SmallestNat
  <2>3. PICK k \in old : m = Cardinality(Newer(k))
    BY <2>2
  <2>4. ASSUME NEW j \in Newer(k) PROVE FALSE
    <3>1. j \in old /\ j \in Nat /\ k \in Nat /\ k < j
      BY <2>4
    <3>2. Newer(j) \subseteq Newer(k) /\ j \notin Newer(j)
      <4>1. ~(j > j) /\ \A x \in old : x > j => x > k
        BY <3>1
      <4> QED BY <4>1
    <3>3. Cardinality(Newer(k)) <= Cardinality(Newer(j))
      BY <2>2, <2>3, <3>1
    <3> HIDE DEF Newer
    <3>4. /\ Cardinality(Newer(j)) <= Cardinality(Newer(k))
          /\ Cardinality(Newer(k)) = Cardinality(Newer(j)) => Newer(k) = Newer(j)
      BY <1>1, <3>2, FS_Subset
    <3>5. Cardinality(Newer(k)) \in Nat /\ Cardinality(Newer(j)) \in Nat
      BY <1>1, <3>1
    <3> QED BY <2>4, <3>2, <3>3, <3>4, <3>5
  <2>5. Newer(k) = {}
    BY <2>4
  <2>6. Cardinality(Newer(k)) = 0
    <3> HIDE DEF Newer
    <3> QED BY <2>5, FS_EmptySet
  <2> QED BY <2>6
<1> QED BY <1>3, <1>4

LEMMA StoredFinite ==
  ASSUME Types, NEW s \in Streams, NEW src
  PROVE  /\ IsFiniteSet(Stored(s, src)) /\ Stored(s, src) \subseteq Nat \ {0}
         /\ \A k \in Nat : src = "hot" => (k \in Stored(s, src) <=> hotFrom[s] <= k /\ k <= len[s])
         /\ \A k \in Nat \ {0} : src = "archive" => (k \in Stored(s, src) <=> k <= archTo[s])
<1>1. len[s] \in Nat /\ hotFrom[s] \in Nat \ {0} /\ archTo[s] \in Nat
  BY DEF Types
<1>2. IsFiniteSet(hotFrom[s] .. len[s]) /\ IsFiniteSet(1 .. archTo[s])
  <2>1. len[s] \in Int /\ hotFrom[s] \in Int /\ archTo[s] \in Int /\ 1 \in Int
    BY <1>1
  <2> QED BY <2>1, FS_Interval
<1> QED BY <1>1, <1>2 DEF Stored

\* A page of an endpoint is the upper end of what is before the position.
LEMMA PageFacts ==
  ASSUME Types, NEW s \in Streams, NEW src, NEW at \in Nat, NEW n \in Nat \ {0}
  PROVE  LET P == Page(s, src, at, n)
             start == StartCursor(P)
             more == HasPreviousPage(s, src, P)
         IN  /\ P \subseteq Stored(s, src) /\ start \in Nat
             /\ \A k \in P : Before(k, at) /\ start # 0 /\ start <= k
             /\ more => start # 0 /\ (at = 0 \/ start < at) /\ start \in Stored(s, src)
             /\ \A k \in Stored(s, src) : Before(k, at) => k \in P \/ (more /\ k < start)
<1> DEFINE S == Stored(s, src)
           old == {k \in S : at = 0 \/ k < at}
           P == Page(s, src, at, n)
           start == StartCursor(P)
           more == HasPreviousPage(s, src, P)
<1>1. IsFiniteSet(S) /\ S \subseteq Nat \ {0}
  BY StoredFinite
<1> HIDE DEF S
<1>2. IsFiniteSet(old) /\ old \in SUBSET Nat
  BY <1>1, FS_Subset
<1>3. P = {k \in old : Cardinality({j \in old : j > k}) < n}
  BY DEF Page, S
<1>4. (\A k \in P, j \in old : k <= j => j \in P) /\ (P = {} => old = {})
  <2> HIDE DEF old, P
  <2> DEFINE Q == {k \in old : Cardinality({j \in old : j > k}) < n}
  <2>1. (\A k \in Q, j \in old : k <= j => j \in Q) /\ (Q = {} => old = {})
    BY <1>2, Newest, Zenon
  <2>2. P = Q
    BY <1>3
  <2> HIDE DEF Q
  <2> QED BY <2>1, <2>2
<1>5. P \subseteq old
  BY <1>3
<1> HIDE DEF P
<1>6. CASE P = {}
  <2>1. start = 0 /\ ~more /\ old = {}
    BY <1>4, <1>6 DEF StartCursor, HasPreviousPage
  <2> QED BY <1>6, <2>1 DEF P, S, Before
<1>7. CASE P # {}
  <2>1. P \in SUBSET Nat
    BY <1>2, <1>5
  <2>2. \E k \in P : \A j \in P : k <= j
    BY <1>7, <2>1, SmallestNat
  <2>3. start = CHOOSE k \in P : \A j \in P : k <= j
    BY <1>7 DEF StartCursor
  <2>4. start \in P /\ \A j \in P : start <= j
    BY <2>2, <2>3
  <2>5. more <=> \E k \in S : k < start
    BY <1>7 DEF HasPreviousPage, S
  <2> HIDE DEF start, more
  <2>6. start \in old /\ start \in S /\ start \in Nat \ {0} /\ (at = 0 \/ start < at)
    BY <1>1, <1>5, <2>4
  <2>7. ASSUME NEW k \in S, Before(k, at) PROVE k \in P \/ (more /\ k < start)
    <3>1. k \in Nat /\ k \in old
      BY <1>1, <2>7 DEF Before
    <3>2. CASE start <= k
      BY <1>4, <2>4, <3>1, <3>2
    <3>3. CASE k < start
      BY <2>5, <3>3
    <3> QED BY <2>6, <3>1, <3>2, <3>3
  <2>8. \A k \in P : k \in S /\ Before(k, at) /\ start # 0 /\ start <= k
    BY <1>5, <2>4, <2>6 DEF Before
  <2> QED BY <2>6, <2>7, <2>8 DEF start, more, P, S
<1> QED BY <1>6, <1>7

\* One query: a record of the endpoint before the position is among its
\* messages, carries another currency, or is left for the next query.
LEMMA QueryFacts ==
  ASSUME Types, NEW src, NEW n \in Nat \ {0}
  PROVE  LET q == Query(src, n)
         IN  /\ q.msgs \in SUBSET Nat /\ q.next \in Nat /\ q.more \in BOOLEAN
             /\ \A k \in q.msgs : /\ k \in Stored(call.stream, src) /\ Before(k, call.at)
                                  /\ q.next # 0 /\ q.next <= k
             /\ q.more => /\ q.next # 0 /\ (call.at = 0 \/ q.next < call.at)
                          /\ q.next \in Stored(call.stream, src)
             /\ \A k \in Stored(call.stream, src) :
                  Before(k, call.at) /\ (call.stream = "mf" => k \in pays)
                    => k \in q.msgs \/ (q.more /\ k < q.next)
<1> DEFINE s == call.stream
           P == Page(s, src, call.at, n)
           q == Query(src, n)
<1>1. s \in Streams /\ call.at \in Nat
  BY DEF Types, Calls
<1>2. q.msgs = (IF s = "mf" THEN P \cap pays ELSE P) /\ q.next = StartCursor(P)
      /\ q.more = HasPreviousPage(s, src, P)
  BY <1>1 DEF Query, EccQuery, MiningQuery, Streams
<1>3. HasPreviousPage(s, src, P) \in BOOLEAN /\ Stored(s, src) \subseteq Nat
  BY <1>1, StoredFinite DEF HasPreviousPage
<1>4. /\ P \subseteq Stored(s, src) /\ StartCursor(P) \in Nat
      /\ \A k \in P : Before(k, call.at) /\ StartCursor(P) # 0 /\ StartCursor(P) <= k
      /\ HasPreviousPage(s, src, P) =>
           /\ StartCursor(P) # 0 /\ (call.at = 0 \/ StartCursor(P) < call.at)
           /\ StartCursor(P) \in Stored(s, src)
      /\ \A k \in Stored(s, src) :
           Before(k, call.at) => k \in P \/ (HasPreviousPage(s, src, P) /\ k < StartCursor(P))
  BY <1>1, PageFacts
<1> HIDE DEF P, q, s
<1>5. /\ q.msgs \in SUBSET Nat /\ q.next \in Nat /\ q.more \in BOOLEAN
      /\ \A k \in q.msgs : k \in Stored(s, src) /\ Before(k, call.at) /\ q.next # 0 /\ q.next <= k
      /\ q.more => q.next # 0 /\ (call.at = 0 \/ q.next < call.at) /\ q.next \in Stored(s, src)
      /\ \A k \in Stored(s, src) :
           Before(k, call.at) /\ (s = "mf" => k \in pays)
             => k \in q.msgs \/ (q.more /\ k < q.next)
  BY <1>2, <1>3, <1>4
<1> QED BY <1>5 DEF q, s

-----------------------------------------------------------------------------
(* Types. *)

LEMMA EncodedCursors ==
  ASSUME NEW at \in Nat
  PROVE  /\ EncodeArchiveCursor(at) \in Cursor /\ EncodeArchiveCursor(at).src = "archive"
         /\ EncodeArchiveCursor(at).at = at
         /\ HotCursor(at) \in Cursor /\ HotCursor(at).at = at /\ HotCursor(at).src # "archive"
         /\ HotCursor(at).src = "none" <=> at = 0
         /\ NoCursor \in Cursor /\ NoCursor.src = "none" /\ NoCursor.at = 0
BY DEF EncodeArchiveCursor, HotCursor, NoCursor, Cursor

\* A step of the call under way.
LEMMA CallMoves ==
  ASSUME Inv, UNCHANGED <<chain, app>>, call' \in Calls, part' \in [Streams -> Parts],
         missed' \subseteq {"archive", "popitgame", "probe"},
         \A s \in Streams : part'[s].next.src = "none" => part'[s].next.at = 0,
         call.pc # "idle" \/ (phase = "paging" /\ token # "tip3"),
         call'.pc # "probe" => call'.got = {}, call'.pc = "reply" => call'.stream = "pg"
  PROVE  Inv'
<1>1. /\ UNCHANGED <<len, pays, hotFrom, archTo, token, phase, cur, shown, ended, again, base>>
  BY DEF chain, app
<1>2. phase # "done" /\ token # "tip3"
  BY DEF Inv, CallOK, Types
<1>3. Types'
  BY <1>1 DEF Inv, Types, Calls, Parts
<1>4. EndpointsOK'
  BY <1>1 DEF Inv, EndpointsOK
<1>5. CallOK'
  BY <1>1, <1>2 DEF Inv, CallOK
<1> QED BY <1>3, <1>4, <1>5 DEF Inv

\* A stream has been read.
LEMMA Finishes ==
  ASSUME Inv, NEW msgs \in SUBSET Nat, NEW next \in Cursor, NEW more \in BOOLEAN,
         Finish(msgs, next, more)
  PROVE  /\ call' \in Calls /\ call'.pc # "probe" /\ call'.got = {}
         /\ call'.popitgame = call.popitgame
         /\ call.stream = "mf" => call'.pc = "open" /\ call'.stream = "pg"
         /\ call.stream = "pg" => call'.pc = "reply" /\ call'.stream = "pg"
         /\ part' \in [Streams -> Parts]
         /\ \A s \in Streams : part'[s] = IF s = call.stream
                                          THEN [src |-> Source, msgs |-> msgs, next |-> next, more |-> more]
                                          ELSE part[s]
<1>1. call \in Calls /\ part \in [Streams -> Parts] /\ call.stream \in Streams
  BY DEF Inv, Types, Calls, Parts
<1>2. /\ call' = IF call.stream = "mf"
                 THEN [call EXCEPT !.pc = "open", !.stream = "pg", !.got = {}]
                 ELSE [call EXCEPT !.pc = "reply", !.got = {}]
      /\ part' = [part EXCEPT ![call.stream] = [src |-> Source, msgs |-> msgs, next |-> next, more |-> more]]
  BY DEF Finish
<1>3. [src |-> Source, msgs |-> msgs, next |-> next, more |-> more] \in Parts
  BY DEF Parts, Source, Sources
<1> HIDE DEF Parts
<1>4. part' \in [Streams -> Parts]
      /\ \A s \in Streams : part'[s] = IF s = call.stream
                                       THEN [src |-> Source, msgs |-> msgs, next |-> next, more |-> more]
                                       ELSE part[s]
  BY <1>1, <1>2, <1>3
<1>5. CASE call.stream = "mf"
  <2>1. call' = [call EXCEPT !.pc = "open", !.stream = "pg", !.got = {}]
    BY <1>2, <1>5
  <2> QED BY <1>1, <1>4, <1>5, <2>1 DEF Calls, Streams
<1>6. CASE call.stream = "pg"
  <2>1. call' = [call EXCEPT !.pc = "reply", !.got = {}]
    BY <1>2, <1>6
  <2> QED BY <1>1, <1>4, <1>6, <2>1 DEF Calls, Streams
<1> QED BY <1>1, <1>5, <1>6 DEF Streams

LEMMA FinishInv ==
  ASSUME Inv, NEW msgs \in SUBSET Nat, NEW next \in Cursor, NEW more \in BOOLEAN,
         Finish(msgs, next, more), next.src = "none" => next.at = 0,
         UNCHANGED <<chain, app>>, missed' \subseteq {"archive", "popitgame", "probe"},
         call.pc # "idle"
  PROVE  Inv'
<1> DEFINE new == [src |-> Source, msgs |-> msgs, next |-> next, more |-> more]
<1>1. /\ call' \in Calls /\ call'.pc # "probe" /\ call'.got = {} /\ call'.stream = "pg"
      /\ part' \in [Streams -> Parts]
      /\ \A s \in Streams : part'[s] = IF s = call.stream THEN new ELSE part[s]
  <2>1. call.stream \in {"mf", "pg"}
    BY DEF Inv, Types, Calls, Streams
  <2> QED BY <2>1, Finishes
<1>2. new.next = next
  OBVIOUS
<1> HIDE DEF new
<1>3. \A s \in Streams : part'[s].next.src = "none" => part'[s].next.at = 0
  BY <1>1, <1>2 DEF Inv, CallOK
<1> QED BY <1>1, <1>3, CallMoves

\* The next query of a loop.
LEMMA LoopInv ==
  ASSUME Inv, NEW q, q.next \in Nat, call' = Loop(q), UNCHANGED <<chain, app, part, missed>>,
         call.pc \in {"hot", "archive", "probe"}
  PROVE  /\ Inv'
         /\ call'.pc = call.pc /\ call'.stream = call.stream /\ call'.at = q.next
         /\ call'.got = call.got /\ call'.popitgame = call.popitgame
<1>1. call \in Calls /\ part \in [Streams -> Parts] /\ (call.pc # "probe" => call.got = {})
      /\ \A s \in Streams : part[s].next.src = "none" => part[s].next.at = 0
  BY DEF Inv, Types, CallOK, Calls, Parts
<1>2. call' = [call EXCEPT !.at = q.next, !.pages = @ + 1]
  BY DEF Loop
<1>3. /\ call' \in Calls /\ call'.pc = call.pc /\ call'.stream = call.stream /\ call'.at = q.next
      /\ call'.got = call.got /\ call'.popitgame = call.popitgame
  <2> DEFINE at == q.next
             pages == call.pages + 1
  <2>1. at \in Nat /\ pages \in Nat /\ call' = [call EXCEPT !.at = at, !.pages = pages]
    BY <1>1, <1>2 DEF Calls
  <2> HIDE DEF at, pages
  <2>2. /\ call' \in Calls /\ call'.pc = call.pc /\ call'.stream = call.stream /\ call'.at = at
        /\ call'.got = call.got /\ call'.popitgame = call.popitgame
    BY <1>1, <2>1 DEF Calls
  <2> QED BY <2>2 DEF at
<1> HIDE DEF Parts
<1>4. part' \in [Streams -> Parts] /\ \A s \in Streams : part'[s] = part[s]
  BY <1>1
<1> QED BY <1>1, <1>3, <1>4, CallMoves DEF Inv, Types

-----------------------------------------------------------------------------
(* The steps of a call. *)

LEMMA WantedFacts ==
  ASSUME Inv, NEW s \in Streams, NEW k \in Wanted(s)
  PROVE  /\ k \in Nat \ {0} /\ k <= len[s] /\ (s = "mf" => k \in pays)
         /\ s = "pg" => token = "nackl"
<1>1. base[s] \in Nat /\ len[s] \in Nat /\ base[s] <= len[s]
  BY DEF Inv, Types, EndpointsOK
<1>2. k \in 1 .. base[s] /\ (s = "mf" => k \in pays) /\ (s = "pg" => token = "nackl")
  BY DEF Wanted, Streams
<1> QED BY <1>1, <1>2

\* A stream has been read and what it gives is at hand.
LEMMA FinishGood ==
  ASSUME Good, NEW msgs \in SUBSET Nat, NEW next \in Cursor, NEW more \in BOOLEAN,
         Finish(msgs, next, more), next.src = "none" => next.at = 0,
         UNCHANGED <<chain, app>>, missed \subseteq missed',
         missed' \subseteq {"archive", "popitgame", "probe"}, call.pc \notin {"idle", "reply"},
         missed' = {} => \A k \in Owed(call.stream, msgs) :
                           more /\ Reaches(call.stream, next, k),
         token # "nackl" /\ call.stream = "pg" => ~more,
         call.stream \notin ended =>
           LET H == shown[call.stream]["hot"]
               A == shown[call.stream]["archive"]
           IN  IF call.pc = "archive"
               THEN /\ msgs \cap A = {}
                    /\ more => Ahead(next.src, next.at, H, A \cup msgs)
               ELSE /\ msgs \cap H = {}
                    /\ more => Ahead(next.src, next.at, H \cup msgs, A)
  PROVE  Good'
<1> DEFINE new == [src |-> Source, msgs |-> msgs, next |-> next, more |-> more]
<1>0. /\ UNCHANGED <<len, pays, hotFrom, archTo, token, phase, cur, shown, ended, again, base>>
  BY DEF chain, app
<1>1. /\ call'.got = {} /\ call'.stream = "pg" /\ call'.popitgame = call.popitgame
      /\ call'.pc = IF call.stream = "mf" THEN "open" ELSE "reply"
      /\ \A s \in Streams : part'[s] = IF s = call.stream THEN new ELSE part[s]
      /\ call.stream \in Streams
  <2>1. call.stream \in {"mf", "pg"}
    BY DEF Good, Inv, Types, Calls, Streams
  <2> QED BY <2>1, Finishes DEF Good, Streams
<1>2. new.msgs = msgs /\ new.next = next /\ new.more = more
  OBVIOUS
<1> HIDE DEF new
<1>3. Inv'
  BY FinishInv DEF Good
<1>4. \A s, have : Owed(s, have)' = Owed(s, have)
  BY <1>0 DEF Owed, Wanted
<1>5. \A s, c, k : Reaches(s, c, k)' <=> Reaches(s, c, k)
  BY <1>0 DEF Reaches
<1>6. phase # "done" /\ (call.stream = "pg" => Finished("mf"))
  BY <1>1 DEF Good, Inv, CallOK, Finished
<1>7. ASSUME missed' = {} PROVE NothingLost'
  <2>1. NothingLost /\ missed = {}
    BY <1>7 DEF Good
  <2>2. ASSUME NEW s \in Streams, Finished(s)', NEW k \in Owed(s, part'[s].msgs)
        PROVE  part'[s].more /\ Reaches(s, part'[s].next, k)
    <3>1. CASE s = call.stream
      BY <1>1, <1>2, <1>7, <2>2, <3>1
    <3>2. CASE s # call.stream
      <4>1. call.stream = "pg" /\ s = "mf" /\ part'[s] = part[s]
        BY <1>1, <2>2, <3>2 DEF Finished, Streams
      <4> QED BY <1>6, <2>1, <2>2, <4>1 DEF NothingLost
    <3> QED BY <3>1, <3>2
  <2>3. call'.pc \in {"open", "reply"}
    BY <1>1
  <2>4. \A s \in Streams : \A k \in Owed(s, {}) : Reaches(s, cur[s], k)
    BY <2>1 DEF NothingLost
  <2>5. token = "nackl" => call.popitgame
    BY <2>1 DEF NothingLost
  <2> QED BY <1>0, <1>1, <1>4, <1>5, <1>6, <2>2, <2>3, <2>4, <2>5 DEF NothingLost
<1>8. NotAgain'
  <2>1. NotAgain
    BY DEF Good
  <2>2. new.src = Source
    BY DEF new
  <2>3. ASSUME NEW s \in Streams, s \notin ended, Finished(s)' PROVE PartAhead(s)'
    <3>1. CASE s = call.stream
      <4>1. part'[s] = new
        BY <1>1, <3>1
      <4>2. CASE call.pc = "archive"
        <5>1. Source = "archive"
          BY <4>2 DEF Source
        <5> QED BY <1>0, <1>2, <2>2, <2>3, <3>1, <4>1, <4>2, <5>1 DEF PartAhead, ShownWith
      <4>3. CASE call.pc # "archive"
        <5>1. Source = "hot"
          BY <4>3 DEF Source
        <5> QED BY <1>0, <1>2, <2>2, <2>3, <3>1, <4>1, <4>3, <5>1 DEF PartAhead, ShownWith
      <4> QED BY <4>2, <4>3
    <3>2. CASE s # call.stream
      <4>1. call.stream = "pg" /\ s = "mf" /\ part'[s] = part[s]
        BY <1>1, <2>3, <3>2 DEF Finished, Streams
      <4>2. PartAhead(s)
        BY <1>6, <2>1, <2>3, <4>1 DEF NotAgain
      <4> QED BY <1>0, <4>1, <4>2 DEF PartAhead, ShownWith
    <3> QED BY <3>1, <3>2
  <2>4. CallAhead'
    <3>1. call'.pc \in {"open", "reply"}
      BY <1>1
    <3> QED BY <3>1 DEF CallAhead
  <2> QED BY <1>0, <2>1, <2>3, <2>4 DEF NotAgain
<1>9. ASSUME token # "nackl" PROVE OneStream'
  <2>1. OneStream
    BY <1>9 DEF Good
  <2>2. "pg" \in Streams /\ call'.pc \in {"open", "reply"}
    BY <1>1 DEF Streams
  <2>3. ~part'["pg"].more
    BY <1>1, <1>2, <1>9, <2>1, <2>2 DEF OneStream
  <2> QED BY <1>0, <1>1, <2>1, <2>2, <2>3 DEF OneStream
<1> QED BY <1>0, <1>3, <1>7, <1>8, <1>9 DEF Good

\* The call goes on with the same streams at hand.
LEMMA CallGood ==
  ASSUME Good, Inv', UNCHANGED <<chain, app, part>>, missed \subseteq missed',
         call.pc = "idle" => call'.stream = "mf" /\ call'.pc # "reply",
         call.pc # "idle" => call'.stream = call.stream /\ call'.pc # "reply",
         call.pc # "reply",
         missed' = {} /\ token = "nackl" => call'.pc = "idle" \/ call'.popitgame,
         missed' = {} /\ call'.pc \in {"hot", "archive", "probe"} =>
           \A k \in Owed(call'.stream, call'.got) :
             Before(k, call'.at) /\ (call'.pc # "hot" => k <= archTo[call'.stream]),
         token # "nackl" => /\ call'.pc # "idle" => ~call'.popitgame
                            /\ call'.pc \in {"hot", "archive", "probe"} => call'.stream = "mf",
         call'.stream \notin ended => CallAhead'
  PROVE  Good'
<1>0. /\ UNCHANGED <<len, pays, hotFrom, archTo, token, phase, cur, shown, ended, again, base>>
  BY DEF chain, app
<1>1. \A s, have : Owed(s, have)' = Owed(s, have)
  BY <1>0 DEF Owed, Wanted
<1>2. \A s, c, k : Reaches(s, c, k)' <=> Reaches(s, c, k)
  BY <1>0 DEF Reaches
<1>3. \A s \in Streams : Finished(s)' => Finished(s)
  BY DEF Finished, Good, Inv, Types, Calls
<1>4. ASSUME missed' = {} PROVE NothingLost'
  <2>1. NothingLost
    BY <1>4 DEF Good
  <2> QED BY <1>0, <1>1, <1>2, <1>3, <1>4, <2>1 DEF NothingLost
<1>5. NotAgain'
  <2>1. NotAgain
    BY DEF Good
  <2>2. \A s : PartAhead(s)' <=> PartAhead(s)
    BY <1>0 DEF PartAhead, ShownWith
  <2> QED BY <1>0, <1>3, <2>1, <2>2 DEF NotAgain
<1>6. (token # "nackl" => OneStream)'
  BY <1>0 DEF Good, OneStream
<1> QED BY <1>0, <1>4, <1>5, <1>6 DEF Good

\* What a hot page leaves: the records before it, or those the hot endpoint
\* has dropped.
LEMMA HotLeft ==
  ASSUME Good, missed = {}, call.pc = "hot"
  PROVE  LET q == Query("hot", Size)
         IN  \A k \in Owed(call.stream, q.msgs) :
               IF q.more THEN k < q.next ELSE HasArchive /\ k <= archTo[call.stream]
<1> DEFINE q == Query("hot", Size)
           s == call.stream
<1>1. Inv /\ Types /\ s \in Streams /\ Size \in Nat \ {0}
  BY HistoryAssumption DEF Good, Inv, Types, Calls
<1>2. /\ q.next \in Nat /\ q.more \in BOOLEAN /\ (q.more => q.next \in Stored(s, "hot"))
      /\ \A k \in Stored(s, "hot") :
           Before(k, call.at) /\ (s = "mf" => k \in pays) => k \in q.msgs \/ (q.more /\ k < q.next)
  BY <1>1, QueryFacts
<1> HIDE DEF q
<1>3. ASSUME NEW k \in Owed(s, q.msgs)
      PROVE  IF q.more THEN k < q.next ELSE HasArchive /\ k <= archTo[s]
  <2>1. call.got = {} /\ k \in Wanted(s) /\ k \notin q.msgs /\ k \in Owed(s, {})
    BY DEF Owed, Good, Inv, CallOK
  <2>2. Before(k, call.at)
    BY <2>1 DEF Good, NothingLost
  <2>3. k \in Nat \ {0} /\ k <= len[s] /\ (s = "mf" => k \in pays)
    BY <1>1, <2>1, WantedFacts
  <2>4. CASE k \in Stored(s, "hot")
    BY <1>2, <2>1, <2>2, <2>3, <2>4
  <2>5. CASE k \notin Stored(s, "hot")
    <3>1. hotFrom[s] \in Nat /\ archTo[s] \in Nat /\ hotFrom[s] <= archTo[s] + 1 /\ len[s] \in Nat
          /\ (~HasArchive => archTo[s] = 0)
      BY <1>1 DEF Inv, Types, EndpointsOK
    <3>2. k < hotFrom[s]
      BY <1>1, <2>3, <2>5, <3>1, StoredFinite
    <3>3. q.more => hotFrom[s] <= q.next
      BY <1>1, <1>2, StoredFinite
    <3> QED BY <1>2, <2>3, <3>1, <3>2, <3>3
  <2> QED BY <2>4, <2>5
<1> QED BY <1>3 DEF q

\* What a page of the archive leaves.
LEMMA ArchiveLeft ==
  ASSUME Good, missed = {}, call.pc \in {"archive", "probe"}, NEW n \in Nat \ {0}
  PROVE  LET q == Query("archive", n)
         IN  \A k \in Owed(call.stream, call.got) :
               /\ k <= archTo[call.stream]
               /\ k \in q.msgs \/ (q.more /\ k < q.next)
<1> DEFINE q == Query("archive", n)
           s == call.stream
<1>1. Inv /\ Types /\ s \in Streams
  BY DEF Good, Inv, Types, Calls
<1>2. \A k \in Stored(s, "archive") :
        Before(k, call.at) /\ (s = "mf" => k \in pays) => k \in q.msgs \/ (q.more /\ k < q.next)
  BY <1>1, QueryFacts
<1> HIDE DEF q
<1>3. ASSUME NEW k \in Owed(s, call.got)
      PROVE  k <= archTo[s] /\ (k \in q.msgs \/ (q.more /\ k < q.next))
  <2>1. Before(k, call.at) /\ k <= archTo[s]
    BY DEF Good, NothingLost
  <2>2. k \in Wanted(s)
    BY DEF Owed
  <2>3. k \in Nat \ {0} /\ (s = "mf" => k \in pays)
    BY <1>1, <2>2, WantedFacts
  <2>4. k \in Stored(s, "archive")
    BY <1>1, <2>1, <2>3, StoredFinite
  <2> QED BY <1>2, <2>1, <2>3, <2>4
<1> QED BY <1>3 DEF q

LEMMA GetTokenTxsGood ==
  ASSUME Good, GetTokenTxs
  PROVE  Good'
<1>1. /\ token = "tip3" /\ phase' = "done" /\ call.pc = "idle"
      /\ UNCHANGED <<len, pays, hotFrom, archTo, token, cur, call, part, shown, ended, again, base, missed>>
  BY DEF GetTokenTxs, chain, Good, Inv, CallOK
<1>2. Types'
  BY <1>1 DEF Good, Inv, Types, Calls, Parts
<1>3. EndpointsOK' /\ CallOK'
  BY <1>1 DEF Good, Inv, EndpointsOK, CallOK
<1>4. (\A s, have : Owed(s, have)' = Owed(s, have)) /\ (\A s, c, k : Reaches(s, c, k)' <=> Reaches(s, c, k))
      /\ (\A s : Finished(s)' <=> Finished(s)) /\ (\A s : PartAhead(s)' <=> PartAhead(s))
      /\ (CallAhead' <=> CallAhead)
  BY <1>1 DEF Owed, Wanted, Reaches, Finished, PartAhead, ShownWith, CallAhead
<1>5. (missed = {} => NothingLost)'
  BY <1>1, <1>4 DEF Good, NothingLost
<1>6. NotAgain'
  BY <1>1, <1>4 DEF Good, NotAgain
<1>7. (token # "nackl" => OneStream)'
  BY <1>1 DEF Good, OneStream
<1> QED BY <1>2, <1>3, <1>5, <1>6, <1>7 DEF Good, Inv

LEMMA GetEccTxsGood ==
  ASSUME Good, GetEccTxs
  PROVE  Good'
<1>1. PICK found \in IF token = "nackl" THEN BOOLEAN ELSE {FALSE} :
        /\ missed' = IF token = "nackl" /\ ~found THEN missed \cup {"popitgame"} ELSE missed
        /\ call' = [Idle EXCEPT !.pc = "open", !.popitgame = found]
  BY DEF GetEccTxs
<1>2. /\ call.pc = "idle" /\ phase = "paging" /\ token # "tip3" /\ UNCHANGED <<chain, app, part>>
  BY DEF GetEccTxs
<1>3. found \in BOOLEAN /\ (token # "nackl" => ~found)
  BY <1>1
<1>4. call' \in Calls /\ call'.pc = "open" /\ call'.stream = "mf" /\ call'.got = {}
      /\ call'.popitgame = found
  <2>1. {} \in SUBSET Nat /\ "mf" \in Streams
    BY DEF Streams
  <2> QED BY <1>1, <1>3, <2>1 DEF Idle, Calls
<1>5. part' \in [Streams -> Parts] /\ missed' \subseteq {"archive", "popitgame", "probe"}
      /\ \A s \in Streams : part'[s].next.src = "none" => part'[s].next.at = 0
  BY <1>1, <1>2 DEF Good, Inv, Types, CallOK
<1>6. Inv'
  BY <1>2, <1>4, <1>5, CallMoves DEF Good
<1>7. missed \subseteq missed' /\ (missed' = {} /\ token = "nackl" => found)
  BY <1>1
<1>8. CallAhead'
  BY <1>4 DEF CallAhead
<1> QED BY <1>2, <1>3, <1>4, <1>6, <1>7, <1>8, CallGood

LEMMA OpenGood ==
  ASSUME Good, Open
  PROVE  Good'
<1>1. /\ call.pc = "open" /\ UNCHANGED <<chain, app, missed>> /\ Inv /\ Types /\ CallOK
      /\ call \in Calls /\ call.stream \in Streams /\ missed \subseteq {"archive", "popitgame", "probe"}
      /\ call.got = {} /\ phase = "paging" /\ token # "tip3"
  BY DEF Open, Good, Inv, Types, CallOK, Calls
<1>2. CASE call.stream = "pg" /\ ~call.popitgame
  <2>1. Finish({}, NoCursor, FALSE)
    BY <1>2 DEF Open
  <2>2. NoCursor \in Cursor /\ NoCursor.at = 0 /\ {} \in SUBSET Nat
    BY EncodedCursors
  <2>3. ASSUME missed' = {} PROVE Owed("pg", {}) = {}
    <3>1. NothingLost
      BY <1>1, <2>3 DEF Good
    <3>2. token # "nackl"
      BY <1>1, <1>2, <3>1 DEF NothingLost
    <3> QED BY <3>2 DEF Owed, Wanted
  <2> QED BY <1>1, <1>2, <2>1, <2>2, <2>3, FinishGood
<1>3. CASE ~(call.stream = "pg" /\ ~call.popitgame)
  <2> DEFINE s == call.stream
             c == DecodeCursor(cur[s])
  <2>1. call' = [call EXCEPT !.pc = c.src, !.at = c.at, !.pages = 0] /\ UNCHANGED part
    BY <1>3 DEF Open
  <2>2. cur[s] \in Cursor /\ (cur[s].src = "none" => cur[s].at = 0)
    BY <1>1 DEF Types, CallOK
  <2>3. /\ c.src \in {"hot", "archive"} /\ c.at \in Nat /\ c.at = cur[s].at
        /\ cur[s].src = "none" => c.src = "hot" /\ c.at = 0
        /\ cur[s].src # "none" => c.src = cur[s].src
    BY <2>2 DEF DecodeCursor, NoCursor, Cursor
  <2> HIDE DEF c
  <2>4. /\ call' \in Calls /\ call'.pc = c.src /\ call'.at = c.at /\ call'.stream = s
        /\ call'.got = {} /\ call'.popitgame = call.popitgame
    BY <1>1, <2>1, <2>3 DEF Calls
  <2>5. part' \in [Streams -> Parts]
        /\ \A x \in Streams : part'[x].next.src = "none" => part'[x].next.at = 0
    BY <1>1, <2>1 DEF Types, CallOK
  <2>6. Inv'
    BY <1>1, <2>3, <2>4, <2>5, CallMoves
  <2>7. ASSUME missed' = {}, NEW k \in Owed(s, {})
        PROVE  Before(k, c.at) /\ (c.src # "hot" => k <= archTo[s])
    <3>1. Reaches(s, cur[s], k)
      BY <1>1, <2>7 DEF Good, NothingLost
    <3> QED BY <2>2, <2>3, <3>1 DEF Reaches, Before, Cursor
  <2>8. missed' = {} /\ token = "nackl" => call.popitgame
    BY <1>1 DEF Good, NothingLost
  <2>9. token # "nackl" => ~call.popitgame /\ s = "mf"
    BY <1>1, <1>3 DEF Good, OneStream, Streams
  <2>10. ASSUME s \notin ended PROVE CallAhead'
    <3>1. Ahead(cur[s].src, cur[s].at, shown[s]["hot"], shown[s]["archive"])
      BY <1>1, <2>10 DEF Good, NotAgain
    <3>2. cur[s].src = "archive" <=> c.src = "archive"
      BY <2>2, <2>3 DEF Cursor
    <3>3. Ahead(c.src, c.at, shown[s]["hot"], shown[s]["archive"]) /\ c.src # "probe"
      BY <2>3, <3>1, <3>2 DEF Ahead
    <3>4. shown' = shown
      BY <1>1 DEF app
    <3> QED BY <2>4, <3>3, <3>4 DEF CallAhead, Ahead
  <2> QED BY <1>1, <2>1, <2>3, <2>4, <2>6, <2>7, <2>8, <2>9, <2>10, CallGood
<1> QED BY <1>2, <1>3

\* A page after a position before everything shown has not been shown, and
\* neither has what comes after it.
LEMMA PageAhead ==
  ASSUME Types, NEW src, NEW K \in SUBSET Nat, Behind(call.at, K)
  PROVE  LET q == Query(src, Size)
         IN  /\ q.msgs \cap K = {}
             /\ q.more => Behind(q.next, K) /\ Behind(q.next, K \cup q.msgs)
<1> DEFINE q == Query(src, Size)
<1>1. Size \in Nat \ {0} /\ call.at \in Nat
  BY HistoryAssumption DEF Types, Calls
<1>2. /\ q.msgs \in SUBSET Nat /\ q.next \in Nat
      /\ \A k \in q.msgs : Before(k, call.at) /\ q.next # 0 /\ q.next <= k
      /\ q.more => q.next # 0 /\ (call.at = 0 \/ q.next < call.at)
  BY <1>1, QueryFacts
<1> HIDE DEF q
<1>3. \A k \in K : k \in Nat /\ call.at # 0 /\ call.at <= k
  BY DEF Behind
<1>4. ASSUME NEW k \in q.msgs, k \in K PROVE FALSE
  <2>1. k \in Nat /\ Before(k, call.at) /\ call.at # 0 /\ call.at <= k
    BY <1>2, <1>3, <1>4
  <2> QED BY <1>1, <2>1 DEF Before
<1>5. ASSUME q.more, NEW k \in K PROVE q.next # 0 /\ q.next <= k
  BY <1>1, <1>2, <1>3, <1>5
<1>6. q.more => Behind(q.next, K) /\ Behind(q.next, K \cup q.msgs)
  BY <1>2, <1>5 DEF Behind
<1> QED BY <1>4, <1>6 DEF q

LEMMA HotPageGood ==
  ASSUME Good, HotPage
  PROVE  Good'
<1> DEFINE q == Query("hot", Size)
           s == call.stream
<1>1. /\ call.pc = "hot" /\ UNCHANGED <<chain, app, missed>> /\ Inv /\ Types /\ CallOK
      /\ call \in Calls /\ call.stream \in Streams /\ missed \subseteq {"archive", "popitgame", "probe"}
      /\ call.got = {} /\ Size \in Nat \ {0}
  BY HistoryAssumption DEF HotPage, Good, Inv, Types, CallOK, Calls
<1>2. /\ q.msgs \in SUBSET Nat /\ q.next \in Nat /\ q.more \in BOOLEAN
      /\ \A k \in q.msgs : q.next # 0
      /\ q.more => q.next # 0
  BY <1>1, QueryFacts
<1>3. ASSUME missed = {}, NEW k \in Owed(s, q.msgs)
      PROVE  IF q.more THEN k < q.next ELSE HasArchive /\ k <= archTo[s]
  BY <1>1, <1>3, HotLeft
<1>4. token # "nackl" => s = "mf" /\ ~call.popitgame
  BY <1>1 DEF Good, OneStream
<1>4b. shown' = shown /\ ended' = ended
  BY <1>1 DEF app
<1>5. \/ NextPage(q) /\ call' = Loop(q) /\ UNCHANGED part
      \/ ~NextPage(q) /\ q.more /\ Finish(q.msgs, HotCursor(q.next), TRUE)
      \/ ~q.more /\ HotEnd(q)
  BY <1>2 DEF HotPage, NextPage
<1>6. missed = {} /\ token = "nackl" => call.popitgame
  BY <1>1 DEF Good, NothingLost
<1> HIDE DEF q
<1>4a. ASSUME s \notin ended
       PROVE  /\ q.msgs \cap shown[s]["hot"] = {} /\ shown[s]["archive"] = {}
              /\ q.more => /\ Behind(q.next, shown[s]["hot"])
                           /\ Behind(q.next, shown[s]["hot"] \cup q.msgs)
  <2>1. Behind(call.at, shown[s]["hot"]) /\ shown[s]["archive"] = {}
    BY <1>1, <1>4a DEF Good, NotAgain, CallAhead, Ahead
  <2>2. shown[s]["hot"] \in SUBSET Nat
    BY <1>1 DEF Types, Sources
  <2>3. /\ q.msgs \cap shown[s]["hot"] = {}
        /\ q.more => /\ Behind(q.next, shown[s]["hot"])
                     /\ Behind(q.next, shown[s]["hot"] \cup q.msgs)
    BY <1>1, <2>1, <2>2, PageAhead DEF q
  <2> QED BY <2>1, <2>3
<1>7. CASE NextPage(q) /\ call' = Loop(q) /\ UNCHANGED part
  <2>1. /\ Inv' /\ call'.pc = "hot" /\ call'.stream = s /\ call'.at = q.next
        /\ call'.got = {} /\ call'.popitgame = call.popitgame
    BY <1>1, <1>2, <1>7, LoopInv
  <2>2. q.msgs = {} /\ q.more
    BY <1>7 DEF NextPage
  <2>3. missed = {} => \A k \in Owed(s, {}) : Before(k, q.next)
    BY <1>3, <2>2 DEF Before
  <2>4. s \notin ended => CallAhead'
    BY <1>4a, <1>4b, <2>1, <2>2 DEF CallAhead, Ahead
  <2> QED BY <1>1, <1>4, <1>6, <1>7, <2>1, <2>2, <2>3, <2>4, CallGood
<1>8. CASE ~NextPage(q) /\ q.more /\ Finish(q.msgs, HotCursor(q.next), TRUE)
  <2>1. /\ HotCursor(q.next) \in Cursor /\ HotCursor(q.next).at = q.next
        /\ HotCursor(q.next).src # "archive" /\ HotCursor(q.next).src # "none"
    BY <1>2, <1>8, EncodedCursors
  <2>2. missed = {} => \A k \in Owed(s, q.msgs) : Reaches(s, HotCursor(q.next), k)
    BY <1>3, <1>8, <2>1 DEF Reaches
  <2>3. s \notin ended =>
          /\ q.msgs \cap shown[s]["hot"] = {}
          /\ Ahead(HotCursor(q.next).src, HotCursor(q.next).at, shown[s]["hot"] \cup q.msgs,
                   shown[s]["archive"])
    BY <1>4a, <1>8, <2>1 DEF Ahead
  <2> QED BY <1>1, <1>2, <1>4, <1>8, <2>1, <2>2, <2>3, FinishGood
<1>9. CASE ~q.more /\ HotEnd(q)
  <2>1. CASE ~HasArchive
    <3> DEFINE next == IF q.msgs = {} THEN HotCursor(q.next) ELSE NoCursor
    <3>1. Finish(q.msgs, next, FALSE)
      BY <1>9, <2>1 DEF HotEnd
    <3>2. next \in Cursor /\ (next.src = "none" => next.at = 0)
      BY <1>2, EncodedCursors
    <3>3. missed = {} => Owed(s, q.msgs) = {}
      BY <1>3, <1>9, <2>1
    <3> HIDE DEF next
    <3> QED BY <1>1, <1>2, <1>4, <1>4a, <3>1, <3>2, <3>3, FinishGood
  <2>2. CASE HasArchive
    <3> DEFINE pc == IF q.msgs = {} THEN "archive" ELSE "probe"
    <3>1. call' = [call EXCEPT !.pc = pc, !.at = 0, !.pages = 0, !.got = q.msgs]
          /\ UNCHANGED part
      BY <1>9, <2>2 DEF HotEnd
    <3>2. pc \in {"archive", "probe"} /\ (pc # "probe" => q.msgs = {})
      OBVIOUS
    <3> HIDE DEF pc
    <3>3. /\ call' \in Calls /\ call'.pc = pc /\ call'.at = 0 /\ call'.stream = s
          /\ call'.got = q.msgs /\ call'.popitgame = call.popitgame
      BY <1>1, <1>2, <3>1, <3>2 DEF Calls
    <3>4. part' \in [Streams -> Parts] /\ missed' \subseteq {"archive", "popitgame", "probe"}
          /\ \A x \in Streams : part'[x].next.src = "none" => part'[x].next.at = 0
      BY <1>1, <3>1 DEF Types, CallOK
    <3>5. Inv'
      BY <1>1, <3>2, <3>3, <3>4, CallMoves
    <3>6. missed = {} => \A k \in Owed(s, q.msgs) : Before(k, 0) /\ k <= archTo[s]
      BY <1>3, <1>9 DEF Before
    <3>7. s \notin ended => CallAhead'
      BY <1>4a, <1>4b, <3>2, <3>3 DEF CallAhead, Behind
    <3> QED BY <1>1, <1>4, <1>6, <3>1, <3>2, <3>3, <3>5, <3>6, <3>7, CallGood
  <2> QED BY <2>1, <2>2
<1> QED BY <1>5, <1>7, <1>8, <1>9

LEMMA ArchivePageGood ==
  ASSUME Good, ArchivePage
  PROVE  Good'
<1> DEFINE q == Query("archive", Size)
           s == call.stream
<1>1. /\ call.pc = "archive" /\ UNCHANGED <<chain, app, missed>> /\ Inv /\ Types /\ CallOK
      /\ call \in Calls /\ call.stream \in Streams /\ missed \subseteq {"archive", "popitgame", "probe"}
      /\ call.got = {} /\ Size \in Nat \ {0}
  BY HistoryAssumption DEF ArchivePage, Good, Inv, Types, CallOK, Calls
<1>2. /\ q.msgs \in SUBSET Nat /\ q.next \in Nat /\ q.more \in BOOLEAN
      /\ \A k \in q.msgs : k \in Stored(s, "archive")
  BY <1>1, QueryFacts
<1>3. ASSUME missed = {}, NEW k \in Owed(s, {})
      PROVE  k <= archTo[s] /\ (k \in q.msgs \/ (q.more /\ k < q.next))
  BY <1>1, <1>3, ArchiveLeft
<1>4. \/ NextPage(q) /\ call' = Loop(q) /\ UNCHANGED part
      \/ ~NextPage(q) /\ Finish(q.msgs, EncodeArchiveCursor(q.next), q.more)
  BY DEF ArchivePage
<1> HIDE DEF q
<1>5. token # "nackl" => s = "mf" /\ ~call.popitgame
  BY <1>1 DEF Good, OneStream
<1>5a. ASSUME s \notin ended
       PROVE  /\ q.msgs \cap shown[s]["archive"] = {}
              /\ q.more => /\ Behind(q.next, shown[s]["archive"])
                           /\ Behind(q.next, shown[s]["archive"] \cup q.msgs)
  <2>1. Behind(call.at, shown[s]["archive"])
    BY <1>1, <1>5a DEF Good, NotAgain, CallAhead
  <2>2. shown[s]["archive"] \in SUBSET Nat
    BY <1>1 DEF Types, Sources
  <2> QED BY <1>1, <2>1, <2>2, PageAhead DEF q
<1>5b. shown' = shown /\ ended' = ended
  BY <1>1 DEF app
<1>6. missed = {} /\ token = "nackl" => call.popitgame
  BY <1>1 DEF Good, NothingLost
<1>7. CASE NextPage(q) /\ call' = Loop(q) /\ UNCHANGED part
  <2>1. /\ Inv' /\ call'.pc = "archive" /\ call'.stream = s /\ call'.at = q.next
        /\ call'.got = {} /\ call'.popitgame = call.popitgame
    BY <1>1, <1>2, <1>7, LoopInv
  <2>2. q.msgs = {} /\ q.more
    BY <1>7 DEF NextPage
  <2>3. missed = {} => \A k \in Owed(s, {}) : Before(k, q.next) /\ k <= archTo[s]
    BY <1>3, <2>2 DEF Before
  <2>4. s \notin ended => CallAhead'
    BY <1>5a, <1>5b, <2>1, <2>2 DEF CallAhead
  <2> QED BY <1>1, <1>5, <1>6, <1>7, <2>1, <2>2, <2>3, <2>4, CallGood
<1>8. CASE ~NextPage(q) /\ Finish(q.msgs, EncodeArchiveCursor(q.next), q.more)
  <2>1. /\ EncodeArchiveCursor(q.next) \in Cursor /\ EncodeArchiveCursor(q.next).at = q.next
        /\ EncodeArchiveCursor(q.next).src = "archive"
    BY <1>2, EncodedCursors
  <2>2. ASSUME missed = {}, NEW k \in Owed(s, q.msgs)
        PROVE  q.more /\ Reaches(s, EncodeArchiveCursor(q.next), k)
    <3>1. k \in Owed(s, {}) /\ k \notin q.msgs
      BY DEF Owed
    <3> QED BY <1>3, <2>1, <2>2, <3>1 DEF Reaches, Before
  <2>3. s \notin ended =>
          /\ q.msgs \cap shown[s]["archive"] = {}
          /\ q.more => Ahead("archive", q.next, shown[s]["hot"], shown[s]["archive"] \cup q.msgs)
    BY <1>5a DEF Ahead
  <2> QED BY <1>1, <1>2, <1>5, <1>8, <2>1, <2>2, <2>3, FinishGood
<1> QED BY <1>4, <1>7, <1>8

LEMMA ProbePageGood ==
  ASSUME Good, ProbePage
  PROVE  Good'
<1> DEFINE q == Query("archive", 1)
           s == call.stream
<1>1. /\ call.pc = "probe" /\ UNCHANGED <<chain, app>> /\ Inv /\ Types /\ CallOK
      /\ call \in Calls /\ call.stream \in Streams /\ missed \subseteq {"archive", "popitgame", "probe"}
      /\ call.got \in SUBSET Nat
  BY DEF ProbePage, Good, Inv, Types, CallOK, Calls
<1>2. q.next \in Nat /\ q.more \in BOOLEAN
  BY <1>1, QueryFacts
<1>3. ASSUME missed = {}, NEW k \in Owed(s, call.got)
      PROVE  k <= archTo[s] /\ (k \in q.msgs \/ (q.more /\ k < q.next))
  BY <1>1, <1>3, ArchiveLeft
<1>4. \/ NextPage(q) /\ call' = Loop(q) /\ UNCHANGED <<part, missed>>
      \/ /\ IF q.msgs # {} THEN Finish(call.got, EncodeArchiveCursor(0), TRUE)
                           ELSE Finish(call.got, NoCursor, FALSE)
         /\ missed' = IF q.msgs = {} /\ q.more THEN missed \cup {"probe"} ELSE missed
  BY DEF ProbePage
<1> HIDE DEF q
<1>5. token # "nackl" => s = "mf" /\ ~call.popitgame
  BY <1>1 DEF Good, OneStream
<1>5a. s \notin ended => call.got \cap shown[s]["hot"] = {} /\ shown[s]["archive"] = {}
  BY <1>1 DEF Good, NotAgain, CallAhead
<1>5b. shown' = shown /\ ended' = ended
  BY <1>1 DEF app
<1>6. missed = {} /\ token = "nackl" => call.popitgame
  BY <1>1 DEF Good, NothingLost
<1>7. CASE NextPage(q) /\ call' = Loop(q) /\ UNCHANGED <<part, missed>>
  <2>1. /\ Inv' /\ call'.pc = "probe" /\ call'.stream = s /\ call'.at = q.next
        /\ call'.got = call.got /\ call'.popitgame = call.popitgame
    BY <1>1, <1>2, <1>7, LoopInv
  <2>2. q.msgs = {} /\ q.more
    BY <1>7 DEF NextPage
  <2>3. missed = {} => \A k \in Owed(s, call.got) : Before(k, q.next) /\ k <= archTo[s]
    BY <1>3, <2>2 DEF Before
  <2>4. s \notin ended => CallAhead'
    BY <1>5a, <1>5b, <2>1 DEF CallAhead
  <2> QED BY <1>1, <1>5, <1>6, <1>7, <2>1, <2>2, <2>3, <2>4, CallGood
<1>8. CASE /\ IF q.msgs # {} THEN Finish(call.got, EncodeArchiveCursor(0), TRUE)
                             ELSE Finish(call.got, NoCursor, FALSE)
           /\ missed' = IF q.msgs = {} /\ q.more THEN missed \cup {"probe"} ELSE missed
  <2>1. missed \subseteq missed' /\ missed' \subseteq {"archive", "popitgame", "probe"}
        /\ (missed' = {} => missed = {} /\ ~(q.msgs = {} /\ q.more))
    BY <1>1, <1>8
  <2>2. /\ EncodeArchiveCursor(0) \in Cursor /\ EncodeArchiveCursor(0).at = 0
        /\ EncodeArchiveCursor(0).src = "archive" /\ NoCursor \in Cursor /\ NoCursor.at = 0
    BY EncodedCursors
  <2>3. CASE q.msgs # {}
    <3>1. missed' = {} => \A k \in Owed(s, call.got) : Reaches(s, EncodeArchiveCursor(0), k)
      BY <1>3, <2>1, <2>2 DEF Reaches, Before
    <3>2. s \notin ended => Ahead("archive", 0, shown[s]["hot"] \cup call.got, shown[s]["archive"])
      BY <1>5a DEF Ahead, Behind
    <3> QED BY <1>1, <1>5, <1>5a, <1>8, <2>1, <2>2, <2>3, <3>1, <3>2, FinishGood
  <2>4. CASE q.msgs = {}
    <3>1. missed' = {} => Owed(s, call.got) = {}
      BY <1>3, <2>1, <2>4
    <3> QED BY <1>1, <1>5, <1>5a, <1>8, <2>1, <2>2, <2>4, <3>1, FinishGood
  <2> QED BY <2>3, <2>4
<1> QED BY <1>4, <1>7, <1>8

LEMMA ArchiveErrorGood ==
  ASSUME Good, ArchiveError
  PROVE  Good'
<1>1. /\ call.pc \in {"archive", "probe"} /\ UNCHANGED <<chain, app>> /\ Inv /\ Types
      /\ call.stream \in Streams /\ call.got \in SUBSET Nat
      /\ missed' = missed \cup {"archive"} /\ missed \subseteq {"archive", "popitgame", "probe"}
  BY DEF ArchiveError, Good, Inv, Types, Calls
<1>2. \/ call.pc = "archive" /\ Finish({}, EncodeArchiveCursor(0), FALSE)
      \/ call.pc = "probe" /\ Finish(call.got, NoCursor, FALSE)
  BY <1>1 DEF ArchiveError
<1>3. /\ EncodeArchiveCursor(0) \in Cursor /\ EncodeArchiveCursor(0).src = "archive"
      /\ NoCursor \in Cursor /\ NoCursor.at = 0
  BY EncodedCursors
<1>4. /\ token # "nackl" => call.stream = "mf"
      /\ call.pc = "probe" /\ call.stream \notin ended =>
           call.got \cap shown[call.stream]["hot"] = {}
  BY <1>1 DEF Good, NotAgain, OneStream, CallAhead
<1>5. missed' # {} /\ missed \subseteq missed' /\ missed' \subseteq {"archive", "popitgame", "probe"}
  BY <1>1
<1>6. {} \in SUBSET Nat
  OBVIOUS
<1>7. CASE call.pc = "archive" /\ Finish({}, EncodeArchiveCursor(0), FALSE)
  BY <1>1, <1>3, <1>4, <1>5, <1>6, <1>7, FinishGood
<1>8. CASE call.pc = "probe" /\ Finish(call.got, NoCursor, FALSE)
  BY <1>1, <1>3, <1>4, <1>5, <1>8, FinishGood
<1> QED BY <1>2, <1>7, <1>8

\* A call begins with nothing at hand.
LEMMA NothingAtHand ==
  LET new == [s \in Streams |-> Nothing]
  IN  /\ Idle \in Calls /\ Idle.pc = "idle" /\ Idle.got = {}
      /\ new \in [Streams -> Parts]
      /\ \A s \in Streams : new[s].msgs = {} /\ ~new[s].more /\ new[s].next.at = 0
<1>1. {} \in SUBSET Nat
  OBVIOUS
<1>2. Nothing \in Parts /\ Nothing.msgs = {} /\ ~Nothing.more /\ Nothing.next.at = 0
  BY <1>1, EncodedCursors DEF Nothing, Parts, NoCursor, Sources
<1>3. Idle \in Calls /\ Idle.pc = "idle" /\ Idle.got = {}
  BY <1>1 DEF Idle, Calls, Streams
<1> HIDE DEF Nothing
<1> QED BY <1>2, <1>3

LEMMA HotErrorGood ==
  ASSUME Good, HotError
  PROVE  Good'
<1>1. /\ call.pc = "hot" /\ UNCHANGED <<chain, app, missed>> /\ Inv
      /\ call' = Idle /\ part' = [s \in Streams |-> Nothing]
  BY DEF HotError, Good
<1>2. /\ UNCHANGED <<len, pays, hotFrom, archTo, token, phase, cur, shown, ended, again, base, missed>>
      /\ phase # "done"
  BY <1>1 DEF chain, app, Inv, CallOK
<1>3. /\ call' \in Calls /\ call'.pc = "idle" /\ call'.got = {} /\ part' \in [Streams -> Parts]
      /\ \A s \in Streams : part'[s].msgs = {} /\ ~part'[s].more /\ part'[s].next.at = 0
  BY <1>1, NothingAtHand
<1>4. Inv'
  BY <1>1, <1>2, <1>3, CallMoves DEF Inv, Types
<1>5. (\A s, have : Owed(s, have)' = Owed(s, have)) /\ (\A s, c, k : Reaches(s, c, k)' <=> Reaches(s, c, k))
      /\ (\A s : ~Finished(s)') /\ CallAhead'
  BY <1>2, <1>3 DEF Owed, Wanted, Reaches, Finished, CallAhead
<1>6. (missed = {} => NothingLost)'
  BY <1>2, <1>3, <1>5 DEF Good, NothingLost
<1>7. "mf" \in Streams /\ "pg" \in Streams
  BY DEF Streams
<1>8. NotAgain' /\ (token # "nackl" => OneStream)'
  BY <1>2, <1>3, <1>5, <1>7 DEF Good, NotAgain, OneStream
<1> QED BY <1>4, <1>6, <1>8 DEF Good

LEMMA ReplyGood ==
  ASSUME Good, Reply
  PROVE  Good'
<1>1. /\ call.pc = "reply"
      /\ shown' = [s \in Streams |-> [shown[s] EXCEPT ![part[s].src] = @ \cup part[s].msgs]]
      /\ ended' = ended \cup {s \in Streams : ~part[s].more}
      /\ again' = (again \/ \E s \in Streams \ ended :
                               part[s].msgs \cap shown[s][part[s].src] # {})
      /\ phase' = (IF MorePages THEN "paging" ELSE "done")
      /\ cur' = [s \in Streams |-> part[s].next]
      /\ call' = Idle /\ part' = [s \in Streams |-> Nothing]
      /\ UNCHANGED <<len, pays, hotFrom, archTo, token, base, missed>>
  BY DEF Reply, chain
<1>2. Inv /\ Types /\ EndpointsOK /\ CallOK /\ part \in [Streams -> Parts]
  BY DEF Good, Inv, Types
<1>3. \A s \in Streams : /\ part[s].msgs \in SUBSET Nat /\ part[s].next \in Cursor
                          /\ part[s].more \in BOOLEAN /\ part[s].src \in Sources
  BY <1>2 DEF Parts
<1>4. ASSUME NEW s \in Streams, NEW src \in Sources
      PROVE  shown'[s][src] = ShownWith(s, src) /\ shown'[s][src] \in SUBSET Nat
  <2>1. shown[s] \in [Sources -> SUBSET Nat] /\ part[s].src \in Sources /\ part[s].msgs \in SUBSET Nat
    BY <1>2, <1>3 DEF Types
  <2>2. shown'[s] = [shown[s] EXCEPT ![part[s].src] = @ \cup part[s].msgs]
    BY <1>1
  <2> QED BY <2>1, <2>2 DEF ShownWith
<1>5. /\ call' \in Calls /\ call'.pc = "idle" /\ call'.got = {} /\ part' \in [Streams -> Parts]
      /\ \A s \in Streams : part'[s].msgs = {} /\ ~part'[s].more /\ part'[s].next.at = 0
  BY <1>1, NothingAtHand
<1>6. shown' \in [Streams -> [Sources -> SUBSET Nat]] /\ ended' \subseteq Streams
  <2>1. ASSUME NEW s \in Streams
        PROVE  [shown[s] EXCEPT ![part[s].src] = @ \cup part[s].msgs] \in [Sources -> SUBSET Nat]
    <3>1. shown[s] \in [Sources -> SUBSET Nat] /\ part[s].msgs \in SUBSET Nat
      BY <1>2, <1>3 DEF Types
    <3> QED BY <3>1
  <2> QED BY <1>1, <1>2, <2>1 DEF Types
<1>7. cur' \in [Streams -> Cursor] /\ \A s \in Streams : cur'[s] = part[s].next
  BY <1>1, <1>3
<1>8. Inv'
  <2>1. Types'
    BY <1>1, <1>2, <1>5, <1>6, <1>7 DEF Types
  <2>2. EndpointsOK'
    BY <1>1, <1>2 DEF EndpointsOK
  <2>3. CallOK'
    BY <1>1, <1>2, <1>5, <1>7 DEF CallOK
  <2> QED BY <2>1, <2>2, <2>3 DEF Inv
<1>9. ASSUME NEW s \in Streams, NEW k \in Owed(s, {})' PROVE k \in Owed(s, part[s].msgs)
  <2>1. k \in Wanted(s) /\ \A src \in Sources : k \notin shown'[s][src]
    BY <1>1, <1>9 DEF Owed, Wanted
  <2>2. \A src \in Sources : k \notin ShownWith(s, src)
    BY <1>4, <2>1
  <2> QED BY <1>3, <2>1, <2>2 DEF Owed, ShownWith
<1>10. ASSUME missed' = {} PROVE NothingLost'
  <2>1. ASSUME NEW s \in Streams, NEW k \in Owed(s, {})'
        PROVE  part[s].more /\ Reaches(s, cur'[s], k) /\ Reaches(s, cur[s], k)'
    <3>1. part[s].more /\ Reaches(s, part[s].next, k)
      BY <1>1, <1>9, <1>10, <2>1 DEF Good, NothingLost, Finished
    <3> QED BY <1>1, <1>7, <3>1 DEF Reaches
  <2>2. phase' = "done" => \A s \in Streams : Owed(s, {})' = {}
    BY <1>1, <2>1 DEF MorePages
  <2>3. \A s : ~Finished(s)'
    BY <1>5 DEF Finished
  <2> QED BY <1>5, <2>1, <2>2, <2>3 DEF NothingLost
<1>11. \A s \in Streams \ ended : PartAhead(s)
  BY <1>1 DEF Good, NotAgain, Finished
<1>12. ~again'
  BY <1>1, <1>11 DEF Good, NotAgain, PartAhead
<1>13. ASSUME NEW s \in Streams, s \notin ended'
       PROVE  Ahead(cur'[s].src, cur'[s].at, shown'[s]["hot"], shown'[s]["archive"])
  <2>1. s \notin ended /\ part[s].more
    BY <1>1, <1>13
  <2>2. Ahead(part[s].next.src, part[s].next.at, ShownWith(s, "hot"), ShownWith(s, "archive"))
    BY <1>11, <2>1 DEF PartAhead
  <2> QED BY <1>4, <1>7, <2>2 DEF Sources
<1>14. NotAgain'
  <2>1. CallAhead' /\ \A s : ~Finished(s)'
    BY <1>5 DEF CallAhead, Finished
  <2> QED BY <1>12, <1>13, <2>1 DEF NotAgain
<1>15. ASSUME token' # "nackl" PROVE OneStream'
  <2>1. OneStream /\ "mf" \in Streams /\ "pg" \in Streams /\ Streams = {"mf", "pg"}
    BY <1>1, <1>15 DEF Good, Streams
  <2>2. phase = "paging"
    BY <1>1, <1>2 DEF CallOK, Types
  <2>3. phase' = "paging" => part["mf"].more
    BY <1>1, <2>1 DEF MorePages, OneStream
  <2> QED BY <1>1, <1>5, <2>1, <2>2, <2>3 DEF OneStream
<1> QED BY <1>8, <1>10, <1>14, <1>15 DEF Good

-----------------------------------------------------------------------------
(* The endpoints change. *)

\* Records are added and archived: what could be reached still can be.
LEMMA EndpointsGrow ==
  ASSUME Good, UNCHANGED <<app, call, part, missed>>, Inv',
         \A s \in Streams : archTo[s] <= archTo'[s],
         \A s \in Streams : Wanted(s)' = Wanted(s)
  PROVE  Good'
<1>1. /\ UNCHANGED <<token, phase, cur, shown, ended, again, base, call, part, missed>>
      /\ Inv /\ Types
  BY DEF app, Good, Inv
<1>2. \A s \in Streams : archTo[s] \in Nat /\ archTo'[s] \in Nat
  BY DEF Good, Inv, Types
<1>3. \A s \in Streams : \A have : Owed(s, have)' = Owed(s, have)
  BY <1>1 DEF Owed
<1>4. ASSUME NEW s \in Streams, NEW k \in Wanted(s), k <= archTo[s] PROVE k <= archTo'[s]
  <2>1. k \in Nat
    BY <1>1, WantedFacts
  <2> QED BY <1>2, <1>4, <2>1
<1>5. ASSUME NEW s \in Streams, NEW have, NEW k \in Owed(s, have)
      PROVE  /\ k \in Wanted(s)
             /\ \A c : Reaches(s, c, k) => Reaches(s, c, k)'
  <2>1. k \in Wanted(s)
    BY DEF Owed
  <2> QED BY <1>4, <2>1 DEF Reaches
<1>6. (\A s : Finished(s)' <=> Finished(s)) /\ (\A s : PartAhead(s)' <=> PartAhead(s))
      /\ (CallAhead' <=> CallAhead)
  BY <1>1 DEF Finished, PartAhead, ShownWith, CallAhead
<1>7. ASSUME missed' = {} PROVE NothingLost'
  <2>1. NothingLost
    BY <1>1, <1>7 DEF Good
  <2>2. \A s \in Streams : \A k \in Owed(s, {})' : Reaches(s, cur[s], k)'
    <3>1. SUFFICES ASSUME NEW s \in Streams, NEW k \in Owed(s, {}) PROVE Reaches(s, cur[s], k)'
      BY <1>3
    <3>2. Reaches(s, cur[s], k)
      BY <2>1 DEF NothingLost
    <3> QED BY <1>1, <1>5, <3>2 DEF Reaches
  <2>3. \A s \in Streams : Finished(s)' =>
          \A k \in Owed(s, part[s].msgs)' : part'[s].more /\ Reaches(s, part[s].next, k)'
    <3>1. SUFFICES ASSUME NEW s \in Streams, Finished(s), NEW k \in Owed(s, part[s].msgs)
                   PROVE  part[s].more /\ Reaches(s, part[s].next, k)'
      BY <1>1, <1>3, <1>6 DEF Owed, Wanted
    <3>2. part[s].more /\ Reaches(s, part[s].next, k)
      BY <2>1, <3>1 DEF NothingLost
    <3> QED BY <1>1, <1>5, <3>2 DEF Reaches
  <2>4. call'.pc \in {"hot", "archive", "probe"} =>
          \A k \in Owed(call.stream, call.got)' :
            Before(k, call'.at) /\ (call'.pc # "hot" => k <= archTo'[call'.stream])
    <3>1. call.stream \in Streams
      BY <1>1 DEF Types, Calls
    <3>2. SUFFICES ASSUME call.pc \in {"hot", "archive", "probe"},
                          NEW k \in Owed(call.stream, call.got)
                   PROVE  Before(k, call.at) /\ (call.pc # "hot" => k <= archTo'[call.stream])
      BY <1>1, <1>3, <3>1 DEF Owed, Wanted
    <3>3. Before(k, call.at) /\ (call.pc # "hot" => k <= archTo[call.stream])
      BY <2>1, <3>2 DEF NothingLost
    <3> QED BY <1>4, <1>5, <3>1, <3>3
  <2>5. phase' = "done" /\ token' # "tip3" => \A s \in Streams : Owed(s, {})' = {}
    BY <1>1, <1>3, <2>1 DEF NothingLost
  <2>6. call'.pc # "idle" /\ token' = "nackl" => call'.popitgame
    BY <1>1, <2>1 DEF NothingLost
  <2> QED BY <2>2, <2>3, <2>4, <2>5, <2>6 DEF NothingLost, Before
<1>8. NotAgain'
  BY <1>1, <1>6 DEF Good, NotAgain
<1>9. (token # "nackl" => OneStream)'
  BY <1>1 DEF Good, OneStream
<1> QED BY <1>7, <1>8, <1>9 DEF Good

LEMMA EndpointsGood ==
  ASSUME Good, Endpoints
  PROVE  Good'
<1>1. PICK s \in Streams : NewRecord(s) \/ Archived(s) \/ Expires(s)
  BY DEF Endpoints
<1>2. /\ Types /\ EndpointsOK /\ CallOK /\ UNCHANGED <<app, call, part, missed>>
  BY <1>1 DEF Good, Inv, NewRecord, Archived, Expires
<1>3. UNCHANGED <<token, phase, cur, shown, ended, again, base, call, part, missed>>
  BY <1>2 DEF app
<1>4. /\ len \in [Streams -> Nat] /\ archTo \in [Streams -> Nat] /\ base \in [Streams -> Nat]
      /\ hotFrom \in [Streams -> Nat \ {0}] /\ pays \subseteq Nat
  BY <1>2 DEF Types
<1>5. CallOK'
  BY <1>2, <1>3 DEF CallOK
<1>6. CASE NewRecord(s)
  <2>1. /\ len' = [len EXCEPT ![s] = @ + 1] /\ UNCHANGED <<hotFrom, archTo>>
        /\ pays' = pays \/ (s = "mf" /\ pays' = pays \cup {len[s] + 1})
    BY <1>6 DEF NewRecord
  <2>2. len' \in [Streams -> Nat] /\ \A x \in Streams : len'[x] = IF x = s THEN len[x] + 1 ELSE len[x]
    BY <1>4, <2>1
  <2>3. pays' \subseteq Nat
    <3>1. len[s] + 1 \in Nat
      BY <1>4
    <3> QED BY <1>4, <2>1, <3>1
  <2>4. Types'
    BY <1>2, <1>3, <2>1, <2>2, <2>3 DEF Types
  <2>5. EndpointsOK'
    BY <1>2, <1>3, <1>4, <2>1, <2>2 DEF EndpointsOK
  <2>6. 1 .. base["mf"] \cap pays' = 1 .. base["mf"] \cap pays
    <3>1. base["mf"] \in Nat /\ len["mf"] \in Nat /\ base["mf"] <= len["mf"]
      BY <1>2, <1>4 DEF EndpointsOK, Streams
    <3>2. len["mf"] + 1 \notin 1 .. base["mf"]
      BY <3>1
    <3> QED BY <2>1, <3>2
  <2>7. \A x \in Streams : Wanted(x)' = Wanted(x)
    BY <1>3, <2>6, Zenon DEF Wanted
  <2>8. \A x \in Streams : archTo[x] <= archTo'[x]
    <3>1. \A x \in Streams : archTo[x] \in Nat /\ archTo'[x] = archTo[x]
      BY <1>4, <2>1
    <3> QED BY <3>1
  <2> QED BY <1>2, <1>5, <2>4, <2>5, <2>7, <2>8, EndpointsGrow DEF Inv
<1>7. CASE Archived(s)
  <2>1. /\ archTo' = [archTo EXCEPT ![s] = @ + 1] /\ UNCHANGED <<hotFrom, len, pays>>
        /\ HasArchive /\ archTo[s] < len[s]
    BY <1>7 DEF Archived
  <2>2. archTo' \in [Streams -> Nat] /\ \A x \in Streams : archTo'[x] = IF x = s THEN archTo[x] + 1 ELSE archTo[x]
    BY <1>4, <2>1
  <2>3. Types'
    BY <1>2, <1>3, <2>1, <2>2 DEF Types
  <2>4. EndpointsOK'
    BY <1>2, <1>3, <1>4, <2>1, <2>2 DEF EndpointsOK
  <2>5. \A x \in Streams : Wanted(x)' = Wanted(x) /\ archTo[x] <= archTo'[x]
    BY <1>3, <1>4, <2>1, <2>2 DEF Wanted
  <2> QED BY <1>2, <1>5, <2>3, <2>4, <2>5, EndpointsGrow DEF Inv
<1>8. CASE Expires(s)
  <2>1. /\ hotFrom' = [hotFrom EXCEPT ![s] = @ + 1] /\ UNCHANGED <<archTo, len, pays>>
        /\ hotFrom[s] <= archTo[s]
    BY <1>8 DEF Expires
  <2>2. hotFrom' \in [Streams -> Nat \ {0}]
        /\ \A x \in Streams : hotFrom'[x] = IF x = s THEN hotFrom[x] + 1 ELSE hotFrom[x]
    BY <1>4, <2>1
  <2>3. Types'
    BY <1>2, <1>3, <2>1, <2>2 DEF Types
  <2>4. EndpointsOK'
    BY <1>2, <1>3, <1>4, <2>1, <2>2 DEF EndpointsOK
  <2>5. \A x \in Streams : Wanted(x)' = Wanted(x) /\ archTo[x] <= archTo'[x]
    BY <1>3, <1>4, <2>1 DEF Wanted
  <2> QED BY <1>2, <1>5, <2>3, <2>4, <2>5, EndpointsGrow DEF Inv
<1> QED BY <1>1, <1>6, <1>7, <1>8

-----------------------------------------------------------------------------
(* The theorems. *)

LEMMA GoodInit == Init => Good
<1> SUFFICES ASSUME Init PROVE Good
  OBVIOUS
<1>1. /\ token \in Tokens /\ phase = "paging" /\ cur = [s \in Streams |-> NoCursor]
      /\ call = Idle /\ part = [s \in Streams |-> Nothing]
      /\ shown = [s \in Streams |-> [src \in Sources |-> {}]] /\ ended = {} /\ again = FALSE
      /\ base = len /\ missed = {}
  BY DEF Init
<1>2. UpTo \in Nat
  <2>1. MaxLen["mf"] \in Nat /\ MaxLen["pg"] \in Nat
    BY HistoryAssumption DEF Streams
  <2> QED BY <2>1 DEF UpTo
<1>3. /\ len \in [Streams -> 0 .. UpTo] /\ archTo \in [Streams -> 0 .. UpTo]
      /\ hotFrom \in [Streams -> 1 .. UpTo + 1] /\ pays \in SUBSET (1 .. len["mf"])
      /\ \A s \in Streams : archTo[s] <= IF HasArchive THEN len[s] ELSE 0
      /\ \A s \in Streams : hotFrom[s] <= archTo[s] + 1
  BY DEF Init
<1>4. /\ len \in [Streams -> Nat] /\ archTo \in [Streams -> Nat]
      /\ hotFrom \in [Streams -> Nat \ {0}]
  BY <1>2, <1>3
<1>5. pays \subseteq Nat
  BY <1>3, <1>4 DEF Streams
<1>6. NoCursor \in Cursor /\ NoCursor.src = "none" /\ NoCursor.at = 0
  BY EncodedCursors
<1>7. cur \in [Streams -> Cursor] /\ \A s \in Streams : cur[s].src = "none" /\ cur[s].at = 0
  BY <1>1, <1>6
<1>8. /\ call \in Calls /\ call.pc = "idle" /\ call.got = {} /\ part \in [Streams -> Parts]
      /\ \A s \in Streams : part[s].msgs = {} /\ ~part[s].more /\ part[s].next.at = 0
  BY <1>1, NothingAtHand
<1>8a. \A s \in Streams : shown[s]["hot"] = {} /\ shown[s]["archive"] = {}
  BY <1>1 DEF Sources
<1>9. Types
  <2>1. shown \in [Streams -> [Sources -> SUBSET Nat]]
    BY <1>1
  <2> QED BY <1>1, <1>4, <1>5, <1>7, <1>8, <2>1, HistoryAssumption DEF Types
<1>10. EndpointsOK
  <2>1. \A s \in Streams : len[s] \in Nat /\ archTo[s] \in Nat /\ hotFrom[s] \in Nat
    BY <1>4
  <2> QED BY <1>1, <1>3, <2>1, HistoryAssumption DEF EndpointsOK
<1>11. CallOK
  BY <1>1, <1>7, <1>8 DEF CallOK
<1>12. NothingLost
  BY <1>1, <1>7, <1>8 DEF NothingLost, Reaches, Finished
<1>13. NotAgain
  BY <1>1, <1>8, <1>8a DEF NotAgain, Ahead, Behind, CallAhead, Finished
<1>14. OneStream
  BY <1>1, <1>8 DEF OneStream, Streams
<1> QED BY <1>9, <1>10, <1>11, <1>12, <1>13, <1>14 DEF Good, Inv

LEMMA GoodNext == Good /\ [Next]_vars => Good'
<1> SUFFICES ASSUME Good, [Next]_vars PROVE Good'
  OBVIOUS
<1>1. CASE UNCHANGED vars
  <2>1. UNCHANGED <<app, call, part, missed>> /\ UNCHANGED <<len, pays, hotFrom, archTo>>
        /\ UNCHANGED <<token, phase, cur, shown, ended, again, base, call, part, missed>>
    BY <1>1 DEF vars, app
  <2>2. Inv'
    BY <2>1 DEF Good, Inv, Types, EndpointsOK, CallOK
  <2>3. \A s \in Streams : archTo[s] <= archTo'[s] /\ Wanted(s)' = Wanted(s)
    BY <2>1 DEF Wanted, Good, Inv, Types
  <2> QED BY <2>1, <2>2, <2>3, EndpointsGrow
<1>2. CASE Next
  BY <1>2, GetTokenTxsGood, GetEccTxsGood, OpenGood, HotPageGood, HotErrorGood, ArchivePageGood,
     ProbePageGood, ArchiveErrorGood, ReplyGood, EndpointsGood DEF Next, GetHistory
<1> QED BY <1>1, <1>2

\* Whatever is not shown yet can be reached with the cursors the application
\* holds, is at hand, or lies before the query under way, as long as nothing
\* was missed; and a page is older than what its endpoint has shown of a stream
\* that has not ended.
THEOREM HistoryInvariant == Spec => []Good
BY GoodInit, GoodNext, PTL DEF Spec

\* Paging that ends has shown every record of the currency that existed when
\* it began, although records are added, archived and dropped from the hot
\* endpoint between the pages (get_history, its loops and its cursors).
THEOREM NothingSkippedAlways == Spec => []NothingSkipped
<1>1. Good => NothingSkipped
  BY DEF Good, NothingLost, NothingSkipped, Owed
<1> QED BY <1>1, HistoryInvariant, PTL

\* Until the last page of a stream has been returned no endpoint shows a
\* record of it twice, and only NACKL is paged beyond that: what get_history
\* repeats is held by both endpoints, or of a stream that ended before the
\* other.
THEOREM OncePerEndpointAlways == Spec => []OncePerEndpoint
<1>1. Good => OncePerEndpoint
  BY DEF Good, NotAgain, OneStream, OncePerEndpoint
<1> QED BY <1>1, HistoryInvariant, PTL
=============================================================================
