-------------------------- MODULE ShellMarketProofs --------------------------
(***************************************************************************)
(* The sale, the listing and the audit of sell orders (bee_wallet,         *)
(* services/tokens and wallet_info): which order a sale returns, what a    *)
(* listing shows and when an audit is CLEAN, for every number of sellers,  *)
(* denominations, orders, changes, faults and every page size.             *)
(***************************************************************************)
EXTENDS ShellMarket, TLAPS, FiniteSetTheorems, WellFoundedInduction

-----------------------------------------------------------------------------
(* The invariants. *)

\* The queues and lots: a lot's order is inside its queue, it is open until
\* it is claimed, and Me's first orders stay Me's.
MarketOK ==
  /\ job \in Jobs /\ redeemed \in BOOLEAN
  /\ next \in [Denoms -> Nat \ {0}]
  /\ lot \in [DOMAIN lot -> Lot]
  /\ DOMAIN lot \subseteq Orders
  /\ \A p \in DOMAIN lot : /\ p[2] < next[p[1]]
                           /\ lot[p].state = "open" <=> lot[p].claimed = "no"
  /\ open \subseteq Of(Me)

\* A sale that nobody raced: its id is the next one until its transaction
\* arrives, and its order's from then on.
SaleOK(s) ==
  LET r == sell[s] p == <<r.d, r.id>> IN
  /\ r.pc # "idle" => r.d \in Denoms
  /\ r.pc = "read" /\ ~r.raced => r.id = next[r.d]
  /\ r.pc = "poll" /\ ~r.raced => IF <<s, r.d>> \in way THEN r.id = next[r.d] ELSE p \in Of(s)
  /\ r.pc = "done" /\ ~r.raced => p \in Of(s)

SaleInv ==
  /\ sell \in [Sellers -> [pc : {"idle", "read", "poll", "done", "error"}, d : Nat,
                           id : Nat, raced : BOOLEAN]]
  /\ way \subseteq Sellers \X Denoms
  /\ \A w \in way : sell[w[1]].d = w[2] /\ sell[w[1]].pc \in {"poll", "done", "error"}
  /\ \A s \in Sellers : SaleOK(s)

\* Once the audit has read the events, no order among them means that all are
\* buried or that the hot endpoint had other events of the wallet.
AuditInv ==
  /\ audit \in [pc : {"probe", "orders", "events", "verdict", "done"},
                src : {"hot", "archive"}, orders : SUBSET Orders, created : SUBSET Orders,
                claimed : SUBSET Orders, redeemed : BOOLEAN,
                verdict : {"none", "INCONCLUSIVE", "CLEAN", "orders"}]
  /\ audit.pc # "done" => audit.verdict = "none"
  /\ audit.verdict = "CLEAN" => audit.created = {}
  /\ HasArchive /\ (audit.pc = "verdict" \/ audit.verdict = "CLEAN") /\ audit.created = {}
       => \/ \A p \in open : lot[p].created = "buried"
          \/ audit.src = "hot" /\ (audit.claimed # {} \/ audit.redeemed)

\* The lots a page asks for, answered or not.
Asked == list.todo \cup list.page

ListType ==
  /\ list \in [pc : {"idle", "created", "claimed", "queue", "details", "done"},
               src : {"hot", "archive"}, dst : {"own", "legacy"},
               created : SUBSET Orders, claimed : SUBSET Orders,
               todo : SUBSET (Denoms \cup Orders), next : [Denoms -> Nat],
               page : SUBSET Orders, cursor : Nat \X Nat, shown : SUBSET Orders,
               more : BOOLEAN]
  /\ missing \in [created : SUBSET Orders, claimed : SUBSET Orders]
  /\ list.pc \in {"created", "claimed", "queue"} => list.page = {}
  /\ list.pc = "details" => list.todo \subseteq list.created

\* What the events say is true of the lots, and the archive was found empty of
\* one address before the other is asked for.
EventsOK ==
  /\ list.created \subseteq Of(Me)
  /\ \A p \in list.claimed : p \in DOMAIN lot /\ lot[p].claimed # "no"
  /\ list.pc = "created" /\ list.src = "archive" /\ list.dst = "legacy"
       => \A p \in open : lot[p].dst = "own" => lot[p].created = "buried"

\* An order that is open has been shown or is still ahead of the cursor, and
\* the call under way has not lost it.
Ahead(p) ==
  /\ p \in list.shown \/ Before(list.cursor, p)
  /\ list.pc \in {"claimed", "queue"} => p \in list.created
  /\ list.pc = "queue" /\ p[1] \notin list.todo => p[2] < list.next[p[1]]
  /\ list.pc = "details" /\ Before(list.cursor, p)
       => p \in Asked \/ (list.more /\ \A q \in Asked : Before(q, p))
  /\ list.pc = "done" => p \in list.shown

ListInv ==
  /\ ListType /\ EventsOK
  /\ list.pc = "details" => list.more = (Cardinality(Asked) > PageSize)
  /\ \A p \in open \ missing.created : lot[p].state = "open" => Ahead(p)

-----------------------------------------------------------------------------
(* The order of the orders. *)

LEMMA SmallestNat ==
  ASSUME NEW T \in SUBSET Nat, T # {}
  PROVE  \E n \in T : \A m \in T : n <= m
<1> DEFINE R == OpToRel(<, Nat)
<1>1. IsWellFoundedOn(R, Nat)
  BY NatLessThanWellFounded
<1>2. \A m, n \in Nat : <<m, n>> \in R <=> m < n
  BY DEF OpToRel
<1> HIDE DEF R
<1>3. PICK n \in T : \A m \in T : ~(<<m, n>> \in R)
  BY <1>1, WFMin
<1>4. n \in Nat /\ \A m \in T : m \in Nat /\ ~(m < n)
  BY <1>2, <1>3
<1>5. \A m \in T : n <= m
  BY <1>4
<1> QED BY <1>5

LEMMA OrderPairs ==
  ASSUME NEW p \in Orders
  PROVE  p \in Nat \X Nat /\ p[1] \in Denoms /\ p[1] \in Nat /\ p[2] \in Nat /\ p[2] > 0
<1>1. Denoms \subseteq Nat /\ MaxId \in Nat
  BY MarketAssumption
<1>2. PICK d \in Denoms, i \in 1 .. MaxId : p = <<d, i>>
  BY DEF Orders
<1>3. d \in Nat /\ i \in Nat /\ i > 0
  BY <1>1
<1> QED BY <1>2, <1>3

LEMMA OrdersFinite == IsFiniteSet(Orders)
<1>1. IsFiniteSet(1 .. MaxId) /\ IsFiniteSet(Denoms)
  BY FS_Interval, MarketAssumption
<1> QED BY <1>1, FS_Product DEF Orders

\* Before orders pairs of numbers lexicographically.
LEMMA BeforeOrder ==
  ASSUME NEW p \in Nat \X Nat, NEW q \in Nat \X Nat
  PROVE  /\ ~Before(p, p)
         /\ Before(p, q) \/ Before(q, p) \/ p = q
         /\ ~(Before(p, q) /\ Before(q, p))
         /\ \A r \in Nat \X Nat : Before(p, q) /\ Before(q, r) => Before(p, r)
BY DEF Before

\* A set of orders has a last one (LastOf).
LEMMA LastExists ==
  ASSUME NEW P \in SUBSET Orders, P # {}
  PROVE  /\ LastOf(P) \in P
         /\ \A q \in P : q = LastOf(P) \/ Before(q, LastOf(P))
<1> DEFINE After(p) == {q \in P : Before(p, q)}
           T == {Cardinality(After(p)) : p \in P}
<1>1. IsFiniteSet(P)
  BY OrdersFinite, FS_Subset
<1>2. ASSUME NEW p \in P PROVE IsFiniteSet(After(p)) /\ Cardinality(After(p)) \in Nat
  <2>1. IsFiniteSet(After(p))
    BY <1>1, FS_Subset
  <2> QED BY <2>1, FS_CardinalityType
<1>3. T \in SUBSET Nat /\ T # {}
  BY <1>2
<1>4. PICK n \in T : \A m \in T : n <= m
  BY <1>3, SmallestNat
<1>5. PICK p \in P : n = Cardinality(After(p))
  BY <1>4
<1>6. ASSUME NEW q \in P, Before(p, q) PROVE FALSE
  <2>1. p \in Nat \X Nat /\ q \in Nat \X Nat
    BY OrderPairs
  <2>2. After(q) \subseteq After(p)
    BY <1>6, <2>1, OrderPairs, BeforeOrder
  <2>3. q \in After(p) /\ q \notin After(q)
    BY <1>6, <2>1, BeforeOrder
  <2>4. Cardinality(After(q)) <= Cardinality(After(p))
        /\ (Cardinality(After(p)) = Cardinality(After(q)) => After(p) = After(q))
    BY <1>2, <2>2, FS_Subset
  <2>5. Cardinality(After(p)) <= Cardinality(After(q))
    BY <1>4, <1>5
  <2>6. Cardinality(After(p)) \in Nat /\ Cardinality(After(q)) \in Nat
    BY <1>2
  <2> HIDE DEF After
  <2> QED BY <2>3, <2>4, <2>5, <2>6
<1>7. \A q \in P : q = p \/ Before(q, p)
  BY <1>6, OrderPairs, BeforeOrder
<1> QED BY <1>7 DEF LastOf

\* The first n + 1 orders of a set: whatever is not among them comes after
\* all of them, and if they are at most n they are all.
LEMMA FirstOnes ==
  ASSUME NEW rest \in SUBSET Orders, NEW n \in Nat
  PROVE  LET P == {p \in rest : Cardinality({q \in rest : Before(q, p)}) <= n}
         IN  /\ \A p \in rest \ P : \A q \in P : Before(q, p)
             /\ ~(Cardinality(P) > n) => P = rest
<1> DEFINE Pre(p) == {q \in rest : Before(q, p)}
           P == {p \in rest : Cardinality(Pre(p)) <= n}
<1>1. IsFiniteSet(rest) /\ IsFiniteSet(P)
  <2>1. IsFiniteSet(rest)
    BY OrdersFinite, FS_Subset
  <2> QED BY <2>1, FS_Subset
<1>2. ASSUME NEW p \in rest PROVE IsFiniteSet(Pre(p)) /\ Cardinality(Pre(p)) \in Nat
  <2>1. IsFiniteSet(Pre(p))
    BY <1>1, FS_Subset
  <2> QED BY <2>1, FS_CardinalityType
<1>3. ASSUME NEW p \in rest, NEW q \in rest, Before(p, q)
      PROVE  Cardinality(Pre(p)) < Cardinality(Pre(q))
  <2>1. Pre(p) \subseteq Pre(q)
    BY <1>3, OrderPairs, BeforeOrder
  <2>2. p \in Pre(q) /\ p \notin Pre(p)
    BY <1>3, OrderPairs, BeforeOrder
  <2>3. Cardinality(Pre(p)) <= Cardinality(Pre(q))
        /\ (Cardinality(Pre(q)) = Cardinality(Pre(p)) => Pre(q) = Pre(p))
    BY <1>2, <2>1, FS_Subset
  <2>4. Cardinality(Pre(p)) \in Nat /\ Cardinality(Pre(q)) \in Nat
    BY <1>2
  <2> HIDE DEF Pre
  <2> QED BY <2>2, <2>3, <2>4
<1>4. ASSUME NEW p \in rest \ P, NEW q \in P PROVE Before(q, p)
  <2>1. Cardinality(Pre(q)) <= n /\ ~(Cardinality(Pre(p)) <= n)
    OBVIOUS
  <2>2. Cardinality(Pre(p)) \in Nat /\ Cardinality(Pre(q)) \in Nat /\ p \in rest /\ q \in rest
    BY <1>2
  <2>3. ~Before(p, q)
    <3>1. Before(p, q) => Cardinality(Pre(p)) < Cardinality(Pre(q))
      BY <1>3
    <3> HIDE DEF Pre, P
    <3> QED BY <2>1, <2>2, <3>1
  <2>4. p # q
    OBVIOUS
  <2> QED BY <2>3, <2>4, OrderPairs, BeforeOrder
<1>5. ASSUME ~(Cardinality(P) > n) PROVE P = rest
  <2> SUFFICES ASSUME rest \ P # {} PROVE FALSE
    OBVIOUS
  <2> DEFINE T == {Cardinality(Pre(p)) : p \in rest \ P}
  <2>1. T \in SUBSET Nat /\ T # {}
    BY <1>2
  <2>2. PICK m \in T : \A k \in T : m <= k
    BY <2>1, SmallestNat
  <2>3. PICK p \in rest \ P : m = Cardinality(Pre(p))
    BY <2>2
  <2>4. Pre(p) \subseteq P
    <3> SUFFICES ASSUME NEW q \in Pre(p), q \notin P PROVE FALSE
      OBVIOUS
    <3>1. q \in rest \ P /\ Before(q, p)
      OBVIOUS
    <3>2. m <= Cardinality(Pre(q))
      BY <2>2, <3>1
    <3>3. Cardinality(Pre(q)) < Cardinality(Pre(p))
      BY <1>3, <3>1
    <3>4. Cardinality(Pre(q)) \in Nat /\ Cardinality(Pre(p)) \in Nat
      BY <1>2, <3>1
    <3> HIDE DEF Pre, P
    <3> QED BY <2>3, <3>2, <3>3, <3>4
  <2>5. Cardinality(Pre(p)) <= Cardinality(P) /\ Cardinality(P) \in Nat
    BY <1>1, <2>4, FS_Subset, FS_CardinalityType
  <2>6. ~(Cardinality(Pre(p)) <= n) /\ Cardinality(Pre(p)) \in Nat
    BY <1>2
  <2> HIDE DEF Pre, P
  <2> QED BY <1>5, <2>5, <2>6
<1> QED BY <1>4, <1>5

-----------------------------------------------------------------------------
(* The accumulator. *)

\* What no step does: an order does not change hands, a claim is not undone,
\* an event is not dug up, a lot is not opened again, a queue does not shrink.
LotsKept ==
  /\ open' = open
  /\ \A p \in DOMAIN lot :
       /\ p \in DOMAIN lot' /\ lot'[p].seller = lot[p].seller /\ lot'[p].dst = lot[p].dst
       /\ lot[p].claimed # "no" => lot'[p].claimed # "no"
       /\ lot[p].created = "buried" => lot'[p].created = "buried"
       /\ lot'[p].state = "open" => lot[p].state = "open"
  /\ \A d \in Denoms : next[d] <= next'[d]

LEMMA MarketSame ==
  ASSUME MarketOK, UNCHANGED <<next, lot, open, job>>, redeemed' \in BOOLEAN
  PROVE  MarketOK' /\ LotsKept
BY DEF MarketOK, LotsKept, Of

\* A step of one lot that keeps its seller and address.
LEMMA LotChange ==
  ASSUME MarketOK, NEW p \in DOMAIN lot, NEW l \in Lot, UNCHANGED <<next, open, job, redeemed>>,
         lot' = [lot EXCEPT ![p] = l], l.seller = lot[p].seller, l.dst = lot[p].dst,
         l.state = "open" <=> l.claimed = "no", l.state = "open" => lot[p].state = "open",
         lot[p].claimed # "no" => l.claimed # "no",
         lot[p].created = "buried" => l.created = "buried"
  PROVE  MarketOK' /\ LotsKept
<1>1. DOMAIN lot' = DOMAIN lot /\ lot' \in [DOMAIN lot -> Lot]
      /\ \A q \in DOMAIN lot : lot'[q] = IF q = p THEN l ELSE lot[q]
  BY DEF MarketOK
<1>2. LotsKept
  BY <1>1 DEF LotsKept, MarketOK
<1> QED BY <1>1, <1>2 DEF MarketOK, Of

LEMMA AcceptOrderMarket ==
  ASSUME MarketOK, NEW s \in Sellers, NEW d \in Denoms, AcceptOrder(s, d)
  PROVE  /\ MarketOK' /\ LotsKept
         /\ next' = [next EXCEPT ![d] = @ + 1] /\ <<d, next[d]>> \notin DOMAIN lot
         /\ <<d, next[d]>> \in DOMAIN lot' /\ lot'[<<d, next[d]>>].seller = s
<1> DEFINE p == <<d, next[d]>>
           l == [seller |-> s, dst |-> "own", created |-> "hot", claimed |-> "no",
                 state |-> "open"]
<1>1. p \in Orders /\ next[d] \in Nat \ {0} /\ p[1] = d /\ p[2] = next[d]
  BY MarketAssumption DEF MarketOK, AcceptOrder, Orders
<1>2. p \notin DOMAIN lot
  BY <1>1 DEF MarketOK
<1>3. l \in Lot /\ l.seller = s /\ l.dst = "own" /\ l.claimed = "no" /\ l.state = "open"
  BY DEF Lot
<1>4. /\ lot' = [q \in DOMAIN lot \cup {p} |-> IF q = p THEN l ELSE lot[q]]
      /\ next' = [next EXCEPT ![d] = @ + 1] /\ UNCHANGED <<open, job, redeemed>>
  BY DEF AcceptOrder
<1> HIDE DEF l, p
<1>5. /\ DOMAIN lot' = DOMAIN lot \cup {p} /\ lot'[p] = l
      /\ \A q \in DOMAIN lot : lot'[q] = lot[q]
  BY <1>2, <1>4
<1>6. lot' \in [DOMAIN lot' -> Lot]
  BY <1>3, <1>4, <1>5 DEF MarketOK
<1>7. next' \in [Denoms -> Nat \ {0}] /\ \A e \in Denoms : next[e] <= next'[e]
      /\ next'[d] = next[d] + 1
  BY <1>1, <1>4 DEF MarketOK
<1>8. LotsKept
  BY <1>4, <1>5, <1>7 DEF LotsKept
<1>9. ASSUME NEW q \in DOMAIN lot'
      PROVE  q[2] < next'[q[1]] /\ (lot'[q].state = "open" <=> lot'[q].claimed = "no")
  <2>1. CASE q = p
    BY <1>1, <1>3, <1>5, <1>7, <2>1
  <2>2. CASE q \in DOMAIN lot
    <3>1. q \in Orders /\ q[2] < next[q[1]] /\ (lot[q].state = "open" <=> lot[q].claimed = "no")
      BY <2>2 DEF MarketOK
    <3>2. q[1] \in Denoms /\ q[2] \in Nat /\ next[q[1]] \in Nat /\ next'[q[1]] \in Nat
      BY <1>7, <3>1, OrderPairs DEF MarketOK
    <3> QED BY <1>5, <1>7, <2>2, <3>1, <3>2
  <2> QED BY <1>5, <2>1, <2>2
<1>10. MarketOK'
  <2>1. DOMAIN lot' \subseteq Orders
    BY <1>1, <1>5 DEF MarketOK
  <2>2. open' \subseteq Of(Me)'
    BY <1>4, <1>5 DEF MarketOK, Of
  <2> QED BY <1>4, <1>6, <1>7, <1>9, <2>1, <2>2 DEF MarketOK
<1> QED BY <1>2, <1>3, <1>4, <1>5, <1>8, <1>10 DEF p

LEMMA MarketStep == MarketOK /\ [Next]_vars => MarketOK' /\ LotsKept
<1> SUFFICES ASSUME MarketOK, [Next]_vars PROVE MarketOK' /\ LotsKept
  OBVIOUS
<1>1. ASSUME NEW p \in Orders, ClaimUsdc(p) \/ LotDestroyed(p) \/ EventExpires(p)
                              \/ EventBuried(p)
      PROVE  MarketOK' /\ LotsKept
  <2>1. p \in DOMAIN lot /\ UNCHANGED <<next, open, job, redeemed>>
    BY <1>1 DEF ClaimUsdc, LotDestroyed, EventExpires, EventBuried
  <2>2. lot[p] \in Lot /\ (lot[p].state = "open" <=> lot[p].claimed = "no")
    BY <2>1 DEF MarketOK
  <2>3. CASE ClaimUsdc(p)
    <3> DEFINE l == [lot[p] EXCEPT !.state = "claimed", !.claimed = "hot"]
    <3>1. lot' = [lot EXCEPT ![p] = l]
      BY <2>3 DEF ClaimUsdc
    <3>2. l \in Lot /\ l.seller = lot[p].seller /\ l.dst = lot[p].dst /\ l.state = "claimed"
          /\ l.claimed = "hot" /\ l.created = lot[p].created
      BY <2>2 DEF Lot
    <3> HIDE DEF l
    <3> QED BY <2>1, <2>2, <3>1, <3>2, LotChange
  <2>4. CASE LotDestroyed(p)
    <3> DEFINE l == [lot[p] EXCEPT !.state = "gone"]
    <3>1. lot' = [lot EXCEPT ![p] = l] /\ lot[p].state = "claimed"
      BY <2>4 DEF LotDestroyed
    <3>2. l \in Lot /\ l.seller = lot[p].seller /\ l.dst = lot[p].dst /\ l.state = "gone"
          /\ l.claimed = lot[p].claimed /\ l.created = lot[p].created
      BY <2>2 DEF Lot
    <3> HIDE DEF l
    <3> QED BY <2>1, <2>2, <3>1, <3>2, LotChange
  <2>5. ASSUME NEW age \in {"old", "buried"},
               \/ lot' = [lot EXCEPT ![p].created = age] /\ lot[p].created # "buried"
               \/ lot' = [lot EXCEPT ![p].claimed = age] /\ lot[p].claimed # "no"
        PROVE  MarketOK' /\ LotsKept
    <3> DEFINE c == [lot[p] EXCEPT !.created = age]
               u == [lot[p] EXCEPT !.claimed = age]
    <3>1. \/ lot' = [lot EXCEPT ![p] = c] /\ lot[p].created # "buried"
          \/ lot' = [lot EXCEPT ![p] = u] /\ lot[p].claimed # "no"
      BY <2>5
    <3>2. \A l \in {c, u} : /\ l \in Lot /\ l.seller = lot[p].seller /\ l.dst = lot[p].dst
                            /\ l.state = lot[p].state
      BY <2>2, <2>5 DEF Lot
    <3>3. /\ c.claimed = lot[p].claimed /\ c.created = age
          /\ u.claimed = age /\ u.created = lot[p].created
      BY <2>2 DEF Lot
    <3> HIDE DEF c, u
    <3>4. CASE lot' = [lot EXCEPT ![p] = c] /\ lot[p].created # "buried"
      BY <2>1, <2>2, <2>5, <3>2, <3>3, <3>4, LotChange
    <3>5. CASE lot' = [lot EXCEPT ![p] = u] /\ lot[p].claimed # "no"
      <4>1. u.claimed # "no" /\ (u.state = "open" <=> u.claimed = "no")
        BY <2>2, <2>5, <3>2, <3>3, <3>5
      <4> QED BY <2>1, <2>2, <3>2, <3>3, <3>5, <4>1, LotChange
    <3> QED BY <3>1, <3>4, <3>5
  <2>6. CASE EventExpires(p)
    <3>1. \/ lot' = [lot EXCEPT ![p].created = "old"] /\ lot[p].created # "buried"
          \/ lot' = [lot EXCEPT ![p].claimed = "old"] /\ lot[p].claimed # "no"
      BY <2>6 DEF EventExpires
    <3> QED BY <2>5, <3>1
  <2>7. CASE EventBuried(p)
    <3>1. \/ lot' = [lot EXCEPT ![p].created = "buried"] /\ lot[p].created # "buried"
          \/ lot' = [lot EXCEPT ![p].claimed = "buried"] /\ lot[p].claimed # "no"
      BY <2>7 DEF EventBuried
    <3> QED BY <2>5, <3>1
  <2> QED BY <1>1, <2>3, <2>4, <2>6, <2>7
<1>2. CASE Accumulator
  <2>1. ASSUME NEW d \in Denoms, BuyShells(d) PROVE MarketOK' /\ LotsKept
    BY <2>1, MarketSame DEF BuyShells, MarketOK
  <2>2. ASSUME RedeemNackl PROVE MarketOK' /\ LotsKept
    BY <2>2, MarketSame DEF RedeemNackl, MarketOK
  <2> QED BY <1>1, <1>2, <2>1, <2>2, AcceptOrderMarket DEF Accumulator
<1>3. CASE \E s \in Sellers : Sale(s)
  BY <1>3, MarketSame DEF Sale, SellShells, SellSubmit, SellConfirmed, SellTimesOut, market,
       MarketOK
<1>4. CASE Listing \/ ListError
  BY <1>4, MarketSame DEF Listing, GetMySellOrders, FetchSellerPairs, GetQueueState, TakePage,
       GetDetails, LotMissing, ListReply, ListError, market, MarketOK
<1>5. CASE Auditing
  BY <1>5, MarketSame DEF Auditing, ProbeAccumulator, FetchOrdersBySeller,
       FetchAccumulatorEvents, AuditFails, PrintVerdict, market, MarketOK
<1>6. CASE UNCHANGED vars
  BY <1>6, MarketSame DEF vars, MarketOK
<1> QED BY <1>2, <1>3, <1>4, <1>5, <1>6 DEF Next

LEMMA MarketInit == Init => MarketOK
<1> SUFFICES ASSUME Init PROVE MarketOK
  OBVIOUS
<1>1. job \in Jobs /\ open = Of(Me) /\ redeemed \in BOOLEAN
  BY DEF Init
<1>2. next \in [Denoms -> Nat \ {0}]
  BY MarketAssumption DEF Init
<1>3. /\ lot \in [{p \in Orders : p[2] < next[p[1]]} -> Lot]
      /\ \A p \in DOMAIN lot : lot[p].state = "open" <=> lot[p].claimed = "no"
  BY DEF Init
<1> QED BY <1>1, <1>2, <1>3 DEF MarketOK

-----------------------------------------------------------------------------
(* sell_shells. *)

\* Steps that do not touch the sales and the queue.
LEMMA SaleKept ==
  ASSUME SaleInv, LotsKept, UNCHANGED <<sell, way, next>>
  PROVE  SaleInv'
<1>1. \A s \in Sellers : \A p : p \in Of(s) => p \in Of(s)'
  BY DEF LotsKept, Of
<1>2. ASSUME NEW s \in Sellers PROVE SaleOK(s)'
  BY <1>1 DEF SaleInv, SaleOK
<1> QED BY <1>2 DEF SaleInv

LEMMA SaleStep == MarketOK /\ LotsKept /\ SaleInv /\ [Next]_vars => SaleInv'
<1> SUFFICES ASSUME MarketOK, LotsKept, SaleInv, [Next]_vars PROVE SaleInv'
  OBVIOUS
<1> DEFINE Sales == [pc : {"idle", "read", "poll", "done", "error"}, d : Nat, id : Nat,
                     raced : BOOLEAN]
<1>1. \A s \in Sellers : \A p : p \in Of(s) => p \in Of(s)'
  BY DEF LotsKept, Of
<1>2. sell \in [Sellers -> Sales] /\ \A s \in Sellers : sell[s] \in Sales /\ SaleOK(s)
  BY DEF SaleInv
<1>3. ASSUME NEW s \in Sellers, NEW r \in Sales, sell' = [sell EXCEPT ![s] = r],
             UNCHANGED <<next, lot>>, way \subseteq way', way' \subseteq way \cup {<<s, r.d>>},
             r.d \in Denoms, sell[s].pc # "idle" => r.d = sell[s].d,
             way' # way \/ r.pc # "read" => r.pc \in {"poll", "done", "error"},
             sell[s].pc = "idle" \/ r.pc # "read", SaleOK(s)'
      PROVE  SaleInv'
  <2>1. sell' \in [Sellers -> Sales] /\ sell'[s] = r
        /\ \A t \in Sellers \ {s} : sell'[t] = sell[t]
    BY <1>2, <1>3
  <2>2. way' \subseteq Sellers \X Denoms
    BY <1>3 DEF SaleInv
  <2>3. ASSUME NEW w \in way'
        PROVE  sell'[w[1]].d = w[2] /\ sell'[w[1]].pc \in {"poll", "done", "error"}
    <3>1. CASE w \in way
      <4>1. w[1] \in Sellers /\ sell[w[1]].d = w[2] /\ sell[w[1]].pc \in {"poll", "done", "error"}
        BY <3>1 DEF SaleInv
      <4> QED BY <1>3, <2>1, <4>1
    <3>2. CASE w = <<s, r.d>> /\ w \notin way
      <4>1. way' # way /\ w[1] = s /\ w[2] = r.d
        BY <3>2
      <4> QED BY <1>3, <2>1, <4>1
    <3> QED BY <1>3, <3>1, <3>2
  <2>4. ASSUME NEW t \in Sellers PROVE SaleOK(t)'
    <3>1. CASE t = s
      BY <1>3, <3>1
    <3>2. CASE t # s
      <4>1. sell'[t] = sell[t] /\ \A d : <<t, d>> \in way' <=> <<t, d>> \in way
        BY <1>3, <2>1, <3>2
      <4> QED BY <1>1, <1>2, <1>3, <4>1 DEF SaleOK
    <3> QED BY <3>1, <3>2
  <2> QED BY <2>1, <2>2, <2>3, <2>4 DEF SaleInv
<1>4. ASSUME NEW s \in Sellers, NEW d \in Denoms, SellShells(s, d) PROVE SaleInv'
  <2> DEFINE r == [NoSale EXCEPT !.pc = "read", !.d = d, !.id = NextId(d)]
  <2>1. r \in Sales /\ r.pc = "read" /\ r.d = d /\ r.id = next[d]
    BY MarketAssumption DEF NoSale, NextId, MarketOK
  <2>2. sell' = [sell EXCEPT ![s] = r] /\ UNCHANGED <<next, lot, way>> /\ sell[s].pc = "idle"
    BY <1>4 DEF SellShells, market
  <2> HIDE DEF r
  <2>3. sell'[s] = r
    BY <1>2, <2>2
  <2>4. SaleOK(s)'
    BY <2>1, <2>2, <2>3 DEF SaleOK
  <2> QED BY <1>3, <2>1, <2>2, <2>4
<1>5. ASSUME NEW s \in Sellers, SellSubmit(s) PROVE SaleInv'
  <2> DEFINE a == [sell[s] EXCEPT !.pc = "poll"]
             b == [sell[s] EXCEPT !.pc = "error"]
  <2>1. /\ a \in Sales /\ a.pc = "poll" /\ a.d = sell[s].d /\ a.id = sell[s].id
        /\ a.raced = sell[s].raced
        /\ b \in Sales /\ b.pc = "error" /\ b.d = sell[s].d
    BY <1>2
  <2>2. /\ sell[s].pc = "read" /\ UNCHANGED <<next, lot>>
        /\ \/ sell' = [sell EXCEPT ![s] = a] /\ way' = way \cup {<<s, sell[s].d>>}
           \/ sell' = [sell EXCEPT ![s] = b] /\ way' = way
    BY <1>5 DEF SellSubmit, market
  <2> HIDE DEF a, b
  <2>3. sell[s].d \in Denoms /\ (~sell[s].raced => sell[s].id = next[sell[s].d])
    BY <1>2, <2>2 DEF SaleOK
  <2>4. CASE sell' = [sell EXCEPT ![s] = a] /\ way' = way \cup {<<s, sell[s].d>>}
    <3>1. sell'[s] = a
      BY <1>2, <2>4
    <3>2. SaleOK(s)'
      BY <2>1, <2>2, <2>3, <2>4, <3>1 DEF SaleOK
    <3> QED BY <1>3, <2>1, <2>2, <2>3, <2>4, <3>2
  <2>5. CASE sell' = [sell EXCEPT ![s] = b] /\ way' = way
    <3>1. sell'[s] = b
      BY <1>2, <2>5
    <3>2. SaleOK(s)'
      BY <2>1, <2>2, <2>3, <2>5, <3>1 DEF SaleOK
    <3> QED BY <1>3, <2>1, <2>2, <2>3, <2>5, <3>2
  <2> QED BY <2>2, <2>4, <2>5
<1>6. ASSUME NEW s \in Sellers, SellConfirmed(s) \/ SellTimesOut(s) PROVE SaleInv'
  <2> DEFINE a == [sell[s] EXCEPT !.pc = "done"]
             b == [sell[s] EXCEPT !.pc = "error"]
  <2>1. /\ a \in Sales /\ a.pc = "done" /\ a.d = sell[s].d /\ a.id = sell[s].id
        /\ a.raced = sell[s].raced
        /\ b \in Sales /\ b.pc = "error" /\ b.d = sell[s].d
    BY <1>2
  <2>2. /\ sell[s].pc = "poll" /\ UNCHANGED <<next, lot, way>>
        /\ \/ sell' = [sell EXCEPT ![s] = a] /\ next[sell[s].d] > sell[s].id
           \/ sell' = [sell EXCEPT ![s] = b]
    BY <1>6 DEF SellConfirmed, SellTimesOut, market
  <2> HIDE DEF a, b
  <2>3. /\ sell[s].d \in Denoms /\ sell[s].id \in Nat /\ next[sell[s].d] \in Nat
        /\ ~sell[s].raced => IF <<s, sell[s].d>> \in way THEN sell[s].id = next[sell[s].d]
                             ELSE <<sell[s].d, sell[s].id>> \in Of(s)
    BY <1>2, <2>2 DEF SaleOK, MarketOK
  <2>4. CASE sell' = [sell EXCEPT ![s] = a] /\ next[sell[s].d] > sell[s].id
    <3>1. sell'[s] = a /\ (~sell[s].raced => <<sell[s].d, sell[s].id>> \in Of(s)')
      BY <1>1, <1>2, <2>3, <2>4
    <3>2. SaleOK(s)'
      BY <2>1, <2>2, <2>3, <3>1 DEF SaleOK
    <3> QED BY <1>3, <2>1, <2>2, <2>3, <2>4, <3>2
  <2>5. CASE sell' = [sell EXCEPT ![s] = b]
    <3>1. sell'[s] = b
      BY <1>2, <2>5
    <3>2. SaleOK(s)'
      BY <2>1, <2>2, <2>3, <3>1 DEF SaleOK
    <3> QED BY <1>3, <2>1, <2>2, <2>3, <2>5, <3>2
  <2> QED BY <2>2, <2>4, <2>5
<1>7. ASSUME NEW s \in Sellers, NEW d \in Denoms, AcceptOrder(s, d) PROVE SaleInv'
  <2> DEFINE late(t) == t # s /\ sell[t].d = d /\ sell[t].pc \in {"read", "poll"}
                          /\ (sell[t].pc = "poll" => <<t, d>> \in way)
  <2>1. /\ way' = way \ {<<s, d>>} /\ <<s, d>> \in way
        /\ sell' = [t \in Sellers |->
                      IF late(t) THEN [sell[t] EXCEPT !.raced = TRUE] ELSE sell[t]]
    BY <1>7 DEF AcceptOrder
  <2>2. /\ next' = [next EXCEPT ![d] = @ + 1] /\ <<d, next[d]>> \in Of(s)'
    BY <1>7, AcceptOrderMarket DEF Of
  <2>3. next'[d] = next[d] + 1 /\ \A e \in Denoms \ {d} : next'[e] = next[e]
    BY <2>2 DEF MarketOK
  <2>4. sell[s].d = d /\ sell[s].pc \in {"poll", "done", "error"}
    BY <2>1 DEF SaleInv
  <2>5. \A t \in Sellers : /\ sell'[t] \in Sales /\ sell'[t].pc = sell[t].pc
                           /\ sell'[t].d = sell[t].d /\ sell'[t].id = sell[t].id
                           /\ sell'[t].raced = (sell[t].raced \/ late(t))
    BY <1>2, <2>1
  <2>6. ASSUME NEW t \in Sellers PROVE SaleOK(t)'
    <3>0. SaleOK(t) /\ sell[t] \in Sales
      BY <1>2
    <3>1. CASE t = s
      <4>1. /\ sell'[t].pc = sell[t].pc /\ sell'[t].d = d /\ sell'[t].id = sell[t].id
            /\ sell'[t].raced = sell[t].raced /\ <<t, d>> \notin way'
        <5>1. ~late(t) /\ sell[t].raced \in BOOLEAN
          BY <3>0, <3>1
        <5> HIDE DEF late
        <5> QED BY <2>1, <2>4, <2>5, <3>1, <5>1
      <4> QED BY <1>1, <2>1, <2>2, <2>4, <3>0, <3>1, <4>1 DEF SaleOK
    <3>2. CASE t # s
      <4>1. <<t, sell[t].d>> \in way' <=> <<t, sell[t].d>> \in way
        BY <2>1, <3>2
      <4>2. CASE late(t)
        <5>1. sell'[t].raced /\ sell'[t].pc = sell[t].pc /\ sell'[t].d = d
          BY <2>5, <4>2
        <5> QED BY <4>2, <5>1 DEF SaleOK
      <4>3. CASE ~late(t)
        <5>1. /\ sell'[t].pc = sell[t].pc /\ sell'[t].d = sell[t].d
              /\ sell'[t].id = sell[t].id /\ sell'[t].raced = sell[t].raced
          BY <2>5, <3>0, <4>3
        <5>2. sell[t].pc \in {"read", "poll"} /\ sell[t].d = d
                => sell[t].pc = "poll" /\ <<t, d>> \notin way
          BY <3>2, <4>3
        <5> HIDE DEF late
        <5>3. CASE sell[t].d = d
          BY <1>1, <3>0, <4>1, <5>1, <5>2, <5>3 DEF SaleOK
        <5>4. CASE sell[t].d # d
          BY <1>1, <2>3, <3>0, <4>1, <5>1, <5>4 DEF SaleOK
        <5> QED BY <5>3, <5>4
      <4> QED BY <4>2, <4>3
    <3> QED BY <3>1, <3>2
  <2>7. sell' \in [Sellers -> Sales]
    BY <2>1, <2>5
  <2>8. way' \subseteq way /\ \A w \in way : w[1] \in Sellers
    BY <2>1 DEF SaleInv
  <2> HIDE DEF late
  <2> QED BY <2>5, <2>6, <2>7, <2>8 DEF SaleInv
<1>8. CASE UNCHANGED <<sell, way, next>>
  BY <1>8, SaleKept
<1>9. CASE Accumulator
  <2>1. ASSUME NEW d \in Denoms, BuyShells(d) PROVE SaleInv'
    BY <1>8, <2>1 DEF BuyShells
  <2>2. ASSUME NEW p \in Orders, ClaimUsdc(p) \/ LotDestroyed(p) \/ EventExpires(p)
                              \/ EventBuried(p)
        PROVE  SaleInv'
    BY <1>8, <2>2 DEF ClaimUsdc, LotDestroyed, EventExpires, EventBuried
  <2>3. ASSUME RedeemNackl PROVE SaleInv'
    BY <1>8, <2>3 DEF RedeemNackl
  <2> QED BY <1>7, <1>9, <2>1, <2>2, <2>3 DEF Accumulator
<1>10. CASE Listing \/ ListError
  BY <1>8, <1>10 DEF Listing, GetMySellOrders, FetchSellerPairs, GetQueueState, TakePage,
       GetDetails, LotMissing, ListReply, ListError, market
<1>11. CASE Auditing
  BY <1>8, <1>11 DEF Auditing, ProbeAccumulator, FetchOrdersBySeller,
       FetchAccumulatorEvents, AuditFails, PrintVerdict, market
<1>12. CASE UNCHANGED vars
  BY <1>8, <1>12 DEF vars
<1> QED BY <1>4, <1>5, <1>6, <1>9, <1>10, <1>11, <1>12 DEF Next, Sale

LEMMA SaleInit == Init => SaleInv
<1> SUFFICES ASSUME Init PROVE SaleInv
  OBVIOUS
<1>1. sell = [s \in Sellers |-> NoSale] /\ way = {}
  BY DEF Init
<1> QED BY <1>1 DEF SaleInv, SaleOK, NoSale

LEMMA MarketAlways == Spec => [](MarketOK /\ SaleInv)
<1>1. Init => MarketOK /\ SaleInv
  BY MarketInit, SaleInit
<1>2. MarketOK /\ SaleInv /\ [Next]_vars => (MarketOK /\ SaleInv)'
  BY MarketStep, SaleStep
<1> QED BY <1>1, <1>2, PTL DEF Spec

\* A sale that no other seller's order overtook returns the seller's own
\* order, for every number of sellers, denominations and orders, and however
\* transactions are delayed (sell_shells).
THEOREM SellReturnsOwnOrderAlways == Spec => []SellReturnsOwnOrder
<1>1. SaleInv => SellReturnsOwnOrder
  BY DEF SaleInv, SaleOK, SellReturnsOwnOrder
<1> QED BY <1>1, MarketAlways, PTL

-----------------------------------------------------------------------------
(* audit-sell. *)

LEMMA OfOrders == MarketOK => \A s : Of(s) \subseteq Orders
BY DEF MarketOK, Of

LEMMA AuditStep == MarketOK /\ LotsKept /\ AuditInv /\ [Next]_vars => AuditInv'
<1> SUFFICES ASSUME MarketOK, LotsKept, AuditInv, [Next]_vars PROVE AuditInv'
  OBVIOUS
<1> DEFINE Audits == [pc : {"probe", "orders", "events", "verdict", "done"},
                      src : {"hot", "archive"}, orders : SUBSET Orders,
                      created : SUBSET Orders, claimed : SUBSET Orders, redeemed : BOOLEAN,
                      verdict : {"none", "INCONCLUSIVE", "CLEAN", "orders"}]
<1>1. /\ open' = open /\ open \subseteq Of(Me) /\ audit \in Audits
      /\ \A p \in open : lot[p].created = "buried" => lot'[p].created = "buried"
  BY DEF LotsKept, MarketOK, AuditInv, Of
<1>2. CASE UNCHANGED audit
  BY <1>1, <1>2 DEF AuditInv
<1>3. CASE ProbeAccumulator
  <2>1. audit' = [audit EXCEPT !.pc = "orders", !.src = "hot"] /\ audit.pc = "probe"
    BY <1>3 DEF ProbeAccumulator, AuditNext
  <2> QED BY <1>1, <2>1 DEF AuditInv
<1>4. CASE FetchOrdersBySeller
  <2>1. PICK far : audit' = [audit EXCEPT !.pc = AuditNext(@), !.src = "hot",
                               !.orders = {p \in Of(Me) : /\ lot[p].state # "gone"
                                                          /\ Answers(audit.src, lot[p].created)
                                                               \/ p \in far}]
    BY <1>4 DEF FetchOrdersBySeller
  <2> DEFINE O == {p \in Of(Me) : /\ lot[p].state # "gone"
                                  /\ Answers(audit.src, lot[p].created) \/ p \in far}
  <2>2. audit' = [audit EXCEPT !.pc = "events", !.src = "hot", !.orders = O]
        /\ audit.pc = "orders" /\ O \subseteq Orders
    BY <1>4, <2>1, OfOrders DEF FetchOrdersBySeller, AuditNext
  <2> HIDE DEF O
  <2> QED BY <1>1, <2>2 DEF AuditInv
<1>5. CASE FetchAccumulatorEvents
  <2> DEFINE ev == QueryAccountEvents(audit.src)
             c == ev.created
             u == ev.claimed
             r == ev.redeemed
  <2>1. /\ audit.pc = "events"
        /\ audit' = IF c \cup u = {} /\ ~r /\ audit.src = "hot" /\ HasArchive
                    THEN [audit EXCEPT !.src = "archive"]
                    ELSE [audit EXCEPT !.pc = "verdict", !.created = c, !.claimed = u,
                                       !.redeemed = r]
    BY <1>5 DEF FetchAccumulatorEvents
  <2>2. /\ c \subseteq Orders /\ u \subseteq Orders /\ UNCHANGED lot
        /\ audit.src = "archive" => \A p \in Of(Me) \ c : lot[p].created \notin {"hot", "old"}
    BY <1>5, OfOrders DEF QueryAccountEvents, Pairs, Answers, FetchAccumulatorEvents, market
  <2>3. r \in BOOLEAN
    BY DEF QueryAccountEvents, MarketOK
  <2>4. audit.src = "archive" /\ c = {} => \A p \in open : lot[p].created = "buried"
    BY <1>1, <2>2 DEF MarketOK, Of, Lot
  <2> HIDE DEF c, u, r
  <2>5. CASE c \cup u = {} /\ ~r /\ audit.src = "hot" /\ HasArchive
    BY <1>1, <2>1, <2>5 DEF AuditInv
  <2>6. CASE ~(c \cup u = {} /\ ~r /\ audit.src = "hot" /\ HasArchive)
    <3>1. audit' = [audit EXCEPT !.pc = "verdict", !.created = c, !.claimed = u, !.redeemed = r]
      BY <2>1, <2>6
    <3>2. /\ audit' \in Audits /\ audit'.pc = "verdict" /\ audit'.created = c
          /\ audit'.claimed = u /\ audit'.redeemed = r /\ audit'.src = audit.src
          /\ audit'.verdict = "none"
      BY <1>1, <2>1, <2>2, <2>3, <3>1 DEF AuditInv
    <3>3. HasArchive /\ c = {}
            => (\A p \in open : lot[p].created = "buried") \/ (audit.src = "hot" /\ (u # {} \/ r))
      BY <1>1, <2>4, <2>6
    <3> QED BY <1>1, <2>2, <3>2, <3>3 DEF AuditInv
  <2> QED BY <2>5, <2>6
<1>6. CASE AuditFails
  <2>1. audit.pc # "done" /\ audit.pc # "verdict"
        /\ audit' \in {[audit EXCEPT !.src = "archive"],
                       [audit EXCEPT !.pc = "done", !.verdict = "INCONCLUSIVE"]}
    BY <1>6 DEF AuditFails
  <2> QED BY <1>1, <2>1 DEF AuditInv
<1>7. CASE PrintVerdict
  <2>1. /\ audit.pc = "verdict"
        /\ audit' = [audit EXCEPT !.pc = "done",
                       !.verdict = IF audit.orders = {} /\ audit.created = {}
                                   THEN "CLEAN" ELSE "orders"]
    BY <1>7 DEF PrintVerdict
  <2> QED BY <1>1, <2>1 DEF AuditInv
<1>8. CASE Accumulator
  BY <1>2, <1>8 DEF Accumulator, AcceptOrder, BuyShells, ClaimUsdc, LotDestroyed, EventExpires,
       EventBuried, RedeemNackl
<1>9. CASE \E s \in Sellers : Sale(s)
  BY <1>2, <1>9 DEF Sale, SellShells, SellSubmit, SellConfirmed, SellTimesOut
<1>10. CASE Listing \/ ListError
  BY <1>2, <1>10 DEF Listing, GetMySellOrders, FetchSellerPairs, GetQueueState, TakePage,
       GetDetails, LotMissing, ListReply, ListError
<1>11. CASE UNCHANGED vars
  BY <1>2, <1>11 DEF vars
<1> QED BY <1>3, <1>4, <1>5, <1>6, <1>7, <1>8, <1>9, <1>10, <1>11 DEF Next, Auditing

LEMMA AuditInit == Init => AuditInv
<1> SUFFICES ASSUME Init PROVE AuditInv
  OBVIOUS
<1>1. audit = [NoAudit EXCEPT !.pc = IF job = "audit" THEN "probe" ELSE "done"]
  BY DEF Init
<1> QED BY <1>1 DEF AuditInv, NoAudit

\* With an archive, CLEAN means that no event of the wallet's orders is within
\* the page the audit reads, unless the hot endpoint answered with claims or
\* redeems of the wallet only, whichever queries fail and whatever expires, is
\* buried or destroyed meanwhile (print_verdict, fetch_accumulator_events).
THEOREM CleanAlways == Spec => []CleanUnlessHotHidesArchive
<1>1. Init => AuditInv
  BY AuditInit
<1>2. MarketOK /\ AuditInv /\ [Next]_vars => AuditInv'
  BY MarketStep, AuditStep
<1>3. AuditInv => CleanUnlessHotHidesArchive
  BY DEF AuditInv, CleanUnlessHotHidesArchive
<1> QED BY <1>1, <1>2, <1>3, MarketAlways, PTL DEF Spec

-----------------------------------------------------------------------------
(* get_my_sell_orders. *)

\* Steps of others.
LEMMA ListKept ==
  ASSUME MarketOK, LotsKept, ListInv, UNCHANGED <<list, missing>>
  PROVE  ListInv'
<1>1. open' = open /\ open \subseteq DOMAIN lot
  BY DEF LotsKept, MarketOK, Of
<1>2. ListType' /\ Asked' = Asked
  BY DEF ListInv, ListType, Asked
<1>3. EventsOK'
  <2>1. list.created \subseteq Of(Me)'
    BY DEF ListInv, EventsOK, LotsKept, Of
  <2> QED BY <1>1, <2>1 DEF ListInv, EventsOK, LotsKept
<1>4. ASSUME NEW p \in open \ missing.created, lot'[p].state = "open" PROVE Ahead(p)'
  <2>1. Ahead(p)
    BY <1>1, <1>4 DEF ListInv, LotsKept
  <2> QED BY <1>2, <2>1 DEF Ahead
<1> QED BY <1>1, <1>2, <1>3, <1>4 DEF ListInv

\* Steps of the listing: what is to be shown of the new state.
LEMMA ListMoves ==
  ASSUME UNCHANGED <<lot, open>>, ListType', EventsOK',
         (list.pc = "details" => list.more = (Cardinality(Asked) > PageSize))',
         \A p \in open \ missing'.created : lot[p].state = "open" => Ahead(p)'
  PROVE  ListInv'
BY DEF ListInv

\* A call begins, or ends in an error and is repeated.
LEMMA RestartListed ==
  ASSUME ListInv, UNCHANGED <<lot, open, missing>>,
         \/ GetMySellOrders \/ LotMissing \/ ListError
  PROVE  ListInv'
<1>1. CASE GetMySellOrders
  <2>1. list' = [list EXCEPT !.pc = "created", !.src = "hot", !.dst = "own",
                             !.created = {}, !.claimed = {}, !.page = {}]
    BY <1>1 DEF GetMySellOrders
  <2>2. list'.pc = "created" /\ list'.src = "hot" /\ list'.created = {} /\ list'.claimed = {}
        /\ list'.shown = list.shown /\ list'.cursor = list.cursor
    BY <2>1 DEF ListInv, ListType
  <2>3. ListType'
    BY <2>1 DEF ListInv, ListType
  <2>4. EventsOK'
    BY <2>2 DEF EventsOK
  <2>5. \A p \in open \ missing.created : lot[p].state = "open" => Ahead(p)'
    BY <2>2 DEF ListInv, Ahead
  <2> QED BY <2>2, <2>3, <2>4, <2>5, ListMoves
<1>2. CASE LotMissing \/ ListError
  <2>1. list' = [list EXCEPT !.pc = "idle", !.todo = {}]
    BY <1>2 DEF LotMissing, ListError
  <2>2. list'.pc = "idle" /\ list'.created = list.created /\ list'.claimed = list.claimed
        /\ list'.shown = list.shown /\ list'.cursor = list.cursor
    BY <2>1 DEF ListInv, ListType
  <2>3. ListType'
    BY <2>1 DEF ListInv, ListType
  <2>4. EventsOK'
    BY <2>2 DEF ListInv, EventsOK, Of
  <2>5. \A p \in open \ missing.created : lot[p].state = "open" => Ahead(p)'
    BY <2>2 DEF ListInv, Ahead
  <2> QED BY <2>2, <2>3, <2>4, <2>5, ListMoves
<1> QED BY <1>1, <1>2

\* One query for events.
LEMMA FetchListed ==
  ASSUME MarketOK, ListInv, UNCHANGED <<lot, open>>, FetchSellerPairs
  PROVE  ListInv'
<1> DEFINE kind == list.pc
           dst == IF kind = "claimed" THEN "legacy" ELSE list.dst
           pairs == Pairs(kind, list.src, dst)
           X == Excused(kind, pairs)
<1>1. /\ kind \in {"created", "claimed"}
      /\ list' = IF pairs = {} /\ dst = "own"
                 THEN [list EXCEPT !.dst = "legacy"]
                 ELSE IF ArchiveNext(pairs)
                 THEN [list EXCEPT !.src = "archive", !.dst = "own"]
                 ELSE AfterEvents(kind, pairs)
      /\ missing' = IF list'.pc = kind THEN missing
                    ELSE [missing EXCEPT ![kind] = @ \cup X]
  BY DEF FetchSellerPairs
<1>2. /\ pairs \subseteq Of(Me)
      /\ kind = "claimed" => \A p \in pairs : lot[p].claimed # "no"
      /\ kind = "created" /\ list.src = "archive" =>
           \A p \in Of(Me) : lot[p].dst = dst /\ lot[p].created \in {"hot", "old"} => p \in pairs
  BY DEF Pairs, Answers, Age
<1>3. pairs \subseteq Orders /\ pairs \subseteq DOMAIN lot
  BY <1>2, OfOrders DEF Of
<1>4. open \subseteq Of(Me) /\ \A p \in open : lot[p] \in Lot
  BY DEF MarketOK, Of
<1>4a. /\ X \subseteq Orders
       /\ kind = "created" => \A p \in Of(Me) \ pairs :
            pairs # {} \/ ~HasArchive \/ lot[p].created = "buried" => p \in X
  BY OfOrders DEF Excused, AllPairs, Age, MarketOK, Of, Lot
<1>5. dst = (IF kind = "claimed" THEN "legacy" ELSE list.dst)
  OBVIOUS
<1> HIDE DEF pairs, dst, X
<1>6. /\ missing' \in [created : SUBSET Orders, claimed : SUBSET Orders]
      /\ missing.created \subseteq missing'.created
      /\ kind = "created" /\ list'.pc # kind => X \subseteq missing'.created
  <2>1. missing \in [created : SUBSET Orders, claimed : SUBSET Orders]
    BY DEF ListInv, ListType
  <2>2. CASE list'.pc = kind
    BY <1>1, <2>1, <2>2
  <2>3. CASE list'.pc # kind /\ kind = "created"
    <3>1. missing' = [missing EXCEPT !.created = missing.created \cup X]
      BY <1>1, <2>1, <2>3
    <3> QED BY <1>4a, <2>1, <3>1
  <2>4. CASE list'.pc # kind /\ kind = "claimed"
    <3>1. missing' = [missing EXCEPT !.claimed = missing.claimed \cup X]
      BY <1>1, <2>1, <2>4
    <3> QED BY <1>4a, <2>1, <2>4, <3>1
  <2> QED BY <1>1, <2>2, <2>3, <2>4
<1>7. CASE pairs = {} /\ dst = "own"
  <2>1. list' = [list EXCEPT !.dst = "legacy"] /\ kind = "created"
    BY <1>1, <1>5, <1>7
  <2>2. /\ list'.pc = "created" /\ list'.src = list.src /\ list'.created = list.created
        /\ list'.claimed = list.claimed /\ list'.shown = list.shown
        /\ list'.cursor = list.cursor
    BY <2>1 DEF ListInv, ListType
  <2>3. ListType'
    BY <1>6, <2>1 DEF ListInv, ListType
  <2>4. list'.src = "archive" => \A p \in open : lot[p].dst = "own" => lot[p].created = "buried"
    BY <1>2, <1>4, <1>7, <2>1, <2>2 DEF Lot
  <2>5. EventsOK'
    BY <2>2, <2>4 DEF ListInv, EventsOK, Of
  <2>6. \A p \in open \ missing'.created : lot[p].state = "open" => Ahead(p)'
    BY <1>6, <2>2 DEF ListInv, Ahead
  <2> QED BY <2>2, <2>3, <2>5, <2>6, ListMoves
<1>8. CASE ~(pairs = {} /\ dst = "own") /\ ArchiveNext(pairs)
  <2>1. list' = [list EXCEPT !.src = "archive", !.dst = "own"]
    BY <1>1, <1>8
  <2>2. /\ list'.pc = kind /\ list'.dst = "own" /\ list'.created = list.created
        /\ list'.claimed = list.claimed /\ list'.shown = list.shown
        /\ list'.cursor = list.cursor
    BY <2>1 DEF ListInv, ListType
  <2>3. ListType'
    BY <1>1, <1>6, <2>1 DEF ListInv, ListType
  <2>4. EventsOK'
    BY <2>2 DEF ListInv, EventsOK, Of
  <2>5. \A p \in open \ missing'.created : lot[p].state = "open" => Ahead(p)'
    BY <1>1, <1>6, <2>2 DEF ListInv, Ahead
  <2> QED BY <1>1, <2>2, <2>3, <2>4, <2>5, ListMoves
<1>9. CASE ~(pairs = {} /\ dst = "own") /\ ~ArchiveNext(pairs) /\ kind = "created"
  <2>1. list' = [list EXCEPT !.pc = "claimed", !.src = "hot", !.created = pairs]
    BY <1>1, <1>9 DEF AfterEvents
  <2>2. /\ list'.pc = "claimed" /\ list'.created = pairs /\ list'.claimed = list.claimed
        /\ list'.shown = list.shown /\ list'.cursor = list.cursor
    BY <2>1 DEF ListInv, ListType
  <2>3. ListType'
    BY <1>3, <1>6, <1>9, <2>1 DEF ListInv, ListType
  <2>4. EventsOK'
    BY <1>2, <2>2 DEF ListInv, EventsOK, Of
  <2>5. open \ missing'.created \subseteq pairs
    <3> SUFFICES ASSUME NEW p \in open, p \notin pairs PROVE p \in missing'.created
      OBVIOUS
    <3>1. pairs # {} \/ ~HasArchive => p \in X
      BY <1>4, <1>4a, <1>9
    <3>2. ASSUME pairs = {}, HasArchive PROVE lot[p].created = "buried"
      <4>1. list.src = "archive" /\ dst = "legacy" /\ list.dst = "legacy"
        BY <1>5, <1>9, <3>2 DEF ArchiveNext, ListInv, ListType
      <4>2. lot[p].dst = "own" => lot[p].created = "buried"
        BY <1>9, <4>1 DEF ListInv, EventsOK
      <4>3. lot[p].dst = "legacy" => lot[p].created \notin {"hot", "old"}
        BY <1>2, <1>4, <1>9, <4>1
      <4>4. lot[p].dst \in {"own", "legacy"} /\ lot[p].created \in {"hot", "old", "buried"}
        BY <1>4 DEF Lot
      <4> QED BY <4>2, <4>3, <4>4
    <3>3. p \in X
      BY <1>4, <1>4a, <1>9, <3>1, <3>2
    <3>4. list'.pc # kind
      BY <1>9, <2>2
    <3> QED BY <1>6, <1>9, <3>3, <3>4
  <2>6. \A p \in open \ missing'.created : lot[p].state = "open" => Ahead(p)'
    BY <1>6, <2>2, <2>5 DEF ListInv, Ahead
  <2> QED BY <2>2, <2>3, <2>4, <2>6, ListMoves
<1>10. CASE ~(pairs = {} /\ dst = "own") /\ ~ArchiveNext(pairs) /\ kind = "claimed"
  <2>1. list' = [list EXCEPT !.pc = "queue", !.todo = Denoms, !.claimed = pairs]
    BY <1>1, <1>10 DEF AfterEvents
  <2>2. /\ list'.pc = "queue" /\ list'.created = list.created /\ list'.claimed = pairs
        /\ list'.todo = Denoms /\ list'.shown = list.shown /\ list'.cursor = list.cursor
    BY <2>1 DEF ListInv, ListType
  <2>3. ListType'
    BY <1>3, <1>6, <1>10, <2>1 DEF ListInv, ListType
  <2>4. EventsOK'
    BY <1>2, <1>3, <1>10, <2>2 DEF ListInv, EventsOK, Of
  <2>5. \A p \in open : p[1] \in Denoms
    BY <1>4, OfOrders, OrderPairs
  <2>6. \A p \in open \ missing'.created : lot[p].state = "open" => Ahead(p)'
    BY <1>6, <1>10, <2>2, <2>5 DEF ListInv, Ahead
  <2> QED BY <2>2, <2>3, <2>4, <2>6, ListMoves
<1> QED BY <1>1, <1>7, <1>8, <1>9, <1>10

LEMMA GetQueueStateListed ==
  ASSUME MarketOK, ListInv, UNCHANGED <<lot, open, missing>>, GetQueueState
  PROVE  ListInv'
<1>1. PICK d \in list.todo : list' = [list EXCEPT !.todo = @ \ {d}, !.next[d] = next[d]]
  BY DEF GetQueueState
<1>2. list.pc = "queue" /\ list.page = {} /\ list.next \in [Denoms -> Nat]
  BY DEF GetQueueState, ListInv, ListType
<1> DEFINE nx == [list.next EXCEPT ![d] = next[d]]
<1>3. list' = [list EXCEPT !.todo = list.todo \ {d}, !.next = nx]
  BY <1>1 DEF ListInv, ListType
<1>4. nx \in [Denoms -> Nat] /\ \A e \in Denoms : nx[e] = IF e = d THEN next[d] ELSE list.next[e]
  BY <1>2 DEF MarketOK
<1> HIDE DEF nx
<1>5. /\ list'.pc = "queue" /\ list'.todo = list.todo \ {d} /\ list'.next = nx
      /\ list'.created = list.created /\ list'.claimed = list.claimed
      /\ list'.shown = list.shown /\ list'.cursor = list.cursor
  BY <1>2, <1>3 DEF ListInv, ListType
<1>6. ListType'
  BY <1>2, <1>3, <1>4 DEF ListInv, ListType
<1>7. EventsOK'
  BY <1>5 DEF ListInv, EventsOK, Of
<1>8. ASSUME NEW p \in open \ missing.created, lot[p].state = "open" PROVE Ahead(p)'
  <2>1. Ahead(p)
    BY <1>8 DEF ListInv
  <2>2. p[1] \in Denoms /\ p[2] < next[p[1]]
    BY OrderPairs DEF MarketOK, Of
  <2>3. p[1] \notin list'.todo => p[2] < nx[p[1]]
    BY <1>2, <1>4, <1>5, <2>1, <2>2 DEF Ahead
  <2> QED BY <1>2, <1>5, <2>1, <2>3 DEF Ahead
<1> QED BY <1>5, <1>6, <1>7, <1>8, ListMoves

LEMMA TakePageListed ==
  ASSUME MarketOK, ListInv, UNCHANGED <<lot, open, missing>>, TakePage
  PROVE  ListInv'
<1> DEFINE rest == {p \in Orders : Candidate(p) /\ Before(list.cursor, p)}
           P == PagePairs
<1>1. list.pc = "queue" /\ list.todo = {} /\ list.page = {}
  BY DEF TakePage, ListInv, ListType
<1>2. list' = [list EXCEPT !.pc = "details", !.todo = P, !.more = Cardinality(P) > PageSize]
  BY DEF TakePage
<1>3. PageSize \in Nat
  BY MarketAssumption
<1>4. P = {p \in rest : Cardinality({q \in rest : Before(q, p)}) <= PageSize}
  BY DEF PagePairs
<1>5. P \subseteq rest /\ rest \subseteq Orders /\ rest \subseteq list.created
  BY <1>4 DEF Candidate
<1>6. /\ \A p \in rest \ P : \A q \in P : Before(q, p)
      /\ ~(Cardinality(P) > PageSize) => P = rest
  <2>1. rest \in SUBSET Orders
    BY <1>5
  <2> HIDE DEF rest, P
  <2> DEFINE F == {p \in rest : Cardinality({q \in rest : Before(q, p)}) <= PageSize}
  <2>2. (\A p \in rest \ F : \A q \in F : Before(q, p)) /\ (~(Cardinality(F) > PageSize) => F = rest)
    BY <1>3, <2>1, FirstOnes, Zenon
  <2>3. P = F
    BY <1>4
  <2> HIDE DEF F
  <2> QED BY <2>2, <2>3
<1>7. ASSUME NEW p \in open \ missing.created, lot[p].state = "open", Before(list.cursor, p)
      PROVE  p \in rest
  <2>1. Ahead(p)
    BY <1>7 DEF ListInv
  <2>2. p \in DOMAIN lot /\ p \in Orders /\ lot[p].claimed = "no"
    BY <1>7 DEF MarketOK, Of
  <2>3. 0 < p[2]
    BY <2>2, OrderPairs
  <2>4. p \in list.created /\ p \notin list.claimed /\ p[2] < list.next[p[1]]
    BY <1>1, <2>1, <2>2 DEF Ahead, ListInv, EventsOK
  <2> QED BY <1>7, <2>2, <2>3, <2>4 DEF Candidate
<1> HIDE DEF rest, P
<1>8. /\ list'.pc = "details" /\ list'.todo = P /\ list'.page = {}
      /\ list'.more = (Cardinality(P) > PageSize)
      /\ list'.created = list.created /\ list'.claimed = list.claimed
      /\ list'.shown = list.shown /\ list'.cursor = list.cursor
  BY <1>1, <1>2 DEF ListInv, ListType
<1>9. Asked' = P
  BY <1>8 DEF Asked
<1>10. ListType'
  <2> DEFINE more == Cardinality(P) > PageSize
  <2>1. list' = [list EXCEPT !.pc = "details", !.todo = P, !.more = more] /\ more \in BOOLEAN
    BY <1>2
  <2>2. P \subseteq Denoms \cup Orders /\ P \subseteq list.created
    BY <1>5
  <2> HIDE DEF more
  <2> QED BY <1>1, <2>1, <2>2 DEF ListInv, ListType
<1>11. EventsOK'
  BY <1>8 DEF ListInv, EventsOK, Of
<1>12. ASSUME NEW p \in open \ missing.created, lot[p].state = "open" PROVE Ahead(p)'
  <2>1. Ahead(p)
    BY <1>12 DEF ListInv
  <2>2. Before(list.cursor, p) => p \in P \/ (Cardinality(P) > PageSize /\ \A q \in P : Before(q, p))
    BY <1>6, <1>7, <1>12
  <2> QED BY <1>8, <1>9, <2>1, <2>2 DEF Ahead
<1> QED BY <1>8, <1>9, <1>10, <1>11, <1>12, ListMoves

LEMMA GetDetailsListed ==
  ASSUME MarketOK, ListInv, UNCHANGED <<lot, open, missing>>, GetDetails
  PROVE  ListInv'
<1>1. PICK p \in list.todo :
        list' = [list EXCEPT !.todo = @ \ {p},
                             !.page = IF lot[p].seller = Me THEN @ \cup {p} ELSE @]
  BY DEF GetDetails
<1>2. list.pc = "details" /\ list.todo \subseteq list.created
  BY DEF GetDetails, ListInv, ListType
<1>3. lot[p].seller = Me /\ p \in Orders
  BY <1>2, OfOrders DEF ListInv, EventsOK, Of
<1>4. list' = [list EXCEPT !.todo = list.todo \ {p}, !.page = list.page \cup {p}]
  BY <1>1, <1>3 DEF ListInv, ListType
<1>5. /\ list'.pc = "details" /\ list'.todo = list.todo \ {p} /\ list'.page = list.page \cup {p}
      /\ list'.more = list.more
      /\ list'.created = list.created /\ list'.claimed = list.claimed
      /\ list'.shown = list.shown /\ list'.cursor = list.cursor
  BY <1>2, <1>4 DEF ListInv, ListType
<1>6. Asked' = Asked
  BY <1>5 DEF Asked
<1>7. ListType'
  BY <1>2, <1>3, <1>4 DEF ListInv, ListType
<1>8. EventsOK'
  BY <1>5 DEF ListInv, EventsOK, Of
<1>9. (list.pc = "details" => list.more = (Cardinality(Asked) > PageSize))'
  BY <1>2, <1>5, <1>6 DEF ListInv
<1>10. ASSUME NEW q \in open \ missing.created, lot[q].state = "open" PROVE Ahead(q)'
  <2>1. Ahead(q)
    BY <1>10 DEF ListInv
  <2> QED BY <1>2, <1>5, <1>6, <2>1 DEF Ahead
<1> QED BY <1>7, <1>8, <1>9, <1>10, ListMoves

\* A page is returned: what is not on it comes after its last order.
LEMMA ListReplyListed ==
  ASSUME ListInv, MarketOK, UNCHANGED <<lot, open, missing>>, ListReply
  PROVE  ListInv'
<1> DEFINE page == IF list.more /\ Cardinality(list.page) > PageSize
                   THEN list.page \ {LastOf(list.page)} ELSE list.page
           end == ~list.more \/ page = {}
<1>1. /\ list.pc = "details" /\ list.todo = {}
      /\ list' = [list EXCEPT !.pc = IF end THEN "done" ELSE "idle",
                              !.cursor = IF end THEN @ ELSE LastOf(page),
                              !.shown = @ \cup page, !.page = {}]
  BY DEF ListReply
<1>2. Asked = list.page /\ list.page \subseteq Orders /\ list.more \in BOOLEAN
      /\ list.cursor \in Nat \X Nat
  BY <1>1 DEF Asked, ListInv, ListType
<1>3. list.more = (Cardinality(list.page) > PageSize)
  BY <1>1, <1>2 DEF ListInv
<1>4. ~list.more => page = list.page
  OBVIOUS
<1>5. ASSUME list.more
      PROVE  /\ page # {} /\ LastOf(page) \in page
             /\ \A q \in page : q = LastOf(page) \/ Before(q, LastOf(page))
             /\ LastOf(list.page) \in list.page /\ page = list.page \ {LastOf(list.page)}
             /\ \A q \in page : Before(q, LastOf(list.page))
  <2>1. IsFiniteSet(list.page)
    BY <1>2, OrdersFinite, FS_Subset
  <2>2. PageSize \in Nat /\ PageSize # 0
    BY MarketAssumption
  <2>3. Cardinality(list.page) \in Nat /\ Cardinality(list.page) > 1
    <3>1. Cardinality(list.page) \in Nat
      BY <2>1, FS_CardinalityType
    <3>2. Cardinality(list.page) > PageSize
      BY <1>3, <1>5
    <3> QED BY <2>2, <3>1, <3>2
  <2>4. list.page # {}
    BY <2>3, FS_EmptySet
  <2>5. /\ LastOf(list.page) \in list.page
        /\ \A q \in list.page : q = LastOf(list.page) \/ Before(q, LastOf(list.page))
    BY <1>2, <2>4, LastExists
  <2>6. page = list.page \ {LastOf(list.page)}
    BY <1>3, <1>5
  <2> HIDE DEF page
  <2>7. Cardinality(page) = Cardinality(list.page) - 1
    BY <2>1, <2>5, <2>6, FS_RemoveElement
  <2>8. page # {}
    <3>1. Cardinality(page) # 0 /\ Cardinality({}) = 0
      BY <2>3, <2>7, FS_EmptySet
    <3> QED BY <3>1
  <2>9. page \in SUBSET Orders
    BY <1>2, <2>6
  <2> QED BY <2>5, <2>6, <2>8, <2>9, LastExists
<1>6. page \subseteq list.page
  OBVIOUS
<1> HIDE DEF page
<1>7. end = ~list.more
  BY <1>2, <1>5
<1> HIDE DEF end
<1>8. /\ list'.pc = (IF list.more THEN "idle" ELSE "done")
      /\ list'.cursor = (IF list.more THEN LastOf(page) ELSE list.cursor)
      /\ list'.shown = list.shown \cup page
      /\ list'.created = list.created /\ list'.claimed = list.claimed
  BY <1>1, <1>2, <1>7 DEF ListInv, ListType
<1>9. list'.cursor \in Nat \X Nat
  BY <1>2, <1>5, <1>6, <1>8, OrderPairs
<1>10. ListType'
  BY <1>1, <1>2, <1>6, <1>8, <1>9 DEF ListInv, ListType
<1>11. EventsOK'
  BY <1>2, <1>8 DEF ListInv, EventsOK, Of
<1>12. ASSUME NEW p \in open \ missing.created, lot[p].state = "open" PROVE Ahead(p)'
  <2>1. Ahead(p)
    BY <1>12 DEF ListInv
  <2>2. p \in Nat \X Nat
    BY OfOrders, OrderPairs DEF MarketOK
  <2>3. CASE ~list.more
    <3>1. p \in list.shown \/ p \in list.page
      BY <1>1, <1>2, <2>1, <2>3 DEF Ahead
    <3> QED BY <1>4, <1>8, <2>3, <3>1 DEF Ahead
  <2>4. CASE list.more
    <3> DEFINE l == LastOf(page)
               m == LastOf(list.page)
    <3>1. l \in Nat \X Nat /\ m \in Nat \X Nat /\ Before(l, m)
      BY <1>2, <1>5, <1>6, <2>4, OrderPairs
    <3>2. p \in list.shown \/ p \in list.page \/ \A q \in list.page : Before(q, p)
      BY <1>1, <1>2, <2>1 DEF Ahead
    <3>3. p \in list.page => p \in page \/ p = m
      BY <1>5, <2>4
    <3>4. (\A q \in list.page : Before(q, p)) => Before(l, p)
      BY <1>5, <1>6, <2>4
    <3>5. p \in list'.shown \/ Before(l, p)
      BY <1>8, <3>1, <3>2, <3>3, <3>4
    <3> HIDE DEF l, m
    <3>6. list'.cursor = l /\ list'.pc = "idle"
      BY <1>8, <2>4 DEF l
    <3> QED BY <3>5, <3>6 DEF Ahead
  <2> QED BY <1>2, <2>3, <2>4
<1> QED BY <1>2, <1>8, <1>10, <1>11, <1>12, ListMoves

LEMMA ListStep == MarketOK /\ LotsKept /\ ListInv /\ [Next]_vars => ListInv'
<1> SUFFICES ASSUME MarketOK, LotsKept, ListInv, [Next]_vars PROVE ListInv'
  OBVIOUS
<1>1. CASE UNCHANGED <<list, missing>>
  BY <1>1, ListKept
<1>2. CASE GetMySellOrders \/ LotMissing \/ ListError
  <2>1. UNCHANGED <<lot, open, missing>>
    BY <1>2 DEF GetMySellOrders, LotMissing, ListError, market
  <2> QED BY <1>2, <2>1, RestartListed
<1>3. CASE FetchSellerPairs
  <2>1. UNCHANGED <<lot, open>>
    BY <1>3 DEF FetchSellerPairs, market
  <2> QED BY <1>3, <2>1, FetchListed
<1>4. CASE GetQueueState \/ TakePage \/ GetDetails \/ ListReply
  <2>1. UNCHANGED <<lot, open, missing>>
    BY <1>4 DEF GetQueueState, TakePage, GetDetails, ListReply, market
  <2> QED BY <1>4, <2>1, GetQueueStateListed, TakePageListed, GetDetailsListed, ListReplyListed
<1>5. CASE Accumulator
  BY <1>1, <1>5 DEF Accumulator, AcceptOrder, BuyShells, ClaimUsdc, LotDestroyed, EventExpires,
       EventBuried, RedeemNackl
<1>6. CASE \E s \in Sellers : Sale(s)
  BY <1>1, <1>6 DEF Sale, SellShells, SellSubmit, SellConfirmed, SellTimesOut
<1>7. CASE Auditing
  BY <1>1, <1>7 DEF Auditing, ProbeAccumulator, FetchOrdersBySeller,
       FetchAccumulatorEvents, AuditFails, PrintVerdict
<1>8. CASE UNCHANGED vars
  BY <1>1, <1>8 DEF vars
<1> QED BY <1>2, <1>3, <1>4, <1>5, <1>6, <1>7, <1>8 DEF Next, Listing

LEMMA ListInit == Init => ListInv
<1> SUFFICES ASSUME Init PROVE ListInv
  OBVIOUS
<1>1. list = NoList /\ missing = [created |-> {}, claimed |-> {}]
  BY DEF Init
<1>2. ListType /\ EventsOK
  BY <1>1 DEF ListType, EventsOK, NoList
<1>3. ASSUME NEW p \in open PROVE Before(list.cursor, p)
  <2>1. p \in Nat \X Nat /\ p[1] \in Nat /\ p[2] \in Nat /\ p[2] > 0
    BY MarketInit, OfOrders, OrderPairs DEF MarketOK
  <2>2. list.cursor = <<0, 0>>
    BY <1>1 DEF NoList
  <2> QED BY <2>1, <2>2 DEF Before
<1>4. list.pc = "idle"
  BY <1>1 DEF NoList
<1> QED BY <1>2, <1>3, <1>4 DEF ListInv, Ahead

\* Page after page, the listing loses no order that was open when it began
\* and still is, whatever is sold, claimed or destroyed between the pages and
\* however often a call fails and is repeated, for every page size and number
\* of orders, except the orders whose SellOrderCreated an accepted answer was
\* without: others of the wallet were found first, there is no archive, or the
\* event is further back than a query reads (get_my_sell_orders).
THEOREM OpenOrdersListedAlways == Spec => []OpenOrdersListed
<1>1. Init => ListInv
  BY ListInit
<1>2. MarketOK /\ ListInv /\ [Next]_vars => ListInv'
  BY MarketStep, ListStep
<1>3. ListInv => OpenOrdersListed
  BY DEF ListInv, Ahead, OpenOrdersListed
<1> QED BY <1>1, <1>2, <1>3, MarketAlways, PTL DEF Spec
=============================================================================
