----------------------------- MODULE ShellMarket -----------------------------
(***************************************************************************)
(* Selling shells through the accumulator (bee_wallet, services/tokens):   *)
(* sell_shells and claim_usdc of several wallets, the listing of one       *)
(* wallet's orders by get_my_sell_orders, page by page, and the audit of   *)
(* the same orders by the tool wallet_info.                                *)
(*                                                                         *)
(* The accumulator and the lots are contracts outside the repository, the  *)
(* endpoints are too.  They are modelled from what this code reads: a      *)
(* queue of orders per denomination with next_id and sold_prefix, a lot    *)
(* per order, and events that leave the hot endpoint after a while but     *)
(* stay in the archive.  A query reads the newest events of a channel      *)
(* only: get_my_sell_orders up to MAX_EVENT_PAGES pages of those sent to   *)
(* one address, the audit one page of all of the accumulator's.  An event  *)
(* with more newer ones before it is "buried": no endpoint answers it.     *)
(***************************************************************************)
EXTENDS Integers, FiniteSets

CONSTANTS
  Denoms,      \* VALID_DENOMS
  Sellers,     \* wallets
  Me,          \* the one that lists and audits its orders
  Jobs,        \* what it does: "list", "audit", or neither, "sell"
  Selling,     \* who sells meanwhile
  PageSize,    \* page_size
  HasArchive,  \* an archive client is configured
  MaxId,       \* bound: orders of a denomination
  MaxChanges,  \* bound: orders bought or claimed, redeems, lots and events that go
  MaxFaults    \* bound: queries of a job that fail

ASSUME MarketAssumption ==
  /\ Denoms \subseteq Nat /\ IsFiniteSet(Denoms) /\ Me \in Sellers
  /\ Jobs \subseteq {"list", "audit", "sell"}
  /\ Selling \in [Jobs -> SUBSET Sellers]
  /\ PageSize \in Nat \ {0} /\ HasArchive \in BOOLEAN
  /\ MaxId \in Nat /\ MaxChanges \in Nat /\ MaxFaults \in [Jobs -> Nat]

VARIABLES
  next,     \* next_id of each queue
  sold,     \* sold_prefix of each queue
  lot,      \* the lots of the orders made so far
  redeemed, \* the hot endpoint answers a NacklRedeemed of Me
  sell,     \* sell_shells of each seller
  way,      \* its transactions that have not reached the accumulator
  job, list, audit,
  open,     \* Me's orders when the job began (history)
  missing,  \* orders whose event a listing's answer did not have (history)
  changes,  \* steps of the contracts and endpoints
  faults    \* queries that failed

market == <<next, sold, lot, redeemed, changes>>
vars == <<next, sold, lot, redeemed, sell, way, job, list, audit, open, missing,
          changes, faults>>

Orders == Denoms \X (1 .. MaxId)

\* Of a lot: its seller, the external address SellOrderCreated was sent to
\* (the seller's own or, from an older contract, the common one), whether the
\* events are still on the hot endpoint, only in the archive or buried, and its
\* state
Lot == [seller : Sellers, dst : {"own", "legacy"}, created : {"hot", "old", "buried"},
        claimed : {"no", "hot", "old", "buried"}, state : {"open", "claimed", "gone"}]

Of(s) == {p \in DOMAIN lot : lot[p].seller = s}

\* Of the orders of a denomination the later ones are not of the older contract
\* and their SellOrderCreated goes no sooner; UsdcClaimed goes no sooner than
\* SellOrderCreated.  The audit reads all addresses as one channel; one address
\* of Me's own is full of Me's own orders.
InOrder(l) ==
  /\ \A p, q \in DOMAIN l :
       p[1] = q[1] /\ p[2] < q[2] =>
         /\ l[q].dst = "legacy" => l[p].dst = "legacy"
         /\ l[q].created = "old" => l[p].created # "hot"
         /\ l[q].created = "buried" /\ (job = "audit" \/ l[p].dst = l[q].dst)
              => l[p].created = "buried"
  /\ \A p \in DOMAIN l :
       /\ l[p].claimed = "old" => l[p].created # "hot"
       /\ job = "audit" /\ l[p].claimed = "buried" => l[p].created = "buried"
       /\ job # "audit" /\ l[p].dst = "own" /\ l[p].created = "buried"
            => \E q \in DOMAIN l : /\ l[q].seller = l[p].seller /\ l[q].dst = "own"
                                   /\ l[q].created # "buried"

-----------------------------------------------------------------------------
(* The accumulator. *)

\* A transaction of sell_shells arrives and becomes an order
AcceptOrder(s, d) ==
  /\ <<s, d>> \in way /\ next[d] <= MaxId
  /\ way' = way \ {<<s, d>>}
  /\ LET p == <<d, next[d]>>
     IN  lot' = [q \in DOMAIN lot \cup {p} |->
                  IF q = p THEN [seller |-> s, dst |-> "own", created |-> "hot",
                                 claimed |-> "no", state |-> "open"] ELSE lot[q]]
  /\ next' = [next EXCEPT ![d] = @ + 1]
  /\ sell' = [t \in Sellers |->
               IF t # s /\ sell[t].d = d /\ sell[t].pc \in {"read", "poll"}
                        /\ (sell[t].pc = "poll" => <<t, d>> \in way)
               THEN [sell[t] EXCEPT !.raced = TRUE] ELSE sell[t]]
  /\ UNCHANGED <<sold, redeemed, changes, job, list, audit, open, missing, faults>>

Change == changes < MaxChanges /\ changes' = changes + 1

\* buy_shells of anybody takes the first order that is not sold
BuyShells(d) ==
  /\ Change /\ sold[d] + 1 < next[d]
  /\ sold' = [sold EXCEPT ![d] = @ + 1]
  /\ UNCHANGED <<next, lot, redeemed, sell, way, job, list, audit, open, missing, faults>>

\* claim_usdc: the lot of a sold order pays, and UsdcClaimed is emitted
ClaimUsdc(p) ==
  /\ Change /\ p \in DOMAIN lot /\ lot[p].state = "open" /\ p[2] <= sold[p[1]]
  /\ lot' = [lot EXCEPT ![p].state = "claimed", ![p].claimed = "hot"]
  /\ UNCHANGED <<next, sold, redeemed, sell, way, job, list, audit, open, missing, faults>>

\* A claimed lot destroys itself
LotDestroyed(p) ==
  /\ Change /\ p \in DOMAIN lot /\ lot[p].state = "claimed"
  /\ lot' = [lot EXCEPT ![p].state = "gone"]
  /\ UNCHANGED <<next, sold, redeemed, sell, way, job, list, audit, open, missing, faults>>

\* An event leaves the hot endpoint
EventExpires(p) ==
  /\ Change /\ p \in DOMAIN lot
  /\ \/ lot[p].created = "hot" /\ lot' = [lot EXCEPT ![p].created = "old"]
     \/ lot[p].claimed = "hot" /\ lot' = [lot EXCEPT ![p].claimed = "old"]
  /\ InOrder(lot')
  /\ UNCHANGED <<next, sold, redeemed, sell, way, job, list, audit, open, missing, faults>>

\* Newer events of its channel, of anybody, bury one
EventBuried(p) ==
  /\ Change /\ p \in DOMAIN lot
  /\ \/ lot[p].created # "buried" /\ lot' = [lot EXCEPT ![p].created = "buried"]
     \/ lot[p].claimed \in {"hot", "old"} /\ lot' = [lot EXCEPT ![p].claimed = "buried"]
  /\ InOrder(lot')
  /\ UNCHANGED <<next, sold, redeemed, sell, way, job, list, audit, open, missing, faults>>

\* Me redeems NACKL, or its last NacklRedeemed leaves the hot endpoint or is
\* buried; only the audit reads these events
RedeemNackl ==
  /\ Change /\ job = "audit"
  /\ redeemed' = ~redeemed
  /\ UNCHANGED <<next, sold, lot, sell, way, job, list, audit, open, missing, faults>>

\* Where the event of an order is
Age(kind, p) == IF kind = "created" THEN lot[p].created ELSE lot[p].claimed

\* An endpoint answers an event
Answers(src, age) == age = "hot" \/ (src = "archive" /\ age = "old")

\* The seller's created or claimed orders that an endpoint answers
Pairs(kind, src, dst) ==
  {p \in Of(Me) : /\ Answers(src, Age(kind, p))
                  /\ kind = "created" => lot[p].dst = dst}

\* All of them
AllPairs(kind) == {p \in Of(Me) : Age(kind, p) # "no"}

-----------------------------------------------------------------------------
(* sell_shells. *)

NoSale == [pc |-> "idle", d |-> 0, id |-> 0, raced |-> FALSE]

\* Mutated form: the id is taken for the last order's.
NextId_Last(d) == next[d] - 1

\* The id the next order will get
NextId(d) == next[d]

\* next_id is remembered before the transaction is sent
SellShells(s, d) ==
  /\ sell[s].pc = "idle" /\ s \in Selling[job]
  /\ sell' = [sell EXCEPT ![s] = [NoSale EXCEPT !.pc = "read", !.d = d,
                                                !.id = NextId(d)]]
  /\ UNCHANGED <<market, way, job, list, audit, open, missing, faults>>

\* submit_transaction: the accumulator will get it, or it is aborted
SellSubmit(s) ==
  /\ sell[s].pc = "read"
  /\ \/ /\ sell' = [sell EXCEPT ![s].pc = "poll"]
        /\ way' = way \cup {<<s, sell[s].d>>}
     \/ /\ sell' = [sell EXCEPT ![s].pc = "error"]
        /\ UNCHANGED way
  /\ UNCHANGED <<market, job, list, audit, open, missing, faults>>

\* Polling sees next_id grow, and the id is returned
SellConfirmed(s) ==
  /\ sell[s].pc = "poll" /\ next[sell[s].d] > sell[s].id
  /\ sell' = [sell EXCEPT ![s].pc = "done"]
  /\ UNCHANGED <<market, way, job, list, audit, open, missing, faults>>

\* It does not within 30 attempts
SellTimesOut(s) ==
  /\ sell[s].pc = "poll" /\ next[sell[s].d] <= sell[s].id
  /\ sell' = [sell EXCEPT ![s].pc = "error"]
  /\ UNCHANGED <<market, way, job, list, audit, open, missing, faults>>

-----------------------------------------------------------------------------
(* get_my_sell_orders, called for page after page. *)

NoList == [pc |-> "idle", src |-> "hot", dst |-> "own", created |-> {},
           claimed |-> {}, todo |-> {}, next |-> [d \in Denoms |-> 0],
           page |-> {}, cursor |-> <<0, 0>>, shown |-> {},
           more |-> FALSE]

Before(p, q) == p[1] < q[1] \/ (p[1] = q[1] /\ p[2] < q[2])

\* A call begins; the first cursor is None
GetMySellOrders ==
  /\ job = "list" /\ list.pc = "idle"
  /\ list' = [list EXCEPT !.pc = "created", !.src = "hot", !.dst = "own",
                          !.created = {}, !.claimed = {}, !.page = {}]
  /\ UNCHANGED <<market, sell, way, job, audit, open, missing, faults>>

\* What follows the events of one kind
AfterEvents(kind, pairs) ==
  IF kind = "created"
  THEN [list EXCEPT !.pc = "claimed", !.src = "hot", !.created = pairs]
  ELSE [list EXCEPT !.pc = "queue", !.todo = Denoms, !.claimed = pairs]

\* Mutated form: the archive is not asked.
ArchiveNext_Never(pairs) == FALSE

\* The archive is asked if the hot endpoint has nothing
ArchiveNext(pairs) == pairs = {} /\ list.src = "hot" /\ HasArchive

\* The orders an accepted answer is without: it has others, there is no archive
\* to ask, or theirs are buried
Excused(kind, pairs) ==
  {p \in AllPairs(kind) \ pairs :
    pairs # {} \/ ~HasArchive \/ Age(kind, p) = "buried"}

\* One query for events: the seller's own address, then the common one, on the
\* hot endpoint and then in the archive, as long as nothing is found
FetchSellerPairs ==
  /\ list.pc \in {"created", "claimed"}
  /\ LET kind == list.pc
         dst == IF kind = "claimed" THEN "legacy" ELSE list.dst
         pairs == Pairs(kind, list.src, dst)
     IN  /\ list' = IF pairs = {} /\ dst = "own"
                    THEN [list EXCEPT !.dst = "legacy"]
                    ELSE IF ArchiveNext(pairs)
                    THEN [list EXCEPT !.src = "archive", !.dst = "own"]
                    ELSE AfterEvents(kind, pairs)
         /\ missing' = IF list'.pc = kind THEN missing
                       ELSE [missing EXCEPT ![kind] = @ \cup Excused(kind, pairs)]
  /\ UNCHANGED <<market, sell, way, job, audit, open, faults>>

\* Mutated form: claimed orders stay.
Candidate_Claimed(p) == p \in list.created /\ p[2] < list.next[p[1]]

\* Neither claimed nor outside the queue
Candidate(p) ==
  /\ p \in list.created \ list.claimed
  /\ 0 < p[2] /\ p[2] < list.next[p[1]]

\* The first page_size + 1 candidates after the cursor
PagePairs ==
  LET rest == {p \in Orders : Candidate(p) /\ Before(list.cursor, p)}
  IN  {p \in rest : Cardinality({q \in rest : Before(q, p)}) <= PageSize}

\* get_queue_state of one denomination
GetQueueState ==
  /\ list.pc = "queue" /\ list.todo # {}
  /\ \E d \in list.todo :
       list' = [list EXCEPT !.todo = @ \ {d}, !.next[d] = next[d]]
  /\ UNCHANGED <<market, sell, way, job, audit, open, missing, faults>>

\* The details of the page's lots are asked for
TakePage ==
  /\ list.pc = "queue" /\ list.todo = {}
  /\ list' = [list EXCEPT !.pc = "details", !.todo = PagePairs,
                          !.more = Cardinality(PagePairs) > PageSize]
  /\ UNCHANGED <<market, sell, way, job, audit, open, missing, faults>>

\* One lot answers
GetDetails ==
  /\ list.pc = "details"
  /\ \E p \in list.todo :
       /\ lot[p].state # "gone"
       /\ list' = [list EXCEPT !.todo = @ \ {p},
                               !.page = IF lot[p].seller = Me THEN @ \cup {p} ELSE @]
  /\ UNCHANGED <<market, sell, way, job, audit, open, missing, faults>>

\* A lot is gone: the call returns the error, the application calls again
LotMissing ==
  /\ list.pc = "details"
  /\ \E p \in list.todo : lot[p].state = "gone"
  /\ list' = [list EXCEPT !.pc = "idle", !.todo = {}]
  /\ UNCHANGED <<market, sell, way, job, audit, open, missing, faults>>

\* A query fails three times, with the same effect
ListError ==
  /\ list.pc \in {"created", "claimed", "queue", "details"} /\ faults < MaxFaults[job]
  /\ list' = [list EXCEPT !.pc = "idle", !.todo = {}]
  /\ faults' = faults + 1
  /\ UNCHANGED <<market, sell, way, job, audit, open, missing>>

\* The last order of a page
LastOf(P) == CHOOSE p \in P : \A q \in P : q = p \/ Before(q, p)

\* The page is returned, cut to page_size; its last order is the next cursor
ListReply ==
  /\ list.pc = "details" /\ list.todo = {}
  /\ LET page == IF list.more /\ Cardinality(list.page) > PageSize
                 THEN list.page \ {LastOf(list.page)} ELSE list.page
         end == ~list.more \/ page = {}
     IN  list' = [list EXCEPT !.pc = IF end THEN "done" ELSE "idle",
                              !.cursor = IF end THEN @ ELSE LastOf(page),
                              !.shown = @ \cup page,
                              !.page = {}]
  /\ UNCHANGED <<market, sell, way, job, audit, open, missing, faults>>

-----------------------------------------------------------------------------
(* wallet_info, audit-sell. *)

NoAudit == [pc |-> "probe", src |-> "hot", orders |-> {}, created |-> {},
            claimed |-> {}, redeemed |-> FALSE, verdict |-> "none"]

\* What comes after a query that was answered
AuditNext(pc) == CASE pc = "probe" -> "orders" [] pc = "orders" -> "events"
                   [] pc = "events" -> "verdict"

\* probe_accumulator
ProbeAccumulator ==
  /\ audit.pc = "probe"
  /\ audit' = [audit EXCEPT !.pc = AuditNext(@), !.src = "hot"]
  /\ UNCHANGED <<market, sell, way, job, list, open, missing, faults>>

\* fetch_orders_by_seller: the kit lists the orders whose creation the endpoint
\* still has an event of and whose lot answers; how far back it reads is its own
FetchOrdersBySeller ==
  /\ audit.pc = "orders"
  /\ \E far \in SUBSET {p \in Of(Me) : lot[p].created = "buried"} :
       audit' = [audit EXCEPT !.pc = AuditNext(@), !.src = "hot",
                   !.orders = {p \in Of(Me) : /\ lot[p].state # "gone"
                                              /\ Answers(audit.src, lot[p].created)
                                                   \/ p \in far}]
  /\ UNCHANGED <<market, sell, way, job, list, open, missing, faults>>

\* lenient_query_account_events and event_concerns_seller: no account and no
\* events are the same answer
QueryAccountEvents(src) ==
  [created |-> {p \in Of(Me) : Answers(src, lot[p].created)},
   claimed |-> Pairs("claimed", src, "legacy"),
   redeemed |-> src = "hot" /\ redeemed]

\* fetch_accumulator_events: nothing on the hot endpoint proves nothing
FetchAccumulatorEvents ==
  /\ audit.pc = "events"
  /\ LET ev == QueryAccountEvents(audit.src)
         empty == ev.created \cup ev.claimed = {} /\ ~ev.redeemed
     IN  audit' = IF empty /\ audit.src = "hot" /\ HasArchive
                  THEN [audit EXCEPT !.src = "archive"]
                  ELSE [audit EXCEPT !.pc = "verdict", !.created = ev.created,
                                     !.claimed = ev.claimed, !.redeemed = ev.redeemed]
  /\ UNCHANGED <<market, sell, way, job, list, open, missing, faults>>

\* Mutated form: what cannot be reached is taken for empty.
AuditFails_Empty ==
  /\ audit.pc \in {"probe", "orders", "events"} /\ faults < MaxFaults[job]
  /\ faults' = faults + 1
  /\ audit' = [audit EXCEPT !.pc = AuditNext(@), !.src = "hot"]
  /\ UNCHANGED <<market, sell, way, job, list, open, missing>>

\* A query fails after its retries: the archive is asked; when that fails, the
\* audit is inconclusive
AuditFails ==
  /\ audit.pc \in {"probe", "orders", "events"} /\ faults < MaxFaults[job]
  /\ faults' = faults + 1
  /\ audit' = IF audit.src = "hot" /\ HasArchive THEN [audit EXCEPT !.src = "archive"]
              ELSE [audit EXCEPT !.pc = "done", !.verdict = "INCONCLUSIVE"]
  /\ UNCHANGED <<market, sell, way, job, list, open, missing>>

\* print_verdict
PrintVerdict ==
  /\ audit.pc = "verdict"
  /\ audit' = [audit EXCEPT !.pc = "done",
                 !.verdict = IF audit.orders = {} /\ audit.created = {}
                             THEN "CLEAN" ELSE "orders"]
  /\ UNCHANGED <<market, sell, way, job, list, open, missing, faults>>

-----------------------------------------------------------------------------
\* Before a listing or an audit Me has made orders, with the older contract or
\* this one, and some of them are sold and claimed
Init ==
  /\ job \in Jobs
  /\ next \in [Denoms -> IF job = "sell" THEN {1} ELSE 1 .. (MaxId + 1)]
  /\ sold \in [Denoms -> 0 .. MaxId] /\ \A d \in Denoms : sold[d] < next[d]
  /\ lot \in {l \in [{p \in Orders : p[2] < next[p[1]]} -> Lot] :
               \A p \in DOMAIN l :
                 /\ l[p].seller = Me
                 /\ l[p].created = "hot" => l[p].dst = "own"
                 /\ (l[p].claimed = "no") <=> (l[p].state = "open")
                 /\ l[p].claimed # "no" => p[2] <= sold[p[1]]
                 /\ l[p].claimed \in {"old", "buried"} => l[p].state = "gone"}
  /\ InOrder(lot)
  /\ redeemed \in IF job = "audit" THEN BOOLEAN ELSE {FALSE}
  /\ sell = [s \in Sellers |-> NoSale] /\ way = {}
  /\ list = NoList
  /\ audit = [NoAudit EXCEPT !.pc = IF job = "audit" THEN "probe" ELSE "done"]
  /\ open = Of(Me)
  /\ missing = [created |-> {}, claimed |-> {}] /\ changes = 0 /\ faults = 0

Accumulator ==
  \/ \E s \in Sellers, d \in Denoms : AcceptOrder(s, d)
  \/ \E d \in Denoms : BuyShells(d)
  \/ \E p \in Orders : ClaimUsdc(p) \/ LotDestroyed(p) \/ EventExpires(p) \/ EventBuried(p)
  \/ RedeemNackl

Sale(s) ==
  \/ \E d \in Denoms : SellShells(s, d)
  \/ SellSubmit(s) \/ SellConfirmed(s) \/ SellTimesOut(s)

Listing ==
  \/ GetMySellOrders \/ FetchSellerPairs \/ GetQueueState \/ TakePage
  \/ GetDetails \/ LotMissing \/ ListReply

Auditing ==
  \/ ProbeAccumulator \/ FetchOrdersBySeller \/ FetchAccumulatorEvents
  \/ AuditFails \/ PrintVerdict

Next ==
  \/ Accumulator \/ (\E s \in Sellers : Sale(s))
  \/ Listing \/ ListError \/ Auditing

Spec == Init /\ [][Next]_vars

\* Queries return or fail; the application goes on with the listing
FairSpec == Spec /\ WF_vars(Listing) /\ WF_vars(Auditing)

-----------------------------------------------------------------------------
(* Properties. *)

\* The order_id that sell_shells returns is an order of the seller, unless
\* another seller's order of the denomination was accepted between the moment
\* next_id was read and the moment the seller's own was.
SellReturnsOwnOrder ==
  \A s \in Sellers :
    sell[s].pc = "done" /\ ~sell[s].raced => <<sell[s].d, sell[s].id>> \in Of(s)

\* Every order that was open when the listing began and still is has been
\* listed when the listing ends, unless the answer of some call was without its
\* SellOrderCreated because the wallet has newer ones on the hot endpoint or at
\* its own address, there is no archive, or more newer events than are read are
\* before it.  What is lost so of one order excuses no other.
OpenOrdersListed ==
  list.pc = "done"
    => \A p \in open : lot[p].state = "open" => p \in list.shown \cup missing.created

\* The listing ends: a lot that is claimed and destroyed under way fails one
\* call, not every later one, unless an answer was without an order's
\* UsdcClaimed for one of those reasons; the calls then fail again and again.
ListingEnds == (job = "list") ~> (list.pc = "done" \/ missing.claimed # {})

\* With an archive, an audit says CLEAN only if the SellOrderCreated of all of
\* the wallet's orders are buried, unless the hot endpoint answered with claims
\* or redeems only and the archive was not asked.
CleanUnlessHotHidesArchive ==
  HasArchive /\ audit.verdict = "CLEAN"
    => \/ \A p \in open : lot[p].created = "buried"
       \/ audit.src = "hot" /\ (audit.claimed # {} \/ audit.redeemed)
=============================================================================
