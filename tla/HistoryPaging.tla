---------------------------- MODULE HistoryPaging ----------------------------
(***************************************************************************)
(* Paging through the transaction history of a wallet (bee_wallet,         *)
(* services/transaction/history.rs) by an application that passes the      *)
(* cursors of each page to the next call until has_next_page is false.     *)
(*                                                                         *)
(* A page puts together one page of each of two streams: the messages of   *)
(* the multifactor account ("mf") and, for NACKL, the reward events of the *)
(* mining game ("pg").  Each is read newest first from the hot endpoint    *)
(* and then from the archive.  Meanwhile records are added, copied to the  *)
(* archive and dropped from the hot endpoint.                              *)
(*                                                                         *)
(* The endpoints are outside the repository.  A record is its place in its *)
(* stream, 1 the oldest; a position before which a query reads is such a   *)
(* place, and 0 is no position.                                            *)
(***************************************************************************)
EXTENDS Integers, FiniteSets

CONSTANTS
  Tokens,      \* the kinds of token_id asked for: "nackl", "ecc", "tip3"
  Size,        \* page_size
  MaxAuto,     \* MAX_AUTO_FETCH_PAGES
  HasArchive,  \* an archive client is configured
  MaxLen,      \* bound: records of each stream
  MaxChanges,  \* bound: records added, archived or dropped while paging
  MaxFaults    \* bound: queries that fail

Streams == {"mf", "pg"}
Sources == {"hot", "archive"}

ASSUME HistoryAssumption ==
  /\ Tokens \subseteq {"nackl", "ecc", "tip3"}
  /\ Size \in Nat \ {0} /\ MaxAuto \in Nat \ {0}
  /\ HasArchive \in BOOLEAN
  /\ MaxLen \in [Streams -> Nat] /\ MaxChanges \in Nat /\ MaxFaults \in Nat

VARIABLES
  len,      \* number of records each stream ever had
  pays,     \* the messages that carry the currency asked for
  hotFrom,  \* the oldest record the hot endpoint still holds
  archTo,   \* the newest record the archive holds
  token,    \* token_id
  phase,    \* of the application: "paging", "done"
  cur,      \* the cursors for the next call
  call,     \* the call of get_history under way
  part,     \* what it has fetched of each stream
  shown,    \* records shown so far, by stream and endpoint (history)
  ended,    \* streams whose last page has been returned (history)
  again,    \* one endpoint showed a record of a stream not ended twice (history)
  base,     \* the lengths when paging began (history)
  missed,   \* what went wrong: "archive", "popitgame", "probe" (history)
  changes,  \* steps of the endpoints
  faults    \* queries that failed

chain == <<len, pays, hotFrom, archTo, changes>>
app == <<token, phase, cur, shown, ended, again, base>>
vars == <<len, pays, hotFrom, archTo, token, phase, cur, call, part, shown,
          ended, again, base, missed, changes, faults>>

-----------------------------------------------------------------------------
(* Cursors. *)

\* The string None, a position on the hot endpoint, or "a:" and a position
NoCursor == [src |-> "none", at |-> 0]

\* decode_cursor: no cursor is the newest page of the hot endpoint
DecodeCursor(c) == IF c = NoCursor THEN [src |-> "hot", at |-> 0] ELSE c

\* Mutated form: the position is dropped.
EncodeArchiveCursor_Prefix(at) == [src |-> "archive", at |-> 0]

\* encode_archive_cursor: a prefix, also where there is no position
EncodeArchiveCursor(at) == [src |-> "archive", at |-> at]

\* Mutated form: the position is dropped.
HotCursor_None(at) == NoCursor

\* The start_cursor of a page of the hot endpoint
HotCursor(at) == IF at = 0 THEN NoCursor ELSE [src |-> "hot", at |-> at]

-----------------------------------------------------------------------------
(* The endpoints. *)

Stored(s, src) == IF src = "hot" THEN hotFrom[s] .. len[s] ELSE 1 .. archTo[s]

Change == phase = "paging" /\ changes < MaxChanges /\ changes' = changes + 1

\* A record is made, and it carries the currency or not
NewRecord(s) ==
  /\ Change /\ len[s] < MaxLen[s] /\ (s = "pg" => token = "nackl")
  /\ len' = [len EXCEPT ![s] = @ + 1]
  /\ pays' \in {pays} \cup (IF s = "mf" THEN {pays \cup {len[s] + 1}} ELSE {})
  /\ UNCHANGED <<hotFrom, archTo, app, call, part, missed, faults>>

\* The archive catches up
Archived(s) ==
  /\ Change /\ HasArchive /\ archTo[s] < len[s]
  /\ archTo' = [archTo EXCEPT ![s] = @ + 1]
  /\ UNCHANGED <<len, pays, hotFrom, app, call, part, missed, faults>>

\* A record that is archived leaves the hot endpoint
Expires(s) ==
  /\ Change /\ hotFrom[s] <= archTo[s]
  /\ hotFrom' = [hotFrom EXCEPT ![s] = @ + 1]
  /\ UNCHANGED <<len, pays, archTo, app, call, part, missed, faults>>

\* events(last: n, before: at): the n newest records before a position
Page(s, src, at, n) ==
  LET old == {k \in Stored(s, src) : at = 0 \/ k < at}
  IN  {k \in old : Cardinality({j \in old : j > k}) < n}

\* pageInfo.startCursor
StartCursor(P) == IF P = {} THEN 0 ELSE CHOOSE k \in P : \A j \in P : k <= j

\* pageInfo.hasPreviousPage
HasPreviousPage(s, src, P) ==
  P # {} /\ \E k \in Stored(s, src) : k < StartCursor(P)

-----------------------------------------------------------------------------
(* One query and the loops around it. *)

\* execute_gql_query and its filter by currency
EccQuery(src, at, n) ==
  LET P == Page("mf", src, at, n)
  IN  [msgs |-> P \cap pays, next |-> StartCursor(P),
       more |-> HasPreviousPage("mf", src, P)]

\* execute_mining_events_query: every event is a reward
MiningQuery(src, at, n) ==
  LET P == Page("pg", src, at, n)
  IN  [msgs |-> P, next |-> StartCursor(P),
       more |-> HasPreviousPage("pg", src, P)]

Query(src, n) ==
  IF call.stream = "mf" THEN EccQuery(src, call.at, n)
                        ELSE MiningQuery(src, call.at, n)

\* fetch_ecc_with_auto_pagination: the loop goes on past pages without a match
NextPage(q) ==
  /\ call.stream = "mf" /\ q.msgs = {} /\ q.more
  /\ call.pages + 1 < MaxAuto

Loop(q) == [call EXCEPT !.at = q.next, !.pages = @ + 1]

Nothing == [src |-> "hot", msgs |-> {}, next |-> NoCursor, more |-> FALSE]

Idle == [pc |-> "idle", stream |-> "mf", at |-> 0, pages |-> 0, got |-> {},
         popitgame |-> FALSE]

\* The endpoint the messages at hand are from
Source == IF call.pc = "archive" THEN "archive" ELSE "hot"

\* What the stream gives to the page; the other stream comes next
Finish(msgs, next, more) ==
  /\ part' = [part EXCEPT ![call.stream] =
                [src |-> Source, msgs |-> msgs, next |-> next, more |-> more]]
  /\ call' = IF call.stream = "mf"
             THEN [call EXCEPT !.pc = "open", !.stream = "pg", !.got = {}]
             ELSE [call EXCEPT !.pc = "reply", !.got = {}]

-----------------------------------------------------------------------------
(* get_history. *)

\* get_history for a TIP-3 token: an empty last page
GetTokenTxs ==
  /\ phase = "paging" /\ token = "tip3"
  /\ phase' = "done"
  /\ UNCHANGED <<chain, token, cur, call, part, shown, ended, again, base, missed, faults>>

\* get_ecc_txs: the mining stream is read for NACKL only, and only if the
\* address of the game is found; an error there is taken for "no game"
GetEccTxs ==
  /\ phase = "paging" /\ token # "tip3" /\ call.pc = "idle"
  /\ \E found \in IF token = "nackl" THEN BOOLEAN ELSE {FALSE} :
       LET error == token = "nackl" /\ ~found
       IN  /\ error => faults < MaxFaults
           /\ faults' = IF error THEN faults + 1 ELSE faults
           /\ missed' = IF error THEN missed \cup {"popitgame"} ELSE missed
           /\ call' = [Idle EXCEPT !.pc = "open", !.popitgame = found]
  /\ UNCHANGED <<chain, app, part>>

\* The cursor of a stream tells where to read it; without a game there is no
\* mining stream, whatever its cursor
Open ==
  /\ call.pc = "open"
  /\ IF call.stream = "pg" /\ ~call.popitgame
     THEN Finish({}, NoCursor, FALSE)
     ELSE LET c == DecodeCursor(cur[call.stream])
          IN  /\ call' = [call EXCEPT !.pc = c.src, !.at = c.at, !.pages = 0]
              /\ UNCHANGED part
  /\ UNCHANGED <<chain, app, missed, faults>>

\* The last hot page: an empty one is replaced by the archive's newest page,
\* any other is returned after a look whether the archive holds something.
\* Without an archive an empty page keeps its cursor
HotEnd(q) ==
  IF ~HasArchive
  THEN Finish(q.msgs, IF q.msgs = {} THEN HotCursor(q.next) ELSE NoCursor, FALSE)
  ELSE /\ call' = [call EXCEPT !.pc = IF q.msgs = {} THEN "archive" ELSE "probe",
                               !.at = 0, !.pages = 0, !.got = q.msgs]
       /\ UNCHANGED part

\* One query to the hot endpoint
HotPage ==
  /\ call.pc = "hot"
  /\ LET q == Query("hot", Size)
     IN  CASE NextPage(q) -> call' = Loop(q) /\ UNCHANGED part
           [] ~NextPage(q) /\ q.more -> Finish(q.msgs, HotCursor(q.next), TRUE)
           [] OTHER -> HotEnd(q)
  /\ UNCHANGED <<chain, app, missed, faults>>

\* It fails: the call returns the error, the application calls again
HotError ==
  /\ call.pc = "hot" /\ faults < MaxFaults
  /\ call' = Idle /\ part' = [s \in Streams |-> Nothing] /\ faults' = faults + 1
  /\ UNCHANGED <<chain, app, missed>>

\* One query to the archive
ArchivePage ==
  /\ call.pc = "archive"
  /\ LET q == Query("archive", Size)
     IN  IF NextPage(q) THEN call' = Loop(q) /\ UNCHANGED part
         ELSE Finish(q.msgs, EncodeArchiveCursor(q.next), q.more)
  /\ UNCHANGED <<chain, app, missed, faults>>

\* archive_ecc_has_data, archive_mining_has_data: queries of one record
ProbePage ==
  /\ call.pc = "probe"
  /\ LET q == Query("archive", 1)
     IN  IF NextPage(q)
         THEN call' = Loop(q) /\ UNCHANGED <<part, missed>>
         ELSE /\ IF q.msgs # {} THEN Finish(call.got, EncodeArchiveCursor(0), TRUE)
                                ELSE Finish(call.got, NoCursor, FALSE)
              /\ missed' = IF q.msgs = {} /\ q.more THEN missed \cup {"probe"}
                                                    ELSE missed
  /\ UNCHANGED <<chain, app, faults>>

\* archive_call_or_empty: an error or a timeout
ArchiveError ==
  /\ call.pc \in {"archive", "probe"} /\ faults < MaxFaults
  /\ IF call.pc = "archive" THEN Finish({}, EncodeArchiveCursor(0), FALSE)
                            ELSE Finish(call.got, NoCursor, FALSE)
  /\ faults' = faults + 1 /\ missed' = missed \cup {"archive"}
  /\ UNCHANGED <<chain, app>>

\* Mutated form: only the messages decide whether there is another page.
MorePages_Mf == part["mf"].more

\* has_next_page
MorePages == \E s \in Streams : part[s].more

\* The page is put together and returned; the application goes on with its
\* cursors or ends.  seen_ids lives for this one call, in which a stream is
\* read from one endpoint and its records are distinct.
Reply ==
  /\ call.pc = "reply"
  /\ shown' = [s \in Streams |-> [shown[s] EXCEPT ![part[s].src] = @ \cup part[s].msgs]]
  /\ ended' = ended \cup {s \in Streams : ~part[s].more}
  /\ again' = (again \/ \E s \in Streams \ ended :
                           part[s].msgs \cap shown[s][part[s].src] # {})
  /\ phase' = IF MorePages THEN "paging" ELSE "done"
  /\ cur' = [s \in Streams |-> part[s].next]
  /\ call' = Idle /\ part' = [s \in Streams |-> Nothing]
  /\ UNCHANGED <<chain, token, base, missed, faults>>

-----------------------------------------------------------------------------
UpTo == IF MaxLen["mf"] < MaxLen["pg"] THEN MaxLen["pg"] ELSE MaxLen["mf"]

\* The application opens the history of a token
Init ==
  /\ token \in Tokens /\ phase = "paging"
  /\ len \in {l \in [Streams -> 0 .. UpTo] :
               /\ \A s \in Streams : l[s] <= MaxLen[s]
               /\ token # "nackl" => l["pg"] = 0}
  /\ pays \in SUBSET (1 .. len["mf"])
  /\ archTo \in {a \in [Streams -> 0 .. UpTo] :
                  \A s \in Streams : a[s] <= IF HasArchive THEN len[s] ELSE 0}
  /\ hotFrom \in {h \in [Streams -> 1 .. UpTo + 1] :
                   \A s \in Streams : h[s] <= archTo[s] + 1}
  /\ cur = [s \in Streams |-> NoCursor]
  /\ call = Idle /\ part = [s \in Streams |-> Nothing]
  /\ shown = [s \in Streams |-> [src \in Sources |-> {}]]
  /\ ended = {} /\ again = FALSE /\ base = len
  /\ missed = {} /\ changes = 0 /\ faults = 0

Endpoints == \E s \in Streams : NewRecord(s) \/ Archived(s) \/ Expires(s)

GetHistory ==
  \/ GetTokenTxs \/ GetEccTxs \/ Open
  \/ HotPage \/ HotError \/ ArchivePage \/ ProbePage \/ ArchiveError
  \/ Reply

Next == GetHistory \/ Endpoints

Spec == Init /\ [][Next]_vars

\* Every query returns or fails, and the application goes on
FairSpec == Spec /\ WF_vars(GetHistory)

-----------------------------------------------------------------------------
(* Properties. *)

Wanted(s) == IF s = "mf" THEN 1 .. base["mf"] \cap pays
             ELSE IF token = "nackl" THEN 1 .. base["pg"] ELSE {}

\* Paging that ends has shown every record of the currency that existed when
\* it began, wherever the record was moved to meanwhile, unless a call to the
\* archive or the look-up of the game failed, or the look into the archive
\* stopped after MAX_AUTO_FETCH_PAGES records of other currencies.
NothingSkipped ==
  phase = "done" /\ token # "tip3" /\ missed = {}
    => \A s \in Streams : \A k \in Wanted(s) : \E src \in Sources : k \in shown[s][src]

\* Until the last page of a stream has been returned, no endpoint shows a
\* record of it twice, whatever moves between the pages; and only for NACKL
\* does paging go on after that.  So a record is repeated in two cases: both
\* endpoints hold it ("Deduplicates messages by id when hot/archive overlap"
\* is true of one call only), or its stream ended before the other and its
\* cursor None is, as an input, the first page.
OncePerEndpoint ==
  /\ ~again
  /\ token # "nackl" /\ phase = "paging" => "mf" \notin ended

\* The history of a currency without mining rewards has a last page, also
\* while records are added.
PagingEnds == (phase = "paging" /\ token # "nackl") ~> (phase = "done")
=============================================================================
