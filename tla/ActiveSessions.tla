--------------------------- MODULE ActiveSessions ---------------------------
(***************************************************************************)
(* Listing the active connect sessions of a wallet (bee_connect,           *)
(* ConnectClient::query_active_sessions_by_multifactor).                   *)
(*                                                                         *)
(* The auth service root keeps a log of AuthProfileDeployed events.  One   *)
(* call reads it backwards in pages of Chunk records, asks the chain of    *)
(* every connect profile whether it is deployed, and returns up to Chunk   *)
(* sessions with the cursor for the next call.  Between any two of these   *)
(* questions wallets deploy profiles and destroy them.                     *)
(*                                                                         *)
(* The root and the profiles are outside the repository.  A cursor is a    *)
(* place in the log, 1 the oldest event; 0 is no cursor.                   *)
(***************************************************************************)
EXTENDS Integers, Sequences, FiniteSets

CONSTANTS
  Profiles,   \* addresses; an address is computed from its description
  Desc,       \* of a profile: the app_id of a connect description,
              \* "malformed" (the prefix alone) or "other" (not connect)
  Filters,    \* values of app_id asked for, "none" for no filter
  Chunk,      \* ACTIVE_SESSIONS_CHUNK_SIZE
  MaxEvents,  \* bound: deployments before the listing
  MaxUpsets   \* bound: deployments, destructions and failed queries during it

ASSUME ActiveAssumption ==
  /\ Desc \in [Profiles -> STRING]
  /\ Filters \subseteq STRING
  /\ Chunk \in Nat \ {0, 1}
  /\ MaxEvents \in Nat /\ MaxUpsets \in Nat

VARIABLES
  events,     \* the log: profiles in the order of their deployments
  deployed,   \* profiles that exist now
  inclusive,  \* a query before a cursor includes the event at it
  from,       \* created_at_from, as the oldest place wanted
  filter,     \* app_id
  phase,      \* of the caller: "idle", "query", "records", "done"
  asked,      \* before, as the caller passed it
  call,       \* the call under way
  listed,     \* profiles shown since the listing began (history)
  owed,       \* profiles to show: deployed ever since it began (history)
  cut,        \* profiles of pages left at a full chunk (history)
  upsets      \* steps of the chain and failed queries

root == <<events, deployed, inclusive>>
vars == <<events, deployed, inclusive, from, filter, phase, asked, call,
          listed, owed, cut, upsets>>

-----------------------------------------------------------------------------
(* The chain. *)

Upset == phase \in {"query", "records"} /\ upsets < MaxUpsets
         /\ upsets' = upsets + 1

Deploy(p) ==
  /\ Upset /\ p \notin deployed
  /\ events' = Append(events, p) /\ deployed' = deployed \cup {p}
  /\ UNCHANGED <<inclusive, from, filter, phase, asked, call, listed, owed,
                 cut>>

Destroy(p) ==
  /\ Upset /\ p \in deployed
  /\ deployed' = deployed \ {p} /\ owed' = owed \ {p}
  /\ UNCHANGED <<events, inclusive, from, filter, phase, asked, call, listed,
                 cut>>

\* The newest place before a cursor
Newest(before) ==
  IF before = 0 THEN Len(events) ELSE IF inclusive THEN before ELSE before - 1

\* query_profiles_by_multifactor: the places of the Chunk newest events
\* before a cursor, newest first
QueryProfiles(before) ==
  LET top == Newest(before)
      low == IF top - Chunk + 1 > from THEN top - Chunk + 1 ELSE from
  IN  [i \in 1 .. (IF top < low THEN 0 ELSE top - low + 1) |-> top - i + 1]

-----------------------------------------------------------------------------
(* Descriptions. *)

IsConnectDescription(p) == Desc[p] # "other"

\* parse_connect_description: the app_id, none of a malformed one
ParsedAppId(p) == IF Desc[p] = "malformed" THEN "none" ELSE Desc[p]

\* The filter skips malformed descriptions and other applications
Matches(p) == filter = "none" \/ ParsedAppId(p) = filter

-----------------------------------------------------------------------------
(* One call. *)

\* The local variables at its start
NewCall(before) ==
  [before |-> before, todo |-> <<>>, page |-> <<>>, sessions |-> <<>>,
   yes |-> {}, no |-> {}, nextBefore |-> 0]

\* is_deployed of a profile, asked once in a call
IsDeployed(p) ==
  IF p \in call.yes \cup call.no THEN p \in call.yes ELSE p \in deployed

\* Mutated form: the key is the application alone.
PushUniqueActiveSession_ByApp(ss, p) ==
  IF \E i \in DOMAIN ss : ParsedAppId(ss[i]) = ParsedAppId(p)
    THEN ss ELSE Append(ss, p)

\* push_unique_active_session; the key is the profile and its session
PushUniqueActiveSession(ss, p) ==
  IF \E i \in DOMAIN ss : ss[i] = p THEN ss ELSE Append(ss, p)

Full(ss) == Len(ss) >= Chunk

\* The call returns, with exhausted_active when the cursor stalled or no
\* connect profile it saw was deployed; the caller goes on with next_before.
Return(next, stalled, ss) ==
  LET exhausted == stalled \/ call.yes = {}
  IN  /\ listed' = listed \cup {ss[i] : i \in DOMAIN ss}
      /\ asked' = next
      /\ IF exhausted \/ next = 0
           THEN phase' = "done" /\ call' = NewCall(0)
           ELSE phase' = "query" /\ call' = NewCall(next)

\* The application lists sessions from the newest on
Begin ==
  /\ phase = "idle"
  /\ phase' = "query" /\ asked' = 0 /\ call' = NewCall(0)
  /\ listed' = {} /\ cut' = {}
  /\ filter' \in Filters /\ from' \in {1, 2}
  /\ owed' = {p \in deployed : /\ IsConnectDescription(p)
                               /\ filter' = "none" \/ ParsedAppId(p) = filter'
                               /\ \E i \in from' .. Len(events) : events[i] = p}
  /\ UNCHANGED <<root, upsets>>

\* A page is read; without records the call is over.
QueryPage ==
  LET page == QueryProfiles(call.before)
  IN  /\ phase = "query"
      /\ IF page = <<>>
           THEN Return(call.nextBefore, FALSE, call.sessions)
           ELSE /\ phase' = "records"
                /\ call' = [call EXCEPT !.page = page, !.todo = page]
                /\ UNCHANGED <<listed, asked>>
      /\ UNCHANGED <<root, from, filter, owed, cut, upsets>>

\* A query fails: the call returns the error and the caller repeats it.
QueryFails ==
  /\ Upset /\ phase = "query"
  /\ call' = NewCall(asked)
  /\ UNCHANGED <<root, from, filter, phase, asked, listed, owed, cut>>

\* One record of the page; a full chunk leaves the rest of it.
Record ==
  LET p    == events[Head(call.todo)]
      is   == IsConnectDescription(p) /\ IsDeployed(p)
      ss   == IF is /\ Matches(p)
                THEN PushUniqueActiveSession(call.sessions, p)
                ELSE call.sessions
      stop == is /\ Matches(p) /\ Full(ss)
      rest == Tail(call.todo)
  IN  /\ phase = "records" /\ call.todo # <<>>
      /\ call' = [call EXCEPT
           !.sessions = ss,
           !.todo = IF stop THEN <<>> ELSE rest,
           !.yes = IF is THEN @ \cup {p} ELSE @,
           !.no = IF IsConnectDescription(p) /\ ~is THEN @ \cup {p} ELSE @]
      /\ cut' = IF stop THEN cut \cup {events[rest[i]] : i \in DOMAIN rest}
                        ELSE cut
      /\ UNCHANGED <<root, from, filter, phase, asked, listed, owed, upsets>>

\* Mutated form: the next page is asked for with the old cursor.
Onward_Same(cursor) == call.before

\* before = Some(cursor)
Onward(cursor) == cursor

\* A short page is the last one
LastPage == Len(call.page) < Chunk

\* The end of a page: the cursor is the oldest record of the whole page.
PageEnds ==
  LET cursor == call.page[Len(call.page)]
      over   == LastPage \/ Full(call.sessions)
  IN  /\ phase = "records" /\ call.todo = <<>>
      /\ \/ cursor = call.before /\ Return(0, TRUE, call.sessions)
         \/ cursor # call.before /\ over /\ Return(cursor, FALSE, call.sessions)
         \/ /\ cursor # call.before /\ ~over
            /\ phase' = "query"
            /\ call' = [call EXCEPT !.before = Onward(cursor),
                                    !.nextBefore = cursor, !.page = <<>>]
            /\ UNCHANGED <<listed, asked>>
      /\ UNCHANGED <<root, from, filter, owed, cut, upsets>>

-----------------------------------------------------------------------------

\* Any past of deployments and destructions
Init ==
  /\ events \in UNION {[1 .. n -> Profiles] : n \in 0 .. MaxEvents}
  /\ deployed \in SUBSET {events[i] : i \in DOMAIN events}
  /\ inclusive \in BOOLEAN
  /\ from = 1 /\ filter = "none" /\ phase = "idle" /\ asked = 0
  /\ call = NewCall(0) /\ listed = {} /\ owed = {} /\ cut = {}
  /\ upsets = 0

Client == QueryPage \/ Record \/ PageEnds

Next ==
  \/ \E p \in Profiles : Deploy(p) \/ Destroy(p)
  \/ Begin \/ QueryFails
  \/ Client

Spec == Init /\ [][Next]_vars

\* The client is a running future; each of its queries is answered.
FairSpec == Spec /\ WF_vars(Client)

-----------------------------------------------------------------------------
(* Properties. *)

\* A listing that came to its end has shown every session that was active
\* from its beginning on and matches the filter, but for those on a page
\* that was left when a call had found Chunk sessions: the cursor points
\* behind the whole page.  The method's documentation (client.rs:1085-1090)
\* has one call scan a single page and stop at a page without a deployed
\* connect profile; the loop goes on, page after page, until it has Chunk
\* sessions or a short page.  Were it as documented, sessions older than
\* Chunk destroyed ones would never be shown.
ListedUnlessCutOff == phase = "done" => owed \subseteq listed \cup cut

\* A caller that follows next_before until exhausted_active or no cursor
\* comes to an end, also where the query includes the event at the cursor.
ListingEnds == phase = "query" ~> phase = "done"
=============================================================================
