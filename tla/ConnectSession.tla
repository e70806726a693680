--------------------------- MODULE ConnectSession ---------------------------
(***************************************************************************)
(* The bee_connect session protocol: a dApp (bee_connect::ConnectClient)   *)
(* and a wallet (bee_wallet ConnectModule) that talk through the           *)
(* append-only event log of one on-chain AuthProfile contract.             *)
(*                                                                         *)
(* Every message re-keys the session (dh.rs).  An encryption root is       *)
(* modelled by the sequence of X25519 shared secrets it was derived from,  *)
(* and a shared secret by the two-element set of the key pairs it joins:   *)
(* both HKDF and X25519 are injective and DH commutes, which is all the    *)
(* code uses of them.  Authenticated decryption succeeds exactly when the  *)
(* receiver derives the sender's root.                                     *)
(*                                                                         *)
(* The dApp's persistence discipline and the failures that may happen are  *)
(* parameters, so one specification covers the documented caller, the      *)
(* callers of the tests and example application, and lost acknowledgements *)
(***************************************************************************)
EXTENDS SequencesExt

CONSTANTS
  MaxLog,      \* bound: events written to the profile
  MaxAccept,   \* bound: no accept begins once this many key pairs exist
  MaxClock,    \* bound: the clock
  PayloadTtl,  \* DEFAULT_CONNECT_TTL_SECS, life of the deep link
  SessionTtl,  \* DEFAULT_SESSION_TTL_SECS, life of a session state
  PageLimit,   \* events one profile query returns
  Policy,      \* what the callers do, a subset of Policies
  Faults       \* what may fail, a subset of FaultKinds

\* early_persist : the dApp may save updated_session_state before the response
\* overlap       : the dApp may send while it waits for a challenge_response
\* whole_window  : created_at_from reaches back over the whole session
\* older_pages   : the wallet may also query an older page (`before`)
\* redelivered   : the wallet also answers a challenge that comes without
\*                 session_state_after, from its batch state
Policies == {"early_persist", "overlap", "whole_window", "older_pages", "redelivered"}

\* timeout    : wait_challenge_response runs out of attempts
\* dapp_ack   : a dApp write lands but the caller sees an error, or dies
\* wallet_ack : the same for a wallet write
\* crash      : the wallet loses a query result it has not saved
FaultKinds == {"timeout", "dapp_ack", "wallet_ack", "crash"}

ASSUME BoundsAssumption ==
  /\ MaxLog \in Nat /\ MaxAccept \in Nat /\ MaxClock \in Nat
  /\ PayloadTtl \in Nat /\ SessionTtl \in Nat
  /\ PageLimit \in Nat \ {0}

ASSUME ModesAssumption == Policy \subseteq Policies /\ Faults \subseteq FaultKinds

VARIABLES
  clock,      \* wall clock, shared by both devices and the chain
  nextKey,    \* number of DH key pairs generated so far
  owner,      \* owner key of the deployed AuthProfile, {} when not deployed
  log,        \* ContextAdded events of the profile, oldest first
  phase,      \* dApp: "new", "linked", "connected", "closed"
  clientDh,   \* dApp: key pair of the deep link
  linkExpiry, \* expires_at of the deep link payload
  stored,     \* dApp: the session state it has persisted
  working,    \* dApp: updated_session_state of the pending sign_challenge
  challenge,  \* dApp: log index of the last sign_challenge it sent
  verdict,    \* dApp: progress of the last sign_challenge and its wait
  pollFrom,   \* dApp: created_at_from of the wait
  gaveUp,     \* some wait of the dApp ended without a response (history)
  accepting,  \* wallet: key pairs of accepts in progress
  wstate,     \* wallet: the session state it has persisted
  page,       \* wallet: progress of query_session_messages over its page
  inbox,      \* wallet: readable c2w messages of the last query, unhandled
  dappGot,    \* log indices the dApp accepted, in order (history)
  walletGot   \* log indices the wallet accepted, in order (history)

chainVars  == <<owner, log>>
dappVars   == <<phase, clientDh, linkExpiry, stored, working, challenge, verdict,
                pollFrom, gaveUp, dappGot>>
walletVars == <<accepting, wstate, page, inbox, walletGot>>
vars == <<clock, nextKey, chainVars, dappVars, walletVars>>

-----------------------------------------------------------------------------
(* Keys, roots, session states and envelopes. *)

Side == {"dapp", "wallet"}
Key  == [side : Side, n : Nat]
NoKey == [side |-> "dapp", n |-> 0]
Fresh(side) == [side |-> side, n |-> nextKey + 1]

MsgTypes == {"wallet_hello", "set_mining_keys", "client_disconnect",
             "sign_challenge", "challenge_response"}

Root == Seq(SUBSET Key)

State == [root : Root, my : Key, peer : Key, expires : Nat, seen : Nat, sent : Nat]
NoState == [root |-> <<>>, my |-> NoKey, peer |-> NoKey,
            expires |-> 0, seen |-> 0, sent |-> 0]
Has(s) == s.root # <<>>

Envelope == [dir : {"c2w", "w2c"}, type : MsgTypes, seq : Nat, dh : Key,
             root : Root, at : Nat, nonce : Nat]

\* compute_shared_secret
Shared(a, b) == {a, b}

\* The signing key is derived once, from the handshake's shared secret.
Signer(s) == s.root[1]

\* ConnectSessionState::is_expired; expires_at = 0 never expires
Expired(s) == s.expires # 0 /\ clock >= s.expires

\* derive_session_keys and create_initial_state,
\* and the handshake's first seq, recorded by the side that sent or read it
InitialState(my, peer, seen, sent) ==
  [root |-> <<Shared(my, peer)>>, my |-> my, peer |-> peer,
   expires |-> clock + SessionTtl, seen |-> seen, sent |-> sent]

\* next_outbound_seq: the clock, or one above the last seq when it lags
NextOutboundSeq(s) == IF clock > s.sent THEN clock ELSE s.sent + 1

\* rekey_outbound: its early returns, then the updated state
CanRekeyOutbound(s, seq) == ~Expired(s) /\ seq # 0 /\ seq > s.sent

\* Mutated form: the shared secret is computed with the old key pair.
RekeyOutbound_OldKeyPair(s, new, seq) ==
  [root |-> Append(s.root, Shared(s.my, s.peer)), my |-> new, peer |-> s.peer,
   expires |-> s.expires, seen |-> s.seen, sent |-> seq]

RekeyOutbound(s, new, seq) ==
  [root |-> Append(s.root, Shared(new, s.peer)), my |-> new, peer |-> s.peer,
   expires |-> s.expires, seen |-> s.seen, sent |-> seq]

\* Mutated form: compared with last_sent_seq.
CanRekeyInbound_SentSeq(s, seq) == ~Expired(s) /\ seq # 0 /\ seq > s.sent

\* rekey_inbound: its early returns, then the updated state
CanRekeyInbound(s, seq) == ~Expired(s) /\ seq # 0 /\ seq > s.seen

\* Mutated form: the peer's new public key is not recorded.
RekeyInbound_PeerNotKept(s, new, seq) ==
  [root |-> Append(s.root, Shared(s.my, new)), my |-> s.my, peer |-> s.peer,
   expires |-> s.expires, seen |-> seq, sent |-> s.sent]

RekeyInbound(s, new, seq) ==
  [root |-> Append(s.root, Shared(s.my, new)), my |-> s.my, peer |-> new,
   expires |-> s.expires, seen |-> seq, sent |-> s.sent]

\* Mutated form: the root does not depend on the previous root.
Decrypts_Unchained(root, e) == Last(root) = Last(e.root)

\* decode_connect_message_body: AEAD opens under the sender's root only
Decrypts(root, e) == root = e.root

\* Mutated form: any envelope that parses advances the state.
Opens_AnyEnvelope(s, e) == ~Expired(s)

\* The message re-keys the reader's state and its body opens.
Opens(s, e) ==
  /\ CanRekeyInbound(s, e.seq)
  /\ Decrypts(RekeyInbound(s, e.dh, e.seq).root, e)

\* Mutated form: direction and type swapped.
EncodeMessage_Swapped(dir, type, s, nonce) ==
  [dir |-> type, type |-> dir, seq |-> s.sent, dh |-> s.my,
   root |-> s.root, at |-> clock, nonce |-> nonce]

\* encode_connect_message: s is the state after the re-key
EncodeMessage(dir, type, s, nonce) ==
  [dir |-> dir, type |-> type, seq |-> s.sent, dh |-> s.my,
   root |-> s.root, at |-> clock, nonce |-> nonce]

\* encode_wallet_hello_message: s is the handshake's state
WalletHello(s) == EncodeMessage("w2c", "wallet_hello", s, 0)

\* encode_challenge_response_message
ChallengeResponse(s, nonce) == EncodeMessage("w2c", "challenge_response", s, nonce)

\* body_decrypted of parse_connect_session_message_with_secret
BodyDecrypted(s, e) == Decrypts(s.root, e)

\* query_context_added_events: the newest PageLimit events up to `last`,
\* not older than `from`
Window(from, last) ==
  {i \in 1..last : i + PageLimit > last /\ log[i].at >= from}

\* AuthProfile.add_context_text: the contract takes owner-signed text only
AddContextText(s, e) ==
  /\ owner = Signer(s)
  /\ Len(log) < MaxLog
  /\ log' = Append(log, e)
  /\ UNCHANGED owner

\* generate_dh_keypair
GenerateDhKeypair == nextKey' = nextKey + 1

NoPage == [next |-> 0, last |-> 0, st |-> NoState, got |-> <<>>]
Idle == page.next = 0

-----------------------------------------------------------------------------
Init ==
  /\ clock = 1 /\ nextKey = 0
  /\ owner = {} /\ log = <<>>
  /\ phase = "new" /\ clientDh = NoKey /\ linkExpiry = 0
  /\ stored = NoState /\ working = NoState
  /\ challenge = 0 /\ verdict = "none" /\ pollFrom = 0 /\ gaveUp = FALSE
  /\ accepting = {} /\ wstate = NoState /\ page = NoPage /\ inbox = {}
  /\ dappGot = <<>> /\ walletGot = <<>>

Tick ==
  /\ clock < MaxClock
  /\ clock' = clock + 1
  /\ UNCHANGED <<nextKey, chainVars, dappVars, walletVars>>

-----------------------------------------------------------------------------
(* Handshake. *)

\* create_shared_key_session: the deep link carries clientDh's public key
CreateSharedKeySession ==
  /\ phase = "new"
  /\ GenerateDhKeypair
  /\ clientDh' = Fresh("dapp")
  /\ linkExpiry' = clock + PayloadTtl
  /\ phase' = "linked"
  /\ UNCHANGED <<clock, chainVars, stored, working, challenge, verdict, pollFrom,
                 gaveUp, dappGot, walletVars>>

\* accept_shared_key_connect up to the profile's address: the payload is
\* validated and a wallet key pair generated
AcceptBegin ==
  /\ phase # "new"
  /\ clock < linkExpiry
  /\ nextKey < MaxAccept
  /\ GenerateDhKeypair
  /\ accepting' = accepting \cup {Fresh("wallet")}
  /\ UNCHANGED <<clock, chainVars, dappVars, wstate, page, inbox, walletGot>>

\* deploy_profile_by_identity, only when the profile is not deployed yet
AcceptDeploy(k) ==
  /\ k \in accepting
  /\ owner = {}
  /\ owner' = Shared(k, clientDh)
  /\ UNCHANGED <<clock, nextKey, log, dappVars, walletVars>>

\* The deployed profile must carry this accept's key: details.pubkey_hash
OwnerMatches(k) == owner = Shared(k, clientDh)

\* wallet_hello is written under the initial root, then the state returned;
\* with wallet_ack the write lands and the state is lost
AcceptHello(k) ==
  LET s == InitialState(k, clientDh, 0, clock) IN
  /\ k \in accepting
  /\ OwnerMatches(k)
  /\ AddContextText(s, WalletHello(s))
  /\ accepting' = accepting \ {k}
  /\ \/ /\ wstate' = s
        /\ inbox' = {} /\ page' = NoPage
     \/ "wallet_ack" \in Faults /\ UNCHANGED <<wstate, inbox, page>>
  /\ UNCHANGED <<clock, nextKey, dappVars, walletGot>>

\* Owner mismatch, or the wallet dies before wallet_hello
AcceptFail(k) ==
  /\ k \in accepting
  /\ \/ owner # {} /\ ~OwnerMatches(k)
     \/ "crash" \in Faults
  /\ accepting' = accepting \ {k}
  /\ UNCHANGED <<clock, nextKey, chainVars, dappVars, wstate, page, inbox, walletGot>>

\* find_wallet_hello_event: the hellos of the window that open under the key
\* derived from client_dh_secret and the envelope's dh_public
Hellos ==
  {i \in Window(0, Len(log)) :
     /\ log[i].dir = "w2c" /\ log[i].type = "wallet_hello" /\ log[i].seq # 0
     /\ Decrypts(<<Shared(clientDh, log[i].dh)>>, log[i])}

\* wait_wallet_hello: the first hello of the page wins
WaitWalletHello ==
  /\ phase = "linked"
  /\ owner # {}
  /\ \E i \in Hellos :
       /\ \A j \in Hellos : i <= j
       /\ stored' = InitialState(clientDh, log[i].dh, log[i].seq, 0)
       /\ dappGot' = Append(dappGot, i)
  /\ phase' = "connected"
  /\ UNCHANGED <<clock, nextKey, chainVars, clientDh, linkExpiry, working, challenge,
                 verdict, pollFrom, gaveUp, walletVars>>

-----------------------------------------------------------------------------
(* dApp: requests and the wait for a challenge_response. *)

\* rekey_outbound of the persisted state
Outbound == RekeyOutbound(stored, Fresh("dapp"), NextOutboundSeq(stored))

\* The common part of request_set_mining_keys, request_sign_challenge and
\* disconnect_session: wait for the profile, re-key, encode, write.
\* Bound: a dApp write leaves room for the answer.
Send(type) ==
  /\ phase = "connected"
  /\ owner # {}
  /\ Has(working) => "overlap" \in Policy
  /\ CanRekeyOutbound(stored, NextOutboundSeq(stored))
  /\ GenerateDhKeypair
  /\ Len(log) + 1 < MaxLog
  /\ AddContextText(stored, EncodeMessage("c2w", type, Outbound, 0))
  /\ UNCHANGED <<clock, clientDh, linkExpiry, pollFrom, gaveUp, dappGot, walletVars>>

\* request_set_mining_keys: the caller persists updated_session_state
RequestSetMiningKeys ==
  /\ Send("set_mining_keys")
  /\ stored' = Outbound
  /\ UNCHANGED <<phase, working, challenge, verdict>>

\* request_sign_challenge: the write is on the profile, where the wallet may
\* read it and answer, and add_context_text has not returned yet
RequestSignChallenge ==
  /\ Send("sign_challenge")
  /\ working' = Outbound
  /\ challenge' = Len(log')
  /\ verdict' = "sending"
  /\ UNCHANGED <<phase, stored>>

\* request_sign_challenge returns: the caller holds the updated state for the
\* wait and keeps the pre-challenge state, or already saves the updated one.
\* created_at_from is sent_at, taken now, or far enough back.
SignChallengeSent ==
  /\ verdict = "sending" /\ Has(working)
  /\ verdict' = "waiting"
  /\ pollFrom' = IF "whole_window" \in Policy THEN 0 ELSE clock
  /\ \/ UNCHANGED stored
     \/ "early_persist" \in Policy /\ stored' = working
  /\ UNCHANGED <<clock, nextKey, chainVars, phase, clientDh, linkExpiry, working,
                 challenge, gaveUp, dappGot, walletVars>>

\* disconnect_session: the application forgets the connection
DisconnectSession ==
  /\ Send("client_disconnect")
  /\ stored' = NoState /\ working' = NoState
  /\ phase' = "closed"
  /\ UNCHANGED <<challenge, verdict>>

\* The write lands, but add_context_text reports an error or the dApp dies
\* before it saves the updated state: the old state is what remains.
SendUnacknowledged(type) ==
  /\ "dapp_ack" \in Faults
  /\ Send(type)
  /\ UNCHANGED <<phase, stored, working, challenge, verdict>>

\* find_challenge_response_event and find_set_mining_keys_event: matching
\* envelopes, those that open, and those above last_seen_seq that do not
Candidates(dir, type, from) ==
  {i \in Window(from, Len(log)) : log[i].dir = dir /\ log[i].type = type}
Hits(s, C) == {i \in C : Opens(s, log[i])}

\* Mutated form: replayed responses count as undecryptable.
DecryptFailures_Replays(s, C) == {i \in C : ~Opens(s, log[i])}

DecryptFailures(s, C) == {i \in C : CanRekeyInbound(s, log[i].seq) /\ ~Opens(s, log[i])}

Responses == Candidates("w2c", "challenge_response", pollFrom)

WaitEnds(v) ==
  /\ verdict' = v
  /\ working' = NoState
  /\ UNCHANGED <<clock, nextKey, chainVars, clientDh, linkExpiry, challenge, pollFrom,
                 walletVars>>

\* wait_challenge_response: the first response that opens is returned and
\* its state persisted
WaitFinds ==
  /\ verdict = "waiting" /\ Has(working) /\ owner # {} /\ ~Expired(working)
  /\ \E i \in Hits(working, Responses) :
       /\ \A j \in Hits(working, Responses) : i <= j
       /\ stored' = RekeyInbound(working, log[i].dh, log[i].seq)
       /\ dappGot' = Append(dappGot, i)
  /\ WaitEnds("found")
  /\ UNCHANGED <<phase, gaveUp>>

\* session_desync: a response above last_seen_seq did not open; the
\* application drops the connection
WaitDesync ==
  /\ verdict = "waiting" /\ Has(working) /\ owner # {} /\ ~Expired(working)
  /\ Hits(working, Responses) = {}
  /\ DecryptFailures(working, Responses) # {}
  /\ stored' = NoState /\ phase' = "closed"
  /\ WaitEnds("desync")
  /\ UNCHANGED <<gaveUp, dappGot>>

\* Any other error ends the wait at once: the session expired, the profile is
\* gone, or every matching response is at or below last_seen_seq
WaitAborts ==
  /\ verdict = "waiting" /\ Has(working)
  /\ \/ owner = {}
     \/ Expired(working)
     \/ /\ Responses # {}
        /\ Hits(working, Responses) = {} /\ DecryptFailures(working, Responses) = {}
  /\ gaveUp' = TRUE
  /\ WaitEnds("error")
  /\ UNCHANGED <<phase, stored, dappGot>>

\* poll_until runs out of attempts
WaitTimesOut ==
  /\ "timeout" \in Faults
  /\ verdict = "waiting" /\ Has(working)
  /\ gaveUp' = TRUE
  /\ WaitEnds("timeout")
  /\ UNCHANGED <<phase, stored, dappGot>>

-----------------------------------------------------------------------------
(* Wallet: query_session_messages and the answer to a sign_challenge. *)

WalletUnchanged == UNCHANGED <<clock, nextKey, chainVars, dappVars>>

\* query_session_messages fetches one page; the loop then works on that copy
QueryBegin ==
  /\ Idle /\ Has(wstate) /\ owner # {} /\ log # <<>>
  /\ \E last \in 1..Len(log) :
       /\ last = Len(log) \/ "older_pages" \in Policy
       /\ page' = [next |-> IF last > PageLimit THEN last - PageLimit + 1 ELSE 1,
                   last |-> last, st |-> wstate, got |-> <<>>]
  /\ inbox' = {}
  /\ UNCHANGED <<accepting, wstate, walletGot>> /\ WalletUnchanged

NextRecord(st, got) == [next |-> page.next + 1, last |-> page.last, st |-> st, got |-> got]

\* One record of the page.  A c2w message that re-keys and opens advances the
\* state; any other record is parsed with the current root.
QueryRecord ==
  LET e == log[page.next]
      s == page.st
      after == RekeyInbound(s, e.dh, e.seq)
  IN
  /\ ~Idle /\ page.next <= page.last
  /\ IF e.dir = "c2w" /\ Opens(s, e)
     THEN /\ page' = NextRecord(after, Append(page.got, page.next))
          /\ inbox' = inbox \cup {[idx |-> page.next, after |-> after]}
     ELSE /\ page' = NextRecord(s, page.got)
          /\ inbox' = IF e.dir = "c2w" /\ BodyDecrypted(s, e)
                      THEN inbox \cup {[idx |-> page.next, after |-> NoState]}
                      ELSE inbox
  /\ UNCHANGED <<accepting, wstate, walletGot>> /\ WalletUnchanged

\* The result is returned and the caller persists updated_session_state
QueryEnd ==
  /\ ~Idle /\ page.next > page.last
  /\ wstate' = page.st
  /\ walletGot' = walletGot \o page.got
  /\ page' = NoPage
  /\ UNCHANGED <<accepting, inbox>> /\ WalletUnchanged

\* The wallet dies before it saves the result
QueryLost ==
  /\ "crash" \in Faults /\ ~Idle
  /\ page' = NoPage /\ inbox' = {}
  /\ UNCHANGED <<accepting, wstate, walletGot>> /\ WalletUnchanged

\* Mutated form: always the batch state.
ResponseBase_Batch(m) == wstate

\* The state an answer starts from: session_state_after when the message
\* carries one, else the batch state
ResponseBase(m) == IF Has(m.after) THEN m.after ELSE wstate

\* challenge_response: re-key, encode, write; the caller persists the result
RespondToChallenge(m) ==
  LET base == ResponseBase(m)
      seq  == NextOutboundSeq(base)
      s    == RekeyOutbound(base, Fresh("wallet"), seq)
  IN
  /\ Idle /\ m \in inbox
  /\ log[m.idx].type = "sign_challenge"
  /\ Has(m.after) \/ "redelivered" \in Policy
  /\ Has(base)
  /\ CanRekeyOutbound(base, seq)
  /\ GenerateDhKeypair
  /\ AddContextText(base, ChallengeResponse(s, m.idx))
  /\ \/ wstate' = s /\ inbox' = inbox \ {m}
     \/ "wallet_ack" \in Faults /\ UNCHANGED <<wstate, inbox>>
  /\ UNCHANGED <<clock, dappVars, accepting, page, walletGot>>

\* wait_set_mining_keys_request: only set_mining_keys envelopes are tried,
\* all of them against the caller's state
WaitSetMiningKeys ==
  LET C == Candidates("c2w", "set_mining_keys", 0) IN
  /\ Idle /\ Has(wstate) /\ owner # {} /\ ~Expired(wstate)
  /\ \E i \in Hits(wstate, C) :
       /\ \A j \in Hits(wstate, C) : i <= j
       /\ wstate' = RekeyInbound(wstate, log[i].dh, log[i].seq)
       /\ walletGot' = Append(walletGot, i)
  /\ inbox' = {}
  /\ UNCHANGED <<accepting, page>> /\ WalletUnchanged

\* destroy_connect_profile: the events of the profile stay queryable
DestroyConnectProfile ==
  /\ Idle /\ owner # {}
  /\ owner' = {}
  /\ wstate' = NoState /\ inbox' = {}
  /\ UNCHANGED <<clock, nextKey, log, dappVars, accepting, page, walletGot>>

-----------------------------------------------------------------------------
Accepting == \E k \in accepting : AcceptDeploy(k) \/ AcceptHello(k) \/ AcceptFail(k)

Waiting == WaitFinds \/ WaitDesync \/ WaitAborts

Query == QueryBegin \/ QueryRecord \/ QueryEnd

Responding == \E m \in inbox : RespondToChallenge(m)

Next ==
  \/ Tick
  \/ CreateSharedKeySession \/ WaitWalletHello
  \/ AcceptBegin \/ Accepting
  \/ RequestSetMiningKeys \/ RequestSignChallenge \/ SignChallengeSent \/ DisconnectSession
  \/ \E type \in {"set_mining_keys", "sign_challenge"} : SendUnacknowledged(type)
  \/ Waiting \/ WaitTimesOut
  \/ Query \/ QueryLost
  \/ Responding
  \/ WaitSetMiningKeys
  \/ DestroyConnectProfile

Spec == Init /\ [][Next]_vars

\* A write that landed is reported, and the dApp's poll loop, the wallet's
\* polling and its handling of what it read are driven by the event loops of
\* both applications.
FairSpec ==
  /\ Spec
  /\ WF_vars(SignChallengeSent) /\ WF_vars(Waiting) /\ WF_vars(Query)
  /\ SF_vars(Responding)

-----------------------------------------------------------------------------
(* Properties. *)

\* Every variable has its type; a query in progress stays inside the log it
\* fetched (query_session_messages).
TypeOK ==
  /\ clock \in Nat /\ nextKey \in Nat
  /\ owner \in SUBSET Key /\ log \in Seq(Envelope)
  /\ phase \in {"new", "linked", "connected", "closed"}
  /\ clientDh \in Key /\ linkExpiry \in Nat
  /\ stored \in State /\ working \in State
  /\ challenge \in Nat
  /\ pollFrom \in Nat
  /\ verdict \in {"none", "sending", "waiting", "found", "desync", "error", "timeout"}
  /\ gaveUp \in BOOLEAN
  /\ accepting \in SUBSET Key /\ wstate \in State
  /\ page \in [next : Nat, last : Nat, st : State, got : Seq(Nat)]
  /\ page.last <= Len(log)
  /\ inbox \in SUBSET [idx : Nat, after : State]
  /\ dappGot \in Seq(Nat) /\ walletGot \in Seq(Nat)

\* No two messages of the profile are ever encrypted under the same root,
\* whatever is retried, lost or sent from a stale state (rekey_outbound draws
\* a new key pair for every message).
RootsNeverReused ==
  \A i, j \in 1..Len(log) : log[i].root = log[j].root => i = j

DappStates == {stored, working}
WalletStates == {wstate, page.st} \cup {m.after : m \in inbox}

\* Two sides that hold the same root hold matching key pairs, so the next
\* message of either opens at the other (rekey_outbound against rekey_inbound).
EqualRootsInterlock ==
  \A c \in DappStates, w \in WalletStates :
    Has(c) /\ c.root = w.root => c.my = w.peer /\ c.peer = w.my

\* Each side accepts a message at most once, and never after a message that
\* continues it, although the whole page is read again by every query; along
\* a conversation the accepted seqs grow (last_seen_seq and the root chain).
\* Between branches they need not: a wallet that answers from an older
\* session_state_after goes back to a lower last_seen_seq.
AcceptedInOrder ==
  \A got \in {dappGot, walletGot} :
    \A i, j \in 1..Len(got) :
      i < j => /\ ~IsPrefix(log[got[j]].root, log[got[i]].root)
               /\ IsPrefix(log[got[i]].root, log[got[j]].root)
                    => log[got[i]].seq < log[got[j]].seq

\* Acceptance has no gaps: whoever accepts a message has accepted every
\* message of the other side that the message's root was chained on.
AcceptedWithoutGaps ==
  /\ \A i \in Range(walletGot), j \in 1..Len(log) :
       IsStrictPrefix(log[j].root, log[i].root) /\ log[j].dir = "c2w"
         => j \in Range(walletGot)
  /\ \A i \in Range(dappGot), j \in 1..Len(log) :
       IsStrictPrefix(log[j].root, log[i].root) /\ log[j].dir = "w2c"
         => j \in Range(dappGot)

\* The response wait_challenge_response returns echoes the nonce of the very
\* challenge the dApp waits for, not of an earlier one, however many were
\* sent: a response starts from the session_state_after of its challenge.  (A
\* wallet that also answers without one may answer a stale challenge.)
ResponseAnswersChallenge ==
  verdict = "found" /\ "redelivered" \notin Policy
    => log[Last(dappGot)].nonce = challenge

Current == IF Has(working) THEN working ELSE stored

\* Both sides are on one root chain, one possibly behind the other.
SameChain(c, w) == IsPrefix(c.root, w.root) \/ IsPrefix(w.root, c.root)
SameSession(c, w) == Has(c) /\ Has(w) /\ Signer(c) = Signer(w)

\* As long as no wait was given up, the chains of the two sides never fork,
\* whatever the interleaving of requests, queries and responses.
InSyncUnlessGivenUp ==
  ~gaveUp /\ SameSession(Current, wstate) => SameChain(Current, wstate)

\* `session_desync` is only reported when the chains have really forked, so
\* dropping the session loses nothing (find_challenge_response_event).
DesyncIsReal ==
  [][verdict' = "desync" /\ verdict # "desync" /\ SameSession(working, wstate)
       => ~SameChain(working, wstate)]_vars

\* The response was written in a second before sent_at, while the send of its
\* challenge was still under way: no poll from sent_at on returns it.
Overlooked ==
  \E i \in 1..Len(log) :
    /\ log[i].type = "challenge_response" /\ log[i].nonce = challenge
    /\ log[i].at < pollFrom

\* While both sides keep polling, a sign_challenge gets its
\* challenge_response, unless the wallet destroys the session's profile, the
\* wait is given up, or the answer came in a second before the send returned
\* (wait_challenge_response against query_session_messages).
ChallengeAnswered ==
  verdict \in {"sending", "waiting"} /\ ~gaveUp ~>
    \/ verdict = "found" \/ gaveUp
    \/ Has(working) /\ owner # Signer(working)
    \/ Overlooked

\* PROTOCOL.md: after a timeout the dApp that kept its pre-challenge state can
\* go on; the chains never fork under the documented discipline.
RetryStaysInSync ==
  SameSession(Current, wstate) => SameChain(Current, wstate)
-----------------------------------------------------------------------------
(* The protocol implements SessionTree. *)

\* The message of l written under a root: 0 for the empty root, which is no
\* session, and -1 for a root no message was written under
At(l, root) ==
  IF root = <<>> THEN 0
  ELSE IF \E i \in 1..Len(l) : l[i].root = root
       THEN CHOOSE i \in 1..Len(l) : l[i].root = root
       ELSE -1

\* A message continues the one under whose root its sender re-keyed.
Messages(l) ==
  [i \in 1..Len(l) |->
     [by |-> IF l[i].dir = "c2w" THEN "dapp" ELSE "wallet",
      parent |-> At(l, Front(l[i].root))]]

\* The messages whose roots a side holds
Roots(states) == {s.root : s \in {t \in states : Has(t)}}
Places(l, roots) == {At(l, r) : r \in roots}

Tree == INSTANCE SessionTree WITH
          tree   <- Messages(log),
          dapp   <- Places(log, Roots(DappStates)),
          wallet <- Places(log, Roots(WalletStates))

\* Every step of the dApp, the wallet, the profile and the faults is a step
\* of the abstract channel: a session state is only ever reached message by
\* message, and what is written continues a state its writer holds
\* (rekey_outbound, rekey_inbound and all their callers).
ImplementsSessionTree == Tree!Spec
=============================================================================
