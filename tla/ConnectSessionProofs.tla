------------------------ MODULE ConnectSessionProofs ------------------------
(***************************************************************************)
(* Theorems about the bee_connect session protocol, for every bound, and   *)
(* in parts 1 to 3 for every caller discipline and every set of faults:    *)
(*   1. types, and keys that are drawn once;                               *)
(*   2. the protocol implements SessionTree;                               *)
(*   3. what the sides accept: every message once, in the order of the     *)
(*      conversation, without gaps, and the response to the challenge that *)
(*      was asked;                                                         *)
(*   4. for callers that do not send while they wait and see what they     *)
(*      have written: the sides stay on one root chain until a wait is     *)
(*      given up, and a reported desync is a real one.                     *)
(***************************************************************************)
EXTENDS ConnectSession, TLAPS, SequenceTheorems


-----------------------------------------------------------------------------
(***************************************************************************)
(* 1. Types and keys.                                                      *)
(***************************************************************************)

-----------------------------------------------------------------------------
(* Type correctness. *)

\* A re-keyed state is a session state again (rekey_outbound, rekey_inbound).
LEMMA RekeyType ==
  ASSUME NEW s \in State, NEW k \in Key, NEW q \in Nat
  PROVE  /\ RekeyOutbound(s, k, q) \in State
         /\ RekeyInbound(s, k, q) \in State
BY DEF RekeyOutbound, RekeyInbound, Shared, State, Root

\* create_initial_state returns a session state.
LEMMA InitialStateType ==
  ASSUME NEW a \in Key, NEW b \in Key, NEW q \in Nat, NEW r \in Nat, clock \in Nat
  PROVE  InitialState(a, b, q, r) \in State
<1>1. <<Shared(a, b)>> \in Root
  BY DEF Shared, Root
<1> QED BY <1>1, BoundsAssumption DEF InitialState, State

\* The absent state is a record of the same shape.
LEMMA NoStateType == NoState \in State
BY DEF NoState, State, NoKey, Key, Side, Root

\* generate_dh_keypair returns a key of the caller's side.
LEMMA FreshType ==
  ASSUME nextKey \in Nat, NEW d \in Side
  PROVE  Fresh(d) \in Key
BY DEF Fresh, Key

\* next_outbound_seq is a natural number.
LEMMA SeqType ==
  ASSUME NEW s \in State, clock \in Nat
  PROVE  NextOutboundSeq(s) \in Nat
BY DEF NextOutboundSeq, State

\* An encoded message is an envelope.
LEMMA EncodeType ==
  ASSUME NEW s \in State, NEW d \in {"c2w", "w2c"}, NEW t \in MsgTypes,
         NEW n \in Nat, clock \in Nat
  PROVE  EncodeMessage(d, t, s, n) \in Envelope
BY DEF EncodeMessage, Envelope, State

\* Every entry of the log is an envelope.
LEMMA LogEntry ==
  ASSUME TypeOK, NEW i \in 1..Len(log)
  PROVE  log[i] \in Envelope /\ log[i].dh \in Key /\ log[i].seq \in Nat
<1>1. log \in Seq(Envelope)
  BY DEF TypeOK
<1>2. log[i] \in Envelope
  BY <1>1
<1> QED BY <1>2 DEF Envelope

\* add_context_text appends one well-typed event and keeps the page inside
\* the log.
LEMMA AppendType ==
  ASSUME TypeOK, NEW s, NEW e \in Envelope, AddContextText(s, e)
  PROVE  /\ log' \in Seq(Envelope) /\ owner' = owner
         /\ Len(log') \in Nat /\ Len(log') = Len(log) + 1
         /\ page.last <= Len(log')
<1>1. log \in Seq(Envelope) /\ page.last \in Nat /\ page.last <= Len(log)
  BY DEF TypeOK
<1> QED BY <1>1 DEF AddContextText

\* A dApp request leaves every variable it touches well typed.
LEMMA SendType ==
  ASSUME TypeOK, NEW t \in MsgTypes, Send(t)
  PROVE  /\ Outbound \in State
         /\ nextKey' \in Nat /\ log' \in Seq(Envelope) /\ owner' = owner
         /\ Len(log') \in Nat /\ page.last <= Len(log')
<1>1. Outbound \in State
  BY RekeyType, FreshType, SeqType DEF Outbound, TypeOK, Side
<1>2. EncodeMessage("c2w", t, Outbound, 0) \in Envelope
  BY <1>1, EncodeType DEF TypeOK
<1>3. AddContextText(stored, EncodeMessage("c2w", t, Outbound, 0)) /\ GenerateDhKeypair
  BY DEF Send
<1> QED BY <1>1, <1>2, <1>3, AppendType DEF GenerateDhKeypair, TypeOK

\* Every step preserves the types.
LEMMA TypeStep == TypeOK /\ [Next]_vars => TypeOK'
<1> SUFFICES ASSUME TypeOK, [Next]_vars PROVE TypeOK'
  OBVIOUS
<1> USE NoStateType
<1>1. CASE Tick
  BY <1>1 DEF Tick, TypeOK, chainVars, dappVars, walletVars
<1>2. CASE CreateSharedKeySession
  BY <1>2, FreshType, BoundsAssumption
  DEF CreateSharedKeySession, GenerateDhKeypair, TypeOK, chainVars, walletVars, Side
<1>3. CASE WaitWalletHello
  <2>1. PICK i \in Hellos :
          /\ stored' = InitialState(clientDh, log[i].dh, log[i].seq, 0)
          /\ dappGot' = Append(dappGot, i)
    BY <1>3 DEF WaitWalletHello
  <2>2. i \in 1..Len(log) /\ i \in Nat
    BY DEF Hellos, Window, TypeOK
  <2>3. log[i].dh \in Key /\ log[i].seq \in Nat
    BY <2>2, LogEntry
  <2>4. stored' \in State
    BY <2>1, <2>3, InitialStateType DEF TypeOK
  <2> QED BY <1>3, <2>1, <2>2, <2>4 DEF WaitWalletHello, TypeOK, chainVars, walletVars
<1>4. CASE AcceptBegin
  BY <1>4, FreshType DEF AcceptBegin, GenerateDhKeypair, TypeOK, chainVars, dappVars, Side
<1>5. CASE Accepting
  <2>1. PICK k \in accepting : AcceptDeploy(k) \/ AcceptHello(k) \/ AcceptFail(k)
    BY <1>5 DEF Accepting
  <2>2. k \in Key /\ clientDh \in Key /\ clock \in Nat
    BY DEF TypeOK
  <2>3. CASE AcceptDeploy(k)
    BY <2>2, <2>3 DEF AcceptDeploy, Shared, TypeOK, dappVars, walletVars
  <2>4. CASE AcceptHello(k)
    <3> DEFINE s == InitialState(k, clientDh, 0, clock)
    <3>1. s \in State
      BY <2>2, InitialStateType
    <3>2. EncodeMessage("w2c", "wallet_hello", s, 0) \in Envelope
      BY <2>2, <3>1, EncodeType DEF MsgTypes
    <3>3. log' \in Seq(Envelope) /\ owner' = owner /\ Len(log') \in Nat
          /\ page.last <= Len(log')
      BY <2>4, <3>2, AppendType DEF AcceptHello, WalletHello
    <3>4. wstate' \in State /\ inbox' \in SUBSET [idx : Nat, after : State]
          /\ page' \in [next : Nat, last : Nat, st : State, got : Seq(Nat)]
          /\ page'.last <= Len(log')
      <4>1. CASE wstate' = s /\ inbox' = {} /\ page' = NoPage
        BY <3>1, <3>3, <4>1 DEF NoPage
      <4>2. CASE UNCHANGED <<wstate, inbox, page>>
        BY <3>3, <4>2 DEF TypeOK
      <4> QED BY <2>4, <4>1, <4>2 DEF AcceptHello, WalletHello
    <3> HIDE DEF s
    <3> QED BY <2>4, <3>3, <3>4 DEF AcceptHello, WalletHello, TypeOK, dappVars
  <2>5. CASE AcceptFail(k)
    BY <2>5 DEF AcceptFail, TypeOK, chainVars, dappVars
  <2> QED BY <2>1, <2>3, <2>4, <2>5
<1>6. CASE RequestSetMiningKeys
  <2>1. Send("set_mining_keys")
    BY <1>6 DEF RequestSetMiningKeys
  <2> QED BY <1>6, <2>1, SendType DEF RequestSetMiningKeys, Send, MsgTypes, TypeOK, walletVars
<1>7. CASE RequestSignChallenge
  <2>1. Send("sign_challenge")
    BY <1>7 DEF RequestSignChallenge
  <2> QED BY <1>7, <2>1, SendType DEF RequestSignChallenge, Send, MsgTypes, TypeOK, walletVars
<1>s. CASE SignChallengeSent
  BY <1>s DEF SignChallengeSent, TypeOK, chainVars, walletVars
<1>8. CASE DisconnectSession
  <2>1. Send("client_disconnect")
    BY <1>8 DEF DisconnectSession
  <2> QED BY <1>8, <2>1, SendType DEF DisconnectSession, Send, MsgTypes, TypeOK, walletVars
<1>9. ASSUME NEW t \in {"set_mining_keys", "sign_challenge"}, SendUnacknowledged(t)
      PROVE  TypeOK'
  <2>1. Send(t) /\ t \in MsgTypes
    BY <1>9 DEF SendUnacknowledged, MsgTypes
  <2> QED BY <1>9, <2>1, SendType DEF SendUnacknowledged, Send, TypeOK, walletVars
<1>10. CASE Waiting \/ WaitTimesOut
  <2>1. CASE WaitFinds
    <3>1. PICK i \in Hits(working, Responses) :
            /\ stored' = RekeyInbound(working, log[i].dh, log[i].seq)
            /\ dappGot' = Append(dappGot, i)
      BY <2>1 DEF WaitFinds
    <3>2. i \in 1..Len(log) /\ i \in Nat
      BY DEF Hits, Responses, Candidates, Window, TypeOK
    <3>3. stored' \in State
      BY <3>1, <3>2, LogEntry, RekeyType DEF TypeOK
    <3> QED BY <2>1, <3>1, <3>2, <3>3 DEF WaitFinds, WaitEnds, TypeOK, chainVars, walletVars
  <2>2. CASE WaitDesync
    BY <2>2 DEF WaitDesync, WaitEnds, TypeOK, chainVars, walletVars
  <2>3. CASE WaitAborts
    BY <2>3 DEF WaitAborts, WaitEnds, TypeOK, chainVars, walletVars
  <2>4. CASE WaitTimesOut
    BY <2>4 DEF WaitTimesOut, WaitEnds, TypeOK, chainVars, walletVars
  <2> QED BY <1>10, <2>1, <2>2, <2>3, <2>4 DEF Waiting
<1>11. CASE Query \/ QueryLost
  <2>1. CASE QueryBegin
    BY <2>1, BoundsAssumption DEF QueryBegin, WalletUnchanged, TypeOK, chainVars, dappVars
  <2>2. CASE QueryRecord
    <3> DEFINE after == RekeyInbound(page.st, log[page.next].dh, log[page.next].seq)
    <3>1. page.next \in 1..Len(log)
      BY <2>2 DEF QueryRecord, Idle, TypeOK
    <3>2. after \in State
      BY <3>1, LogEntry, RekeyType DEF TypeOK
    <3> HIDE DEF after
    <3>3. page' \in [next : Nat, last : Nat, st : State, got : Seq(Nat)]
          /\ page'.last = page.last
      <4>1. page.next + 1 \in Nat /\ page.last \in Nat /\ page.got \in Seq(Nat)
            /\ page.st \in State
        BY DEF TypeOK
      <4>2. Append(page.got, page.next) \in Seq(Nat)
        BY <3>1, <4>1
      <4>3. CASE page' = NextRecord(after, Append(page.got, page.next))
        BY <3>2, <4>1, <4>2, <4>3 DEF NextRecord
      <4>4. CASE page' = NextRecord(page.st, page.got)
        BY <4>1, <4>4 DEF NextRecord
      <4> QED BY <2>2, <4>3, <4>4 DEF QueryRecord, after
    <3>4. inbox' \in SUBSET [idx : Nat, after : State]
      BY <2>2, <3>1, <3>2 DEF QueryRecord, after, TypeOK
    <3> QED BY <2>2, <3>3, <3>4 DEF QueryRecord, WalletUnchanged, TypeOK, chainVars, dappVars
  <2>3. CASE QueryEnd
    BY <2>3 DEF QueryEnd, NoPage, WalletUnchanged, TypeOK, chainVars, dappVars
  <2>4. CASE QueryLost
    BY <2>4 DEF QueryLost, NoPage, WalletUnchanged, TypeOK, chainVars, dappVars
  <2> QED BY <1>11, <2>1, <2>2, <2>3, <2>4 DEF Query
<1>12. CASE Responding
  <2>1. PICK m \in inbox : RespondToChallenge(m)
    BY <1>12 DEF Responding
  <2> DEFINE base == ResponseBase(m)
             s == RekeyOutbound(base, Fresh("wallet"), NextOutboundSeq(base))
  <2>2. base \in State /\ m.idx \in Nat
    BY DEF ResponseBase, TypeOK
  <2>3. s \in State
    BY <2>2, RekeyType, FreshType, SeqType DEF TypeOK, Side
  <2>4. EncodeMessage("w2c", "challenge_response", s, m.idx) \in Envelope
    BY <2>2, <2>3, EncodeType DEF TypeOK, MsgTypes
  <2>5. log' \in Seq(Envelope) /\ owner' = owner /\ nextKey' \in Nat
        /\ page.last <= Len(log')
    BY <2>1, <2>4, AppendType DEF RespondToChallenge, ChallengeResponse, GenerateDhKeypair, TypeOK
  <2>6. wstate' \in State /\ inbox' \in SUBSET [idx : Nat, after : State]
    BY <2>1, <2>3 DEF RespondToChallenge, ChallengeResponse, TypeOK
  <2> HIDE DEF base, s
  <2> QED BY <2>1, <2>5, <2>6 DEF RespondToChallenge, ChallengeResponse, TypeOK, dappVars
<1>13. CASE WaitSetMiningKeys
  <2>1. PICK i \in Hits(wstate, Candidates("c2w", "set_mining_keys", 0)) :
          /\ wstate' = RekeyInbound(wstate, log[i].dh, log[i].seq)
          /\ walletGot' = Append(walletGot, i)
    BY <1>13 DEF WaitSetMiningKeys
  <2>2. i \in 1..Len(log) /\ i \in Nat
    BY DEF Hits, Candidates, Window, TypeOK
  <2>3. wstate' \in State
    BY <2>1, <2>2, LogEntry, RekeyType DEF TypeOK
  <2> QED BY <1>13, <2>1, <2>2, <2>3 DEF WaitSetMiningKeys, WalletUnchanged, TypeOK, chainVars, dappVars
<1>14. CASE DestroyConnectProfile
  BY <1>14 DEF DestroyConnectProfile, TypeOK, dappVars
<1>15. CASE UNCHANGED vars
  BY <1>15 DEF vars, TypeOK, chainVars, dappVars, walletVars
<1> QED
  BY <1>1, <1>2, <1>3, <1>4, <1>5, <1>6, <1>7, <1>8, <1>9, <1>10, <1>11, <1>12,
     <1>13, <1>14, <1>15, <1>s DEF Next

\* Every variable keeps its type in every behaviour.
THEOREM TypeCorrect == Spec => []TypeOK
<1>1. Init => TypeOK
  <2> SUFFICES ASSUME Init PROVE TypeOK
    OBVIOUS
  <2>1. NoPage \in [next : Nat, last : Nat, st : State, got : Seq(Nat)] /\ NoPage.last = 0
    BY NoStateType DEF NoPage
  <2>2. NoKey \in Key
    BY DEF NoKey, Key, Side
  <2>3. log = <<>> /\ log \in Seq(Envelope) /\ Len(log) = 0
    BY DEF Init
  <2>4. page = NoPage /\ page.last <= Len(log)
    BY <2>1, <2>3 DEF Init
  <2>5. stored \in State /\ working \in State /\ wstate \in State
    BY NoStateType DEF Init
  <2>6. clientDh \in Key /\ owner \in SUBSET Key /\ accepting \in SUBSET Key
        /\ inbox \in SUBSET [idx : Nat, after : State]
    BY <2>2 DEF Init
  <2>7. dappGot \in Seq(Nat) /\ walletGot \in Seq(Nat)
    BY DEF Init
  <2>8. clock \in Nat /\ nextKey \in Nat /\ linkExpiry \in Nat /\ challenge \in Nat
        /\ gaveUp \in BOOLEAN /\ pollFrom \in Nat
    BY DEF Init
  <2>9. phase \in {"new", "linked", "connected", "closed"}
        /\ verdict \in {"none", "sending", "waiting", "found", "desync", "error", "timeout"}
    BY DEF Init
  <2> QED BY <2>1, <2>3, <2>4, <2>5, <2>6, <2>7, <2>8, <2>9 DEF TypeOK
<1> QED BY <1>1, TypeStep, PTL DEF Spec
-----------------------------------------------------------------------------
(* Key freshness: the inductive invariant behind the safety of re-keying.  *)

\* The root a session state holds was last extended by the shared secret of
\* the state's own two keys, one of each side.
StateOK(s, d, n) ==
  /\ s.my.n <= n /\ s.peer.n <= n
  /\ Has(s) => /\ Last(s.root) = {s.my, s.peer}
               /\ s.my.side = d /\ s.peer.side # d

\* The root an envelope is encrypted under ends in the shared secret of the
\* envelope's own key and an older key of the receiver.
EnvelopeOK(e, n) ==
  /\ e.dh.n <= n
  /\ e.dir = "c2w" <=> e.dh.side = "dapp"
  /\ \E p \in Last(e.root) : p.n < e.dh.n /\ Last(e.root) = {e.dh, p}

\* Every envelope of the log has its own key pair.
LogOK(l, n) ==
  /\ \A i \in 1..Len(l) : EnvelopeOK(l[i], n)
  /\ \A i, j \in 1..Len(l) : l[i].dh = l[j].dh => i = j

\* The key pair of an accept in progress is younger than the link's and has
\* not been used.
AcceptOK(acc, dh, l, n) ==
  \A k \in acc : /\ k.side = "wallet" /\ dh.n < k.n /\ k.n <= n
                 /\ \A i \in 1..Len(l) : l[i].dh # k

DappOK ==
  /\ clientDh.side = "dapp" /\ clientDh.n <= nextKey
  /\ phase = "new" => accepting = {}
  /\ phase = "connected" => Has(stored)
  /\ StateOK(stored, "dapp", nextKey) /\ StateOK(working, "dapp", nextKey)

WalletOK ==
  /\ StateOK(wstate, "wallet", nextKey) /\ StateOK(page.st, "wallet", nextKey)
  /\ ~Idle => Has(page.st)
  /\ \A m \in inbox : StateOK(m.after, "wallet", nextKey)

KeyInv ==
  /\ DappOK /\ WalletOK
  /\ AcceptOK(accepting, clientDh, log, nextKey)
  /\ LogOK(log, nextKey)
\* The last element of an extended root is the new shared secret.
LEMMA LastAppend ==
  ASSUME NEW r \in Root, NEW x \in SUBSET Key
  PROVE  Append(r, x) \in Root /\ Append(r, x) # <<>> /\ Last(Append(r, x)) = x
BY DEF Root, Last

\* A state stays well keyed when further key pairs are drawn.
LEMMA StateMono ==
  ASSUME NEW s \in State, NEW d, NEW n \in Nat, NEW m \in Nat, n <= m, StateOK(s, d, n)
  PROVE  StateOK(s, d, m)
BY DEF StateOK, State, Key

\* The absent state is well keyed.
LEMMA NoStateOK == ASSUME NEW d, NEW n \in Nat PROVE StateOK(NoState, d, n)
BY DEF StateOK, NoState, NoKey, Has

\* rekey_outbound with a fresh key pair keeps a state well keyed.
LEMMA OutboundOK ==
  ASSUME NEW s \in State, NEW d \in Side, NEW n \in Nat, NEW q \in Nat,
         NEW k \in Key, k.side = d, k.n = n + 1,
         Has(s), StateOK(s, d, n)
  PROVE  /\ StateOK(RekeyOutbound(s, k, q), d, n + 1)
         /\ Has(RekeyOutbound(s, k, q))
<1> DEFINE x == Shared(k, s.peer)
<1>1. x \in SUBSET Key /\ s.root \in Root /\ s.peer \in Key
  BY DEF State, Shared
<1>2. Append(s.root, x) # <<>> /\ Last(Append(s.root, x)) = {k, s.peer}
  BY <1>1, LastAppend DEF Shared
<1>3. s.peer.n <= n + 1 /\ s.peer.side # d
  BY <1>1 DEF StateOK, Key
<1> QED BY <1>2, <1>3 DEF RekeyOutbound, StateOK, Has

\* rekey_inbound with a known key of the other side keeps a state well keyed.
LEMMA InboundOK ==
  ASSUME NEW s \in State, NEW d \in Side, NEW n \in Nat, NEW q \in Nat,
         NEW k \in Key, k.side # d, k.n <= n,
         Has(s), StateOK(s, d, n)
  PROVE  /\ StateOK(RekeyInbound(s, k, q), d, n)
         /\ Has(RekeyInbound(s, k, q))
<1> DEFINE x == Shared(s.my, k)
<1>1. x \in SUBSET Key /\ s.root \in Root /\ s.my \in Key
  BY DEF State, Shared
<1>2. Append(s.root, x) # <<>> /\ Last(Append(s.root, x)) = {s.my, k}
  BY <1>1, LastAppend DEF Shared
<1>3. s.my.n <= n /\ s.my.side = d
  BY DEF StateOK
<1> QED BY <1>2, <1>3 DEF RekeyInbound, StateOK, Has

\* The handshake's state is well keyed.
LEMMA InitialStateOK ==
  ASSUME NEW a \in Key, NEW b \in Key, NEW n \in Nat, NEW q, NEW r, NEW d,
         a.side = d, b.side # d, a.n <= n, b.n <= n
  PROVE  StateOK(InitialState(a, b, q, r), d, n) /\ Has(InitialState(a, b, q, r))
<1>1. <<Shared(a, b)>> # <<>> /\ Last(<<Shared(a, b)>>) = {a, b}
  BY DEF Shared, Last
<1> QED BY <1>1 DEF InitialState, StateOK, Has

\* What a re-keyed state sends is well keyed.
LEMMA EncodeOK ==
  ASSUME NEW s \in State, NEW n \in Nat, NEW dir \in {"c2w", "w2c"}, NEW t, NEW x,
         Has(s), Last(s.root) = {s.my, s.peer}, s.my.n <= n, s.peer.n < s.my.n,
         dir = "c2w" <=> s.my.side = "dapp"
  PROVE  /\ EnvelopeOK(EncodeMessage(dir, t, s, x), n)
         /\ EncodeMessage(dir, t, s, x).dh = s.my
<1> DEFINE e == EncodeMessage(dir, t, s, x)
<1>1. e.dh = s.my /\ e.dir = dir /\ e.root = s.root
  BY DEF EncodeMessage
<1>2. s.peer \in Last(e.root) /\ Last(e.root) = {e.dh, s.peer} /\ s.peer.n < e.dh.n
  BY <1>1
<1> HIDE DEF e
<1> QED BY <1>1, <1>2 DEF EnvelopeOK, e

\* The envelopes already written stay well keyed.
LEMMA LogMono ==
  ASSUME NEW l \in Seq(Envelope), NEW n \in Nat, NEW m \in Nat, n <= m, LogOK(l, n)
  PROVE  LogOK(l, m)
<1>1. ASSUME NEW i \in 1..Len(l) PROVE EnvelopeOK(l[i], m)
  <2>1. l[i] \in Envelope /\ EnvelopeOK(l[i], n)
    BY DEF LogOK
  <2>2. l[i].dh \in Key
    BY <2>1 DEF Envelope
  <2>3. l[i].dh.n \in Nat
    BY <2>2 DEF Key
  <2> QED BY <2>1, <2>3 DEF EnvelopeOK
<1> QED BY <1>1 DEF LogOK

\* A write with an unused key keeps the log well keyed.
LEMMA LogAppend ==
  ASSUME NEW l \in Seq(Envelope), NEW e \in Envelope, NEW n \in Nat, NEW m \in Nat, n <= m,
         LogOK(l, n), EnvelopeOK(e, m), \A i \in 1..Len(l) : l[i].dh # e.dh
  PROVE  LogOK(Append(l, e), m)
<1>1. LogOK(l, m)
  BY LogMono
<1> DEFINE a == Append(l, e)
<1>2. Len(a) = Len(l) + 1 /\ a[Len(l) + 1] = e /\ \A i \in 1..Len(l) : a[i] = l[i]
  OBVIOUS
<1>3. \A i \in 1..Len(a) : i \in 1..Len(l) \/ i = Len(l) + 1
  BY <1>2
<1> HIDE DEF a
<1>4. \A i \in 1..Len(a) : EnvelopeOK(a[i], m)
  BY <1>1, <1>2, <1>3 DEF LogOK
<1>5. \A i, j \in 1..Len(a) : a[i].dh = a[j].dh => i = j
  BY <1>1, <1>2, <1>3 DEF LogOK
<1> QED BY <1>4, <1>5 DEF LogOK, a

\* A key younger than every key drawn is unused.
LEMMA FreshUnused ==
  ASSUME NEW l \in Seq(Envelope), NEW n \in Nat, LogOK(l, n), NEW k \in Key, k.n = n + 1
  PROVE  \A i \in 1..Len(l) : l[i].dh # k
<1>1. ASSUME NEW i \in 1..Len(l) PROVE l[i].dh # k
  <2>1. l[i] \in Envelope /\ EnvelopeOK(l[i], n)
    BY DEF LogOK
  <2>2. l[i].dh \in Key
    BY <2>1 DEF Envelope
  <2>3. l[i].dh.n \in Nat /\ l[i].dh.n <= n
    BY <2>1, <2>2 DEF Key, EnvelopeOK
  <2> QED BY <2>3
<1> QED BY <1>1

\* A write with another key leaves the keys of pending accepts unused.
LEMMA AcceptAppend ==
  ASSUME NEW acc \in SUBSET Key, NEW dh \in Key, NEW l \in Seq(Envelope),
         NEW e \in Envelope, NEW n \in Nat, NEW m \in Nat, n <= m,
         AcceptOK(acc, dh, l, n), e.dh \notin acc
  PROVE  AcceptOK(acc, dh, Append(l, e), m)
<1> SUFFICES ASSUME NEW k \in acc
             PROVE  /\ k.side = "wallet" /\ dh.n < k.n /\ k.n <= m
                    /\ \A i \in 1..Len(Append(l, e)) : Append(l, e)[i].dh # k
  BY DEF AcceptOK
<1>1. k.side = "wallet" /\ dh.n < k.n /\ k.n <= n /\ \A i \in 1..Len(l) : l[i].dh # k
  BY DEF AcceptOK
<1>2. k.n <= m
  BY <1>1 DEF Key
<1>3. \A i \in 1..Len(Append(l, e)) : Append(l, e)[i].dh # k
  <2>1. ASSUME NEW i \in 1..Len(Append(l, e)) PROVE Append(l, e)[i].dh # k
    <3>1. CASE i \in 1..Len(l)
      BY <1>1, <3>1
    <3>2. CASE i = Len(l) + 1
      BY <3>2
    <3> QED BY <3>1, <3>2
  <2> QED BY <2>1
<1> QED BY <1>1, <1>2, <1>3
\* What the wallet holds stays well keyed while others draw keys.
LEMMA WalletMono ==
  ASSUME TypeOK, WalletOK, UNCHANGED <<wstate, page, inbox>>,
         nextKey' \in Nat, nextKey <= nextKey'
  PROVE  WalletOK'
<1>1. nextKey \in Nat /\ wstate \in State /\ page.st \in State
      /\ \A m \in inbox : m.after \in State
  BY DEF TypeOK
<1>2. StateOK(wstate, "wallet", nextKey') /\ StateOK(page.st, "wallet", nextKey')
  BY <1>1, StateMono DEF WalletOK
<1>3. \A m \in inbox : StateOK(m.after, "wallet", nextKey')
  BY <1>1, StateMono DEF WalletOK
<1> QED BY <1>2, <1>3 DEF WalletOK, Idle

\* What the dApp holds stays well keyed while others draw keys.
LEMMA DappMono ==
  ASSUME TypeOK, DappOK, UNCHANGED <<phase, clientDh, stored, working>>,
         nextKey' \in Nat, nextKey <= nextKey', phase = "new" => accepting' = {}
  PROVE  DappOK'
<1>1. nextKey \in Nat /\ stored \in State /\ working \in State /\ clientDh \in Key
  BY DEF TypeOK
<1>2. StateOK(stored, "dapp", nextKey') /\ StateOK(working, "dapp", nextKey')
  BY <1>1, StateMono DEF DappOK
<1>3. clientDh.n <= nextKey'
  BY <1>1 DEF DappOK, Key
<1> QED BY <1>2, <1>3 DEF DappOK

\* Every dApp request writes one well-keyed envelope and computes a
\* well-keyed state (rekey_outbound, encode_connect_message).
LEMMA SendKeys ==
  ASSUME TypeOK, KeyInv, NEW t \in MsgTypes, Send(t)
  PROVE  /\ nextKey' \in Nat /\ nextKey <= nextKey'
         /\ Has(stored) /\ StateOK(stored, "dapp", nextKey')
         /\ StateOK(working, "dapp", nextKey')
         /\ Has(Outbound) /\ StateOK(Outbound, "dapp", nextKey')
         /\ AcceptOK(accepting, clientDh, log, nextKey)'
         /\ LogOK(log, nextKey)'
         /\ WalletOK'
         /\ clientDh.side = "dapp" /\ clientDh.n <= nextKey'
<1> DEFINE k == Fresh("dapp")
           e == EncodeMessage("c2w", t, Outbound, 0)
<1>1. nextKey \in Nat /\ stored \in State /\ working \in State /\ clientDh \in Key
      /\ log \in Seq(Envelope) /\ accepting \in SUBSET Key /\ clock \in Nat
  BY DEF TypeOK
<1>2. nextKey' = nextKey + 1 /\ Has(stored) /\ log' = Append(log, e)
      /\ UNCHANGED <<clientDh, accepting, wstate, page, inbox>>
  BY DEF Send, GenerateDhKeypair, AddContextText, KeyInv, DappOK, walletVars
<1>3. k \in Key /\ k.side = "dapp" /\ k.n = nextKey + 1 /\ NextOutboundSeq(stored) \in Nat
  BY <1>1, FreshType, SeqType DEF Fresh, Side
<1>4. StateOK(Outbound, "dapp", nextKey + 1) /\ Has(Outbound)
  BY <1>1, <1>2, <1>3, OutboundOK DEF Outbound, KeyInv, DappOK, Side
<1>5. Outbound \in State /\ Outbound.my = k /\ Outbound.peer = stored.peer
  BY <1>1, <1>3, RekeyType DEF Outbound, RekeyOutbound
<1>6. stored.peer.n \in Nat /\ stored.peer.n <= nextKey
  BY <1>1 DEF KeyInv, DappOK, StateOK, State, Key
<1>7. e \in Envelope /\ EnvelopeOK(e, nextKey + 1) /\ e.dh = k
  <2>1. e \in Envelope
    BY <1>1, <1>5, EncodeType
  <2>2. Last(Outbound.root) = {Outbound.my, Outbound.peer}
    BY <1>4 DEF StateOK
  <2>3. Outbound.peer.n < Outbound.my.n /\ Outbound.my.n <= nextKey + 1
    BY <1>1, <1>3, <1>5, <1>6
  <2> QED BY <2>1, <2>2, <2>3, <1>1, <1>3, <1>4, <1>5, EncodeOK
<1> HIDE DEF e, k
<1>8. LogOK(Append(log, e), nextKey + 1)
  <2>1. \A i \in 1..Len(log) : log[i].dh # e.dh
    BY <1>1, <1>3, <1>7, FreshUnused DEF KeyInv
  <2> QED BY <2>1, <1>1, <1>7, LogAppend DEF KeyInv
<1>9. AcceptOK(accepting, clientDh, Append(log, e), nextKey + 1)
  <2>1. e.dh \notin accepting
    BY <1>1, <1>3, <1>7 DEF KeyInv, AcceptOK
  <2> QED BY <2>1, <1>1, <1>7, AcceptAppend DEF KeyInv
<1>10. StateOK(stored, "dapp", nextKey + 1) /\ StateOK(working, "dapp", nextKey + 1)
  BY <1>1, StateMono DEF KeyInv, DappOK
<1>11. WalletOK'
  BY <1>1, <1>2, WalletMono DEF KeyInv
<1>12. clientDh.side = "dapp" /\ clientDh.n <= nextKey + 1
  BY <1>1 DEF KeyInv, DappOK, Key
<1> QED BY <1>1, <1>2, <1>4, <1>8, <1>9, <1>10, <1>11, <1>12
\* The key of a logged envelope is known, and its side follows from dir.
LEMMA LoggedKey ==
  ASSUME TypeOK, KeyInv, NEW i \in 1..Len(log)
  PROVE  /\ log[i].dh \in Key /\ log[i].dh.n <= nextKey /\ log[i].seq \in Nat
         /\ log[i].dir = "c2w" => log[i].dh.side # "wallet"
         /\ log[i].dir = "w2c" => log[i].dh.side # "dapp"
<1>1. log[i].dh \in Key /\ log[i].seq \in Nat
  BY LogEntry
<1>2. EnvelopeOK(log[i], nextKey)
  BY DEF KeyInv, LogOK
<1> QED BY <1>1, <1>2 DEF EnvelopeOK

\* The accepts are untouched by a step that changes nothing they read.
LEMMA AcceptSame ==
  ASSUME KeyInv, accepting' \subseteq accepting, UNCHANGED <<clientDh, log, nextKey>>
  PROVE  AcceptOK(accepting, clientDh, log, nextKey)' /\ LogOK(log, nextKey)'
BY DEF KeyInv, AcceptOK

\* Each step keeps every key fresh and every state keyed by its own pair.
LEMMA KeyStep == TypeOK /\ KeyInv /\ [Next]_vars => KeyInv'
<1> SUFFICES ASSUME TypeOK, KeyInv, [Next]_vars PROVE KeyInv'
  OBVIOUS
<1>0. /\ nextKey \in Nat /\ stored \in State /\ working \in State /\ wstate \in State
      /\ clientDh \in Key /\ log \in Seq(Envelope) /\ accepting \in SUBSET Key
      /\ clock \in Nat /\ page.st \in State
      /\ DappOK /\ WalletOK /\ nextKey <= nextKey
      /\ AcceptOK(accepting, clientDh, log, nextKey) /\ LogOK(log, nextKey)
  BY DEF TypeOK, KeyInv
<1>1. CASE Tick
  <2>1. UNCHANGED <<nextKey, owner, log, phase, clientDh, stored, working, accepting,
                    wstate, page, inbox>>
    BY <1>1 DEF Tick, chainVars, dappVars, walletVars
  <2> QED BY <1>0, <2>1, AcceptSame, DappMono, WalletMono DEF KeyInv, DappOK
<1>2. CASE CreateSharedKeySession
  <2>1. /\ phase = "new" /\ phase' = "linked" /\ nextKey' = nextKey + 1
        /\ clientDh' = Fresh("dapp")
        /\ UNCHANGED <<log, stored, working, accepting, wstate, page, inbox>>
    BY <1>2 DEF CreateSharedKeySession, GenerateDhKeypair, chainVars, walletVars
  <2>2. WalletOK'
    BY <1>0, <2>1, WalletMono
  <2>3. accepting' = {}
    BY <1>0, <2>1 DEF DappOK
  <2>4. LogOK(log, nextKey)'
    BY <1>0, <2>1, LogMono
  <2>5. StateOK(stored, "dapp", nextKey)' /\ StateOK(working, "dapp", nextKey)'
    BY <1>0, <2>1, StateMono DEF DappOK
  <2>6. clientDh'.side = "dapp" /\ clientDh'.n <= nextKey'
    BY <1>0, <2>1 DEF Fresh
  <2> QED BY <2>1, <2>2, <2>3, <2>4, <2>5, <2>6 DEF KeyInv, DappOK, AcceptOK
<1>3. CASE WaitWalletHello
  <2>1. PICK i \in Hellos : stored' = InitialState(clientDh, log[i].dh, log[i].seq, 0)
    BY <1>3 DEF WaitWalletHello
  <2>2. i \in 1..Len(log) /\ log[i].dir = "w2c"
    BY DEF Hellos, Window
  <2>3. log[i].dh \in Key /\ log[i].dh.n <= nextKey /\ log[i].dh.side # "dapp"
    BY <2>2, LoggedKey
  <2>4. StateOK(stored', "dapp", nextKey) /\ Has(stored')
    BY <1>0, <2>1, <2>3, InitialStateOK DEF DappOK
  <2>5. /\ phase' = "connected"
        /\ UNCHANGED <<nextKey, log, clientDh, working, accepting, wstate, page, inbox>>
    BY <1>3 DEF WaitWalletHello, chainVars, walletVars
  <2> QED BY <1>0, <2>4, <2>5, AcceptSame, WalletMono DEF KeyInv, DappOK
<1>4. CASE AcceptBegin
  <2>1. /\ phase # "new" /\ nextKey' = nextKey + 1
        /\ accepting' = accepting \cup {Fresh("wallet")}
        /\ UNCHANGED <<log, phase, clientDh, stored, working, wstate, page, inbox>>
    BY <1>4 DEF AcceptBegin, GenerateDhKeypair, chainVars, dappVars
  <2>2. DappOK' /\ WalletOK' /\ LogOK(log, nextKey)'
    BY <1>0, <2>1, DappMono, WalletMono, LogMono
  <2>3. Fresh("wallet") \in Key /\ Fresh("wallet").side = "wallet"
        /\ Fresh("wallet").n = nextKey + 1
    BY <1>0, FreshType DEF Fresh, Side
  <2>4. ASSUME NEW k \in accepting'
        PROVE  /\ k.side = "wallet" /\ clientDh.n < k.n /\ k.n <= nextKey + 1
               /\ \A i \in 1..Len(log) : log[i].dh # k
    <3>1. CASE k \in accepting
      <4>1. k \in Key
        BY <1>0, <3>1
      <4>2. k.n \in Nat
        BY <4>1 DEF Key
      <4> QED BY <1>0, <3>1, <4>2 DEF AcceptOK
    <3>2. CASE k = Fresh("wallet")
      <4>1. \A i \in 1..Len(log) : log[i].dh # k
        BY <1>0, <2>3, <3>2, FreshUnused
      <4>2. clientDh.n \in Nat /\ clientDh.n <= nextKey
        BY <1>0 DEF DappOK, Key
      <4> QED BY <1>0, <2>3, <3>2, <4>1, <4>2
    <3> QED BY <2>1, <3>1, <3>2
  <2>5. AcceptOK(accepting, clientDh, log, nextKey)'
    BY <2>1, <2>4 DEF AcceptOK
  <2> QED BY <2>2, <2>5 DEF KeyInv
<1>5. CASE Accepting
  <2>1. PICK k \in accepting : AcceptDeploy(k) \/ AcceptHello(k) \/ AcceptFail(k)
    BY <1>5 DEF Accepting
  <2>2. k \in Key /\ k.side = "wallet" /\ clientDh.n < k.n /\ k.n <= nextKey
        /\ \A i \in 1..Len(log) : log[i].dh # k
    BY <1>0 DEF AcceptOK
  <2>3. CASE AcceptDeploy(k)
    <3>1. UNCHANGED <<nextKey, log, phase, clientDh, stored, working, accepting,
                      wstate, page, inbox>>
      BY <2>3 DEF AcceptDeploy, dappVars, walletVars
    <3> QED BY <1>0, <3>1, AcceptSame, DappMono, WalletMono DEF KeyInv, DappOK
  <2>4. CASE AcceptHello(k)
    <3> DEFINE s == InitialState(k, clientDh, 0, clock)
               e == EncodeMessage("w2c", "wallet_hello", s, 0)
    <3>1. /\ log' = Append(log, e) /\ accepting' = accepting \ {k}
          /\ UNCHANGED <<nextKey, phase, clientDh, stored, working>>
          /\ \/ wstate' = s /\ inbox' = {} /\ page' = NoPage
             \/ UNCHANGED <<wstate, inbox, page>>
      BY <2>4 DEF AcceptHello, WalletHello, AddContextText, dappVars
    <3>2. s \in State /\ s.my = k /\ s.peer = clientDh
      BY <1>0, <2>2, InitialStateType DEF InitialState
    <3>3. StateOK(s, "wallet", nextKey) /\ Has(s)
      <4>1. clientDh.side # "wallet" /\ clientDh.n <= nextKey
        BY <1>0 DEF DappOK
      <4> QED BY <1>0, <2>2, <4>1, InitialStateOK
    <3>4. e \in Envelope
      BY <1>0, <3>2, EncodeType DEF MsgTypes
    <3>5. EnvelopeOK(e, nextKey) /\ e.dh = k
      <4>1. Last(s.root) = {s.my, s.peer}
        BY <3>3 DEF StateOK
      <4> HIDE DEF s
      <4> QED BY <1>0, <2>2, <3>2, <3>3, <4>1, EncodeOK
    <3> HIDE DEF s, e
    <3>6. LogOK(Append(log, e), nextKey)
      BY <1>0, <2>2, <3>4, <3>5, LogAppend
    <3>7. AcceptOK(accepting', clientDh, Append(log, e), nextKey)
      <4>1. AcceptOK(accepting', clientDh, log, nextKey) /\ accepting' \in SUBSET Key
            /\ e.dh \notin accepting'
        BY <1>0, <3>1, <3>5 DEF AcceptOK
      <4> QED BY <1>0, <3>4, <4>1, AcceptAppend
    <3>8. WalletOK'
      <4>1. CASE wstate' = s /\ inbox' = {} /\ page' = NoPage
        BY <1>0, <3>1, <3>3, <4>1, NoStateOK DEF WalletOK, NoPage, Idle
      <4>2. CASE UNCHANGED <<wstate, inbox, page>>
        BY <1>0, <3>1, <4>2, WalletMono
      <4> QED BY <3>1, <4>1, <4>2
    <3>9. DappOK'
      BY <1>0, <3>1, DappMono DEF DappOK
    <3> QED BY <3>1, <3>6, <3>7, <3>8, <3>9 DEF KeyInv
  <2>5. CASE AcceptFail(k)
    <3>1. /\ accepting' = accepting \ {k}
          /\ UNCHANGED <<nextKey, log, phase, clientDh, stored, working, wstate, page, inbox>>
      BY <2>5 DEF AcceptFail, chainVars, dappVars
    <3> QED BY <1>0, <3>1, AcceptSame, DappMono, WalletMono DEF KeyInv, DappOK
  <2> QED BY <2>1, <2>3, <2>4, <2>5
<1>6. ASSUME NEW t \in MsgTypes, Send(t),
             stored' \in {stored, Outbound, NoState}, working' \in {working, Outbound, NoState},
             phase' = "connected" => stored' # NoState, phase' # "new"
      PROVE  KeyInv'
  <2>1. UNCHANGED <<clientDh, accepting>>
    BY <1>6 DEF Send, walletVars
  <2>2. StateOK(stored', "dapp", nextKey') /\ StateOK(working', "dapp", nextKey')
    BY <1>6, SendKeys, NoStateOK
  <2>3. phase' = "connected" => Has(stored')
    BY <1>6, SendKeys
  <2>4. DappOK'
    BY <1>6, <2>1, <2>2, <2>3, SendKeys DEF DappOK
  <2> QED BY <1>6, <2>4, SendKeys DEF KeyInv
<1>7. CASE RequestSetMiningKeys
  <2>1. Send("set_mining_keys") /\ stored' = Outbound /\ UNCHANGED <<phase, working>>
    BY <1>7 DEF RequestSetMiningKeys
  <2>2. phase = "connected" /\ Outbound # NoState
    BY <2>1, SendKeys DEF Send, MsgTypes, Has, NoState
  <2> QED BY <1>6, <2>1, <2>2 DEF MsgTypes
<1>8. CASE RequestSignChallenge
  <2>1. Send("sign_challenge") /\ stored' = stored /\ working' = Outbound
        /\ UNCHANGED phase
    BY <1>8 DEF RequestSignChallenge
  <2>2. phase = "connected" /\ Outbound # NoState /\ stored # NoState
    BY <2>1, SendKeys DEF Send, MsgTypes, Has, NoState
  <2> QED BY <1>6, <2>1, <2>2 DEF MsgTypes
<1>s. CASE SignChallengeSent
  <2>1. /\ Has(working) /\ stored' \in {stored, working}
        /\ UNCHANGED <<nextKey, log, phase, clientDh, working, accepting, wstate, page, inbox>>
    BY <1>s DEF SignChallengeSent, chainVars, walletVars
  <2>2. DappOK'
    BY <1>0, <2>1 DEF DappOK
  <2> QED BY <1>0, <2>1, <2>2, AcceptSame, WalletMono DEF KeyInv
<1>9. CASE DisconnectSession
  <2>1. Send("client_disconnect") /\ stored' = NoState /\ working' = NoState
        /\ phase' = "closed"
    BY <1>9 DEF DisconnectSession
  <2> QED BY <1>6, <2>1 DEF MsgTypes
<1>10. ASSUME NEW t \in {"set_mining_keys", "sign_challenge"}, SendUnacknowledged(t)
       PROVE  KeyInv'
  <2>1. Send(t) /\ t \in MsgTypes /\ UNCHANGED <<stored, working, phase>>
    BY <1>10 DEF SendUnacknowledged, MsgTypes
  <2>2. phase = "connected" /\ stored # NoState
    BY <2>1, SendKeys DEF Send, Has, NoState
  <2> QED BY <1>6, <2>1, <2>2
<1>11. CASE Waiting \/ WaitTimesOut
  <2>1. CASE WaitFinds
    <3>1. PICK i \in Hits(working, Responses) :
            stored' = RekeyInbound(working, log[i].dh, log[i].seq)
      BY <2>1 DEF WaitFinds
    <3>2. i \in 1..Len(log) /\ log[i].dir = "w2c"
      BY DEF Hits, Responses, Candidates, Window
    <3>3. log[i].dh \in Key /\ log[i].dh.n <= nextKey /\ log[i].dh.side # "dapp"
          /\ log[i].seq \in Nat
      BY <3>2, LoggedKey
    <3>4. /\ Has(working) /\ working' = NoState
          /\ UNCHANGED <<nextKey, log, phase, clientDh, accepting, wstate, page, inbox>>
      BY <2>1 DEF WaitFinds, WaitEnds, chainVars, walletVars
    <3>5. StateOK(stored', "dapp", nextKey) /\ Has(stored')
      BY <1>0, <3>1, <3>3, <3>4, InboundOK DEF DappOK, Side
    <3>6. StateOK(working', "dapp", nextKey)
      BY <1>0, <3>4, NoStateOK
    <3>7. DappOK'
      BY <1>0, <3>4, <3>5, <3>6 DEF DappOK
    <3> QED BY <1>0, <3>4, <3>7, AcceptSame, WalletMono DEF KeyInv
  <2>2. CASE WaitDesync
    <3>1. /\ stored' = NoState /\ working' = NoState /\ phase' = "closed"
          /\ UNCHANGED <<nextKey, log, clientDh, accepting, wstate, page, inbox>>
      BY <2>2 DEF WaitDesync, WaitEnds, chainVars, walletVars
    <3>2. DappOK'
      BY <1>0, <3>1, NoStateOK DEF DappOK
    <3> QED BY <1>0, <3>1, <3>2, AcceptSame, WalletMono DEF KeyInv
  <2>3. CASE WaitAborts \/ WaitTimesOut
    <3>1. /\ working' = NoState
          /\ UNCHANGED <<nextKey, log, phase, clientDh, stored, accepting, wstate, page, inbox>>
      BY <2>3 DEF WaitAborts, WaitTimesOut, WaitEnds, chainVars, walletVars
    <3>2. DappOK'
      BY <1>0, <3>1, NoStateOK DEF DappOK
    <3> QED BY <1>0, <3>1, <3>2, AcceptSame, WalletMono DEF KeyInv
  <2> QED BY <1>11, <2>1, <2>2, <2>3 DEF Waiting
<1>12. CASE Query \/ QueryLost
  <2>0. UNCHANGED <<nextKey, log, phase, clientDh, stored, working, accepting>>
    BY <1>12 DEF Query, QueryBegin, QueryRecord, QueryEnd, QueryLost, WalletUnchanged,
                 chainVars, dappVars
  <2>1. DappOK' /\ AcceptOK(accepting, clientDh, log, nextKey)' /\ LogOK(log, nextKey)'
    BY <1>0, <2>0, AcceptSame, DappMono DEF DappOK
  <2>2. CASE QueryBegin
    <3>1. Has(wstate) /\ page'.st = wstate /\ inbox' = {} /\ wstate' = wstate
      BY <2>2 DEF QueryBegin
    <3>2. WalletOK'
      BY <1>0, <2>0, <3>1 DEF WalletOK
    <3> QED BY <2>1, <3>2 DEF KeyInv
  <2>3. CASE QueryRecord
    <3> DEFINE after == RekeyInbound(page.st, log[page.next].dh, log[page.next].seq)
    <3>1. page.next \in 1..Len(log) /\ Has(page.st) /\ wstate' = wstate
      BY <1>0, <2>3 DEF QueryRecord, Idle, TypeOK, WalletOK
    <3>2. CASE log[page.next].dir = "c2w" /\ Opens(page.st, log[page.next])
      <4>1. log[page.next].dh \in Key /\ log[page.next].dh.n <= nextKey
            /\ log[page.next].dh.side # "wallet" /\ log[page.next].seq \in Nat
        BY <3>1, <3>2, LoggedKey
      <4>2. StateOK(after, "wallet", nextKey) /\ Has(after)
        BY <1>0, <3>1, <4>1, InboundOK DEF WalletOK, Side
      <4>3. page'.st = after /\ inbox' = inbox \cup {[idx |-> page.next, after |-> after]}
        BY <2>3, <3>2 DEF QueryRecord, NextRecord
      <4> HIDE DEF after
      <4>4. \A m \in inbox' : StateOK(m.after, "wallet", nextKey)
        BY <1>0, <4>2, <4>3 DEF WalletOK
      <4>5. WalletOK'
        BY <1>0, <2>0, <3>1, <4>2, <4>3, <4>4 DEF WalletOK
      <4> QED BY <2>1, <4>5 DEF KeyInv
    <3>3. CASE ~(log[page.next].dir = "c2w" /\ Opens(page.st, log[page.next]))
      <4>1. page'.st = page.st
            /\ inbox' \subseteq inbox \cup {[idx |-> page.next, after |-> NoState]}
        BY <2>3, <3>3 DEF QueryRecord, NextRecord
      <4>2. \A m \in inbox' : StateOK(m.after, "wallet", nextKey)
        BY <1>0, <4>1, NoStateOK DEF WalletOK
      <4>3. WalletOK'
        BY <1>0, <2>0, <3>1, <4>1, <4>2 DEF WalletOK
      <4> QED BY <2>1, <4>3 DEF KeyInv
    <3> QED BY <3>2, <3>3
  <2>4. CASE QueryEnd
    <3>1. wstate' = page.st /\ page' = NoPage /\ inbox' = inbox
      BY <2>4 DEF QueryEnd
    <3>2. WalletOK'
      BY <1>0, <2>0, <3>1, NoStateOK DEF WalletOK, NoPage, Idle
    <3> QED BY <2>1, <3>2 DEF KeyInv
  <2>5. CASE QueryLost
    <3>1. wstate' = wstate /\ page' = NoPage /\ inbox' = {}
      BY <2>5 DEF QueryLost
    <3>2. WalletOK'
      BY <1>0, <2>0, <3>1, NoStateOK DEF WalletOK, NoPage, Idle
    <3> QED BY <2>1, <3>2 DEF KeyInv
  <2> QED BY <1>12, <2>2, <2>3, <2>4, <2>5 DEF Query
<1>13. CASE Responding
  <2>1. PICK m \in inbox : RespondToChallenge(m)
    BY <1>13 DEF Responding
  <2> DEFINE base == ResponseBase(m)
             k == Fresh("wallet")
             s == RekeyOutbound(base, k, NextOutboundSeq(base))
             e == EncodeMessage("w2c", "challenge_response", s, m.idx)
  <2>2. /\ Has(base) /\ log' = Append(log, e) /\ nextKey' = nextKey + 1
        /\ UNCHANGED <<phase, clientDh, stored, working, accepting, page>>
        /\ wstate' \in {wstate, s} /\ inbox' \subseteq inbox
    BY <2>1 DEF RespondToChallenge, ChallengeResponse, AddContextText, GenerateDhKeypair, dappVars
  <2>3. m.after \in State /\ m.idx \in Nat /\ StateOK(m.after, "wallet", nextKey)
    BY <1>0 DEF TypeOK, WalletOK
  <2>4. base \in State /\ StateOK(base, "wallet", nextKey)
    BY <1>0, <2>3 DEF ResponseBase, WalletOK
  <2>5. k \in Key /\ k.side = "wallet" /\ k.n = nextKey + 1 /\ NextOutboundSeq(base) \in Nat
    BY <1>0, <2>4, FreshType, SeqType DEF Fresh, Side
  <2>6. s \in State /\ s.my = k /\ s.peer = base.peer
    BY <2>4, <2>5, RekeyType DEF RekeyOutbound
  <2>7. StateOK(s, "wallet", nextKey + 1) /\ Has(s)
    BY <1>0, <2>2, <2>4, <2>5, OutboundOK DEF Side
  <2> HIDE DEF base, k, s
  <2>8. e \in Envelope /\ EnvelopeOK(e, nextKey + 1) /\ e.dh = k
    <3>1. e \in Envelope
      BY <1>0, <2>3, <2>6, EncodeType DEF MsgTypes
    <3>2. base.peer.n \in Nat /\ base.peer.n <= nextKey
      BY <2>4 DEF StateOK, State, Key
    <3>3. Last(s.root) = {s.my, s.peer}
      BY <2>7 DEF StateOK
    <3>4. s.peer.n < s.my.n /\ s.my.n <= nextKey + 1 /\ s.my.side # "dapp"
      BY <1>0, <2>5, <2>6, <3>2
    <3> QED BY <1>0, <2>6, <2>7, <3>1, <3>3, <3>4, EncodeOK
  <2> HIDE DEF e
  <2>9. LogOK(Append(log, e), nextKey + 1)
    <3>1. \A i \in 1..Len(log) : log[i].dh # e.dh
      BY <1>0, <2>5, <2>8, FreshUnused
    <3> QED BY <1>0, <2>8, <3>1, LogAppend
  <2>10. AcceptOK(accepting, clientDh, Append(log, e), nextKey + 1)
    <3>1. e.dh \notin accepting
      BY <1>0, <2>5, <2>8 DEF AcceptOK
    <3> QED BY <1>0, <2>8, <3>1, AcceptAppend
  <2>11. WalletOK'
    <3>1. /\ StateOK(wstate, "wallet", nextKey + 1) /\ StateOK(page.st, "wallet", nextKey + 1)
      BY <1>0, StateMono DEF WalletOK
    <3>2. \A x \in inbox : StateOK(x.after, "wallet", nextKey + 1)
      <4>1. \A x \in inbox : x.after \in State
        BY DEF TypeOK
      <4> QED BY <1>0, <4>1, StateMono DEF WalletOK
    <3> QED BY <1>0, <2>2, <2>7, <3>1, <3>2 DEF WalletOK, Idle
  <2>12. DappOK'
    BY <1>0, <2>2, DappMono DEF DappOK
  <2> QED BY <2>2, <2>9, <2>10, <2>11, <2>12 DEF KeyInv
<1>14. CASE WaitSetMiningKeys
  <2>1. PICK i \in Hits(wstate, Candidates("c2w", "set_mining_keys", 0)) :
          wstate' = RekeyInbound(wstate, log[i].dh, log[i].seq)
    BY <1>14 DEF WaitSetMiningKeys
  <2>2. i \in 1..Len(log) /\ log[i].dir = "c2w"
    BY DEF Hits, Candidates, Window
  <2>3. log[i].dh \in Key /\ log[i].dh.n <= nextKey /\ log[i].dh.side # "wallet"
        /\ log[i].seq \in Nat
    BY <2>2, LoggedKey
  <2>4. /\ Has(wstate) /\ inbox' = {}
        /\ UNCHANGED <<nextKey, log, phase, clientDh, stored, working, accepting, page>>
    BY <1>14 DEF WaitSetMiningKeys, WalletUnchanged, chainVars, dappVars
  <2>5. StateOK(wstate', "wallet", nextKey)
    BY <1>0, <2>1, <2>3, <2>4, InboundOK DEF WalletOK, Side
  <2>6. WalletOK'
    BY <1>0, <2>4, <2>5 DEF WalletOK, Idle
  <2> QED BY <1>0, <2>4, <2>6, AcceptSame, DappMono DEF KeyInv, DappOK
<1>15. CASE DestroyConnectProfile
  <2>1. /\ wstate' = NoState /\ inbox' = {}
        /\ UNCHANGED <<nextKey, log, phase, clientDh, stored, working, accepting, page>>
    BY <1>15 DEF DestroyConnectProfile, dappVars
  <2>2. WalletOK'
    BY <1>0, <2>1, NoStateOK DEF WalletOK, Idle
  <2> QED BY <1>0, <2>1, <2>2, AcceptSame, DappMono DEF KeyInv, DappOK
<1>16. CASE UNCHANGED vars
  <2>1. UNCHANGED <<nextKey, log, phase, clientDh, stored, working, accepting,
                    wstate, page, inbox>>
    BY <1>16 DEF vars, chainVars, dappVars, walletVars
  <2> QED BY <1>0, <2>1, AcceptSame, DappMono, WalletMono DEF KeyInv, DappOK
<1> QED
  BY <1>1, <1>2, <1>3, <1>4, <1>5, <1>7, <1>8, <1>9, <1>10, <1>11, <1>12, <1>13,
     <1>14, <1>15, <1>16, <1>s DEF Next

\* The key invariant holds from the start.
LEMMA KeyInit == Init => KeyInv
<1> SUFFICES ASSUME Init PROVE KeyInv
  OBVIOUS
<1>1. StateOK(NoState, "dapp", 0) /\ StateOK(NoState, "wallet", 0)
  BY NoStateOK
<1>2. DappOK
  BY <1>1 DEF Init, DappOK, NoKey
<1>3. WalletOK
  BY <1>1 DEF Init, WalletOK, NoPage, Idle
<1>4. AcceptOK(accepting, clientDh, log, nextKey)
  BY DEF Init, AcceptOK
<1>5. LogOK(log, nextKey)
  BY DEF Init, LogOK
<1> QED BY <1>2, <1>3, <1>4, <1>5 DEF KeyInv

\* Fresh keys make roots unique: equal roots end in the same pair of keys,
\* and each envelope's own key is younger than its partner.
LEMMA KeysMakeRootsUnique == TypeOK /\ KeyInv => RootsNeverReused
<1> SUFFICES ASSUME TypeOK, KeyInv, NEW i \in 1..Len(log), NEW j \in 1..Len(log),
                    log[i].root = log[j].root
             PROVE  i = j
  BY DEF RootsNeverReused
<1>1. EnvelopeOK(log[i], nextKey) /\ EnvelopeOK(log[j], nextKey)
  BY DEF KeyInv, LogOK
<1>2. PICK p : p.n < log[i].dh.n /\ Last(log[i].root) = {log[i].dh, p}
  BY <1>1 DEF EnvelopeOK
<1>3. PICK q : q.n < log[j].dh.n /\ Last(log[j].root) = {log[j].dh, q}
  BY <1>1 DEF EnvelopeOK
<1>4. {log[i].dh, p} = {log[j].dh, q}
  BY <1>2, <1>3
<1>5. log[i].dh.n \in Nat /\ log[j].dh.n \in Nat
  BY LogEntry DEF Key
<1>6. log[i].dh = log[j].dh
  <2>1. SUFFICES ASSUME log[i].dh # log[j].dh PROVE FALSE
    OBVIOUS
  <2>2. log[i].dh = q /\ log[j].dh = p
    BY <1>4, <2>1
  <2> QED BY <1>2, <1>3, <1>5, <2>2
<1> QED BY <1>6 DEF KeyInv, LogOK

\* One key of each side makes equal roots interlock.
LEMMA KeysInterlock == TypeOK /\ KeyInv => EqualRootsInterlock
<1> SUFFICES ASSUME TypeOK, KeyInv, NEW c \in DappStates, NEW w \in WalletStates,
                    Has(c), c.root = w.root
             PROVE  c.my = w.peer /\ c.peer = w.my
  BY DEF EqualRootsInterlock
<1>1. StateOK(c, "dapp", nextKey) /\ StateOK(w, "wallet", nextKey) /\ Has(w)
  BY DEF KeyInv, DappOK, WalletOK, DappStates, WalletStates, Has
<1>2. {c.my, c.peer} = {w.my, w.peer} /\ c.my.side = "dapp" /\ c.peer.side # "dapp"
      /\ w.my.side = "wallet" /\ w.peer.side # "wallet"
  BY <1>1 DEF StateOK
<1>3. c.my # w.my
  BY <1>2
<1> QED BY <1>2, <1>3

\* TypeOK and KeyInv hold in every reachable state.
THEOREM KeysFresh == Spec => [](TypeOK /\ KeyInv)
<1>1. Init => KeyInv
  BY KeyInit
<1>2. TypeOK /\ KeyInv /\ [Next]_vars => KeyInv'
  BY KeyStep
<1> QED BY <1>1, <1>2, TypeCorrect, PTL DEF Spec

\* No two messages are ever encrypted under the same root, for every log
\* length, caller discipline and set of faults (rekey_outbound).
THEOREM RootsUnique == Spec => []RootsNeverReused
BY KeysFresh, KeysMakeRootsUnique, PTL

\* Sides with equal roots hold matching key pairs, for every log length,
\* caller discipline and set of faults (rekey_outbound, rekey_inbound).
THEOREM RootsInterlock == Spec => []EqualRootsInterlock
BY KeysFresh, KeysInterlock, PTL

-----------------------------------------------------------------------------
(***************************************************************************)
(* 2. The protocol implements SessionTree.                                 *)
(***************************************************************************)

-----------------------------------------------------------------------------
(* The log as a tree of messages. *)

\* A message of l is written under the root.
Written(l, root) == \E i \in 1..Len(l) : l[i].root = root

\* Every message continues a root under which an earlier one was written,
\* or opens a session, and no root is used twice.
Linked(l) ==
  /\ \A i \in 1..Len(l) : /\ l[i].root # <<>>
                          /\ Front(l[i].root) = <<>> \/ Written(l, Front(l[i].root))
  /\ \A i, j \in 1..Len(l) : l[i].root = l[j].root => i = j

\* Whatever state is held, a message was written under its root.
HeldOK ==
  /\ \A r \in Roots(DappStates) : Written(log, r)
  /\ \A r \in Roots(WalletStates) : Written(log, r)

\* Dropping the shared secret of the last re-key leaves the previous root.
LEMMA FrontAppend ==
  ASSUME NEW r \in Root, NEW x \in SUBSET Key
  PROVE  Front(Append(r, x)) = r /\ Append(r, x) # <<>>
<1> DEFINE a == Append(r, x)
<1>1. a \in Seq(SUBSET Key) /\ r \in Seq(SUBSET Key) /\ Len(a) = Len(r) + 1
      /\ Len(r) \in Nat /\ \A i \in 1..Len(r) : a[i] = r[i]
  BY DEF Root
<1> HIDE DEF a
<1>2. Front(a) = SubSeq(a, 1, Len(r))
  BY <1>1 DEF Front
<1>3. Front(a) \in Seq(SUBSET Key) /\ Len(Front(a)) = Len(r)
      /\ \A i \in 1..Len(r) : Front(a)[i] = a[i]
  BY <1>1, <1>2, SubSeqProperties
<1>4. Front(a) = r
  BY <1>1, <1>3, SeqEqual
<1> QED BY <1>1, <1>4, LastAppend DEF a

\* A root is found at the message written under it.
LEMMA AtWritten ==
  ASSUME NEW l, Linked(l), NEW i \in 1..Len(l)
  PROVE  At(l, l[i].root) = i
BY DEF Linked, At

\* A further message with a root of its own moves no other.
LEMMA AtAppend ==
  ASSUME NEW l \in Seq(Envelope), NEW e \in Envelope, Linked(l), Linked(Append(l, e)),
         NEW r, r = <<>> \/ Written(l, r)
  PROVE  At(Append(l, e), r) = At(l, r)
<1>1. CASE r = <<>>
  BY <1>1 DEF At
<1>2. CASE Written(l, r)
  <2>1. PICK i \in 1..Len(l) : l[i].root = r
    BY <1>2 DEF Written
  <2>2. i \in 1..Len(Append(l, e)) /\ Append(l, e)[i].root = r
    BY <2>1
  <2> QED BY <2>1, <2>2, AtWritten
<1> QED BY <1>1, <1>2

\* The tree after a write has one message more.
LEMMA MessagesAppend ==
  ASSUME NEW l \in Seq(Envelope), NEW e \in Envelope, Linked(l), Linked(Append(l, e)),
         Front(e.root) = <<>> \/ Written(l, Front(e.root))
  PROVE  Messages(Append(l, e)) =
           Append(Messages(l), [by |-> IF e.dir = "c2w" THEN "dapp" ELSE "wallet",
                                parent |-> At(l, Front(e.root))])
<1> DEFINE a == Append(l, e)
           n == [by |-> IF e.dir = "c2w" THEN "dapp" ELSE "wallet",
                 parent |-> At(l, Front(e.root))]
           M(x, i) == [by |-> IF x[i].dir = "c2w" THEN "dapp" ELSE "wallet",
                       parent |-> At(x, Front(x[i].root))]
<1>1. Len(l) \in Nat /\ Len(a) = Len(l) + 1 /\ a[Len(l) + 1] = e
      /\ \A i \in 1..Len(l) : a[i] = l[i]
  OBVIOUS
<1>2. \A i \in 1..Len(l) : At(a, Front(l[i].root)) = At(l, Front(l[i].root))
  BY AtAppend DEF Linked
<1>3. At(a, Front(e.root)) = At(l, Front(e.root))
  BY AtAppend
<1>4. Messages(l) = [i \in 1..Len(l) |-> M(l, i)] /\ Messages(a) = [i \in 1..Len(a) |-> M(a, i)]
  BY DEF Messages
<1>5. \A i \in 1..Len(l) : M(a, i) = M(l, i)
  BY <1>1, <1>2
<1>6. M(a, Len(l) + 1) = n
  BY <1>1, <1>3
<1> HIDE DEF M, n, a
<1> DEFINE S == {M(l, i) : i \in 1..Len(l)} \cup {n}
           m == Messages(l)
           b == Messages(a)
<1>7. m \in Seq(S) /\ Len(m) = Len(l) /\ n \in S /\ \A i \in 1..Len(l) : m[i] = M(l, i)
  BY <1>1, <1>4
<1>8. b \in Seq(S) /\ Len(b) = Len(l) + 1
      /\ b[Len(l) + 1] = n /\ \A i \in 1..Len(l) : b[i] = M(l, i)
  BY <1>1, <1>4, <1>5, <1>6, SMTT(60)
<1> HIDE DEF S, m, b
<1>9. Append(m, n) \in Seq(S) /\ Len(Append(m, n)) = Len(l) + 1
      /\ Append(m, n)[Len(l) + 1] = n /\ \A i \in 1..Len(l) : Append(m, n)[i] = m[i]
  BY <1>7
<1>10. \A i \in 1..Len(b) : b[i] = Append(m, n)[i]
  BY <1>1, <1>7, <1>8, <1>9
<1>11. b = Append(m, n)
  BY <1>8, <1>9, <1>10, SeqEqual
<1> QED BY <1>11 DEF a, b, m, n

\* A message that continues a written root, under a root of its own, keeps
\* the log a tree.
LEMMA LinkedAppend ==
  ASSUME NEW l \in Seq(Envelope), NEW e \in Envelope, Linked(l), e.root # <<>>,
         Front(e.root) = <<>> \/ Written(l, Front(e.root)),
         \A i, j \in 1..Len(Append(l, e)) :
           Append(l, e)[i].root = Append(l, e)[j].root => i = j
  PROVE  Linked(Append(l, e))
<1> DEFINE a == Append(l, e)
<1>1. Len(l) \in Nat /\ Len(a) = Len(l) + 1 /\ a[Len(l) + 1] = e
      /\ \A i \in 1..Len(l) : a[i] = l[i]
  OBVIOUS
<1> HIDE DEF a
<1>2. ASSUME NEW r, Written(l, r) PROVE Written(a, r)
  BY <1>1, <1>2 DEF Written
<1>3. ASSUME NEW i \in 1..Len(a)
      PROVE  a[i].root # <<>> /\ (Front(a[i].root) = <<>> \/ Written(a, Front(a[i].root)))
  <2>1. CASE i \in 1..Len(l)
    BY <1>1, <1>2, <2>1 DEF Linked
  <2>2. CASE i = Len(l) + 1
    BY <1>1, <1>2, <2>2
  <2> QED BY <1>1, <2>1, <2>2
<1> QED BY <1>3 DEF Linked, a

\* What is written stays written.
LEMMA WrittenAppend ==
  ASSUME NEW l \in Seq(Envelope), NEW e \in Envelope
  PROVE  /\ \A r : Written(l, r) => Written(Append(l, e), r)
         /\ Written(Append(l, e), e.root)
<1> DEFINE a == Append(l, e)
<1>1. Len(l) \in Nat /\ Len(a) = Len(l) + 1 /\ a[Len(l) + 1] = e
      /\ \A i \in 1..Len(l) : a[i] = l[i]
  OBVIOUS
<1> HIDE DEF a
<1>2. ASSUME NEW r, Written(l, r) PROVE Written(a, r)
  BY <1>1, <1>2 DEF Written
<1>3. Len(l) + 1 \in 1..Len(a)
  BY <1>1
<1>4. Written(a, e.root)
  BY <1>1, <1>3 DEF Written
<1> QED BY <1>2, <1>4 DEF a

\* A write moves no place.
LEMMA PlacesAppend ==
  ASSUME NEW l \in Seq(Envelope), NEW e \in Envelope, Linked(l), Linked(Append(l, e)),
         NEW R, \A r \in R : Written(l, r)
  PROVE  /\ Places(Append(l, e), R) = Places(l, R)
         /\ \A R2 : R2 \subseteq R \cup {e.root} =>
               Places(Append(l, e), R2) \subseteq Places(l, R) \cup {Len(l) + 1}
<1> DEFINE a == Append(l, e)
<1>1. \A r \in R : At(a, r) = At(l, r)
  BY AtAppend
<1>2. Len(l) + 1 \in 1..Len(a) /\ a[Len(l) + 1] = e
  OBVIOUS
<1>3. At(a, e.root) = Len(l) + 1
  BY <1>2, AtWritten
<1> HIDE DEF a
<1>4. Places(a, R) = Places(l, R)
  BY <1>1 DEF Places
<1>5. ASSUME NEW R2, R2 \subseteq R \cup {e.root}
      PROVE  Places(a, R2) \subseteq Places(l, R) \cup {Len(l) + 1}
  BY <1>1, <1>3, <1>5 DEF Places
<1> QED BY <1>4, <1>5 DEF a

\* A reader that goes on from a root it holds to the root of a message that
\* continues it moves along an edge of the tree.
LEMMA PlacesRead ==
  ASSUME NEW l \in Seq(Envelope), Linked(l), NEW R, NEW R2, NEW d \in {"c2w", "w2c"},
         \A r \in R2 : r \in R \/ \E i \in 1..Len(l) :
           r = l[i].root /\ l[i].dir = d /\ Front(l[i].root) \in R
  PROVE  Places(l, R2) \subseteq Places(l, R) \cup
           {i \in DOMAIN Messages(l) :
              /\ Messages(l)[i].by = (IF d = "c2w" THEN "dapp" ELSE "wallet")
              /\ Messages(l)[i].parent \in Places(l, R)}
<1> SUFFICES ASSUME NEW r \in R2, r \notin R
             PROVE  /\ At(l, r) \in DOMAIN Messages(l)
                    /\ Messages(l)[At(l, r)].by = (IF d = "c2w" THEN "dapp" ELSE "wallet")
                    /\ Messages(l)[At(l, r)].parent \in Places(l, R)
  BY DEF Places
<1>1. PICK i \in 1..Len(l) : r = l[i].root /\ l[i].dir = d /\ Front(l[i].root) \in R
  OBVIOUS
<1>2. At(l, r) = i
  BY <1>1, AtWritten
<1>3. i \in DOMAIN Messages(l)
      /\ Messages(l)[i].by = (IF d = "c2w" THEN "dapp" ELSE "wallet")
      /\ Messages(l)[i].parent = At(l, Front(l[i].root))
  BY <1>1 DEF Messages
<1>4. At(l, Front(l[i].root)) \in Places(l, R)
  BY <1>1 DEF Places
<1> QED BY <1>2, <1>3, <1>4

-----------------------------------------------------------------------------
(* The four kinds of step. *)

RefInv == Linked(log) /\ HeldOK

\* Of a root newly held after a read from R: a message of direction d under
\* it continues a root of R.
ReadFrom(r, R, d) ==
  \E i \in 1..Len(log) :
    r = log[i].root /\ log[i].dir = d /\ Front(log[i].root) \in R

\* A step of the wallet that writes nothing.
LEMMA WalletReadStep ==
  ASSUME TypeOK, RefInv, UNCHANGED <<log, stored, working>>,
         \A r \in Roots(WalletStates') :
           r \in Roots(WalletStates) \/ ReadFrom(r, Roots(WalletStates), "c2w")
  PROVE  RefInv' /\ Tree!Next
<1> DEFINE R == Roots(WalletStates)
           R2 == Roots(WalletStates')
<1>1. log \in Seq(Envelope) /\ Linked(log) /\ log' = log /\ \A r \in R : Written(log, r)
  BY DEF TypeOK, RefInv, HeldOK
<1>2. DappStates' = DappStates
  BY DEF DappStates
<1>3. \A r \in R2 : r \in R \/ \E i \in 1..Len(log) :
        r = log[i].root /\ log[i].dir = "c2w" /\ Front(log[i].root) \in R
  BY DEF ReadFrom
<1>4. \A r \in R2 : Written(log, r)
  BY <1>1, <1>3 DEF Written
<1>5. RefInv'
  BY <1>1, <1>2, <1>4 DEF RefInv, HeldOK
<1> HIDE DEF R, R2
<1>6. Places(log, R2) \subseteq Places(log, R) \cup
        {i \in DOMAIN Messages(log) :
           Messages(log)[i].by = "dapp" /\ Messages(log)[i].parent \in Places(log, R)}
  BY <1>1, <1>3, PlacesRead
<1>7. Tree!WalletReads
  BY <1>1, <1>2, <1>6 DEF Tree!WalletReads, Tree!Reach, R, R2
<1> QED BY <1>5, <1>7 DEF Tree!Next

\* A step of the dApp that writes nothing.
LEMMA DappReadStep ==
  ASSUME TypeOK, RefInv, UNCHANGED <<log, wstate, page, inbox>>,
         \A r \in Roots(DappStates') :
           r \in Roots(DappStates) \/ ReadFrom(r, Roots(DappStates), "w2c")
  PROVE  RefInv' /\ Tree!Next
<1> DEFINE R == Roots(DappStates)
           R2 == Roots(DappStates')
<1>1. log \in Seq(Envelope) /\ Linked(log) /\ log' = log /\ \A r \in R : Written(log, r)
  BY DEF TypeOK, RefInv, HeldOK
<1>2. WalletStates' = WalletStates
  BY DEF WalletStates
<1>3. \A r \in R2 : r \in R \/ \E i \in 1..Len(log) :
        r = log[i].root /\ log[i].dir = "w2c" /\ Front(log[i].root) \in R
  BY DEF ReadFrom
<1>4. \A r \in R2 : Written(log, r)
  BY <1>1, <1>3 DEF Written
<1>5. RefInv'
  BY <1>1, <1>2, <1>4 DEF RefInv, HeldOK
<1> HIDE DEF R, R2
<1>6. Places(log, R2) \subseteq Places(log, R) \cup
        {i \in DOMAIN Messages(log) :
           Messages(log)[i].by = "wallet" /\ Messages(log)[i].parent \in Places(log, R)}
  BY <1>1, <1>3, PlacesRead
<1>7. Tree!DappReads
  BY <1>1, <1>2, <1>6 DEF Tree!DappReads, Tree!Reach, R, R2
<1> QED BY <1>5, <1>7 DEF Tree!Next

\* The dApp writes a message that continues a state it holds.
LEMMA DappWriteStep ==
  ASSUME TypeOK, RefInv, RootsNeverReused', UNCHANGED <<wstate, page, inbox>>,
         NEW e \in Envelope, log' = Append(log, e), e.dir = "c2w", e.root # <<>>,
         Front(e.root) \in Roots(DappStates),
         Roots(DappStates') \subseteq Roots(DappStates) \cup {e.root}
  PROVE  RefInv' /\ Tree!Next
<1> DEFINE R == Roots(DappStates)
           R2 == Roots(DappStates')
           W == Roots(WalletStates)
<1>1. log \in Seq(Envelope) /\ Linked(log)
      /\ (\A r \in R : Written(log, r)) /\ \A r \in W : Written(log, r)
  BY DEF TypeOK, RefInv, HeldOK
<1>2. WalletStates' = WalletStates
  BY DEF WalletStates
<1>3. Linked(log')
  <2>1. \A i, j \in 1..Len(Append(log, e)) :
          Append(log, e)[i].root = Append(log, e)[j].root => i = j
    BY DEF RootsNeverReused
  <2> QED BY <1>1, <2>1, LinkedAppend
<1>4. (\A r \in R2 : Written(log', r)) /\ \A r \in W : Written(log', r)
  BY <1>1, WrittenAppend
<1>5. RefInv'
  BY <1>2, <1>3, <1>4 DEF RefInv, HeldOK
<1> HIDE DEF R, R2, W
<1>6. Places(log', W) = Places(log, W)
  BY <1>1, <1>3, PlacesAppend
<1>7. Places(log', R2) \subseteq Places(log, R) \cup {Len(log) + 1}
  BY <1>1, <1>3, PlacesAppend DEF R, R2
<1>8. Messages(log') =
        Append(Messages(log), [by |-> "dapp", parent |-> At(log, Front(e.root))])
  BY <1>1, <1>3, MessagesAppend DEF R
<1>9. At(log, Front(e.root)) \in Places(log, R)
  BY DEF Places, R
<1>10. Len(Messages(log')) = Len(log) + 1
  <2>1. Len(log') = Len(log) + 1 /\ Len(log') \in Nat
    BY <1>1
  <2> QED BY <2>1 DEF Messages
<1>11. Tree!DappWrites
  BY <1>2, <1>6, <1>7, <1>8, <1>9, <1>10 DEF Tree!DappWrites, Tree!Write, R, R2, W
<1> QED BY <1>5, <1>11 DEF Tree!Next

\* The wallet writes a message that continues a state it holds, or a
\* wallet_hello.
LEMMA WalletWriteStep ==
  ASSUME TypeOK, RefInv, RootsNeverReused', UNCHANGED <<stored, working>>,
         NEW e \in Envelope, log' = Append(log, e), e.dir = "w2c", e.root # <<>>,
         Front(e.root) = <<>> \/ Front(e.root) \in Roots(WalletStates),
         Roots(WalletStates') \subseteq Roots(WalletStates) \cup {e.root}
  PROVE  RefInv' /\ Tree!Next
<1> DEFINE R == Roots(WalletStates)
           R2 == Roots(WalletStates')
           D == Roots(DappStates)
<1>1. log \in Seq(Envelope) /\ Linked(log)
      /\ (\A r \in R : Written(log, r)) /\ \A r \in D : Written(log, r)
  BY DEF TypeOK, RefInv, HeldOK
<1>2. DappStates' = DappStates
  BY DEF DappStates
<1>3. Linked(log')
  <2>1. \A i, j \in 1..Len(Append(log, e)) :
          Append(log, e)[i].root = Append(log, e)[j].root => i = j
    BY DEF RootsNeverReused
  <2> QED BY <1>1, <2>1, LinkedAppend
<1>4. (\A r \in R2 : Written(log', r)) /\ \A r \in D : Written(log', r)
  BY <1>1, WrittenAppend
<1>5. RefInv'
  BY <1>2, <1>3, <1>4 DEF RefInv, HeldOK
<1> HIDE DEF R, R2, D
<1>6. Places(log', D) = Places(log, D)
  BY <1>1, <1>3, PlacesAppend
<1>7. Places(log', R2) \subseteq Places(log, R) \cup {Len(log) + 1}
  BY <1>1, <1>3, PlacesAppend DEF R, R2
<1>8. Messages(log') =
        Append(Messages(log), [by |-> "wallet", parent |-> At(log, Front(e.root))])
  BY <1>1, <1>3, MessagesAppend DEF R
<1>9. Len(Messages(log')) = Len(log) + 1
  <2>1. Len(log') = Len(log) + 1 /\ Len(log') \in Nat
    BY <1>1
  <2> QED BY <2>1 DEF Messages
<1>10. CASE Front(e.root) = <<>>
  <2>1. At(log, Front(e.root)) = 0
    BY <1>10 DEF At
  <2>2. Tree!Open
    BY <1>2, <1>6, <1>7, <1>8, <1>9, <2>1 DEF Tree!Open, Tree!Write, R, R2, D
  <2> QED BY <1>5, <2>2 DEF Tree!Next
<1>11. CASE Front(e.root) \in R
  <2>1. At(log, Front(e.root)) \in Places(log, R)
    BY <1>11 DEF Places
  <2>2. Tree!WalletWrites
    BY <1>2, <1>6, <1>7, <1>8, <1>9, <2>1 DEF Tree!WalletWrites, Tree!Write, R, R2, D
  <2> QED BY <1>5, <2>2 DEF Tree!Next
<1> QED BY <1>10, <1>11 DEF R

-----------------------------------------------------------------------------
(* Every step of the protocol is one of them. *)

\* A message that opens for a state continues that state's root
\* (rekey_inbound, decode_connect_message_body).
LEMMA OpensContinues ==
  ASSUME NEW s \in State, NEW e \in Envelope, Opens(s, e)
  PROVE  RekeyInbound(s, e.dh, e.seq).root = e.root /\ Front(e.root) = s.root
<1>1. s.root \in Root /\ Shared(s.my, e.dh) \in SUBSET Key
  BY DEF State, Envelope, Shared
<1>2. RekeyInbound(s, e.dh, e.seq).root = Append(s.root, Shared(s.my, e.dh))
  BY DEF RekeyInbound
<1>3. RekeyInbound(s, e.dh, e.seq).root = e.root
  BY DEF Opens, Decrypts
<1> QED BY <1>1, <1>2, <1>3, FrontAppend

\* A re-keyed state continues the root it was re-keyed from (rekey_outbound).
LEMMA OutboundContinues ==
  ASSUME NEW s \in State, NEW k \in Key, NEW q
  PROVE  RekeyOutbound(s, k, q).root # <<>> /\ Front(RekeyOutbound(s, k, q).root) = s.root
<1>1. s.root \in Root /\ Shared(k, s.peer) \in SUBSET Key
  BY DEF State, Shared
<1> QED BY <1>1, FrontAppend DEF RekeyOutbound

\* The root of the handshake has no predecessor (create_initial_state).
LEMMA InitialOpens ==
  ASSUME NEW a \in Key, NEW b \in Key
  PROVE  <<Shared(a, b)>> # <<>> /\ Front(<<Shared(a, b)>>) = <<>>
<1>1. <<>> \in Root /\ Shared(a, b) \in SUBSET Key /\ <<Shared(a, b)>> = Append(<<>>, Shared(a, b))
  BY DEF Root, Shared
<1> QED BY <1>1, FrontAppend

\* wait_wallet_hello: the dApp joins a session.
LEMMA JoinStep ==
  ASSUME TypeOK, RefInv, WaitWalletHello
  PROVE  RefInv' /\ Tree!Next
<1>1. PICK i \in Hellos : stored' = InitialState(clientDh, log[i].dh, log[i].seq, 0)
  BY DEF WaitWalletHello
<1>2. UNCHANGED <<log, working, wstate, page, inbox>>
  BY DEF WaitWalletHello, chainVars, walletVars
<1>3. i \in 1..Len(log) /\ log[i].dir = "w2c" /\ log[i].root = <<Shared(clientDh, log[i].dh)>>
  BY DEF Hellos, Window, Decrypts
<1>4. log[i].dh \in Key /\ clientDh \in Key
  BY <1>3, LogEntry DEF TypeOK
<1>5. Front(log[i].root) = <<>> /\ stored'.root = log[i].root
  BY <1>1, <1>3, <1>4, InitialOpens DEF InitialState
<1> DEFINE R == Roots(DappStates)
           R2 == Roots(DappStates')
<1>6. WalletStates' = WalletStates /\ R2 \subseteq R \cup {log[i].root}
  BY <1>2, <1>5 DEF WalletStates, DappStates, Roots
<1>7. Linked(log) /\ (\A r \in R : Written(log, r)) /\ Written(log, log[i].root)
  BY <1>3 DEF RefInv, HeldOK, Written
<1>8. RefInv'
  BY <1>2, <1>6, <1>7 DEF RefInv, HeldOK
<1> HIDE DEF R, R2
<1>9. At(log, log[i].root) = i /\ At(log, Front(log[i].root)) = 0
  BY <1>3, <1>5, <1>7, AtWritten DEF At
<1>10. i \in DOMAIN Messages(log) /\ Messages(log)[i].by = "wallet"
       /\ Messages(log)[i].parent = 0
  BY <1>3, <1>9 DEF Messages
<1>11. Places(log, R2) \subseteq Places(log, R) \cup {i}
  BY <1>6, <1>9 DEF Places
<1>12. Tree!Join
  BY <1>2, <1>6, <1>10, <1>11 DEF Tree!Join, Tree!Reach, R, R2
<1> QED BY <1>8, <1>12 DEF Tree!Next

\* request_set_mining_keys, request_sign_challenge, disconnect_session, and
\* each of them without an answer.
LEMMA SendStep ==
  ASSUME TypeOK, KeyInv, RefInv, RootsNeverReused', NEW t \in MsgTypes, Send(t),
         stored' \in {stored, Outbound, NoState}, working' \in {working, Outbound, NoState}
  PROVE  RefInv' /\ Tree!Next
<1> DEFINE e == EncodeMessage("c2w", t, Outbound, 0)
<1>1. stored \in State /\ Fresh("dapp") \in Key /\ Has(stored)
  BY FreshType DEF TypeOK, Side, Send, KeyInv, DappOK
<1>2. Outbound.root # <<>> /\ Front(Outbound.root) = stored.root
  BY <1>1, OutboundContinues DEF Outbound
<1>3. e \in Envelope
  BY SendType, EncodeType DEF TypeOK
<1>4. e.dir = "c2w" /\ e.root = Outbound.root
  BY DEF EncodeMessage
<1>5. log' = Append(log, e) /\ UNCHANGED <<wstate, page, inbox>>
  BY DEF Send, AddContextText, walletVars
<1> HIDE DEF e
<1>6. stored.root \in Roots(DappStates)
  BY <1>1 DEF Roots, DappStates
<1>7. Roots(DappStates') \subseteq Roots(DappStates) \cup {e.root}
  BY <1>4 DEF Roots, DappStates, Has, NoState
<1> QED BY <1>2, <1>3, <1>4, <1>5, <1>6, <1>7, DappWriteStep

\* A side with one state and an empty page holds one root.
LEMMA RootsOfOne == ASSUME NEW x PROVE Roots({x, NoState}) \subseteq {x.root}
<1>1. ~Has(NoState)
  BY DEF Has, NoState
<1> QED BY <1>1 DEF Roots

\* Roots stay unique in a step that keeps the key invariant.
LEMMA RootsUniqueNext == TypeOK' /\ KeyInv' => RootsNeverReused'
BY KeysMakeRootsUnique, PTL

\* Every step of the protocol is a step of the tree.
LEMMA RefinementStep ==
  TypeOK /\ KeyInv /\ RefInv /\ TypeOK' /\ KeyInv' /\ [Next]_vars
    => RefInv' /\ Tree!Next
<1> SUFFICES ASSUME TypeOK, KeyInv, RefInv, TypeOK', KeyInv', [Next]_vars
             PROVE  RefInv' /\ Tree!Next
  OBVIOUS
<1>0. RootsNeverReused'
  BY RootsUniqueNext
<1>1. ASSUME UNCHANGED <<log, stored, working, wstate, page, inbox>>
      PROVE  RefInv' /\ Tree!Next
  <2>1. WalletStates' = WalletStates
    BY <1>1 DEF WalletStates
  <2> QED BY <1>1, <2>1, WalletReadStep
<1>2. CASE Tick \/ CreateSharedKeySession \/ AcceptBegin \/ UNCHANGED vars
  BY <1>1, <1>2 DEF Tick, CreateSharedKeySession, AcceptBegin, vars, chainVars, dappVars, walletVars
<1>3. CASE Accepting
  <2>1. PICK k \in accepting : AcceptDeploy(k) \/ AcceptHello(k) \/ AcceptFail(k)
    BY <1>3 DEF Accepting
  <2>2. CASE AcceptDeploy(k) \/ AcceptFail(k)
    BY <1>1, <2>2 DEF AcceptDeploy, AcceptFail, chainVars, dappVars, walletVars
  <2>3. CASE AcceptHello(k)
    <3> DEFINE s == InitialState(k, clientDh, 0, clock)
               e == EncodeMessage("w2c", "wallet_hello", s, 0)
    <3>1. k \in Key /\ clientDh \in Key /\ clock \in Nat
      BY DEF TypeOK
    <3>2. e \in Envelope
      BY <3>1, InitialStateType, EncodeType DEF MsgTypes
    <3>3. s.root = <<Shared(k, clientDh)>> /\ e.root = s.root /\ e.dir = "w2c"
      BY DEF InitialState, EncodeMessage
    <3>4. e.root # <<>> /\ Front(e.root) = <<>>
      BY <3>1, <3>3, InitialOpens
    <3>5. /\ log' = Append(log, e) /\ UNCHANGED <<stored, working>>
          /\ \/ wstate' = s /\ inbox' = {} /\ page' = NoPage
             \/ UNCHANGED <<wstate, inbox, page>>
      BY <2>3 DEF AcceptHello, WalletHello, AddContextText, dappVars
    <3> HIDE DEF s, e
    <3>6. Roots(WalletStates') \subseteq Roots(WalletStates) \cup {e.root}
      <4>1. CASE wstate' = s /\ inbox' = {} /\ page' = NoPage
        <5>1. WalletStates' = {s, NoState}
          BY <4>1 DEF WalletStates, NoPage
        <5> QED BY <3>3, <5>1, RootsOfOne
      <4>2. CASE UNCHANGED <<wstate, inbox, page>>
        <5>1. WalletStates' = WalletStates
          BY <4>2 DEF WalletStates
        <5> QED BY <5>1
      <4> QED BY <3>5, <4>1, <4>2
    <3> QED BY <1>0, <3>2, <3>3, <3>4, <3>5, <3>6, WalletWriteStep
  <2> QED BY <2>1, <2>2, <2>3
<1>4. CASE WaitWalletHello
  BY <1>4, JoinStep
<1>5. CASE RequestSetMiningKeys
  BY <1>0, <1>5, SendStep DEF RequestSetMiningKeys, MsgTypes
<1>6. CASE RequestSignChallenge
  BY <1>0, <1>6, SendStep DEF RequestSignChallenge, MsgTypes
<1>s. CASE SignChallengeSent
  <2>1. UNCHANGED <<log, working, wstate, page, inbox>> /\ stored' \in {stored, working}
    BY <1>s DEF SignChallengeSent, chainVars, walletVars
  <2>2. \A r \in Roots(DappStates') : r \in Roots(DappStates)
    BY <2>1 DEF Roots, DappStates
  <2> QED BY <2>1, <2>2, DappReadStep
<1>7. CASE DisconnectSession
  BY <1>0, <1>7, SendStep DEF DisconnectSession, MsgTypes
<1>8. ASSUME NEW t \in {"set_mining_keys", "sign_challenge"}, SendUnacknowledged(t)
      PROVE  RefInv' /\ Tree!Next
  BY <1>0, <1>8, SendStep DEF SendUnacknowledged, MsgTypes
<1>9. CASE Waiting \/ WaitTimesOut
  <2>1. UNCHANGED <<log, wstate, page, inbox>> /\ working' = NoState
    BY <1>9 DEF Waiting, WaitFinds, WaitDesync, WaitAborts, WaitTimesOut, WaitEnds,
                chainVars, walletVars
  <2>2. CASE WaitFinds
    <3>1. PICK i \in Hits(working, Responses) :
            stored' = RekeyInbound(working, log[i].dh, log[i].seq)
      BY <2>2 DEF WaitFinds
    <3>2. i \in 1..Len(log) /\ log[i].dir = "w2c" /\ Opens(working, log[i])
      BY DEF Hits, Responses, Candidates, Window
    <3>3. working \in State /\ log[i] \in Envelope /\ Has(working)
      BY <2>2, <3>2, LogEntry DEF TypeOK, WaitFinds
    <3>4. stored'.root = log[i].root /\ Front(log[i].root) = working.root
      BY <3>1, <3>2, <3>3, OpensContinues
    <3>5. working.root \in Roots(DappStates)
      BY <3>3 DEF Roots, DappStates
    <3>6. ReadFrom(stored'.root, Roots(DappStates), "w2c")
      BY <3>2, <3>4, <3>5 DEF ReadFrom
    <3>7. \A r \in Roots(DappStates') : r = stored'.root
      BY <2>1 DEF Roots, DappStates, NoState, Has
    <3> QED BY <2>1, <3>6, <3>7, DappReadStep
  <2>3. CASE WaitDesync \/ WaitAborts \/ WaitTimesOut
    <3>1. stored' \in {stored, NoState}
      BY <2>3 DEF WaitDesync, WaitAborts, WaitTimesOut
    <3>2. \A r \in Roots(DappStates') : r \in Roots(DappStates)
      BY <2>1, <3>1 DEF Roots, DappStates, NoState, Has
    <3> QED BY <2>1, <3>2, DappReadStep
  <2> QED BY <1>9, <2>2, <2>3 DEF Waiting
<1>10. CASE Query \/ QueryLost
  <2>1. UNCHANGED <<log, stored, working>>
    BY <1>10 DEF Query, QueryBegin, QueryRecord, QueryEnd, QueryLost, WalletUnchanged,
                 chainVars, dappVars
  <2>2. CASE QueryBegin
    <3>1. page'.st = wstate /\ inbox' = {} /\ wstate' = wstate
      BY <2>2 DEF QueryBegin
    <3>2. \A r \in Roots(WalletStates') : r \in Roots(WalletStates)
      BY <3>1 DEF Roots, WalletStates
    <3> QED BY <2>1, <3>2, WalletReadStep
  <2>3. CASE QueryRecord
    <3> DEFINE e == log[page.next]
               after == RekeyInbound(page.st, e.dh, e.seq)
    <3>1. page.next \in 1..Len(log) /\ Has(page.st) /\ wstate' = wstate /\ page.st \in State
      <4>1. page.next # 0 /\ page.next <= page.last /\ wstate' = wstate
        BY <2>3 DEF QueryRecord, Idle
      <4>2. page.next \in 1..Len(log) /\ page.st \in State
        <5>1. page \in [next : Nat, last : Nat, st : State, got : Seq(Nat)]
              /\ page.last <= Len(log) /\ log \in Seq(Envelope)
          BY DEF TypeOK
        <5>2. page.next \in Nat /\ page.last \in Nat /\ page.st \in State /\ Len(log) \in Nat
          BY <5>1
        <5> QED BY <4>1, <5>1, <5>2
      <4>3. Has(page.st)
        BY <4>1 DEF KeyInv, WalletOK, Idle
      <4> QED BY <4>1, <4>2, <4>3
    <3>2. CASE e.dir = "c2w" /\ Opens(page.st, e)
      <4>1. after.root = e.root /\ Front(e.root) = page.st.root
        BY <3>1, <3>2, LogEntry, OpensContinues
      <4>2. page'.st = after /\ inbox' = inbox \cup {[idx |-> page.next, after |-> after]}
        BY <2>3, <3>2 DEF QueryRecord, NextRecord
      <4>3. page.st.root \in Roots(WalletStates)
        BY <3>1 DEF Roots, WalletStates
      <4>4. ReadFrom(after.root, Roots(WalletStates), "c2w")
        BY <3>1, <3>2, <4>1, <4>3 DEF ReadFrom
      <4> HIDE DEF after
      <4>5. \A r \in Roots(WalletStates') : r \in Roots(WalletStates) \/ r = after.root
        BY <3>1, <4>2 DEF Roots, WalletStates
      <4> QED BY <2>1, <4>4, <4>5, WalletReadStep
    <3>3. CASE ~(e.dir = "c2w" /\ Opens(page.st, e))
      <4>1. page'.st = page.st
            /\ inbox' \subseteq inbox \cup {[idx |-> page.next, after |-> NoState]}
        BY <2>3, <3>3 DEF QueryRecord, NextRecord
      <4>2. \A r \in Roots(WalletStates') : r \in Roots(WalletStates)
        BY <3>1, <4>1 DEF Roots, WalletStates, NoState, Has
      <4> QED BY <2>1, <4>2, WalletReadStep
    <3> QED BY <3>2, <3>3
  <2>4. CASE QueryEnd
    <3>1. wstate' = page.st /\ page' = NoPage /\ inbox' = inbox
      BY <2>4 DEF QueryEnd
    <3>2. \A r \in Roots(WalletStates') : r \in Roots(WalletStates)
      BY <3>1 DEF Roots, WalletStates, NoPage, NoState, Has
    <3> QED BY <2>1, <3>2, WalletReadStep
  <2>5. CASE QueryLost
    <3>1. wstate' = wstate /\ page' = NoPage /\ inbox' = {}
      BY <2>5 DEF QueryLost
    <3>2. \A r \in Roots(WalletStates') : r \in Roots(WalletStates)
      BY <3>1 DEF Roots, WalletStates, NoPage, NoState, Has
    <3> QED BY <2>1, <3>2, WalletReadStep
  <2> QED BY <1>10, <2>2, <2>3, <2>4, <2>5 DEF Query
<1>11. CASE Responding
  <2>1. PICK m \in inbox : RespondToChallenge(m)
    BY <1>11 DEF Responding
  <2> DEFINE base == ResponseBase(m)
             s == RekeyOutbound(base, Fresh("wallet"), NextOutboundSeq(base))
             e == EncodeMessage("w2c", "challenge_response", s, m.idx)
  <2>2. /\ Has(base) /\ log' = Append(log, e)
        /\ UNCHANGED <<stored, working, page>>
        /\ wstate' \in {wstate, s} /\ inbox' \subseteq inbox
    BY <2>1 DEF RespondToChallenge, ChallengeResponse, AddContextText, dappVars
  <2>3. base \in State /\ base \in WalletStates /\ m.idx \in Nat /\ Fresh("wallet") \in Key
    BY FreshType DEF ResponseBase, TypeOK, WalletStates, Side
  <2>4. s.root # <<>> /\ Front(s.root) = base.root
    BY <2>3, OutboundContinues
  <2>5. e \in Envelope
    BY <2>3, RekeyType, SeqType, EncodeType DEF TypeOK, MsgTypes
  <2>6. e.root = s.root /\ e.dir = "w2c"
    BY DEF EncodeMessage
  <2> HIDE DEF base, s, e
  <2>7. base.root \in Roots(WalletStates)
    BY <2>2, <2>3 DEF Roots
  <2>8. Roots(WalletStates') \subseteq Roots(WalletStates) \cup {e.root}
    BY <2>2, <2>6 DEF Roots, WalletStates
  <2> QED BY <1>0, <2>2, <2>4, <2>5, <2>6, <2>7, <2>8, WalletWriteStep
<1>12. CASE WaitSetMiningKeys
  <2>1. PICK i \in Hits(wstate, Candidates("c2w", "set_mining_keys", 0)) :
          wstate' = RekeyInbound(wstate, log[i].dh, log[i].seq)
    BY <1>12 DEF WaitSetMiningKeys
  <2>2. i \in 1..Len(log) /\ log[i].dir = "c2w" /\ Opens(wstate, log[i])
    BY DEF Hits, Candidates, Window
  <2>3. wstate \in State /\ log[i] \in Envelope /\ Has(wstate) /\ inbox' = {}
        /\ UNCHANGED <<log, stored, working, page>>
    BY <1>12, <2>2, LogEntry DEF TypeOK, WaitSetMiningKeys, WalletUnchanged, chainVars, dappVars
  <2>4. wstate'.root = log[i].root /\ Front(log[i].root) = wstate.root
    BY <2>1, <2>2, <2>3, OpensContinues
  <2>5. wstate.root \in Roots(WalletStates)
    BY <2>3 DEF Roots, WalletStates
  <2>6. ReadFrom(wstate'.root, Roots(WalletStates), "c2w")
    BY <2>2, <2>4, <2>5 DEF ReadFrom
  <2>7. \A r \in Roots(WalletStates') : r \in Roots(WalletStates) \/ r = wstate'.root
    BY <2>3 DEF Roots, WalletStates
  <2> QED BY <2>3, <2>6, <2>7, WalletReadStep
<1>13. CASE DestroyConnectProfile
  <2>1. wstate' = NoState /\ inbox' = {} /\ UNCHANGED <<log, stored, working, page>>
    BY <1>13 DEF DestroyConnectProfile, dappVars
  <2>2. \A r \in Roots(WalletStates') : r \in Roots(WalletStates)
    BY <2>1 DEF Roots, WalletStates, NoState, Has
  <2> QED BY <2>1, <2>2, WalletReadStep
<1> QED
  BY <1>2, <1>3, <1>4, <1>5, <1>6, <1>s, <1>7, <1>8, <1>9, <1>10, <1>11, <1>12, <1>13 DEF Next

\* At the start nobody holds a state and nothing is written.
LEMMA RefinementInit == Init => RefInv /\ Tree!Init
<1> SUFFICES ASSUME Init PROVE RefInv /\ Tree!Init
  OBVIOUS
<1>1. log = <<>> /\ Len(log) = 0
  BY DEF Init
<1>2. DappStates = {NoState} /\ WalletStates = {NoState}
  BY DEF Init, DappStates, WalletStates, NoPage
<1>3. Roots({NoState}) = {}
  BY DEF Roots, Has, NoState
<1>4. RefInv
  <2>1. Linked(log)
    BY <1>1 DEF Linked
  <2>2. HeldOK
    BY <1>2, <1>3 DEF HeldOK
  <2> QED BY <2>1, <2>2 DEF RefInv
<1>5. Messages(log) = <<>>
  BY <1>1 DEF Messages
<1> QED BY <1>2, <1>3, <1>4, <1>5 DEF Tree!Init, Places

\* The session protocol implements the abstract channel: states are reached
\* message by message and messages continue states their writers hold, for
\* every bound, caller discipline and set of faults.
THEOREM SessionImplementsTree == Spec => ImplementsSessionTree
<1>1. Init => RefInv /\ Tree!Init
  BY RefinementInit
<1>2. TypeOK /\ KeyInv /\ RefInv /\ (TypeOK /\ KeyInv)' /\ [Next]_vars
        => RefInv' /\ [Tree!Next]_(Tree!tvars)
  BY RefinementStep
<1> QED BY <1>1, <1>2, KeysFresh, PTL DEF Spec, ImplementsSessionTree, Tree!Spec

-----------------------------------------------------------------------------
(***************************************************************************)
(* 3. What the sides accept.                                               *)
(***************************************************************************)

-----------------------------------------------------------------------------
(* Prefixes of roots. *)

LEMMA PrefixElements ==
  ASSUME NEW s \in Root, NEW t \in Root
  PROVE  IsPrefix(s, t) <=> Len(s) <= Len(t) /\ \A k \in 1..Len(s) : s[k] = t[k]
<1>1. s \in Seq(SUBSET Key) /\ t \in Seq(SUBSET Key) /\ Len(s) \in Nat /\ Len(t) \in Nat
  BY DEF Root
<1>2. CASE ~(Len(s) <= Len(t))
  BY <1>2 DEF IsPrefix
<1>3. CASE Len(s) <= Len(t)
  <2> DEFINE a == SubSeq(s, 1, Len(s))
             b == SubSeq(t, 1, Len(s))
  <2>1. a \in Seq(SUBSET Key) /\ Len(a) = Len(s) /\ \A k \in 1..Len(s) : a[k] = s[k]
    BY <1>1, SubSeqProperties
  <2>2. b \in Seq(SUBSET Key) /\ Len(b) = Len(s) /\ \A k \in 1..Len(s) : b[k] = t[k]
    BY <1>1, <1>3, SubSeqProperties
  <2>3. IsPrefix(s, t) <=> a = b
    BY <1>3 DEF IsPrefix
  <2> HIDE DEF a, b
  <2>4. a = b <=> \A k \in 1..Len(s) : a[k] = b[k]
    BY <2>1, <2>2, SeqEqual
  <2> QED BY <1>3, <2>1, <2>2, <2>3, <2>4
<1> QED BY <1>2, <1>3

\* The elements of an extended root.
LEMMA RootAppend ==
  ASSUME NEW r \in Root, NEW x \in SUBSET Key
  PROVE  /\ Append(r, x) \in Root /\ Len(r) \in Nat /\ Len(Append(r, x)) = Len(r) + 1
         /\ \A k \in 1..Len(r) : Append(r, x)[k] = r[k]
BY DEF Root

LEMMA PrefixSelf == ASSUME NEW r \in Root PROVE IsPrefix(r, r)
<1>1. Len(r) \in Nat
  BY DEF Root
<1> QED BY <1>1, PrefixElements

LEMMA PrefixOfEmpty == ASSUME NEW p \in Root, IsPrefix(p, <<>>) PROVE p = <<>>
<1>1. <<>> \in Root /\ Len(p) \in Nat /\ Len(<<>>) = 0
  BY DEF Root
<1>2. Len(p) = 0
  BY <1>1, PrefixElements
<1> QED BY <1>2 DEF Root

\* A prefix of an extended root is the whole or a prefix of the root.
LEMMA PrefixOfExtended ==
  ASSUME NEW p \in Root, NEW r \in Root, NEW x \in SUBSET Key
  PROVE  IsPrefix(p, Append(r, x)) => IsPrefix(p, r) \/ p = Append(r, x)
<1> DEFINE a == Append(r, x)
<1>1. a \in Root /\ Len(r) \in Nat /\ Len(p) \in Nat /\ Len(a) = Len(r) + 1
      /\ \A k \in 1..Len(r) : a[k] = r[k]
  BY RootAppend DEF Root
<1> HIDE DEF a
<1> SUFFICES ASSUME IsPrefix(p, a) PROVE IsPrefix(p, r) \/ p = a
  BY DEF a
<1>2. Len(p) <= Len(a) /\ \A k \in 1..Len(p) : p[k] = a[k]
  BY <1>1, PrefixElements
<1>3. CASE Len(p) = Len(a)
  <2>1. p \in Seq(SUBSET Key) /\ a \in Seq(SUBSET Key)
    BY <1>1 DEF Root
  <2> QED BY <1>2, <1>3, <2>1, SeqEqual
<1>4. CASE Len(p) <= Len(r)
  <2>1. \A k \in 1..Len(p) : k \in 1..Len(r) /\ p[k] = r[k]
    BY <1>1, <1>2, <1>4
  <2> QED BY <1>4, <2>1, PrefixElements
<1> QED BY <1>1, <1>2, <1>3, <1>4

\* What continues an extended root strictly continues the root.
LEMMA ExtendedPrefix ==
  ASSUME NEW r \in Root, NEW x \in SUBSET Key, NEW t \in Root, IsPrefix(Append(r, x), t)
  PROVE  IsStrictPrefix(r, t)
<1> DEFINE a == Append(r, x)
<1>1. a \in Root /\ Len(r) \in Nat /\ Len(t) \in Nat /\ Len(a) = Len(r) + 1
      /\ \A k \in 1..Len(r) : a[k] = r[k]
  BY RootAppend DEF Root
<1> HIDE DEF a
<1>2. Len(a) <= Len(t) /\ \A k \in 1..Len(a) : a[k] = t[k]
  BY <1>1, PrefixElements DEF a
<1>3. Len(r) < Len(t)
  BY <1>1, <1>2
<1>4. \A k \in 1..Len(r) : k \in 1..Len(a) /\ r[k] = t[k]
  BY <1>1, <1>2
<1>5. IsPrefix(r, t)
  BY <1>1, <1>3, <1>4, PrefixElements
<1>6. r # t
  BY <1>1, <1>3
<1> QED BY <1>5, <1>6 DEF IsStrictPrefix

-----------------------------------------------------------------------------
(* What a side has accepted, and what it may still accept. *)

\* With a root, every root on the way to it was written.
Closed(l) ==
  \A i \in 1..Len(l), p \in Root :
    p # <<>> /\ IsPrefix(p, l[i].root) => Written(l, p)

\* Of the messages a root was chained on, those of direction d are in got and
\* those of the other direction have a seq of at most n.
RootSound(l, r, n, got, d) ==
  \A j \in 1..Len(l) :
    IsPrefix(l[j].root, r)
      => IF l[j].dir = d THEN \E k \in 1..Len(got) : got[k] = j ELSE l[j].seq <= n

\* A state of a side that reads direction d and has accepted got.
Sound(l, s, got, d) == Has(s) => RootSound(l, s.root, s.sent, got, d)

\* Nothing that was accepted lies ahead of the state.
Past(l, s, got) ==
  Has(s) => \A k \in 1..Len(got) : ~IsStrictPrefix(s.root, l[got[k]].root)

\* Accepted messages are messages of direction d, without gaps, each once and
\* never after one that continues it.
GotOK(l, got, d) ==
  /\ \A k \in 1..Len(got) : /\ got[k] \in 1..Len(l) /\ l[got[k]].dir = d
                            /\ \A j \in 1..Len(l) :
                                 IsPrefix(l[j].root, l[got[k]].root) /\ l[j].dir = d
                                   => \E h \in 1..Len(got) : got[h] = j
  /\ \A i, j \in 1..Len(got) : i < j => ~IsPrefix(l[got[j]].root, l[got[i]].root)

\* Along a conversation each side's seqs grow.
SeqsGrow(l) ==
  \A i, j \in 1..Len(l) :
    l[i].dir = l[j].dir /\ IsStrictPrefix(l[i].root, l[j].root) => l[i].seq < l[j].seq

\* Entries of a log.
LEMMA Entries ==
  ASSUME NEW l \in Seq(Envelope)
  PROVE  /\ Len(l) \in Nat
         /\ \A i \in 1..Len(l) : l[i] \in Envelope /\ l[i].root \in Root /\ l[i].seq \in Nat
                                 /\ l[i].dir \in {"c2w", "w2c"}
<1>1. \A i \in 1..Len(l) : l[i] \in Envelope
  OBVIOUS
<1> QED BY <1>1 DEF Envelope

LEMMA LogAppended ==
  ASSUME NEW l \in Seq(Envelope), NEW e \in Envelope
  PROVE  /\ Append(l, e) \in Seq(Envelope) /\ Len(l) \in Nat
         /\ Len(Append(l, e)) = Len(l) + 1 /\ Append(l, e)[Len(l) + 1] = e
         /\ \A i \in 1..Len(l) : i \in 1..Len(Append(l, e)) /\ Append(l, e)[i] = l[i]
         /\ \A i \in 1..Len(Append(l, e)) : i \in 1..Len(l) \/ i = Len(l) + 1
<1>1. /\ Append(l, e) \in Seq(Envelope) /\ Len(l) \in Nat
      /\ Len(Append(l, e)) = Len(l) + 1 /\ Append(l, e)[Len(l) + 1] = e
      /\ \A i \in 1..Len(l) : Append(l, e)[i] = l[i]
  OBVIOUS
<1> QED BY <1>1

\* A new message is not on the way to any older one, nor to a root under
\* which an older one was written.
LEMMA NewRoot ==
  ASSUME NEW l \in Seq(Envelope), NEW e \in Envelope, Closed(l), Linked(Append(l, e))
  PROVE  /\ \A i \in 1..Len(l) : ~IsPrefix(e.root, l[i].root)
         /\ \A r : Written(l, r) => ~IsPrefix(e.root, r)
<1> DEFINE a == Append(l, e)
<1>1. /\ Len(l) \in Nat /\ Len(a) = Len(l) + 1 /\ a[Len(l) + 1] = e
      /\ \A i \in 1..Len(l) : i \in 1..Len(a) /\ a[i] = l[i]
  BY LogAppended
<1> HIDE DEF a
<1>2. Len(l) + 1 \in 1..Len(a)
  BY <1>1
<1>3. e.root # <<>> /\ e.root \in Root
  BY <1>1, <1>2 DEF Linked, a, Envelope
<1>4. ASSUME NEW i \in 1..Len(l), IsPrefix(e.root, l[i].root) PROVE FALSE
  <2>1. PICK j \in 1..Len(l) : l[j].root = e.root
    BY <1>3, <1>4 DEF Closed, Written
  <2>2. a[j].root = a[Len(l) + 1].root /\ j \in 1..Len(a)
    BY <1>1, <2>1
  <2>3. j = Len(l) + 1
    BY <1>2, <2>2 DEF Linked, a
  <2> QED BY <1>1, <2>1, <2>3
<1> QED BY <1>4 DEF Written

\* A write keeps the log closed.
LEMMA ClosedAppend ==
  ASSUME NEW l \in Seq(Envelope), NEW e \in Envelope, Closed(l), NEW r \in Root,
         NEW x \in SUBSET Key, e.root = Append(r, x), r = <<>> \/ Written(l, r)
  PROVE  Closed(Append(l, e))
<1> DEFINE a == Append(l, e)
<1>1. /\ Len(l) \in Nat /\ Len(a) = Len(l) + 1 /\ a[Len(l) + 1] = e
      /\ \A i \in 1..Len(l) : i \in 1..Len(a) /\ a[i] = l[i]
      /\ \A i \in 1..Len(a) : i \in 1..Len(l) \/ i = Len(l) + 1
  BY LogAppended
<1>2. Written(a, e.root) /\ \A q : Written(l, q) => Written(a, q)
  BY WrittenAppend
<1> HIDE DEF a
<1>3. ASSUME NEW i \in 1..Len(a), NEW p \in Root, p # <<>>, IsPrefix(p, a[i].root)
      PROVE  Written(a, p)
  <2>1. CASE i \in 1..Len(l)
    BY <1>1, <1>2, <1>3, <2>1 DEF Closed
  <2>2. CASE i = Len(l) + 1
    <3>1. p = e.root \/ IsPrefix(p, r)
      BY <1>1, <1>3, <2>2, PrefixOfExtended
    <3>2. CASE IsPrefix(p, r)
      <4>1. r # <<>>
        BY <1>3, <3>2, PrefixOfEmpty
      <4>2. PICK j \in 1..Len(l) : l[j].root = r
        BY <4>1 DEF Written
      <4> QED BY <1>2, <1>3, <3>2, <4>2 DEF Closed
    <3> QED BY <1>2, <3>1, <3>2
  <2> QED BY <1>1, <2>1, <2>2
<1> QED BY <1>3 DEF Closed, a

-----------------------------------------------------------------------------
(* A write, seen by the states and the acceptances that stay. *)

\* A state whose root was written stays sound when another message is written.
LEMMA SoundAppend ==
  ASSUME NEW l \in Seq(Envelope), NEW e \in Envelope, Closed(l), Linked(Append(l, e)),
         NEW s, NEW got, NEW d, Has(s) => Written(l, s.root), Sound(l, s, got, d)
  PROVE  Sound(Append(l, e), s, got, d)
<1> DEFINE a == Append(l, e)
<1>1. /\ a[Len(l) + 1] = e
      /\ \A i \in 1..Len(l) : a[i] = l[i]
      /\ \A i \in 1..Len(a) : i \in 1..Len(l) \/ i = Len(l) + 1
  BY LogAppended
<1> HIDE DEF a
<1> SUFFICES ASSUME Has(s) PROVE RootSound(a, s.root, s.sent, got, d)
  BY DEF Sound, a
<1>2. ~IsPrefix(e.root, s.root)
  BY NewRoot
<1> QED BY <1>1, <1>2 DEF Sound, RootSound

LEMMA PastAppend ==
  ASSUME NEW l \in Seq(Envelope), NEW e \in Envelope, NEW s, NEW got,
         \A k \in 1..Len(got) : got[k] \in 1..Len(l), Past(l, s, got)
  PROVE  Past(Append(l, e), s, got)
<1>1. \A k \in 1..Len(got) : Append(l, e)[got[k]] = l[got[k]]
  BY LogAppended
<1> QED BY <1>1 DEF Past

LEMMA GotAppend ==
  ASSUME NEW l \in Seq(Envelope), NEW e \in Envelope, Closed(l), Linked(Append(l, e)),
         NEW got, NEW d, GotOK(l, got, d)
  PROVE  GotOK(Append(l, e), got, d)
<1> DEFINE a == Append(l, e)
<1>1. /\ a[Len(l) + 1] = e
      /\ \A i \in 1..Len(l) : i \in 1..Len(a) /\ a[i] = l[i]
      /\ \A i \in 1..Len(a) : i \in 1..Len(l) \/ i = Len(l) + 1
  BY LogAppended
<1> HIDE DEF a
<1>2. \A i \in 1..Len(l) : ~IsPrefix(e.root, l[i].root)
  BY NewRoot
<1>3. ASSUME NEW k \in 1..Len(got)
      PROVE  /\ got[k] \in 1..Len(a) /\ a[got[k]] = l[got[k]] /\ a[got[k]].dir = d
             /\ \A j \in 1..Len(a) :
                  IsPrefix(a[j].root, a[got[k]].root) /\ a[j].dir = d
                    => \E h \in 1..Len(got) : got[h] = j
  <2>1. /\ got[k] \in 1..Len(l) /\ l[got[k]].dir = d
        /\ \A j \in 1..Len(l) :
             IsPrefix(l[j].root, l[got[k]].root) /\ l[j].dir = d
               => \E h \in 1..Len(got) : got[h] = j
    BY DEF GotOK
  <2> QED BY <1>1, <1>2, <2>1
<1> QED BY <1>3 DEF GotOK, a

-----------------------------------------------------------------------------
(* A write, seen by its writer. *)

\* The state re-keyed for a message that was written after a sound root.
LEMMA WriterSound ==
  ASSUME NEW l \in Seq(Envelope), NEW e \in Envelope, Closed(l), Linked(l),
         Linked(Append(l, e)), NEW r \in Root, NEW x \in SUBSET Key,
         e.root = Append(r, x), r = <<>> \/ Written(l, r),
         NEW got, NEW d, e.dir # d, \A k \in 1..Len(got) : got[k] \in 1..Len(l),
         NEW n \in Nat, RootSound(l, r, n, got, d), r = <<>> \/ n < e.seq,
         NEW s, s.root = e.root, s.sent = e.seq
  PROVE  Sound(Append(l, e), s, got, d) /\ Past(Append(l, e), s, got)
<1> DEFINE a == Append(l, e)
<1>1. /\ a[Len(l) + 1] = e
      /\ \A i \in 1..Len(l) : i \in 1..Len(a) /\ a[i] = l[i]
      /\ \A i \in 1..Len(a) : i \in 1..Len(l) \/ i = Len(l) + 1
  BY LogAppended
<1> HIDE DEF a
<1>2. \A i \in 1..Len(l) : ~IsPrefix(e.root, l[i].root)
  BY NewRoot
<1>3. e.seq \in Nat /\ \A i \in 1..Len(l) : l[i].root \in Root /\ l[i].seq \in Nat
  BY Entries DEF Envelope
<1>4. ASSUME NEW j \in 1..Len(a), IsPrefix(a[j].root, e.root)
      PROVE  IF a[j].dir = d THEN \E k \in 1..Len(got) : got[k] = j ELSE a[j].seq <= e.seq
  <2>1. CASE j = Len(l) + 1
    BY <1>1, <1>3, <2>1
  <2>2. CASE j \in 1..Len(l)
    <3>1. a[j] = l[j] /\ l[j].root \in Root
      BY <1>1, <1>3, <2>2
    <3>2. IsPrefix(l[j].root, r)
      <4>1. l[j].root # e.root
        BY <1>2, <1>3, <2>2, PrefixSelf
      <4> QED BY <1>4, <3>1, <4>1, PrefixOfExtended
    <3>3. r # <<>>
      BY <2>2, <3>1, <3>2, PrefixOfEmpty DEF Linked
    <3>4. IF l[j].dir = d THEN \E k \in 1..Len(got) : got[k] = j ELSE l[j].seq <= n
      BY <2>2, <3>2 DEF RootSound
    <3>5. l[j].seq <= n => l[j].seq <= e.seq
      BY <1>3, <2>2, <3>3
    <3> QED BY <3>1, <3>4, <3>5
  <2> QED BY <1>1, <2>1, <2>2
<1>5. \A k \in 1..Len(got) : ~IsStrictPrefix(e.root, a[got[k]].root)
  BY <1>1, <1>2 DEF IsStrictPrefix
<1> QED BY <1>4, <1>5 DEF Sound, RootSound, Past, a

\* The seqs of a conversation grow with it.
LEMMA SeqsAppend ==
  ASSUME NEW l \in Seq(Envelope), NEW e \in Envelope, Closed(l), Linked(l),
         Linked(Append(l, e)), NEW r \in Root, NEW x \in SUBSET Key,
         e.root = Append(r, x), NEW got, NEW d, e.dir # d, NEW n \in Nat,
         RootSound(l, r, n, got, d), r = <<>> \/ n < e.seq, SeqsGrow(l)
  PROVE  SeqsGrow(Append(l, e))
<1> DEFINE a == Append(l, e)
<1>1. /\ a[Len(l) + 1] = e
      /\ \A i \in 1..Len(l) : i \in 1..Len(a) /\ a[i] = l[i]
      /\ \A i \in 1..Len(a) : i \in 1..Len(l) \/ i = Len(l) + 1
  BY LogAppended
<1> HIDE DEF a
<1>2. \A i \in 1..Len(l) : ~IsPrefix(e.root, l[i].root)
  BY NewRoot
<1>3. e.seq \in Nat /\ \A i \in 1..Len(l) : l[i].root \in Root /\ l[i].seq \in Nat
  BY Entries DEF Envelope
<1>4. ASSUME NEW i \in 1..Len(a), NEW j \in 1..Len(a), a[i].dir = a[j].dir,
             IsStrictPrefix(a[i].root, a[j].root)
      PROVE  a[i].seq < a[j].seq
  <2>1. CASE i = Len(l) + 1
    <3>1. IsPrefix(e.root, a[j].root) /\ e.root # a[j].root
      BY <1>1, <1>4, <2>1 DEF IsStrictPrefix
    <3> QED BY <1>1, <1>2, <3>1
  <2>2. CASE i \in 1..Len(l) /\ j \in 1..Len(l)
    BY <1>1, <1>4, <2>2 DEF SeqsGrow
  <2>3. CASE i \in 1..Len(l) /\ j = Len(l) + 1
    <3>1. a[i] = l[i] /\ a[j] = e /\ l[i].root \in Root /\ l[i].root # <<>>
      BY <1>1, <1>3, <2>3 DEF Linked
    <3>2. IsPrefix(l[i].root, r)
      BY <1>4, <3>1, PrefixOfExtended DEF IsStrictPrefix
    <3>3. r # <<>>
      BY <3>1, <3>2, PrefixOfEmpty
    <3>4. l[i].seq <= n
      BY <1>4, <2>3, <3>1, <3>2 DEF RootSound
    <3> QED BY <1>3, <2>3, <3>1, <3>3, <3>4
  <2> QED BY <1>1, <2>1, <2>2, <2>3
<1> QED BY <1>4 DEF SeqsGrow, a

-----------------------------------------------------------------------------
(* A read. *)

\* Accepting the message that continues a sound root, of which nothing ahead
\* was accepted.
LEMMA ReaderSound ==
  ASSUME NEW l \in Seq(Envelope), Linked(l), NEW r \in Root, NEW x \in SUBSET Key,
         NEW i \in 1..Len(l), l[i].root = Append(r, x), NEW d, l[i].dir = d,
         NEW got \in Seq(Nat), GotOK(l, got, d), NEW n,
         RootSound(l, r, n, got, d),
         \A k \in 1..Len(got) : ~IsStrictPrefix(r, l[got[k]].root),
         NEW s, s.root = l[i].root, s.sent = n
  PROVE  /\ Sound(l, s, Append(got, i), d) /\ Past(l, s, Append(got, i))
         /\ GotOK(l, Append(got, i), d)
<1> DEFINE g == Append(got, i)
<1>1. /\ Len(l) \in Nat /\ \A j \in 1..Len(l) : l[j].root \in Root /\ j \in Nat
  BY Entries
<1>2. /\ g \in Seq(Nat) /\ Len(got) \in Nat /\ Len(g) = Len(got) + 1 /\ g[Len(got) + 1] = i
      /\ \A k \in 1..Len(got) : g[k] = got[k]
  <2>1. i \in Nat
    BY <1>1
  <2> QED BY <2>1
<1> HIDE DEF g
<1>3. /\ Len(got) + 1 \in 1..Len(g) /\ \A k \in 1..Len(got) : k \in 1..Len(g)
      /\ \A k \in 1..Len(g) : k \in 1..Len(got) \/ k = Len(got) + 1
  BY <1>2
<1>4. \A k \in 1..Len(got) : ~IsPrefix(l[i].root, l[got[k]].root)
  <2>1. ASSUME NEW k \in 1..Len(got), IsPrefix(l[i].root, l[got[k]].root) PROVE FALSE
    <3>1. l[got[k]].root \in Root
      BY <1>1 DEF GotOK
    <3> QED BY <2>1, <3>1, ExtendedPrefix
  <2> QED BY <2>1
<1>5. ASSUME NEW j \in 1..Len(l), IsPrefix(l[j].root, l[i].root)
      PROVE  IF l[j].dir = d THEN \E k \in 1..Len(g) : g[k] = j ELSE l[j].seq <= n
  <2>1. l[j].root = l[i].root \/ IsPrefix(l[j].root, r)
    BY <1>1, <1>5, PrefixOfExtended
  <2>2. CASE l[j].root = l[i].root
    <3>1. j = i
      BY <2>2 DEF Linked
    <3> QED BY <1>2, <1>3, <3>1
  <2>3. CASE IsPrefix(l[j].root, r)
    <3>1. IF l[j].dir = d THEN \E k \in 1..Len(got) : got[k] = j ELSE l[j].seq <= n
      BY <2>3 DEF RootSound
    <3> QED BY <1>2, <1>3, <3>1
  <2> QED BY <2>1, <2>2, <2>3
<1>6. Sound(l, s, g, d)
  BY <1>5 DEF Sound, RootSound
<1>7. Past(l, s, g)
  <2>1. \A k \in 1..Len(g) : ~IsStrictPrefix(l[i].root, l[g[k]].root)
    BY <1>2, <1>3, <1>4 DEF IsStrictPrefix
  <2> QED BY <2>1 DEF Past
<1>8. ASSUME NEW k \in 1..Len(g)
      PROVE  /\ g[k] \in 1..Len(l) /\ l[g[k]].dir = d
             /\ \A j \in 1..Len(l) :
                  IsPrefix(l[j].root, l[g[k]].root) /\ l[j].dir = d
                    => \E h \in 1..Len(g) : g[h] = j
  <2>1. CASE k = Len(got) + 1
    BY <1>2, <1>5, <2>1
  <2>2. CASE k \in 1..Len(got)
    <3>1. /\ got[k] \in 1..Len(l) /\ l[got[k]].dir = d
          /\ \A j \in 1..Len(l) :
               IsPrefix(l[j].root, l[got[k]].root) /\ l[j].dir = d
                 => \E h \in 1..Len(got) : got[h] = j
      BY <2>2 DEF GotOK
    <3> QED BY <1>2, <1>3, <2>2, <3>1
  <2> QED BY <1>3, <2>1, <2>2
<1>9. ASSUME NEW h \in 1..Len(g), NEW k \in 1..Len(g), h < k
      PROVE  ~IsPrefix(l[g[k]].root, l[g[h]].root)
  <2>1. h \in 1..Len(got)
    BY <1>2, <1>9
  <2>2. CASE k = Len(got) + 1
    BY <1>2, <1>4, <2>1, <2>2
  <2>3. CASE k \in 1..Len(got)
    BY <1>2, <1>9, <2>1, <2>3 DEF GotOK
  <2> QED BY <1>3, <2>2, <2>3
<1>10. GotOK(l, g, d)
  BY <1>8, <1>9 DEF GotOK
<1> QED BY <1>6, <1>7, <1>10 DEF g

\* A state that knows more accepted messages stays sound.
LEMMA SoundMore ==
  ASSUME NEW l, NEW s, NEW got, NEW more, NEW d, Sound(l, s, got, d),
         \A k \in 1..Len(got) : \E h \in 1..Len(more) : more[h] = got[k]
  PROVE  Sound(l, s, more, d)
BY DEF Sound, RootSound

-----------------------------------------------------------------------------
(* The inductive invariant. *)

\* What the wallet has accepted once the query in progress is saved.
Reading == walletGot \o page.got

LogAcc == Closed(log) /\ SeqsGrow(log)

DappAcc ==
  /\ phase \in {"new", "linked"} => dappGot = <<>> /\ ~Has(stored) /\ ~Has(working)
  /\ GotOK(log, dappGot, "w2c")
  /\ \A s \in {stored, working} : Sound(log, s, dappGot, "w2c") /\ Past(log, s, dappGot)

WalletAcc ==
  /\ Idle => page = NoPage
  /\ GotOK(log, walletGot, "c2w")
  /\ Sound(log, wstate, walletGot, "c2w") /\ Past(log, wstate, walletGot)
  /\ GotOK(log, Reading, "c2w")
  /\ Sound(log, page.st, Reading, "c2w") /\ Past(log, page.st, Reading)
  /\ \A m \in inbox : Sound(log, m.after, Reading, "c2w")

AcceptInv == LogAcc /\ DappAcc /\ WalletAcc

\* Without a query in progress the two are the same.
LEMMA NothingRead ==
  ASSUME walletGot \in Seq(Nat), page.got = <<>>
  PROVE  Reading = walletGot
BY ConcatEmptySeq DEF Reading

LEMMA NoPageParts == NoPage.next = 0 /\ NoPage.st = NoState /\ NoPage.got = <<>> /\ ~Has(NoState)
BY DEF NoPage, Has, NoState

\* The absent state claims nothing.
LEMMA AbsentSound ==
  ASSUME NEW l, NEW got, NEW d PROVE Sound(l, NoState, got, d) /\ Past(l, NoState, got)
BY NoPageParts DEF Sound, Past

LEMMA HeldWritten ==
  ASSUME RefInv
  PROVE  /\ \A s \in {stored, working} : Has(s) => Written(log, s.root)
         /\ \A s \in {wstate, page.st} : Has(s) => Written(log, s.root)
         /\ \A m \in inbox : Has(m.after) => Written(log, m.after.root)
BY DEF RefInv, HeldOK, Roots, DappStates, WalletStates

\* A dApp that a write does not concern.
LEMMA DappKeeps ==
  ASSUME TypeOK, RefInv, LogAcc, DappAcc, NEW e \in Envelope, log' = Append(log, e),
         Linked(log'), UNCHANGED <<phase, stored, working, dappGot>>
  PROVE  DappAcc'
<1>1. log \in Seq(Envelope) /\ Closed(log)
  BY DEF TypeOK, LogAcc
<1>2. \A k \in 1..Len(dappGot) : dappGot[k] \in 1..Len(log)
  BY DEF DappAcc, GotOK
<1>3. ASSUME NEW s \in {stored, working}
      PROVE  Sound(log', s, dappGot, "w2c") /\ Past(log', s, dappGot)
  BY <1>1, <1>2, HeldWritten, SoundAppend, PastAppend DEF DappAcc
<1>4. GotOK(log', dappGot, "w2c")
  BY <1>1, GotAppend DEF DappAcc
<1> QED BY <1>3, <1>4 DEF DappAcc

\* A wallet that a write does not concern.
LEMMA WalletKeeps ==
  ASSUME TypeOK, RefInv, LogAcc, WalletAcc, NEW e \in Envelope, log' = Append(log, e),
         Linked(log')
  PROVE  /\ GotOK(log', walletGot, "c2w")
         /\ Sound(log', wstate, walletGot, "c2w") /\ Past(log', wstate, walletGot)
         /\ GotOK(log', Reading, "c2w")
         /\ Sound(log', page.st, Reading, "c2w") /\ Past(log', page.st, Reading)
         /\ \A m \in inbox : Sound(log', m.after, Reading, "c2w")
<1>1. log \in Seq(Envelope) /\ Closed(log)
  BY DEF TypeOK, LogAcc
<1>2. /\ \A k \in 1..Len(walletGot) : walletGot[k] \in 1..Len(log)
      /\ \A k \in 1..Len(Reading) : Reading[k] \in 1..Len(log)
  BY DEF WalletAcc, GotOK
<1>3. Sound(log', wstate, walletGot, "c2w") /\ Past(log', wstate, walletGot)
  BY <1>1, <1>2, HeldWritten, SoundAppend, PastAppend DEF WalletAcc
<1>4. Sound(log', page.st, Reading, "c2w") /\ Past(log', page.st, Reading)
  BY <1>1, <1>2, HeldWritten, SoundAppend, PastAppend DEF WalletAcc
<1>5. ASSUME NEW m \in inbox PROVE Sound(log', m.after, Reading, "c2w")
  BY <1>1, HeldWritten, SoundAppend DEF WalletAcc
<1>6. GotOK(log', walletGot, "c2w") /\ GotOK(log', Reading, "c2w")
  BY <1>1, GotAppend DEF WalletAcc
<1> QED BY <1>3, <1>4, <1>5, <1>6

\* The seq of a message is above those of the state it is sent from.
LEMMA SeqAbove ==
  ASSUME NEW s \in State, clock \in Nat
  PROVE  s.sent \in Nat /\ s.sent < NextOutboundSeq(s)
BY DEF State, NextOutboundSeq

\* What a re-key for a message gives (rekey_outbound).
LEMMA OutboundParts ==
  ASSUME NEW s \in State, NEW k \in Key, NEW q
  PROVE  /\ Shared(k, s.peer) \in SUBSET Key /\ s.root \in Root
         /\ RekeyOutbound(s, k, q).root = Append(s.root, Shared(k, s.peer))
         /\ RekeyOutbound(s, k, q).sent = q
BY DEF RekeyOutbound, Shared, State

\* What a re-key for a received message gives (rekey_inbound).
LEMMA InboundParts ==
  ASSUME NEW s \in State, NEW e \in Envelope, Opens(s, e)
  PROVE  /\ Shared(s.my, e.dh) \in SUBSET Key /\ s.root \in Root
         /\ e.root = Append(s.root, Shared(s.my, e.dh))
         /\ RekeyInbound(s, e.dh, e.seq).root = e.root
         /\ RekeyInbound(s, e.dh, e.seq).sent = s.sent
<1>1. Shared(s.my, e.dh) \in SUBSET Key /\ s.root \in Root
  BY DEF State, Envelope, Shared
<1>2. /\ RekeyInbound(s, e.dh, e.seq).root = Append(s.root, Shared(s.my, e.dh))
      /\ RekeyInbound(s, e.dh, e.seq).sent = s.sent
  BY DEF RekeyInbound
<1>3. RekeyInbound(s, e.dh, e.seq).root = e.root
  BY DEF Opens, Decrypts
<1> QED BY <1>1, <1>2, <1>3

\* request_set_mining_keys, request_sign_challenge, disconnect_session, and
\* each of them without an answer.
LEMMA SendAccept ==
  ASSUME TypeOK, KeyInv, RefInv, AcceptInv, Linked(log'), NEW t \in MsgTypes, Send(t),
         stored' \in {stored, Outbound, NoState}, working' \in {working, Outbound, NoState},
         phase' \in {"connected", "closed"}
  PROVE  AcceptInv'
<1> DEFINE e == EncodeMessage("c2w", t, Outbound, 0)
           r == stored.root
           x == Shared(Fresh("dapp"), stored.peer)
           n == stored.sent
<1>1. stored \in State /\ Fresh("dapp") \in Key /\ Has(stored) /\ clock \in Nat /\ log \in Seq(Envelope)
  BY FreshType DEF TypeOK, Side, Send, KeyInv, DappOK
<1>2. e \in Envelope
  BY SendType, EncodeType DEF TypeOK
<1>3. e.dir = "c2w" /\ e.root = Outbound.root /\ e.seq = Outbound.sent
  BY DEF EncodeMessage
<1>4. log' = Append(log, e) /\ UNCHANGED <<wstate, page, inbox, dappGot, walletGot>>
  BY DEF Send, AddContextText, walletVars
<1>5. x \in SUBSET Key /\ r \in Root /\ e.root = Append(r, x) /\ e.seq = NextOutboundSeq(stored)
  BY <1>1, <1>3, OutboundParts DEF Outbound
<1>6. n \in Nat /\ n < e.seq
  BY <1>1, <1>5, SeqAbove
<1>7. Written(log, r) /\ RootSound(log, r, n, dappGot, "w2c")
  BY <1>1, HeldWritten DEF AcceptInv, DappAcc, Sound
<1> HIDE DEF e, x, r, n
<1>8. Closed(log) /\ SeqsGrow(log) /\ Linked(log) /\ GotOK(log, dappGot, "w2c")
      /\ \A k \in 1..Len(dappGot) : dappGot[k] \in 1..Len(log)
  BY DEF AcceptInv, LogAcc, DappAcc, GotOK, RefInv
<1>9. LogAcc'
  <2>1. Closed(log')
    BY <1>1, <1>2, <1>4, <1>5, <1>7, <1>8, ClosedAppend
  <2>2. SeqsGrow(log')
    BY <1>1, <1>2, <1>3, <1>4, <1>5, <1>6, <1>7, <1>8, SeqsAppend
  <2> QED BY <2>1, <2>2 DEF LogAcc
<1>10. DappAcc'
  <2>1. Sound(log', Outbound, dappGot, "w2c") /\ Past(log', Outbound, dappGot)
    BY <1>1, <1>2, <1>3, <1>4, <1>5, <1>6, <1>7, <1>8, WriterSound
  <2>2. ASSUME NEW s \in {stored, working}
        PROVE  Sound(log', s, dappGot, "w2c") /\ Past(log', s, dappGot)
    BY <1>1, <1>2, <1>4, <1>8, HeldWritten, SoundAppend, PastAppend DEF AcceptInv, DappAcc
  <2>3. GotOK(log', dappGot, "w2c")
    BY <1>1, <1>2, <1>4, <1>8, GotAppend
  <2>4. \A s \in {stored', working'} : Sound(log', s, dappGot, "w2c") /\ Past(log', s, dappGot)
    BY <2>1, <2>2, AbsentSound
  <2> QED BY <1>4, <2>3, <2>4 DEF DappAcc
<1>11. WalletAcc'
  <2>1. /\ GotOK(log', walletGot, "c2w")
        /\ Sound(log', wstate, walletGot, "c2w") /\ Past(log', wstate, walletGot)
        /\ GotOK(log', Reading, "c2w")
        /\ Sound(log', page.st, Reading, "c2w") /\ Past(log', page.st, Reading)
        /\ \A m \in inbox : Sound(log', m.after, Reading, "c2w")
    BY <1>2, <1>4, WalletKeeps DEF AcceptInv
  <2>2. Reading' = Reading /\ (Idle => page = NoPage)
    BY <1>4 DEF Reading, AcceptInv, WalletAcc
  <2> QED BY <1>4, <2>1, <2>2 DEF WalletAcc, Idle
<1> QED BY <1>9, <1>10, <1>11 DEF AcceptInv

\* A message of the wallet that continues a root r, after which the wallet
\* has accepted what it had before: wallet_hello and challenge_response.
LEMMA WalletWriteAccept ==
  ASSUME TypeOK, KeyInv, RefInv, AcceptInv, Linked(log'), NEW e \in Envelope,
         log' = Append(log, e), e.dir = "w2c", NEW r \in Root, NEW x \in SUBSET Key,
         e.root = Append(r, x), r = <<>> \/ Written(log, r),
         NEW n \in Nat, RootSound(log, r, n, walletGot, "c2w"), r = <<>> \/ n < e.seq,
         NEW s, s.root = e.root, s.sent = e.seq,
         UNCHANGED <<phase, stored, working, dappGot, walletGot>>,
         \/ wstate' = wstate /\ page' = page /\ inbox' = inbox
         \/ wstate' = s /\ (page' = page \/ page' = NoPage)
            /\ inbox' \subseteq inbox /\ Idle'
            /\ (inbox' # {} => page' = page)
  PROVE  AcceptInv'
<1>1. log \in Seq(Envelope) /\ walletGot \in Seq(Nat)
  BY DEF TypeOK
<1>2. /\ Closed(log) /\ SeqsGrow(log) /\ Linked(log)
      /\ \A k \in 1..Len(walletGot) : walletGot[k] \in 1..Len(log)
      /\ Idle => page = NoPage
  BY DEF AcceptInv, LogAcc, WalletAcc, GotOK, RefInv
<1>3. LogAcc'
  <2>1. Closed(log')
    BY <1>1, <1>2, ClosedAppend
  <2>2. SeqsGrow(log')
    BY <1>1, <1>2, SeqsAppend
  <2> QED BY <2>1, <2>2 DEF LogAcc
<1>4. DappAcc'
  BY DappKeeps DEF AcceptInv
<1>5. /\ GotOK(log', walletGot, "c2w")
      /\ Sound(log', wstate, walletGot, "c2w") /\ Past(log', wstate, walletGot)
      /\ GotOK(log', Reading, "c2w")
      /\ Sound(log', page.st, Reading, "c2w") /\ Past(log', page.st, Reading)
      /\ \A m \in inbox : Sound(log', m.after, Reading, "c2w")
  BY WalletKeeps DEF AcceptInv
<1>6. CASE wstate' = wstate /\ page' = page /\ inbox' = inbox
  <2>1. Reading' = Reading
    BY <1>6 DEF Reading
  <2> QED BY <1>2, <1>3, <1>4, <1>5, <1>6, <2>1 DEF AcceptInv, WalletAcc, Idle
<1>7. CASE wstate' = s /\ (page' = page \/ page' = NoPage) /\ inbox' \subseteq inbox /\ Idle'
           /\ (inbox' # {} => page' = page)
  <2>1. Sound(log', s, walletGot, "c2w") /\ Past(log', s, walletGot)
    BY <1>1, <1>2, WriterSound
  <2>2. page' = NoPage
    BY <1>2, <1>7 DEF Idle
  <2>3. Reading' = walletGot
    BY <1>1, <2>2, NoPageParts, ConcatEmptySeq DEF Reading
  <2>4. Sound(log', page'.st, walletGot, "c2w") /\ Past(log', page'.st, walletGot)
    BY <2>2, NoPageParts, AbsentSound
  <2>5. inbox' # {} => Reading = walletGot
    BY <1>1, <1>7, <2>2, NoPageParts, NothingRead
  <2>6. \A m \in inbox' : Sound(log', m.after, walletGot, "c2w")
    BY <1>5, <1>7, <2>5
  <2> QED BY <1>3, <1>4, <1>5, <1>7, <2>1, <2>2, <2>3, <2>4, <2>6 DEF AcceptInv, WalletAcc, Idle
<1> QED BY <1>6, <1>7

\* accept_shared_key_connect
LEMMA HelloAccept ==
  ASSUME TypeOK, KeyInv, RefInv, AcceptInv, Linked(log'), NEW k \in accepting, AcceptHello(k)
  PROVE  AcceptInv'
<1> DEFINE s == InitialState(k, clientDh, 0, clock)
           e == EncodeMessage("w2c", "wallet_hello", s, 0)
           x == Shared(k, clientDh)
<1>1. k \in Key /\ clientDh \in Key /\ clock \in Nat /\ log \in Seq(Envelope)
  BY DEF TypeOK
<1>2. e \in Envelope
  BY <1>1, InitialStateType, EncodeType DEF MsgTypes
<1>3. s.root = <<x>> /\ e.root = s.root /\ e.dir = "w2c" /\ e.seq = s.sent
  BY DEF InitialState, EncodeMessage
<1>4. x \in SUBSET Key /\ <<>> \in Root /\ e.root = Append(<<>>, x)
  BY <1>1, <1>3 DEF Shared, Root
<1>5. /\ log' = Append(log, e) /\ UNCHANGED <<phase, stored, working, dappGot, walletGot>>
      /\ \/ wstate' = s /\ inbox' = {} /\ page' = NoPage
         \/ UNCHANGED <<wstate, inbox, page>>
  BY DEF AcceptHello, WalletHello, AddContextText, dappVars
<1> HIDE DEF s, e, x
<1>6. RootSound(log, <<>>, 0, walletGot, "c2w")
  <2>1. \A j \in 1..Len(log) : log[j].root \in Root /\ log[j].root # <<>>
    BY <1>1, Entries DEF RefInv, Linked
  <2> QED BY <2>1, PrefixOfEmpty DEF RootSound
<1>7. \/ wstate' = wstate /\ page' = page /\ inbox' = inbox
      \/ wstate' = s /\ page' = NoPage /\ inbox' = {} /\ Idle'
  BY <1>5, NoPageParts DEF Idle
<1> QED BY <1>2, <1>3, <1>4, <1>5, <1>6, <1>7, WalletWriteAccept

\* challenge_response
LEMMA ResponseAccept ==
  ASSUME TypeOK, KeyInv, RefInv, AcceptInv, Linked(log'), NEW m \in inbox, RespondToChallenge(m)
  PROVE  AcceptInv'
<1> DEFINE base == ResponseBase(m)
           s == RekeyOutbound(base, Fresh("wallet"), NextOutboundSeq(base))
           e == EncodeMessage("w2c", "challenge_response", s, m.idx)
           x == Shared(Fresh("wallet"), base.peer)
<1>1. /\ Has(base) /\ Idle /\ log' = Append(log, e)
      /\ UNCHANGED <<phase, stored, working, dappGot, walletGot, page>>
      /\ \/ wstate' = s /\ inbox' \subseteq inbox
         \/ wstate' = wstate /\ inbox' = inbox
  BY DEF RespondToChallenge, ChallengeResponse, AddContextText, dappVars
<1>2. base \in State /\ m.idx \in Nat /\ Fresh("wallet") \in Key /\ clock \in Nat
      /\ log \in Seq(Envelope) /\ walletGot \in Seq(Nat)
  BY FreshType DEF ResponseBase, TypeOK, Side
<1>3. e \in Envelope
  BY <1>2, RekeyType, SeqType, EncodeType DEF TypeOK, MsgTypes
<1>4. e.root = s.root /\ e.dir = "w2c" /\ e.seq = s.sent
  BY DEF EncodeMessage
<1>5. x \in SUBSET Key /\ base.root \in Root /\ s.root = Append(base.root, x)
      /\ s.sent = NextOutboundSeq(base)
  BY <1>2, OutboundParts
<1>6. base.sent \in Nat /\ base.sent < e.seq
  BY <1>2, <1>4, <1>5, SeqAbove
<1>7. page = NoPage /\ Reading = walletGot
  <2>1. page = NoPage
    BY <1>1 DEF AcceptInv, WalletAcc
  <2> QED BY <1>2, <2>1, NoPageParts, NothingRead
<1>8. Written(log, base.root) /\ RootSound(log, base.root, base.sent, walletGot, "c2w")
  <2>1. CASE Has(m.after)
    <3>1. base = m.after
      BY <2>1 DEF ResponseBase
    <3> QED BY <1>1, <1>7, <3>1, HeldWritten DEF AcceptInv, WalletAcc, Sound
  <2>2. CASE ~Has(m.after)
    <3>1. base = wstate
      BY <2>2 DEF ResponseBase
    <3> QED BY <1>1, <3>1, HeldWritten DEF AcceptInv, WalletAcc, Sound
  <2> QED BY <2>1, <2>2
<1>9. Idle'
  BY <1>1 DEF Idle
<1> HIDE DEF base, s, e, x
<1> QED BY <1>1, <1>3, <1>4, <1>5, <1>6, <1>8, <1>9, WalletWriteAccept

-----------------------------------------------------------------------------
(* Steps that read. *)

\* wait_wallet_hello
LEMMA JoinAccept ==
  ASSUME TypeOK, KeyInv, RefInv, AcceptInv, WaitWalletHello
  PROVE  AcceptInv'
<1>1. PICK i \in Hellos : /\ stored' = InitialState(clientDh, log[i].dh, log[i].seq, 0)
                          /\ dappGot' = Append(dappGot, i)
  BY DEF WaitWalletHello
<1>2. /\ UNCHANGED <<log, working, wstate, page, inbox, walletGot>> /\ phase' = "connected"
      /\ phase = "linked" /\ log \in Seq(Envelope)
  BY DEF WaitWalletHello, chainVars, walletVars, TypeOK
<1> DEFINE x == Shared(clientDh, log[i].dh)
<1>3. i \in 1..Len(log) /\ log[i].dir = "w2c" /\ log[i].root = <<x>>
  BY DEF Hellos, Window, Decrypts
<1>4. log[i].dh \in Key /\ clientDh \in Key
  BY <1>3, LogEntry DEF TypeOK
<1>5. x \in SUBSET Key /\ <<>> \in Root /\ log[i].root = Append(<<>>, x)
  BY <1>3, <1>4 DEF Shared, Root
<1>6. stored'.root = log[i].root /\ stored'.sent = 0
  BY <1>1, <1>3 DEF InitialState
<1> HIDE DEF x
<1>7. dappGot = <<>> /\ dappGot \in Seq(Nat) /\ ~Has(working) /\ GotOK(log, dappGot, "w2c")
  BY <1>2 DEF AcceptInv, DappAcc, TypeOK
<1>8. RootSound(log, <<>>, 0, dappGot, "w2c")
  <2>1. \A j \in 1..Len(log) : log[j].root \in Root /\ log[j].root # <<>>
    BY <1>2, Entries DEF RefInv, Linked
  <2> QED BY <2>1, PrefixOfEmpty DEF RootSound
<1>9. \A k \in 1..Len(dappGot) : ~IsStrictPrefix(<<>>, log[dappGot[k]].root)
  BY <1>7
<1>10. /\ Sound(log, stored', dappGot', "w2c") /\ Past(log, stored', dappGot')
       /\ GotOK(log, dappGot', "w2c")
  BY <1>1, <1>2, <1>3, <1>5, <1>6, <1>7, <1>8, <1>9, ReaderSound DEF RefInv
<1>11. Sound(log, working, dappGot', "w2c") /\ Past(log, working, dappGot')
  BY <1>7 DEF Sound, Past
<1>12. DappAcc'
  BY <1>2, <1>10, <1>11 DEF DappAcc
<1>13. LogAcc' /\ WalletAcc'
  BY <1>2 DEF AcceptInv, LogAcc, WalletAcc, Idle, Reading
<1> QED BY <1>12, <1>13 DEF AcceptInv

\* wait_challenge_response
LEMMA WaitAccept ==
  ASSUME TypeOK, KeyInv, RefInv, AcceptInv, Waiting \/ WaitTimesOut
  PROVE  AcceptInv'
<1>1. UNCHANGED <<log, wstate, page, inbox, walletGot>> /\ working' = NoState
  BY DEF Waiting, WaitFinds, WaitDesync, WaitAborts, WaitTimesOut, WaitEnds, chainVars, walletVars
<1>2. LogAcc' /\ WalletAcc'
  BY <1>1 DEF AcceptInv, LogAcc, WalletAcc, Idle, Reading
<1>3. CASE WaitFinds
  <2>1. PICK i \in Hits(working, Responses) :
          /\ stored' = RekeyInbound(working, log[i].dh, log[i].seq)
          /\ dappGot' = Append(dappGot, i)
    BY <1>3 DEF WaitFinds
  <2>2. i \in 1..Len(log) /\ log[i].dir = "w2c" /\ Opens(working, log[i])
    BY DEF Hits, Responses, Candidates, Window
  <2>3. /\ working \in State /\ log[i] \in Envelope /\ Has(working) /\ log \in Seq(Envelope)
        /\ dappGot \in Seq(Nat) /\ phase' = phase
    BY <1>3, <2>2, LogEntry DEF TypeOK, WaitFinds
  <2>4. /\ Shared(working.my, log[i].dh) \in SUBSET Key /\ working.root \in Root
        /\ log[i].root = Append(working.root, Shared(working.my, log[i].dh))
        /\ stored'.root = log[i].root /\ stored'.sent = working.sent
    BY <2>1, <2>2, <2>3, InboundParts
  <2>5. /\ GotOK(log, dappGot, "w2c") /\ RootSound(log, working.root, working.sent, dappGot, "w2c")
        /\ \A k \in 1..Len(dappGot) : ~IsStrictPrefix(working.root, log[dappGot[k]].root)
        /\ phase \notin {"new", "linked"}
    BY <2>3 DEF AcceptInv, DappAcc, Sound, Past
  <2>6. /\ Sound(log, stored', dappGot', "w2c") /\ Past(log, stored', dappGot')
        /\ GotOK(log, dappGot', "w2c")
    BY <2>1, <2>2, <2>3, <2>4, <2>5, ReaderSound DEF RefInv
  <2>7. DappAcc'
    BY <1>1, <2>3, <2>5, <2>6, AbsentSound DEF DappAcc
  <2> QED BY <1>2, <2>7 DEF AcceptInv
<1>4. CASE WaitDesync \/ WaitAborts \/ WaitTimesOut
  <2>1. stored' \in {stored, NoState} /\ dappGot' = dappGot
        /\ (phase' = phase \/ phase' = "closed")
    BY <1>4 DEF WaitDesync, WaitAborts, WaitTimesOut
  <2>2. DappAcc'
    BY <1>1, <2>1, AbsentSound, NoPageParts DEF AcceptInv, DappAcc
  <2> QED BY <1>2, <2>2 DEF AcceptInv
<1> QED BY <1>3, <1>4 DEF Waiting

\* Reading one message more.
LEMMA ReadingAppend ==
  ASSUME NEW u \in Seq(Nat), NEW v \in Seq(Nat), NEW i \in Nat
  PROVE  u \o Append(v, i) = Append(u \o v, i)
<1>1. u \o v \in Seq(Nat) /\ <<i>> \in Seq(Nat)
  <2>1. u \o v \in Seq(Nat)
    BY ConcatProperties
  <2> QED BY <2>1
<1>2. Append(v, i) = v \o <<i>> /\ Append(u \o v, i) = (u \o v) \o <<i>>
  BY <1>1, AppendIsConcat
<1>3. (u \o v) \o <<i>> = u \o (v \o <<i>>)
  BY <1>1, ConcatAssociative
<1> QED BY <1>2, <1>3

\* query_session_messages, and the loss of its result
LEMMA QueryAccept ==
  ASSUME TypeOK, KeyInv, RefInv, AcceptInv, Query \/ QueryLost
  PROVE  AcceptInv'
<1>1. UNCHANGED <<log, phase, stored, working, dappGot>> /\ log \in Seq(Envelope)
  BY DEF Query, QueryBegin, QueryRecord, QueryEnd, QueryLost, WalletUnchanged,
         chainVars, dappVars, TypeOK
<1>2. LogAcc' /\ DappAcc'
  BY <1>1 DEF AcceptInv, LogAcc, DappAcc
<1>3. /\ walletGot \in Seq(Nat) /\ page.got \in Seq(Nat) /\ page.st \in State
      /\ page.next \in Nat /\ page.last \in Nat /\ page.last <= Len(log)
      /\ Len(log) \in Nat
  <2>1. page \in [next : Nat, last : Nat, st : State, got : Seq(Nat)]
        /\ page.last <= Len(log) /\ walletGot \in Seq(Nat) /\ log \in Seq(Envelope)
    BY DEF TypeOK
  <2> QED BY <2>1
<1>4. /\ GotOK(log, walletGot, "c2w")
      /\ Sound(log, wstate, walletGot, "c2w") /\ Past(log, wstate, walletGot)
      /\ GotOK(log, Reading, "c2w")
      /\ Sound(log, page.st, Reading, "c2w") /\ Past(log, page.st, Reading)
      /\ \A m \in inbox : Sound(log, m.after, Reading, "c2w")
  BY DEF AcceptInv, WalletAcc
<1>5. CASE QueryBegin
  <2>1. PICK last \in 1..Len(log) :
          page' = [next |-> IF last > PageLimit THEN last - PageLimit + 1 ELSE 1,
                   last |-> last, st |-> wstate, got |-> <<>>]
    BY <1>5 DEF QueryBegin
  <2>2. inbox' = {} /\ UNCHANGED <<wstate, walletGot>>
    BY <1>5 DEF QueryBegin
  <2>3. page'.st = wstate /\ page'.got = <<>> /\ page'.next # 0
    BY <1>3, <2>1, BoundsAssumption
  <2>4. Reading' = walletGot
    BY <1>3, <2>2, <2>3, ConcatEmptySeq DEF Reading
  <2> QED BY <1>1, <1>2, <1>4, <2>2, <2>3, <2>4 DEF AcceptInv, WalletAcc, Idle
<1>6. CASE QueryRecord
  <2> DEFINE i == page.next
             e == log[page.next]
             s == page.st
             after == RekeyInbound(page.st, e.dh, e.seq)
  <2>1. i \in 1..Len(log) /\ i \in Nat /\ Has(s) /\ ~Idle /\ UNCHANGED <<wstate, walletGot>>
    <3>1. page.next # 0 /\ page.next <= page.last /\ ~Idle /\ UNCHANGED <<wstate, walletGot>>
      BY <1>6 DEF QueryRecord, Idle
    <3> QED BY <1>3, <3>1 DEF KeyInv, WalletOK
  <2>2. ~Idle'
    <3>1. page'.next = page.next + 1
      BY <1>6 DEF QueryRecord, NextRecord
    <3> QED BY <1>3, <3>1 DEF Idle
  <2>3. CASE e.dir = "c2w" /\ Opens(s, e)
    <3>1. /\ page'.st = after /\ page'.got = Append(page.got, i)
          /\ inbox' = inbox \cup {[idx |-> i, after |-> after]}
      BY <1>6, <2>3 DEF QueryRecord, NextRecord
    <3>2. e \in Envelope
      BY <2>1, LogEntry
    <3>3. /\ Shared(s.my, e.dh) \in SUBSET Key /\ s.root \in Root
          /\ e.root = Append(s.root, Shared(s.my, e.dh))
          /\ after.root = e.root /\ after.sent = s.sent
      BY <1>3, <2>3, <3>2, InboundParts
    <3>4. Reading' = Append(Reading, i) /\ Reading \in Seq(Nat)
      <4>1. Reading \in Seq(Nat)
        BY <1>3, ConcatProperties DEF Reading
      <4>2. Reading' = walletGot \o Append(page.got, i)
        BY <2>1, <3>1 DEF Reading
      <4>3. walletGot \o Append(page.got, i) = Append(walletGot \o page.got, i)
        BY <1>3, <2>1, ReadingAppend
      <4> QED BY <4>1, <4>2, <4>3 DEF Reading
    <3>5. /\ RootSound(log, s.root, s.sent, Reading, "c2w")
          /\ \A k \in 1..Len(Reading) : ~IsStrictPrefix(s.root, log[Reading[k]].root)
      BY <1>4, <2>1 DEF Sound, Past
    <3> HIDE DEF after
    <3>6. /\ Sound(log, after, Reading', "c2w") /\ Past(log, after, Reading')
          /\ GotOK(log, Reading', "c2w")
      BY <1>1, <1>4, <2>1, <2>3, <3>3, <3>4, <3>5, ReaderSound DEF RefInv
    <3>7. \A k \in 1..Len(Reading) : \E h \in 1..Len(Reading') : Reading'[h] = Reading[k]
      <4>1. /\ Len(Reading) \in Nat /\ Len(Reading') = Len(Reading) + 1
            /\ \A k \in 1..Len(Reading) : Reading'[k] = Reading[k]
        BY <2>1, <3>4, AppendProperties
      <4> QED BY <4>1
    <3>8. \A m \in inbox : Sound(log, m.after, Reading', "c2w")
      BY <1>4, <3>7, SoundMore
    <3>9. \A m \in inbox' : Sound(log, m.after, Reading', "c2w")
      BY <3>1, <3>6, <3>8
    <3> QED BY <1>1, <1>2, <1>4, <2>1, <2>2, <3>1, <3>6, <3>9 DEF AcceptInv, WalletAcc
  <2>4. CASE ~(e.dir = "c2w" /\ Opens(s, e))
    <3>1. /\ page'.st = s /\ page'.got = page.got
          /\ inbox' \subseteq inbox \cup {[idx |-> i, after |-> NoState]}
      BY <1>6, <2>4 DEF QueryRecord, NextRecord
    <3>2. Reading' = Reading
      BY <2>1, <3>1 DEF Reading
    <3>3. \A m \in inbox' : Sound(log, m.after, Reading, "c2w")
      BY <1>4, <3>1, AbsentSound
    <3> QED BY <1>1, <1>2, <1>4, <2>1, <2>2, <3>1, <3>2, <3>3 DEF AcceptInv, WalletAcc
  <2> QED BY <2>3, <2>4
<1>7. CASE QueryEnd
  <2>1. wstate' = page.st /\ walletGot' = Reading /\ page' = NoPage /\ inbox' = inbox
    BY <1>7 DEF QueryEnd, Reading
  <2>2. Reading \in Seq(Nat)
    BY <1>3, ConcatProperties DEF Reading
  <2>3. Reading' = Reading
    BY <2>1, <2>2, NoPageParts, ConcatEmptySeq DEF Reading
  <2> QED BY <1>1, <1>2, <1>4, <2>1, <2>3, NoPageParts, AbsentSound DEF AcceptInv, WalletAcc
<1>8. CASE QueryLost
  <2>1. page' = NoPage /\ inbox' = {} /\ UNCHANGED <<wstate, walletGot>>
    BY <1>8 DEF QueryLost
  <2>2. Reading' = walletGot
    BY <1>3, <2>1, NoPageParts, ConcatEmptySeq DEF Reading
  <2> QED BY <1>1, <1>2, <1>4, <2>1, <2>2, NoPageParts, AbsentSound DEF AcceptInv, WalletAcc
<1> QED BY <1>5, <1>6, <1>7, <1>8 DEF Query

\* wait_set_mining_keys_request and destroy_connect_profile
LEMMA MiningKeysAccept ==
  ASSUME TypeOK, KeyInv, RefInv, AcceptInv, WaitSetMiningKeys
  PROVE  AcceptInv'
<1>1. PICK i \in Hits(wstate, Candidates("c2w", "set_mining_keys", 0)) :
        /\ wstate' = RekeyInbound(wstate, log[i].dh, log[i].seq)
        /\ walletGot' = Append(walletGot, i)
  BY DEF WaitSetMiningKeys
<1>2. i \in 1..Len(log) /\ log[i].dir = "c2w" /\ Opens(wstate, log[i])
  BY DEF Hits, Candidates, Window
<1>3. /\ wstate \in State /\ log[i] \in Envelope /\ Has(wstate) /\ inbox' = {} /\ Idle
      /\ UNCHANGED <<log, phase, stored, working, dappGot, page>>
      /\ log \in Seq(Envelope) /\ walletGot \in Seq(Nat) /\ walletGot' \in Seq(Nat)
  <2>1. i \in Nat /\ walletGot \in Seq(Nat)
    BY <1>2 DEF TypeOK
  <2> QED BY <1>1, <1>2, <2>1, LogEntry
          DEF TypeOK, WaitSetMiningKeys, WalletUnchanged, chainVars, dappVars
<1>4. page = NoPage /\ Reading' = walletGot'
  <2>1. page = NoPage
    BY <1>3 DEF AcceptInv, WalletAcc
  <2> QED BY <1>3, <2>1, NoPageParts, ConcatEmptySeq DEF Reading
<1>5. /\ Shared(wstate.my, log[i].dh) \in SUBSET Key /\ wstate.root \in Root
      /\ log[i].root = Append(wstate.root, Shared(wstate.my, log[i].dh))
      /\ wstate'.root = log[i].root /\ wstate'.sent = wstate.sent
  BY <1>1, <1>2, <1>3, InboundParts
<1>6. /\ GotOK(log, walletGot, "c2w") /\ RootSound(log, wstate.root, wstate.sent, walletGot, "c2w")
      /\ \A k \in 1..Len(walletGot) : ~IsStrictPrefix(wstate.root, log[walletGot[k]].root)
  BY <1>3 DEF AcceptInv, WalletAcc, Sound, Past
<1>7. /\ Sound(log, wstate', walletGot', "c2w") /\ Past(log, wstate', walletGot')
      /\ GotOK(log, walletGot', "c2w")
  BY <1>1, <1>2, <1>3, <1>5, <1>6, ReaderSound DEF RefInv
<1>8. WalletAcc'
  BY <1>3, <1>4, <1>7, NoPageParts, AbsentSound DEF WalletAcc
<1>9. LogAcc' /\ DappAcc'
  BY <1>3 DEF AcceptInv, LogAcc, DappAcc
<1> QED BY <1>8, <1>9 DEF AcceptInv

LEMMA DestroyAccept ==
  ASSUME TypeOK, AcceptInv, DestroyConnectProfile
  PROVE  AcceptInv'
<1>1. wstate' = NoState /\ inbox' = {}
      /\ UNCHANGED <<log, phase, stored, working, dappGot, page, walletGot>>
  BY DEF DestroyConnectProfile, dappVars
<1>2. LogAcc' /\ DappAcc'
  BY <1>1 DEF AcceptInv, LogAcc, DappAcc
<1>3. Reading' = Reading
  BY <1>1 DEF Reading
<1> QED BY <1>1, <1>2, <1>3, AbsentSound DEF AcceptInv, WalletAcc, Idle

-----------------------------------------------------------------------------
\* Every step keeps the invariant.
LEMMA AcceptStep ==
  TypeOK /\ KeyInv /\ RefInv /\ AcceptInv /\ RefInv' /\ [Next]_vars => AcceptInv'
<1> SUFFICES ASSUME TypeOK, KeyInv, RefInv, AcceptInv, RefInv', [Next]_vars
             PROVE  AcceptInv'
  OBVIOUS
<1>0. Linked(log')
  BY DEF RefInv
<1>1. ASSUME UNCHANGED <<log, stored, working, dappGot, wstate, page, inbox, walletGot>>,
             phase' \in {"new", "linked"} => phase \in {"new", "linked"}
      PROVE  AcceptInv'
  BY <1>1 DEF AcceptInv, LogAcc, DappAcc, WalletAcc, Idle, Reading
<1>2. CASE Tick \/ CreateSharedKeySession \/ AcceptBegin \/ UNCHANGED vars
  <2>1. UNCHANGED <<log, stored, working, dappGot, wstate, page, inbox, walletGot>>
    BY <1>2 DEF Tick, CreateSharedKeySession, AcceptBegin, vars, chainVars, dappVars, walletVars
  <2>2. phase' \in {"new", "linked"} => phase \in {"new", "linked"}
    BY <1>2 DEF Tick, CreateSharedKeySession, AcceptBegin, vars, dappVars
  <2> QED BY <1>1, <2>1, <2>2
<1>3. ASSUME NEW k \in accepting, AcceptDeploy(k) \/ AcceptFail(k) PROVE AcceptInv'
  BY <1>1, <1>3 DEF AcceptDeploy, AcceptFail, chainVars, dappVars, walletVars
<1>4. CASE Accepting
  BY <1>0, <1>3, <1>4, HelloAccept DEF Accepting
<1>5. ASSUME NEW t \in MsgTypes, Send(t) PROVE phase = "connected"
  BY <1>5 DEF Send
<1>6. CASE RequestSetMiningKeys
  BY <1>0, <1>5, <1>6, SendAccept DEF RequestSetMiningKeys, MsgTypes
<1>7. CASE RequestSignChallenge
  BY <1>0, <1>5, <1>7, SendAccept DEF RequestSignChallenge, MsgTypes
<1>s. CASE SignChallengeSent
  <2>1. /\ UNCHANGED <<log, working, dappGot, phase, wstate, page, inbox, walletGot>>
        /\ stored' \in {stored, working} /\ Has(working)
    BY <1>s DEF SignChallengeSent, chainVars, walletVars
  <2>2. LogAcc' /\ WalletAcc'
    BY <2>1 DEF AcceptInv, LogAcc, WalletAcc, Idle, Reading
  <2>3. DappAcc'
    BY <2>1 DEF AcceptInv, DappAcc
  <2> QED BY <2>2, <2>3 DEF AcceptInv
<1>8. CASE DisconnectSession
  BY <1>0, <1>8, SendAccept DEF DisconnectSession, MsgTypes
<1>9. ASSUME NEW t \in {"set_mining_keys", "sign_challenge"}, SendUnacknowledged(t)
      PROVE  AcceptInv'
  BY <1>0, <1>5, <1>9, SendAccept DEF SendUnacknowledged, MsgTypes
<1>10. CASE Responding
  BY <1>0, <1>10, ResponseAccept DEF Responding
<1> QED
  BY <1>2, <1>4, <1>6, <1>7, <1>s, <1>8, <1>9, <1>10, JoinAccept, WaitAccept, QueryAccept,
     MiningKeysAccept, DestroyAccept DEF Next

LEMMA AcceptInit == Init => AcceptInv
<1> SUFFICES ASSUME Init PROVE AcceptInv
  OBVIOUS
<1>1. log = <<>> /\ Len(log) = 0 /\ dappGot = <<>> /\ walletGot = <<>> /\ page = NoPage
      /\ stored = NoState /\ working = NoState /\ wstate = NoState /\ inbox = {}
  BY DEF Init
<1>2. Reading = <<>> /\ Len(<<>>) = 0
  BY <1>1, NoPageParts DEF Reading
<1>3. \A d : GotOK(log, <<>>, d)
  BY <1>2 DEF GotOK
<1>4. LogAcc
  BY <1>1 DEF LogAcc, Closed, SeqsGrow
<1> QED BY <1>1, <1>2, <1>3, <1>4, NoPageParts, AbsentSound DEF AcceptInv, DappAcc, WalletAcc

\* The keys, the tree of messages and the acceptances, together.
LEMMA AcceptAlways == Spec => [](TypeOK /\ KeyInv /\ RefInv /\ AcceptInv)
<1>1. Init => RefInv /\ AcceptInv
  BY RefinementInit, AcceptInit
<1>2. TypeOK /\ KeyInv /\ RefInv /\ (TypeOK /\ KeyInv)' /\ [Next]_vars => RefInv'
  BY RefinementStep
<1>3. TypeOK /\ KeyInv /\ RefInv /\ AcceptInv /\ RefInv' /\ [Next]_vars => AcceptInv'
  BY AcceptStep
<1> QED BY <1>1, <1>2, <1>3, KeysFresh, PTL DEF Spec

\* Each side accepts a message once, never after one that continues it, and
\* along a conversation with growing seq, for every bound, caller discipline
\* and set of faults (query_session_messages, wait_challenge_response).
THEOREM AcceptedInOrderAlways == Spec => []AcceptedInOrder
<1>1. TypeOK /\ AcceptInv => AcceptedInOrder
  <2> SUFFICES ASSUME TypeOK, AcceptInv, NEW d \in {"c2w", "w2c"}, NEW got \in Seq(Nat),
                      GotOK(log, got, d), NEW i \in 1..Len(got), NEW j \in 1..Len(got), i < j
               PROVE  /\ ~IsPrefix(log[got[j]].root, log[got[i]].root)
                      /\ IsPrefix(log[got[i]].root, log[got[j]].root)
                           => log[got[i]].seq < log[got[j]].seq
    BY DEF AcceptInv, DappAcc, WalletAcc, AcceptedInOrder, TypeOK
  <2>1. ~IsPrefix(log[got[j]].root, log[got[i]].root)
    BY DEF GotOK
  <2>2. got[i] \in 1..Len(log) /\ got[j] \in 1..Len(log) /\ log[got[i]].dir = log[got[j]].dir
    BY DEF GotOK
  <2>3. log[got[i]].root \in Root
    BY <2>2, Entries DEF TypeOK
  <2>4. log[got[i]].root # log[got[j]].root
    BY <2>1, <2>3, PrefixSelf
  <2> QED BY <2>1, <2>2, <2>4 DEF AcceptInv, LogAcc, SeqsGrow, IsStrictPrefix
<1> QED BY <1>1, AcceptAlways, PTL

\* Whoever accepts a message has accepted every message of the other side it
\* was chained on, for every bound, caller discipline and set of faults.
THEOREM AcceptedWithoutGapsAlways == Spec => []AcceptedWithoutGaps
<1>1. TypeOK /\ AcceptInv => AcceptedWithoutGaps
  <2> SUFFICES ASSUME TypeOK, AcceptInv PROVE AcceptedWithoutGaps
    OBVIOUS
  <2>1. ASSUME NEW d, NEW got \in Seq(Nat), GotOK(log, got, d), NEW i \in Range(got),
               NEW j \in 1..Len(log), IsStrictPrefix(log[j].root, log[i].root), log[j].dir = d
        PROVE  j \in Range(got)
    <3>1. PICK k \in 1..Len(got) : got[k] = i
      BY <2>1, RangeOfSeq DEF Range
    <3>2. \E h \in 1..Len(got) : got[h] = j
      BY <2>1, <3>1 DEF GotOK, IsStrictPrefix
    <3> QED BY <3>2 DEF Range
  <2>2. walletGot \in Seq(Nat) /\ dappGot \in Seq(Nat)
    BY DEF TypeOK
  <2> QED BY <2>1, <2>2 DEF AcceptInv, DappAcc, WalletAcc, AcceptedWithoutGaps
<1> QED BY <1>1, AcceptAlways, PTL

-----------------------------------------------------------------------------
(* The response that wait_challenge_response returns. *)

\* A message of the inbox was read from the profile, and the state it carries
\* is the one after it.
InboxOK ==
  \A m \in inbox : m.idx \in 1..Len(log) /\ (Has(m.after) => m.after.root = log[m.idx].root)

\* A response continues the challenge it answers.
RepliesOK(l) ==
  \A i \in 1..Len(l) :
    l[i].type = "challenge_response"
      => l[i].nonce \in 1..Len(l) /\ l[l[i].nonce].root = Front(l[i].root)

\* The state held for a wait is the one of the challenge, and the response
\* that ended a wait answers it.
WaitOK ==
  /\ Has(working) => challenge \in 1..Len(log) /\ log[challenge].root = working.root
  /\ phase \in {"new", "linked"} => verdict = "none"
  /\ verdict = "found" => /\ Len(dappGot) > 0 /\ Last(dappGot) \in 1..Len(log)
                          /\ log[Last(dappGot)].nonce = challenge

ReplyInv == InboxOK /\ RepliesOK(log) /\ WaitOK

\* A write leaves what was written before in place.
LEMMA RepliesAppend ==
  ASSUME NEW l \in Seq(Envelope), NEW e \in Envelope, RepliesOK(l),
         e.type = "challenge_response"
           => e.nonce \in 1..Len(l) /\ l[e.nonce].root = Front(e.root)
  PROVE  RepliesOK(Append(l, e))
<1> DEFINE a == Append(l, e)
<1>1. /\ a[Len(l) + 1] = e
      /\ \A i \in 1..Len(l) : i \in 1..Len(a) /\ a[i] = l[i]
      /\ \A i \in 1..Len(a) : i \in 1..Len(l) \/ i = Len(l) + 1
  BY LogAppended
<1> HIDE DEF a
<1>2. ASSUME NEW i \in 1..Len(a), a[i].type = "challenge_response"
      PROVE  a[i].nonce \in 1..Len(a) /\ a[a[i].nonce].root = Front(a[i].root)
  <2>1. CASE i \in 1..Len(l)
    BY <1>1, <1>2, <2>1 DEF RepliesOK
  <2>2. CASE i = Len(l) + 1
    BY <1>1, <1>2, <2>2
  <2> QED BY <1>1, <2>1, <2>2
<1> QED BY <1>2 DEF RepliesOK, a

\* The same, for the inbox and for a wait the step does not touch.
LEMMA ReplyKeeps ==
  ASSUME TypeOK, ReplyInv, NEW e \in Envelope, log' = Append(log, e)
  PROVE  /\ \A m \in inbox : /\ m.idx \in 1..Len(log')
                             /\ Has(m.after) => m.after.root = log'[m.idx].root
         /\ Has(working) => challenge \in 1..Len(log') /\ log'[challenge].root = working.root
         /\ verdict = "found" => /\ Len(dappGot) > 0 /\ Last(dappGot) \in 1..Len(log')
                                 /\ log'[Last(dappGot)].nonce = challenge
<1>1. \A i \in 1..Len(log) : i \in 1..Len(log') /\ log'[i] = log[i]
  BY LogAppended DEF TypeOK
<1> QED BY <1>1 DEF ReplyInv, InboxOK, WaitOK

\* request_set_mining_keys, request_sign_challenge, disconnect_session, and
\* each of them without an answer.
LEMMA SendReply ==
  ASSUME TypeOK, KeyInv, ReplyInv, NEW t \in MsgTypes, t # "challenge_response", Send(t),
         phase' \in {"connected", "closed"},
         \/ working' \in {working, NoState} /\ UNCHANGED <<challenge, verdict>>
         \/ working' = Outbound /\ challenge' = Len(log') /\ verdict' = "sending"
  PROVE  ReplyInv'
<1> DEFINE e == EncodeMessage("c2w", t, Outbound, 0)
<1>1. e \in Envelope
  BY SendType, EncodeType DEF TypeOK
<1>2. e.type = t /\ e.root = Outbound.root
  BY DEF EncodeMessage
<1>3. log' = Append(log, e) /\ UNCHANGED <<inbox, dappGot>> /\ log \in Seq(Envelope)
  BY DEF Send, AddContextText, walletVars, TypeOK
<1> HIDE DEF e
<1>4. RepliesOK(log')
  BY <1>1, <1>2, <1>3, RepliesAppend DEF ReplyInv
<1>5. InboxOK'
  BY <1>1, <1>3, ReplyKeeps DEF InboxOK
<1>6. WaitOK'
  <2>1. CASE working' \in {working, NoState} /\ UNCHANGED <<challenge, verdict>>
    BY <1>1, <1>3, <2>1, ReplyKeeps, NoPageParts DEF WaitOK
  <2>2. CASE working' = Outbound /\ challenge' = Len(log') /\ verdict' = "sending"
    <3>1. Len(log') \in 1..Len(log') /\ log'[Len(log')] = e
      BY <1>1, <1>3, LogAppended
    <3> QED BY <1>2, <2>2, <3>1 DEF WaitOK
  <2> QED BY <2>1, <2>2
<1> QED BY <1>4, <1>5, <1>6 DEF ReplyInv

\* accept_shared_key_connect's wallet_hello and encode_challenge_response_message
LEMMA WalletWriteReply ==
  ASSUME TypeOK, ReplyInv, NEW e \in Envelope, log' = Append(log, e),
         e.type = "challenge_response"
           => e.nonce \in 1..Len(log) /\ log[e.nonce].root = Front(e.root),
         inbox' \subseteq inbox, UNCHANGED dappVars
  PROVE  ReplyInv'
<1>1. RepliesOK(log')
  BY RepliesAppend DEF TypeOK, ReplyInv
<1>2. InboxOK'
  BY ReplyKeeps DEF InboxOK
<1>3. WaitOK'
  BY ReplyKeeps DEF ReplyInv, WaitOK, dappVars
<1> QED BY <1>1, <1>2, <1>3 DEF ReplyInv

LEMMA HelloReply ==
  ASSUME TypeOK, ReplyInv, NEW k \in accepting, AcceptHello(k)
  PROVE  ReplyInv'
<1> DEFINE s == InitialState(k, clientDh, 0, clock)
           e == WalletHello(s)
<1>1. s \in State
  BY InitialStateType DEF TypeOK
<1>2. e \in Envelope /\ e.type = "wallet_hello"
  <2>1. e \in Envelope
    BY <1>1, EncodeType DEF WalletHello, MsgTypes, TypeOK
  <2> QED BY <2>1 DEF WalletHello, EncodeMessage
<1>3. log' = Append(log, e) /\ inbox' \subseteq inbox /\ UNCHANGED dappVars
  BY DEF AcceptHello, AddContextText
<1> QED BY <1>2, <1>3, WalletWriteReply

\* encode_challenge_response_message, from the session_state_after of its
\* challenge
LEMMA ResponseReply ==
  ASSUME TypeOK, ReplyInv, "redelivered" \notin Policy, NEW m \in inbox, RespondToChallenge(m)
  PROVE  ReplyInv'
<1> DEFINE base == ResponseBase(m)
           seq  == NextOutboundSeq(base)
           s    == RekeyOutbound(base, Fresh("wallet"), seq)
           e    == ChallengeResponse(s, m.idx)
<1>1. Has(m.after) /\ base = m.after /\ m.after \in State /\ m.idx \in Nat /\ clock \in Nat
  BY DEF RespondToChallenge, ResponseBase, TypeOK
<1>2. /\ log' = Append(log, e) /\ inbox' \subseteq inbox /\ UNCHANGED dappVars
  BY DEF RespondToChallenge, AddContextText
<1>3. seq \in Nat /\ Fresh("wallet") \in Key
  BY <1>1, SeqType, FreshType DEF TypeOK, Side
<1> HIDE DEF base, seq
<1>4. s \in State
  BY <1>1, <1>3, RekeyType
<1>5. Front(s.root) = m.after.root
  BY <1>1, <1>3, OutboundContinues
<1> HIDE DEF s
<1>6. e \in Envelope /\ e.root = s.root /\ e.nonce = m.idx
  <2>1. e \in Envelope
    BY <1>1, <1>4, EncodeType DEF ChallengeResponse, MsgTypes
  <2> QED BY <2>1 DEF ChallengeResponse, EncodeMessage
<1>7. m.idx \in 1..Len(log) /\ m.after.root = log[m.idx].root
  BY <1>1 DEF ReplyInv, InboxOK
<1> HIDE DEF e
<1> QED BY <1>2, <1>5, <1>6, <1>7, WalletWriteReply

\* wait_challenge_response: the response continues the challenge, whose root
\* no other message has.
LEMMA WaitReply ==
  ASSUME TypeOK, RefInv, AcceptInv, ReplyInv, Waiting \/ WaitTimesOut
  PROVE  ReplyInv'
<1>1. UNCHANGED <<log, inbox, challenge>> /\ working' = NoState
  BY DEF Waiting, WaitFinds, WaitDesync, WaitAborts, WaitTimesOut, WaitEnds, chainVars, walletVars
<1>2. InboxOK' /\ RepliesOK(log')
  BY <1>1 DEF ReplyInv, InboxOK
<1>3. Has(working) /\ phase' \in {phase, "closed"} /\ verdict' \in {"found", "desync", "error", "timeout"}
  BY DEF Waiting, WaitFinds, WaitDesync, WaitAborts, WaitTimesOut, WaitEnds
<1>4. phase' \notin {"new", "linked"}
  BY <1>3 DEF AcceptInv, DappAcc
<1>5. CASE verdict' # "found"
  BY <1>1, <1>2, <1>4, <1>5, NoPageParts DEF ReplyInv, WaitOK
<1>6. CASE verdict' = "found"
  <2>1. WaitFinds
    BY <1>6 DEF Waiting, WaitDesync, WaitAborts, WaitTimesOut, WaitEnds
  <2>2. PICK i \in Hits(working, Responses) : dappGot' = Append(dappGot, i)
    BY <2>1 DEF WaitFinds
  <2>3. i \in 1..Len(log) /\ log[i].type = "challenge_response" /\ Opens(working, log[i])
    BY DEF Hits, Responses, Candidates, Window
  <2>4. log[i] \in Envelope /\ working \in State /\ dappGot \in Seq(Nat) /\ i \in Nat
    BY <2>3, LogEntry DEF TypeOK
  <2>5. Front(log[i].root) = working.root
    BY <2>3, <2>4, OpensContinues
  <2>6. log[i].nonce \in 1..Len(log) /\ log[log[i].nonce].root = log[challenge].root
        /\ challenge \in 1..Len(log)
    BY <1>3, <2>3, <2>5 DEF ReplyInv, RepliesOK, WaitOK
  <2>7. log[i].nonce = challenge
    BY <2>6 DEF RefInv, Linked
  <2>8. Len(dappGot') > 0 /\ Last(dappGot') = i
    <3>1. Len(Append(dappGot, i)) = Len(dappGot) + 1 /\ Len(dappGot) \in Nat
          /\ Append(dappGot, i)[Len(dappGot) + 1] = i
      BY <2>4, AppendProperties
    <3> QED BY <2>2, <3>1 DEF Last
  <2> QED BY <1>1, <1>2, <1>4, <2>3, <2>7, <2>8, NoPageParts DEF ReplyInv, WaitOK
<1> QED BY <1>5, <1>6

\* query_session_messages and the loss of its result
LEMMA QueryReply ==
  ASSUME TypeOK, ReplyInv, Query \/ QueryLost
  PROVE  ReplyInv'
<1>1. UNCHANGED <<log, phase, working, challenge, verdict, dappGot>>
  BY DEF Query, QueryBegin, QueryRecord, QueryEnd, QueryLost, WalletUnchanged, chainVars, dappVars
<1>2. WaitOK' /\ RepliesOK(log')
  BY <1>1 DEF ReplyInv, WaitOK
<1>3. CASE inbox' \subseteq inbox
  BY <1>1, <1>2, <1>3 DEF ReplyInv, InboxOK
<1>4. CASE QueryRecord
  <2> DEFINE i == page.next
             e == log[page.next]
             after == RekeyInbound(page.st, e.dh, e.seq)
  <2>1. i \in 1..Len(log)
    <3>1. page.next # 0 /\ page.next <= page.last
      BY <1>4 DEF QueryRecord, Idle
    <3>2. page.next \in Nat /\ page.last \in Nat /\ page.last <= Len(log) /\ Len(log) \in Nat
      <4>1. page \in [next : Nat, last : Nat, st : State, got : Seq(Nat)]
            /\ page.last <= Len(log) /\ log \in Seq(Envelope)
        BY DEF TypeOK
      <4> QED BY <4>1
    <3> QED BY <3>1, <3>2
  <2>2. CASE e.dir = "c2w" /\ Opens(page.st, e)
    <3>1. inbox' = inbox \cup {[idx |-> i, after |-> after]}
      BY <1>4, <2>2 DEF QueryRecord
    <3>2. after.root = e.root
      BY <2>2 DEF Opens, Decrypts
    <3> HIDE DEF after
    <3> QED BY <1>1, <1>2, <2>1, <3>1, <3>2 DEF ReplyInv, InboxOK
  <2>3. CASE ~(e.dir = "c2w" /\ Opens(page.st, e))
    <3>1. inbox' \subseteq inbox \cup {[idx |-> i, after |-> NoState]}
      BY <1>4, <2>3 DEF QueryRecord
    <3> QED BY <1>1, <1>2, <2>1, <3>1, NoPageParts DEF ReplyInv, InboxOK
  <2> QED BY <2>2, <2>3
<1> QED BY <1>3, <1>4 DEF Query, QueryBegin, QueryEnd, QueryLost

LEMMA ReplyStep ==
  /\ TypeOK /\ KeyInv /\ RefInv /\ AcceptInv /\ ReplyInv /\ "redelivered" \notin Policy
  /\ [Next]_vars
  => ReplyInv'
<1> SUFFICES ASSUME TypeOK, KeyInv, RefInv, AcceptInv, ReplyInv, "redelivered" \notin Policy,
                    [Next]_vars
             PROVE  ReplyInv'
  OBVIOUS
<1>1. ASSUME UNCHANGED <<log, working, challenge, verdict, dappGot>>, inbox' \subseteq inbox,
             phase' \in {"new", "linked"} => phase \in {"new", "linked"}
      PROVE  ReplyInv'
  BY <1>1 DEF ReplyInv, InboxOK, WaitOK
<1>2. CASE Tick \/ CreateSharedKeySession \/ AcceptBegin \/ UNCHANGED vars
  <2>1. UNCHANGED <<log, working, challenge, verdict, dappGot, inbox>>
    BY <1>2 DEF Tick, CreateSharedKeySession, AcceptBegin, vars, chainVars, dappVars, walletVars
  <2>2. phase' \in {"new", "linked"} => phase \in {"new", "linked"}
    BY <1>2 DEF Tick, CreateSharedKeySession, AcceptBegin, vars, dappVars
  <2> QED BY <1>1, <2>1, <2>2
<1>3. CASE WaitWalletHello
  <2>1. UNCHANGED <<log, working, challenge, verdict, inbox>> /\ phase = "linked"
        /\ phase' = "connected"
    BY <1>3 DEF WaitWalletHello, chainVars, walletVars
  <2> QED BY <2>1 DEF ReplyInv, InboxOK, WaitOK
<1>4. ASSUME NEW k \in accepting, AcceptDeploy(k) \/ AcceptFail(k) PROVE ReplyInv'
  BY <1>1, <1>4 DEF AcceptDeploy, AcceptFail, chainVars, dappVars, walletVars
<1>5. CASE Accepting
  BY <1>4, <1>5, HelloReply DEF Accepting
<1>6. ASSUME NEW t \in MsgTypes, Send(t) PROVE phase = "connected"
  BY <1>6 DEF Send
<1>7. CASE RequestSetMiningKeys
  BY <1>6, <1>7, SendReply DEF RequestSetMiningKeys, MsgTypes
<1>8. CASE RequestSignChallenge
  BY <1>6, <1>8, SendReply DEF RequestSignChallenge, MsgTypes
<1>s. CASE SignChallengeSent
  <2>1. /\ UNCHANGED <<log, working, challenge, phase, dappGot, inbox>>
        /\ verdict = "sending" /\ verdict' = "waiting"
    BY <1>s DEF SignChallengeSent, chainVars, walletVars
  <2> QED BY <2>1 DEF ReplyInv, InboxOK, WaitOK
<1>9. CASE DisconnectSession
  BY <1>9, SendReply DEF DisconnectSession, MsgTypes
<1>10. ASSUME NEW t \in {"set_mining_keys", "sign_challenge"}, SendUnacknowledged(t)
       PROVE  ReplyInv'
  BY <1>6, <1>10, SendReply DEF SendUnacknowledged, MsgTypes
<1>11. CASE Responding
  BY <1>11, ResponseReply DEF Responding
<1>12. CASE WaitSetMiningKeys
  BY <1>1, <1>12 DEF WaitSetMiningKeys, WalletUnchanged, chainVars, dappVars
<1>13. CASE DestroyConnectProfile
  BY <1>1, <1>13 DEF DestroyConnectProfile, dappVars
<1> QED
  BY <1>2, <1>3, <1>5, <1>7, <1>8, <1>s, <1>9, <1>10, <1>11, <1>12, <1>13, WaitReply,
     QueryReply
     DEF Next

\* A wallet that answers with the session_state_after of the challenge, as
\* the code asks of it, never makes the dApp take the answer to another
\* challenge for its own, for every bound, caller discipline and set of faults
\* (challenge_response, wait_challenge_response).
THEOREM ResponseAnswersChallengeAlways == Spec => []ResponseAnswersChallenge
<1>1. CASE "redelivered" \in Policy
  <2>1. TypeOK => ResponseAnswersChallenge
    BY <1>1 DEF ResponseAnswersChallenge
  <2> QED BY <2>1, TypeCorrect, PTL
<1>2. CASE "redelivered" \notin Policy
  <2>1. Init => ReplyInv
    <3> SUFFICES ASSUME Init PROVE ReplyInv
      OBVIOUS
    <3>1. inbox = {} /\ Len(log) = 0 /\ working = NoState /\ verdict = "none"
      BY DEF Init
    <3> QED BY <3>1, NoPageParts DEF ReplyInv, InboxOK, RepliesOK, WaitOK
  <2>2. TypeOK /\ KeyInv /\ RefInv /\ AcceptInv /\ ReplyInv /\ [Next]_vars => ReplyInv'
    BY <1>2, ReplyStep
  <2>3. ReplyInv => ResponseAnswersChallenge
    BY DEF ReplyInv, WaitOK, ResponseAnswersChallenge
  <2> QED BY <2>1, <2>2, <2>3, AcceptAlways, PTL DEF Spec
<1> QED BY <1>1, <1>2

-----------------------------------------------------------------------------
(***************************************************************************)
(* 4. The two sides stay on one root chain.                                *)
(***************************************************************************)

-----------------------------------------------------------------------------
(* More about prefixes of roots. *)

LEMMA PrefixTrans ==
  ASSUME NEW p \in Root, NEW r \in Root, NEW t \in Root, IsPrefix(p, r), IsPrefix(r, t)
  PROVE  IsPrefix(p, t)
<1>1. Len(p) \in Nat /\ Len(r) \in Nat /\ Len(t) \in Nat
  BY DEF Root
<1>2. Len(p) <= Len(r) /\ \A k \in 1..Len(p) : p[k] = r[k]
  BY PrefixElements
<1>3. Len(r) <= Len(t) /\ \A k \in 1..Len(r) : r[k] = t[k]
  BY PrefixElements
<1>4. Len(p) <= Len(t) /\ \A k \in 1..Len(p) : p[k] = t[k]
  BY <1>1, <1>2, <1>3
<1> QED BY <1>4, PrefixElements

\* Nothing strictly continues a root it is on the way to.
LEMMA StrictNotBack ==
  ASSUME NEW p \in Root, NEW r \in Root, IsStrictPrefix(p, r)
  PROVE  ~IsPrefix(r, p)
<1> SUFFICES ASSUME IsPrefix(r, p) PROVE FALSE
  OBVIOUS
<1>1. p \in Seq(SUBSET Key) /\ r \in Seq(SUBSET Key) /\ Len(p) \in Nat /\ Len(r) \in Nat
  BY DEF Root
<1>2. Len(p) <= Len(r) /\ \A k \in 1..Len(p) : p[k] = r[k]
  BY PrefixElements DEF IsStrictPrefix
<1>3. Len(r) <= Len(p)
  BY PrefixElements
<1>4. p = r
  BY <1>1, <1>2, <1>3, SeqEqual
<1> QED BY <1>4 DEF IsStrictPrefix

\* A root and what continues it belong to one session.
LEMMA PrefixSession ==
  ASSUME NEW p \in Root, NEW r \in Root, p # <<>>, IsPrefix(p, r)
  PROVE  p[1] = r[1]
<1>1. Len(p) \in Nat /\ Len(p) # 0
  BY DEF Root
<1>2. \A k \in 1..Len(p) : p[k] = r[k]
  BY PrefixElements
<1> QED BY <1>1, <1>2

\* A session's first root is on the way to all of its roots.
LEMMA FirstPrefix ==
  ASSUME NEW x \in SUBSET Key, NEW r \in Root, r # <<>>, r[1] = x
  PROVE  IsPrefix(<<x>>, r)
<1>1. <<x>> \in Root /\ Len(<<x>>) = 1 /\ <<x>>[1] = x /\ Len(r) \in Nat /\ Len(r) # 0
  BY DEF Root
<1>2. Len(<<x>>) <= Len(r) /\ \A k \in 1..Len(<<x>>) : <<x>>[k] = r[k]
  BY <1>1
<1> QED BY <1>1, <1>2, PrefixElements

\* A root extended by one shared secret.
LEMMA ExtendedRoot ==
  ASSUME NEW r \in Root, NEW x \in SUBSET Key
  PROVE  /\ Append(r, x) \in Root /\ Append(r, x) # <<>>
         /\ IsStrictPrefix(r, Append(r, x))
         /\ r # <<>> => Append(r, x)[1] = r[1]
         /\ \A p \in Root : IsPrefix(p, r) => IsPrefix(p, Append(r, x))
<1>1. Append(r, x) \in Root /\ Append(r, x) # <<>>
  BY LastAppend
<1>2. IsStrictPrefix(r, Append(r, x))
  BY <1>1, PrefixSelf, ExtendedPrefix
<1>3. r # <<>> => Append(r, x)[1] = r[1]
  BY <1>1, <1>2, PrefixSession DEF IsStrictPrefix
<1>4. \A p \in Root : IsPrefix(p, r) => IsPrefix(p, Append(r, x))
  BY <1>1, <1>2, PrefixTrans DEF IsStrictPrefix
<1> QED BY <1>1, <1>2, <1>3, <1>4

-----------------------------------------------------------------------------
(* The inductive invariant. *)

\* Callers that do not send while they wait, and see what they have written.
Careful == "overlap" \notin Policy /\ Faults \cap {"dapp_ack", "wallet_ack"} = {}

\* A dApp that gave up a wait has not kept the state of the challenge.
Prompt == ~gaveUp \/ "early_persist" \notin Policy

\* The inbox holds each message of the dApp once, and only what the query in
\* progress has passed.
InboxRead ==
  \A m \in inbox : /\ m.idx \in 1..Len(log) /\ log[m.idx].dir = "c2w"
                   /\ Has(m.after) => m.after.root = log[m.idx].root
                   /\ ~Idle => m.idx < page.next
                   /\ \A n \in inbox : n.idx = m.idx => n = m

\* A message of direction d continues the root.
Ahead(l, r, d) == \E i \in 1..Len(l) : l[i].dir = d /\ IsStrictPrefix(r, l[i].root)

\* The dApp goes on from a challenge only after the wallet did.
Answered(l) ==
  \A i \in 1..Len(l) :
    l[i].type = "sign_challenge" /\ Ahead(l, l[i].root, "c2w") => Ahead(l, l[i].root, "w2c")

\* The wallet's state continues everything the wallet wrote in its session.
SentHeld(l, s) ==
  Has(s) => \A i \in 1..Len(l) :
              l[i].dir = "w2c" /\ Signer(l[i]) = Signer(s) => IsPrefix(l[i].root, s.root)

\* A challenge of the inbox is the last message the wallet has read.
Reader == IF Idle THEN wstate ELSE page.st
InboxLast == \A m \in inbox : log[m.idx].type = "sign_challenge" => log[m.idx].root = Reader.root

\* The persisted state of a dApp that does not wait is not a challenge's.
Asked(l, r) == \E i \in 1..Len(l) : l[i].root = r /\ l[i].type = "sign_challenge"
StoredOK ==
  Has(stored) /\ ("early_persist" \notin Policy \/ ~Has(working)) => ~Asked(log, stored.root)

TurnInv ==
  Prompt => /\ Answered(log) /\ SentHeld(log, wstate) /\ SentHeld(log, page.st)
            /\ InboxLast /\ StoredOK

\* Before the dApp has joined a session the profile holds hellos only, and
\* without a session it holds no state.
PhaseInv ==
  /\ phase \in {"new", "linked"}
       => \A i \in 1..Len(log) : log[i].dir = "w2c" /\ Len(log[i].root) = 1
                                 /\ log[i].type = "wallet_hello"
  /\ phase # "connected" => ~Has(stored) /\ ~Has(working)

\* The response the dApp waits for.
Reply(i) == Has(working) /\ log[i].dir = "w2c" /\ IsStrictPrefix(working.root, log[i].root)

\* The messages of the dApp's session form one chain: what led to its current
\* state, and at most one response beyond it.
ChainInv ==
  ~gaveUp /\ phase = "connected" =>
    /\ \A i \in 1..Len(log) :
         Signer(log[i]) = Signer(Current) => IsPrefix(log[i].root, Current.root) \/ Reply(i)
    /\ \A i, j \in 1..Len(log) : Reply(i) /\ Reply(j) => i = j

SyncInv == InboxRead /\ TurnInv /\ PhaseInv /\ ChainInv

-----------------------------------------------------------------------------
(* A write, seen by the parts of the invariant. *)

\* A message of the wallet, or one of the dApp from a state that is not a
\* challenge's.
LEMMA AnsweredAppend ==
  ASSUME NEW l \in Seq(Envelope), NEW e \in Envelope, Closed(l), Linked(Append(l, e)),
         Answered(l), NEW r \in Root, NEW x \in SUBSET Key, e.root = Append(r, x),
         \/ e.dir = "w2c" /\ e.type # "sign_challenge"
         \/ e.dir = "c2w" /\ Written(l, r) /\ ~Asked(l, r)
  PROVE  Answered(Append(l, e))
<1> DEFINE a == Append(l, e)
<1>1. /\ a[Len(l) + 1] = e
      /\ \A i \in 1..Len(l) : i \in 1..Len(a) /\ a[i] = l[i]
      /\ \A i \in 1..Len(a) : i \in 1..Len(l) \/ i = Len(l) + 1
  BY LogAppended
<1> HIDE DEF a
<1>2. \A i \in 1..Len(l) : ~IsPrefix(e.root, l[i].root)
  BY NewRoot
<1>3. \A q, d : Ahead(l, q, d) => Ahead(a, q, d)
  BY <1>1 DEF Ahead
<1>4. ASSUME NEW i \in 1..Len(a), a[i].type = "sign_challenge", Ahead(a, a[i].root, "c2w")
      PROVE  Ahead(a, a[i].root, "w2c")
  <2>1. PICK j \in 1..Len(a) : a[j].dir = "c2w" /\ IsStrictPrefix(a[i].root, a[j].root)
    BY <1>4 DEF Ahead
  <2>2. CASE i = Len(l) + 1
    BY <1>1, <1>2, <2>1, <2>2 DEF IsStrictPrefix
  <2>3. CASE i \in 1..Len(l) /\ j \in 1..Len(l)
    <3>1. a[i] = l[i] /\ a[j] = l[j]
      BY <1>1, <2>3
    <3>2. Ahead(l, l[i].root, "c2w")
      BY <2>1, <2>3, <3>1 DEF Ahead
    <3>3. Ahead(l, l[i].root, "w2c")
      BY <1>4, <2>3, <3>1, <3>2 DEF Answered
    <3> QED BY <1>3, <3>1, <3>3
  <2>4. CASE i \in 1..Len(l) /\ j = Len(l) + 1
    <3>1. a[i] = l[i] /\ a[j] = e /\ l[i].root \in Root /\ e.dir = "c2w"
      BY <1>1, <2>1, <2>4, Entries
    <3>2. Written(l, r) /\ ~Asked(l, r)
      BY <3>1
    <3>3. IsPrefix(l[i].root, r)
      BY <2>1, <3>1, PrefixOfExtended DEF IsStrictPrefix
    <3>4. l[i].root # r
      BY <1>4, <2>4, <3>1, <3>2 DEF Asked
    <3>5. PICK p \in 1..Len(l) : l[p].root = r
      BY <3>2 DEF Written
    <3>6. IsStrictPrefix(l[i].root, l[p].root)
      BY <3>3, <3>4, <3>5 DEF IsStrictPrefix
    <3>7. l[p].dir \in {"c2w", "w2c"}
      BY Entries
    <3>8. Ahead(l, l[i].root, "w2c")
      BY <1>4, <2>4, <3>1, <3>6, <3>7 DEF Answered, Ahead
    <3> QED BY <1>3, <3>1, <3>8
  <2> QED BY <1>1, <2>2, <2>3, <2>4
<1> QED BY <1>4 DEF Answered, a

\* A message of the dApp, or of another session.
LEMMA SentHeldAppend ==
  ASSUME NEW l \in Seq(Envelope), NEW e \in Envelope, NEW s, SentHeld(l, s),
         e.dir = "w2c" => ~Has(s) \/ Signer(e) # Signer(s)
  PROVE  SentHeld(Append(l, e), s)
<1> DEFINE a == Append(l, e)
<1>1. /\ a[Len(l) + 1] = e
      /\ \A i \in 1..Len(l) : a[i] = l[i]
      /\ \A i \in 1..Len(a) : i \in 1..Len(l) \/ i = Len(l) + 1
  BY LogAppended
<1> HIDE DEF a
<1>2. ASSUME Has(s), NEW i \in 1..Len(a), a[i].dir = "w2c", Signer(a[i]) = Signer(s)
      PROVE  IsPrefix(a[i].root, s.root)
  BY <1>1, <1>2 DEF SentHeld
<1> QED BY <1>2 DEF SentHeld, a

\* A state that reads on.
LEMMA SentHeldRead ==
  ASSUME NEW l \in Seq(Envelope), NEW s \in State, NEW t, NEW x \in SUBSET Key, Has(s),
         t.root = Append(s.root, x), SentHeld(l, s)
  PROVE  SentHeld(l, t)
<1>1. s.root \in Root /\ s.root # <<>>
  BY DEF State, Has
<1>2. Signer(t) = Signer(s)
  BY <1>1, ExtendedRoot DEF Signer
<1>3. ASSUME NEW i \in 1..Len(l), l[i].dir = "w2c", Signer(l[i]) = Signer(t)
      PROVE  IsPrefix(l[i].root, t.root)
  <2>1. IsPrefix(l[i].root, s.root) /\ l[i].root \in Root
    BY <1>2, <1>3, Entries DEF SentHeld
  <2> QED BY <1>1, <2>1, ExtendedRoot
<1> QED BY <1>3 DEF SentHeld

\* Another message is no challenge under a root that was written before.
LEMMA AskedAppend ==
  ASSUME NEW l \in Seq(Envelope), NEW e \in Envelope, NEW r, Asked(Append(l, e), r)
  PROVE  Asked(l, r) \/ (e.type = "sign_challenge" /\ e.root = r)
<1> DEFINE a == Append(l, e)
<1>1. /\ a[Len(l) + 1] = e
      /\ \A i \in 1..Len(l) : a[i] = l[i]
      /\ \A i \in 1..Len(a) : i \in 1..Len(l) \/ i = Len(l) + 1
  BY LogAppended
<1> HIDE DEF a
<1>2. PICK i \in 1..Len(a) : a[i].root = r /\ a[i].type = "sign_challenge"
  BY DEF Asked, a
<1> QED BY <1>1, <1>2 DEF Asked

\* A message that is not a reply leaves the replies as they are.
LEMMA ReplyAppend ==
  ASSUME TypeOK, NEW e \in Envelope, log' = Append(log, e), working' = working,
         ~(Has(working) /\ e.dir = "w2c" /\ IsStrictPrefix(working.root, e.root)),
         NEW i \in 1..Len(log')
  PROVE  Reply(i)' => i \in 1..Len(log) /\ Reply(i)
<1>1. /\ log'[Len(log) + 1] = e
      /\ \A j \in 1..Len(log) : log'[j] = log[j]
      /\ i \in 1..Len(log) \/ i = Len(log) + 1
  BY LogAppended DEF TypeOK
<1> QED BY <1>1 DEF Reply

\* The inbox when a message is written.
LEMMA InboxAppend ==
  ASSUME TypeOK, InboxRead, NEW e \in Envelope, log' = Append(log, e), inbox' \subseteq inbox,
         page' = page \/ Idle'
  PROVE  InboxRead'
<1>1. \A i \in 1..Len(log) : i \in 1..Len(log') /\ log'[i] = log[i]
  BY LogAppended DEF TypeOK
<1> QED BY <1>1 DEF InboxRead, Idle

\* request_set_mining_keys, request_sign_challenge, disconnect_session
LEMMA SendSync ==
  ASSUME TypeOK, KeyInv, RefInv, AcceptInv, SyncInv, Careful, Linked(log'),
         NEW t \in MsgTypes, Send(t),
         \/ /\ t = "set_mining_keys" /\ stored' = Outbound /\ UNCHANGED <<phase, working>>
         \/ working' = Outbound /\ UNCHANGED <<phase, stored>>
         \/ stored' = NoState /\ working' = NoState /\ phase' = "closed"
  PROVE  SyncInv'
<1> DEFINE e == EncodeMessage("c2w", t, Outbound, 0)
           r == stored.root
           x == Shared(Fresh("dapp"), stored.peer)
           N == Len(log) + 1
<1>1. stored \in State /\ Fresh("dapp") \in Key /\ Has(stored) /\ clock \in Nat
      /\ log \in Seq(Envelope) /\ phase = "connected"
  BY FreshType DEF TypeOK, Side, Send, KeyInv, DappOK
<1>2. e \in Envelope
  BY SendType, EncodeType DEF TypeOK
<1>3. e.dir = "c2w" /\ e.type = t /\ e.root = Outbound.root
  BY DEF EncodeMessage
<1>4. log' = Append(log, e) /\ UNCHANGED <<wstate, page, inbox, gaveUp>>
  BY DEF Send, AddContextText, walletVars
<1>5. x \in SUBSET Key /\ r \in Root /\ e.root = Append(r, x)
  BY <1>1, <1>3, OutboundParts DEF Outbound
<1>6. ~Has(working)
  BY DEF Send, Careful
<1>7. Written(log, r) /\ r # <<>>
  BY <1>1, HeldWritten DEF Has
<1> HIDE DEF e, x
<1>8. Closed(log) /\ Linked(log)
  BY DEF AcceptInv, LogAcc, RefInv
<1>9. /\ log'[N] = e /\ N \in 1..Len(log')
      /\ \A i \in 1..Len(log) : i \in 1..Len(log') /\ log'[i] = log[i] /\ log[i].root \in Root
      /\ \A i \in 1..Len(log') : i \in 1..Len(log) \/ i = N
  BY <1>1, <1>2, <1>4, LogAppended, Entries
<1>10. /\ \A i \in 1..Len(log) : ~IsPrefix(e.root, log[i].root)
       /\ ~IsPrefix(e.root, r)
  BY <1>1, <1>2, <1>4, <1>7, <1>8, NewRoot
<1>11. e.root \in Root /\ e.root # <<>> /\ e.root[1] = r[1] /\ e.root # r
       /\ IsPrefix(e.root, e.root)
  BY <1>5, <1>7, <1>10, ExtendedRoot, PrefixSelf
<1> HIDE DEF N, r
<1>12. InboxRead'
  BY <1>2, <1>4, InboxAppend DEF SyncInv
<1>13. PhaseInv'
  <2>1. phase' = "connected" \/ (phase' = "closed" /\ ~Has(stored') /\ ~Has(working'))
    BY <1>1, NoPageParts
  <2> QED BY <2>1 DEF PhaseInv
<1>14. TurnInv'
  <2> SUFFICES ASSUME Prompt' PROVE
                 (/\ Answered(log) /\ SentHeld(log, wstate) /\ SentHeld(log, page.st)
                  /\ InboxLast /\ StoredOK)'
    BY DEF TurnInv
  <2>1. Answered(log) /\ SentHeld(log, wstate) /\ SentHeld(log, page.st) /\ InboxLast /\ StoredOK
    BY <1>4 DEF SyncInv, TurnInv, Prompt
  <2>2. ~Asked(log, r)
    BY <1>1, <1>6, <2>1 DEF StoredOK, r
  <2>3. Answered(log')
    BY <1>1, <1>2, <1>3, <1>4, <1>5, <1>7, <1>8, <2>1, <2>2, AnsweredAppend
  <2>4. SentHeld(log', wstate) /\ SentHeld(log', page.st)
    BY <1>1, <1>2, <1>3, <1>4, <2>1, SentHeldAppend
  <2>5. InboxLast'
    <3>1. Reader' = Reader
      BY <1>4 DEF Reader, Idle
    <3>2. \A m \in inbox : log'[m.idx] = log[m.idx]
      BY <1>9 DEF SyncInv, InboxRead
    <3> QED BY <1>4, <2>1, <3>1, <3>2 DEF InboxLast
  <2>6. StoredOK'
    <3> SUFFICES ASSUME Has(stored'), "early_persist" \notin Policy \/ ~Has(working'),
                        Asked(log', stored'.root)
                 PROVE  FALSE
      BY DEF StoredOK
    <3>1. CASE t = "set_mining_keys" /\ stored' = Outbound
      <4>1. e.type # "sign_challenge" /\ stored'.root = e.root
        BY <1>3, <3>1
      <4>2. Asked(log, e.root)
        BY <1>1, <1>2, <1>4, <4>1, AskedAppend
      <4> QED BY <1>10, <1>11, <4>2 DEF Asked
    <3>2. CASE working' = Outbound /\ stored' = stored
      <4>1. Asked(log, r) \/ e.root = r
        BY <1>1, <1>2, <1>4, <3>2, AskedAppend DEF r
      <4> QED BY <1>11, <2>2, <4>1
    <3>3. CASE stored' = NoState
      BY <3>3, NoPageParts
    <3> QED BY <3>1, <3>2, <3>3
  <2> QED BY <1>4, <2>3, <2>4, <2>5, <2>6
<1>15. ChainInv'
  <2> SUFFICES ASSUME ~gaveUp', phase' = "connected"
               PROVE  /\ \A i \in 1..Len(log') :
                           Signer(log'[i]) = Signer(Current')
                             => IsPrefix(log'[i].root, Current'.root) \/ Reply(i)'
                      /\ \A i, j \in 1..Len(log') : Reply(i)' /\ Reply(j)' => i = j
    BY DEF ChainInv
  <2>1. /\ Current'.root = e.root
        /\ Has(working') => working'.root = e.root
    BY <1>3, <1>6, <1>11 DEF Current, Has
  <2>2. ASSUME NEW i \in 1..Len(log') PROVE ~Reply(i)'
    <3>1. CASE i = N
      BY <1>3, <1>9, <3>1 DEF Reply
    <3>2. CASE i \in 1..Len(log)
      BY <1>9, <1>10, <2>1, <3>2 DEF Reply, IsStrictPrefix
    <3> QED BY <1>9, <3>1, <3>2
  <2>3. ASSUME NEW i \in 1..Len(log'), Signer(log'[i]) = Signer(Current')
        PROVE  IsPrefix(log'[i].root, Current'.root)
    <3>1. CASE i = N
      BY <1>9, <1>11, <2>1, <3>1
    <3>2. CASE i \in 1..Len(log)
      <4>1. log'[i] = log[i] /\ log[i].root \in Root
        BY <1>9, <3>2
      <4>2. Signer(log[i]) = Signer(Current) /\ Current = stored
        BY <1>6, <1>11, <2>1, <2>3, <4>1 DEF Signer, Current, r
      <4>3. IsPrefix(log[i].root, r)
        BY <1>1, <1>4, <1>6, <3>2, <4>2 DEF SyncInv, ChainInv, Reply, r
      <4>4. IsPrefix(log[i].root, e.root)
        BY <1>5, <4>1, <4>3, ExtendedRoot
      <4> QED BY <2>1, <4>1, <4>4
    <3> QED BY <1>9, <3>1, <3>2
  <2> QED BY <2>2, <2>3
<1> QED BY <1>12, <1>13, <1>14, <1>15 DEF SyncInv

\* accept_shared_key_connect: the hello of a session nobody has used
LEMMA HelloSync ==
  ASSUME TypeOK, KeyInv, RefInv, AcceptInv, SyncInv, Careful, Linked(log'),
         NEW k \in accepting, AcceptHello(k)
  PROVE  SyncInv'
<1> DEFINE s == InitialState(k, clientDh, 0, clock)
           e == EncodeMessage("w2c", "wallet_hello", s, 0)
           x == Shared(k, clientDh)
           N == Len(log) + 1
<1>1. k \in Key /\ clientDh \in Key /\ clock \in Nat /\ log \in Seq(Envelope)
  BY DEF TypeOK
<1>2. e \in Envelope
  BY <1>1, InitialStateType, EncodeType DEF MsgTypes
<1>3. s.root = <<x>> /\ e.root = <<x>> /\ e.dir = "w2c" /\ e.type = "wallet_hello"
  BY DEF InitialState, EncodeMessage
<1>4. x \in SUBSET Key /\ <<>> \in Root /\ <<x>> = Append(<<>>, x) /\ <<x>> \in Root
      /\ Len(<<x>>) = 1 /\ <<x>>[1] = x
  BY <1>1 DEF Shared, Root
<1>5. /\ log' = Append(log, e) /\ UNCHANGED <<phase, stored, working, gaveUp>>
      /\ wstate' = s /\ inbox' = {} /\ page' = NoPage
  BY DEF AcceptHello, WalletHello, AddContextText, dappVars, Careful
<1> HIDE DEF s, e, x
<1>6. Closed(log) /\ Linked(log)
  BY DEF AcceptInv, LogAcc, RefInv
<1>7. /\ log'[N] = e /\ N \in 1..Len(log')
      /\ \A i \in 1..Len(log) : i \in 1..Len(log') /\ log'[i] = log[i] /\ log[i].root \in Root
                                /\ log[i].root # <<>>
      /\ \A i \in 1..Len(log') : i \in 1..Len(log) \/ i = N
  BY <1>1, <1>2, <1>5, <1>6, LogAppended, Entries DEF Linked
<1>8. /\ \A i \in 1..Len(log) : ~IsPrefix(e.root, log[i].root)
      /\ \A r : Written(log, r) => ~IsPrefix(e.root, r)
  BY <1>1, <1>2, <1>5, <1>6, NewRoot
<1> HIDE DEF N
<1>9. \A i \in 1..Len(log) : Signer(log[i]) # x
  BY <1>3, <1>4, <1>7, <1>8, FirstPrefix DEF Signer
<1>10. InboxRead'
  BY <1>5 DEF InboxRead
<1>11. PhaseInv'
  <2>1. ASSUME phase \in {"new", "linked"}, NEW i \in 1..Len(log')
        PROVE  log'[i].dir = "w2c" /\ Len(log'[i].root) = 1 /\ log'[i].type = "wallet_hello"
    BY <1>3, <1>4, <1>7, <2>1 DEF SyncInv, PhaseInv
  <2>2. phase # "connected" => ~Has(stored) /\ ~Has(working)
    BY DEF SyncInv, PhaseInv
  <2> QED BY <1>5, <2>1, <2>2 DEF PhaseInv
<1>12. TurnInv'
  <2> SUFFICES ASSUME Prompt' PROVE
                 (/\ Answered(log) /\ SentHeld(log, wstate) /\ SentHeld(log, page.st)
                  /\ InboxLast /\ StoredOK)'
    BY DEF TurnInv
  <2>1. Answered(log) /\ StoredOK
    BY <1>5 DEF SyncInv, TurnInv, Prompt
  <2>2. Answered(log')
    BY <1>1, <1>2, <1>3, <1>4, <1>5, <1>6, <2>1, AnsweredAppend
  <2>3. SentHeld(log', s)
    <3>1. ASSUME NEW i \in 1..Len(log'), Signer(log'[i]) = Signer(s)
          PROVE  IsPrefix(log'[i].root, s.root)
      <4>1. i = N
        BY <1>3, <1>4, <1>7, <1>9, <3>1 DEF Signer
      <4> QED BY <1>3, <1>4, <1>7, <4>1, PrefixSelf
    <3> QED BY <3>1 DEF SentHeld
  <2>4. SentHeld(log', page'.st)
    BY <1>5, NoPageParts DEF SentHeld
  <2>5. InboxLast'
    BY <1>5 DEF InboxLast
  <2>6. StoredOK'
    BY <1>1, <1>2, <1>3, <1>5, <2>1, AskedAppend DEF StoredOK
  <2> QED BY <1>5, <2>2, <2>3, <2>4, <2>5, <2>6
<1>13. ChainInv'
  <2> SUFFICES ASSUME ~gaveUp', phase' = "connected"
               PROVE  /\ \A i \in 1..Len(log') :
                           Signer(log'[i]) = Signer(Current')
                             => IsPrefix(log'[i].root, Current'.root) \/ Reply(i)'
                      /\ \A i, j \in 1..Len(log') : Reply(i)' /\ Reply(j)' => i = j
    BY DEF ChainInv
  <2>1. Current' = Current /\ Has(Current) /\ Written(log, Current.root) /\ Current.root \in Root
        /\ Current.root # <<>>
    <3>1. Has(stored) /\ stored \in State /\ working \in State
      BY <1>5 DEF KeyInv, DappOK, TypeOK
    <3>2. Current' = Current /\ Has(Current) /\ Written(log, Current.root)
      BY <1>5, <3>1, HeldWritten DEF Current
    <3> QED BY <3>1, <3>2 DEF Current, State, Has
  <2>2. Signer(Current) # x
    BY <1>3, <1>4, <1>8, <2>1, FirstPrefix DEF Signer
  <2>3. ~(Has(working) /\ IsStrictPrefix(working.root, e.root))
    <3> SUFFICES ASSUME Has(working), IsStrictPrefix(working.root, e.root) PROVE FALSE
      OBVIOUS
    <3>1. working.root \in Root /\ working.root # <<>>
      BY DEF TypeOK, State, Has
    <3>2. IsPrefix(working.root, <<>>)
      BY <1>3, <1>4, <3>1, PrefixOfExtended DEF IsStrictPrefix
    <3> QED BY <3>1, <3>2, PrefixOfEmpty
  <2>4. \A i \in 1..Len(log') : Reply(i)' => i \in 1..Len(log) /\ Reply(i)
    BY <1>2, <1>5, <2>3, ReplyAppend
  <2>5. ASSUME NEW i \in 1..Len(log'), Signer(log'[i]) = Signer(Current')
        PROVE  IsPrefix(log'[i].root, Current'.root) \/ Reply(i)'
    <3>1. i \in 1..Len(log) /\ log'[i] = log[i]
      BY <1>3, <1>4, <1>7, <2>1, <2>2, <2>5 DEF Signer
    <3>2. IsPrefix(log[i].root, Current.root) \/ Reply(i)
      BY <1>5, <2>1, <2>5, <3>1 DEF SyncInv, ChainInv
    <3> QED BY <1>5, <2>1, <3>1, <3>2 DEF Reply
  <2>6. \A i, j \in 1..Len(log) : Reply(i) /\ Reply(j) => i = j
    BY <1>5 DEF SyncInv, ChainInv
  <2> QED BY <2>4, <2>5, <2>6
<1> QED BY <1>10, <1>11, <1>12, <1>13 DEF SyncInv

\* A challenge the wallet is about to answer is the one the dApp waits with.
LEMMA AnswersWaiting ==
  ASSUME TypeOK, KeyInv, RefInv, AcceptInv, SyncInv, ~gaveUp, phase = "connected",
         NEW c \in 1..Len(log), log[c].type = "sign_challenge", log[c].dir = "c2w",
         log[c].root = wstate.root, Signer(log[c]) = Signer(Current)
  PROVE  /\ Has(working) /\ working.root = wstate.root
         /\ ~Ahead(log, wstate.root, "w2c")
<1> DEFINE w == wstate.root
<1>1. log \in Seq(Envelope) /\ w \in Root /\ w # <<>> /\ Has(wstate)
      /\ \A i \in 1..Len(log) : log[i].root \in Root /\ log[i].dir \in {"c2w", "w2c"}
  <2>1. log \in Seq(Envelope)
    BY DEF TypeOK
  <2>2. log[c].root # <<>>
    BY DEF RefInv, Linked
  <2> QED BY <2>1, <2>2, Entries DEF Has
<1>2. Answered(log) /\ SentHeld(log, wstate) /\ StoredOK
  BY DEF SyncInv, TurnInv, Prompt
<1>3. ~Ahead(log, w, "w2c")
  <2> SUFFICES ASSUME NEW q \in 1..Len(log), log[q].dir = "w2c", IsStrictPrefix(w, log[q].root)
               PROVE  FALSE
    BY DEF Ahead
  <2>1. Signer(log[q]) = Signer(wstate)
    BY <1>1, PrefixSession DEF IsStrictPrefix, Signer
  <2>2. IsPrefix(log[q].root, w)
    BY <1>1, <1>2, <2>1 DEF SentHeld
  <2> QED BY <1>1, <2>2, StrictNotBack
<1>4. ~Ahead(log, w, "c2w")
  BY <1>2, <1>3 DEF Answered
<1>5. IsPrefix(w, Current.root)
  BY DEF SyncInv, ChainInv, Reply
<1>6. Has(Current) /\ Written(log, Current.root)
  <2>1. Has(stored)
    BY DEF KeyInv, DappOK
  <2> QED BY <2>1, HeldWritten DEF Current
<1>7. Current.root = w
  <2>1. PICK p \in 1..Len(log) : log[p].root = Current.root
    BY <1>6 DEF Written
  <2>2. ~IsStrictPrefix(w, log[p].root)
    BY <1>1, <1>3, <1>4 DEF Ahead
  <2> QED BY <1>5, <2>1, <2>2 DEF IsStrictPrefix
<1>8. Has(working)
  <2> SUFFICES ASSUME ~Has(working) PROVE FALSE
    OBVIOUS
  <2>1. Current = stored /\ Asked(log, stored.root)
    BY <1>7 DEF Current, Asked
  <2> QED BY <1>2, <1>6, <2>1 DEF StoredOK
<1> QED BY <1>3, <1>7, <1>8 DEF Current

\* challenge_response
LEMMA ResponseSync ==
  ASSUME TypeOK, KeyInv, RefInv, AcceptInv, SyncInv, Careful, Linked(log'),
         NEW m \in inbox, RespondToChallenge(m)
  PROVE  SyncInv'
<1> DEFINE base == ResponseBase(m)
           s == RekeyOutbound(base, Fresh("wallet"), NextOutboundSeq(base))
           e == ChallengeResponse(s, m.idx)
           x == Shared(Fresh("wallet"), base.peer)
           r == base.root
           c == log[m.idx]
           N == Len(log) + 1
<1>1. base \in State /\ m.idx \in Nat /\ clock \in Nat /\ Fresh("wallet") \in Key
      /\ log \in Seq(Envelope)
  BY FreshType DEF ResponseBase, TypeOK, Side
<1>2. s \in State
  BY <1>1, RekeyType, SeqType
<1>3. e \in Envelope
  BY <1>1, <1>2, EncodeType DEF ChallengeResponse, MsgTypes
<1>4. e.dir = "w2c" /\ e.type = "challenge_response" /\ e.root = s.root
  BY DEF ChallengeResponse, EncodeMessage
<1>5. x \in SUBSET Key /\ r \in Root /\ e.root = Append(r, x)
  BY <1>1, <1>4, OutboundParts
<1>6. /\ log' = Append(log, e) /\ wstate' = s /\ inbox' = inbox \ {m}
      /\ UNCHANGED <<page, phase, stored, working, gaveUp>> /\ Idle /\ Has(base)
      /\ c.type = "sign_challenge"
  BY DEF RespondToChallenge, AddContextText, dappVars, Careful
<1>7. /\ Closed(log) /\ Linked(log) /\ page = NoPage
      /\ m.idx \in 1..Len(log) /\ c.dir = "c2w" /\ c.root \in Root /\ c.root # <<>>
  BY <1>1, <1>6, Entries DEF AcceptInv, LogAcc, WalletAcc, RefInv, Linked, SyncInv, InboxRead
<1>8. Prompt => r = wstate.root /\ c.root = wstate.root
  <2> SUFFICES ASSUME Prompt PROVE r = wstate.root /\ c.root = wstate.root
    OBVIOUS
  <2>1. c.root = wstate.root
    BY <1>6 DEF SyncInv, TurnInv, InboxLast, Reader
  <2>2. Has(m.after) => m.after.root = c.root
    BY DEF SyncInv, InboxRead
  <2> QED BY <2>1, <2>2 DEF ResponseBase
<1> HIDE DEF base, s, e, x
<1>9. /\ log'[N] = e /\ N \in 1..Len(log')
      /\ \A i \in 1..Len(log) : i \in 1..Len(log') /\ log'[i] = log[i] /\ log[i].root \in Root
      /\ \A i \in 1..Len(log') : i \in 1..Len(log) \/ i = N
  BY <1>1, <1>3, <1>6, LogAppended, Entries
<1>10. r # <<>> /\ e.root \in Root /\ e.root # <<>> /\ e.root[1] = r[1] /\ IsStrictPrefix(r, e.root)
       /\ \A p \in Root : IsPrefix(p, r) => IsPrefix(p, e.root)
  <2>1. r # <<>>
    BY <1>6 DEF Has
  <2> QED BY <1>5, <2>1, ExtendedRoot
<1> HIDE DEF N, r
<1>11. InboxRead'
  BY <1>3, <1>6, InboxAppend DEF SyncInv
<1>12. PhaseInv'
  <2>1. phase \notin {"new", "linked"}
    BY <1>7 DEF SyncInv, PhaseInv
  <2> QED BY <1>6, <2>1 DEF SyncInv, PhaseInv
<1>13. TurnInv'
  <2> SUFFICES ASSUME Prompt' PROVE
                 (/\ Answered(log) /\ SentHeld(log, wstate) /\ SentHeld(log, page.st)
                  /\ InboxLast /\ StoredOK)'
    BY DEF TurnInv
  <2>1. Answered(log) /\ SentHeld(log, wstate) /\ InboxLast /\ StoredOK
        /\ r = wstate.root /\ c.root = wstate.root
    BY <1>6, <1>8 DEF SyncInv, TurnInv, Prompt
  <2>2. Answered(log')
    BY <1>1, <1>3, <1>4, <1>5, <1>6, <1>7, <2>1, AnsweredAppend
  <2>3. SentHeld(log', s)
    <3>1. ASSUME NEW i \in 1..Len(log'), log'[i].dir = "w2c", Signer(log'[i]) = Signer(s)
          PROVE  IsPrefix(log'[i].root, s.root)
      <4>1. CASE i = N
        BY <1>4, <1>9, <1>10, <4>1, PrefixSelf
      <4>2. CASE i \in 1..Len(log)
        <5>1. log'[i] = log[i] /\ log[i].root \in Root
          BY <1>9, <4>2
        <5>2. Signer(log[i]) = Signer(wstate) /\ Has(wstate)
          BY <1>4, <1>10, <2>1, <3>1, <5>1 DEF Signer, Has
        <5>3. IsPrefix(log[i].root, r)
          BY <2>1, <3>1, <4>2, <5>1, <5>2 DEF SentHeld
        <5> QED BY <1>4, <1>10, <5>1, <5>3
      <4> QED BY <1>9, <4>1, <4>2
    <3> QED BY <3>1 DEF SentHeld
  <2>4. SentHeld(log', page'.st)
    BY <1>6, <1>7, NoPageParts DEF SentHeld
  <2>5. InboxLast'
    <3>1. ASSUME NEW n \in inbox, n # m, log'[n.idx].type = "sign_challenge" PROVE FALSE
      <4>1. n.idx \in 1..Len(log) /\ (n.idx = m.idx => n = m)
        BY DEF SyncInv, InboxRead
      <4>2. log[n.idx].root = wstate.root
        BY <1>6, <1>9, <2>1, <3>1, <4>1 DEF InboxLast, Reader
      <4>3. n.idx = m.idx
        BY <1>7, <2>1, <4>1, <4>2 DEF Linked
      <4> QED BY <3>1, <4>1, <4>3
    <3> QED BY <1>6, <3>1 DEF InboxLast
  <2>6. StoredOK'
    BY <1>1, <1>3, <1>4, <1>6, <2>1, AskedAppend DEF StoredOK
  <2> QED BY <1>6, <2>2, <2>3, <2>4, <2>5, <2>6
<1>14. ChainInv'
  <2> SUFFICES ASSUME ~gaveUp', phase' = "connected"
               PROVE  /\ \A i \in 1..Len(log') :
                           Signer(log'[i]) = Signer(Current')
                             => IsPrefix(log'[i].root, Current'.root) \/ Reply(i)'
                      /\ \A i, j \in 1..Len(log') : Reply(i)' /\ Reply(j)' => i = j
    BY DEF ChainInv
  <2>1. ~gaveUp /\ phase = "connected" /\ Current' = Current
    BY <1>6 DEF Current
  <2>2. r = wstate.root /\ c.root = wstate.root
    BY <1>8, <2>1 DEF Prompt
  <2>3. ASSUME NEW i \in 1..Len(log), Signer(log[i]) = Signer(Current)
        PROVE  IsPrefix(log[i].root, Current.root) \/ Reply(i)'
    BY <1>6, <1>9, <2>1, <2>3 DEF SyncInv, ChainInv, Reply
  <2>4. CASE Signer(c) = Signer(Current)
    <3>1. Has(working) /\ working.root = r /\ ~Ahead(log, r, "w2c")
      BY <1>6, <1>7, <2>1, <2>2, <2>4, AnswersWaiting
    <3>2. ASSUME NEW i \in 1..Len(log'), i = N PROVE Reply(i)'
      BY <1>4, <1>6, <1>9, <1>10, <3>1, <3>2 DEF Reply
    <3>3. ASSUME NEW i \in 1..Len(log) PROVE ~Reply(i)'
      BY <1>6, <1>9, <3>1 DEF Reply, Ahead
    <3> QED BY <1>9, <2>1, <2>3, <3>2, <3>3
  <2>5. CASE Signer(c) # Signer(Current)
    <3>1. Signer(e) # Signer(Current)
      BY <1>10, <2>2, <2>5 DEF Signer
    <3>2. ~(Has(working) /\ IsStrictPrefix(working.root, e.root))
      <4> SUFFICES ASSUME Has(working), IsStrictPrefix(working.root, e.root) PROVE FALSE
        OBVIOUS
      <4>1. working.root \in Root /\ working.root # <<>> /\ Current = working
        BY DEF TypeOK, State, Has, Current
      <4>2. working.root[1] = e.root[1]
        BY <1>10, <4>1, PrefixSession DEF IsStrictPrefix
      <4> QED BY <3>1, <4>1, <4>2 DEF Signer
    <3>3. \A i \in 1..Len(log') : Reply(i)' => i \in 1..Len(log) /\ Reply(i)
      BY <1>3, <1>6, <3>2, ReplyAppend
    <3>4. \A i, j \in 1..Len(log) : Reply(i) /\ Reply(j) => i = j
      BY <2>1 DEF SyncInv, ChainInv
    <3> QED BY <1>9, <2>1, <2>3, <3>1, <3>3, <3>4
  <2> QED BY <2>4, <2>5
<1> QED BY <1>11, <1>12, <1>13, <1>14 DEF SyncInv

\* wait_wallet_hello: the session has its hello and nothing else
LEMMA JoinSync ==
  ASSUME TypeOK, RefInv, AcceptInv, SyncInv, WaitWalletHello
  PROVE  SyncInv'
<1>1. UNCHANGED <<log, working, gaveUp, wstate, page, inbox>>
      /\ phase = "linked" /\ phase' = "connected"
  BY DEF WaitWalletHello, chainVars, walletVars
<1>2. PICK i \in Hellos : stored' = InitialState(clientDh, log[i].dh, log[i].seq, 0)
  BY DEF WaitWalletHello
<1>3. i \in 1..Len(log) /\ stored'.root = log[i].root
  BY <1>2 DEF Hellos, Window, Decrypts, InitialState
<1>4. \A j \in 1..Len(log) : log[j].dir = "w2c" /\ Len(log[j].root) = 1
                             /\ log[j].type = "wallet_hello" /\ log[j].root \in Root
  BY <1>1, Entries DEF SyncInv, PhaseInv, TypeOK
<1>5. ~Has(working) /\ Has(stored')
  BY <1>1, <1>3 DEF AcceptInv, DappAcc, RefInv, Linked, Has
<1>6. InboxRead' /\ PhaseInv'
  BY <1>1 DEF SyncInv, InboxRead, PhaseInv, Idle
<1>7. TurnInv'
  <2>1. StoredOK'
    BY <1>1, <1>4 DEF StoredOK, Asked
  <2> QED BY <1>1, <2>1 DEF SyncInv, TurnInv, Prompt, InboxLast, Reader, Idle
<1>8. ChainInv'
  <2>1. Current' = stored'
    BY <1>1, <1>5 DEF Current
  <2>2. ASSUME NEW j \in 1..Len(log), Signer(log[j]) = Signer(stored')
        PROVE  IsPrefix(log[j].root, stored'.root)
    <3>1. log[j].root[1] = log[i].root[1] /\ log[j].root \in Root /\ log[i].root \in Root
          /\ Len(log[j].root) = 1 /\ Len(log[i].root) = 1
      BY <1>3, <1>4, <2>2 DEF Signer
    <3>2. IsPrefix(log[j].root, log[i].root)
      BY <3>1, PrefixElements
    <3> QED BY <1>3, <3>2
  <2> QED BY <1>1, <1>5, <2>1, <2>2 DEF ChainInv, Reply
<1> QED BY <1>6, <1>7, <1>8 DEF SyncInv

\* wait_challenge_response
LEMMA WaitSync ==
  ASSUME TypeOK, RefInv, AcceptInv, SyncInv, Waiting \/ WaitTimesOut
  PROVE  SyncInv'
<1>1. UNCHANGED <<log, wstate, page, inbox>> /\ working' = NoState /\ Has(working)
  BY DEF Waiting, WaitFinds, WaitDesync, WaitAborts, WaitTimesOut, WaitEnds, chainVars, walletVars
<1>2. InboxRead' /\ ~Has(working') /\ phase = "connected"
  BY <1>1, NoPageParts DEF SyncInv, InboxRead, Idle, PhaseInv
<1>3. ASSUME Prompt' => Prompt /\ StoredOK' PROVE TurnInv'
  BY <1>1, <1>3 DEF SyncInv, TurnInv, InboxLast, Reader, Idle
<1>4. CASE WaitFinds
  <2>1. UNCHANGED <<phase, gaveUp>>
    BY <1>4 DEF WaitFinds
  <2>2. PICK i \in Hits(working, Responses) :
          stored' = RekeyInbound(working, log[i].dh, log[i].seq)
    BY <1>4 DEF WaitFinds
  <2>3. i \in 1..Len(log) /\ log[i].dir = "w2c" /\ log[i].type = "challenge_response"
        /\ Opens(working, log[i])
    BY DEF Hits, Responses, Candidates, Window
  <2>4. log[i] \in Envelope /\ working \in State /\ log[i].root \in Root
        /\ working.root \in Root /\ working.root # <<>>
        /\ \A j \in 1..Len(log) : log[j].root \in Root
    BY <1>1, <2>3, Entries DEF TypeOK, State, Has
  <2>5. /\ stored'.root = log[i].root
        /\ IsStrictPrefix(working.root, log[i].root) /\ Signer(log[i]) = Signer(working)
    <3>1. /\ Shared(working.my, log[i].dh) \in SUBSET Key
          /\ log[i].root = Append(working.root, Shared(working.my, log[i].dh))
          /\ RekeyInbound(working, log[i].dh, log[i].seq).root = log[i].root
      BY <2>3, <2>4, InboundParts
    <3> QED BY <2>2, <2>4, <3>1, ExtendedRoot DEF Signer
  <2>6. Prompt' => Prompt /\ StoredOK'
    <3>1. ~Asked(log, log[i].root)
      BY <2>3 DEF Asked, RefInv, Linked
    <3> QED BY <1>1, <2>1, <2>5, <3>1 DEF Prompt, StoredOK
  <2>7. PhaseInv'
    BY <1>2, <2>1 DEF PhaseInv
  <2>8. ChainInv'
    <3>1. Current' = stored' /\ Current = working
      BY <1>1, <1>2 DEF Current
    <3>2. ASSUME ~gaveUp, NEW j \in 1..Len(log), Signer(log[j]) = Signer(stored')
          PROVE  IsPrefix(log[j].root, stored'.root)
      <4>1. Signer(log[j]) = Signer(working)
        BY <2>5, <3>2 DEF Signer
      <4>2. IsPrefix(log[j].root, working.root) \/ Reply(j)
        BY <1>2, <3>1, <3>2, <4>1 DEF SyncInv, ChainInv
      <4>3. Reply(j) => j = i
        BY <1>1, <1>2, <2>3, <2>5, <3>2 DEF SyncInv, ChainInv, Reply
      <4>4. IsPrefix(log[j].root, working.root) => IsPrefix(log[j].root, log[i].root)
        BY <2>4, <2>5, PrefixTrans DEF IsStrictPrefix
      <4> QED BY <2>4, <2>5, <4>2, <4>3, <4>4, PrefixSelf
    <3> QED BY <1>1, <1>2, <2>1, <3>1, <3>2 DEF ChainInv, Reply
  <2> QED BY <1>2, <1>3, <2>6, <2>7, <2>8 DEF SyncInv
<1>5. CASE WaitDesync
  <2>1. gaveUp' = gaveUp /\ stored' = NoState /\ phase' = "closed"
    BY <1>5 DEF WaitDesync
  <2> QED BY <1>2, <1>3, <2>1, NoPageParts DEF SyncInv, PhaseInv, ChainInv, Prompt, StoredOK
<1>6. CASE WaitAborts \/ WaitTimesOut
  <2>1. gaveUp' = TRUE /\ UNCHANGED <<phase, stored>>
    BY <1>6 DEF WaitAborts, WaitTimesOut
  <2>2. Prompt' => Prompt /\ StoredOK'
    BY <1>1, <2>1 DEF SyncInv, TurnInv, Prompt, StoredOK
  <2> QED BY <1>2, <1>3, <2>1, <2>2 DEF SyncInv, PhaseInv, ChainInv
<1> QED BY <1>4, <1>5, <1>6 DEF Waiting

\* query_session_messages: nothing of the dApp follows a challenge the wallet
\* has not answered, so reading on never leaves one behind.
LEMMA ReadSync ==
  ASSUME TypeOK, KeyInv, RefInv, AcceptInv, SyncInv, QueryRecord
  PROVE  InboxRead' /\ TurnInv'
<1> DEFINE i == page.next
           e == log[page.next]
           st == page.st
           after == RekeyInbound(page.st, e.dh, e.seq)
<1>1. i \in 1..Len(log) /\ i \in Nat /\ i # 0
  <2>1. page.next # 0 /\ page.next <= page.last
    BY DEF QueryRecord, Idle
  <2>2. page \in [next : Nat, last : Nat, st : State, got : Seq(Nat)]
        /\ page.last <= Len(log) /\ log \in Seq(Envelope)
    BY DEF TypeOK
  <2> QED BY <2>1, <2>2
<1>2. e \in Envelope /\ e.root \in Root /\ log \in Seq(Envelope) /\ st \in State
      /\ Has(st) /\ ~Idle /\ st.root \in Root /\ st.root # <<>>
  BY <1>1, Entries DEF TypeOK, KeyInv, WalletOK, QueryRecord, State, Has
<1>3. UNCHANGED <<log, stored, working, gaveUp, wstate>>
  BY DEF QueryRecord, WalletUnchanged, chainVars, dappVars
<1>4. page'.next = i + 1 /\ ~Idle'
  BY <1>1 DEF QueryRecord, NextRecord, Idle
<1>5. \A m \in inbox : /\ m.idx \in 1..Len(log) /\ log[m.idx].dir = "c2w"
                       /\ Has(m.after) => m.after.root = log[m.idx].root
                       /\ m.idx < i
                       /\ \A n \in inbox : n.idx = m.idx => n = m
  BY <1>2 DEF SyncInv, InboxRead
<1>6. ASSUME inbox' = inbox PROVE InboxRead'
  <2>1. \A m \in inbox : m.idx < i + 1
    BY <1>1, <1>5
  <2> QED BY <1>3, <1>4, <1>5, <1>6, <2>1 DEF InboxRead
<1>7. ASSUME NEW a, Has(a) => a.root = e.root, e.dir = "c2w",
             inbox' = inbox \cup {[idx |-> i, after |-> a]}
      PROVE  InboxRead'
  <2>1. ASSUME NEW m \in inbox'
        PROVE  /\ m.idx \in 1..Len(log) /\ log[m.idx].dir = "c2w"
               /\ Has(m.after) => m.after.root = log[m.idx].root
               /\ m.idx < i + 1
    BY <1>1, <1>5, <1>7
  <2>2. ASSUME NEW m \in inbox', NEW n \in inbox', n.idx = m.idx
        PROVE  n = m
    BY <1>1, <1>5, <1>7, <2>2
  <2> QED BY <1>3, <1>4, <2>1, <2>2 DEF InboxRead
<1>8. ASSUME SentHeld(log, page'.st) \/ ~Prompt, InboxLast' \/ ~Prompt PROVE TurnInv'
  BY <1>3, <1>8 DEF SyncInv, TurnInv, Prompt, StoredOK
<1>9. CASE e.dir = "c2w" /\ Opens(st, e)
  <2>1. page'.st = after /\ inbox' = inbox \cup {[idx |-> i, after |-> after]}
    BY <1>9 DEF QueryRecord, NextRecord
  <2>2. after.root = e.root /\ Shared(st.my, e.dh) \in SUBSET Key
        /\ e.root = Append(st.root, Shared(st.my, e.dh))
    BY <1>2, <1>9, InboundParts
  <2> HIDE DEF after
  <2>3. InboxRead'
    BY <1>7, <1>9, <2>1, <2>2
  <2>4. Prompt => SentHeld(log, after)
    BY <1>2, <2>2, SentHeldRead DEF SyncInv, TurnInv
  <2>5. Prompt => InboxLast'
    <3> SUFFICES ASSUME Prompt PROVE InboxLast'
      OBVIOUS
    <3>1. ASSUME NEW m \in inbox, log[m.idx].type = "sign_challenge" PROVE FALSE
      <4>1. m.idx \in 1..Len(log) /\ log[m.idx].root = st.root
        BY <1>2, <1>5, <3>1 DEF SyncInv, TurnInv, InboxLast, Reader
      <4>2. IsStrictPrefix(st.root, e.root)
        BY <1>2, <2>2, ExtendedRoot
      <4>3. Ahead(log, st.root, "w2c")
        BY <1>1, <1>9, <3>1, <4>1, <4>2 DEF SyncInv, TurnInv, Answered, Ahead
      <4>4. PICK q \in 1..Len(log) : log[q].dir = "w2c" /\ IsStrictPrefix(st.root, log[q].root)
        BY <4>3 DEF Ahead
      <4>5. log[q].root \in Root /\ Signer(log[q]) = Signer(st)
        BY <1>2, <4>4, Entries, PrefixSession DEF IsStrictPrefix, Signer
      <4>6. IsPrefix(log[q].root, st.root)
        BY <1>2, <4>4, <4>5 DEF SyncInv, TurnInv, SentHeld
      <4> QED BY <1>2, <4>4, <4>5, <4>6, StrictNotBack
    <3>2. Reader'.root = e.root
      BY <1>4, <2>1, <2>2 DEF Reader
    <3> QED BY <1>3, <2>1, <3>1, <3>2 DEF InboxLast
  <2> QED BY <1>8, <2>1, <2>3, <2>4, <2>5
<1>10. CASE ~(e.dir = "c2w" /\ Opens(st, e))
  <2>1. /\ page'.st = st
        /\ \/ inbox' = inbox
           \/ e.dir = "c2w" /\ BodyDecrypted(st, e)
              /\ inbox' = inbox \cup {[idx |-> i, after |-> NoState]}
    BY <1>10 DEF QueryRecord, NextRecord
  <2>2. InboxRead'
    BY <1>6, <1>7, <2>1, NoPageParts
  <2>3. Prompt => SentHeld(log, page'.st)
    BY <2>1 DEF SyncInv, TurnInv
  <2>4. Reader' = st /\ Reader = st
    BY <1>2, <1>4, <2>1 DEF Reader
  <2>5. Prompt => InboxLast'
    <3> SUFFICES ASSUME Prompt PROVE InboxLast'
      OBVIOUS
    <3>1. \A m \in inbox : log[m.idx].type = "sign_challenge" => log[m.idx].root = st.root
      BY <2>4 DEF SyncInv, TurnInv, InboxLast
    <3>2. \A m \in inbox' : m \in inbox \/ log[m.idx].root = st.root
      BY <2>1 DEF BodyDecrypted, Decrypts
    <3> QED BY <1>3, <2>4, <3>1, <3>2 DEF InboxLast
  <2> QED BY <1>8, <2>2, <2>3, <2>5
<1> QED BY <1>9, <1>10

\* The other steps of the wallet that write nothing: the start, the end and
\* the loss of a query, wait_set_mining_keys_request, destroy_connect_profile.
LEMMA WalletSync ==
  ASSUME TypeOK, KeyInv, RefInv, AcceptInv, SyncInv,
         Query \/ QueryLost \/ WaitSetMiningKeys \/ DestroyConnectProfile
  PROVE  SyncInv'
<1>1. UNCHANGED <<log, phase, stored, working, gaveUp>>
  BY DEF Query, QueryBegin, QueryRecord, QueryEnd, QueryLost, WaitSetMiningKeys,
         DestroyConnectProfile, WalletUnchanged, chainVars, dappVars
<1>2. PhaseInv' /\ ChainInv'
  BY <1>1 DEF SyncInv, PhaseInv, ChainInv, Current, Reply
<1>3. ASSUME Prompt => SentHeld(log, wstate') /\ SentHeld(log, page'.st) /\ InboxLast'
      PROVE  TurnInv'
  BY <1>1, <1>3 DEF SyncInv, TurnInv, Prompt, StoredOK
<1>4. ASSUME inbox' = {} PROVE InboxRead' /\ InboxLast'
  BY <1>4 DEF InboxRead, InboxLast
<1>5. Prompt => SentHeld(log, wstate) /\ SentHeld(log, page.st) /\ InboxLast
  BY DEF SyncInv, TurnInv
<1>6. SentHeld(log, NoState)
  BY NoPageParts DEF SentHeld
<1>7. CASE QueryBegin
  <2>1. inbox' = {} /\ wstate' = wstate /\ page'.st = wstate
    BY <1>7 DEF QueryBegin
  <2> QED BY <1>2, <1>3, <1>4, <1>5, <2>1 DEF SyncInv
<1>8. CASE QueryRecord
  BY <1>2, <1>8, ReadSync DEF SyncInv
<1>9. CASE QueryEnd
  <2>1. inbox' = inbox /\ wstate' = page.st /\ page' = NoPage /\ ~Idle
    BY <1>9 DEF QueryEnd
  <2>2. Reader' = Reader /\ Idle'
    BY <2>1, NoPageParts DEF Reader, Idle
  <2>3. InboxRead' /\ (InboxLast => InboxLast')
    BY <1>1, <2>1, <2>2 DEF SyncInv, InboxRead, InboxLast
  <2> QED BY <1>2, <1>3, <1>5, <1>6, <2>1, <2>3, NoPageParts DEF SyncInv
<1>10. CASE QueryLost
  <2>1. inbox' = {} /\ wstate' = wstate /\ page'.st = NoState
    BY <1>10, NoPageParts DEF QueryLost
  <2> QED BY <1>2, <1>3, <1>4, <1>5, <1>6, <2>1 DEF SyncInv
<1>11. CASE WaitSetMiningKeys
  <2>1. inbox' = {} /\ page' = page /\ Has(wstate)
    BY <1>11 DEF WaitSetMiningKeys
  <2>2. PICK i \in Hits(wstate, Candidates("c2w", "set_mining_keys", 0)) :
          wstate' = RekeyInbound(wstate, log[i].dh, log[i].seq)
    BY <1>11 DEF WaitSetMiningKeys
  <2>3. i \in 1..Len(log) /\ Opens(wstate, log[i])
    BY DEF Hits, Candidates, Window
  <2>4. log[i] \in Envelope /\ wstate \in State /\ log \in Seq(Envelope)
    BY <2>3, Entries DEF TypeOK
  <2>5. /\ Shared(wstate.my, log[i].dh) \in SUBSET Key
        /\ wstate'.root = Append(wstate.root, Shared(wstate.my, log[i].dh))
    BY <2>2, <2>3, <2>4, InboundParts
  <2>6. Prompt => SentHeld(log, wstate')
    BY <1>5, <2>1, <2>4, <2>5, SentHeldRead
  <2> QED BY <1>2, <1>3, <1>4, <1>5, <2>1, <2>6 DEF SyncInv
<1>12. CASE DestroyConnectProfile
  <2>1. inbox' = {} /\ page' = page /\ wstate' = NoState
    BY <1>12 DEF DestroyConnectProfile
  <2> QED BY <1>2, <1>3, <1>4, <1>5, <1>6, <2>1 DEF SyncInv
<1> QED BY <1>7, <1>8, <1>9, <1>10, <1>11, <1>12 DEF Query

-----------------------------------------------------------------------------
\* Every step of careful callers keeps the invariant.
LEMMA SyncStep ==
  /\ TypeOK /\ KeyInv /\ RefInv /\ AcceptInv /\ SyncInv /\ RefInv' /\ Careful /\ [Next]_vars
  => SyncInv'
<1> SUFFICES ASSUME TypeOK, KeyInv, RefInv, AcceptInv, SyncInv, RefInv', Careful, [Next]_vars
             PROVE  SyncInv'
  OBVIOUS
<1>0. Linked(log')
  BY DEF RefInv
<1>1. ASSUME UNCHANGED <<log, stored, working, gaveUp, wstate, page, inbox>>,
             phase' = phase \/ (phase = "new" /\ phase' = "linked")
      PROVE  SyncInv'
  BY <1>1 DEF SyncInv, InboxRead, TurnInv, Prompt, InboxLast, Reader, Idle, StoredOK,
              PhaseInv, ChainInv, Current, Reply
<1>2. CASE Tick \/ CreateSharedKeySession \/ AcceptBegin \/ UNCHANGED vars
  <2>1. UNCHANGED <<log, stored, working, gaveUp, wstate, page, inbox>>
    BY <1>2 DEF Tick, CreateSharedKeySession, AcceptBegin, vars, chainVars, dappVars, walletVars
  <2>2. phase' = phase \/ (phase = "new" /\ phase' = "linked")
    BY <1>2 DEF Tick, CreateSharedKeySession, AcceptBegin, vars, dappVars
  <2> QED BY <1>1, <2>1, <2>2
<1>3. ASSUME NEW k \in accepting, AcceptDeploy(k) \/ AcceptFail(k) PROVE SyncInv'
  BY <1>1, <1>3 DEF AcceptDeploy, AcceptFail, chainVars, dappVars, walletVars
<1>4. CASE Accepting
  BY <1>0, <1>3, <1>4, HelloSync DEF Accepting
<1>5. CASE RequestSetMiningKeys
  BY <1>0, <1>5, SendSync DEF RequestSetMiningKeys, MsgTypes
<1>6. CASE RequestSignChallenge
  BY <1>0, <1>6, SendSync DEF RequestSignChallenge, MsgTypes
<1>s. CASE SignChallengeSent
  <2>1. /\ UNCHANGED <<log, working, phase, gaveUp, wstate, page, inbox>> /\ Has(working)
        /\ "early_persist" \notin Policy => stored' = stored
    BY <1>s DEF SignChallengeSent, chainVars, walletVars
  <2>2. phase = "connected"
    BY <2>1 DEF SyncInv, PhaseInv
  <2>3. StoredOK'
    <3>1. CASE "early_persist" \in Policy
      BY <2>1, <3>1 DEF StoredOK
    <3>2. CASE "early_persist" \notin Policy
      BY <2>1, <3>2 DEF SyncInv, TurnInv, Prompt, StoredOK
    <3> QED BY <3>1, <3>2
  <2>4. InboxRead' /\ PhaseInv'
    BY <2>1, <2>2 DEF SyncInv, InboxRead, PhaseInv, Idle
  <2>5. TurnInv'
    BY <2>1, <2>3 DEF SyncInv, TurnInv, Prompt, InboxLast, Reader, Idle
  <2>6. ChainInv'
    BY <2>1 DEF SyncInv, ChainInv, Current, Reply
  <2> QED BY <2>4, <2>5, <2>6 DEF SyncInv
<1>7. CASE DisconnectSession
  BY <1>0, <1>7, SendSync DEF DisconnectSession, MsgTypes
<1>8. ASSUME NEW t \in {"set_mining_keys", "sign_challenge"}, SendUnacknowledged(t)
      PROVE  SyncInv'
  BY <1>8 DEF SendUnacknowledged, Careful
<1>9. CASE Responding
  BY <1>0, <1>9, ResponseSync DEF Responding
<1> QED
  BY <1>2, <1>4, <1>5, <1>6, <1>s, <1>7, <1>8, <1>9, JoinSync, WaitSync, WalletSync DEF Next

LEMMA SyncInit == Init => SyncInv
<1> SUFFICES ASSUME Init PROVE SyncInv
  OBVIOUS
<1>1. Len(log) = 0 /\ inbox = {} /\ stored = NoState /\ working = NoState /\ wstate = NoState
      /\ page = NoPage /\ phase = "new"
  BY DEF Init
<1>2. InboxRead /\ PhaseInv /\ ChainInv
  BY <1>1, NoPageParts DEF InboxRead, PhaseInv, ChainInv
<1>3. TurnInv
  BY <1>1, NoPageParts DEF TurnInv, Answered, SentHeld, InboxLast, StoredOK
<1> QED BY <1>2, <1>3 DEF SyncInv

\* What careful callers keep, together with everything before.
LEMMA SyncAlways ==
  ASSUME Careful
  PROVE  Spec => [](TypeOK /\ KeyInv /\ RefInv /\ AcceptInv /\ SyncInv)
<1>1. TypeOK /\ KeyInv /\ RefInv /\ AcceptInv /\ SyncInv /\ RefInv' /\ [Next]_vars => SyncInv'
  BY SyncStep
<1> QED BY <1>1, SyncInit, AcceptAlways, PTL DEF Spec

\* When the dApp does not send while it waits and both sides see what they
\* have written, the chains of the two sides never fork before a wait is given
\* up, for every bound and whatever else fails or is read again
\* (request_sign_challenge, wait_challenge_response, query_session_messages,
\* challenge_response).
THEOREM InSyncAlways ==
  ASSUME Careful
  PROVE  Spec => []InSyncUnlessGivenUp
<1>1. TypeOK /\ RefInv /\ SyncInv => InSyncUnlessGivenUp
  <2> SUFFICES ASSUME TypeOK, RefInv, SyncInv, ~gaveUp, SameSession(Current, wstate)
               PROVE  SameChain(Current, wstate)
    BY DEF InSyncUnlessGivenUp
  <2>1. Has(Current) /\ Has(wstate) /\ Signer(Current) = Signer(wstate)
    BY DEF SameSession
  <2>2. phase = "connected"
    BY <2>1 DEF SyncInv, PhaseInv, Current
  <2>3. PICK i \in 1..Len(log) : log[i].root = wstate.root
    BY <2>1, HeldWritten DEF Written
  <2>4. IsPrefix(wstate.root, Current.root) \/ Reply(i)
    BY <2>1, <2>2, <2>3 DEF SyncInv, ChainInv, Signer
  <2>5. Reply(i) => IsPrefix(Current.root, wstate.root)
    BY <2>3 DEF Reply, Current, IsStrictPrefix
  <2> QED BY <2>4, <2>5 DEF SameChain
<1> QED BY <1>1, SyncAlways, PTL
-----------------------------------------------------------------------------
(* session_desync is only reported when the chains have forked. *)

\* A response continues one message of the dApp, with its own key pair and
\* that message's.
Replies(l) ==
  \A i \in 1..Len(l) :
    l[i].type = "challenge_response"
      => \E c \in 1..Len(l) : /\ l[c].dir = "c2w"
                              /\ l[i].root = Append(l[c].root, {l[i].dh, l[c].dh})

\* A dApp writes in one session only.
OneSession(l, s) ==
  Has(s) => \A i \in 1..Len(l) : l[i].dir = "c2w" => Signer(l[i]) = Signer(s)

\* last_seen_seq is not below the seq of any response on the way to the state.
SeenAll(l, s) ==
  Has(s) => \A i \in 1..Len(l) :
              l[i].dir = "w2c" /\ IsPrefix(l[i].root, s.root) => l[i].seq <= s.seen

DesyncInv ==
  /\ Replies(log)
  /\ \A s \in {stored, working} : OneSession(log, s) /\ SeenAll(log, s)
  /\ Has(working) => ~Ahead(log, working.root, "c2w")

\* Of two roots on the way to a third, one is on the way to the other.
LEMMA PrefixesCompare ==
  ASSUME NEW p \in Root, NEW r \in Root, NEW t \in Root, IsPrefix(p, t), IsPrefix(r, t)
  PROVE  IsPrefix(p, r) \/ IsStrictPrefix(r, p)
<1>1. Len(p) \in Nat /\ Len(r) \in Nat /\ Len(t) \in Nat
  BY DEF Root
<1>2. /\ Len(p) <= Len(t) /\ \A k \in 1..Len(p) : p[k] = t[k]
      /\ Len(r) <= Len(t) /\ \A k \in 1..Len(r) : r[k] = t[k]
  BY PrefixElements
<1>3. CASE Len(p) <= Len(r)
  <2>1. \A k \in 1..Len(p) : p[k] = r[k]
    BY <1>1, <1>2, <1>3
  <2> QED BY <1>3, <2>1, PrefixElements
<1>4. CASE Len(r) < Len(p)
  <2>1. Len(r) <= Len(p) /\ p # r /\ \A k \in 1..Len(r) : r[k] = p[k]
    BY <1>1, <1>2, <1>4
  <2> QED BY <2>1, PrefixElements DEF IsStrictPrefix
<1> QED BY <1>1, <1>3, <1>4

\* A state that holds the root of a message of the dApp: the message's key is
\* the dApp's key of the state.
LEMMA KeyOfMessage ==
  ASSUME TypeOK, KeyInv, NEW c \in 1..Len(log), log[c].dir = "c2w", NEW s \in State,
         s.root = log[c].root, Has(s), NEW d \in Side, StateOK(s, d, nextKey)
  PROVE  log[c].dh = IF d = "dapp" THEN s.my ELSE s.peer
<1>1. EnvelopeOK(log[c], nextKey) /\ log[c].dh \in Key
  BY LogEntry DEF KeyInv, LogOK
<1>2. log[c].dh.side = "dapp" /\ log[c].dh \in Last(log[c].root)
  BY <1>1 DEF EnvelopeOK
<1>3. Last(s.root) = {s.my, s.peer} /\ s.my.side = d /\ s.peer.side # d
  BY DEF StateOK
<1>4. log[c].dh = s.my \/ log[c].dh = s.peer
  BY <1>2, <1>3
<1> QED BY <1>2, <1>3, <1>4 DEF Side

\* A write, seen by the dApp's states.
LEMMA StatesAppend ==
  ASSUME NEW l \in Seq(Envelope), NEW e \in Envelope, Closed(l), Linked(Append(l, e)),
         NEW s, Has(s) => Written(l, s.root), OneSession(l, s), SeenAll(l, s),
         e.dir = "c2w" => Signer(e) = Signer(s)
  PROVE  OneSession(Append(l, e), s) /\ SeenAll(Append(l, e), s)
<1> DEFINE a == Append(l, e)
<1>1. /\ a[Len(l) + 1] = e
      /\ \A i \in 1..Len(l) : a[i] = l[i]
      /\ \A i \in 1..Len(a) : i \in 1..Len(l) \/ i = Len(l) + 1
  BY LogAppended
<1> HIDE DEF a
<1>2. Has(s) => ~IsPrefix(e.root, s.root)
  BY NewRoot
<1>3. OneSession(a, s)
  BY <1>1 DEF OneSession
<1>4. SeenAll(a, s)
  BY <1>1, <1>2 DEF SeenAll
<1> QED BY <1>3, <1>4 DEF a

LEMMA RepliesToAppend ==
  ASSUME NEW l \in Seq(Envelope), NEW e \in Envelope, Replies(l),
         e.type = "challenge_response"
           => \E c \in 1..Len(l) : l[c].dir = "c2w" /\ e.root = Append(l[c].root, {e.dh, l[c].dh})
  PROVE  Replies(Append(l, e))
<1> DEFINE a == Append(l, e)
<1>1. /\ a[Len(l) + 1] = e
      /\ \A i \in 1..Len(l) : i \in 1..Len(a) /\ a[i] = l[i]
      /\ \A i \in 1..Len(a) : i \in 1..Len(l) \/ i = Len(l) + 1
  BY LogAppended
<1> HIDE DEF a
<1>2. ASSUME NEW i \in 1..Len(a), a[i].type = "challenge_response"
      PROVE  \E c \in 1..Len(a) :
               a[c].dir = "c2w" /\ a[i].root = Append(a[c].root, {a[i].dh, a[c].dh})
  <2>1. CASE i \in 1..Len(l)
    <3>1. PICK c \in 1..Len(l) :
            l[c].dir = "c2w" /\ l[i].root = Append(l[c].root, {l[i].dh, l[c].dh})
      BY <1>1, <1>2, <2>1 DEF Replies
    <3>2. c \in 1..Len(a) /\ a[c] = l[c] /\ a[i] = l[i]
      BY <1>1, <2>1
    <3> QED BY <3>1, <3>2
  <2>2. CASE i = Len(l) + 1
    <3>1. PICK c \in 1..Len(l) : l[c].dir = "c2w" /\ e.root = Append(l[c].root, {e.dh, l[c].dh})
      BY <1>1, <1>2, <2>2
    <3>2. c \in 1..Len(a) /\ a[c] = l[c] /\ a[i] = e
      BY <1>1, <2>2
    <3> QED BY <3>1, <3>2
  <2> QED BY <1>1, <2>1, <2>2
<1> QED BY <1>2 DEF Replies, a

\* request_set_mining_keys, request_sign_challenge, disconnect_session
LEMMA SendDesync ==
  ASSUME TypeOK, KeyInv, RefInv, AcceptInv, DesyncInv, Careful, Linked(log'),
         NEW t \in MsgTypes, t # "challenge_response", Send(t),
         stored' \in {stored, Outbound, NoState}, working' \in {working, Outbound, NoState}
  PROVE  DesyncInv'
<1> DEFINE e == EncodeMessage("c2w", t, Outbound, 0)
           r == stored.root
           x == Shared(Fresh("dapp"), stored.peer)
<1>1. stored \in State /\ Fresh("dapp") \in Key /\ Has(stored) /\ clock \in Nat
      /\ log \in Seq(Envelope)
  BY FreshType DEF TypeOK, Side, Send, KeyInv, DappOK
<1>2. e \in Envelope
  BY SendType, EncodeType DEF TypeOK
<1>3. e.dir = "c2w" /\ e.type = t /\ e.root = Outbound.root
  BY DEF EncodeMessage
<1>4. log' = Append(log, e)
  BY DEF Send, AddContextText
<1>5. x \in SUBSET Key /\ r \in Root /\ e.root = Append(r, x) /\ Outbound.seen = stored.seen
  BY <1>1, <1>3, OutboundParts DEF Outbound, RekeyOutbound
<1>6. ~Has(working) /\ Closed(log) /\ Written(log, r) /\ r # <<>>
  BY <1>1, HeldWritten DEF Send, Careful, AcceptInv, LogAcc, Has
<1> HIDE DEF e, x
<1>7. /\ log'[Len(log) + 1] = e
      /\ \A i \in 1..Len(log) : i \in 1..Len(log') /\ log'[i] = log[i] /\ log[i].root \in Root
      /\ \A i \in 1..Len(log') : i \in 1..Len(log) \/ i = Len(log) + 1
  BY <1>1, <1>2, <1>4, LogAppended, Entries
<1>8. \A i \in 1..Len(log) : ~IsPrefix(e.root, log[i].root)
  BY <1>1, <1>2, <1>4, <1>6, NewRoot
<1>9. e.root \in Root /\ Signer(e) = Signer(stored) /\ Signer(Outbound) = Signer(stored)
      /\ IsPrefix(e.root, e.root)
  BY <1>3, <1>5, <1>6, ExtendedRoot, PrefixSelf DEF Signer
<1> HIDE DEF r
<1>10. Replies(log')
  BY <1>1, <1>2, <1>3, <1>4, RepliesToAppend DEF DesyncInv
<1>11. OneSession(log', stored) /\ SeenAll(log', stored)
  BY <1>1, <1>2, <1>4, <1>6, <1>9, StatesAppend DEF DesyncInv, r
<1>12. OneSession(log', Outbound) /\ SeenAll(log', Outbound)
  <2>1. OneSession(log', Outbound)
    BY <1>1, <1>9, <1>11 DEF OneSession
  <2>2. ASSUME NEW i \in 1..Len(log'), log'[i].dir = "w2c", IsPrefix(log'[i].root, Outbound.root)
        PROVE  log'[i].seq <= Outbound.seen
    <3>1. i \in 1..Len(log) /\ log'[i] = log[i] /\ log[i].root \in Root
      BY <1>3, <1>7, <2>2
    <3>2. log[i].root # e.root
      BY <1>8, <1>9, <3>1
    <3>3. IsPrefix(log[i].root, Append(r, x))
      BY <1>3, <1>5, <2>2, <3>1
    <3>4. IsPrefix(log[i].root, r)
      BY <1>5, <3>1, <3>2, <3>3, PrefixOfExtended
    <3> QED BY <1>1, <1>5, <1>11, <2>2, <3>1, <3>4 DEF SeenAll, r
  <2> QED BY <2>1, <2>2 DEF SeenAll
<1>13. OneSession(log', NoState) /\ SeenAll(log', NoState)
  BY NoPageParts DEF OneSession, SeenAll
<1>14. OneSession(log', working) /\ SeenAll(log', working)
  BY <1>6 DEF OneSession, SeenAll
<1>15. Has(working') => ~Ahead(log', working'.root, "c2w")
  <2>1. Has(working') => working'.root = e.root
    BY <1>3, <1>6, NoPageParts
  <2>2. ~Ahead(log', e.root, "c2w")
    BY <1>7, <1>8 DEF Ahead, IsStrictPrefix
  <2> QED BY <2>1, <2>2
<1> QED BY <1>10, <1>11, <1>12, <1>13, <1>14, <1>15 DEF DesyncInv

\* wallet_hello and challenge_response
LEMMA WalletWriteDesync ==
  ASSUME TypeOK, RefInv, AcceptInv, DesyncInv, Linked(log'), NEW e \in Envelope,
         log' = Append(log, e), e.dir = "w2c", UNCHANGED <<stored, working>>,
         e.type = "challenge_response"
           => \E c \in 1..Len(log) :
                log[c].dir = "c2w" /\ e.root = Append(log[c].root, {e.dh, log[c].dh})
  PROVE  DesyncInv'
<1>1. log \in Seq(Envelope) /\ Closed(log)
  BY DEF TypeOK, AcceptInv, LogAcc
<1>2. Replies(log')
  BY <1>1, RepliesToAppend DEF DesyncInv
<1>3. ASSUME NEW s \in {stored, working} PROVE OneSession(log', s) /\ SeenAll(log', s)
  BY <1>1, HeldWritten, StatesAppend DEF DesyncInv
<1>4. \A r : Ahead(log', r, "c2w") => Ahead(log, r, "c2w")
  <2>1. /\ log'[Len(log) + 1] = e
        /\ \A i \in 1..Len(log) : log'[i] = log[i]
        /\ \A i \in 1..Len(log') : i \in 1..Len(log) \/ i = Len(log) + 1
    BY <1>1, LogAppended
  <2> QED BY <2>1 DEF Ahead
<1> QED BY <1>2, <1>3, <1>4 DEF DesyncInv

\* accept_shared_key_connect
LEMMA HelloDesync ==
  ASSUME TypeOK, RefInv, AcceptInv, DesyncInv, Linked(log'), NEW k \in accepting, AcceptHello(k)
  PROVE  DesyncInv'
<1> DEFINE s == InitialState(k, clientDh, 0, clock)
           e == WalletHello(s)
<1>1. s \in State
  BY InitialStateType DEF TypeOK
<1>2. e \in Envelope
  BY <1>1, EncodeType DEF WalletHello, MsgTypes, TypeOK
<1>3. e.type = "wallet_hello" /\ e.dir = "w2c"
  BY DEF WalletHello, EncodeMessage
<1>4. log' = Append(log, e) /\ UNCHANGED <<stored, working>>
  BY DEF AcceptHello, AddContextText, dappVars
<1> HIDE DEF e
<1> QED BY <1>2, <1>3, <1>4, WalletWriteDesync

\* challenge_response: it starts from the state after the challenge it
\* answers, or from an equal one.
LEMMA ResponseDesync ==
  ASSUME TypeOK, KeyInv, RefInv, AcceptInv, SyncInv, DesyncInv, Prompt, Linked(log'),
         NEW m \in inbox, RespondToChallenge(m)
  PROVE  DesyncInv'
<1> DEFINE base == ResponseBase(m)
           s == RekeyOutbound(base, Fresh("wallet"), NextOutboundSeq(base))
           e == ChallengeResponse(s, m.idx)
           c == m.idx
<1>1. base \in State /\ m.idx \in Nat /\ clock \in Nat /\ Fresh("wallet") \in Key
  BY FreshType DEF ResponseBase, TypeOK, Side
<1>2. s \in State
  BY <1>1, RekeyType, SeqType
<1>3. e \in Envelope
  BY <1>1, <1>2, EncodeType DEF ChallengeResponse, MsgTypes
<1>4. e.dir = "w2c" /\ e.root = Append(base.root, {Fresh("wallet"), base.peer})
      /\ e.dh = Fresh("wallet")
  BY DEF ChallengeResponse, EncodeMessage, RekeyOutbound, Shared
<1>5. /\ log' = Append(log, e) /\ UNCHANGED <<stored, working>> /\ Idle /\ Has(base)
      /\ log[c].type = "sign_challenge"
  BY DEF RespondToChallenge, AddContextText, dappVars
<1>6. c \in 1..Len(log) /\ log[c].dir = "c2w"
  BY DEF SyncInv, InboxRead
<1>7. base.root = log[c].root
  <2>1. log[c].root = wstate.root
    BY <1>5 DEF SyncInv, TurnInv, InboxLast, Reader
  <2>2. Has(m.after) => m.after.root = log[c].root
    BY DEF SyncInv, InboxRead
  <2> QED BY <2>1, <2>2 DEF ResponseBase
<1>8. StateOK(base, "wallet", nextKey)
  BY DEF KeyInv, WalletOK, ResponseBase
<1> HIDE DEF base, e
<1>9. log[c].dh = base.peer
  BY <1>1, <1>5, <1>6, <1>7, <1>8, KeyOfMessage DEF Side
<1> QED BY <1>3, <1>4, <1>5, <1>6, <1>7, <1>9, WalletWriteDesync

\* wait_wallet_hello
LEMMA JoinDesync ==
  ASSUME TypeOK, RefInv, AcceptInv, SyncInv, DesyncInv, WaitWalletHello
  PROVE  DesyncInv'
<1>1. UNCHANGED <<log, working>> /\ phase = "linked"
  BY DEF WaitWalletHello, chainVars
<1>2. PICK i \in Hellos : stored' = InitialState(clientDh, log[i].dh, log[i].seq, 0)
  BY DEF WaitWalletHello
<1>3. i \in 1..Len(log) /\ stored'.root = log[i].root /\ stored'.seen = log[i].seq
  BY <1>2 DEF Hellos, Window, Decrypts, InitialState
<1>4. \A j \in 1..Len(log) : log[j].dir = "w2c" /\ Len(log[j].root) = 1
                             /\ log[j].root \in Root /\ log[j].root # <<>> /\ log[j].seq \in Nat
  BY <1>1, Entries DEF SyncInv, PhaseInv, TypeOK, RefInv, Linked
<1>5. OneSession(log, stored')
  BY <1>4 DEF OneSession
<1>6. ASSUME NEW j \in 1..Len(log), IsPrefix(log[j].root, log[i].root)
      PROVE  log[j].seq <= log[i].seq
  <2>1. log[j].root \in Seq(SUBSET Key) /\ log[i].root \in Seq(SUBSET Key)
        /\ Len(log[j].root) = Len(log[i].root)
    BY <1>3, <1>4 DEF Root
  <2>2. \A k \in 1..Len(log[j].root) : log[j].root[k] = log[i].root[k]
    BY <1>3, <1>4, <1>6, PrefixElements
  <2>3. log[j].root = log[i].root
    BY <2>1, <2>2, SeqEqual
  <2>4. j = i
    BY <1>3, <2>3 DEF RefInv, Linked
  <2> QED BY <1>3, <1>4, <2>4
<1>7. SeenAll(log, stored')
  BY <1>3, <1>6 DEF SeenAll
<1> QED BY <1>1, <1>5, <1>7 DEF DesyncInv

\* wait_challenge_response
LEMMA WaitDesyncs ==
  ASSUME TypeOK, RefInv, AcceptInv, DesyncInv, Waiting \/ WaitTimesOut
  PROVE  DesyncInv'
<1>1. log' = log /\ working' = NoState /\ Has(working)
  BY DEF Waiting, WaitFinds, WaitDesync, WaitAborts, WaitTimesOut, WaitEnds, chainVars
<1>2. OneSession(log, NoState) /\ SeenAll(log, NoState) /\ ~Has(NoState)
  BY NoPageParts DEF OneSession, SeenAll
<1>3. CASE stored' \in {stored, NoState}
  BY <1>1, <1>2, <1>3 DEF DesyncInv
<1>4. CASE WaitFinds
  <2>1. PICK i \in Hits(working, Responses) :
          stored' = RekeyInbound(working, log[i].dh, log[i].seq)
    BY <1>4 DEF WaitFinds
  <2>2. i \in 1..Len(log) /\ Opens(working, log[i])
    BY DEF Hits, Responses, Candidates, Window
  <2>3. log[i] \in Envelope /\ log[i].seq \in Nat /\ working \in State /\ log[i].root \in Root
        /\ working.root # <<>> /\ working.seen \in Nat
        /\ \A j \in 1..Len(log) : log[j].root \in Root /\ log[j].seq \in Nat
    BY <1>1, <2>2, Entries DEF TypeOK, State, Has
  <2> DEFINE x == Shared(working.my, log[i].dh)
  <2>4. /\ x \in SUBSET Key /\ working.root \in Root /\ log[i].root = Append(working.root, x)
        /\ stored'.root = log[i].root /\ stored'.seen = log[i].seq
    BY <2>1, <2>2, <2>3, InboundParts DEF RekeyInbound
  <2>5. working.seen < log[i].seq
    BY <2>2, <2>3 DEF Opens, CanRekeyInbound
  <2> HIDE DEF x
  <2>6. Signer(stored') = Signer(working)
    BY <2>3, <2>4, ExtendedRoot DEF Signer
  <2>7. OneSession(log, stored')
    BY <1>1, <2>6 DEF DesyncInv, OneSession
  <2>8. ASSUME NEW j \in 1..Len(log), log[j].dir = "w2c", IsPrefix(log[j].root, log[i].root)
        PROVE  log[j].seq <= log[i].seq
    <3>1. CASE log[j].root = log[i].root
      <4>1. j = i
        BY <2>2, <3>1 DEF RefInv, Linked
      <4> QED BY <2>3, <4>1
    <3>2. CASE IsPrefix(log[j].root, working.root)
      <4>1. log[j].seq <= working.seen
        BY <1>1, <2>8, <3>2 DEF DesyncInv, SeenAll
      <4> QED BY <2>3, <2>5, <4>1
    <3> QED BY <2>3, <2>4, <2>8, <3>1, <3>2, PrefixOfExtended
  <2>9. SeenAll(log, stored')
    BY <2>4, <2>8 DEF SeenAll
  <2> QED BY <1>1, <1>2, <2>7, <2>9 DEF DesyncInv
<1> QED BY <1>3, <1>4 DEF Waiting, WaitDesync, WaitAborts, WaitTimesOut

\* Every step of careful callers that keep their pre-challenge state.
LEMMA DesyncStep ==
  /\ TypeOK /\ KeyInv /\ RefInv /\ AcceptInv /\ SyncInv /\ DesyncInv /\ RefInv'
  /\ Careful /\ Prompt /\ [Next]_vars
  => DesyncInv'
<1> SUFFICES ASSUME TypeOK, KeyInv, RefInv, AcceptInv, SyncInv, DesyncInv, RefInv', Careful,
                    Prompt, [Next]_vars
             PROVE  DesyncInv'
  OBVIOUS
<1>0. Linked(log')
  BY DEF RefInv
<1>1. ASSUME UNCHANGED <<log, stored, working>> PROVE DesyncInv'
  BY <1>1 DEF DesyncInv
<1>2. CASE \/ Tick \/ CreateSharedKeySession \/ AcceptBegin \/ Query \/ QueryLost
           \/ WaitSetMiningKeys \/ DestroyConnectProfile \/ UNCHANGED vars
  <2>1. UNCHANGED <<log, stored, working>>
    BY <1>2 DEF Tick, CreateSharedKeySession, AcceptBegin, Query, QueryBegin, QueryRecord,
                QueryEnd, QueryLost, WaitSetMiningKeys, DestroyConnectProfile, WalletUnchanged,
                vars, chainVars, dappVars
  <2> QED BY <1>1, <2>1
<1>3. ASSUME NEW k \in accepting, AcceptDeploy(k) \/ AcceptFail(k) PROVE DesyncInv'
  BY <1>1, <1>3 DEF AcceptDeploy, AcceptFail, chainVars, dappVars
<1>4. CASE Accepting
  BY <1>0, <1>3, <1>4, HelloDesync DEF Accepting
<1>5. CASE RequestSetMiningKeys
  BY <1>0, <1>5, SendDesync DEF RequestSetMiningKeys, MsgTypes
<1>6. CASE RequestSignChallenge
  BY <1>0, <1>6, SendDesync DEF RequestSignChallenge, MsgTypes
<1>s. CASE SignChallengeSent
  <2>1. UNCHANGED <<log, working>> /\ stored' \in {stored, working}
    BY <1>s DEF SignChallengeSent, chainVars
  <2> QED BY <2>1 DEF DesyncInv
<1>7. CASE DisconnectSession
  BY <1>0, <1>7, SendDesync DEF DisconnectSession, MsgTypes
<1>8. ASSUME NEW t \in {"set_mining_keys", "sign_challenge"}, SendUnacknowledged(t)
      PROVE  DesyncInv'
  BY <1>8 DEF SendUnacknowledged, Careful
<1>9. CASE Responding
  BY <1>0, <1>9, ResponseDesync DEF Responding
<1> QED
  BY <1>2, <1>4, <1>5, <1>6, <1>s, <1>7, <1>8, <1>9, JoinDesync, WaitDesyncs DEF Next

\* A response that does not open although it continues the dApp's past or the
\* wallet's present is on neither chain.
LEMMA DesyncForked ==
  ASSUME TypeOK, KeyInv, RefInv, SyncInv, DesyncInv, Prompt, WaitDesync,
         SameSession(working, wstate)
  PROVE  ~SameChain(working, wstate)
<1> SUFFICES ASSUME SameChain(working, wstate) PROVE FALSE
  OBVIOUS
<1>1. PICK j \in Responses : CanRekeyInbound(working, log[j].seq) /\ ~Opens(working, log[j])
  BY DEF WaitDesync, DecryptFailures
<1>2. j \in 1..Len(log) /\ log[j].dir = "w2c" /\ log[j].type = "challenge_response"
  BY DEF Responses, Candidates, Window
<1>3. PICK c \in 1..Len(log) : log[c].dir = "c2w"
                               /\ log[j].root = Append(log[c].root, {log[j].dh, log[c].dh})
  BY <1>2 DEF DesyncInv, Replies
<1>4. /\ working \in State /\ wstate \in State /\ Has(working) /\ Has(wstate)
      /\ working.root \in Root /\ wstate.root \in Root /\ working.root # <<>>
      /\ log[c].root \in Root /\ log[j].root \in Root /\ {log[j].dh, log[c].dh} \in SUBSET Key
      /\ log[j].seq \in Nat /\ working.seen \in Nat
  BY <1>2, <1>3, LogEntry, Entries DEF TypeOK, State, Has, SameSession
<1>5. Signer(working) = Signer(wstate) /\ Signer(log[c]) = Signer(working)
  BY <1>3, <1>4 DEF SameSession, DesyncInv, OneSession
<1>6. log[c].root # <<>> => Signer(log[j]) = Signer(wstate)
  BY <1>3, <1>4, <1>5, ExtendedRoot DEF Signer
<1>7. log[c].root # <<>>
  BY <1>3 DEF RefInv, Linked
<1>8. IsPrefix(log[j].root, wstate.root)
  BY <1>2, <1>4, <1>6, <1>7 DEF SyncInv, TurnInv, SentHeld
<1>9. ~IsPrefix(log[j].root, working.root)
  <2> SUFFICES ASSUME IsPrefix(log[j].root, working.root) PROVE FALSE
    OBVIOUS
  <2>1. log[j].seq <= working.seen
    BY <1>2, <1>4 DEF DesyncInv, SeenAll
  <2>2. log[j].seq > working.seen
    BY <1>1 DEF CanRekeyInbound
  <2> QED BY <1>4, <2>1, <2>2
<1>10. IsStrictPrefix(working.root, log[j].root)
  <2>1. ~IsPrefix(wstate.root, working.root)
    BY <1>4, <1>8, <1>9, PrefixTrans
  <2>2. IsPrefix(working.root, wstate.root)
    BY <2>1 DEF SameChain
  <2> QED BY <1>4, <1>8, <1>9, <2>2, PrefixesCompare
<1>11. working.root = log[c].root
  <2>1. IsPrefix(working.root, log[c].root)
    BY <1>3, <1>4, <1>10, PrefixOfExtended DEF IsStrictPrefix
  <2>2. ~IsStrictPrefix(working.root, log[c].root)
    BY <1>3, <1>4 DEF DesyncInv, Ahead
  <2> QED BY <2>1, <2>2 DEF IsStrictPrefix
<1>12. log[c].dh = working.my
  BY <1>3, <1>4, <1>11, KeyOfMessage DEF KeyInv, DappOK, Side
<1>13. RekeyInbound(working, log[j].dh, log[j].seq).root = log[j].root
  BY <1>3, <1>11, <1>12 DEF RekeyInbound, Shared
<1> QED BY <1>1, <1>13 DEF Opens, Decrypts

\* When careful callers keep the pre-challenge state until the response,
\* wait_challenge_response reports session_desync only after the two chains
\* have forked, for every bound and whatever else fails or is read again
\* (find_challenge_response_event, challenge_response).
THEOREM DesyncIsRealAlways ==
  ASSUME Careful, "early_persist" \notin Policy
  PROVE  Spec => DesyncIsReal
<1>1. Prompt
  BY DEF Prompt
<1>2. Init => DesyncInv
  <2> SUFFICES ASSUME Init PROVE DesyncInv
    OBVIOUS
  <2>1. Len(log) = 0 /\ stored = NoState /\ working = NoState
    BY DEF Init
  <2> QED BY <2>1, NoPageParts DEF DesyncInv, Replies, OneSession, SeenAll
<1>3. /\ TypeOK /\ KeyInv /\ RefInv /\ AcceptInv /\ SyncInv /\ DesyncInv /\ RefInv'
      /\ [Next]_vars
      => DesyncInv'
  BY <1>1, DesyncStep
<1>4. TypeOK /\ KeyInv /\ RefInv /\ SyncInv /\ DesyncInv /\ [Next]_vars
      => [verdict' = "desync" /\ verdict # "desync" /\ SameSession(working, wstate)
            => ~SameChain(working, wstate)]_vars
  <2> SUFFICES ASSUME TypeOK, KeyInv, RefInv, SyncInv, DesyncInv, [Next]_vars,
                      verdict' = "desync", verdict # "desync", SameSession(working, wstate)
               PROVE  ~SameChain(working, wstate)
    OBVIOUS
  <2>1. WaitDesync
    BY DEF Next, Tick, CreateSharedKeySession, WaitWalletHello, AcceptBegin, Accepting,
           AcceptDeploy, AcceptHello, AcceptFail, RequestSetMiningKeys, RequestSignChallenge,
           SignChallengeSent, DisconnectSession, SendUnacknowledged, Waiting, WaitFinds, WaitAborts, WaitTimesOut,
           WaitEnds, Query, QueryBegin, QueryRecord, QueryEnd, QueryLost, WalletUnchanged,
           Responding, RespondToChallenge, WaitSetMiningKeys, DestroyConnectProfile,
           vars, dappVars
  <2> QED BY <1>1, <2>1, DesyncForked
<1> QED BY <1>2, <1>3, <1>4, SyncAlways, PTL DEF Spec, DesyncIsReal
=============================================================================
