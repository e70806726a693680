----------------------------- MODULE SessionTree -----------------------------
(***************************************************************************)
(* What the session protocol of bee_connect promises, without keys, roots, *)
(* sequence numbers or pages (PROTOCOL.md: every message re-keys the       *)
(* session, and a message opens for a reader that stands where its writer  *)
(* stood).                                                                 *)
(*                                                                         *)
(* The messages form a tree: each continues one earlier message, or opens  *)
(* a session.  A side stands at some messages of the tree; it moves only   *)
(* along the edges, by writing a message or by reading one of the other    *)
(* side, and it may forget where it stood.  So nothing is read that was    *)
(* not written, no message is skipped on the way to a later one, and a     *)
(* fork of the conversation is never mended by reading across.             *)
(***************************************************************************)
EXTENDS Integers, Sequences

VARIABLES
  tree,   \* the messages: who wrote each, and which message it continues
  dapp,   \* the messages the dApp stands at
  wallet  \* the messages the wallet stands at

tvars == <<tree, dapp, wallet>>

Init == tree = <<>> /\ dapp = {} /\ wallet = {}

\* A message that continues another one, 0 for none
Write(by, parent) == tree' = Append(tree, [by |-> by, parent |-> parent])

\* The messages of a side that continue one of those at `here`
Reach(by, here) ==
  {i \in DOMAIN tree : tree[i].by = by /\ tree[i].parent \in here}

\* wallet_hello opens a session, which the wallet may forget at once
Open ==
  /\ Write("wallet", 0)
  /\ wallet' \subseteq wallet \cup {Len(tree')}
  /\ UNCHANGED dapp

\* The dApp reads a wallet_hello
Join ==
  /\ dapp' \subseteq dapp \cup Reach("wallet", {0})
  /\ UNCHANGED <<tree, wallet>>

DappWrites ==
  /\ \E parent \in dapp : Write("dapp", parent)
  /\ dapp' \subseteq dapp \cup {Len(tree')}
  /\ UNCHANGED wallet

WalletWrites ==
  /\ \E parent \in wallet : Write("wallet", parent)
  /\ wallet' \subseteq wallet \cup {Len(tree')}
  /\ UNCHANGED dapp

\* One message is read, or places are forgotten
DappReads ==
  /\ dapp' \subseteq dapp \cup Reach("wallet", dapp)
  /\ UNCHANGED <<tree, wallet>>

WalletReads ==
  /\ wallet' \subseteq wallet \cup Reach("dapp", wallet)
  /\ UNCHANGED <<tree, dapp>>

Next == Open \/ Join \/ DappWrites \/ WalletWrites \/ DappReads \/ WalletReads

Spec == Init /\ [][Next]_tvars
=============================================================================
