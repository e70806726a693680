---------------------------- MODULE MinedSession ----------------------------
(***************************************************************************)
(* One mining session from the first hash to the verdict: the two mining   *)
(* cores of a worker (bee_miner/src/core), the Merkle proofs it sends for  *)
(* the intervals it is asked for (wasm/worker.rs), and the verifier the    *)
(* contract runs on them (bee_verifier, bee_shared).                       *)
(*                                                                         *)
(* A hash is the value that was hashed, so equal hashes have equal         *)
(* preimages; only the number hash_num reads from it has a width.  The     *)
(* contract is external: it keeps the roots, asks for one window of each   *)
(* tree and calls the verifier with its seed, its complexities and what it *)
(* stored.  The wall clock may be set back.                                *)
(***************************************************************************)
EXTENDS Integers, Sequences, FiniteSets

CONSTANTS
  Duration,      \* duration_ms
  BlockMs,       \* milliseconds per block: 330
  HashBits,      \* width of hash_num: 128
  TimeBits,      \* width of a timestamp: 64
  HashNum(_),    \* the number at the head of the hash of a leaf
  Seeds,         \* seeds of the contract
  Complexities,  \* pairs of complexities in bits
  MaxClock,      \* bound: last clock reading
  MaxBacks,      \* bound: how often the clock is set back
  MaxLeaves      \* bound: number of leaves of each core

Cores == {"time", "tap"}

ASSUME MinedAssumption ==
  /\ Duration \in Nat \ {0} /\ BlockMs \in Nat \ {0} /\ HashBits \in Nat \ {0}
  /\ TimeBits \in Nat /\ 2 ^ TimeBits > MaxClock + Duration
  /\ Complexities \subseteq [Cores -> 0 .. HashBits - 1]
  /\ MaxClock \in Nat /\ MaxBacks \in Nat

None == -1

VARIABLES
  now,      \* what Date::now returns
  backs,    \* how often it went back
  start,    \* start_ms
  seed,     \* seed the worker mines
  current,  \* seed the contract verifies with
  mined,    \* complexity each core mines with
  required, \* complexity the contract verifies with
  core,     \* time_core and tap_core
  phase,    \* where the worker is
  asked,    \* windows the contract asks for
  verdict   \* result of the verifier

session == <<start, seed, current, mined, required>>
vars == <<now, backs, session, core, phase, asked, verdict>>

-----------------------------------------------------------------------------
(* Leaves (bee_shared/src/miner/leaf.rs). *)

\* threshold: u128::MAX >> complexity
Threshold(c) == (2 ^ HashBits - 1) \div 2 ^ c

Leaf(i, nonce, s, t, c) ==
  [index |-> i, nonce |-> nonce, seed |-> s, timestamp |-> t, complexity |-> c]

\* merkle_hash: a tree node without children
MerkleHash(leaf) == [kids |-> <<>>, data |-> <<leaf>>]

\* Mutated form: the hash may also equal the threshold.
CalcHashBlake_Leq(i, s, t, c) ==
  Leaf(i, CHOOSE n \in 0 .. 2 ^ HashBits - 1 :
            /\ HashNum(Leaf(i, n, s, t, c)) <= Threshold(c)
            /\ \A k \in 0 .. n - 1 : HashNum(Leaf(i, k, s, t, c)) > Threshold(c),
       s, t, c)

\* calc_hash_blake: the first nonce whose hash is below the threshold
CalcHashBlake(i, s, t, c) ==
  Leaf(i, CHOOSE n \in 0 .. 2 ^ HashBits - 1 :
            /\ HashNum(Leaf(i, n, s, t, c)) < Threshold(c)
            /\ \A k \in 0 .. n - 1 : HashNum(Leaf(i, k, s, t, c)) >= Threshold(c),
       s, t, c)

\* ComputedLeaf::verify; the hash of a leaf is the leaf, so it matches
Verify(leaf, s, c) ==
  /\ leaf.seed = s /\ leaf.complexity = c /\ c < HashBits
  /\ HashNum(leaf) < Threshold(c)

-----------------------------------------------------------------------------
(* The Merkle tree of rs_merkle (external). *)

Node(l, r) == [kids |-> <<l, r>>, data |-> <<>>]

\* The layer above; a node without a sibling goes up as it is
Parents(layer) ==
  [i \in 1 .. (Len(layer) + 1) \div 2 |->
     IF 2 * i <= Len(layer) THEN Node(layer[2 * i - 1], layer[2 * i])
     ELSE layer[Len(layer)]]

RECURSIVE Root(_)
Root(layer) == IF Len(layer) = 1 THEN layer[1] ELSE Root(Parents(layer))

Sibling(i) == IF i % 2 = 0 THEN i + 1 ELSE i - 1

\* Siblings that a layer of n nodes has and idx lacks, in ascending order
Missing(idx, n) ==
  LET ms == ({Sibling(i) : i \in idx} \cap 0 .. n - 1) \ idx
  IN  CHOOSE s \in [1 .. Cardinality(ms) -> ms] :
        \A a, b \in 1 .. Cardinality(ms) : a < b => s[a] < s[b]

Above(idx) == {i \div 2 : i \in idx}

\* tree.proof: the nodes needed besides those of idx, layer by layer
RECURSIVE Proof(_, _)
Proof(layer, idx) ==
  IF Len(layer) = 1 THEN <<>>
  ELSE LET ms == Missing(idx, Len(layer))
       IN  [k \in 1 .. Len(ms) |-> layer[ms[k] + 1]] \o Proof(Parents(layer), Above(idx))

\* proof.verify: known maps positions of a layer of n nodes to hashes
RECURSIVE Extracts(_, _, _, _)
Extracts(known, proof, n, root) ==
  LET ms  == Missing(DOMAIN known, n)
      all == [i \in DOMAIN known \cup {ms[k] : k \in 1 .. Len(ms)} |->
                IF i \in DOMAIN known THEN known[i]
                ELSE proof[CHOOSE k \in 1 .. Len(ms) : ms[k] = i]]
  IN  IF n = 1 THEN known[0] = root
      ELSE /\ Len(proof) >= Len(ms)
           /\ Extracts([i \in Above(DOMAIN known) |->
                          IF 2 * i + 1 \in DOMAIN all
                          THEN Node(all[2 * i], all[2 * i + 1]) ELSE all[2 * i]],
                       SubSeq(proof, Len(ms) + 1, Len(proof)), (n + 1) \div 2, root)

-----------------------------------------------------------------------------
(* The mining core (core/context.rs, core/merkle.rs). *)

\* leaves are the committed ones
New == [completed |-> <<>>, inserted |-> <<>>, leaves |-> <<>>, committed |-> FALSE,
        ends_at |-> None, last_now |-> None]

\* Mutated form: a clock that was set back is not noticed.
Accepts_Backwards(k, t) == t < k.ends_at /\ ~k.committed

\* The checks of compute, once the deadline is set
Accepts(k, t) == t < k.ends_at /\ ~k.committed /\ t >= k.last_now

Compute(k, s, t, c) ==
  LET set  == IF k.ends_at = None THEN [k EXCEPT !.ends_at = t + Duration] ELSE k
      leaf == CalcHashBlake(Len(k.completed), s, t, c)
  IN  IF Accepts(set, t)
      THEN [set EXCEPT !.last_now = t, !.completed = Append(@, leaf),
                       !.inserted = Append(@, MerkleHash(leaf))]
      ELSE set

\* get_merkle: the first call commits
GetMerkle(k) == IF k.committed THEN k ELSE [k EXCEPT !.committed = TRUE, !.leaves = k.inserted]

\* get_proof_in_window and completed_in_window
ValidWindow(k, w) == w[1] < w[2] /\ w[2] <= Len(k.leaves)

Window(w) == w[1] .. w[2] - 1

GetProof(k, w) ==
  [proof |-> Proof(k.leaves, Window(w)), leaves_tree |-> SubSeq(k.leaves, w[1] + 1, w[2]),
   leaves_data |-> SubSeq(k.completed, w[1] + 1, w[2])]

-----------------------------------------------------------------------------
(* The verifier (bee_verifier). *)

\* validate_proof: without helper nodes only a single leaf is accepted
ValidateProof(root, count, w, p) ==
  IF p.proof = <<>> THEN Len(p.leaves_tree) = 1 /\ p.leaves_tree[1] = root
  ELSE /\ Len(p.leaves_tree) = w[2] - w[1]
       /\ Extracts([i \in Window(w) |-> p.leaves_tree[i - w[1] + 1]], p.proof, count, root)

ValidateLeaves(leaves, s, c) ==
  leaves # <<>> /\ \A i \in 1 .. Len(leaves) : Verify(leaves[i], s, c)

VerifyProofAndLeaves(s, c, w, submit, p) ==
  /\ ValidateProof(submit.root, submit.leaves_count, w, p)
  /\ ValidateLeaves(p.leaves_data, s, c)

\* u64 subtraction of a release build
Minus(a, b) == IF a >= b THEN a - b ELSE 2 ^ TimeBits + a - b

\* ParamsOfVerifySession: the seed, windows and complexities of the contract,
\* the roots it was sent first and the proofs it was sent then
Request(submit, proofs) ==
  [seed |-> current, windows |-> asked, complexity |-> required,
   submit |-> submit, proofs |-> proofs]

\* VerifierGuest::verify: windows of both trees, the first and the last tap, and
\* the blocks between these two
VerifySession(req) ==
  LET n     == req.submit["tap"].leaves_count
      hard(w, p) ==
        VerifyProofAndLeaves(req.seed, req.complexity["tap"], w, req.submit["tap"], p)
      first == Head(req.proofs.hard_first.leaves_data)
      last  == req.proofs.hard_last.leaves_data[Len(req.proofs.hard_last.leaves_data)]
  IN  [valid |-> /\ VerifyProofAndLeaves(req.seed, req.complexity["time"],
                         req.windows["time"], req.submit["time"], req.proofs.easy)
                 /\ hard(<<0, 1>>, req.proofs.hard_first)
                 /\ hard(req.windows["tap"], req.proofs.hard_range)
                 /\ hard(<<n - 1, n>>, req.proofs.hard_last),
       blocks |-> Minus(last.timestamp, first.timestamp) \div BlockMs]

-----------------------------------------------------------------------------
(* The worker (wasm/worker.rs). *)

NoWindows == [c \in Cores |-> <<0, 0>>]
NoVerdict == [valid |-> FALSE, blocks |-> 0]

Init ==
  /\ now = 1 /\ start = now /\ backs = 0
  /\ seed \in Seeds /\ current \in Seeds
  /\ mined \in Complexities /\ required \in Complexities
  /\ core = [c \in Cores |-> New] /\ phase = "computing"
  /\ asked = NoWindows /\ verdict = NoVerdict

\* The wall clock moves on, or is set back
Tick ==
  /\ phase = "computing"
  /\ \/ now < MaxClock /\ now' = now + 1 /\ UNCHANGED backs
     \/ backs < MaxBacks /\ backs' = backs + 1 /\ now' \in 0 .. now - 1
  /\ UNCHANGED <<session, core, phase, asked, verdict>>

\* One turn of the loop: a tap or a time hash; the loop ends after the duration
Turn(c) ==
  /\ phase = "computing" /\ Len(core[c].completed) < MaxLeaves[c]
  /\ core' = [core EXCEPT ![c] = Compute(@, seed, now, mined[c])]
  /\ phase' = IF now >= start + Duration THEN "computed" ELSE phase
  /\ UNCHANGED <<now, backs, session, asked, verdict>>

\* A Stop command
Stop ==
  /\ phase = "computing" /\ phase' = "computed"
  /\ UNCHANGED <<now, backs, session, core, asked, verdict>>

\* Both trees are committed; a session with an empty one is dropped
Finalize ==
  LET trees == [c \in Cores |-> GetMerkle(core[c])]
  IN  /\ phase = "computed" /\ core' = trees
      /\ phase' = IF \E c \in Cores : trees[c].leaves = <<>> THEN "dropped" ELSE "committed"
      /\ UNCHANGED <<now, backs, session, asked, verdict>>

\* Windows of a tree.  Nothing in the sources says that the contract keeps to
\* leaves_count, so the last place may lie outside
Windows(n) == {w \in (0 .. n) \X (1 .. n + 1) : w[1] < w[2]}

\* submit_session_root, and the interval the contract answers with.  An event
\* names the worker by a random id, so the interval is this session's
SubmitSessionRoot ==
  /\ phase = "committed" /\ phase' = "submitted"
  /\ \E e \in Windows(Len(core["time"].leaves)), h \in Windows(Len(core["tap"].leaves)) :
       asked' = [c \in Cores |-> IF c = "time" THEN e ELSE h]
  /\ UNCHANGED <<now, backs, session, core, verdict>>

\* submit_session_proof fails on a window the tree does not have
ProofFails ==
  /\ phase = "submitted" /\ \E c \in Cores : ~ValidWindow(core[c], asked[c])
  /\ phase' = "failed"
  /\ UNCHANGED <<now, backs, session, core, asked, verdict>>

\* What the worker sends: the roots, then the proofs
Submit == [c \in Cores |-> [root |-> Root(core[c].leaves), leaves_count |-> Len(core[c].leaves)]]

Proofs(w) ==
  LET n == Len(core["tap"].leaves)
  IN  [easy |-> GetProof(core["time"], w["time"]), hard_first |-> GetProof(core["tap"], <<0, 1>>),
       hard_range |-> GetProof(core["tap"], w["tap"]),
       hard_last |-> GetProof(core["tap"], <<n - 1, n>>)]

SubmitSessionProof ==
  /\ phase = "submitted" /\ \A c \in Cores : ValidWindow(core[c], asked[c])
  /\ verdict' = VerifySession(Request(Submit, Proofs(asked))) /\ phase' = "verified"
  /\ UNCHANGED <<now, backs, session, core, asked>>

Next ==
  \/ Tick \/ Stop \/ Finalize \/ SubmitSessionRoot
  \/ ProofFails \/ SubmitSessionProof
  \/ \E c \in Cores : Turn(c)

Spec == Init /\ [][Next]_vars

-----------------------------------------------------------------------------
(* Properties. *)

\* A window of two or more leaves that is the whole tree has no helper nodes
WholeTree(c) == asked[c] = <<0, Len(core[c].leaves)>> /\ Len(core[c].leaves) > 1

\* The answers of the honest worker are complete: a session mined with the seed
\* and the complexity the contract verifies with is found valid, whatever the
\* number of leaves, the windows and the clock; except if a window is a whole
\* tree of two or more leaves, which validate_proof never accepts (worker.rs,
\* merkle.rs, verifier.rs).
HonestSessionVerifies ==
  phase = "verified" /\ seed = current /\ mined = required /\ (\A c \in Cores : ~WholeTree(c))
    => verdict.valid

\* The blocks the verifier pays for are fewer than the session lasted: the
\* subtraction of the first timestamp from the last does not wrap and the core
\* takes no tap after its deadline, even if the clock is set back
\* (MiningCore::compute, VerifierGuest::verify).
BlocksWithinDuration ==
  phase = "verified" => verdict.blocks * BlockMs < Duration
=============================================================================
