----------------------------- MODULE IssuerTrees -----------------------------
(***************************************************************************)
(* services/issuer: the trees an issuance commits to, the witnesses it     *)
(* hands out, and what the membership part of circuits/eligibility.circom  *)
(* accepts.                                                                *)
(*                                                                         *)
(* Poseidon is a free constructor: a hash is the pair that was hashed, and *)
(* two hashes are equal exactly when the pairs are.  The numbers that get  *)
(* compared, the keys, keep their order.                                   *)
(***************************************************************************)
EXTENDS Integers, SequencesExt

CONSTANTS
  Members,          \* user records, each with its credential
  SanctionsKey,     \* [Members -> Keys]: low 248 bits of the hash of secret and issuer
  RevocationKey,    \* [Members -> Keys]: low 248 bits of the hash of the credential
  KeyMax,           \* 2^248 - 1
  CredentialDepth,  \* CREDENTIAL_DEPTH
  ExclusionDepth,   \* EXCLUSION_DEPTH
  TreeInputs,       \* what roster.json, the OFAC lists and revocations.json can say
  NoIssuance        \* no file out/issuance.json

\* A hash is 0 with negligible probability, and 0 is not a key.
Keys == 1 .. KeyMax

\* The 0 that stands for an empty subtree: not a pair that was hashed.
Empty == << >>

Input == [users : Seq(Members), matched : SUBSET Members, revoked : SUBSET Members]

ASSUME TreesAssumption ==
  /\ CredentialDepth \in Nat /\ ExclusionDepth \in Nat /\ KeyMax \in Nat
  \* every roster that fits leaves room for its list: 4 users, 2^20 leaves
  /\ CredentialDepth < ExclusionDepth
  /\ SanctionsKey \in [Members -> Keys]
  /\ RevocationKey \in [Members -> Keys]
  /\ Empty \notin Members
  /\ \A u, v \in Members : u # v => /\ SanctionsKey[u] # SanctionsKey[v]
                                    /\ RevocationKey[u] # RevocationKey[v]
  /\ TreeInputs \subseteq Input

VARIABLE issued     \* the content of out/issuance.json, or NoIssuance

-----------------------------------------------------------------------------
\* 2 ** depth.
LeafCount[depth \in Nat] == IF depth = 0 THEN 1 ELSE 2 * LeafCount[depth - 1]

Hash(left, right) == <<left, right>>

Node(left, right) ==
  IF left = Empty /\ right = Empty THEN Empty ELSE Hash(left, right)

NodeAt(level, pos) == IF pos \in DOMAIN level THEN level[pos] ELSE Empty

\* levels[l] is the sequence of nodes at height l.
Levels(leaves, depth) ==
  LET levels[l \in 0 .. depth] ==
        IF l = 0 THEN IF leaves = << >> THEN <<Empty>> ELSE leaves
        ELSE [pos \in 1 .. (Len(levels[l - 1]) + 1) \div 2 |->
                Node(NodeAt(levels[l - 1], 2 * pos - 1), NodeAt(levels[l - 1], 2 * pos))]
  IN  levels

BuildTree(leaves, depth) ==
  LET levels == Levels(leaves, depth)
  IN  [root |-> levels[depth][1], levels |-> levels, depth |-> depth]

\* The ancestor of leaf index at each height, both from 0.
Ancestors(index, depth) ==
  LET pos[l \in 0 .. depth] == IF l = 0 THEN index ELSE pos[l - 1] \div 2
  IN  pos

\* The neighbour of the ancestor of leaf index (from 0) at each height.
Siblings(tree, index) ==
  LET pos == Ancestors(index, tree.depth)
  IN  [l \in 1 .. tree.depth |->
         NodeAt(tree.levels[l - 1],
                IF pos[l - 1] % 2 = 0 THEN pos[l - 1] + 2 ELSE pos[l - 1])]

\* merkleRoot of the library and MerkleProof of the circuit.
MerkleRoot(leaf, index, siblings) ==
  LET pos == Ancestors(index, Len(siblings))
      node[l \in 0 .. Len(siblings)] ==
        IF l = 0 THEN leaf
        ELSE IF pos[l - 1] % 2 = 1 THEN Hash(siblings[l], node[l - 1])
                                   ELSE Hash(node[l - 1], siblings[l])
  IN  node[Len(siblings)]

\* Faulty: the comparison of the sort is the wrong way round.
ListedInOrderFaulty(values) ==
  CHOOSE s \in [1 .. Cardinality(values) -> values] :
    \A i, j \in DOMAIN s : i < j => s[i] > s[j]

\* The values in ascending order.
ListedInOrder(values) ==
  CHOOSE s \in [1 .. Cardinality(values) -> values] :
    \A i, j \in DOMAIN s : i < j => s[i] < s[j]

\* The linked leaves (0, v1), (v1, v2), ..., (vm, 0).
LinkedNodes(values) ==
  LET all == <<0>> \o ListedInOrder(values)
  IN  [i \in DOMAIN all |-> [value |-> all[i], next |-> IF i < Len(all) THEN all[i + 1] ELSE 0]]

BuildExclusionTree(values) ==
  LET nodes == LinkedNodes(values)
  IN  [nodes |-> nodes,
       tree  |-> BuildTree([i \in DOMAIN nodes |-> Hash(nodes[i].value, nodes[i].next)],
                           ExclusionDepth)]

Brackets(node, key) == node.value < key /\ (key < node.next \/ node.next = 0)

\* witnessFor, for a key that is not a member: the first node that brackets it.
WitnessFor(exclusion, key) ==
  LET i == CHOOSE j \in DOMAIN exclusion.nodes :
             /\ Brackets(exclusion.nodes[j], key)
             /\ \A k \in 1 .. j - 1 : ~Brackets(exclusion.nodes[k], key)
  IN  [low |-> exclusion.nodes[i], index |-> i - 1,
       siblings |-> Siblings(exclusion.tree, i - 1)]

-----------------------------------------------------------------------------
\* ExclusionProof of the circuit.
ExclusionProof(key, w, root) ==
  /\ MerkleRoot(Hash(w.low.value, w.low.next), w.index, w.siblings) = root
  /\ w.low.value < key
  /\ key < w.low.next \/ w.low.next = 0

\* The membership constraints on one user: a credential under the first root, its
\* keys under neither of the other two.
CircuitAccepts(u, w, roots) ==
  /\ MerkleRoot(u, w.index, w.siblings) = roots.credential
  /\ ExclusionProof(SanctionsKey[u], w.sanctions, roots.sanctions)
  /\ ExclusionProof(RevocationKey[u], w.revocation, roots.revocation)

-----------------------------------------------------------------------------
RosterFits(users) == Len(users) <= LeafCount[CredentialDepth]

\* The keys of the users on the roster that are marked.
KeysOf(input, marked, key) == {key[u] : u \in Range(input.users) \cap marked}

\* buildIssuance: a user who is matched or revoked gets no proof input.
BuildIssuance(input) ==
  LET credentials == BuildTree(input.users, CredentialDepth)
      sanctions   == BuildExclusionTree(KeysOf(input, input.matched, SanctionsKey))
      revocations == BuildExclusionTree(KeysOf(input, input.revoked, RevocationKey))
      clean       == {i \in DOMAIN input.users :
                        input.users[i] \notin input.matched \cup input.revoked}
  IN  [input |-> input, credentials |-> credentials,
       sanctions |-> sanctions, revocations |-> revocations,
       roots |-> [credential |-> credentials.root, sanctions |-> sanctions.tree.root,
                  revocation |-> revocations.tree.root],
       proofInputs |-> [i \in clean |->
         [index      |-> i - 1,
          siblings   |-> Siblings(credentials, i - 1),
          sanctions  |-> WitnessFor(sanctions, SanctionsKey[input.users[i]]),
          revocation |-> WitnessFor(revocations, RevocationKey[input.users[i]])]]]

TreesInit == issued = NoIssuance

\* rotateRoots; a roster that does not fit throws and leaves the file alone.
RotateRoots(input) ==
  /\ RosterFits(input.users)
  /\ issued' = BuildIssuance(input)

TreesNext == \E input \in TreeInputs : RotateRoots(input)

TreesSpec == TreesInit /\ [][TreesNext]_issued

-----------------------------------------------------------------------------
(* Every witness a prover could make up for a root whose tree is known: an *)
(* opening of the root follows the tree's own nodes, since hashing is      *)
(* injective, so only the leaf that is claimed and its index are free.     *)
Openings(exclusion) ==
  {[low |-> [value |-> v, next |-> n], index |-> i,
    siblings |-> Siblings(exclusion.tree, i)] :
     v, n \in 0 .. KeyMax, i \in 0 .. LeafCount[ExclusionDepth] - 1}

(* Sound and complete: some witness satisfies the circuit for a user under *)
(* the roots of an issuance exactly when the user is on its roster and is  *)
(* neither matched nor revoked there, wherever the keys fall among the     *)
(* listed ones (Provable in Eligibility says so of sets).                  *)
ProvableIffClean ==
  issued # NoIssuance =>
    LET input == issued.input IN
    \A u \in Members :
      (/\ \E i \in 0 .. LeafCount[CredentialDepth] - 1 :
            MerkleRoot(u, i, Siblings(issued.credentials, i)) = issued.roots.credential
       /\ \E w \in Openings(issued.sanctions) :
            ExclusionProof(SanctionsKey[u], w, issued.roots.sanctions)
       /\ \E w \in Openings(issued.revocations) :
            ExclusionProof(RevocationKey[u], w, issued.roots.revocation))
      <=> u \in Range(input.users) \ (input.matched \cup input.revoked)

(* What the service hands to a user who is not blocked is a witness the    *)
(* circuit accepts under the roots of the same issuance, for every place   *)
(* on the roster, and nobody else is handed one.                           *)
ProofInputsVerify ==
  issued # NoIssuance =>
    /\ \A i \in DOMAIN issued.proofInputs :
         CircuitAccepts(issued.input.users[i], issued.proofInputs[i], issued.roots)
    /\ \A i \in DOMAIN issued.input.users :
         i \notin DOMAIN issued.proofInputs =>
           issued.input.users[i] \in issued.input.matched \cup issued.input.revoked

(* The trees admit exactly the clean users, and hand each of them the      *)
(* witness that admits it.                                                 *)
TreesDecide == ProvableIffClean /\ ProofInputsVerify

=============================================================================
