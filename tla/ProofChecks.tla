----------------------------- MODULE ProofChecks -----------------------------
(***************************************************************************)
(* The checks gate_payment, gate_rwa and identity_verifier make on a proof *)
(* in the same order against the same four peers, and the log of the       *)
(* approvals they publish.                                                 *)
(***************************************************************************)
EXTENDS Eligibility, Ownership, IssuerRegistry, PolicyRegistry,
        NullifierRegistry, Verifier, Sequences, FiniteSets

CONSTANTS
  Accounts,         \* addresses that pay, are paid, hold tokens or attest
  Requests          \* the arguments of the calls that accompany a proof

ASSUME RequestAssumption ==
  Requests \subseteq
    [policy : PolicyIds, asset : Assets, amount : I128, recipient : RecipientIds,
     actionId : ActionIds, epoch : Epochs]

(* approvals[n] is the sequence of events PaymentApproved,                 *)
(* RwaTransferApproved, IdentityAttested and RwaMintAuthorized that carry  *)
(* nullifier n, in the order they were published.                          *)
VARIABLE approvals

Approval == [gate : Gates, kind : {"paid", "transferred", "attested", "authorized"},
             statement : Statements, amount : I128, circuit : Circuits,
             account : Accounts \cup {None}]

\* An address is 32 bytes: there are finitely many.
ASSUME AccountAssumption == None \notin Accounts /\ IsFiniteSet(Accounts)

ApprovalsTypeOK == approvals \in [Nullifiers -> Seq(Approval)]

ApprovalsInit == approvals = [n \in Nullifiers |-> << >>]

PublishApproval(a) ==
  approvals' = [approvals EXCEPT ![Nullifier(a.statement)] = Append(@, a)]

\* A token's ledger after a transfer (the tokens are not part of the repository).
Moved(ledger, from, to, amount) ==
  LET taken == [ledger EXCEPT ![from] = @ - amount]
  IN  [taken EXCEPT ![to] = @ + amount]

peerVars == <<ownershipVars, issuerVars, policies, verifierVars>>

-----------------------------------------------------------------------------
\* The policy exists and the proof was made for it, action kind and epoch included.
SignalsMatchPolicy(s, p, action, epoch) ==
  /\ policies[p] # None
  /\ s.issuer = policies[p].issuer
  /\ s.policy = p
  /\ s.terms = policies[p].terms
  /\ s.action = action
  /\ s.epoch = epoch

\* Faulty: the amount signal is not compared.
SignalsMatchActionFaulty(s, req) ==
  /\ s.asset = req.asset
  /\ s.recipient = req.recipient
  /\ s.actionId = req.actionId

\* The proof is bound to the action the call asks for.
SignalsMatchAction(s, req) ==
  /\ s.asset = req.asset
  /\ s.amount = AsU128(req.amount)
  /\ s.recipient = req.recipient
  /\ s.actionId = req.actionId

\* Faulty: the sanctions root is not compared.
RootsWithoutSanctions(s) ==
  /\ root[s.issuer] # None           /\ s.credentialRoot = root[s.issuer]
  /\ revocationRoot[s.issuer] # None /\ s.revocationRoot = revocationRoot[s.issuer]

\* The three roots of the proof are the ones in force, and each is set.
RootsInForce(s) ==
  /\ root[s.issuer] # None          /\ s.credentialRoot = root[s.issuer]
  /\ sanctionsRoot # None           /\ s.sanctionsRoot = sanctionsRoot
  /\ revocationRoot[s.issuer] # None /\ s.revocationRoot = revocationRoot[s.issuer]

\* The policy names the circuit of the verifying key, and the proof verifies.
ProofAccepted(s, p) ==
  /\ vk = policies[p].circuit
  /\ Verify(s)

=============================================================================
