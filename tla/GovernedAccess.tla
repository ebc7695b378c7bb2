--------------------------- MODULE GovernedAccess ---------------------------
(***************************************************************************)
(* The access layer with the governance contract as the admin to be: the   *)
(* deployer hands contracts over with transfer_admin, and what becomes of  *)
(* them afterwards goes through a proposal.  An executed proposal calls    *)
(* the handler of its target in the same transaction; a target that has no *)
(* such handler, or refuses, reverts the whole execute.                    *)
(***************************************************************************)
EXTENDS AccessLayer, GovernanceProperties

CONSTANT Council    \* the address of the governance contract

ASSUME CouncilAssumption == Council \in Principals

\* A call has its kind, its target, and the fields that its kind needs.
ASSUME CallAssumption ==
  /\ \A c \in Calls : c.target \in Contracts
  /\ EmergencyCalls = {c \in Calls : c.kind \in {"Pause", "Unpause", "RevokeGate"}}

governedVars == <<vars, govVars>>

-----------------------------------------------------------------------------
PerformOwnership(c) ==
  /\ \/ c.kind = "TransferAdmin" /\ TransferAdmin(c.target, Council, c.to)
     \/ c.kind = "Pause" /\ c.target \in Pausable /\ SetPaused(c.target, Council, TRUE)
     \/ c.kind = "Unpause" /\ c.target \in Pausable /\ SetPaused(c.target, Council, FALSE)
  /\ UNCHANGED <<issuerVars, policies, nullifierVars, verifierVars>>

PerformIssuer(c) ==
  /\ c.target = "issuer_registry"
  /\ \/ c.kind = "SetCredentialRoot" /\ SetRoot(Council, c.issuer, c.root)
     \/ c.kind = "SetSanctionsRoot" /\ SetSanctionsRoot(Council, c.root)
     \/ c.kind = "SetRevocationRoot" /\ SetRevocationRoot(Council, c.issuer, c.root)
  /\ UNCHANGED <<ownershipVars, policies, nullifierVars, verifierVars>>

PerformPolicy(c) ==
  /\ c.target = "policy_registry"
  /\ c.kind = "SetPolicy" /\ SetPolicy(Council, c.id, c.policy)
  /\ UNCHANGED <<ownershipVars, issuerVars, nullifierVars, verifierVars>>

PerformNullifier(c) ==
  /\ c.target = "nullifier_registry"
  /\ \/ c.kind = "AllowGate" /\ AllowGate(Council, c.gate)
     \/ c.kind = "RevokeGate" /\ RevokeGate(Council, c.gate)
  /\ UNCHANGED <<ownershipVars, issuerVars, policies, verifierVars>>

PerformVerifier(c) ==
  /\ c.target = "verifier"
  /\ c.kind = "FreezeVk" /\ FreezeVk(Council)
  /\ UNCHANGED <<ownershipVars, issuerVars, policies, nullifierVars>>

Perform(c) ==
  /\ \/ PerformOwnership(c) \/ PerformIssuer(c) \/ PerformPolicy(c)
     \/ PerformNullifier(c) \/ PerformVerifier(c)
  /\ UNCHANGED <<approvals, paymentVars, rwaVars, identityVars, adapterVars>>

ExecuteGoverned(id) ==
  /\ Execute(id)
  /\ IF proposals[id].action \in Calls THEN Perform(proposals[id].action) ELSE UNCHANGED vars

\* The governance contract signs nothing but what a proposal executes.
GovernanceStep ==
  \/ \E id \in DOMAIN proposals : ExecuteGoverned(id)
  \/ /\ \/ \E c \in Configs : Initialize(c)
        \/ \E s \in Addresses, a \in Actions, emergency \in BOOLEAN : Propose(s, a, emergency)
        \/ \E s \in Addresses, id \in DOMAIN proposals : Approve(s, id)
        \/ CloseLedgers
     /\ UNCHANGED vars

AccessStep ==
  /\ UserStep \/ \E by \in Principals \ {Council} : AdminStep(by)
  /\ UNCHANGED govVars

GovernedNext == GovernanceStep \/ AccessStep

GovernedInit == (Init \/ DeployedInit) /\ GovInit

GovernedSpec == GovernedInit /\ [][GovernedNext]_governedVars

-----------------------------------------------------------------------------
Governed(c) == admin[c] = Council

\* What the actions of governance can set, by contract.
OwnSettings ==
  [issuer_registry |-> issuerVars, policy_registry |-> <<policies>>,
   nullifier_registry |-> <<gateAllowed>>, verifier |-> <<frozen>>,
   gate_payment |-> <<>>, gate_rwa |-> <<>>, identity_verifier |-> <<>>,
   rwa_compliance_adapter |-> <<>>]

Settings(c) == <<admin[c], c \in Pausable /\ paused[c], OwnSettings[c]>>

(* After the cutover the settings of a contract change only by a proposal  *)
(* about that contract, with the approvals and the delay of its path; an   *)
(* emergency reaches no more than a switch or a gate.  Whoever was admin   *)
(* before, and whatever users and the rules do, nothing else changes them. *)
ChangedByProposal ==
  \A c \in Contracts :
    Governed(c) /\ Settings(c)' # Settings(c) =>
      \E id \in DOMAIN proposals :
        /\ executions' = Append(executions, id)
        /\ proposals[id].action \in Calls /\ proposals[id].action.target = c
        /\ Cardinality(Approvers(id)) >= Required(proposals[id])
        /\ ledger >= proposals[id].eta
        /\ proposals[id].emergency => UNCHANGED <<admin, issuerVars, policies, verifierVars>>

(* What no action of governance names is as it was when its contract was   *)
(* handed over: the key, the payees, the tokens, the mint consumers.       *)
Unreachable ==
  /\ Governed("verifier") => UNCHANGED vk
  /\ Governed(Adapter) => UNCHANGED boundTokens
  /\ (PaymentGate \in Gates /\ Governed(PaymentGate)) => UNCHANGED <<token, recipient>>
  /\ (Identity \in Gates /\ Governed(Identity)) => UNCHANGED identityConfig

GovernedByProposal == [][ChangedByProposal /\ Unreachable]_governedVars

=============================================================================
