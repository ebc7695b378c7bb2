---------------------------- MODULE MCGovernance ----------------------------
(***************************************************************************)
(* Instances of the governance contract for TLC, in two parts: its own     *)
(* rules, and the contracts it becomes the admin of.  A behaviour is one   *)
(* part, which it chooses first.                                           *)
(***************************************************************************)
EXTENDS GovernedAccess, TLC

CONSTANTS Parts, a, b, c, issuer, terms, action, c1, bond

VARIABLE part

MCRules(signers, threshold, delay) ==
  [signers |-> signers, threshold |-> threshold, delay |-> delay,
   emergencyThreshold |-> 1, emergencyDelay |-> 0]

MCBoth  == MCRules(<<a, b>>, 2, 1)
MCAlone == MCRules(<<a>>, 1, 2)
MCTwice == MCRules(<<a, a>>, 2, 0)

\* Signer b can be removed and added again; the last rules must be refused.
MCConfigs == {MCBoth, MCAlone, MCTwice}

\* Signer b is replaced by signer c.
MCHandOver == {MCBoth, MCRules(<<a, c>>, 2, 1)}

-----------------------------------------------------------------------------
MCPolicy(circuit) == [issuer |-> issuer, circuit |-> circuit, terms |-> terms]

MCPause == [kind |-> "Pause", target |-> PaymentGate]
MCBack  == [kind |-> "TransferAdmin", target |-> PaymentGate, to |-> Deployer]

\* The settings of every contract; the verifier has no switch.
MCCalls ==
  {MCPause, MCBack,
   [kind |-> "Unpause", target |-> PaymentGate],
   [kind |-> "Pause", target |-> "verifier"],
   [kind |-> "SetCredentialRoot", target |-> "issuer_registry", issuer |-> issuer, root |-> {}],
   [kind |-> "SetSanctionsRoot", target |-> "issuer_registry", root |-> {}],
   [kind |-> "SetRevocationRoot", target |-> "issuer_registry", issuer |-> issuer, root |-> {}],
   [kind |-> "SetPolicy", target |-> "policy_registry", id |-> action, policy |-> MCPolicy(c1)],
   [kind |-> "AllowGate", target |-> "nullifier_registry", gate |-> PaymentGate],
   [kind |-> "RevokeGate", target |-> "nullifier_registry", gate |-> PaymentGate],
   [kind |-> "FreezeVk", target |-> "verifier"]}

MCOnlyPause == {MCPause}

MCEmergencies == {call \in MCCalls : call.kind \in {"Pause", "Unpause", "RevokeGate"}}

\* The order of docs/GOVERNANCE.md.
Handed == <<"verifier", "issuer_registry", "policy_registry", "nullifier_registry", Adapter, PaymentGate>>

\* Up to the gate nothing is proposed, and the deployer only hands over what
\* is its own; the gate it can set up, before and after governance had it.
MCHandedOver ==
  /\ \A k \in 1 .. Len(Handed) - 1 : Governed(Handed[k + 1]) => Governed(Handed[k])
  /\ Len(proposals) > 0 => Governed(Adapter)
  /\ ~Governed(Adapter) => token[bond] = None /\ ~paused[PaymentGate]
  /\ proposals = <<>> => gateAllowed = {} /\ vk = c1 /\ ~frozen /\ sanctionsRoot = None
                         /\ root[issuer] = None /\ revocationRoot[issuer] = None
                         /\ policies[action] = None

\* In the rules every call is the same, and one proposal on a call is enough.
RulesBounds ==
  /\ \A id \in DOMAIN proposals : proposals[id].action \in Configs \cup {MCPause}
  /\ \A id, other \in DOMAIN proposals :
       proposals[id].action = MCPause /\ proposals[other].action = MCPause => id = other

\* One proposal is on any call; a later one takes the gate back or is on the
\* rules.
CutoverBounds ==
  /\ config = MCAlone => executions # <<>>
  /\ Len(proposals) <= 2
  /\ Len(proposals) = 2 => proposals[2].action \in {MCBack, MCAlone}
  /\ MCHandedOver

RulesNext == part = "rules" /\ GovNext /\ RulesBounds' /\ UNCHANGED <<vars, part>>

CutoverNext == part = "cutover" /\ GovernedNext /\ CutoverBounds' /\ UNCHANGED part

MCInit ==
  /\ part \in Parts
  /\ GovInit
  /\ OwnershipInit /\ IssuerInit /\ PolicyInit /\ NullifierInit
  /\ vk = c1 /\ frozen = FALSE
  /\ ApprovalsInit /\ PaymentInit /\ RwaInit /\ IdentityInit /\ AdapterInit

MCSpec == MCInit /\ [][RulesNext \/ CutoverNext]_<<governedVars, part>>

=============================================================================
