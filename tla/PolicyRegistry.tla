--------------------------- MODULE PolicyRegistry ---------------------------
(***************************************************************************)
(* contracts/policy_registry: the policy a gate checks a proof against.    *)
(* set_policy overwrites: a policy may change between two proofs.          *)
(***************************************************************************)
EXTENDS Eligibility, Ownership

VARIABLE policies   \* [PolicyIds -> Policy or None], storage key Policy

Policy == [issuer : Issuers, circuit : Circuits, terms : Terms]

ASSUME PolicyAssumption == None \notin Policy

PolicyTypeOK == policies \in [PolicyIds -> Policy \cup {None}]

PolicyInit == policies = [p \in PolicyIds |-> None]

SetPolicy(by, p, policy) ==
  /\ RequireAdmin("policy_registry", by)
  /\ policies' = [policies EXCEPT ![p] = policy]

=============================================================================
