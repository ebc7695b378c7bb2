--------------------------- MODULE IssuerRegistry ---------------------------
(***************************************************************************)
(* contracts/issuer_registry: the three roots in force.  A rotation is     *)
(* three separate transactions, one per root.                              *)
(***************************************************************************)
EXTENDS Eligibility, Ownership

VARIABLES
  root,             \* [Issuers -> CredentialSets or None], storage key Root
  sanctionsRoot,    \* DenySets or None, storage key SanctionsRoot
  revocationRoot    \* [Issuers -> RevokedSets or None], storage key RevocationRoot

issuerVars == <<root, sanctionsRoot, revocationRoot>>

IssuerTypeOK ==
  /\ root \in [Issuers -> CredentialSets \cup {None}]
  /\ sanctionsRoot \in DenySets \cup {None}
  /\ revocationRoot \in [Issuers -> RevokedSets \cup {None}]

IssuerInit ==
  /\ root = [i \in Issuers |-> None]
  /\ sanctionsRoot = None
  /\ revocationRoot = [i \in Issuers |-> None]

SetRoot(by, i, r) ==
  /\ RequireAdmin("issuer_registry", by)
  /\ root' = [root EXCEPT ![i] = r]
  /\ UNCHANGED <<sanctionsRoot, revocationRoot>>

SetSanctionsRoot(by, r) ==
  /\ RequireAdmin("issuer_registry", by)
  /\ sanctionsRoot' = r
  /\ UNCHANGED <<root, revocationRoot>>

SetRevocationRoot(by, i, r) ==
  /\ RequireAdmin("issuer_registry", by)
  /\ revocationRoot' = [revocationRoot EXCEPT ![i] = r]
  /\ UNCHANGED <<root, sanctionsRoot>>

=============================================================================
