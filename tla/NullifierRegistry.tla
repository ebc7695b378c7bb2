-------------------------- MODULE NullifierRegistry --------------------------
(***************************************************************************)
(* contracts/nullifier_registry: the spent nullifiers of every gate, and   *)
(* the gates allowed to spend one.                                         *)
(***************************************************************************)
EXTENDS Eligibility, Ownership

VARIABLES
  gateAllowed,      \* the gates whose storage entry Gate(gate) is set
  used              \* the nullifiers whose storage entry exists

nullifierVars == <<gateAllowed, used>>

NullifierTypeOK ==
  /\ gateAllowed \subseteq Gates
  /\ used \subseteq Nullifiers

NullifierInit ==
  /\ gateAllowed = {}
  /\ used = {}

AllowGate(by, gate) ==
  /\ RequireAdmin("nullifier_registry", by)
  /\ gateAllowed' = gateAllowed \cup {gate}
  /\ UNCHANGED used

RevokeGate(by, gate) ==
  /\ RequireAdmin("nullifier_registry", by)
  /\ gateAllowed' = gateAllowed \ {gate}
  /\ UNCHANGED used

IsUsed(n) == n \in used

\* Faulty: the entry is not written.
MarkUsedFaulty(gate, n) ==
  /\ gate \in gateAllowed
  /\ ~IsUsed(n)
  /\ UNCHANGED nullifierVars

\* The gate calls this itself, which is the authorization require_auth asks for.
MarkUsed(gate, n) ==
  /\ gate \in gateAllowed
  /\ ~IsUsed(n)
  /\ used' = used \cup {n}
  /\ UNCHANGED gateAllowed

=============================================================================
