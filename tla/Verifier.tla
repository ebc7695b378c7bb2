------------------------------ MODULE Verifier ------------------------------
(***************************************************************************)
(* contracts/verifier: the verifying key proofs are checked under, until   *)
(* freeze_vk pins it.  A key stands for the circuit it was generated for:  *)
(* a proof verifies exactly when it was made for that circuit and its      *)
(* statement has a witness (soundness and completeness of Groth16).        *)
(***************************************************************************)
EXTENDS Eligibility, Ownership

VARIABLES
  vk,               \* Circuits or None, storage keys Vk, CircuitId, CircuitVersion
  frozen            \* BOOLEAN, storage key Frozen

verifierVars == <<vk, frozen>>

VerifierTypeOK ==
  /\ vk \in Circuits \cup {None}
  /\ frozen \in BOOLEAN

VerifierInit ==
  /\ vk = None
  /\ frozen = FALSE

\* Faulty: the frozen flag is not read.
SetVkFaulty(by, circuit) ==
  /\ RequireAdmin("verifier", by)
  /\ vk' = circuit
  /\ UNCHANGED frozen

SetVk(by, circuit) ==
  /\ RequireAdmin("verifier", by)
  /\ ~frozen
  /\ vk' = circuit
  /\ UNCHANGED frozen

FreezeVk(by) ==
  /\ RequireAdmin("verifier", by)
  /\ vk # None
  /\ frozen' = TRUE
  /\ UNCHANGED vk

Verify(s) ==
  /\ vk # None
  /\ s.circuit = vk
  /\ Provable(s)

=============================================================================
