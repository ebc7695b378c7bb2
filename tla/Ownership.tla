------------------------------ MODULE Ownership ------------------------------
(***************************************************************************)
(* The admin of each contract, and the pause switch of the three that have *)
(* one.  Every contract carries its own copy of the same require_admin and *)
(* transfer_admin; the copies differ only in the storage they act on, so   *)
(* the storage is a function of the contract.                              *)
(*                                                                         *)
(* A contract call is one Soroban transaction: an Err or a trap anywhere   *)
(* in it reverts every write, so a call that fails is a stuttering step    *)
(* and a handler is enabled exactly when it returns Ok.                    *)
(***************************************************************************)
CONSTANTS
  Gates,            \* the proof-checking contracts that are deployed
  Principals,       \* addresses that can administer a contract
  Deployer          \* the address every init call names as admin

VARIABLES
  admin,            \* [Contracts -> Principals], storage key Admin
  paused            \* [Pausable -> BOOLEAN], storage key Paused

ownershipVars == <<admin, paused>>

PaymentGate == "gate_payment"
RwaGate     == "gate_rwa"
Identity    == "identity_verifier"
Adapter     == "rwa_compliance_adapter"

Pausable  == Gates
Contracts == Gates \cup {Adapter, "issuer_registry", "policy_registry",
                         "nullifier_registry", "verifier"}

ASSUME OwnershipAssumption ==
  /\ Gates \subseteq {PaymentGate, RwaGate, Identity}
  /\ Deployer \in Principals

OwnershipTypeOK ==
  /\ admin \in [Contracts -> Principals]
  /\ paused \in [Pausable -> BOOLEAN]

OwnershipInit ==
  /\ admin = [c \in Contracts |-> Deployer]
  /\ paused = [c \in Pausable |-> FALSE]

RequireAdmin(c, by) == c \in Contracts /\ admin[c] = by

\* Faulty: the caller need not be the admin.
TransferAdminFaulty(c, by, to) ==
  /\ c \in Contracts
  /\ admin' = [admin EXCEPT ![c] = to]
  /\ UNCHANGED paused

TransferAdmin(c, by, to) ==
  /\ RequireAdmin(c, by)
  /\ admin' = [admin EXCEPT ![c] = to]
  /\ UNCHANGED paused

\* Faulty: the switch is not read.
EnsureNotPausedFaulty(c) == c \in Pausable

EnsureNotPaused(c) == c \in Pausable /\ ~paused[c]

SetPaused(c, by, value) ==
  /\ RequireAdmin(c, by)
  /\ paused' = [paused EXCEPT ![c] = value]
  /\ UNCHANGED admin

=============================================================================
