----------------------------- MODULE Eligibility -----------------------------
(***************************************************************************)
(* The statement an AnchorShield proof makes, and the relation the circuit *)
(* circuits/eligibility.circom enforces on it.                             *)
(*                                                                         *)
(* A proof and its 19 public signals are one record, a statement.  Hashes  *)
(* are injective, so a Merkle root is the set it commits to, a nullifier   *)
(* is the triple that is hashed, and the prover's identity (user_secret)   *)
(* is visible in a statement only through its nullifier.                   *)
(***************************************************************************)
EXTENDS Integers

CONSTANTS
  Persons,          \* holders of a user_secret
  Issuers,          \* issuer_id
  PolicyIds,        \* policy_id
  Terms,            \* values of the policy's kyc, country, age, investor fields
  Epochs,           \* epoch (a set of integers)
  Assets,           \* asset_id
  RecipientIds,     \* recipient_id
  ActionIds,        \* action_id
  Packets,          \* originator and beneficiary of a Travel-Rule or terms packet
  Circuits,         \* a circuit id together with its version
  Credentials,      \* the credentials the issuers have ever signed
  CredentialSets,   \* what a credential root can commit to
  DenySets,         \* what the sanctions root can commit to
  RevokedSets,      \* what a revocation root can commit to
  Word,             \* 2^128: the width of a u128, and of the two's complement i128
  None              \* an Option's None, an absent storage entry

CONSTANT Statements \* the statements provers submit

Payment == "payment"        \* action_type 0
Rwa     == "rwa"            \* action_type 1

I128 == -(Word \div 2) .. (Word \div 2) - 1
U128 == 0 .. Word - 1

Credential == [person : Persons, issuer : Issuers, meets : SUBSET Terms,
               limit : U128, issued : Int, expires : Int]

Nullifiers == Persons \X PolicyIds \X Epochs

Statement == [person : Persons, issuer : Issuers, policy : PolicyIds,
              terms : Terms, action : {Payment, Rwa}, asset : Assets,
              amount : U128, recipient : RecipientIds, actionId : ActionIds,
              packet : Packets, epoch : Epochs, credentialRoot : CredentialSets,
              sanctionsRoot : DenySets, revocationRoot : RevokedSets,
              circuit : Circuits]

ASSUME WordAssumption == Word \in Nat /\ Word >= 2 /\ Word % 2 = 0

ASSUME DataAssumption ==
  /\ Credentials \subseteq Credential
  /\ CredentialSets \subseteq SUBSET Credentials
  /\ DenySets \subseteq SUBSET (Persons \X Issuers)
  /\ RevokedSets \subseteq SUBSET Credentials
  /\ Epochs \subseteq Int
  /\ Statements \subseteq Statement

ASSUME NoneAssumption ==
  /\ None \notin CredentialSets
  /\ None \notin DenySets
  /\ None \notin RevokedSets
  /\ None \notin Circuits

-----------------------------------------------------------------------------
\* `amount as u128` of an i128.
AsU128(a) == IF a >= 0 THEN a ELSE a + Word

\* One spend per person, policy and epoch, whatever the action is.
Nullifier(s) == <<s.person, s.policy, s.epoch>>

\* packet_hash, which the RWA contracts call terms_hash: signal 1.  The corridor
\* in it is the country of the terms.
BoundHash(s) == <<s.packet, s.amount, s.terms, s.actionId>>

\* Credential c entitles its holder to the terms, amount and epoch of s.
Entitles(c, s) ==
  /\ c.person = s.person
  /\ c.issuer = s.issuer
  /\ s.terms \in c.meets
  /\ s.amount <= c.limit
  /\ c.issued <= s.epoch
  /\ s.epoch <= c.expires

\* A witness exists for s: the constraint system of eligibility.circom.
Provable(s) ==
  \E c \in s.credentialRoot :
    /\ Entitles(c, s)
    /\ <<s.person, s.issuer>> \notin s.sanctionsRoot
    /\ c \notin s.revocationRoot

=============================================================================
