-------------------------- MODULE IdentityVerifier --------------------------
(***************************************************************************)
(* contracts/identity_verifier: eligibility attestations with an expiry,   *)
(* and one-time authorizations to mint an exact amount of an RWA token to  *)
(* an account.  Attestations and authorizations outlive the proof; the     *)
(* clock, the admin and later proofs act between their writing and use.    *)
(***************************************************************************)
EXTENDS ProofChecks

CONSTANTS
  RwaTokens,        \* RWA token contracts
  OtherConsumers,   \* addresses other than the adapter that may be mint consumers
  TimeMax,          \* u64::MAX seconds, where saturating_add stops
  MaxAttestationTtl \* MAX_ATTESTATION_TTL, in seconds

ASSUME TimeAssumption == TimeMax \in Nat /\ MaxAttestationTtl \in Nat

ASSUME RwaTokenAssumption == None \notin RwaTokens

Time == 0 .. TimeMax
Consumers == {Adapter} \cup OtherConsumers
MintKeys == Consumers \X RwaTokens \X Accounts

VARIABLES
  now,              \* env.ledger().timestamp()
  rwaToken,         \* [Assets -> RwaTokens or None], storage key RwaToken
  rwaRecipient,     \* [RecipientIds -> Accounts or None], storage key RwaRecipient
  mintConsumer,     \* the consumers whose entry MintConsumer is set
  attestation,      \* [Accounts -> Time or None], storage key Attestation
  mintAuthorization,\* [MintKeys -> MintAuth or None], storage key MintAuthorization
  consumed          \* [Nullifiers -> Seq]: RwaMintAuthorizationConsumed events, by
                    \* the nullifier of the authorization they remove

identityConfig == <<rwaToken, rwaRecipient, mintConsumer>>
identityVars == <<now, identityConfig, attestation, mintAuthorization, consumed>>

MintAuth == [amount : I128, validUntil : Time, nullifier : Nullifiers]

ASSUME MintAuthAssumption == None \notin Time /\ None \notin MintAuth

Consumption == [key : MintKeys, amount : I128, at : Time]

IdentityTypeOK ==
  /\ now \in Time
  /\ rwaToken \in [Assets -> RwaTokens \cup {None}]
  /\ rwaRecipient \in [RecipientIds -> Accounts \cup {None}]
  /\ mintConsumer \subseteq Consumers
  /\ attestation \in [Accounts -> Time \cup {None}]
  /\ mintAuthorization \in [MintKeys -> MintAuth \cup {None}]
  /\ consumed \in [Nullifiers -> Seq(Consumption)]

IdentityInit ==
  /\ now = 0
  /\ rwaToken = [a \in Assets |-> None]
  /\ rwaRecipient = [r \in RecipientIds |-> None]
  /\ mintConsumer = {}
  /\ attestation = [a \in Accounts |-> None]
  /\ mintAuthorization = [k \in MintKeys |-> None]
  /\ consumed = [n \in Nullifiers |-> << >>]

-----------------------------------------------------------------------------
SetRwaToken(by, a, t) ==
  /\ RequireAdmin(Identity, by)
  /\ rwaToken[a] = None
  /\ rwaToken' = [rwaToken EXCEPT ![a] = t]
  /\ UNCHANGED <<rwaRecipient, mintConsumer>>

SetRwaRecipient(by, r, account) ==
  /\ RequireAdmin(Identity, by)
  /\ rwaRecipient[r] = None
  /\ rwaRecipient' = [rwaRecipient EXCEPT ![r] = account]
  /\ UNCHANGED <<rwaToken, mintConsumer>>

AllowMintConsumer(by, c) ==
  /\ RequireAdmin(Identity, by)
  /\ mintConsumer' = mintConsumer \cup {c}
  /\ UNCHANGED <<rwaToken, rwaRecipient>>

RevokeMintConsumer(by, c) ==
  /\ RequireAdmin(Identity, by)
  /\ mintConsumer' = mintConsumer \ {c}
  /\ UNCHANGED <<rwaToken, rwaRecipient>>

\* min(valid_until, now.saturating_add(MAX_ATTESTATION_TTL)).
CappedExpiry(validUntil) ==
  LET limit == IF now + MaxAttestationTtl > TimeMax THEN TimeMax
                                                    ELSE now + MaxAttestationTtl
  IN  IF validUntil < limit THEN validUntil ELSE limit

\* validate_rwa_proof: the asset, amount, recipient and action are not looked at.
ValidateRwaProof(s, p, epoch) ==
  /\ SignalsMatchPolicy(s, p, Rwa, epoch)
  /\ RootsInForce(s)
  /\ ~IsUsed(Nullifier(s))
  /\ ProofAccepted(s, p)

\* attest: any account that signs the call can be attested by a proof.
Attest(account, s, p, epoch, validUntil) ==
  /\ EnsureNotPaused(Identity)
  /\ ValidateRwaProof(s, p, epoch)
  /\ attestation' = [attestation EXCEPT ![account] = CappedExpiry(validUntil)]
  /\ MarkUsed(Identity, Nullifier(s))
  /\ PublishApproval([gate |-> Identity, kind |-> "attested", statement |-> s,
                      amount |-> 0, circuit |-> vk, account |-> account])
  /\ UNCHANGED <<now, identityConfig, mintAuthorization, consumed, peerVars>>

\* attest_for_mint: the account must be the one mapped to the proof's recipient.
AttestForMint(account, consumer, s, req, termsHash, validUntil) ==
  /\ EnsureNotPaused(Identity)
  /\ req.amount > 0
  /\ ValidateRwaProof(s, req.policy, req.epoch)
  /\ SignalsMatchAction(s, req)
  /\ termsHash = BoundHash(s)
  /\ rwaToken[req.asset] # None
  /\ rwaRecipient[req.recipient] = account
  /\ consumer \in mintConsumer
  /\ LET key == <<consumer, rwaToken[req.asset], account>> IN
     /\ mintAuthorization[key] = None
     /\ mintAuthorization' = [mintAuthorization EXCEPT ![key] =
          [amount |-> req.amount, validUntil |-> CappedExpiry(validUntil),
           nullifier |-> Nullifier(s)]]
  /\ attestation' = [attestation EXCEPT ![account] = CappedExpiry(validUntil)]
  /\ MarkUsed(Identity, Nullifier(s))
  /\ PublishApproval([gate |-> Identity, kind |-> "authorized", statement |-> s,
                      amount |-> req.amount, circuit |-> vk, account |-> account])
  /\ UNCHANGED <<now, identityConfig, consumed, peerVars>>

\* Faulty: the amount, or the expiry, is not compared.
UsableForAnyAmount(authorization, amount) ==
  authorization # None /\ now <= authorization.validUntil

UsableForEver(authorization, amount) ==
  authorization # None /\ authorization.amount = amount

Usable(authorization, amount) ==
  /\ authorization # None
  /\ now <= authorization.validUntil
  /\ authorization.amount = amount

\* Faulty: the entry is left where it is.
RemoveAuthorizationFaulty(key) == UNCHANGED mintAuthorization

RemoveAuthorization(key) ==
  mintAuthorization' = [mintAuthorization EXCEPT ![key] = None]

\* consume_mint_authorization: an expired one stays where it is.
ConsumeMintAuthorization(consumer, t, account, amount) ==
  LET key == <<consumer, t, account>>
      authorization == mintAuthorization[key]
  IN
  /\ EnsureNotPaused(Identity)
  /\ amount > 0
  /\ consumer \in mintConsumer
  /\ Usable(authorization, amount)
  /\ RemoveAuthorization(key)
  /\ consumed' = [consumed EXCEPT ![authorization.nullifier] =
                    Append(@, [key |-> key, amount |-> amount, at |-> now])]
  /\ UNCHANGED <<now, identityConfig, attestation>>

\* verify_identity returns Ok.
VerifyIdentity(account) ==
  /\ EnsureNotPaused(Identity)
  /\ attestation[account] # None
  /\ now <= attestation[account]

\* A ledger closes; the clock stops at the model's last instant.
CloseLedger ==
  /\ now < TimeMax
  /\ now' = now + 1
  /\ UNCHANGED <<identityConfig, attestation, mintAuthorization, consumed>>

=============================================================================
