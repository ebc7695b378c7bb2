----------------------------- MODULE AccessLayer -----------------------------
(***************************************************************************)
(* The eight contracts of the access layer on one ledger.  Every action is *)
(* one transaction that succeeds; transactions of users, payees, the token *)
(* and the admins come in any order.                                       *)
(***************************************************************************)
EXTENDS GatePayment, GateRwa, ComplianceAdapter

CONSTANT ValidUntils    \* the valid_until arguments of the attesting calls

\* The packet_hash and terms_hash arguments.
BoundHashes == {BoundHash(s) : s \in Statements}

ASSUME ValidUntilAssumption == ValidUntils \subseteq Time

vars == <<ownershipVars, issuerVars, policies, nullifierVars, verifierVars,
          approvals, paymentVars, rwaVars, identityVars, adapterVars>>

TypeOK ==
  /\ OwnershipTypeOK /\ IssuerTypeOK /\ PolicyTypeOK /\ NullifierTypeOK
  /\ VerifierTypeOK /\ ApprovalsTypeOK /\ PaymentTypeOK /\ RwaTypeOK
  /\ IdentityTypeOK /\ AdapterTypeOK

\* Every contract has just been deployed and its init called.
Init ==
  /\ OwnershipInit /\ IssuerInit /\ PolicyInit /\ NullifierInit
  /\ VerifierInit /\ ApprovalsInit /\ PaymentInit /\ RwaInit
  /\ IdentityInit /\ AdapterInit

\* What the deployment script leaves: a frozen key, roots and policies set, the
\* gates allowed, every id mapped, the adapter bound and allowed, nothing spent.
OneOf(S) == IF S = {} THEN None ELSE CHOOSE x \in S : TRUE

DeployedInit ==
  /\ OwnershipInit
  /\ root \in [Issuers -> CredentialSets]
  /\ sanctionsRoot \in DenySets
  /\ revocationRoot \in [Issuers -> RevokedSets]
  /\ policies \in [PolicyIds -> Policy]
  /\ gateAllowed = Gates /\ used = {}
  /\ vk \in Circuits /\ frozen = TRUE
  /\ ApprovalsInit
  /\ token = [a \in Assets |-> OneOf(PayTokens)]
  /\ recipient = [r \in RecipientIds |-> OneOf(Accounts)]
  /\ balance = [t \in PayTokens |-> [h \in Holders |-> 0]]
  /\ RwaInit
  /\ now = 0
  /\ rwaToken = [a \in Assets |-> OneOf(RwaTokens)]
  /\ rwaRecipient = [r \in RecipientIds |-> OneOf(Accounts)]
  /\ mintConsumer = {Adapter}
  /\ attestation = [a \in Accounts |-> None]
  /\ mintAuthorization = [k \in MintKeys |-> None]
  /\ consumed = [n \in Nullifiers |-> << >>]
  /\ boundTokens = RwaTokens
  /\ shares = [t \in RwaTokens |-> [a \in Accounts |-> 0]]

-----------------------------------------------------------------------------
(* The admin transactions of each contract, signed by a principal.         *)

OwnershipAdmin(by) ==
  /\ \/ \E c \in Contracts, to \in Principals : TransferAdmin(c, by, to)
     \/ \E c \in Pausable, value \in BOOLEAN : SetPaused(c, by, value)
  /\ UNCHANGED <<issuerVars, policies, nullifierVars, verifierVars, approvals,
                 paymentVars, rwaVars, identityVars, adapterVars>>

IssuerAdmin(by) ==
  /\ \/ \E i \in Issuers, r \in CredentialSets : SetRoot(by, i, r)
     \/ \E r \in DenySets : SetSanctionsRoot(by, r)
     \/ \E i \in Issuers, r \in RevokedSets : SetRevocationRoot(by, i, r)
  /\ UNCHANGED <<ownershipVars, policies, nullifierVars, verifierVars, approvals,
                 paymentVars, rwaVars, identityVars, adapterVars>>

PolicyAdmin(by) ==
  /\ \E p \in PolicyIds, policy \in Policy : SetPolicy(by, p, policy)
  /\ UNCHANGED <<ownershipVars, issuerVars, nullifierVars, verifierVars, approvals,
                 paymentVars, rwaVars, identityVars, adapterVars>>

NullifierAdmin(by) ==
  /\ \E gate \in Gates : AllowGate(by, gate) \/ RevokeGate(by, gate)
  /\ UNCHANGED <<ownershipVars, issuerVars, policies, verifierVars, approvals,
                 paymentVars, rwaVars, identityVars, adapterVars>>

VerifierAdmin(by) ==
  /\ FreezeVk(by) \/ \E c \in Circuits : SetVk(by, c)
  /\ UNCHANGED <<ownershipVars, issuerVars, policies, nullifierVars, approvals,
                 paymentVars, rwaVars, identityVars, adapterVars>>

PaymentAdmin(by) ==
  /\ \/ \E a \in Assets, t \in PayTokens : SetToken(by, a, t)
     \/ \E r \in RecipientIds, account \in Accounts : SetRecipient(by, r, account)
  /\ UNCHANGED <<ownershipVars, issuerVars, policies, nullifierVars, verifierVars,
                 approvals, rwaVars, identityVars, adapterVars>>

RwaAdmin(by) ==
  /\ \E a \in Assets, req \in Requests : Fund(by, a, req.amount)
  /\ UNCHANGED <<ownershipVars, issuerVars, policies, nullifierVars, verifierVars,
                 approvals, paymentVars, identityVars, adapterVars>>

IdentityAdmin(by) ==
  /\ \/ \E a \in Assets, t \in RwaTokens : SetRwaToken(by, a, t)
     \/ \E r \in RecipientIds, account \in Accounts : SetRwaRecipient(by, r, account)
     \/ \E c \in Consumers : AllowMintConsumer(by, c) \/ RevokeMintConsumer(by, c)
  /\ UNCHANGED <<ownershipVars, issuerVars, policies, nullifierVars, verifierVars,
                 approvals, paymentVars, rwaVars, now, attestation,
                 mintAuthorization, consumed, adapterVars>>

AdapterAdmin(by) ==
  /\ \E t \in RwaTokens : BindToken(by, t) \/ UnbindToken(by, t)
  /\ UNCHANGED <<ownershipVars, issuerVars, policies, nullifierVars, verifierVars,
                 approvals, paymentVars, rwaVars, identityVars>>

AdminStep(by) ==
  \/ OwnershipAdmin(by) \/ IssuerAdmin(by) \/ PolicyAdmin(by)
  \/ NullifierAdmin(by) \/ VerifierAdmin(by) \/ PaymentAdmin(by)
  \/ RwaAdmin(by) \/ IdentityAdmin(by) \/ AdapterAdmin(by)

-----------------------------------------------------------------------------
(* The transactions of everybody else.                                     *)

Pay ==
  /\ \E s \in Statements, req \in Requests :
       \E h \in BoundHashes : VerifyAndPay(s, req, h)
  /\ UNCHANGED <<rwaVars, identityVars, adapterVars>>

TransferRwa ==
  /\ \E s \in Statements, req \in Requests :
       \E h \in BoundHashes : VerifyAndTransfer(s, req, h)
  /\ UNCHANGED <<paymentVars, identityVars, adapterVars>>

AttestAccount ==
  /\ \E account \in Accounts, s \in Statements, v \in ValidUntils :
       \E p \in PolicyIds, e \in Epochs : Attest(account, s, p, e, v)
  /\ UNCHANGED <<paymentVars, rwaVars, adapterVars>>

AuthorizeMint ==
  /\ \E account \in Accounts, c \in Consumers, s \in Statements, req \in Requests :
       \E h \in BoundHashes, v \in ValidUntils :
         AttestForMint(account, c, s, req, h, v)
  /\ UNCHANGED <<paymentVars, rwaVars, adapterVars>>

\* A consumer other than the adapter consumes directly.
ConsumeDirectly ==
  /\ \E c \in OtherConsumers, t \in RwaTokens, a \in Accounts, req \in Requests :
       ConsumeMintAuthorization(c, t, a, req.amount)
  /\ UNCHANGED <<peerVars, nullifierVars, approvals, paymentVars, rwaVars, adapterVars>>

TokenStep ==
  /\ \E t \in RwaTokens, a, b \in Accounts, req \in Requests :
       \/ Mint(t, a, req.amount)
       \/ TransferShares(t, a, b, req.amount)
       \/ Burn(t, a, req.amount)
  /\ UNCHANGED <<peerVars, nullifierVars, approvals, paymentVars, rwaVars>>

FundGate ==
  /\ \E t \in PayTokens, req \in Requests : Deposit(t, req.amount)
  /\ UNCHANGED <<peerVars, nullifierVars, approvals, rwaVars, identityVars, adapterVars>>

Tick ==
  /\ CloseLedger
  /\ UNCHANGED <<peerVars, nullifierVars, approvals, paymentVars, rwaVars, adapterVars>>

UserStep ==
  \/ Pay \/ TransferRwa \/ AttestAccount \/ AuthorizeMint
  \/ ConsumeDirectly \/ TokenStep \/ FundGate \/ Tick

Next == UserStep \/ \E by \in Principals : AdminStep(by)

Spec == Init /\ [][Next]_vars

DeployedSpec == DeployedInit /\ [][Next]_vars

=============================================================================
