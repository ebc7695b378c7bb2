---------------------------- MODULE AccessProofs ----------------------------
(***************************************************************************)
(* Proofs about the access layer, for every value of its constants: types, *)
(* the nullifier spent once, the promise the contracts implement, and what *)
(* they keep for later transactions: the frozen key, pausing and revoking, *)
(* the amounts, and the authorizations of the identity verifier.           *)
(***************************************************************************)
EXTENDS AccessProperties, SequenceTheorems, TLAPS

-----------------------------------------------------------------------------
(* The facts about one approval that every gate establishes.               *)

LEMMA NullifierType ==
  ASSUME NEW s \in Statements
  PROVE  Nullifier(s) \in Nullifiers
BY DataAssumption DEF Nullifier, Nullifiers, Statement

LEMMA AcceptedCircuit ==
  ASSUME NEW s \in Statements, NEW p \in PolicyIds, ProofAccepted(s, p), VerifierTypeOK
  PROVE  vk \in Circuits
BY DEF ProofAccepted, Verify, VerifierTypeOK

LEMMA NoneYet == \A x \in Nat : x <= 1 /\ x # 1 => x = 0
BY SMT

(* What mark_used and the event do together: they keep the log, the set of *)
(* spent nullifiers and their agreement.                                   *)
LEMMA ApproveOnce ==
  ASSUME ApprovalsTypeOK, NullifierTypeOK,
         NEW gate \in Gates, NEW a \in Approval,
         MarkUsed(gate, Nullifier(a.statement)), PublishApproval(a)
  PROVE  /\ ApprovalsTypeOK' /\ NullifierTypeOK'
         /\ OneApprovalPerNullifier => OneApprovalPerNullifier'
<1> DEFINE m == Nullifier(a.statement)
<1>1. m \in Nullifiers
  BY NullifierType DEF Approval
<1>2. approvals \in [Nullifiers -> Seq(Approval)]
  BY DEF ApprovalsTypeOK
<1>3. approvals' = [approvals EXCEPT ![m] = Append(approvals[m], a)]
  BY DEF PublishApproval
<1>4. used' = used \cup {m} /\ m \notin used /\ gateAllowed' = gateAllowed
  BY DEF MarkUsed, IsUsed
<1>5. Append(approvals[m], a) \in Seq(Approval)
  BY <1>1, <1>2
<1>6. ApprovalsTypeOK'
  BY <1>1, <1>2, <1>3, <1>5 DEF ApprovalsTypeOK
<1>7. NullifierTypeOK'
  BY <1>1, <1>4 DEF NullifierTypeOK
<1>8. ASSUME OneApprovalPerNullifier PROVE OneApprovalPerNullifier'
  <2> SUFFICES ASSUME NEW n \in Nullifiers
               PROVE  /\ Len(approvals'[n]) <= 1
                      /\ n \in used' <=> Len(approvals'[n]) = 1
    BY DEF OneApprovalPerNullifier
  <2>1. CASE n = m
    <3>1. approvals[m] \in Seq(Approval)
      BY <1>1, <1>2
    <3>2. Len(approvals[m]) = 0
      <4>1. Len(approvals[m]) \in Nat
        BY <3>1
      <4>2. Len(approvals[m]) <= 1 /\ Len(approvals[m]) # 1
        BY <1>1, <1>4, <1>8 DEF OneApprovalPerNullifier
      <4> QED BY <4>1, <4>2, NoneYet, Zenon
    <3>3. Len(Append(approvals[m], a)) = 1
      <4>1. Len(Append(approvals[m], a)) = Len(approvals[m]) + 1
        BY <3>1, AppendProperties
      <4> QED BY <3>2, <4>1
    <3>4. approvals'[n] = Append(approvals[m], a) /\ n \in used'
      BY <1>1, <1>2, <1>3, <1>4, <2>1
    <3>5. Len(approvals'[n]) = 1
      BY <3>3, <3>4, Zenon
    <3> QED BY <3>4, <3>5
  <2>2. CASE n # m
    BY <1>1, <1>2, <1>3, <1>4, <1>8, <2>2 DEF OneApprovalPerNullifier
  <2> QED BY <2>1, <2>2
<1> QED BY <1>6, <1>7, <1>8

-----------------------------------------------------------------------------
(* Integers of the ledger keep their width.                                *)

LEMMA ZeroFits == 0 \in I128
BY WordAssumption DEF I128

LEMMA DifferenceFits ==
  ASSUME NEW x \in I128, NEW y \in I128, 0 <= y, y <= x
  PROVE  x - y \in I128
BY WordAssumption DEF I128

LEMMA I128IsInt == I128 \subseteq Int
BY WordAssumption DEF I128

LEMMA CappedExpiryIsTime ==
  ASSUME now \in Time, NEW v \in Time
  PROVE  CappedExpiry(v) \in Time
BY TimeAssumption DEF CappedExpiry, Time

LEMMA RequestType ==
  ASSUME NEW req \in Requests
  PROVE  /\ req.policy \in PolicyIds /\ req.asset \in Assets /\ req.amount \in I128
         /\ req.recipient \in RecipientIds /\ req.epoch \in Epochs
BY RequestAssumption

-----------------------------------------------------------------------------
(* One lemma per contract: what its own handlers do to its own state.      *)

LEMMA OwnershipKept ==
  ASSUME OwnershipTypeOK, NEW by \in Principals,
         \/ \E c \in Contracts, to \in Principals : TransferAdmin(c, by, to)
         \/ \E c \in Pausable, value \in BOOLEAN : SetPaused(c, by, value)
  PROVE  OwnershipTypeOK'
<1>1. CASE \E c \in Contracts, to \in Principals : TransferAdmin(c, by, to)
  BY <1>1 DEF TransferAdmin, OwnershipTypeOK
<1>2. CASE \E c \in Pausable, value \in BOOLEAN : SetPaused(c, by, value)
  BY <1>2 DEF SetPaused, OwnershipTypeOK
<1> QED BY <1>1, <1>2

LEMMA IssuerKept ==
  ASSUME IssuerTypeOK, NEW by \in Principals,
         \/ \E i \in Issuers, r \in CredentialSets : SetRoot(by, i, r)
         \/ \E r \in DenySets : SetSanctionsRoot(by, r)
         \/ \E i \in Issuers, r \in RevokedSets : SetRevocationRoot(by, i, r)
  PROVE  IssuerTypeOK'
<1>1. CASE \E i \in Issuers, r \in CredentialSets : SetRoot(by, i, r)
  BY <1>1 DEF SetRoot, IssuerTypeOK
<1>2. CASE \E r \in DenySets : SetSanctionsRoot(by, r)
  BY <1>2 DEF SetSanctionsRoot, IssuerTypeOK
<1>3. CASE \E i \in Issuers, r \in RevokedSets : SetRevocationRoot(by, i, r)
  BY <1>3 DEF SetRevocationRoot, IssuerTypeOK
<1> QED BY <1>1, <1>2, <1>3

LEMMA PaymentConfigKept ==
  ASSUME PaymentTypeOK, NEW by \in Principals,
         \/ \E a \in Assets, t \in PayTokens : SetToken(by, a, t)
         \/ \E r \in RecipientIds, account \in Accounts : SetRecipient(by, r, account)
  PROVE  PaymentTypeOK'
<1>1. CASE \E a \in Assets, t \in PayTokens : SetToken(by, a, t)
  BY <1>1 DEF SetToken, PaymentTypeOK
<1>2. CASE \E r \in RecipientIds, account \in Accounts : SetRecipient(by, r, account)
  BY <1>2 DEF SetRecipient, PaymentTypeOK
<1> QED BY <1>1, <1>2

LEMMA MovedType ==
  ASSUME NEW S, NEW ledger \in [S -> I128], NEW from \in S, NEW to \in S,
         NEW amount \in I128, 0 <= amount, amount <= ledger[from],
         Moved(ledger, from, to, amount)[to] \in I128
  PROVE  Moved(ledger, from, to, amount) \in [S -> I128]
<1>1. ledger[from] - amount \in I128
  BY DifferenceFits
<1>2. CASE from = to
  BY <1>2 DEF Moved
<1>3. CASE from # to
  BY <1>1, <1>3 DEF Moved
<1> QED BY <1>2, <1>3

LEMMA SacTransferKept ==
  ASSUME PaymentTypeOK,
         NEW t \in PayTokens, NEW from \in Holders, NEW to \in Holders,
         NEW amount \in I128, SacTransfer(t, from, to, amount)
  PROVE  balance' \in [PayTokens -> [Holders -> I128]]
<1>1. balance \in [PayTokens -> [Holders -> I128]]
  BY DEF PaymentTypeOK
<1>2. /\ balance' = [balance EXCEPT ![t] = Moved(balance[t], from, to, amount)]
      /\ 0 <= amount /\ amount <= balance[t][from]
      /\ balance'[t][to] \in I128
  <2>1. balance[t][from] \in Int /\ amount \in Int
    BY <1>1, I128IsInt
  <2>2. amount >= 0 /\ balance[t][from] >= amount
    BY DEF SacTransfer
  <2>3. 0 <= amount /\ amount <= balance[t][from]
    BY <2>1, <2>2
  <2> QED BY <2>3 DEF SacTransfer
<1>3. Moved(balance[t], from, to, amount)[to] \in I128
  BY <1>1, <1>2
<1>4. Moved(balance[t], from, to, amount) \in [Holders -> I128]
  BY <1>1, <1>2, <1>3, MovedType
<1> QED BY <1>1, <1>2, <1>4

LEMMA DepositKept ==
  ASSUME PaymentTypeOK, NEW t \in PayTokens, NEW amount \in I128, Deposit(t, amount)
  PROVE  PaymentTypeOK'
<1>1. /\ balance' = [balance EXCEPT ![t][PaymentGate] = @ + amount]
      /\ balance'[t][PaymentGate] \in I128
  BY DEF Deposit
<1>2. balance' \in [PayTokens -> [Holders -> I128]]
  BY <1>1 DEF PaymentTypeOK
<1> QED BY <1>2 DEF Deposit, PaymentTypeOK

LEMMA FundKept ==
  ASSUME RwaTypeOK, NEW by, NEW a \in Assets, NEW amount \in I128, Fund(by, a, amount)
  PROVE  RwaTypeOK'
BY DEF Fund, RwaTypeOK

LEMMA IdentityConfigKept ==
  ASSUME IdentityTypeOK, NEW by \in Principals,
         UNCHANGED <<now, attestation, mintAuthorization, consumed>>,
         \/ \E a \in Assets, t \in RwaTokens : SetRwaToken(by, a, t)
         \/ \E r \in RecipientIds, account \in Accounts : SetRwaRecipient(by, r, account)
         \/ \E c \in Consumers : AllowMintConsumer(by, c) \/ RevokeMintConsumer(by, c)
  PROVE  IdentityTypeOK'
<1> USE DEF IdentityTypeOK
<1>1. CASE \E a \in Assets, t \in RwaTokens : SetRwaToken(by, a, t)
  BY <1>1 DEF SetRwaToken
<1>2. CASE \E r \in RecipientIds, account \in Accounts : SetRwaRecipient(by, r, account)
  BY <1>2 DEF SetRwaRecipient
<1>3. CASE \E c \in Consumers : AllowMintConsumer(by, c) \/ RevokeMintConsumer(by, c)
  BY <1>3 DEF AllowMintConsumer, RevokeMintConsumer
<1> QED BY <1>1, <1>2, <1>3

LEMMA AttestKept ==
  ASSUME IdentityTypeOK, NEW account \in Accounts, NEW s \in Statements,
         NEW p \in PolicyIds, NEW e \in Epochs, NEW v \in ValidUntils,
         Attest(account, s, p, e, v)
  PROVE  IdentityTypeOK'
<1>1. CappedExpiry(v) \in Time
  BY CappedExpiryIsTime, ValidUntilAssumption DEF IdentityTypeOK
<1> QED BY <1>1 DEF Attest, IdentityTypeOK, identityConfig

LEMMA AttestForMintKept ==
  ASSUME IdentityTypeOK, NEW account \in Accounts, NEW c \in Consumers,
         NEW s \in Statements, NEW req \in Requests, NEW h, NEW v \in ValidUntils,
         AttestForMint(account, c, s, req, h, v)
  PROVE  IdentityTypeOK'
<1> DEFINE key == <<c, rwaToken[req.asset], account>>
           m == [amount |-> req.amount, validUntil |-> CappedExpiry(v),
                 nullifier |-> Nullifier(s)]
<1>1. CappedExpiry(v) \in Time
  BY CappedExpiryIsTime, ValidUntilAssumption DEF IdentityTypeOK
<1>2. m \in MintAuth
  BY <1>1, NullifierType, RequestType DEF MintAuth
<1>3. /\ attestation' = [attestation EXCEPT ![account] = CappedExpiry(v)]
      /\ mintAuthorization' = [mintAuthorization EXCEPT ![key] = m]
      /\ UNCHANGED <<now, rwaToken, rwaRecipient, mintConsumer, consumed>>
  BY DEF AttestForMint, identityConfig
<1>4. mintAuthorization' \in [MintKeys -> MintAuth \cup {None}]
  <2> HIDE DEF m, key
  <2> QED BY <1>2, <1>3 DEF IdentityTypeOK
<1>5. attestation' \in [Accounts -> Time \cup {None}]
  BY <1>1, <1>3 DEF IdentityTypeOK
<1> QED BY <1>3, <1>4, <1>5 DEF IdentityTypeOK

LEMMA ConsumeKept ==
  ASSUME IdentityTypeOK, NEW c \in Consumers, NEW t \in RwaTokens,
         NEW a \in Accounts, NEW amount \in I128,
         ConsumeMintAuthorization(c, t, a, amount)
  PROVE  IdentityTypeOK'
<1> DEFINE key == <<c, t, a>>
           n == mintAuthorization[key].nullifier
           used_up == [key |-> key, amount |-> amount, at |-> now]
<1>1. key \in MintKeys /\ now \in Time
  BY DEF MintKeys, IdentityTypeOK
<1>2. used_up \in Consumption
  BY <1>1 DEF Consumption
<1>3. n \in Nullifiers
  <2>1. mintAuthorization[key] \in MintAuth
    BY <1>1 DEF ConsumeMintAuthorization, Usable, IdentityTypeOK
  <2> QED BY <2>1 DEF MintAuth
<1>4. /\ mintAuthorization' = [mintAuthorization EXCEPT ![key] = None]
      /\ consumed' = [consumed EXCEPT ![n] = Append(consumed[n], used_up)]
      /\ UNCHANGED <<now, rwaToken, rwaRecipient, mintConsumer, attestation>>
  BY DEF ConsumeMintAuthorization, RemoveAuthorization, identityConfig
<1>5. consumed' \in [Nullifiers -> Seq(Consumption)]
  <2> HIDE DEF n, used_up
  <2>1. consumed \in [Nullifiers -> Seq(Consumption)]
    BY DEF IdentityTypeOK
  <2>2. Append(consumed[n], used_up) \in Seq(Consumption)
    BY <1>2, <1>3, <2>1
  <2> QED BY <1>3, <1>4, <2>1, <2>2
<1>6. mintAuthorization' \in [MintKeys -> MintAuth \cup {None}]
  BY <1>4 DEF IdentityTypeOK
<1> QED BY <1>4, <1>5, <1>6 DEF IdentityTypeOK

LEMMA TickKept ==
  ASSUME IdentityTypeOK, CloseLedger
  PROVE  IdentityTypeOK'
<1>1. now' \in Time
  BY TimeAssumption DEF CloseLedger, IdentityTypeOK, Time
<1> QED BY <1>1 DEF CloseLedger, IdentityTypeOK, identityConfig

LEMMA AdapterConfigKept ==
  ASSUME AdapterTypeOK, NEW by \in Principals, NEW t \in RwaTokens,
         BindToken(by, t) \/ UnbindToken(by, t)
  PROVE  AdapterTypeOK'
BY DEF BindToken, UnbindToken, AdapterTypeOK

LEMMA MintKept ==
  ASSUME AdapterTypeOK, IdentityTypeOK, NEW t \in RwaTokens, NEW to \in Accounts,
         NEW amount \in I128, Mint(t, to, amount)
  PROVE  AdapterTypeOK' /\ IdentityTypeOK'
<1>1. IdentityTypeOK'
  BY ConsumeKept DEF Mint, Created, Consumers
<1>2. AdapterTypeOK'
  BY DEF Mint, Created, AdapterTypeOK
<1> QED BY <1>1, <1>2

LEMMA TransferSharesKept ==
  ASSUME AdapterTypeOK, NEW t \in RwaTokens, NEW from \in Accounts,
         NEW to \in Accounts, NEW amount \in I128, TransferShares(t, from, to, amount)
  PROVE  AdapterTypeOK'
<1>1. /\ shares \in [RwaTokens -> [Accounts -> I128]]
      /\ shares' = [shares EXCEPT ![t] = Moved(shares[t], from, to, amount)]
      /\ shares'[t][to] \in I128 /\ boundTokens' = boundTokens
  BY DEF TransferShares, AdapterTypeOK
<1>2. 0 <= amount /\ amount <= shares[t][from]
  <2>1. shares[t][from] \in Int /\ amount \in Int
    BY <1>1, I128IsInt
  <2>2. amount > 0 /\ shares[t][from] >= amount
    BY DEF TransferShares, Transferred
  <2> QED BY <2>1, <2>2
<1>3. Moved(shares[t], from, to, amount)[to] \in I128
  BY <1>1
<1>4. Moved(shares[t], from, to, amount) \in [Accounts -> I128]
  BY <1>1, <1>2, <1>3, MovedType
<1> QED BY <1>1, <1>4 DEF AdapterTypeOK

LEMMA BurnKept ==
  ASSUME AdapterTypeOK, NEW t \in RwaTokens, NEW from \in Accounts,
         NEW amount \in I128, Burn(t, from, amount)
  PROVE  AdapterTypeOK'
<1>1. /\ shares \in [RwaTokens -> [Accounts -> I128]]
      /\ shares' = [shares EXCEPT ![t][from] = @ - amount] /\ boundTokens' = boundTokens
  BY DEF Burn, AdapterTypeOK
<1>2. shares[t][from] - amount \in I128
  <2>1. shares[t][from] \in Int /\ amount \in Int
    BY <1>1, I128IsInt
  <2>2. amount > 0 /\ shares[t][from] >= amount
    BY DEF Burn, Destroyed
  <2> QED BY <1>1, <2>1, <2>2, DifferenceFits
<1> QED BY <1>1, <1>2 DEF AdapterTypeOK

LEMMA InventoryKept ==
  ASSUME RwaTypeOK, NEW s, NEW req \in Requests, NEW h, VerifyAndTransfer(s, req, h)
  PROVE  RwaTypeOK'
<1> DEFINE a == req.asset
           k == <<req.asset, req.recipient>>
<1>1. /\ inventory' = [inventory EXCEPT ![a] = @ - req.amount]
      /\ holding' = [holding EXCEPT ![k] = @ + req.amount]
      /\ holding[k] + req.amount \in I128
      /\ req.amount > 0 /\ inventory[a] >= req.amount
  BY DEF VerifyAndTransfer, MoveInventory
<1>2. a \in Assets /\ k \in Assets \X RecipientIds /\ req.amount \in I128
  BY RequestType
<1>3. inventory[a] - req.amount \in I128
  <2>1. inventory[a] \in I128 /\ inventory[a] \in Int /\ req.amount \in Int
    BY <1>2, I128IsInt DEF RwaTypeOK
  <2>2. 0 <= req.amount /\ req.amount <= inventory[a]
    BY <1>1, <2>1
  <2> QED BY <1>2, <2>1, <2>2, DifferenceFits
<1> HIDE DEF a, k
<1> QED BY <1>1, <1>2, <1>3 DEF RwaTypeOK

LEMMA PaymentMoved ==
  ASSUME PaymentTypeOK, NEW s, NEW req \in Requests, NEW h, VerifyAndPay(s, req, h)
  PROVE  PaymentTypeOK' /\ recipient[req.recipient] \in Accounts
<1> DEFINE t == token[req.asset]
           to == recipient[req.recipient]
<1>1. /\ SacTransfer(t, PaymentGate, to, req.amount)
      /\ t # None /\ to # None
      /\ token' = token /\ recipient' = recipient
  BY DEF VerifyAndPay
<1>2. t \in PayTokens /\ to \in Accounts /\ req.amount \in I128
  BY <1>1, RequestType DEF PaymentTypeOK
<1>3. PaymentGate \in Holders /\ to \in Holders
  BY <1>2 DEF Holders
<1>4. balance' \in [PayTokens -> [Holders -> I128]]
  <2> HIDE DEF t, to
  <2> QED BY <1>1, <1>2, <1>3, SacTransferKept
<1> QED BY <1>1, <1>2, <1>4 DEF PaymentTypeOK

-----------------------------------------------------------------------------
(* Each transaction keeps the types and the one approval per nullifier.    *)

IInv == TypeOK /\ OneApprovalPerNullifier

PeersTypeOK == OwnershipTypeOK /\ IssuerTypeOK /\ PolicyTypeOK /\ VerifierTypeOK

LEMMA PeersUntouched ==
  ASSUME PeersTypeOK, UNCHANGED peerVars
  PROVE  PeersTypeOK'
BY DEF PeersTypeOK, OwnershipTypeOK, IssuerTypeOK, PolicyTypeOK, VerifierTypeOK,
       peerVars, ownershipVars, issuerVars, verifierVars

LEMMA PaymentUntouched ==
  ASSUME PaymentTypeOK, UNCHANGED paymentVars PROVE PaymentTypeOK'
BY DEF PaymentTypeOK, paymentVars

LEMMA RwaUntouched ==
  ASSUME RwaTypeOK, UNCHANGED rwaVars PROVE RwaTypeOK'
BY DEF RwaTypeOK, rwaVars

LEMMA IdentityUntouched ==
  ASSUME IdentityTypeOK, UNCHANGED identityVars PROVE IdentityTypeOK'
BY DEF IdentityTypeOK, identityVars, identityConfig

LEMMA AdapterUntouched ==
  ASSUME AdapterTypeOK, UNCHANGED adapterVars PROVE AdapterTypeOK'
BY DEF AdapterTypeOK, adapterVars

LEMMA SpentUntouched ==
  ASSUME NullifierTypeOK, ApprovalsTypeOK, OneApprovalPerNullifier,
         UNCHANGED <<nullifierVars, approvals>>
  PROVE  NullifierTypeOK' /\ ApprovalsTypeOK' /\ OneApprovalPerNullifier'
BY DEF NullifierTypeOK, ApprovalsTypeOK, OneApprovalPerNullifier, nullifierVars

\* The amount of an approval that moves value is the statement's, as a u128.
AmountProven(a) ==
  a.kind # "attested" => a.amount > 0 /\ a.statement.amount = AsU128(a.amount)

(* What the four proof-checking transactions have in common.               *)
Approves(s, gate, a) ==
  /\ a.statement = s /\ a.gate = gate
  /\ RootsInForce(s) /\ \E p \in PolicyIds : ProofAccepted(s, p)
  /\ ~paused[gate] /\ AmountProven(a)
  /\ MarkUsed(gate, Nullifier(s)) /\ PublishApproval(a)
  /\ UNCHANGED peerVars

ApprovingStep ==
  \E s \in Statements, gate \in Gates, a \in Approval : Approves(s, gate, a)

\* What the two gates publish.
PaidFor(s, req) ==
  [gate |-> PaymentGate, kind |-> "paid", statement |-> s, amount |-> req.amount,
   circuit |-> vk, account |-> recipient[req.recipient]]

MovedRwa(s, req) ==
  [gate |-> RwaGate, kind |-> "transferred", statement |-> s,
   amount |-> req.amount, circuit |-> vk, account |-> None]

LEMMA PaymentApproves ==
  ASSUME TypeOK, NEW s \in Statements, NEW req \in Requests, NEW h,
         VerifyAndPay(s, req, h)
  PROVE  /\ PaymentGate \in Gates /\ PaidFor(s, req) \in Approval
         /\ Approves(s, PaymentGate, PaidFor(s, req))
<1> DEFINE a == PaidFor(s, req)
<1>1. ProofAccepted(s, req.policy) /\ vk \in Circuits
  BY AcceptedCircuit, RequestType DEF VerifyAndPay, TypeOK
<1>2. PaymentGate \in Gates /\ ~paused[PaymentGate]
  BY DEF VerifyAndPay, EnsureNotPaused, Pausable
<1>3. recipient[req.recipient] \in Accounts
  BY PaymentMoved DEF TypeOK
<1>4. a \in Approval
  BY <1>1, <1>2, <1>3, RequestType DEF Approval, PaidFor
<1>5. Approves(s, PaymentGate, a)
  BY <1>1, <1>2, RequestType
     DEF VerifyAndPay, Approves, AmountProven, SignalsMatchAction, PaidFor
<1> QED BY <1>2, <1>4, <1>5

LEMMA PayApproves ==
  ASSUME TypeOK, Pay PROVE ApprovingStep
BY PaymentApproves DEF Pay, ApprovingStep

LEMMA TransferApproves ==
  ASSUME TypeOK, NEW s \in Statements, NEW req \in Requests, NEW h,
         VerifyAndTransfer(s, req, h)
  PROVE  /\ RwaGate \in Gates /\ MovedRwa(s, req) \in Approval
         /\ Approves(s, RwaGate, MovedRwa(s, req))
<1> DEFINE a == MovedRwa(s, req)
<1>1. ProofAccepted(s, req.policy) /\ vk \in Circuits
  BY AcceptedCircuit, RequestType DEF VerifyAndTransfer, TypeOK
<1>2. RwaGate \in Gates /\ ~paused[RwaGate]
  BY DEF VerifyAndTransfer, EnsureNotPaused, Pausable
<1>3. a \in Approval
  BY <1>1, <1>2, RequestType DEF Approval, MovedRwa
<1>4. Approves(s, RwaGate, a)
  BY <1>1, <1>2, RequestType
     DEF VerifyAndTransfer, Approves, AmountProven, SignalsMatchAction, MovedRwa
<1> QED BY <1>2, <1>3, <1>4

LEMMA TransferRwaApproves ==
  ASSUME TypeOK, TransferRwa PROVE ApprovingStep
BY TransferApproves DEF TransferRwa, ApprovingStep

\* What the two calls of the identity verifier publish.
Attested(s, account) ==
  [gate |-> Identity, kind |-> "attested", statement |-> s,
   amount |-> 0, circuit |-> vk, account |-> account]

Authorized(s, req, account) ==
  [gate |-> Identity, kind |-> "authorized", statement |-> s,
   amount |-> req.amount, circuit |-> vk, account |-> account]

LEMMA AttestApproves ==
  ASSUME TypeOK, NEW account \in Accounts, NEW s \in Statements, NEW v,
         NEW p \in PolicyIds, NEW e, Attest(account, s, p, e, v)
  PROVE  /\ Identity \in Gates /\ Attested(s, account) \in Approval
         /\ Approves(s, Identity, Attested(s, account))
<1> DEFINE a == Attested(s, account)
<1>1. ProofAccepted(s, p) /\ vk \in Circuits /\ RootsInForce(s)
  BY AcceptedCircuit DEF Attest, ValidateRwaProof, TypeOK
<1>2. Identity \in Gates /\ ~paused[Identity]
  BY DEF Attest, EnsureNotPaused, Pausable
<1>3. a \in Approval
  BY <1>1, <1>2, ZeroFits DEF Approval, Attested
<1>4. Approves(s, Identity, a)
  BY <1>1, <1>2 DEF Attest, Approves, Attested, AmountProven
<1> QED BY <1>2, <1>3, <1>4

LEMMA AttestAccountApproves ==
  ASSUME TypeOK, AttestAccount PROVE ApprovingStep
BY AttestApproves DEF AttestAccount, ApprovingStep

LEMMA AttestForMintApproves ==
  ASSUME TypeOK, NEW account \in Accounts, NEW c, NEW s \in Statements,
         NEW req \in Requests, NEW h, NEW v, AttestForMint(account, c, s, req, h, v)
  PROVE  /\ Identity \in Gates /\ Authorized(s, req, account) \in Approval
         /\ Approves(s, Identity, Authorized(s, req, account))
<1> DEFINE a == Authorized(s, req, account)
<1>1. ProofAccepted(s, req.policy) /\ vk \in Circuits /\ RootsInForce(s)
  BY AcceptedCircuit, RequestType DEF AttestForMint, ValidateRwaProof, TypeOK
<1>2. Identity \in Gates /\ ~paused[Identity]
  BY DEF AttestForMint, EnsureNotPaused, Pausable
<1>3. a \in Approval
  BY <1>1, <1>2, RequestType DEF Approval, Authorized
<1>4. Approves(s, Identity, a)
  BY <1>1, <1>2, RequestType
     DEF AttestForMint, Approves, Authorized, AmountProven, SignalsMatchAction
<1> QED BY <1>2, <1>3, <1>4

LEMMA AuthorizeMintApproves ==
  ASSUME TypeOK, AuthorizeMint PROVE ApprovingStep
BY AttestForMintApproves DEF AuthorizeMint, ApprovingStep

LEMMA ApprovingStepInv ==
  ASSUME IInv, ApprovingStep
  PROVE  NullifierTypeOK' /\ ApprovalsTypeOK' /\ OneApprovalPerNullifier' /\ PeersTypeOK'
<1>1. PICK s \in Statements, gate \in Gates, a \in Approval : Approves(s, gate, a)
  BY DEF ApprovingStep
<1>2. MarkUsed(gate, Nullifier(a.statement)) /\ PublishApproval(a)
  BY <1>1 DEF Approves
<1>3. NullifierTypeOK' /\ ApprovalsTypeOK' /\ OneApprovalPerNullifier'
  BY <1>2, ApproveOnce DEF IInv, TypeOK
<1>4. PeersTypeOK'
  BY <1>1, PeersUntouched DEF Approves, IInv, TypeOK, PeersTypeOK
<1> QED BY <1>3, <1>4

LEMMA PayInv ==
  ASSUME IInv, Pay
  PROVE  IInv'
<1> USE DEF IInv, TypeOK
<1>1. NullifierTypeOK' /\ ApprovalsTypeOK' /\ OneApprovalPerNullifier' /\ PeersTypeOK'
  BY PayApproves, ApprovingStepInv
<1>2. PaymentTypeOK'
  BY PaymentMoved DEF Pay
<1>3. RwaTypeOK' /\ IdentityTypeOK' /\ AdapterTypeOK'
  BY RwaUntouched, IdentityUntouched, AdapterUntouched DEF Pay
<1> QED BY <1>1, <1>2, <1>3 DEF PeersTypeOK

LEMMA TransferRwaInv ==
  ASSUME IInv, TransferRwa
  PROVE  IInv'
<1> USE DEF IInv, TypeOK
<1>1. NullifierTypeOK' /\ ApprovalsTypeOK' /\ OneApprovalPerNullifier' /\ PeersTypeOK'
  BY TransferRwaApproves, ApprovingStepInv
<1>2. RwaTypeOK'
  BY InventoryKept DEF TransferRwa
<1>3. PaymentTypeOK' /\ IdentityTypeOK' /\ AdapterTypeOK'
  BY PaymentUntouched, IdentityUntouched, AdapterUntouched DEF TransferRwa
<1> QED BY <1>1, <1>2, <1>3 DEF PeersTypeOK

LEMMA AttestAccountInv ==
  ASSUME IInv, AttestAccount
  PROVE  IInv'
<1> USE DEF IInv, TypeOK
<1>1. NullifierTypeOK' /\ ApprovalsTypeOK' /\ OneApprovalPerNullifier' /\ PeersTypeOK'
  BY AttestAccountApproves, ApprovingStepInv
<1>2. IdentityTypeOK'
  BY AttestKept DEF AttestAccount
<1>3. PaymentTypeOK' /\ RwaTypeOK' /\ AdapterTypeOK'
  BY PaymentUntouched, RwaUntouched, AdapterUntouched DEF AttestAccount
<1> QED BY <1>1, <1>2, <1>3 DEF PeersTypeOK

LEMMA AuthorizeMintInv ==
  ASSUME IInv, AuthorizeMint
  PROVE  IInv'
<1> USE DEF IInv, TypeOK
<1>1. NullifierTypeOK' /\ ApprovalsTypeOK' /\ OneApprovalPerNullifier' /\ PeersTypeOK'
  BY AuthorizeMintApproves, ApprovingStepInv
<1>2. IdentityTypeOK'
  BY AttestForMintKept DEF AuthorizeMint
<1>3. PaymentTypeOK' /\ RwaTypeOK' /\ AdapterTypeOK'
  BY PaymentUntouched, RwaUntouched, AdapterUntouched DEF AuthorizeMint
<1> QED BY <1>1, <1>2, <1>3 DEF PeersTypeOK

LEMMA ConsumeDirectlyInv ==
  ASSUME IInv, ConsumeDirectly
  PROVE  IInv'
<1> USE DEF IInv, TypeOK
<1>1. IdentityTypeOK'
  BY ConsumeKept, RequestType DEF ConsumeDirectly, Consumers
<1>2. PeersTypeOK' /\ PaymentTypeOK' /\ RwaTypeOK' /\ AdapterTypeOK'
  BY PeersUntouched, PaymentUntouched, RwaUntouched, AdapterUntouched
     DEF ConsumeDirectly, PeersTypeOK
<1>3. NullifierTypeOK' /\ ApprovalsTypeOK' /\ OneApprovalPerNullifier'
  BY SpentUntouched DEF ConsumeDirectly
<1> QED BY <1>1, <1>2, <1>3 DEF PeersTypeOK

LEMMA TokenStepInv ==
  ASSUME IInv, TokenStep
  PROVE  IInv'
<1> USE DEF IInv, TypeOK
<1>1. IdentityTypeOK' /\ AdapterTypeOK'
  <2>1. PICK t \in RwaTokens, a \in Accounts, b \in Accounts, req \in Requests :
          \/ Mint(t, a, req.amount)
          \/ TransferShares(t, a, b, req.amount)
          \/ Burn(t, a, req.amount)
    BY DEF TokenStep
  <2>2. CASE Mint(t, a, req.amount)
    BY <2>2, MintKept, RequestType
  <2>3. CASE TransferShares(t, a, b, req.amount)
    BY <2>3, TransferSharesKept, RequestType, IdentityUntouched DEF TransferShares
  <2>4. CASE Burn(t, a, req.amount)
    BY <2>4, BurnKept, RequestType, IdentityUntouched DEF Burn
  <2> QED BY <2>1, <2>2, <2>3, <2>4
<1>2. PeersTypeOK' /\ PaymentTypeOK' /\ RwaTypeOK'
  BY PeersUntouched, PaymentUntouched, RwaUntouched DEF TokenStep, PeersTypeOK
<1>3. NullifierTypeOK' /\ ApprovalsTypeOK' /\ OneApprovalPerNullifier'
  BY SpentUntouched DEF TokenStep
<1> QED BY <1>1, <1>2, <1>3 DEF PeersTypeOK

LEMMA FundGateInv ==
  ASSUME IInv, FundGate
  PROVE  IInv'
<1> USE DEF IInv, TypeOK
<1>1. PaymentTypeOK'
  BY DepositKept, RequestType DEF FundGate
<1>2. PeersTypeOK' /\ RwaTypeOK' /\ IdentityTypeOK' /\ AdapterTypeOK'
  BY PeersUntouched, RwaUntouched, IdentityUntouched, AdapterUntouched
     DEF FundGate, PeersTypeOK
<1>3. NullifierTypeOK' /\ ApprovalsTypeOK' /\ OneApprovalPerNullifier'
  BY SpentUntouched DEF FundGate
<1> QED BY <1>1, <1>2, <1>3 DEF PeersTypeOK

LEMMA TickInv ==
  ASSUME IInv, Tick
  PROVE  IInv'
<1> USE DEF IInv, TypeOK
<1>1. IdentityTypeOK'
  BY TickKept DEF Tick
<1>2. PeersTypeOK' /\ PaymentTypeOK' /\ RwaTypeOK' /\ AdapterTypeOK'
  BY PeersUntouched, PaymentUntouched, RwaUntouched, AdapterUntouched
     DEF Tick, PeersTypeOK
<1>3. NullifierTypeOK' /\ ApprovalsTypeOK' /\ OneApprovalPerNullifier'
  BY SpentUntouched DEF Tick
<1> QED BY <1>1, <1>2, <1>3 DEF PeersTypeOK

LEMMA AdminInv ==
  ASSUME IInv, NEW by \in Principals, AdminStep(by)
  PROVE  IInv'
<1> USE DEF IInv, TypeOK
<1>1. CASE OwnershipAdmin(by)
  <2>1. OwnershipTypeOK'
    BY <1>1, OwnershipKept DEF OwnershipAdmin
  <2>2. IssuerTypeOK' /\ PolicyTypeOK' /\ VerifierTypeOK'
    BY <1>1 DEF OwnershipAdmin, IssuerTypeOK, PolicyTypeOK, VerifierTypeOK,
                issuerVars, verifierVars
  <2>3. PaymentTypeOK' /\ RwaTypeOK' /\ IdentityTypeOK' /\ AdapterTypeOK'
    BY <1>1, PaymentUntouched, RwaUntouched, IdentityUntouched, AdapterUntouched
       DEF OwnershipAdmin
  <2>4. NullifierTypeOK' /\ ApprovalsTypeOK' /\ OneApprovalPerNullifier'
    BY <1>1, SpentUntouched DEF OwnershipAdmin
  <2> QED BY <2>1, <2>2, <2>3, <2>4
<1>2. CASE IssuerAdmin(by)
  <2>1. IssuerTypeOK'
    BY <1>2, IssuerKept DEF IssuerAdmin
  <2>2. OwnershipTypeOK' /\ PolicyTypeOK' /\ VerifierTypeOK'
    BY <1>2 DEF IssuerAdmin, OwnershipTypeOK, PolicyTypeOK, VerifierTypeOK,
                ownershipVars, verifierVars
  <2>3. PaymentTypeOK' /\ RwaTypeOK' /\ IdentityTypeOK' /\ AdapterTypeOK'
    BY <1>2, PaymentUntouched, RwaUntouched, IdentityUntouched, AdapterUntouched
       DEF IssuerAdmin
  <2>4. NullifierTypeOK' /\ ApprovalsTypeOK' /\ OneApprovalPerNullifier'
    BY <1>2, SpentUntouched DEF IssuerAdmin
  <2> QED BY <2>1, <2>2, <2>3, <2>4
<1>3. CASE PolicyAdmin(by)
  <2>1. PolicyTypeOK'
    BY <1>3 DEF PolicyAdmin, SetPolicy, PolicyTypeOK
  <2>2. OwnershipTypeOK' /\ IssuerTypeOK' /\ VerifierTypeOK'
    BY <1>3 DEF PolicyAdmin, OwnershipTypeOK, IssuerTypeOK, VerifierTypeOK,
                ownershipVars, issuerVars, verifierVars
  <2>3. PaymentTypeOK' /\ RwaTypeOK' /\ IdentityTypeOK' /\ AdapterTypeOK'
    BY <1>3, PaymentUntouched, RwaUntouched, IdentityUntouched, AdapterUntouched
       DEF PolicyAdmin
  <2>4. NullifierTypeOK' /\ ApprovalsTypeOK' /\ OneApprovalPerNullifier'
    BY <1>3, SpentUntouched DEF PolicyAdmin
  <2> QED BY <2>1, <2>2, <2>3, <2>4
<1>4. CASE NullifierAdmin(by)
  <2>1. NullifierTypeOK' /\ used' = used /\ approvals' = approvals
    BY <1>4 DEF NullifierAdmin, AllowGate, RevokeGate, NullifierTypeOK
  <2>2. ApprovalsTypeOK' /\ OneApprovalPerNullifier'
    BY <2>1 DEF ApprovalsTypeOK, OneApprovalPerNullifier
  <2>3. OwnershipTypeOK' /\ IssuerTypeOK' /\ PolicyTypeOK' /\ VerifierTypeOK'
    BY <1>4 DEF NullifierAdmin, OwnershipTypeOK, IssuerTypeOK, PolicyTypeOK,
                VerifierTypeOK, ownershipVars, issuerVars, verifierVars
  <2>4. PaymentTypeOK' /\ RwaTypeOK' /\ IdentityTypeOK' /\ AdapterTypeOK'
    BY <1>4, PaymentUntouched, RwaUntouched, IdentityUntouched, AdapterUntouched
       DEF NullifierAdmin
  <2> QED BY <2>1, <2>2, <2>3, <2>4
<1>5. CASE VerifierAdmin(by)
  <2>1. VerifierTypeOK'
    BY <1>5 DEF VerifierAdmin, SetVk, FreezeVk, VerifierTypeOK
  <2>2. OwnershipTypeOK' /\ IssuerTypeOK' /\ PolicyTypeOK'
    BY <1>5 DEF VerifierAdmin, OwnershipTypeOK, IssuerTypeOK, PolicyTypeOK,
                ownershipVars, issuerVars
  <2>3. PaymentTypeOK' /\ RwaTypeOK' /\ IdentityTypeOK' /\ AdapterTypeOK'
    BY <1>5, PaymentUntouched, RwaUntouched, IdentityUntouched, AdapterUntouched
       DEF VerifierAdmin
  <2>4. NullifierTypeOK' /\ ApprovalsTypeOK' /\ OneApprovalPerNullifier'
    BY <1>5, SpentUntouched DEF VerifierAdmin
  <2> QED BY <2>1, <2>2, <2>3, <2>4
<1>6. CASE PaymentAdmin(by) \/ RwaAdmin(by) \/ IdentityAdmin(by) \/ AdapterAdmin(by)
  <2>1. PeersTypeOK'
    BY <1>6, PeersUntouched
       DEF PaymentAdmin, RwaAdmin, IdentityAdmin, AdapterAdmin, PeersTypeOK, peerVars
  <2>2. NullifierTypeOK' /\ ApprovalsTypeOK' /\ OneApprovalPerNullifier'
    BY <1>6, SpentUntouched DEF PaymentAdmin, RwaAdmin, IdentityAdmin, AdapterAdmin
  <2>3. PaymentTypeOK'
    BY <1>6, PaymentConfigKept, PaymentUntouched
       DEF PaymentAdmin, RwaAdmin, IdentityAdmin, AdapterAdmin
  <2>4. RwaTypeOK'
    BY <1>6, FundKept, RequestType, RwaUntouched
       DEF PaymentAdmin, RwaAdmin, IdentityAdmin, AdapterAdmin
  <2>5. IdentityTypeOK'
    BY <1>6, IdentityConfigKept, IdentityUntouched
       DEF PaymentAdmin, RwaAdmin, IdentityAdmin, AdapterAdmin
  <2>6. AdapterTypeOK'
    BY <1>6, AdapterConfigKept, AdapterUntouched
       DEF PaymentAdmin, RwaAdmin, IdentityAdmin, AdapterAdmin
  <2> QED BY <2>1, <2>2, <2>3, <2>4, <2>5, <2>6 DEF PeersTypeOK
<1> QED BY <1>1, <1>2, <1>3, <1>4, <1>5, <1>6 DEF AdminStep

-----------------------------------------------------------------------------
LEMMA InitInv == Init => IInv
<1> SUFFICES ASSUME Init PROVE IInv
  OBVIOUS
<1> USE DEF Init
<1>1. OwnershipTypeOK /\ IssuerTypeOK /\ PolicyTypeOK /\ NullifierTypeOK /\ VerifierTypeOK
  BY OwnershipAssumption
     DEF OwnershipInit, IssuerInit, PolicyInit, NullifierInit, VerifierInit,
         OwnershipTypeOK, IssuerTypeOK, PolicyTypeOK, NullifierTypeOK, VerifierTypeOK
<1>2. PaymentTypeOK /\ RwaTypeOK
  BY ZeroFits DEF PaymentInit, RwaInit, PaymentTypeOK, RwaTypeOK
<1>3. IdentityTypeOK
  BY TimeAssumption DEF IdentityInit, IdentityTypeOK, Time
<1>4. AdapterTypeOK
  BY ZeroFits DEF AdapterInit, AdapterTypeOK
<1>5. ApprovalsTypeOK /\ OneApprovalPerNullifier
  BY DEF ApprovalsInit, NullifierInit, ApprovalsTypeOK, OneApprovalPerNullifier
<1> QED BY <1>1, <1>2, <1>3, <1>4, <1>5 DEF IInv, TypeOK

LEMMA OneOfType == ASSUME NEW S PROVE OneOf(S) \in S \cup {None}
BY DEF OneOf

LEMMA DeployedInitInv == DeployedInit => IInv
<1> SUFFICES ASSUME DeployedInit PROVE IInv
  OBVIOUS
<1> USE DEF DeployedInit
<1>1. OwnershipTypeOK /\ IssuerTypeOK /\ PolicyTypeOK /\ NullifierTypeOK /\ VerifierTypeOK
  BY OwnershipAssumption
     DEF OwnershipInit, OwnershipTypeOK, IssuerTypeOK, PolicyTypeOK, NullifierTypeOK,
         VerifierTypeOK
<1>2. PaymentTypeOK /\ RwaTypeOK
  BY ZeroFits, OneOfType DEF RwaInit, PaymentTypeOK, RwaTypeOK
<1>3. IdentityTypeOK
  <2>1. now \in Time /\ mintConsumer \subseteq Consumers
    BY TimeAssumption DEF Time, Consumers
  <2>2. /\ rwaToken \in [Assets -> RwaTokens \cup {None}]
        /\ rwaRecipient \in [RecipientIds -> Accounts \cup {None}]
    BY OneOfType
  <2> QED BY <2>1, <2>2 DEF IdentityTypeOK
<1>4. AdapterTypeOK
  BY ZeroFits DEF AdapterTypeOK
<1>5. ApprovalsTypeOK /\ OneApprovalPerNullifier
  BY DEF ApprovalsInit, ApprovalsTypeOK, OneApprovalPerNullifier
<1> QED BY <1>1, <1>2, <1>3, <1>4, <1>5 DEF IInv, TypeOK

LEMMA StepInv == IInv /\ [Next]_vars => IInv'
<1> SUFFICES ASSUME IInv, [Next]_vars PROVE IInv'
  OBVIOUS
<1>1. CASE UserStep
  BY <1>1, PayInv, TransferRwaInv, AttestAccountInv, AuthorizeMintInv,
     ConsumeDirectlyInv, TokenStepInv, FundGateInv, TickInv DEF UserStep
<1>2. CASE \E by \in Principals : AdminStep(by)
  BY <1>2, AdminInv
<1>3. CASE UNCHANGED vars
  <2>1. UNCHANGED <<peerVars, nullifierVars, approvals, paymentVars, rwaVars,
                    identityVars, adapterVars>>
    BY <1>3 DEF vars, peerVars
  <2>2. PeersTypeOK'
    BY <2>1, PeersUntouched DEF IInv, TypeOK, PeersTypeOK
  <2>3. PaymentTypeOK' /\ RwaTypeOK' /\ IdentityTypeOK' /\ AdapterTypeOK'
    BY <2>1, PaymentUntouched, RwaUntouched, IdentityUntouched, AdapterUntouched
       DEF IInv, TypeOK
  <2>4. NullifierTypeOK' /\ ApprovalsTypeOK' /\ OneApprovalPerNullifier'
    BY <2>1, SpentUntouched DEF IInv, TypeOK
  <2> QED BY <2>2, <2>3, <2>4 DEF IInv, TypeOK, PeersTypeOK
<1> QED BY <1>1, <1>2, <1>3 DEF Next

(* Every reachable state is well typed: no transaction of anybody leaves a *)
(* ledger entry that is not of the type the contract reads it with, and no *)
(* i128 amount or balance leaves its width.                                *)
THEOREM TypesHold == Spec \/ DeployedSpec => []TypeOK
<1>1. IInv => TypeOK
  BY DEF IInv
<1> QED BY <1>1, InitInv, DeployedInitInv, StepInv, PTL DEF Spec, DeployedSpec

(* A nullifier is spent at most once whichever gates there are, in every   *)
(* interleaving of users and admins, from freshly initialised contracts    *)
(* and from what the deployment script leaves.                             *)
THEOREM SpentOnce == Spec \/ DeployedSpec => []OneApprovalPerNullifier
<1>1. IInv => OneApprovalPerNullifier
  BY DEF IInv
<1> QED BY <1>1, InitInv, DeployedInitInv, StepInv, PTL DEF Spec, DeployedSpec

-----------------------------------------------------------------------------
(* What is published is always a publication the promise knows.            *)
PublicationOK ==
  /\ Enrolled \in [Issuers -> SUBSET Credentials]
  /\ Denied \in SUBSET (Persons \X Issuers)
  /\ Revoked \in [Issuers -> SUBSET Credentials]

LEMMA PublishedTypes == IssuerTypeOK => PublicationOK
<1> SUFFICES ASSUME IssuerTypeOK PROVE PublicationOK
  OBVIOUS
<1>1. \A i \in Issuers : (IF root[i] = None THEN {} ELSE root[i]) \in SUBSET Credentials
  BY DataAssumption DEF IssuerTypeOK
<1>2. Denied \in SUBSET (Persons \X Issuers)
  BY DataAssumption DEF IssuerTypeOK, Denied
<1>3. \A i \in Issuers : (IF revocationRoot[i] = None THEN Credentials
                          ELSE revocationRoot[i]) \in SUBSET Credentials
  BY DataAssumption DEF IssuerTypeOK
<1> QED BY <1>1, <1>2, <1>3 DEF PublicationOK, Enrolled, Revoked

LEMMA PublishedTypesNext == IssuerTypeOK' => PublicationOK'
BY PublishedTypes, PTL

(* A proof the gates accept is of somebody the promise admits now.         *)
LEMMA AcceptedIsEligible ==
  ASSUME NEW s \in Statements, NEW p, RootsInForce(s), ProofAccepted(s, p)
  PROVE  Promise!Eligible(s)
<1>1. s.issuer \in Issuers
  BY DataAssumption DEF Statement
<1>2. /\ Enrolled[s.issuer] = s.credentialRoot
      /\ Denied = s.sanctionsRoot
      /\ Revoked[s.issuer] = s.revocationRoot
  BY <1>1 DEF RootsInForce, Enrolled, Denied, Revoked
<1>3. PICK c \in s.credentialRoot : /\ Entitles(c, s)
                                    /\ <<s.person, s.issuer>> \notin s.sanctionsRoot
                                    /\ c \notin s.revocationRoot
  BY DEF ProofAccepted, Verify, Provable
<1>4. c \in Enrolled[s.issuer] \ Revoked[s.issuer]
  BY <1>2, <1>3
<1>5. <<s.person, s.issuer>> \notin Denied
  BY <1>2, <1>3
<1>6. Promise!Entitles(c, s)
  BY <1>3 DEF Entitles, Promise!Entitles
<1> QED BY <1>4, <1>5, <1>6 DEF Promise!Eligible

(* Publishing the first approval under a nullifier is granting it.         *)
LEMMA ApprovalIsGrant ==
  ASSUME ApprovalsTypeOK, OneApprovalPerNullifier, IssuerTypeOK, UNCHANGED issuerVars,
         NEW gate \in Gates, NEW a \in Approval,
         MarkUsed(gate, Nullifier(a.statement)), PublishApproval(a),
         Promise!Eligible(a.statement)
  PROVE  Promise!Grant(a.statement)
<1> DEFINE m == Nullifier(a.statement)
<1>1. m \in Nullifiers /\ a.statement \in Statements
  BY NullifierType DEF Approval
<1>2. approvals \in [Nullifiers -> Seq(Approval)]
  BY DEF ApprovalsTypeOK
<1>3. approvals[m] = << >>
  <2>1. Len(approvals[m]) \in Nat
    BY <1>1, <1>2
  <2>2. Len(approvals[m]) <= 1 /\ Len(approvals[m]) # 1
    BY <1>1 DEF OneApprovalPerNullifier, MarkUsed, IsUsed
  <2>3. Len(approvals[m]) = 0
    BY <2>1, <2>2, NoneYet, Zenon
  <2> QED BY <1>1, <1>2, <2>3, EmptySeq
<1>4. Granted[m] = << >>
  BY <1>1, <1>3 DEF Granted
<1>5. approvals' = [approvals EXCEPT ![m] = <<a>>]
  BY <1>1, <1>2, <1>3 DEF PublishApproval
<1>6. Granted' = [Granted EXCEPT ![m] = <<a.statement>>]
  <2>1. [j \in DOMAIN <<a>> |-> <<a>>[j].statement] = <<a.statement>>
    OBVIOUS
  <2>2. \A n \in Nullifiers : approvals'[n] = IF n = m THEN <<a>> ELSE approvals[n]
    BY <1>2, <1>5
  <2> HIDE DEF m
  <2>3. Granted' = [n \in Nullifiers |-> IF n = m THEN <<a.statement>> ELSE Granted[n]]
    <3>1. \A n \in Nullifiers : [j \in DOMAIN approvals'[n] |-> approvals'[n][j].statement]
                                = IF n = m THEN <<a.statement>> ELSE Granted[n]
      BY <2>1, <2>2 DEF Granted
    <3> QED BY <3>1 DEF Granted
  <2>4. [Granted EXCEPT ![m] = <<a.statement>>]
          = [n \in Nullifiers |-> IF n = m THEN <<a.statement>> ELSE Granted[n]]
    BY DEF Granted
  <2> QED BY <2>3, <2>4
<1>7. UNCHANGED <<Enrolled, Denied, Revoked>>
  BY DEF Enrolled, Denied, Revoked, issuerVars
<1>8. Promise!Nullifier(a.statement) = m
  BY DEF Nullifier, Promise!Nullifier
<1> HIDE DEF m
<1> QED BY <1>4, <1>6, <1>7, <1>8 DEF Promise!Grant

(* A step that neither approves nor publishes is a stuttering step of the  *)
(* promise; one that publishes and does not approve is its Publish.        *)
LEMMA OtherIsPublish ==
  ASSUME IssuerTypeOK', UNCHANGED approvals
  PROVE  Promise!Publish
<1>1. Granted' = Granted
  BY DEF Granted
<1>2. PublicationOK'
  BY PublishedTypesNext
<1> QED BY <1>1, <1>2 DEF PublicationOK, Promise!Publish

LEMMA PromiseInitially == IInv /\ ApprovalsInit => Promise!PromiseInit
<1> SUFFICES ASSUME IInv, ApprovalsInit PROVE Promise!PromiseInit
  OBVIOUS
<1>1. PublicationOK
  BY PublishedTypes DEF IInv, TypeOK
<1>2. [j \in DOMAIN << >> |-> << >>[j].statement] = << >>
  OBVIOUS
<1>3. Granted = [n \in Nullifiers |-> << >>]
  BY <1>2 DEF ApprovalsInit, Granted
<1> QED BY <1>1, <1>3 DEF PublicationOK, Promise!PromiseInit, Promise!Nullifiers, Nullifiers

LEMMA PromiseStep ==
  IInv /\ IInv' /\ [Next]_vars => [Promise!PromiseNext]_(Promise!promiseVars)
<1> SUFFICES ASSUME IInv, IInv', [Next]_vars
             PROVE  Promise!PromiseNext \/ UNCHANGED Promise!promiseVars
  OBVIOUS
<1> USE DEF IInv, TypeOK
<1>1. CASE Pay \/ TransferRwa \/ AttestAccount \/ AuthorizeMint
  <2>1. ApprovingStep
    BY <1>1, PayApproves, TransferRwaApproves, AttestAccountApproves, AuthorizeMintApproves
  <2>2. PICK s \in Statements, gate \in Gates, a \in Approval : Approves(s, gate, a)
    BY <2>1 DEF ApprovingStep
  <2>3. Promise!Grant(s)
    BY <2>2, AcceptedIsEligible, ApprovalIsGrant DEF Approves, peerVars
  <2> QED BY <2>3 DEF Promise!PromiseNext
<1>2. CASE ConsumeDirectly \/ TokenStep \/ FundGate \/ Tick
  <2>1. UNCHANGED approvals
    BY <1>2 DEF ConsumeDirectly, TokenStep, FundGate, Tick
  <2> QED BY <2>1, OtherIsPublish DEF Promise!PromiseNext
<1>3. CASE \E by \in Principals : AdminStep(by)
  <2>1. UNCHANGED approvals
    BY <1>3 DEF AdminStep, OwnershipAdmin, IssuerAdmin, PolicyAdmin, NullifierAdmin,
                VerifierAdmin, PaymentAdmin, RwaAdmin, IdentityAdmin, AdapterAdmin
  <2> QED BY <2>1, OtherIsPublish DEF Promise!PromiseNext
<1>4. CASE UNCHANGED vars
  BY <1>4, OtherIsPublish DEF vars, Promise!PromiseNext
<1> QED BY <1>1, <1>2, <1>3, <1>4 DEF Next, UserStep

(* The access layer implements its promise from fresh contracts and from   *)
(* the deployed state: every approval of any gate is the only grant of a   *)
(* person for a policy and epoch, to somebody enrolled and not denied.     *)
THEOREM PromiseKept == Spec \/ DeployedSpec => KeepsPromise
<1>1. Init \/ DeployedInit => ApprovalsInit
  BY DEF Init, DeployedInit
<1> QED BY <1>1, InitInv, DeployedInitInv, StepInv, PromiseInitially, PromiseStep, PTL
        DEF Spec, DeployedSpec, KeepsPromise, Promise!PromiseSpec

-----------------------------------------------------------------------------
(* Action properties.                                                      *)

(* Only an approving step changes the approvals, and it appends one.       *)
LEMMA WhoApproves ==
  ASSUME IInv, [Next]_vars
  PROVE  ApprovingStep \/ UNCHANGED approvals
<1>1. CASE Pay \/ TransferRwa \/ AttestAccount \/ AuthorizeMint
  BY <1>1, PayApproves, TransferRwaApproves, AttestAccountApproves, AuthorizeMintApproves
     DEF IInv
<1>2. CASE ConsumeDirectly \/ TokenStep \/ FundGate \/ Tick
  BY <1>2 DEF ConsumeDirectly, TokenStep, FundGate, Tick
<1>3. CASE \E by \in Principals : AdminStep(by)
  BY <1>3 DEF AdminStep, OwnershipAdmin, IssuerAdmin, PolicyAdmin, NullifierAdmin,
              VerifierAdmin, PaymentAdmin, RwaAdmin, IdentityAdmin, AdapterAdmin
<1>4. CASE UNCHANGED vars
  BY <1>4 DEF vars
<1> QED BY <1>1, <1>2, <1>3, <1>4 DEF Next, UserStep

LEMMA LastApproval ==
  ASSUME ApprovalsTypeOK, NEW a \in Approval, PublishApproval(a),
         NEW n \in Nullifiers, approvals'[n] # approvals[n]
  PROVE  approvals'[n][Len(approvals'[n])] = a
<1> DEFINE m == Nullifier(a.statement)
<1>1. m \in Nullifiers /\ approvals \in [Nullifiers -> Seq(Approval)]
  BY NullifierType DEF Approval, ApprovalsTypeOK
<1>2. approvals' = [approvals EXCEPT ![m] = Append(approvals[m], a)]
  BY DEF PublishApproval
<1> HIDE DEF m
<1>3. n = m /\ approvals'[n] = Append(approvals[n], a)
  BY <1>1, <1>2
<1>4. Append(approvals[n], a)[Len(approvals[n]) + 1] = a
      /\ Len(Append(approvals[n], a)) = Len(approvals[n]) + 1
  BY <1>1, AppendProperties
<1> QED BY <1>3, <1>4

LEMMA KeyStays ==
  ASSUME IInv, [Next]_vars, frozen
  PROVE  frozen' /\ vk' = vk
<1>1. CASE UserStep
  BY <1>1, PayApproves, TransferRwaApproves, AttestAccountApproves, AuthorizeMintApproves
     DEF IInv, UserStep, ApprovingStep, Approves, ConsumeDirectly, TokenStep, FundGate,
         Tick, peerVars, verifierVars
<1>2. CASE \E by \in Principals : AdminStep(by)
  BY <1>2 DEF AdminStep, OwnershipAdmin, IssuerAdmin, PolicyAdmin, NullifierAdmin,
              VerifierAdmin, PaymentAdmin, RwaAdmin, IdentityAdmin, AdapterAdmin,
              SetVk, FreezeVk, verifierVars
<1>3. CASE UNCHANGED vars
  BY <1>3 DEF vars, verifierVars
<1> QED BY <1>1, <1>2, <1>3 DEF Next

(* After freeze_vk the circuit that approvals are proven with never        *)
(* changes again, for every admin, policy and order of transactions.       *)
THEOREM KeyIsFinal == Spec \/ DeployedSpec => FrozenKeyIsFinal
<1>1. IInv /\ [Next]_vars =>
        [frozen => /\ frozen'
                   /\ \A n \in Nullifiers : approvals'[n] # approvals[n] =>
                        approvals'[n][Len(approvals'[n])].statement.circuit = vk
                   /\ vk' = vk]_vars
  <2> SUFFICES ASSUME IInv, [Next]_vars, frozen
               PROVE  /\ frozen'
                      /\ \A n \in Nullifiers : approvals'[n] # approvals[n] =>
                           approvals'[n][Len(approvals'[n])].statement.circuit = vk
                      /\ vk' = vk
    OBVIOUS
  <2>1. frozen' /\ vk' = vk
    BY KeyStays
  <2>2. ASSUME NEW n \in Nullifiers, approvals'[n] # approvals[n]
        PROVE  approvals'[n][Len(approvals'[n])].statement.circuit = vk
    <3>1. PICK s \in Statements, gate \in Gates, a \in Approval : Approves(s, gate, a)
      BY <2>2, WhoApproves DEF ApprovingStep
    <3>2. approvals'[n][Len(approvals'[n])] = a
      BY <2>2, <3>1, LastApproval DEF Approves, IInv, TypeOK
    <3>3. a.statement.circuit = vk
      BY <3>1 DEF Approves, ProofAccepted, Verify
    <3> QED BY <3>2, <3>3
  <2> QED BY <2>1, <2>2
<1> QED BY <1>1, InitInv, DeployedInitInv, StepInv, PTL
        DEF Spec, DeployedSpec, FrozenKeyIsFinal

-----------------------------------------------------------------------------
(* One approval, whatever gate it is of.                                   *)

LEMMA ApprovalIsNew ==
  ASSUME IInv, NEW s \in Statements, NEW gate \in Gates, NEW a \in Approval,
         Approves(s, gate, a)
  PROVE  /\ Nullifier(s) \in Nullifiers
         /\ approvals[Nullifier(s)] = << >> /\ Nullifier(s) \notin used
         /\ approvals' = [approvals EXCEPT ![Nullifier(s)] = <<a>>]
<1> DEFINE m == Nullifier(s)
<1>1. m \in Nullifiers /\ a.statement = s
  BY NullifierType DEF Approves
<1>2. approvals \in [Nullifiers -> Seq(Approval)]
  BY DEF IInv, TypeOK, ApprovalsTypeOK
<1>3. m \notin used
  BY DEF Approves, MarkUsed, IsUsed
<1>4. Len(approvals[m]) = 0
  <2>1. Len(approvals[m]) \in Nat
    BY <1>1, <1>2
  <2>2. Len(approvals[m]) <= 1 /\ Len(approvals[m]) # 1
    BY <1>1, <1>3 DEF IInv, OneApprovalPerNullifier
  <2> QED BY <2>1, <2>2, NoneYet, Zenon
<1>5. approvals[m] = << >>
  BY <1>1, <1>2, <1>4, EmptySeq
<1>6. approvals' = [approvals EXCEPT ![m] = <<a>>]
  BY <1>1, <1>2, <1>5 DEF Approves, PublishApproval
<1> QED BY <1>1, <1>3, <1>5, <1>6

(* Nothing that is published is withdrawn or followed by another.          *)
LEMMA PublishedStays ==
  ASSUME IInv, [Next]_vars, NEW n \in Published
  PROVE  n \in Published' /\ approvals'[n] = approvals[n]
<1>1. approvals \in [Nullifiers -> Seq(Approval)] /\ n \in Nullifiers
  BY DEF IInv, TypeOK, ApprovalsTypeOK, Published
<1>2. approvals'[n] = approvals[n]
  <2>1. CASE ApprovingStep
    <3>1. PICK s \in Statements, gate \in Gates, a \in Approval : Approves(s, gate, a)
      BY <2>1 DEF ApprovingStep
    <3>2. n # Nullifier(s)
      BY <3>1, ApprovalIsNew DEF Published
    <3> QED BY <1>1, <3>1, <3>2, ApprovalIsNew
  <2>2. CASE UNCHANGED approvals
    BY <2>2
  <2> QED BY <2>1, <2>2, WhoApproves
<1> QED BY <1>1, <1>2 DEF Published

-----------------------------------------------------------------------------
(* Amounts.                                                                *)

LEMMA AmountIsCredited ==
  ASSUME NEW s \in Statements, NEW gate, NEW a \in Approval, Approves(s, gate, a),
         a.kind # "attested"
  PROVE  /\ a.amount > 0 /\ a.amount = s.amount
         /\ \E c \in Credentials : c.person = s.person /\ a.amount <= c.limit
<1>1. a.amount \in Int
  BY I128IsInt DEF Approval
<1>2. a.amount > 0 /\ a.amount = s.amount
  BY <1>1 DEF Approves, AmountProven, AsU128
<1>3. PICK c \in s.credentialRoot : Entitles(c, s)
  BY DEF Approves, ProofAccepted, Verify, Provable
<1>4. c \in Credentials
  BY <1>3, DataAssumption DEF Statement
<1> QED BY <1>2, <1>3, <1>4 DEF Entitles

LEMMA AmountsStep ==
  IInv /\ ApprovedAmountIsProvenAmount /\ [Next]_vars => ApprovedAmountIsProvenAmount'
<1> SUFFICES ASSUME IInv, ApprovedAmountIsProvenAmount, [Next]_vars,
                    NEW n \in Published', approvals'[n][1].kind # "attested"
             PROVE  /\ approvals'[n][1].amount > 0
                    /\ approvals'[n][1].amount = approvals'[n][1].statement.amount
                    /\ \E c \in Credentials : /\ c.person = n[1]
                                             /\ approvals'[n][1].amount <= c.limit
  BY DEF ApprovedAmountIsProvenAmount
<1>1. CASE n \in Published
  BY <1>1, PublishedStays DEF ApprovedAmountIsProvenAmount
<1>2. CASE n \notin Published
  <2>1. approvals'[n] # approvals[n]
    BY <1>2 DEF Published
  <2>2. PICK s \in Statements, gate \in Gates, a \in Approval : Approves(s, gate, a)
    BY <2>1, WhoApproves DEF ApprovingStep
  <2>3. approvals'[n] = <<a>> /\ n = Nullifier(s) /\ a.statement = s
    <3> DEFINE m == Nullifier(s)
    <3>1. n \in Nullifiers /\ DOMAIN approvals = Nullifiers
      BY DEF Published, IInv, TypeOK, ApprovalsTypeOK
    <3>2. m \in Nullifiers /\ approvals' = [approvals EXCEPT ![m] = <<a>>]
      BY <2>2, ApprovalIsNew
    <3> HIDE DEF m
    <3>3. n = m /\ approvals'[n] = <<a>>
      BY <2>1, <3>1, <3>2
    <3> QED BY <2>2, <3>3 DEF Approves, m
  <2>4. approvals'[n][1] = a /\ n[1] = s.person
    BY <2>3 DEF Nullifier
  <2> QED BY <2>2, <2>3, <2>4, AmountIsCredited
<1> QED BY <1>1, <1>2

(* What any gate moves or authorizes is the integer that was proven, never *)
(* one that only agrees with it as a u128, and within a credential's limit.*)
THEOREM AmountsAreProven == Spec \/ DeployedSpec => []ApprovedAmountIsProvenAmount
<1>1. Init \/ DeployedInit => ApprovedAmountIsProvenAmount
  BY DEF Init, DeployedInit, ApprovalsInit, ApprovedAmountIsProvenAmount, Published
<1> QED BY <1>1, AmountsStep, InitInv, DeployedInitInv, StepInv, PTL
        DEF Spec, DeployedSpec

-----------------------------------------------------------------------------
(* Pausing and revoking.                                                   *)

LEMMA SharesNeedIdentity ==
  ASSUME IInv, [Next]_vars, Identity \in Gates, paused[Identity]
  PROVE  /\ consumed' = consumed
         /\ \A t \in RwaTokens, a \in Accounts : shares'[t][a] <= shares[t][a]
<1>1. shares \in [RwaTokens -> [Accounts -> Int]]
  BY I128IsInt DEF IInv, TypeOK, AdapterTypeOK
<1>2. CASE UNCHANGED <<consumed, shares>>
  BY <1>1, <1>2
<1>3. CASE Pay \/ TransferRwa \/ AttestAccount \/ AuthorizeMint \/ FundGate \/ Tick
  <2>1. UNCHANGED consumed
    <3>1. CASE Pay \/ TransferRwa \/ FundGate \/ Tick
      BY <3>1 DEF Pay, TransferRwa, FundGate, Tick, identityVars, CloseLedger
    <3>2. CASE AttestAccount
      BY <3>2 DEF AttestAccount, Attest
    <3>3. CASE AuthorizeMint
      BY <3>3 DEF AuthorizeMint, AttestForMint
    <3> QED BY <1>3, <3>1, <3>2, <3>3
  <2>2. UNCHANGED shares
    BY <1>3 DEF Pay, TransferRwa, AttestAccount, AuthorizeMint, FundGate, Tick, adapterVars
  <2> QED BY <1>2, <2>1, <2>2
<1>4. CASE ConsumeDirectly
  BY <1>4 DEF ConsumeDirectly, ConsumeMintAuthorization, EnsureNotPaused
<1>5. CASE TokenStep
  <2>1. PICK t \in RwaTokens, a \in Accounts, b \in Accounts, req \in Requests :
          \/ Mint(t, a, req.amount)
          \/ TransferShares(t, a, b, req.amount)
          \/ Burn(t, a, req.amount)
    BY <1>5 DEF TokenStep
  <2>2. Burn(t, a, req.amount)
    BY <2>1 DEF Mint, TransferShares, VerifyIdentity, EnsureNotPaused
  <2>3. /\ req.amount > 0 /\ req.amount \in Int
        /\ shares' = [shares EXCEPT ![t][a] = @ - req.amount]
        /\ UNCHANGED consumed
    BY <2>2, RequestType, I128IsInt DEF Burn, Destroyed, identityVars
  <2> QED BY <1>1, <2>3
<1>6. CASE \E by \in Principals : AdminStep(by)
  BY <1>2, <1>6 DEF AdminStep, OwnershipAdmin, IssuerAdmin, PolicyAdmin, NullifierAdmin,
              VerifierAdmin, PaymentAdmin, RwaAdmin, IdentityAdmin, AdapterAdmin,
              identityVars, adapterVars, BindToken, UnbindToken
<1>7. CASE UNCHANGED vars
  BY <1>2, <1>7 DEF vars, identityVars, adapterVars
<1> QED BY <1>3, <1>4, <1>5, <1>6, <1>7 DEF Next, UserStep

(* A gate that is paused or revoked approves nothing, and a paused         *)
(* identity verifier stops mints and share transfers, however the admins   *)
(* change and in whatever order they act.                                  *)
THEOREM StoppedIsStopped == Spec \/ DeployedSpec => StoppedGateApprovesNothing
<1>1. IInv /\ [Next]_vars =>
        [/\ \A n \in Nullifiers : approvals'[n] # approvals[n] =>
              LET gate == approvals'[n][Len(approvals'[n])].gate IN
              gate \in gateAllowed /\ ~paused[gate]
         /\ (Identity \in Gates /\ paused[Identity]) =>
              /\ consumed' = consumed
              /\ \A t \in RwaTokens, a \in Accounts : shares'[t][a] <= shares[t][a]
        ]_vars
  <2> SUFFICES ASSUME IInv, [Next]_vars
               PROVE  /\ \A n \in Nullifiers : approvals'[n] # approvals[n] =>
                           LET gate == approvals'[n][Len(approvals'[n])].gate IN
                           gate \in gateAllowed /\ ~paused[gate]
                      /\ (Identity \in Gates /\ paused[Identity]) =>
                           /\ consumed' = consumed
                           /\ \A t \in RwaTokens, a \in Accounts :
                                shares'[t][a] <= shares[t][a]
    OBVIOUS
  <2>1. ASSUME NEW n \in Nullifiers, approvals'[n] # approvals[n]
        PROVE  LET gate == approvals'[n][Len(approvals'[n])].gate IN
               gate \in gateAllowed /\ ~paused[gate]
    <3>1. PICK s \in Statements, gate \in Gates, a \in Approval : Approves(s, gate, a)
      BY <2>1, WhoApproves DEF ApprovingStep
    <3>2. approvals'[n][Len(approvals'[n])] = a
      BY <2>1, <3>1, LastApproval DEF Approves, IInv, TypeOK
    <3>3. a.gate \in gateAllowed /\ ~paused[a.gate]
      BY <3>1 DEF Approves, MarkUsed
    <3> QED BY <3>2, <3>3
  <2> QED BY <2>1, SharesNeedIdentity
<1> QED BY <1>1, InitInv, DeployedInitInv, StepInv, PTL
        DEF Spec, DeployedSpec, StoppedGateApprovesNothing

-----------------------------------------------------------------------------
(* The authorizations of the identity verifier.                            *)

(* An authorization that expired before it was used stays where it is, in  *)
(* every order of users, consumers and admins.                             *)
THEOREM ExpiredStays == Spec \/ DeployedSpec => ExpiredAuthorizationStays
<1>1. IInv /\ [Next]_vars =>
        [\A k \in MintKeys :
           (mintAuthorization[k] # None /\ mintAuthorization[k].validUntil < now) =>
             mintAuthorization'[k] = mintAuthorization[k]]_vars
  <2> SUFFICES ASSUME IInv, [Next]_vars, NEW k \in MintKeys, mintAuthorization[k] # None,
                      mintAuthorization[k].validUntil < now
               PROVE  mintAuthorization'[k] = mintAuthorization[k]
    OBVIOUS
  <2>1. /\ mintAuthorization \in [MintKeys -> MintAuth \cup {None}] /\ now \in Int
        /\ mintAuthorization[k].validUntil \in Int
    BY TimeAssumption DEF IInv, TypeOK, IdentityTypeOK, Time, MintAuth
  <2>2. ASSUME NEW c, NEW t, NEW a, NEW amount, ConsumeMintAuthorization(c, t, a, amount)
        PROVE  mintAuthorization'[k] = mintAuthorization[k]
    <3>1. k # <<c, t, a>>
      BY <2>1, <2>2 DEF ConsumeMintAuthorization, Usable
    <3> QED BY <2>1, <2>2, <3>1 DEF ConsumeMintAuthorization, RemoveAuthorization
  <2>3. CASE UNCHANGED mintAuthorization
    BY <2>3
  <2>4. CASE AuthorizeMint
    <3>1. PICK account \in Accounts, c \in Consumers, s \in Statements, req \in Requests,
               h \in BoundHashes, v \in ValidUntils : AttestForMint(account, c, s, req, h, v)
      BY <2>4 DEF AuthorizeMint
    <3>2. k # <<c, rwaToken[req.asset], account>>
      BY <3>1 DEF AttestForMint
    <3> QED BY <2>1, <3>1, <3>2 DEF AttestForMint
  <2>5. CASE ConsumeDirectly \/ TokenStep
    BY <2>2, <2>5 DEF ConsumeDirectly, TokenStep, Mint, Created, TransferShares, Burn,
                      identityVars
  <2>6. CASE Pay \/ TransferRwa \/ AttestAccount \/ FundGate \/ Tick
    BY <2>3, <2>6 DEF Pay, TransferRwa, AttestAccount, Attest, FundGate, Tick, CloseLedger,
                      identityVars
  <2>7. CASE \E by \in Principals : AdminStep(by)
    BY <2>3, <2>7 DEF AdminStep, OwnershipAdmin, IssuerAdmin, PolicyAdmin, NullifierAdmin,
              VerifierAdmin, PaymentAdmin, RwaAdmin, IdentityAdmin, AdapterAdmin, identityVars
  <2>8. CASE UNCHANGED vars
    BY <2>3, <2>8 DEF vars, identityVars
  <2> QED BY <2>4, <2>5, <2>6, <2>7, <2>8 DEF Next, UserStep
<1> QED BY <1>1, InitInv, DeployedInitInv, StepInv, PTL
        DEF Spec, DeployedSpec, ExpiredAuthorizationStays

-----------------------------------------------------------------------------
(* What the identity verifier keeps for later transactions is backed by an *)
(* approval of its own, and is used once.                                  *)

(* An approval is written into at most one authorization, whoever the      *)
(* consumer is: what IdentityIsBacked says of each one is not enough to    *)
(* see that using one leaves no other with the same approval.              *)
OneKeyPerApproval ==
  \A k, l \in MintKeys :
    (/\ mintAuthorization[k] # None /\ mintAuthorization[l] # None
     /\ mintAuthorization[k].nullifier = mintAuthorization[l].nullifier) => k = l

BackInv == IdentityIsBacked /\ ConsumedOnce /\ OneKeyPerApproval

-----------------------------------------------------------------------------
LEMMA TheTypes ==
  ASSUME IInv
  PROVE  /\ now \in Int /\ TimeMax \in Int /\ MaxAttestationTtl \in Nat
         /\ attestation \in [Accounts -> Time \cup {None}]
         /\ mintAuthorization \in [MintKeys -> MintAuth \cup {None}]
         /\ consumed \in [Nullifiers -> Seq(Consumption)]
         /\ approvals \in [Nullifiers -> Seq(Approval)]
         /\ Time \subseteq Int /\ None \notin Time /\ None \notin MintAuth
BY TimeAssumption, MintAuthAssumption
   DEF IInv, TypeOK, IdentityTypeOK, ApprovalsTypeOK, Time

LEMMA KeptIsOfType ==
  ASSUME IInv, NEW k \in MintKeys, mintAuthorization[k] # None
  PROVE  /\ mintAuthorization[k] \in MintAuth
         /\ mintAuthorization[k].nullifier \in Nullifiers
         /\ mintAuthorization[k].validUntil \in Int
BY TheTypes DEF MintAuth

LEMMA ExpiryIsCapped ==
  ASSUME IInv, NEW v \in Time
  PROVE  /\ CappedExpiry(v) <= now + MaxAttestationTtl
         /\ CappedExpiry(v) \in Time
BY TheTypes, CappedExpiryIsTime DEF CappedExpiry, IInv, TypeOK, IdentityTypeOK

(* Time goes on and mappings are only added.                               *)
Settled == /\ now' >= now
           /\ \A a \in Assets : rwaToken[a] # None => rwaToken'[a] = rwaToken[a]

LEMMA OnlyTimeAndMappings ==
  ASSUME IInv, [Next]_vars
  PROVE  Settled
<1>1. /\ now \in Int /\ rwaToken \in [Assets -> RwaTokens \cup {None}]
  BY TheTypes DEF IInv, TypeOK, IdentityTypeOK
<1>2. CASE UNCHANGED <<now, rwaToken>>
  BY <1>1, <1>2 DEF Settled
<1>3. CASE Pay \/ TransferRwa \/ FundGate \/ AttestAccount \/ AuthorizeMint
  <2>1. CASE Pay \/ TransferRwa \/ FundGate
    BY <1>2, <2>1 DEF Pay, TransferRwa, FundGate, identityVars, identityConfig
  <2>2. CASE AttestAccount
    BY <1>2, <2>2 DEF AttestAccount, Attest, identityConfig
  <2>3. CASE AuthorizeMint
    BY <1>2, <2>3 DEF AuthorizeMint, AttestForMint, identityConfig
  <2> QED BY <1>3, <2>1, <2>2, <2>3
<1>4. CASE ConsumeDirectly \/ TokenStep
  <2>1. ASSUME NEW c, NEW t, NEW a, NEW amount, ConsumeMintAuthorization(c, t, a, amount)
        PROVE  UNCHANGED <<now, rwaToken>>
    BY <2>1 DEF ConsumeMintAuthorization, identityConfig
  <2>2. UNCHANGED <<now, rwaToken>>
    BY <1>4, <2>1 DEF ConsumeDirectly, TokenStep, Mint, Created, TransferShares, Burn,
                      identityVars, identityConfig
  <2> QED BY <1>2, <2>2
<1>5. CASE Tick
  <2>1. now' = now + 1 /\ rwaToken' = rwaToken
    BY <1>5 DEF Tick, CloseLedger, identityConfig
  <2>2. now' >= now
    BY <1>1, <2>1
  <2> QED BY <2>1, <2>2 DEF Settled
<1>6. CASE \E by \in Principals : AdminStep(by)
  <2>1. PICK by \in Principals : AdminStep(by)
    BY <1>6
  <2>2. CASE IdentityAdmin(by)
    BY <1>1, <2>2 DEF IdentityAdmin, SetRwaToken, SetRwaRecipient, AllowMintConsumer,
                      RevokeMintConsumer, Settled
  <2>3. CASE ~IdentityAdmin(by)
    BY <1>2, <2>1, <2>3
       DEF AdminStep, OwnershipAdmin, IssuerAdmin, PolicyAdmin, NullifierAdmin,
           VerifierAdmin, PaymentAdmin, RwaAdmin, AdapterAdmin, identityVars, identityConfig
  <2> QED BY <2>2, <2>3
<1>7. CASE UNCHANGED vars
  BY <1>2, <1>7 DEF vars, identityVars, identityConfig
<1> QED BY <1>3, <1>4, <1>5, <1>6, <1>7 DEF Next, UserStep

-----------------------------------------------------------------------------
(* What stays where it is stays backed.                                    *)

LEMMA AttestationStays ==
  ASSUME IInv, IInv', [Next]_vars, AttestationIsCapped,
         NEW a \in Accounts, attestation[a] # None, attestation'[a] = attestation[a]
  PROVE  /\ attestation'[a] <= now' + MaxAttestationTtl
         /\ \E n \in Published' : /\ approvals'[n][1].kind \in {"attested", "authorized"}
                                  /\ approvals'[n][1].account = a
<1>1. /\ attestation[a] <= now + MaxAttestationTtl
      /\ attestation[a] \in Int
  BY TheTypes DEF AttestationIsCapped
<1>2. PICK n \in Published : /\ approvals[n][1].kind \in {"attested", "authorized"}
                             /\ approvals[n][1].account = a
  BY DEF AttestationIsCapped
<1>3. n \in Published' /\ approvals'[n] = approvals[n]
  BY PublishedStays
<1>4. now \in Int /\ now' \in Int /\ MaxAttestationTtl \in Int /\ now' >= now
  BY TheTypes, OnlyTimeAndMappings, TimeAssumption
     DEF Settled, IInv, TypeOK, IdentityTypeOK, Time
<1>5. attestation'[a] <= now' + MaxAttestationTtl
  BY <1>1, <1>4
<1> QED BY <1>2, <1>3, <1>5

Backed(k) ==
  LET m == mintAuthorization[k]
      p == approvals[m.nullifier][1]
  IN  /\ Len(approvals[m.nullifier]) = 1
      /\ p.kind = "authorized"
      /\ p.account = k[3]
      /\ p.amount = m.amount
      /\ rwaToken[p.statement.asset] = k[2]
      /\ consumed[m.nullifier] = << >>
      /\ m.validUntil <= now + MaxAttestationTtl

LEMMA LenOneIsPublished ==
  ASSUME NEW n \in Nullifiers, Len(approvals[n]) = 1
  PROVE  n \in Published
BY DEF Published

LEMMA AuthorizationStays ==
  ASSUME IInv, IInv', [Next]_vars, NEW k \in MintKeys, mintAuthorization[k] # None,
         Backed(k), mintAuthorization'[k] = mintAuthorization[k],
         consumed'[mintAuthorization[k].nullifier] = consumed[mintAuthorization[k].nullifier]
  PROVE  Backed(k)'
<1> DEFINE m == mintAuthorization[k]
           n == m.nullifier
           p == approvals[n][1]
<1>1. m.nullifier \in Nullifiers /\ m.validUntil \in Int
  BY KeptIsOfType
<1>2. approvals'[n] = approvals[n]
  BY <1>1, PublishedStays, LenOneIsPublished DEF Backed
<1>3. now \in Int /\ now' \in Int /\ MaxAttestationTtl \in Int /\ now' >= now
  BY TheTypes, OnlyTimeAndMappings, TimeAssumption
     DEF Settled, IInv, TypeOK, IdentityTypeOK, Time
<1>4. m.validUntil <= now' + MaxAttestationTtl
  BY <1>1, <1>3 DEF Backed
<1>5. p.statement.asset \in Assets
  <2>1. approvals[n] \in Seq(Approval) /\ Len(approvals[n]) = 1
    BY <1>1, TheTypes DEF Backed
  <2>2. p \in Approval
    BY <2>1
  <2> QED BY <2>2, DataAssumption DEF Approval, Statement
<1>6. rwaToken'[p.statement.asset] = k[2]
  <2>1. k[2] # None
    BY RwaTokenAssumption DEF MintKeys
  <2> QED BY <1>5, <2>1, OnlyTimeAndMappings DEF Settled, Backed
<1> QED BY <1>2, <1>4, <1>6 DEF Backed

LEMMA ConsumptionStays ==
  ASSUME IInv, [Next]_vars, ConsumedOnce, NEW n \in Nullifiers,
         consumed'[n] # << >>, consumed'[n] = consumed[n]
  PROVE  /\ Len(consumed'[n]) = 1
         /\ Len(approvals'[n]) = 1
         /\ approvals'[n][1].kind = "authorized"
         /\ approvals'[n][1].amount = consumed'[n][1].amount
         /\ approvals'[n][1].account = consumed'[n][1].key[3]
<1>1. Len(approvals[n]) = 1
  BY DEF ConsumedOnce
<1>2. approvals'[n] = approvals[n]
  BY <1>1, LenOneIsPublished, PublishedStays
<1> QED BY <1>1, <1>2 DEF ConsumedOnce

LEMMA NothingKept ==
  ASSUME IInv, IInv', [Next]_vars, BackInv,
         UNCHANGED <<attestation, mintAuthorization, consumed>>
  PROVE  BackInv'
<1>1. AttestationIsCapped'
  BY AttestationStays DEF BackInv, IdentityIsBacked, AttestationIsCapped
<1>2. \A k \in MintKeys : mintAuthorization'[k] # None => Backed(k)'
  BY AuthorizationStays DEF BackInv, IdentityIsBacked, AuthorizationIsBacked, Backed
<1>3. AuthorizationIsBacked'
  BY <1>2 DEF AuthorizationIsBacked, Backed
<1>4. ConsumedOnce'
  BY ConsumptionStays DEF BackInv, ConsumedOnce
<1>5. OneKeyPerApproval'
  BY DEF BackInv, OneKeyPerApproval
<1> QED BY <1>1, <1>3, <1>4, <1>5 DEF BackInv, IdentityIsBacked

-----------------------------------------------------------------------------
(* The three transactions that change what is kept.                        *)

LEMMA AttestBacks ==
  ASSUME IInv, IInv', [Next]_vars, AttestationIsCapped, NEW account \in Accounts,
         NEW s \in Statements, NEW a \in Approval, Approves(s, Identity, a),
         Identity \in Gates, a.kind \in {"attested", "authorized"}, a.account = account,
         NEW v \in ValidUntils, now' = now,
         attestation' = [attestation EXCEPT ![account] = CappedExpiry(v)]
  PROVE  AttestationIsCapped'
<1> SUFFICES ASSUME NEW b \in Accounts, attestation'[b] # None
             PROVE  /\ attestation'[b] <= now' + MaxAttestationTtl
                    /\ \E n \in Published' :
                         /\ approvals'[n][1].kind \in {"attested", "authorized"}
                         /\ approvals'[n][1].account = b
  BY DEF AttestationIsCapped
<1>1. CASE b = account
  <2> DEFINE n == Nullifier(s)
  <2>1. n \in Nullifiers /\ approvals' = [approvals EXCEPT ![n] = <<a>>]
    BY ApprovalIsNew
  <2>2. DOMAIN approvals = Nullifiers
    BY TheTypes
  <2> HIDE DEF n
  <2>3. approvals'[n] = <<a>>
    BY <2>1, <2>2
  <2>4. n \in Published' /\ approvals'[n][1] = a
    BY <2>1, <2>3 DEF Published
  <2>5. attestation'[b] = CappedExpiry(v)
    BY <1>1, TheTypes
  <2>6. attestation'[b] <= now' + MaxAttestationTtl
    BY <2>5, ExpiryIsCapped, ValidUntilAssumption
  <2> QED BY <1>1, <2>4, <2>6
<1>2. CASE b # account
  <2>1. attestation'[b] = attestation[b]
    BY <1>2, TheTypes
  <2> QED BY <2>1, AttestationStays
<1> QED BY <1>1, <1>2

LEMMA AttestAccountBacks ==
  ASSUME IInv, IInv', [Next]_vars, BackInv, AttestAccount
  PROVE  BackInv'
<1>1. PICK account \in Accounts, s \in Statements, v \in ValidUntils,
           p \in PolicyIds, e \in Epochs : Attest(account, s, p, e, v)
  BY DEF AttestAccount
<1>2. /\ Identity \in Gates /\ Attested(s, account) \in Approval
      /\ Approves(s, Identity, Attested(s, account))
  BY <1>1, AttestApproves DEF IInv
<1>3. /\ attestation' = [attestation EXCEPT ![account] = CappedExpiry(v)]
      /\ UNCHANGED <<now, mintAuthorization, consumed>>
  BY <1>1 DEF Attest
<1>4. /\ Attested(s, account).kind \in {"attested", "authorized"}
      /\ Attested(s, account).account = account
  BY DEF Attested
<1>5. AttestationIsCapped'
  BY <1>2, <1>3, <1>4, AttestBacks DEF BackInv, IdentityIsBacked
<1>6. \A k \in MintKeys : mintAuthorization'[k] # None => Backed(k)'
  BY <1>3, AuthorizationStays DEF BackInv, IdentityIsBacked, AuthorizationIsBacked, Backed
<1>7. AuthorizationIsBacked'
  BY <1>6 DEF AuthorizationIsBacked, Backed
<1>8. ConsumedOnce'
  BY <1>3, ConsumptionStays DEF BackInv, ConsumedOnce
<1>9. OneKeyPerApproval'
  BY <1>3 DEF BackInv, OneKeyPerApproval
<1> QED BY <1>5, <1>7, <1>8, <1>9 DEF BackInv, IdentityIsBacked

LEMMA AuthorizeMintBacks ==
  ASSUME IInv, IInv', [Next]_vars, BackInv, AuthorizeMint
  PROVE  BackInv'
<1>1. PICK account \in Accounts, c \in Consumers, s \in Statements, req \in Requests,
           h \in BoundHashes, v \in ValidUntils : AttestForMint(account, c, s, req, h, v)
  BY DEF AuthorizeMint
<1> DEFINE key == <<c, rwaToken[req.asset], account>>
           n   == Nullifier(s)
           a   == Authorized(s, req, account)
           m   == [amount |-> req.amount, validUntil |-> CappedExpiry(v), nullifier |-> n]
<1>2. Identity \in Gates /\ a \in Approval /\ Approves(s, Identity, a)
  BY <1>1, AttestForMintApproves DEF IInv
<1>3. /\ attestation' = [attestation EXCEPT ![account] = CappedExpiry(v)]
      /\ mintAuthorization' = [mintAuthorization EXCEPT ![key] = m]
      /\ mintAuthorization[key] = None
      /\ now' = now /\ rwaToken' = rwaToken /\ consumed' = consumed
  BY <1>1 DEF AttestForMint, identityConfig
<1>4. /\ a.kind = "authorized" /\ a.account = account /\ a.statement = s
      /\ a.amount = req.amount /\ s.asset = req.asset
  BY <1>1 DEF Authorized, AttestForMint, SignalsMatchAction
<1>5. key \in MintKeys
  <2>1. rwaToken[req.asset] \in RwaTokens
    BY <1>1, RequestType DEF AttestForMint, IInv, TypeOK, IdentityTypeOK
  <2> QED BY <2>1 DEF MintKeys
<1>6. /\ n \in Nullifiers /\ n \notin used /\ approvals[n] = << >>
      /\ approvals' = [approvals EXCEPT ![n] = <<a>>]
  BY <1>2, ApprovalIsNew
<1>7. m \in MintAuth /\ m # None /\ m.validUntil <= now + MaxAttestationTtl
  <2>1. CappedExpiry(v) \in Time /\ CappedExpiry(v) <= now + MaxAttestationTtl
    BY ExpiryIsCapped, ValidUntilAssumption
  <2>2. m \in MintAuth
    BY <1>6, <2>1, RequestType DEF MintAuth
  <2> QED BY <2>1, <2>2, TheTypes
<1>8. consumed[n] = << >>
  <2>1. Len(approvals[n]) # 1
    BY <1>6
  <2> QED BY <1>6, <2>1 DEF BackInv, ConsumedOnce
<1>9. AttestationIsCapped'
  <2>1. a.kind \in {"attested", "authorized"}
    BY <1>4
  <2> QED BY <1>2, <1>3, <1>4, <2>1, AttestBacks DEF BackInv, IdentityIsBacked
<1>10. \A k \in MintKeys : mintAuthorization[k] # None =>
         Backed(k) /\ mintAuthorization[k].nullifier # n
  <2> SUFFICES ASSUME NEW k \in MintKeys, mintAuthorization[k] # None
               PROVE  Backed(k) /\ mintAuthorization[k].nullifier # n
    OBVIOUS
  <2>1. Backed(k)
    BY DEF BackInv, IdentityIsBacked, AuthorizationIsBacked, Backed
  <2>2. Len(approvals[mintAuthorization[k].nullifier]) = 1
    BY <2>1 DEF Backed
  <2>3. Len(approvals[n]) # 1
    BY <1>6
  <2> QED BY <2>1, <2>2, <2>3
<1>11. \A k \in MintKeys : mintAuthorization'[k] # None => Backed(k)'
  <2> SUFFICES ASSUME NEW k \in MintKeys, mintAuthorization'[k] # None PROVE Backed(k)'
    OBVIOUS
  <2>1. CASE k = key
    <3>1. mintAuthorization'[k] = m
      BY <1>3, <1>5, <2>1, TheTypes
    <3>2. m.nullifier = n /\ m.amount = req.amount /\ k[2] = rwaToken[req.asset]
          /\ k[3] = account
      BY <2>1
    <3>3. approvals'[n] = <<a>>
      <4> HIDE DEF n, a
      <4> QED BY <1>6, TheTypes
    <3>4. approvals'[n][1] = a /\ Len(approvals'[n]) = 1
      BY <3>3
    <3> HIDE DEF m, n, a, key
    <3> QED BY <1>3, <1>4, <1>7, <1>8, <3>1, <3>2, <3>4 DEF Backed
  <2>2. CASE k # key
    <3>1. mintAuthorization'[k] = mintAuthorization[k]
      BY <1>3, <2>2, TheTypes
    <3> QED BY <1>3, <1>10, <3>1, AuthorizationStays
  <2> QED BY <2>1, <2>2
<1>12. AuthorizationIsBacked'
  BY <1>11 DEF AuthorizationIsBacked, Backed
<1>13. ConsumedOnce'
  BY <1>3, ConsumptionStays DEF BackInv, ConsumedOnce
<1>14. OneKeyPerApproval'
  <2> SUFFICES ASSUME NEW k \in MintKeys, NEW l \in MintKeys,
                      mintAuthorization'[k] # None, mintAuthorization'[l] # None,
                      mintAuthorization'[k].nullifier = mintAuthorization'[l].nullifier
               PROVE  k = l
    BY DEF OneKeyPerApproval
  <2>1. mintAuthorization'[key].nullifier = n
    BY <1>3, <1>5, TheTypes
  <2>2. \A j \in MintKeys : j # key => mintAuthorization'[j] = mintAuthorization[j]
    BY <1>3, TheTypes
  <2> HIDE DEF key, n
  <2> QED BY <1>10, <2>1, <2>2 DEF BackInv, OneKeyPerApproval
<1> QED BY <1>9, <1>12, <1>13, <1>14 DEF BackInv, IdentityIsBacked

LEMMA ConsumeBacks ==
  ASSUME IInv, IInv', [Next]_vars, BackInv,
         NEW c \in Consumers, NEW t \in RwaTokens, NEW a \in Accounts,
         NEW amount \in I128, ConsumeMintAuthorization(c, t, a, amount),
         approvals' = approvals
  PROVE  BackInv'
<1> DEFINE key == <<c, t, a>>
           m   == mintAuthorization[key]
           n   == m.nullifier
           u   == [key |-> key, amount |-> amount, at |-> now]
<1>1. key \in MintKeys /\ m # None /\ m.amount = amount
  BY DEF MintKeys, ConsumeMintAuthorization, Usable
<1>2. /\ mintAuthorization' = [mintAuthorization EXCEPT ![key] = None]
      /\ consumed' = [consumed EXCEPT ![n] = Append(consumed[n], u)]
      /\ UNCHANGED <<now, rwaToken, attestation>>
  BY DEF ConsumeMintAuthorization, RemoveAuthorization, identityConfig
<1>3. n \in Nullifiers /\ Backed(key)
  BY <1>1, KeptIsOfType DEF BackInv, IdentityIsBacked, AuthorizationIsBacked, Backed
<1>4. consumed[n] = << >> /\ Append(consumed[n], u) = <<u>>
  BY <1>3 DEF Backed
<1>5. consumed' = [consumed EXCEPT ![n] = <<u>>]
  BY <1>2, <1>4
<1>6. u.amount = amount /\ u.key = key /\ key[3] = a
  OBVIOUS
<1> HIDE DEF n, u
<1>7. AttestationIsCapped'
  BY <1>2, AttestationStays DEF BackInv, IdentityIsBacked, AttestationIsCapped
<1>8. \A k \in MintKeys : mintAuthorization'[k] # None =>
        k # key /\ mintAuthorization'[k] = mintAuthorization[k]
  BY <1>1, <1>2, TheTypes
<1>9. \A k \in MintKeys : mintAuthorization'[k] # None => Backed(k)'
  <2> SUFFICES ASSUME NEW k \in MintKeys, mintAuthorization'[k] # None PROVE Backed(k)'
    OBVIOUS
  <2>1. k # key /\ mintAuthorization'[k] = mintAuthorization[k] /\ mintAuthorization[k] # None
    BY <1>8
  <2>2. mintAuthorization[k].nullifier # n
    BY <1>1, <2>1 DEF BackInv, OneKeyPerApproval, n
  <2>3. consumed'[mintAuthorization[k].nullifier] = consumed[mintAuthorization[k].nullifier]
    <3>1. mintAuthorization[k].nullifier \in Nullifiers
      BY <2>1, KeptIsOfType
    <3> QED BY <1>5, <2>2, <3>1, TheTypes
  <2>4. Backed(k)
    BY <2>1 DEF BackInv, IdentityIsBacked, AuthorizationIsBacked, Backed
  <2> QED BY <2>1, <2>3, <2>4, AuthorizationStays
<1>10. AuthorizationIsBacked'
  BY <1>9 DEF AuthorizationIsBacked, Backed
<1>11. ConsumedOnce'
  <2> SUFFICES ASSUME NEW o \in Nullifiers, consumed'[o] # << >>
               PROVE  /\ Len(consumed'[o]) = 1
                      /\ Len(approvals'[o]) = 1
                      /\ approvals'[o][1].kind = "authorized"
                      /\ approvals'[o][1].amount = consumed'[o][1].amount
                      /\ approvals'[o][1].account = consumed'[o][1].key[3]
    BY DEF ConsumedOnce
  <2>1. CASE o = n
    <3>1. consumed'[o] = <<u>>
      BY <1>3, <1>5, <2>1, TheTypes
    <3>2. Len(consumed'[o]) = 1 /\ consumed'[o][1] = u
      BY <3>1
    <3>3. /\ Len(approvals[n]) = 1 /\ approvals[n][1].kind = "authorized"
          /\ approvals[n][1].account = key[3] /\ approvals[n][1].amount = m.amount
      BY <1>3 DEF Backed, n
    <3> QED BY <1>1, <1>6, <2>1, <3>2, <3>3
  <2>2. CASE o # n
    <3>1. consumed'[o] = consumed[o]
      BY <1>5, <2>2, TheTypes
    <3> QED BY <3>1, ConsumptionStays DEF BackInv
  <2> QED BY <2>1, <2>2
<1>12. OneKeyPerApproval'
  BY <1>8 DEF BackInv, OneKeyPerApproval
<1> QED BY <1>7, <1>10, <1>11, <1>12 DEF BackInv, IdentityIsBacked

-----------------------------------------------------------------------------
LEMMA BackStep == IInv /\ IInv' /\ [Next]_vars /\ BackInv => BackInv'
<1> SUFFICES ASSUME IInv, IInv', [Next]_vars, BackInv PROVE BackInv'
  OBVIOUS
<1>1. CASE AttestAccount \/ AuthorizeMint
  BY <1>1, AttestAccountBacks, AuthorizeMintBacks
<1>2. CASE ConsumeDirectly
  BY <1>2, ConsumeBacks, RequestType DEF ConsumeDirectly, Consumers
<1>3. CASE TokenStep
  <2>1. PICK t \in RwaTokens, a \in Accounts, b \in Accounts, req \in Requests :
          \/ Mint(t, a, req.amount)
          \/ TransferShares(t, a, b, req.amount)
          \/ Burn(t, a, req.amount)
    BY <1>3 DEF TokenStep
  <2>2. approvals' = approvals
    BY <1>3 DEF TokenStep
  <2>3. CASE Mint(t, a, req.amount)
    BY <2>2, <2>3, ConsumeBacks, RequestType DEF Mint, Created, Consumers
  <2>4. CASE TransferShares(t, a, b, req.amount) \/ Burn(t, a, req.amount)
    BY <2>4, NothingKept DEF TransferShares, Burn, identityVars
  <2> QED BY <2>1, <2>3, <2>4
<1>4. CASE Pay \/ TransferRwa \/ FundGate \/ Tick
  BY <1>4, NothingKept DEF Pay, TransferRwa, FundGate, Tick, CloseLedger, identityVars
<1>5. CASE \E by \in Principals : AdminStep(by)
  BY <1>5, NothingKept
     DEF AdminStep, OwnershipAdmin, IssuerAdmin, PolicyAdmin, NullifierAdmin,
         VerifierAdmin, PaymentAdmin, RwaAdmin, IdentityAdmin, AdapterAdmin, identityVars
<1>6. CASE UNCHANGED vars
  BY <1>6, NothingKept DEF vars, identityVars
<1> QED BY <1>1, <1>2, <1>3, <1>4, <1>5, <1>6 DEF Next, UserStep

LEMMA BackInit == Init \/ DeployedInit => BackInv
BY DEF Init, DeployedInit, IdentityInit, BackInv, IdentityIsBacked, AttestationIsCapped,
       AuthorizationIsBacked, ConsumedOnce, OneKeyPerApproval

(* Every attestation and every mint authorization in storage comes from an *)
(* approved proof for that account, and the authorization for that amount  *)
(* and token; neither reaches further than the cap, whatever mappings and  *)
(* consumers the admins add meanwhile.                                     *)
THEOREM KeptIsBacked == Spec \/ DeployedSpec => []IdentityIsBacked
<1>1. BackInv => IdentityIsBacked
  BY DEF BackInv
<1> QED BY <1>1, BackInit, BackStep, InitInv, DeployedInitInv, StepInv, PTL
        DEF Spec, DeployedSpec

(* An approval is consumed at most once, over all consumers, for its exact *)
(* amount and account.                                                     *)
THEOREM UsedOnce == Spec \/ DeployedSpec => []ConsumedOnce
<1>1. BackInv => ConsumedOnce
  BY DEF BackInv
<1> QED BY <1>1, BackInit, BackStep, InitInv, DeployedInitInv, StepInv, PTL
        DEF Spec, DeployedSpec

=============================================================================
