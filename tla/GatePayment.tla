----------------------------- MODULE GatePayment -----------------------------
(***************************************************************************)
(* contracts/gate_payment: pays a mapped recipient from the gate's own     *)
(* balance of a Stellar Asset Contract against a valid, unspent proof.     *)
(***************************************************************************)
EXTENDS ProofChecks

CONSTANT PayTokens  \* Stellar Asset Contracts the gate can be funded with

VARIABLES
  token,            \* [Assets -> PayTokens or None], storage key Token
  recipient,        \* [RecipientIds -> Accounts or None], storage key Recipient
  balance           \* [PayTokens -> [Holders -> I128]], the SAC's ledger (external)

paymentVars == <<token, recipient, balance>>

Holders == Accounts \cup {PaymentGate}

ASSUME PayTokenAssumption == None \notin PayTokens /\ PaymentGate \notin Accounts

PaymentTypeOK ==
  /\ token \in [Assets -> PayTokens \cup {None}]
  /\ recipient \in [RecipientIds -> Accounts \cup {None}]
  /\ balance \in [PayTokens -> [Holders -> I128]]

PaymentInit ==
  /\ token = [a \in Assets |-> None]
  /\ recipient = [r \in RecipientIds |-> None]
  /\ balance = [t \in PayTokens |-> [h \in Holders |-> 0]]

SetToken(by, a, t) ==
  /\ RequireAdmin(PaymentGate, by)
  /\ token[a] = None
  /\ token' = [token EXCEPT ![a] = t]
  /\ UNCHANGED <<recipient, balance>>

SetRecipient(by, r, account) ==
  /\ RequireAdmin(PaymentGate, by)
  /\ recipient[r] = None
  /\ recipient' = [recipient EXCEPT ![r] = account]
  /\ UNCHANGED <<token, balance>>

\* Faulty: a transfer that cannot be covered is skipped.
SacTransferFaulty(t, from, to, amount) ==
  \/ /\ balance[t][from] >= amount
     /\ balance' = [balance EXCEPT ![t] = Moved(balance[t], from, to, amount)]
  \/ balance[t][from] < amount /\ UNCHANGED balance

\* The SAC's transfer: traps unless the sender can cover the amount.
SacTransfer(t, from, to, amount) ==
  /\ amount >= 0
  /\ balance[t][from] >= amount
  /\ balance' = [balance EXCEPT ![t] = Moved(balance[t], from, to, amount)]
  /\ balance'[t][to] \in I128

\* Someone funds the gate; the funds come from outside the model.
Deposit(t, amount) ==
  /\ amount > 0
  /\ balance' = [balance EXCEPT ![t][PaymentGate] = @ + amount]
  /\ balance'[t][PaymentGate] \in I128
  /\ UNCHANGED <<token, recipient>>

VerifyAndPay(s, req, packetHash) ==
  /\ EnsureNotPaused(PaymentGate)
  /\ req.amount > 0
  /\ SignalsMatchPolicy(s, req.policy, Payment, req.epoch)
  /\ SignalsMatchAction(s, req)
  /\ RootsInForce(s)
  /\ packetHash = BoundHash(s)
  /\ ~IsUsed(Nullifier(s))
  /\ ProofAccepted(s, req.policy)
  /\ token[req.asset] # None
  /\ recipient[req.recipient] # None
  /\ SacTransfer(token[req.asset], PaymentGate, recipient[req.recipient], req.amount)
  /\ MarkUsed(PaymentGate, Nullifier(s))
  /\ PublishApproval([gate |-> PaymentGate, kind |-> "paid", statement |-> s,
                      amount |-> req.amount, circuit |-> vk,
                      account |-> recipient[req.recipient]])
  /\ UNCHANGED <<token, recipient, peerVars>>

=============================================================================
