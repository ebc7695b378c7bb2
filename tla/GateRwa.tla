------------------------------- MODULE GateRwa -------------------------------
(***************************************************************************)
(* contracts/gate_rwa: an in-contract inventory per asset, moved to a      *)
(* recipient id's holding against a valid, unspent proof.                  *)
(***************************************************************************)
EXTENDS ProofChecks

VARIABLES
  inventory,        \* [Assets -> I128], storage key Inventory (0 when absent)
  holding           \* [Assets \X RecipientIds -> I128], storage key Holding

rwaVars == <<inventory, holding>>

RwaTypeOK ==
  /\ inventory \in [Assets -> I128]
  /\ holding \in [Assets \X RecipientIds -> I128]

RwaInit ==
  /\ inventory = [a \in Assets |-> 0]
  /\ holding = [h \in Assets \X RecipientIds |-> 0]

\* Faulty: the addition does not trap.
FundFaulty(by, a, amount) ==
  /\ RequireAdmin(RwaGate, by)
  /\ amount > 0
  /\ inventory' = [inventory EXCEPT ![a] = @ + amount]
  /\ UNCHANGED holding

\* i128 additions trap on overflow (overflow-checks in the release profile).
Fund(by, a, amount) ==
  /\ RequireAdmin(RwaGate, by)
  /\ amount > 0
  /\ inventory[a] + amount \in I128
  /\ inventory' = [inventory EXCEPT ![a] = @ + amount]
  /\ UNCHANGED holding

MoveInventory(a, r, amount) ==
  /\ inventory[a] >= amount
  /\ holding[<<a, r>>] + amount \in I128
  /\ inventory' = [inventory EXCEPT ![a] = @ - amount]
  /\ holding' = [holding EXCEPT ![<<a, r>>] = @ + amount]

VerifyAndTransfer(s, req, termsHash) ==
  /\ EnsureNotPaused(RwaGate)
  /\ req.amount > 0
  /\ SignalsMatchPolicy(s, req.policy, Rwa, req.epoch)
  /\ SignalsMatchAction(s, req)
  /\ RootsInForce(s)
  /\ termsHash = BoundHash(s)
  /\ ~IsUsed(Nullifier(s))
  /\ ProofAccepted(s, req.policy)
  /\ MoveInventory(req.asset, req.recipient, req.amount)
  /\ MarkUsed(RwaGate, Nullifier(s))
  /\ PublishApproval([gate |-> RwaGate, kind |-> "transferred", statement |-> s,
                      amount |-> req.amount, circuit |-> vk, account |-> None])
  /\ UNCHANGED peerVars

=============================================================================
