-------------------------- MODULE AccessProperties --------------------------
(***************************************************************************)
(* What must be true of the access layer, over the approvals its contracts *)
(* publish and the value they move.                                        *)
(***************************************************************************)
EXTENDS AccessLayer, FiniteSetsExt

Published == {n \in Nullifiers : approvals[n] # << >>}

Amounts == [n \in Published |-> approvals[n][1].amount]

\* The amounts approved under the nullifiers for which P holds of the approval.
SumApproved(P(_)) ==
  SumFunctionOnSet(Amounts, {n \in Published : P(approvals[n][1])})

-----------------------------------------------------------------------------
(* One action per person, policy and epoch over all gates: a nullifier     *)
(* carries at most one approval, and is marked exactly when it carries one *)
(* (the check is_used, the effect and mark_used are three calls).          *)
OneApprovalPerNullifier ==
  \A n \in Nullifiers :
    /\ Len(approvals[n]) <= 1
    /\ n \in used <=> Len(approvals[n]) = 1

(* Each payee holds exactly what approvals naming it say, for the token    *)
(* the asset is mapped to now: no payment without an approval, no approval *)
(* without its payment, no payment to where the mapping never pointed.     *)
PayeesHoldWhatWasApproved ==
  \A t \in PayTokens, a \in Accounts :
    balance[t][a] =
      SumApproved(LAMBDA p : /\ p.kind = "paid"
                             /\ token[p.statement.asset] = t
                             /\ recipient[p.statement.recipient] = a)

(* gate_rwa's holdings are the sums of the transfers it approved, so what  *)
(* left the inventory is what reached the holders, and nothing is ever     *)
(* owed below zero.                                                        *)
HoldingsMatchApprovals ==
  \A a \in Assets, r \in RecipientIds :
    /\ inventory[a] >= 0
    /\ holding[<<a, r>>] =
         SumApproved(LAMBDA p : /\ p.kind = "transferred"
                                /\ p.statement.asset = a
                                /\ p.statement.recipient = r)

(* What payees and holders have are the sums of what the two gates         *)
(* approved for them, in either order of effect and event.                 *)
BooksBalance == PayeesHoldWhatWasApproved /\ HoldingsMatchApprovals

(* The amount that moves is the amount that was proven, as an integer and  *)
(* not only modulo 2^128, and is within the limit of a credential of the   *)
(* prover.                                                                 *)
ApprovedAmountIsProvenAmount ==
  \A n \in Published : LET p == approvals[n][1] IN
    p.kind # "attested" =>
      /\ p.amount > 0
      /\ p.amount = p.statement.amount
      /\ \E c \in Credentials : c.person = n[1] /\ p.amount <= c.limit

(* A mint authorization waiting to be used comes from one approval, for    *)
(* the same amount and account, that has not been used before; it cannot   *)
(* outlive the attestation cap.                                            *)
AuthorizationIsBacked ==
  \A k \in MintKeys :
    mintAuthorization[k] # None =>
      LET m == mintAuthorization[k]
          p == approvals[m.nullifier][1]
      IN  /\ Len(approvals[m.nullifier]) = 1
          /\ p.kind = "authorized"
          /\ p.account = k[3]
          /\ p.amount = m.amount
          /\ rwaToken[p.statement.asset] = k[2]
          /\ consumed[m.nullifier] = << >>
          /\ m.validUntil <= now + MaxAttestationTtl

(* An approval is minted at most once, for its exact amount and account.   *)
ConsumedOnce ==
  \A n \in Nullifiers :
    consumed[n] # << >> =>
      /\ Len(consumed[n]) = 1
      /\ Len(approvals[n]) = 1
      /\ approvals[n][1].kind = "authorized"
      /\ approvals[n][1].amount = consumed[n][1].amount
      /\ approvals[n][1].account = consumed[n][1].key[3]

(* Every authorization is used at most once, and the token in circulation  *)
(* never exceeds what was authorized.                                      *)
MintedAtMostOnce ==
  /\ ConsumedOnce
  /\ \A t \in RwaTokens :
       SumFunctionOnSet(shares[t], Accounts) <=
         SumApproved(LAMBDA p : /\ p.kind = "authorized"
                                /\ rwaToken[p.statement.asset] = t)

(* An attestation never reaches further than the cap from now, and there   *)
(* is an approved proof behind it.                                         *)
AttestationIsCapped ==
  \A a \in Accounts :
    attestation[a] # None =>
      /\ attestation[a] <= now + MaxAttestationTtl
      /\ \E n \in Published : /\ approvals[n][1].kind \in {"attested", "authorized"}
                              /\ approvals[n][1].account = a

(* Whatever the identity verifier keeps for later transactions is backed   *)
(* by an approval and capped.                                              *)
IdentityIsBacked == AttestationIsCapped /\ AuthorizationIsBacked

-----------------------------------------------------------------------------
(* Pausing a gate or revoking it from the nullifier registry stops its     *)
(* approvals, and pausing the identity verifier also stops mints and share *)
(* transfers of every token that asks it.                                  *)
StoppedGateApprovesNothing ==
  [][/\ \A n \in Nullifiers : approvals'[n] # approvals[n] =>
          LET gate == approvals'[n][Len(approvals'[n])].gate IN
          gate \in gateAllowed /\ ~paused[gate]
     /\ (Identity \in Gates /\ paused[Identity]) =>
          /\ consumed' = consumed
          /\ \A t \in RwaTokens, a \in Accounts : shares'[t][a] <= shares[t][a]
    ]_vars

(* Once the key is frozen every later approval is for a proof of that same *)
(* circuit, whatever policies say and whoever administers the verifier.    *)
FrozenKeyIsFinal ==
  [][frozen => /\ frozen'
               /\ \A n \in Nullifiers : approvals'[n] # approvals[n] =>
                    approvals'[n][Len(approvals'[n])].statement.circuit = vk
               /\ vk' = vk]_vars

(* An expired mint authorization is never removed or replaced: it cannot   *)
(* be consumed any more, and it keeps attest_for_mint from writing another *)
(* for the same consumer, token and account.                               *)
ExpiredAuthorizationStays ==
  [][\A k \in MintKeys :
       (mintAuthorization[k] # None /\ mintAuthorization[k].validUntil < now) =>
         mintAuthorization'[k] = mintAuthorization[k]]_vars

-----------------------------------------------------------------------------
(* The contracts implement the promise: roots are the sets they commit to, *)
(* an absent root admits nobody, and an approval is a grant.               *)
Enrolled == [i \in Issuers |-> IF root[i] = None THEN {} ELSE root[i]]
Denied   == IF sanctionsRoot = None THEN Persons \X Issuers ELSE sanctionsRoot
Revoked  == [i \in Issuers |-> IF revocationRoot[i] = None THEN Credentials
                                                           ELSE revocationRoot[i]]
Granted  == [n \in Nullifiers |->
               [j \in DOMAIN approvals[n] |-> approvals[n][j].statement]]

Promise == INSTANCE AccessPromise
  WITH enrolled <- Enrolled, denied <- Denied, revoked <- Revoked, granted <- Granted

(* Every step of the contracts is a grant, a publication or nothing, as    *)
(* AccessPromise allows it: no person is granted twice for a policy and    *)
(* epoch, and none who is not enrolled, or who is denied, when it happens. *)
KeepsPromise == Promise!PromiseSpec

=============================================================================
