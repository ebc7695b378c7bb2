------------------------ MODULE GovernanceProperties ------------------------
(***************************************************************************)
(* What the timelocked threshold must keep true while the rules themselves *)
(* are being changed.                                                      *)
(***************************************************************************)
EXTENDS Governance

Approvers(id) == {a \in Addresses : <<id, a>> \in approval}

Occurrences(id) == {k \in DOMAIN executions : executions[k] = id}

(* The counter execute compares with the threshold is the number of        *)
(* distinct addresses that approved, the proposer among them, however      *)
(* often the signer set was replaced and a signer removed and added again. *)
CountIsApprovers ==
  \A id \in DOMAIN proposals :
    /\ proposals[id].approvals = Cardinality(Approvers(id))
    /\ proposals[id].proposer \in Approvers(id)

(* No lockout: the flags require_signer reads are those of the signer list *)
(* in force, and there are always enough distinct signers to meet both     *)
(* thresholds.                                                             *)
SignersCanReachThresholds ==
  IF config = NoConfig THEN isSigner = {}
  ELSE /\ isSigner = SignersOf(config)
       /\ config.threshold \in 1 .. Cardinality(isSigner)
       /\ config.emergencyThreshold \in 1 .. Cardinality(isSigner)

(* A proposal acts once when it is marked executed and not otherwise,      *)
(* whoever calls execute and however often: the mark is written after the  *)
(* calls to the other contracts.                                           *)
ActsOnce ==
  \A id \in DOMAIN proposals :
    Cardinality(Occurrences(id)) = (IF proposals[id].executed THEN 1 ELSE 0)

(* What is stored of a proposal is true of its whole life.                 *)
ProposalsAreExact == CountIsApprovers /\ ActsOnce

\* The normal delay passed since the proposal was made, counted from the
\* ledger and the rules it was made under and not from the eta that propose
\* stored.  Where that sum is beyond the last ledger there is, only the last
\* one will do.
WaitedOut(id) ==
  ledger >= proposals[id].made + proposals[id].delay \/ ledger = U32Max

\* As many addresses approved as the normal path asks for now.
Supported(id) == Cardinality(Approvers(id)) >= config.threshold

(* The rules change only by a proposal of that change that took the normal *)
(* path: as many approvers as the old rules ask for and the delay in force *)
(* when it was made waited out in full, also where made + delay is beyond  *)
(* a u32.  No emergency proposal and no second init changes them.          *)
RulesChangeByProposal ==
  [][config' # config /\ config # NoConfig =>
       \E id \in DOMAIN proposals :
         /\ executions' = Append(executions, id)
         /\ proposals[id].action = config'
         /\ ~proposals[id].emergency
         /\ Supported(id) /\ WaitedOut(id)]_govVars

(* What executes although the normal path would still have refused it, for *)
(* too few approvers or before the normal delay passed, is Pause, Unpause  *)
(* or RevokeGate: nothing else is done on fewer approvers or sooner than   *)
(* by a normal proposal.                                                   *)
OnlySafetyActsFast ==
  [][\A id \in DOMAIN proposals :
       (executions' # executions /\ executions'[Len(executions')] = id
          /\ ~(Supported(id) /\ WaitedOut(id))) =>
         proposals[id].action \in EmergencyCalls]_govVars

(* docs/GOVERNANCE.md says a proposal executes when the signer set reaches *)
(* the threshold: the approvers that count are signers when it executes.   *)
SignerSetReachedThreshold ==
  [][\A id \in DOMAIN proposals :
       (executions' # executions /\ executions'[Len(executions')] = id) =>
         Cardinality(Approvers(id) \cap isSigner) >= Required(proposals[id])]_govVars

=============================================================================
