-------------------------- MODULE GovernanceProofs --------------------------
(***************************************************************************)
(* Proofs about the governance contract, and about the access layer under  *)
(* it, for any signers, rules, calls, number of proposals and order of the *)
(* handover.                                                               *)
(***************************************************************************)
EXTENDS GovernedAccess, FiniteSetTheorems, SequenceTheorems, TLAPS

-----------------------------------------------------------------------------
(* The rules in force are valid ones, and the flags are those of their     *)
(* signers: each signer counts once.                                       *)
RulesOK == config # NoConfig => ValidConfig(config) /\ isSigner = SignersOf(config)

LEMMA SignerCount ==
  ASSUME NEW r \in Config, ValidConfig(r)
  PROVE  Cardinality(SignersOf(r)) = Len(r.signers) /\ SignersOf(r) \subseteq Addresses
<1> DEFINE n == Len(r.signers)
<1>1. r.signers \in Seq(Addresses) /\ n \in Nat /\ DOMAIN r.signers = 1 .. n
  BY DEF Config
<1>2. r.signers \in Bijection(1 .. n, SignersOf(r))
  <2>1. r.signers \in [1 .. n -> SignersOf(r)]
    BY <1>1 DEF SignersOf
  <2>2. \A i, j \in 1 .. n : r.signers[i] = r.signers[j] => i = j
    BY <1>1 DEF ValidConfig, IsDuplicateFree
  <2>3. \A x \in SignersOf(r) : \E i \in 1 .. n : r.signers[i] = x
    BY <1>1 DEF SignersOf
  <2> QED BY <2>1, <2>2, <2>3 DEF Bijection, Injection, Surjection, IsInjective
<1>3. ExistsBijection(1 .. n, SignersOf(r))
  BY <1>2 DEF ExistsBijection
<1>4. Cardinality(SignersOf(r)) = n
  BY <1>1, <1>3, FS_CountingElements
<1>5. SignersOf(r) \subseteq Addresses
  BY <1>1 DEF SignersOf
<1> QED BY <1>4, <1>5

LEMMA RulesImplyQuorum ==
  ASSUME GovTypeOK, RulesOK, config = NoConfig => isSigner = {}
  PROVE  SignersCanReachThresholds
<1>1. CASE config = NoConfig
  BY <1>1 DEF SignersCanReachThresholds
<1>2. CASE config # NoConfig
  <2>1. config \in Config
    BY <1>2, GovernanceAssumption DEF GovTypeOK
  <2>2. ValidConfig(config) /\ isSigner = SignersOf(config)
    BY <1>2 DEF RulesOK
  <2>3. Cardinality(isSigner) = Len(config.signers)
    BY <2>1, <2>2, SignerCount
  <2> QED BY <1>2, <2>2, <2>3 DEF SignersCanReachThresholds, ValidConfig
<1> QED BY <1>1, <1>2

-----------------------------------------------------------------------------
(* Approvals and executions name proposals that exist, and the last id is  *)
(* never given out.                                                        *)
IdsOK ==
  /\ Len(proposals) < U32Max
  /\ \A id \in Ids, x \in Addresses : <<id, x>> \in approval => id \in 1 .. Len(proposals)
  /\ \A k \in DOMAIN executions : executions[k] \in 1 .. Len(proposals)

(* Only the safety actions are ever proposed as emergencies.               *)
EmergenciesOK ==
  \A id \in DOMAIN proposals :
    proposals[id].emergency => proposals[id].action \in EmergencyCalls

(* The stored eta of a normal proposal is the saturating sum of the ledger *)
(* it was made in and the normal delay of then.                            *)
EtasOK ==
  \A id \in DOMAIN proposals :
    ~proposals[id].emergency =>
      proposals[id].eta = SaturatingAdd(proposals[id].made, proposals[id].delay)

GovIInv ==
  /\ GovTypeOK
  /\ RulesOK
  /\ config = NoConfig => isSigner = {}
  /\ IdsOK
  /\ CountIsApprovers
  /\ ActsOnce
  /\ EmergenciesOK
  /\ EtasOK

LEMMA GovInitInv == GovInit => GovIInv
<1> SUFFICES ASSUME GovInit PROVE GovIInv
  OBVIOUS
<1> USE GovernanceAssumption DEF GovInit
<1>1. proposals \in Seq(Proposal) /\ executions \in Seq(Ids) /\ Len(proposals) = 0
      /\ DOMAIN proposals = {} /\ DOMAIN executions = {}
  BY EmptySeq
<1>2. GovTypeOK
  BY <1>1 DEF GovTypeOK
<1>3. IdsOK
  BY <1>1 DEF IdsOK
<1>4. CountIsApprovers /\ ActsOnce /\ EmergenciesOK /\ EtasOK
  BY <1>1 DEF CountIsApprovers, ActsOnce, EmergenciesOK, EtasOK
<1> QED BY <1>2, <1>3, <1>4 DEF GovIInv, RulesOK

LEMMA SetConfigRules ==
  ASSUME GovIInv, NEW r \in Configs, SetConfig(r)
  PROVE  RulesOK' /\ isSigner' \subseteq Addresses /\ config' \in Configs /\ config' # NoConfig
<1>1. r \in Config /\ ValidConfig(r) /\ config' = r /\ r # NoConfig
  BY GovernanceAssumption DEF SetConfig
<1>2. isSigner' = SignersOf(r)
  <2>1. CASE config = NoConfig
    BY <2>1 DEF SetConfig, GovIInv
  <2>2. CASE config # NoConfig
    BY <2>2 DEF SetConfig, GovIInv, RulesOK
  <2> QED BY <2>1, <2>2
<1>3. RulesOK'
  BY <1>1, <1>2 DEF RulesOK, ValidConfig, SignersOf, IsDuplicateFree
<1> QED BY <1>1, <1>2, <1>3, SignerCount

LEMMA InitializeInv ==
  ASSUME GovIInv, NEW r \in Configs, Initialize(r)
  PROVE  GovIInv'
<1>1. RulesOK' /\ isSigner' \subseteq Addresses /\ config' \in Configs /\ config' # NoConfig
  BY SetConfigRules DEF Initialize
<1>2. GovTypeOK'
  BY <1>1 DEF Initialize, GovIInv, GovTypeOK
<1>3. IdsOK' /\ CountIsApprovers' /\ ActsOnce' /\ EmergenciesOK' /\ EtasOK'
  BY DEF Initialize, GovIInv, IdsOK, CountIsApprovers, ActsOnce, EmergenciesOK, EtasOK,
         Approvers, Occurrences
<1> QED BY <1>1, <1>2, <1>3 DEF GovIInv

LEMMA SaturatingType ==
  ASSUME NEW x \in 0 .. U32Max, NEW y \in 0 .. U32Max
  PROVE  SaturatingAdd(x, y) \in 0 .. U32Max
BY GovernanceAssumption DEF SaturatingAdd

(* A set of approvers is finite and gains at most one member.              *)
LEMMA ApproversFinite ==
  ASSUME GovTypeOK, NEW id
  PROVE  IsFiniteSet(Approvers(id)) /\ Cardinality(Approvers(id)) \in Nat
<1>1. Approvers(id) \subseteq Addresses
  BY DEF Approvers
<1>2. IsFiniteSet(Approvers(id))
  BY <1>1, FS_Subset, GovernanceAssumption
<1> QED BY <1>2, FS_CardinalityType

LEMMA ProposeInv ==
  ASSUME GovIInv, NEW signer \in Addresses, NEW action \in Actions,
         NEW emergency \in BOOLEAN, Propose(signer, action, emergency)
  PROVE  GovIInv'
<1> USE DEF GovIInv
<1> DEFINE n == Len(proposals) + 1
           delay == IF emergency THEN config.emergencyDelay ELSE config.delay
           p == [proposer |-> signer, action |-> action,
                 eta |-> SaturatingAdd(ledger, delay),
                 approvals |-> 1, emergency |-> emergency, executed |-> FALSE,
                 made |-> ledger, delay |-> config.delay]
<1>1. /\ proposals' = Append(proposals, p) /\ approval' = approval \cup {<<n, signer>>}
      /\ n + 1 <= U32Max /\ signer \in isSigner
      /\ UNCHANGED <<ledger, config, isSigner, executions>>
  BY DEF Propose, GovTypeOK
<1>2. config \in Config
  BY <1>1, GovernanceAssumption DEF GovTypeOK
<1>3. p \in Proposal
  <2>1. delay \in 0 .. U32Max
    BY <1>2 DEF Config
  <2>2. SaturatingAdd(ledger, delay) \in 0 .. U32Max
    BY <2>1, SaturatingType DEF GovTypeOK
  <2>3. ledger \in 0 .. U32Max /\ config.delay \in 0 .. U32Max
    BY <1>2 DEF GovTypeOK, Config
  <2> QED BY <2>2, <2>3, GovernanceAssumption DEF Proposal
<1> HIDE DEF p
<1>4. /\ proposals \in Seq(Proposal) /\ Len(proposals) \in Nat
      /\ DOMAIN proposals = 1 .. Len(proposals)
  BY LenProperties DEF GovTypeOK
<1>5. /\ proposals' \in Seq(Proposal) /\ Len(proposals') = n
      /\ \A i \in 1 .. Len(proposals) : proposals'[i] = proposals[i]
      /\ proposals'[n] = p
  BY <1>1, <1>3, <1>4, AppendProperties
<1>6. DOMAIN proposals' = 1 .. n
  BY <1>5, LenProperties
<1>7. n \in Ids
  BY <1>1, <1>4, GovernanceAssumption DEF Ids
<1>8. GovTypeOK'
  BY <1>1, <1>5, <1>7 DEF GovTypeOK
<1>9. RulesOK' /\ (config' = NoConfig => isSigner' = {})
  BY <1>1 DEF RulesOK, ValidConfig, SignersOf, IsDuplicateFree
<1>10. IdsOK'
  BY <1>1, <1>4, <1>5, <1>7, GovernanceAssumption DEF IdsOK
<1>11. CountIsApprovers'
  <2> SUFFICES ASSUME NEW id \in 1 .. n
               PROVE  /\ proposals'[id].approvals = Cardinality(Approvers(id)')
                      /\ proposals'[id].proposer \in Approvers(id)'
    BY <1>6 DEF CountIsApprovers
  <2>1. CASE id = n
    <3>1. Approvers(id) = {}
      BY <1>4, <1>7, <2>1 DEF Approvers, IdsOK
    <3>2. Approvers(id)' = {signer}
      BY <1>1, <2>1, <3>1 DEF Approvers
    <3>3. Cardinality({signer}) = 1
      BY FS_Singleton
    <3>4. proposals'[id].approvals = 1 /\ proposals'[id].proposer = signer
      BY <1>5, <2>1 DEF p
    <3> QED BY <3>2, <3>3, <3>4
  <2>2. CASE id # n
    <3>1. id \in DOMAIN proposals /\ proposals'[id] = proposals[id]
      BY <1>4, <1>5, <2>2
    <3>2. Approvers(id)' = Approvers(id)
      BY <1>1, <2>2 DEF Approvers
    <3> QED BY <3>1, <3>2 DEF CountIsApprovers
  <2> QED BY <2>1, <2>2
<1>12. ActsOnce'
  <2> SUFFICES ASSUME NEW id \in 1 .. n
               PROVE  Cardinality(Occurrences(id)') =
                        (IF proposals'[id].executed THEN 1 ELSE 0)
    BY <1>6 DEF ActsOnce
  <2>1. Occurrences(id)' = Occurrences(id)
    BY <1>1 DEF Occurrences
  <2>2. CASE id = n
    <3>1. Occurrences(id) = {}
      BY <1>4, <2>2 DEF Occurrences, IdsOK
    <3>2. ~proposals'[id].executed
      BY <1>5, <2>2 DEF p
    <3> QED BY <2>1, <3>1, <3>2, FS_EmptySet
  <2>3. CASE id # n
    BY <1>4, <1>5, <2>1, <2>3 DEF ActsOnce
  <2> QED BY <2>2, <2>3
<1>13. EmergenciesOK'
  <2>1. emergency => action \in EmergencyCalls
    BY DEF Propose, IsEmergencyAction
  <2>2. p.emergency = emergency /\ p.action = action
    BY DEF p
  <2>3. \A i \in 1 .. n : proposals'[i] = IF i = n THEN p ELSE proposals[i]
    BY <1>4, <1>5
  <2> QED BY <1>4, <1>6, <2>1, <2>2, <2>3 DEF EmergenciesOK
<1>14. EtasOK'
  <2>1. ~p.emergency => p.eta = SaturatingAdd(p.made, p.delay)
    BY DEF p
  <2>2. \A i \in 1 .. n : proposals'[i] = IF i = n THEN p ELSE proposals[i]
    BY <1>4, <1>5
  <2> QED BY <1>4, <1>6, <2>1, <2>2 DEF EtasOK
<1> QED BY <1>8, <1>9, <1>10, <1>11, <1>12, <1>13, <1>14

LEMMA ApproveInv ==
  ASSUME GovIInv, NEW signer \in Addresses, NEW id \in DOMAIN proposals,
         Approve(signer, id)
  PROVE  GovIInv'
<1> USE DEF GovIInv
<1> DEFINE p == [proposals[id] EXCEPT !.approvals = @ + 1]
<1>1. /\ proposals' = [proposals EXCEPT ![id] = p]
      /\ approval' = approval \cup {<<id, signer>>} /\ <<id, signer>> \notin approval
      /\ proposals[id].approvals < U32Max
      /\ UNCHANGED <<ledger, config, isSigner, executions>>
  BY DEF Approve
<1>2. /\ proposals \in Seq(Proposal) /\ Len(proposals) \in Nat
      /\ DOMAIN proposals = 1 .. Len(proposals) /\ proposals[id] \in Proposal
  BY LenProperties DEF GovTypeOK
<1>3. p \in Proposal
  <2>1. proposals[id].approvals + 1 \in 0 .. U32Max
    BY <1>1, <1>2, GovernanceAssumption DEF Proposal
  <2> QED BY <1>2, <2>1 DEF Proposal
<1>4. p.approvals = proposals[id].approvals + 1 /\ p.proposer = proposals[id].proposer
      /\ p.executed = proposals[id].executed
  BY <1>2 DEF Proposal
<1> HIDE DEF p
<1>5. /\ proposals' \in Seq(Proposal) /\ Len(proposals') = Len(proposals)
      /\ \A j \in 1 .. Len(proposals) : proposals'[j] = IF j = id THEN p ELSE proposals[j]
  BY <1>1, <1>2, <1>3, ExceptSeq
<1>6. DOMAIN proposals' = 1 .. Len(proposals)
  BY <1>5, LenProperties
<1>7. id \in Ids
  BY <1>2, GovernanceAssumption DEF IdsOK, Ids
<1>8. GovTypeOK'
  BY <1>1, <1>5, <1>7 DEF GovTypeOK
<1>9. RulesOK' /\ (config' = NoConfig => isSigner' = {})
  BY <1>1 DEF RulesOK, ValidConfig, SignersOf, IsDuplicateFree
<1>10. IdsOK'
  BY <1>1, <1>2, <1>5, <1>7 DEF IdsOK
<1>11. CountIsApprovers'
  <2> SUFFICES ASSUME NEW i \in 1 .. Len(proposals)
               PROVE  /\ proposals'[i].approvals = Cardinality(Approvers(i)')
                      /\ proposals'[i].proposer \in Approvers(i)'
    BY <1>6 DEF CountIsApprovers
  <2>1. /\ proposals[i].approvals = Cardinality(Approvers(i))
        /\ proposals[i].proposer \in Approvers(i)
    BY <1>2 DEF CountIsApprovers
  <2>2. CASE i = id
    <3>1. Approvers(i)' = Approvers(i) \cup {signer} /\ signer \notin Approvers(i)
      BY <1>1, <2>2 DEF Approvers
    <3>2. Cardinality(Approvers(i) \cup {signer}) = Cardinality(Approvers(i)) + 1
      BY <3>1, ApproversFinite, FS_AddElement
    <3>3. proposals'[i].approvals = Cardinality(Approvers(i)) + 1
          /\ proposals'[i].proposer = proposals[i].proposer
      BY <1>4, <1>5, <2>1, <2>2
    <3> QED BY <2>1, <3>1, <3>2, <3>3
  <2>3. CASE i # id
    <3>1. Approvers(i)' = Approvers(i)
      BY <1>1, <2>3 DEF Approvers
    <3> QED BY <1>5, <2>1, <2>3, <3>1
  <2> QED BY <2>2, <2>3
<1>12. ActsOnce'
  <2>1. \A i \in 1 .. Len(proposals) : proposals'[i].executed = proposals[i].executed
    BY <1>4, <1>5
  <2>2. \A i : Occurrences(i)' = Occurrences(i)
    BY <1>1 DEF Occurrences
  <2> QED BY <1>2, <1>6, <2>1, <2>2 DEF ActsOnce
<1>13. EmergenciesOK'
  <2>1. p.emergency = proposals[id].emergency /\ p.action = proposals[id].action
    BY <1>2 DEF p, Proposal
  <2> QED BY <1>2, <1>5, <1>6, <2>1 DEF EmergenciesOK
<1>14. EtasOK'
  <2>1. /\ p.emergency = proposals[id].emergency /\ p.eta = proposals[id].eta
        /\ p.made = proposals[id].made /\ p.delay = proposals[id].delay
    BY <1>2 DEF p, Proposal
  <2> QED BY <1>2, <1>5, <1>6, <2>1 DEF EtasOK
<1> QED BY <1>8, <1>9, <1>10, <1>11, <1>12, <1>13, <1>14

LEMMA ExecuteInv ==
  ASSUME GovIInv, NEW id \in DOMAIN proposals, Execute(id)
  PROVE  GovIInv'
<1> USE DEF GovIInv
<1> DEFINE p == [proposals[id] EXCEPT !.executed = TRUE]
<1>1. /\ proposals' = [proposals EXCEPT ![id] = p]
      /\ ~proposals[id].executed
      /\ executions' = Append(executions, id)
      /\ ExecuteAction(proposals[id].action)
      /\ UNCHANGED <<ledger, approval>>
  BY DEF Execute, Executable
<1>2. /\ proposals \in Seq(Proposal) /\ Len(proposals) \in Nat
      /\ DOMAIN proposals = 1 .. Len(proposals) /\ proposals[id] \in Proposal
  BY LenProperties DEF GovTypeOK
<1>3. p \in Proposal
  BY <1>2 DEF Proposal
<1>4. p.approvals = proposals[id].approvals /\ p.proposer = proposals[id].proposer
      /\ p.executed = TRUE
  BY <1>2 DEF Proposal
<1> HIDE DEF p
<1>5. /\ proposals' \in Seq(Proposal) /\ Len(proposals') = Len(proposals)
      /\ \A j \in 1 .. Len(proposals) : proposals'[j] = IF j = id THEN p ELSE proposals[j]
  BY <1>1, <1>2, <1>3, ExceptSeq
<1>6. DOMAIN proposals' = 1 .. Len(proposals)
  BY <1>5, LenProperties
<1>7. id \in Ids
  BY <1>2, GovernanceAssumption DEF IdsOK, Ids
<1>8. /\ executions \in Seq(Ids) /\ Len(executions) \in Nat
      /\ DOMAIN executions = 1 .. Len(executions)
      /\ executions' \in Seq(Ids)
      /\ DOMAIN executions' = 1 .. Len(executions) + 1
      /\ \A k \in 1 .. Len(executions) : executions'[k] = executions[k]
      /\ executions'[Len(executions) + 1] = id
  <2>1. /\ executions \in Seq(Ids) /\ Len(executions) \in Nat
        /\ DOMAIN executions = 1 .. Len(executions)
    BY LenProperties DEF GovTypeOK
  <2>2. /\ executions' \in Seq(Ids) /\ Len(executions') = Len(executions) + 1
        /\ \A k \in 1 .. Len(executions) : executions'[k] = executions[k]
        /\ executions'[Len(executions) + 1] = id
    BY <1>1, <1>7, <2>1, AppendProperties
  <2>3. DOMAIN executions' = 1 .. Len(executions) + 1
    BY <2>2, LenProperties
  <2> QED BY <2>1, <2>2, <2>3
<1>9. /\ RulesOK' /\ (config' = NoConfig => isSigner' = {})
      /\ config' \in Configs \cup {NoConfig} /\ isSigner' \subseteq Addresses
  <2>1. CASE proposals[id].action \in Configs /\ SetConfig(proposals[id].action)
    BY <2>1, SetConfigRules
  <2>2. CASE UNCHANGED <<config, isSigner>>
    BY <2>2 DEF RulesOK, ValidConfig, SignersOf, IsDuplicateFree, GovTypeOK
  <2> QED BY <1>1, <2>1, <2>2 DEF ExecuteAction
<1>10. GovTypeOK'
  BY <1>1, <1>5, <1>8, <1>9 DEF GovTypeOK
<1>11. IdsOK'
  BY <1>1, <1>2, <1>5, <1>8 DEF IdsOK
<1>12. CountIsApprovers'
  <2>1. \A i : Approvers(i)' = Approvers(i)
    BY <1>1 DEF Approvers
  <2>2. \A i \in 1 .. Len(proposals) : proposals'[i].approvals = proposals[i].approvals
                                       /\ proposals'[i].proposer = proposals[i].proposer
    BY <1>4, <1>5
  <2> QED BY <1>2, <1>6, <2>1, <2>2 DEF CountIsApprovers
<1>13. ActsOnce'
  <2> SUFFICES ASSUME NEW i \in 1 .. Len(proposals)
               PROVE  Cardinality(Occurrences(i)') =
                        (IF proposals'[i].executed THEN 1 ELSE 0)
    BY <1>6 DEF ActsOnce
  <2>1. Cardinality(Occurrences(i)) = (IF proposals[i].executed THEN 1 ELSE 0)
    BY <1>2 DEF ActsOnce
  <2>2. CASE i = id
    <3>1. IsFiniteSet(Occurrences(i))
      <4>1. Occurrences(i) \in SUBSET (1 .. Len(executions))
        BY <1>8 DEF Occurrences
      <4>2. IsFiniteSet(1 .. Len(executions))
        BY <1>8, FS_Interval
      <4> QED BY <4>1, <4>2, FS_Subset
    <3>2. Occurrences(i) = {}
      BY <1>1, <2>1, <2>2, <3>1, FS_EmptySet
    <3>3. Occurrences(i)' = {Len(executions) + 1}
      BY <1>8, <2>2, <3>2 DEF Occurrences
    <3>4. proposals'[i].executed
      BY <1>4, <1>5, <2>2
    <3> QED BY <3>3, <3>4, FS_Singleton
  <2>3. CASE i # id
    <3>1. Occurrences(i)' = Occurrences(i)
      BY <1>8, <2>3 DEF Occurrences
    <3> QED BY <1>5, <2>1, <2>3, <3>1
  <2> QED BY <2>2, <2>3
<1>14. EmergenciesOK'
  <2>1. p.emergency = proposals[id].emergency /\ p.action = proposals[id].action
    BY <1>2 DEF p, Proposal
  <2> QED BY <1>2, <1>5, <1>6, <2>1 DEF EmergenciesOK
<1>15. EtasOK'
  <2>1. /\ p.emergency = proposals[id].emergency /\ p.eta = proposals[id].eta
        /\ p.made = proposals[id].made /\ p.delay = proposals[id].delay
    BY <1>2 DEF p, Proposal
  <2> QED BY <1>2, <1>5, <1>6, <2>1 DEF EtasOK
<1> QED BY <1>9, <1>10, <1>11, <1>12, <1>13, <1>14, <1>15

LEMMA GovUnchanged ==
  ASSUME GovIInv, UNCHANGED <<config, isSigner, proposals, approval, executions>>,
         ledger' \in 0 .. U32Max
  PROVE  GovIInv'
BY DEF GovIInv, GovTypeOK, RulesOK, ValidConfig, SignersOf, IsDuplicateFree, IdsOK,
       CountIsApprovers, ActsOnce, EmergenciesOK, EtasOK, Approvers, Occurrences

LEMMA GovStepInv == GovIInv /\ [GovNext]_govVars => GovIInv'
<1> SUFFICES ASSUME GovIInv, [GovNext]_govVars PROVE GovIInv'
  OBVIOUS
<1>1. ASSUME NEW r \in Configs, Initialize(r) PROVE GovIInv'
  BY <1>1, InitializeInv
<1>2. ASSUME NEW s \in Addresses, NEW act \in Actions, NEW emergency \in BOOLEAN,
             Propose(s, act, emergency)
      PROVE  GovIInv'
  BY <1>2, ProposeInv
<1>3. ASSUME NEW s \in Addresses, NEW id \in DOMAIN proposals, Approve(s, id)
      PROVE  GovIInv'
  BY <1>3, ApproveInv
<1>4. ASSUME NEW id \in DOMAIN proposals, Execute(id) PROVE GovIInv'
  BY <1>4, ExecuteInv
<1>5. CASE CloseLedgers
  <2>1. ledger' \in 0 .. U32Max
    BY <1>5, GovernanceAssumption DEF CloseLedgers, GovIInv, GovTypeOK
  <2> QED BY <1>5, <2>1, GovUnchanged DEF CloseLedgers
<1>6. CASE UNCHANGED govVars
  <2>1. ledger' \in 0 .. U32Max
    BY <1>6 DEF govVars, GovIInv, GovTypeOK
  <2> QED BY <1>6, <2>1, GovUnchanged DEF govVars
<1> QED BY <1>1, <1>2, <1>3, <1>4, <1>5, <1>6 DEF GovNext

-----------------------------------------------------------------------------
(* However signers are replaced, removed and added again, the number       *)
(* execute compares with the threshold is that of distinct approvers, and  *)
(* a proposal acts at most once.                                           *)
THEOREM CountsAreExact == GovSpec => [](GovTypeOK /\ ProposalsAreExact)
<1>1. GovIInv => GovTypeOK /\ ProposalsAreExact
  BY DEF GovIInv, ProposalsAreExact
<1> QED BY <1>1, GovInitInv, GovStepInv, PTL DEF GovSpec

(* No reachable rules lock the governed contracts: there always are enough *)
(* distinct signers to meet both thresholds.                               *)
THEOREM NeverLockedOut == GovSpec => []SignersCanReachThresholds
<1>1. GovIInv => SignersCanReachThresholds
  BY RulesImplyQuorum DEF GovIInv
<1> QED BY <1>1, GovInitInv, GovStepInv, PTL DEF GovSpec

(* A normal proposal past its eta is past the delay it was made under, or  *)
(* the chain is at its last ledger.                                        *)
LEMMA EtaIsDelay ==
  ASSUME GovIInv, NEW id \in DOMAIN proposals, ~proposals[id].emergency,
         ledger >= proposals[id].eta
  PROVE  WaitedOut(id)
<1> DEFINE m == proposals[id].made
           d == proposals[id].delay
<1>1. proposals[id] \in Proposal /\ ledger \in 0 .. U32Max
  BY DEF GovIInv, GovTypeOK
<1>2. m \in 0 .. U32Max /\ d \in 0 .. U32Max
  BY <1>1 DEF Proposal
<1>3. ledger >= SaturatingAdd(m, d)
  BY DEF GovIInv, EtasOK
<1> HIDE DEF m, d
<1>4. ledger >= m + d \/ ledger = U32Max
  BY ONLY <1>1, <1>2, <1>3, GovernanceAssumption DEF SaturatingAdd
<1> QED BY <1>4 DEF WaitedOut, m, d

(* An executing proposal that is not an emergency has what the normal path *)
(* asks for.                                                               *)
LEMMA NormalIsSupported ==
  ASSUME GovIInv, NEW id \in DOMAIN proposals, Execute(id), ~proposals[id].emergency
  PROVE  Supported(id) /\ WaitedOut(id)
<1>1. Cardinality(Approvers(id)) >= config.threshold
  BY DEF Execute, Executable, Required, GovIInv, CountIsApprovers
<1>2. ledger >= proposals[id].eta
  BY DEF Execute, Executable
<1> QED BY <1>1, <1>2, EtaIsDelay DEF Supported

(* After init the rules change only by executing a normal proposal of that *)
(* change with enough distinct approvers and the delay in force when it    *)
(* was made passed.                                                        *)
THEOREM RulesAreGoverned == GovSpec => RulesChangeByProposal
<1> DEFINE ByRules ==
      \E id \in DOMAIN proposals :
        /\ executions' = Append(executions, id)
        /\ proposals[id].action = config'
        /\ ~proposals[id].emergency
        /\ Supported(id) /\ WaitedOut(id)
<1>1. GovIInv /\ [GovNext]_govVars =>
        [config' # config /\ config # NoConfig => ByRules]_govVars
  <2> SUFFICES ASSUME GovIInv, GovNext, config' # config, config # NoConfig
               PROVE  ByRules
    BY DEF govVars
  <2>1. PICK id \in DOMAIN proposals : Execute(id)
    BY DEF GovNext, Initialize, Propose, Approve, CloseLedgers
  <2>2. proposals[id].action \in Configs /\ config' = proposals[id].action
    BY <2>1 DEF Execute, ExecuteAction, SetConfig
  <2>3. ~proposals[id].emergency
    BY <2>2, GovernanceAssumption DEF GovIInv, EmergenciesOK
  <2>4. Supported(id) /\ WaitedOut(id)
    BY <2>1, <2>3, NormalIsSupported
  <2>5. executions' = Append(executions, id)
    BY <2>1 DEF Execute
  <2> QED BY <2>2, <2>3, <2>4, <2>5
<1> QED BY <1>1, GovInitInv, GovStepInv, PTL DEF GovSpec, RulesChangeByProposal

(* With fewer approvers than the normal path asks for, or before the       *)
(* normal delay passed, only a pause, an unpause or a revocation of a gate *)
(* executes.                                                               *)
THEOREM FastPathIsForSafety == GovSpec => OnlySafetyActsFast
<1> DEFINE Safe ==
      \A id \in DOMAIN proposals :
        (executions' # executions /\ executions'[Len(executions')] = id
           /\ ~(Supported(id) /\ WaitedOut(id))) =>
          proposals[id].action \in EmergencyCalls
<1>1. GovIInv /\ [GovNext]_govVars => [Safe]_govVars
  <2> SUFFICES ASSUME GovIInv, GovNext, executions' # executions,
                      NEW id \in DOMAIN proposals, executions'[Len(executions')] = id,
                      ~(Supported(id) /\ WaitedOut(id))
               PROVE  proposals[id].action \in EmergencyCalls
    BY DEF govVars
  <2>1. PICK k \in DOMAIN proposals : Execute(k)
    BY DEF GovNext, Initialize, Propose, Approve, CloseLedgers
  <2>2. executions \in Seq(Ids) /\ executions' = Append(executions, k)
    BY <2>1 DEF Execute, GovIInv, GovTypeOK
  <2>3. executions'[Len(executions')] = k
    BY <2>2
  <2>4. proposals[id].emergency
    BY <2>1, <2>3, NormalIsSupported
  <2> QED BY <2>4 DEF GovIInv, EmergenciesOK
<1> QED BY <1>1, GovInitInv, GovStepInv, PTL DEF GovSpec, OnlySafetyActsFast

-----------------------------------------------------------------------------
(* The access layer under governance.                                      *)

(* The entries Admin and Paused exist for every contract from its init on. *)
OwnersOK ==
  /\ admin = [c \in Contracts |-> admin[c]]
  /\ paused = [c \in Pausable |-> paused[c]]

GovernedIInv == GovIInv /\ OwnersOK

\* Nobody's settings but d's change.
OnlyOf(d) == \A c \in Contracts \ {d} : Settings(c)' = Settings(c)

SettingsKept == \A c \in Contracts : Settings(c)' = Settings(c)

-----------------------------------------------------------------------------
(* Which settings are whose.                                               *)

LEMMA ContractNames ==
  ASSUME NEW c \in Contracts
  PROVE  c \in {"gate_payment", "gate_rwa", "identity_verifier", "rwa_compliance_adapter",
                "issuer_registry", "policy_registry", "nullifier_registry", "verifier"}
BY OwnershipAssumption DEF Contracts, PaymentGate, RwaGate, Identity, Adapter

LEMMA OwnSettingsOf ==
  /\ OwnSettings["issuer_registry"] = issuerVars
  /\ OwnSettings["policy_registry"] = <<policies>>
  /\ OwnSettings["nullifier_registry"] = <<gateAllowed>>
  /\ OwnSettings["verifier"] = <<frozen>>
  /\ OwnSettings["gate_payment"] = <<>> /\ OwnSettings["gate_rwa"] = <<>>
  /\ OwnSettings["identity_verifier"] = <<>> /\ OwnSettings["rwa_compliance_adapter"] = <<>>
BY DEF OwnSettings

LEMMA OwnSettingsAfter ==
  /\ OwnSettings'["issuer_registry"] = issuerVars'
  /\ OwnSettings'["policy_registry"] = <<policies'>>
  /\ OwnSettings'["nullifier_registry"] = <<gateAllowed'>>
  /\ OwnSettings'["verifier"] = <<frozen'>>
  /\ OwnSettings'["gate_payment"] = <<>> /\ OwnSettings'["gate_rwa"] = <<>>
  /\ OwnSettings'["identity_verifier"] = <<>> /\ OwnSettings'["rwa_compliance_adapter"] = <<>>
BY DEF OwnSettings

LEMMA SettingsOf ==
  ASSUME NEW c \in Contracts, admin'[c] = admin[c],
         c \in Pausable => paused'[c] = paused[c],
         c = "issuer_registry" => UNCHANGED issuerVars,
         c = "policy_registry" => UNCHANGED policies,
         c = "nullifier_registry" => UNCHANGED gateAllowed,
         c = "verifier" => UNCHANGED frozen
  PROVE  Settings(c)' = Settings(c)
<1>1. OwnSettings'[c] = OwnSettings[c]
  BY ContractNames, OwnSettingsOf, OwnSettingsAfter
<1>2. CASE c \in Pausable
  BY <1>1, <1>2 DEF Settings, Pausable
<1>3. CASE c \notin Pausable
  BY <1>1, <1>3 DEF Settings, Pausable
<1> QED BY <1>2, <1>3

LEMMA OwnershipOnly ==
  ASSUME OwnersOK, NEW d, NEW by, UNCHANGED <<issuerVars, policies, gateAllowed, verifierVars>>,
         \/ \E to : TransferAdmin(d, by, to)
         \/ \E value : d \in Pausable /\ SetPaused(d, by, value)
  PROVE  d \in Contracts /\ admin[d] = by /\ OnlyOf(d)
<1>1. d \in Contracts /\ admin[d] = by
  BY DEF TransferAdmin, SetPaused, RequireAdmin
<1>2. ASSUME NEW c \in Contracts \ {d}
      PROVE  admin'[c] = admin[c] /\ (c \in Pausable => paused'[c] = paused[c])
  <2>1. CASE \E to : TransferAdmin(d, by, to)
    BY <2>1 DEF TransferAdmin, OwnersOK
  <2>2. CASE \E value : SetPaused(d, by, value)
    BY <2>2 DEF SetPaused, OwnersOK
  <2> QED BY <2>1, <2>2
<1>3. UNCHANGED <<issuerVars, policies, gateAllowed, frozen>>
  BY DEF verifierVars
<1> QED BY <1>1, <1>2, <1>3, SettingsOf DEF OnlyOf

LEMMA RegistryOnly ==
  ASSUME UNCHANGED ownershipVars
  PROVE  /\ UNCHANGED <<policies, gateAllowed, verifierVars>> => OnlyOf("issuer_registry")
         /\ UNCHANGED <<issuerVars, gateAllowed, verifierVars>> => OnlyOf("policy_registry")
         /\ UNCHANGED <<issuerVars, policies, verifierVars>> => OnlyOf("nullifier_registry")
         /\ UNCHANGED <<issuerVars, policies, gateAllowed>> => OnlyOf("verifier")
         /\ UNCHANGED <<issuerVars, policies, gateAllowed, verifierVars>> => SettingsKept
BY SettingsOf DEF ownershipVars, verifierVars, OnlyOf, SettingsKept

-----------------------------------------------------------------------------
(* The transactions that are not of governance.                            *)

LEMMA UserSettings ==
  ASSUME UserStep
  PROVE  /\ UNCHANGED ownershipVars
         /\ UNCHANGED <<issuerVars, policies, gateAllowed, verifierVars>>
         /\ UNCHANGED <<token, recipient, identityConfig, boundTokens>>
<1>1. CASE Pay
  BY <1>1 DEF Pay, VerifyAndPay, MarkUsed, peerVars, rwaVars, identityVars, adapterVars
<1>2. CASE TransferRwa
  BY <1>2 DEF TransferRwa, VerifyAndTransfer, MarkUsed, peerVars, paymentVars, identityVars,
              adapterVars
<1>3. CASE AttestAccount
  BY <1>3 DEF AttestAccount, Attest, MarkUsed, peerVars, paymentVars, adapterVars
<1>4. CASE AuthorizeMint
  BY <1>4 DEF AuthorizeMint, AttestForMint, MarkUsed, peerVars, paymentVars, adapterVars
<1>5. CASE ConsumeDirectly
  BY <1>5 DEF ConsumeDirectly, ConsumeMintAuthorization, peerVars, nullifierVars, paymentVars,
              adapterVars
<1>6. CASE TokenStep
  BY <1>6 DEF TokenStep, Mint, Created, ConsumeMintAuthorization, TransferShares, Burn, peerVars,
              nullifierVars, paymentVars, identityVars
<1>7. CASE FundGate
  BY <1>7 DEF FundGate, Deposit, peerVars, nullifierVars, identityVars, adapterVars
<1>8. CASE Tick
  BY <1>8 DEF Tick, CloseLedger, peerVars, nullifierVars, paymentVars, adapterVars
<1> QED BY <1>1, <1>2, <1>3, <1>4, <1>5, <1>6, <1>7, <1>8 DEF UserStep

(* An administrator changes the settings of one contract, its own.         *)
LEMMA AdminSettings ==
  ASSUME OwnersOK, NEW by, AdminStep(by)
  PROVE  SettingsKept \/ \E d \in Contracts : admin[d] = by /\ OnlyOf(d)
<1>1. CASE OwnershipAdmin(by)
  <2>1. UNCHANGED <<issuerVars, policies, gateAllowed, verifierVars>>
    BY <1>1 DEF OwnershipAdmin, nullifierVars
  <2>2. PICK d : \/ \E to : TransferAdmin(d, by, to)
                 \/ \E value : d \in Pausable /\ SetPaused(d, by, value)
    BY <1>1 DEF OwnershipAdmin
  <2> QED BY <2>1, <2>2, OwnershipOnly
<1>2. CASE IssuerAdmin(by)
  BY <1>2, RegistryOnly DEF IssuerAdmin, SetRoot, SetSanctionsRoot, SetRevocationRoot,
                            RequireAdmin, nullifierVars
<1>3. CASE PolicyAdmin(by)
  BY <1>3, RegistryOnly DEF PolicyAdmin, SetPolicy, RequireAdmin, nullifierVars
<1>4. CASE NullifierAdmin(by)
  BY <1>4, RegistryOnly DEF NullifierAdmin, AllowGate, RevokeGate, RequireAdmin
<1>5. CASE VerifierAdmin(by)
  BY <1>5, RegistryOnly DEF VerifierAdmin, FreezeVk, SetVk, RequireAdmin, nullifierVars
<1>6. CASE PaymentAdmin(by) \/ RwaAdmin(by) \/ IdentityAdmin(by) \/ AdapterAdmin(by)
  BY <1>6, RegistryOnly DEF PaymentAdmin, RwaAdmin, IdentityAdmin, AdapterAdmin, nullifierVars
<1> QED BY <1>1, <1>2, <1>3, <1>4, <1>5, <1>6 DEF AdminStep

LEMMA AdminReach ==
  ASSUME NEW by, by # Council, AdminStep(by)
  PROVE  Unreachable
<1>1. Governed("verifier") => UNCHANGED vk
  BY DEF AdminStep, OwnershipAdmin, IssuerAdmin, PolicyAdmin, NullifierAdmin, VerifierAdmin,
         PaymentAdmin, RwaAdmin, IdentityAdmin, AdapterAdmin, verifierVars, FreezeVk, SetVk,
         RequireAdmin, Governed
<1>2. Governed(Adapter) => UNCHANGED boundTokens
  BY DEF AdminStep, OwnershipAdmin, IssuerAdmin, PolicyAdmin, NullifierAdmin, VerifierAdmin,
         PaymentAdmin, RwaAdmin, IdentityAdmin, AdapterAdmin, adapterVars, BindToken,
         UnbindToken, RequireAdmin, Governed
<1>3. Governed(PaymentGate) => UNCHANGED <<token, recipient>>
  BY DEF AdminStep, OwnershipAdmin, IssuerAdmin, PolicyAdmin, NullifierAdmin, VerifierAdmin,
         PaymentAdmin, RwaAdmin, IdentityAdmin, AdapterAdmin, paymentVars, SetToken,
         SetRecipient, RequireAdmin, Governed
<1>4. Governed(Identity) => UNCHANGED identityConfig
  BY DEF AdminStep, OwnershipAdmin, IssuerAdmin, PolicyAdmin, NullifierAdmin, VerifierAdmin,
         PaymentAdmin, RwaAdmin, IdentityAdmin, AdapterAdmin, identityVars, SetRwaToken,
         SetRwaRecipient, AllowMintConsumer, RevokeMintConsumer, RequireAdmin, Governed
<1> QED BY <1>1, <1>2, <1>3, <1>4 DEF Unreachable

-----------------------------------------------------------------------------
(* What an executed proposal performs.                                     *)

LEMMA PerformReach ==
  ASSUME NEW c, Perform(c)
  PROVE  UNCHANGED <<vk, boundTokens, token, recipient, identityConfig>>
BY DEF Perform, PerformOwnership, PerformIssuer, PerformPolicy, PerformNullifier,
       PerformVerifier, FreezeVk, verifierVars, paymentVars, identityVars, adapterVars

LEMMA PerformSettings ==
  ASSUME OwnersOK, NEW c, Perform(c)
  PROVE  OnlyOf(c.target)
<1>1. CASE PerformOwnership(c)
  <2>1. UNCHANGED <<issuerVars, policies, gateAllowed, verifierVars>>
    BY <1>1 DEF PerformOwnership, nullifierVars
  <2>2. \/ \E to : TransferAdmin(c.target, Council, to)
        \/ \E value : c.target \in Pausable /\ SetPaused(c.target, Council, value)
    BY <1>1 DEF PerformOwnership
  <2> QED BY <2>1, <2>2, OwnershipOnly
<1>2. CASE PerformIssuer(c)
  BY <1>2, RegistryOnly DEF PerformIssuer, nullifierVars
<1>3. CASE PerformPolicy(c)
  BY <1>3, RegistryOnly DEF PerformPolicy, nullifierVars
<1>4. CASE PerformNullifier(c)
  BY <1>4, RegistryOnly DEF PerformNullifier
<1>5. CASE PerformVerifier(c)
  BY <1>5, RegistryOnly DEF PerformVerifier, nullifierVars
<1> QED BY <1>1, <1>2, <1>3, <1>4, <1>5 DEF Perform

LEMMA PerformEmergency ==
  ASSUME NEW c, c.kind \in {"Pause", "Unpause", "RevokeGate"}, Perform(c)
  PROVE  UNCHANGED <<admin, issuerVars, policies, verifierVars>>
<1>1. CASE PerformOwnership(c)
  BY <1>1 DEF PerformOwnership, SetPaused
<1>2. CASE PerformNullifier(c)
  BY <1>2 DEF PerformNullifier, ownershipVars
<1>3. ~PerformIssuer(c) /\ ~PerformPolicy(c) /\ ~PerformVerifier(c)
  BY DEF PerformIssuer, PerformPolicy, PerformVerifier
<1> QED BY <1>1, <1>2, <1>3 DEF Perform

-----------------------------------------------------------------------------
(* The invariant: governance goes on by its own rules.                     *)

LEMMA GovernedIsGov == GovernedNext => [GovNext]_govVars
<1>1. ASSUME NEW id \in DOMAIN proposals, ExecuteGoverned(id) PROVE GovNext
  BY <1>1 DEF ExecuteGoverned, GovNext
<1> QED BY <1>1 DEF GovernedNext, GovernanceStep, AccessStep, GovNext

LEMMA OwnersKept ==
  ASSUME OwnersOK, \/ UNCHANGED ownershipVars
                   \/ \E d, by, to : TransferAdmin(d, by, to)
                   \/ \E d, by, value : SetPaused(d, by, value)
  PROVE  OwnersOK'
<1>1. CASE UNCHANGED ownershipVars
  BY <1>1 DEF ownershipVars, OwnersOK
<1>2. CASE \E d, by, to : TransferAdmin(d, by, to)
  BY <1>2 DEF TransferAdmin, OwnersOK
<1>3. CASE \E d, by, value : SetPaused(d, by, value)
  BY <1>3 DEF SetPaused, OwnersOK
<1> QED BY <1>1, <1>2, <1>3

LEMMA GovernedInitInv == GovernedInit => GovernedIInv
BY GovInitInv DEF GovernedInit, Init, DeployedInit, OwnershipInit, OwnersOK, GovernedIInv

LEMMA GovernedStepInv == GovernedIInv /\ [GovernedNext]_governedVars => GovernedIInv'
<1> SUFFICES ASSUME GovernedIInv, [GovernedNext]_governedVars PROVE GovernedIInv'
  OBVIOUS
<1>1. GovIInv'
  BY GovernedIsGov, GovStepInv DEF GovernedIInv, governedVars
<1>2. OwnersOK'
  <2>1. ASSUME NEW by, AdminStep(by) PROVE OwnersOK'
    <3>1. CASE OwnershipAdmin(by)
      BY <3>1, OwnersKept DEF OwnershipAdmin, GovernedIInv
    <3>2. CASE ~OwnershipAdmin(by)
      BY <2>1, <3>2, OwnersKept DEF AdminStep, IssuerAdmin, PolicyAdmin, NullifierAdmin,
         VerifierAdmin, PaymentAdmin, RwaAdmin, IdentityAdmin, AdapterAdmin, GovernedIInv
    <3> QED BY <3>1, <3>2
  <2>2. ASSUME NEW c, Perform(c) PROVE OwnersOK'
    <3>1. CASE PerformOwnership(c)
      BY <3>1, OwnersKept DEF PerformOwnership, GovernedIInv
    <3>2. CASE ~PerformOwnership(c)
      BY <2>2, <3>2, OwnersKept DEF Perform, PerformIssuer, PerformPolicy, PerformNullifier,
         PerformVerifier, GovernedIInv
    <3> QED BY <3>1, <3>2
  <2>3. CASE UserStep
    BY <2>3, UserSettings, OwnersKept DEF GovernedIInv
  <2>4. CASE UNCHANGED vars
    BY <2>4, OwnersKept DEF vars, GovernedIInv
  <2>5. ASSUME NEW id, ExecuteGoverned(id) PROVE OwnersOK'
    BY <2>2, <2>4, <2>5 DEF ExecuteGoverned
  <2> QED BY <2>1, <2>3, <2>4, <2>5 DEF GovernedNext, GovernanceStep, AccessStep, governedVars
<1> QED BY <1>1, <1>2 DEF GovernedIInv

-----------------------------------------------------------------------------
(* What a proposal that executes has behind it.                            *)
LEMMA ExecutedChange ==
  ASSUME GovernedIInv, NEW id \in DOMAIN proposals, ExecuteGoverned(id),
         NEW c \in Contracts, Settings(c)' # Settings(c)
  PROVE  /\ executions' = Append(executions, id)
         /\ proposals[id].action \in Calls /\ proposals[id].action.target = c
         /\ Cardinality(Approvers(id)) >= Required(proposals[id])
         /\ ledger >= proposals[id].eta
         /\ proposals[id].emergency => UNCHANGED <<admin, issuerVars, policies, verifierVars>>
<1> DEFINE call == proposals[id].action
<1>1. Execute(id)
  BY DEF ExecuteGoverned
<1>2. executions' = Append(executions, id) /\ ledger >= proposals[id].eta
  BY <1>1 DEF Execute, Executable
<1>3. Cardinality(Approvers(id)) >= Required(proposals[id])
  BY <1>1 DEF Execute, Executable, GovernedIInv, GovIInv, CountIsApprovers
<1>4. call \in Calls
  <2> SUFFICES ASSUME call \notin Calls PROVE FALSE
    OBVIOUS
  <2>1. UNCHANGED vars
    BY DEF ExecuteGoverned
  <2>2. UNCHANGED <<ownershipVars, issuerVars, policies, gateAllowed, verifierVars>>
    BY <2>1 DEF vars, nullifierVars
  <2>3. SettingsKept
    BY <2>2, RegistryOnly
  <2> QED BY <2>3 DEF SettingsKept
<1>5. Perform(call)
  BY <1>4 DEF ExecuteGoverned
<1>6. call.target = c
  BY <1>5, PerformSettings DEF GovernedIInv, OnlyOf
<1>7. ASSUME proposals[id].emergency
      PROVE  UNCHANGED <<admin, issuerVars, policies, verifierVars>>
  <2>1. call \in EmergencyCalls
    BY <1>7 DEF GovernedIInv, GovIInv, EmergenciesOK
  <2>2. call.kind \in {"Pause", "Unpause", "RevokeGate"}
    BY <2>1, CallAssumption
  <2> QED BY <1>5, <2>2, PerformEmergency
<1> QED BY <1>2, <1>3, <1>4, <1>6, <1>7

(* After the cutover, contract by contract and in any order, settings      *)
(* change only by a proposal about that contract, and what governance has  *)
(* no action for does not change at all.                                   *)
THEOREM CutoverHolds == GovernedSpec => GovernedByProposal
<1>1. GovernedIInv /\ [GovernedNext]_governedVars =>
        [ChangedByProposal /\ Unreachable]_governedVars
  <2> SUFFICES ASSUME GovernedIInv, GovernedNext PROVE ChangedByProposal /\ Unreachable
    OBVIOUS
  <2>1. ASSUME SettingsKept PROVE ChangedByProposal
    BY <2>1 DEF SettingsKept, ChangedByProposal
  <2>2. CASE UserStep
    <3>1. SettingsKept /\ UNCHANGED <<vk, token, recipient, identityConfig, boundTokens>>
      BY <2>2, UserSettings, RegistryOnly DEF verifierVars
    <3> QED BY <2>1, <3>1 DEF Unreachable
  <2>3. ASSUME NEW by \in Principals \ {Council}, AdminStep(by)
        PROVE  ChangedByProposal /\ Unreachable
    <3>1. CASE SettingsKept
      BY <2>1, <2>3, <3>1, AdminReach
    <3>2. CASE \E d \in Contracts : admin[d] = by /\ OnlyOf(d)
      BY <2>3, <3>2, AdminReach DEF OnlyOf, ChangedByProposal, Governed
    <3> QED BY <2>3, <3>1, <3>2, AdminSettings DEF GovernedIInv
  <2>4. CASE UNCHANGED vars
    <3>1. UNCHANGED <<ownershipVars, issuerVars, policies, gateAllowed, verifierVars>>
      BY <2>4 DEF vars, nullifierVars
    <3>2. UNCHANGED <<vk, token, recipient, identityConfig, boundTokens>>
      BY <2>4 DEF vars, verifierVars, paymentVars, identityVars, adapterVars
    <3> QED BY <2>1, <3>1, <3>2, RegistryOnly DEF Unreachable
  <2>5. ASSUME NEW id \in DOMAIN proposals, ExecuteGoverned(id)
        PROVE  ChangedByProposal /\ Unreachable
    <3>1. ChangedByProposal
      BY <2>5, ExecutedChange DEF ChangedByProposal
    <3>2. Unreachable
      BY <2>4, <2>5, PerformReach DEF ExecuteGoverned, Unreachable
    <3> QED BY <3>1, <3>2
  <2> QED BY <2>2, <2>3, <2>4, <2>5 DEF GovernedNext, GovernanceStep, AccessStep
<1> QED BY <1>1, GovernedInitInv, GovernedStepInv, PTL DEF GovernedSpec, GovernedByProposal

=============================================================================
