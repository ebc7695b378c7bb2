----------------------------- MODULE Governance -----------------------------
(***************************************************************************)
(* contracts/governance: the threshold and timelock that stand in for the  *)
(* admin of every contract after the cutover.  The rules can themselves be *)
(* changed by a proposal, while other proposals are pending.               *)
(*                                                                         *)
(* Execution of an action on another contract is that contract's handler;  *)
(* if it fails the whole execute is reverted, which is a stuttering step.  *)
(***************************************************************************)
EXTENDS Integers, Sequences, FiniteSets

CONSTANTS
  Addresses,        \* addresses that may be, become or stop being signers
  Calls,            \* actions on governed contracts
  EmergencyCalls,   \* those that are Pause, Unpause or RevokeGate
  Configs,          \* the arguments of init and UpdateConfig, valid or not
  U32Max,           \* u32::MAX: of ledger sequences, of delays, of proposal ids
  NoConfig          \* no entry Signers: init has not been called

Config == [signers : Seq(Addresses), threshold : 0 .. U32Max, delay : 0 .. U32Max,
           emergencyThreshold : 0 .. U32Max, emergencyDelay : 0 .. U32Max]

Actions == Calls \cup Configs

ASSUME GovernanceAssumption ==
  /\ U32Max \in Nat /\ U32Max >= 2
  /\ Configs \subseteq Config
  /\ Calls \cap Configs = {} /\ NoConfig \notin Configs
  /\ EmergencyCalls \subseteq Calls
  /\ IsFiniteSet(Addresses)

VARIABLES
  ledger,           \* env.ledger().sequence()
  config,           \* Configs or NoConfig: entries Signers, Threshold, ...
  isSigner,         \* the addresses whose entry Signer(address) is set
  proposals,        \* entries Proposal(id), id from 1; NextProposalId is Len + 1
  approval,         \* the pairs whose entry Approval(id, address) is set
  executions        \* ProposalExecuted events: the ids in the order of execution

govVars == <<ledger, config, isSigner, proposals, approval, executions>>

Ids == 1 .. U32Max

\* made and delay are history, which no guard reads: the ledger the proposal
\* was made in and the normal delay of the rules then in force.
Proposal == [proposer : Addresses, action : Actions, eta : 0 .. U32Max,
             approvals : 0 .. U32Max, emergency : BOOLEAN, executed : BOOLEAN,
             made : 0 .. U32Max, delay : 0 .. U32Max]

GovTypeOK ==
  /\ ledger \in 0 .. U32Max
  /\ config \in Configs \cup {NoConfig}
  /\ isSigner \subseteq Addresses
  /\ proposals \in Seq(Proposal)
  /\ approval \subseteq Ids \X Addresses
  /\ executions \in Seq(Ids)

GovInit ==
  /\ ledger = 0
  /\ config = NoConfig
  /\ isSigner = {}
  /\ proposals = << >>
  /\ approval = {}
  /\ executions = << >>

-----------------------------------------------------------------------------
IsDuplicateFree(s) == \A i, j \in DOMAIN s : s[i] = s[j] => i = j

\* Faulty: a signer may be listed twice.
ValidConfigFaulty(c) ==
  /\ Len(c.signers) # 0
  /\ c.threshold \in 1 .. Len(c.signers)
  /\ c.emergencyThreshold \in 1 .. Len(c.signers)

ValidConfig(c) ==
  /\ Len(c.signers) # 0
  /\ c.threshold \in 1 .. Len(c.signers)
  /\ c.emergencyThreshold \in 1 .. Len(c.signers)
  /\ IsDuplicateFree(c.signers)

SignersOf(c) == {c.signers[i] : i \in DOMAIN c.signers}

\* The flags of the old signers are removed, then those of the new ones set.
SetConfig(c) ==
  /\ ValidConfig(c)
  /\ isSigner' = (isSigner \ (IF config = NoConfig THEN {} ELSE SignersOf(config)))
                   \cup SignersOf(c)
  /\ config' = c

\* init: once, before anything else.
Initialize(c) ==
  /\ config = NoConfig
  /\ SetConfig(c)
  /\ UNCHANGED <<ledger, proposals, approval, executions>>

\* Faulty: every action may take the emergency path.
IsEmergencyActionFaulty(a) == TRUE

IsEmergencyAction(a) == a \in EmergencyCalls

\* Faulty: a plain u32 sum, which wraps around.
SaturatingAddFaulty(x, y) == (x + y) % (U32Max + 1)

SaturatingAdd(x, y) == IF x + y > U32Max THEN U32Max ELSE x + y

\* id + 1 must not overflow, so the last id is never given out.
Propose(signer, action, emergency) ==
  /\ signer \in isSigner
  /\ emergency => IsEmergencyAction(action)
  /\ Len(proposals) + 2 <= U32Max
  /\ LET delay == IF emergency THEN config.emergencyDelay ELSE config.delay
     IN  proposals' = Append(proposals,
           [proposer |-> signer, action |-> action, eta |-> SaturatingAdd(ledger, delay),
            approvals |-> 1, emergency |-> emergency, executed |-> FALSE,
            made |-> ledger, delay |-> config.delay])
  /\ approval' = approval \cup {<<Len(proposals) + 1, signer>>}
  /\ UNCHANGED <<ledger, config, isSigner, executions>>

\* Faulty: an earlier approval of the same signer is not looked for.
ApproveFaulty(signer, id) ==
  /\ signer \in isSigner
  /\ id \in DOMAIN proposals
  /\ ~proposals[id].executed
  /\ proposals[id].approvals < U32Max
  /\ proposals' = [proposals EXCEPT ![id].approvals = @ + 1]
  /\ approval' = approval \cup {<<id, signer>>}
  /\ UNCHANGED <<ledger, config, isSigner, executions>>

Approve(signer, id) ==
  /\ signer \in isSigner
  /\ <<id, signer>> \notin approval
  /\ id \in DOMAIN proposals
  /\ ~proposals[id].executed
  /\ proposals[id].approvals < U32Max
  /\ proposals' = [proposals EXCEPT ![id].approvals = @ + 1]
  /\ approval' = approval \cup {<<id, signer>>}
  /\ UNCHANGED <<ledger, config, isSigner, executions>>

\* The threshold in force now, whenever the proposal was made.
Required(p) == IF p.emergency THEN config.emergencyThreshold ELSE config.threshold

\* UpdateConfig acts here; every other action acts on another contract.
ExecuteAction(action) ==
  \/ action \in Configs /\ SetConfig(action)
  \/ action \in Calls /\ UNCHANGED <<config, isSigner>>

Executable(p) ==
  /\ ~p.executed
  /\ p.approvals >= Required(p)
  /\ ledger >= p.eta

Execute(id) ==
  /\ id \in DOMAIN proposals
  /\ Executable(proposals[id])
  /\ ExecuteAction(proposals[id].action)
  /\ proposals' = [proposals EXCEPT ![id].executed = TRUE]
  /\ executions' = Append(executions, id)
  /\ UNCHANGED <<ledger, approval>>

CloseLedgers ==
  /\ ledger < U32Max
  /\ ledger' = ledger + 1
  /\ UNCHANGED <<config, isSigner, proposals, approval, executions>>

GovNext ==
  \/ \E c \in Configs : Initialize(c)
  \/ \E s \in Addresses, a \in Actions, emergency \in BOOLEAN : Propose(s, a, emergency)
  \/ \E s \in Addresses, id \in DOMAIN proposals : Approve(s, id)
  \/ \E id \in DOMAIN proposals : Execute(id)
  \/ CloseLedgers

GovSpec == GovInit /\ [][GovNext]_govVars

=============================================================================
