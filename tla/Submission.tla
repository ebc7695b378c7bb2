----------------------------- MODULE Submission -----------------------------
(***************************************************************************)
(* A payment transaction from the browser to the ledger, as the SDK's      *)
(* submitPaymentProof and the console's function of the same name make     *)
(* it: the same calls in the same order.  A caller stops at every await,   *)
(* any request can fail, and a request that fails may still have been      *)
(* received.                                                               *)
(*                                                                         *)
(* The actions say what happens to the transaction and the ledger; the     *)
(* modules that extend this one add what the caller does with it.          *)
(***************************************************************************)
EXTENDS Naturals, FiniteSets

CONSTANTS
  None,
  Callers,          \* tabs of the console, or callers of the SDK
  Epochs,           \* epochs a witness is valid for; each gives one nullifier
  Timeout,          \* setTimeout: how long a transaction is valid once built
  PollInterval,     \* the wait after a poll without an answer
  PollAttempts,     \* the polls before PENDING is returned
  MaxSequence,      \* bound on the transactions of the account
  TimeMax           \* bound on the clock

ASSUME SubmissionAssumption ==
  /\ Timeout \in Nat /\ PollInterval \in Nat
  /\ PollAttempts \in Nat \ {0} /\ MaxSequence \in Nat /\ TimeMax \in Nat

VARIABLES
  now,
  gateOpen,         \* the gate takes a proof with these roots: not paused, not rotated
  sequence,         \* sequence number of the wallet's account
  sent,             \* transactions the network has and has not applied
  applied,          \* <<transaction, result>> of those on the ledger
  stage,            \* what a caller awaits
  draft,            \* the transaction a caller is at work on, or None
  attempt,          \* polls of it without an answer
  nextPoll          \* when the next poll may be sent

ledgerVars == <<now, gateOpen, sequence, sent, applied>>
callerVars == <<stage, draft, attempt, nextPoll>>

Transaction == [caller : Callers, epoch : Epochs, seq : 1..MaxSequence, until : Nat]

ASSUME TransactionAssumption == None \notin Transaction

Stages == {"idle", "connect", "account", "simulate", "wallet", "send", "poll"}

SubmissionTypeOK ==
  /\ now \in 0..TimeMax /\ gateOpen \in BOOLEAN /\ sequence \in 0..MaxSequence
  /\ sent \subseteq Transaction
  /\ applied \subseteq Transaction \X {"SUCCESS", "FAILED"}
  /\ stage \in [Callers -> Stages]
  /\ draft \in [Callers -> Transaction \cup {None}]
  /\ attempt \in [Callers -> 0..PollAttempts]
  /\ nextPoll \in [Callers -> Nat]
  /\ \A c \in Callers : stage[c] \in {"simulate", "wallet", "send", "poll"} => draft[c] # None

SubmissionInit ==
  /\ now = 0 /\ gateOpen = TRUE /\ sequence = 0 /\ sent = {} /\ applied = {}
  /\ stage = [c \in Callers |-> "idle"]
  /\ draft = [c \in Callers |-> None]
  /\ attempt = [c \in Callers |-> 0]
  /\ nextPoll = [c \in Callers |-> 0]

Landed == {r[1] : r \in {a \in applied : a[2] = "SUCCESS"}}
Spent  == {x.epoch : x \in Landed}

Enter(c, s) == stage' = [stage EXCEPT ![c] = s]

\* The promise settles, with a result or an error.
Settle(c) ==
  /\ Enter(c, "idle")
  /\ draft' = [draft EXCEPT ![c] = None]
  /\ attempt' = [attempt EXCEPT ![c] = 0]
  /\ nextPoll' = [nextPoll EXCEPT ![c] = 0]

-----------------------------------------------------------------------------
\* getAccount answers and the transaction is built.
Build(c, e) ==
  /\ stage[c] = "account"
  /\ sequence < MaxSequence
  /\ draft' = [draft EXCEPT ![c] =
       [caller |-> c, epoch |-> e, seq |-> sequence + 1, until |-> now + Timeout]]
  /\ Enter(c, "simulate")
  /\ UNCHANGED <<ledgerVars, attempt, nextPoll>>

\* The gate would accept the proof now.
Acceptable(e) == gateOpen /\ e \notin Spent

Simulate(c) ==
  /\ stage[c] = "simulate" /\ Acceptable(draft[c].epoch)
  /\ Enter(c, "wallet")
  /\ UNCHANGED <<ledgerVars, draft, attempt, nextPoll>>

SimulationFails(c) ==
  /\ stage[c] = "simulate" /\ ~Acceptable(draft[c].epoch)
  /\ Settle(c)
  /\ UNCHANGED ledgerVars

\* The wallet's user signs.
Sign(c) ==
  /\ stage[c] = "wallet"
  /\ Enter(c, "send")
  /\ UNCHANGED <<ledgerVars, draft, attempt, nextPoll>>

\* sendTransaction answers that the network has it.
Send(c) ==
  /\ stage[c] = "send"
  /\ sent' = sent \cup {draft[c]}
  /\ Enter(c, "poll")
  /\ nextPoll' = [nextPoll EXCEPT ![c] = now]
  /\ UNCHANGED <<now, gateOpen, sequence, applied, draft, attempt>>

\* The network has it and the answer is lost.
SendUnseen(c) ==
  /\ stage[c] = "send"
  /\ sent' = sent \cup {draft[c]}
  /\ Settle(c)
  /\ UNCHANGED <<now, gateOpen, sequence, applied>>

Result(c, result) ==
  stage[c] = "poll" /\ now >= nextPoll[c] /\ <<draft[c], result>> \in applied

PollSuccess(c) ==
  /\ Result(c, "SUCCESS")
  /\ Settle(c)
  /\ UNCHANGED ledgerVars

PollFailure(c) ==
  /\ Result(c, "FAILED")
  /\ Settle(c)
  /\ UNCHANGED ledgerVars

NoResult(c) ==
  /\ stage[c] = "poll" /\ now >= nextPoll[c] /\ attempt[c] < PollAttempts
  /\ \A result \in {"SUCCESS", "FAILED"} : <<draft[c], result>> \notin applied

\* Faulty: polls again without the wait.
PollAgainFaulty(c) ==
  /\ NoResult(c)
  /\ attempt' = [attempt EXCEPT ![c] = @ + 1]
  /\ UNCHANGED <<ledgerVars, stage, draft, nextPoll>>

\* The ledger does not have it yet: wait.
PollAgain(c) ==
  /\ NoResult(c)
  /\ attempt' = [attempt EXCEPT ![c] = @ + 1]
  /\ nextPoll' = [nextPoll EXCEPT ![c] = now + PollInterval]
  /\ UNCHANGED <<ledgerVars, stage, draft>>

\* The loop is over: PENDING is returned.
PollEnds(c) ==
  /\ stage[c] = "poll" /\ now >= nextPoll[c] /\ attempt[c] = PollAttempts
  /\ Settle(c)
  /\ UNCHANGED ledgerVars

\* A request fails, the wallet's user declines, or the network refuses the
\* transaction because its sequence number or its time is over.
Break(c) ==
  /\ stage[c] # "idle"
  /\ Settle(c)
  /\ UNCHANGED ledgerVars

-----------------------------------------------------------------------------
\* A ledger closes with a transaction; one that fails still takes its
\* sequence number.
Apply(x) ==
  /\ x \in sent /\ now <= x.until /\ x.seq = sequence + 1
  /\ sequence' = x.seq
  /\ sent' = sent \ {x}
  /\ applied' = applied \cup {<<x, IF Acceptable(x.epoch) THEN "SUCCESS" ELSE "FAILED">>}
  /\ UNCHANGED <<now, gateOpen, callerVars>>

\* The network forgets a transaction that it does not apply.
Drop(x) ==
  /\ x \in sent
  /\ sent' = sent \ {x}
  /\ UNCHANGED <<now, gateOpen, sequence, applied, callerVars>>

\* The gate is paused, or the roots are rotated; or the opposite.
ToggleGate ==
  /\ gateOpen' = ~gateOpen
  /\ UNCHANGED <<now, sequence, sent, applied, callerVars>>

Tick ==
  /\ now < TimeMax
  /\ now' = now + 1
  /\ UNCHANGED <<gateOpen, sequence, sent, applied, callerVars>>

Network == (\E x \in sent : Apply(x) \/ Drop(x)) \/ ToggleGate \/ Tick

=============================================================================
