------------------------------ MODULE Console -------------------------------
(***************************************************************************)
(* apps/web/assets/app.js: tabs of the console prove and submit payments   *)
(* of one holder.  A proof is the epoch it was made for and whether its    *)
(* roots are the deployed ones.  The epochs marked as used are in the      *)
(* browser's storage, which the tabs share; the last proof is a tab's own. *)
(*                                                                         *)
(* The RWA proof of a tab is only verified, never submitted: running it    *)
(* keeps a tab busy and changes nothing here.                              *)
(***************************************************************************)
EXTENDS Submission

CONSTANTS
  Original,         \* the epoch in the witness file
  Witnesses         \* the roots of the witness files: "deployed", "other"

ASSUME ConsoleAssumption == Original \in Epochs /\ Witnesses \subseteq {"deployed", "other"}

VARIABLES
  job,              \* what a tab is busy with, or None: state.busy
  witness,          \* state.localInputs.payment
  proving,          \* the proof that is being made, or None
  latest,           \* state.latestProofs.payment
  connected,        \* state.walletAddress is set
  marked,           \* the epochs in localStorage
  asked,            \* history: the epochs of proofs that a tab was asked to make
  told,             \* history: how the submission of a signed transaction ended
  failed            \* history: the epochs of submissions that ended with an error

tabVars == <<job, witness, proving, latest, connected>>
consoleVars == <<tabVars, marked, asked, told, failed>>
tabsVars == <<ledgerVars, callerVars, consoleVars>>

Proof == [epoch : Epochs, roots : Witnesses]

ASSUME ProofAssumption ==
  None \notin Proof \cup Witnesses \cup {"run", "check", "submit"}

\* Types; a tab that awaits something is busy.
ConsoleTypeOK ==
  /\ SubmissionTypeOK
  /\ job \in [Callers -> {"run", "check", "submit", None}]
  /\ witness \in [Callers -> Witnesses \cup {None}]
  /\ proving \in [Callers -> Proof \cup {None}]
  /\ latest \in [Callers -> Proof \cup {None}]
  /\ connected \in [Callers -> BOOLEAN]
  /\ marked \subseteq Epochs /\ asked \subseteq Epochs /\ failed \subseteq Epochs
  /\ told \subseteq Transaction \X {"SUCCESS", "PENDING", "error"}
  /\ \A c \in Callers : stage[c] # "idle" => job[c] = "submit" /\ proving[c] = None
  /\ \A c \in Callers : proving[c] # None => job[c] # None

ConsoleInit ==
  /\ SubmissionInit
  /\ job = [c \in Callers |-> None]
  /\ witness = [c \in Callers |-> None]
  /\ proving = [c \in Callers |-> None]
  /\ latest = [c \in Callers |-> None]
  /\ connected = [c \in Callers |-> FALSE]
  /\ marked = {} /\ asked = {} /\ told = {} /\ failed = {}

Set(f, c, v) == [f EXCEPT ![c] = v]

-----------------------------------------------------------------------------
\* rememberWitness: a file may be loaded at any time, also while a tab is busy.
RememberWitness(c, w) ==
  /\ witness' = Set(witness, c, w)
  /\ UNCHANGED <<ledgerVars, callerVars, job, proving, latest, connected,
                 marked, asked, told, failed>>

\* pickFreshPaymentEpoch: neither marked nor the witness's own, if there is one.
FreshEpochs ==
  LET free == Epochs \ (marked \cup {Original}) IN IF free = {} THEN {Original} ELSE free

\* generateProof starts: a copy of the witness, for a fresh epoch.
BeginProof(c) ==
  /\ witness[c] # None
  /\ \E e \in FreshEpochs : proving' = Set(proving, c, [epoch |-> e, roots |-> witness[c]])

\* The proof is made, verified and has the signals expected.
KeepProof(c) ==
  /\ latest' = Set(latest, c, proving[c])
  /\ proving' = Set(proving, c, None)

\* Faulty: runs although the tab is busy.
RunFlowFaulty(c) ==
  /\ BeginProof(c)
  /\ job' = Set(job, c, "run")
  /\ UNCHANGED <<ledgerVars, callerVars, witness, latest, connected, marked, asked, told, failed>>

\* runFlow: the tab is busy, and free again whatever happens.
RunFlow(c) ==
  /\ job[c] = None
  /\ BeginProof(c)
  /\ job' = Set(job, c, "run")
  /\ UNCHANGED <<ledgerVars, callerVars, witness, latest, connected, marked, asked, told, failed>>

\* runFailureChecks makes a proof only where there is none.
RunFailureChecks(c) ==
  /\ job[c] = None /\ latest[c] = None
  /\ BeginProof(c)
  /\ job' = Set(job, c, "check")
  /\ UNCHANGED <<ledgerVars, callerVars, witness, latest, connected, marked, asked, told, failed>>

FinishRun(c) ==
  /\ job[c] \in {"run", "check"} /\ proving[c] # None
  /\ KeepProof(c)
  /\ job' = Set(job, c, None)
  /\ asked' = asked \cup {proving[c].epoch}
  /\ UNCHANGED <<ledgerVars, callerVars, witness, connected, marked, told, failed>>

\* Faulty: the tab stays busy when proving fails.
ProofFailsFaulty(c) ==
  /\ proving[c] # None
  /\ proving' = Set(proving, c, None)
  /\ UNCHANGED <<ledgerVars, callerVars, job, witness, latest, connected, marked, asked, told, failed>>

\* generateProof throws: the last proof stays.
ProofFails(c) ==
  /\ proving[c] # None
  /\ proving' = Set(proving, c, None)
  /\ job' = Set(job, c, None)
  /\ UNCHANGED <<ledgerVars, callerVars, witness, latest, connected, marked, asked, told, failed>>

\* The wallet button, which is disabled while the tab is busy.
ConnectWallet(c) ==
  /\ job[c] = None
  /\ connected' = Set(connected, c, TRUE)
  /\ UNCHANGED <<ledgerVars, callerVars, job, witness, proving, latest, marked, asked, told, failed>>

-----------------------------------------------------------------------------
\* Faulty: every submission makes a proof of its own.
NeedsProofFaulty(c) == TRUE

NeedsProof(c) == latest[c] = None

\* submitPaymentProof with no proof yet makes one.
SubmitProving(c) ==
  /\ job[c] = None
  /\ NeedsProof(c)
  /\ BeginProof(c)
  /\ job' = Set(job, c, "submit")
  /\ asked' = IF latest[c] = None THEN asked \cup {proving'[c].epoch} ELSE asked
  /\ UNCHANGED <<ledgerVars, callerVars, witness, latest, connected, marked, told, failed>>

\* assertSubmitReady, and on to the wallet's address or to the account.
Continue(c, proof) ==
  /\ proof.roots = "deployed"
  /\ Enter(c, IF connected[c] THEN "account" ELSE "connect")
  /\ UNCHANGED <<ledgerVars, draft, attempt, nextPoll>>

SubmitLatest(c) ==
  /\ job[c] = None /\ ~NeedsProof(c)
  /\ Continue(c, latest[c])
  /\ job' = Set(job, c, "submit")
  /\ UNCHANGED <<witness, proving, latest, connected, marked, asked, told, failed>>

SubmitProven(c) ==
  /\ job[c] = "submit" /\ proving[c] # None
  /\ KeepProof(c)
  /\ \/ Continue(c, proving[c]) /\ UNCHANGED job
     \/ proving[c].roots # "deployed" /\ UNCHANGED <<ledgerVars, callerVars>> /\ job' = Set(job, c, None)
  /\ UNCHANGED <<witness, connected, marked, asked, told, failed>>

\* connectWallet, called by the submission.
GetAddress(c) ==
  /\ stage[c] = "connect"
  /\ Enter(c, "account")
  /\ connected' = Set(connected, c, TRUE)
  /\ UNCHANGED <<ledgerVars, draft, attempt, nextPoll,
                 job, witness, proving, latest, marked, asked, told, failed>>

BuildPayment(c) == stage[c] = "account" /\ Build(c, latest[c].epoch) /\ UNCHANGED consoleVars

Proceed(c) == (Simulate(c) \/ Send(c) \/ PollAgain(c)) /\ UNCHANGED consoleVars

SignInWallet(c) == Sign(c) /\ UNCHANGED consoleVars

\* Faulty: the epoch of the witness, not of the proof.
PaidEpochFaulty(c) == Original

\* The epoch signal of the proof that was submitted.
PaidEpoch(c) == latest[c].epoch

\* markPaymentEpochUsed whether the polling ends with SUCCESS or with PENDING.
Marks(ended) == ended \in {"SUCCESS", "PENDING"}

\* The end of the try block, with the status that pollTransaction returns.
EndsWith(c, ended) ==
  /\ marked' = IF Marks(ended) THEN marked \cup {PaidEpoch(c)} ELSE marked
  /\ told' = told \cup {<<draft[c], ended>>}

Submitted(c) ==
  /\ \/ PollSuccess(c) /\ EndsWith(c, "SUCCESS")
     \/ PollEnds(c) /\ EndsWith(c, "PENDING")
  /\ job' = Set(job, c, None)
  /\ UNCHANGED <<witness, proving, latest, connected, asked, failed>>

\* The catch block.  Whether the message of an error looks like one about a
\* used nullifier is not determined by its cause.
SubmitFails(c) ==
  /\ SimulationFails(c) \/ SendUnseen(c) \/ PollFailure(c) \/ Break(c)
  /\ job' = Set(job, c, None)
  /\ told' = IF stage[c] \in {"send", "poll"} THEN told \cup {<<draft[c], "error">>} ELSE told
  /\ marked' \in {marked, marked \cup {PaidEpoch(c)}}
  /\ failed' = failed \cup {PaidEpoch(c)}
  /\ UNCHANGED <<witness, proving, latest, connected, asked>>

-----------------------------------------------------------------------------
Step(c) ==
  \/ FinishRun(c) \/ ProofFails(c) \/ SubmitProven(c)
  \/ BuildPayment(c) \/ Proceed(c) \/ Submitted(c) \/ SubmitFails(c)

Visitor(c) ==
  \/ RunFlow(c) \/ RunFailureChecks(c) \/ ConnectWallet(c)
  \/ SubmitProving(c) \/ SubmitLatest(c) \/ GetAddress(c) \/ SignInWallet(c)
  \/ \E w \in Witnesses : RememberWitness(c, w)

ConsoleNext ==
  \/ \E c \in Callers : Step(c) \/ Visitor(c)
  \/ Network /\ UNCHANGED consoleVars

ConsoleSpec == ConsoleInit /\ [][ConsoleNext]_tabsVars

(* The browser goes on, and requests are answered or fail.  Nobody makes    *)
(* the visitor answer the wallet, or do anything.                           *)
ConsoleFairness == \A c \in Callers : WF_tabsVars(Step(c))

-----------------------------------------------------------------------------
(* A retry pays nothing new: every epoch that was paid is that of a proof  *)
(* that the visitor asked for, by running the flow or by submitting when   *)
(* there was none, however often submissions failed and were repeated and  *)
(* whatever other tabs do.                                                 *)
RetryPaysOnce == Spent \subseteq asked

(* A payment that landed is marked as used, or its submission is still     *)
(* polling, or the page has ended that submission with an error: it says   *)
(* "submit failed" of a payment that is made, and an epoch it may offer    *)
(* again is spent.                                                         *)
LandedIsAccounted ==
  \A x \in Landed :
    \/ x.epoch \in marked
    \/ stage[x.caller] = "poll" /\ draft[x.caller] = x
    \/ <<x, "error">> \in told

(* An epoch that is marked is spent, or a submission with it ended as      *)
(* PENDING, or with an error, which the page may take for a replay.        *)
MarkedIsAccounted ==
  \A e \in marked :
    \/ e \in Spent \cup failed
    \/ \E ended \in told : ended[2] = "PENDING" /\ ended[1].epoch = e

(* How far the list of used epochs, which all tabs share, can be from what *)
(* the ledger has: neither does a payment go missing, nor is an epoch lost *)
(* to the visitor, but by PENDING, by an error, or while it is polled.     *)
UsedEpochsAreAccounted == LandedIsAccounted /\ MarkedIsAccounted

\* The waits between 30 polls, 2 s each, outlast a transaction's 30 s.
PollsOutlast == Timeout < (PollAttempts - 1) * PollInterval

(* PENDING is final: the polls last longer than the transaction is valid,  *)
(* so a payment that was polled in vain never lands, although the page     *)
(* says "submitted" of it as of one that did; a retry does not pay twice.  *)
(* Only SUCCESS says that the payment is made.                             *)
PendingIsFinal ==
  \A ended \in told :
    /\ ended[2] = "PENDING" => ended[1] \notin Landed /\ (ended[1] \in sent => now > ended[1].until)
    /\ ended[2] = "SUCCESS" => ended[1] \in Landed

(* The busy flag and the disabled buttons do not stay: a busy tab becomes  *)
(* free, or waits for the visitor to answer the wallet.                    *)
BusyEnds ==
  \A c \in Callers : job[c] # None ~> job[c] = None \/ stage[c] \in {"connect", "wallet"}

=============================================================================
