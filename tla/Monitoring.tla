----------------------------- MODULE Monitoring -----------------------------
(***************************************************************************)
(* services/monitoring/monitor.js over the files of IssuerOps and a file   *)
(* of events, and services/indexer/build-index.js, which makes that file   *)
(* of the raw events of two transactions.                                  *)
(*                                                                         *)
(* An event sets a root, approves an action with a nullifier, or rejects a *)
(* proof.                                                                  *)
(***************************************************************************)
EXTENDS IssuerOps

CONSTANTS
  Events,           \* events a file can have: [type, root, nullifier]
  MaxEvents,
  RawFiles,         \* raw files of a transaction: sequences of [contract, topic, nullifier]
  Contracts,        \* the contract of every flow, in deployments/
  NoValue           \* no nullifier, no exit

ASSUME MonitorAssumption == MaxEvents \in Nat /\ NoValue \notin Nat

VARIABLES
  events,           \* services/indexer/compliance-events.json, or Missing
  monitor,          \* a run of the monitor
  delivered         \* alerts of this run that the webhook has accepted

monitorVars == <<events, monitor, delivered>>
allVars     == <<opsVars, monitorVars>>

-----------------------------------------------------------------------------
\* No file has no events.
NormalizeEvents(file) == IF file = Missing THEN <<>> ELSE file

\* The roots of an issuance; the roster and the revocations are fixed.
RootsOf(i) == [CredentialRootSet |-> RosterUsers, SanctionsRootSet |-> i.matched, RevocationRootSet |-> {}]

RootTypes == {"CredentialRootSet", "SanctionsRootSet", "RevocationRootSet"}

\* rootEventInfo and eventRoot against the roots expected, if there are any.
RootAlerts(file, i) ==
  {[kind |-> file[k].type, at |-> k,
    severity |-> IF i # Missing /\ file[k].root # RootsOf(i)[file[k].type] THEN "critical" ELSE "info"] :
     k \in {n \in DOMAIN file : file[n].type \in RootTypes}}

\* Faulty: an event is compared with the one before it only.
ReplayAlertsFaulty(file) ==
  {[kind |-> "nullifier_replay", at |-> k, severity |-> "critical"] :
     k \in {n \in DOMAIN file : n > 1 /\ file[n].nullifier # NoValue
                                    /\ file[n - 1].nullifier = file[n].nullifier}}

\* seenNullifiers: every event whose nullifier an earlier one had.
ReplayAlerts(file) ==
  {[kind |-> "nullifier_replay", at |-> k, severity |-> "critical"] :
     k \in {n \in DOMAIN file : /\ file[n].nullifier # NoValue
                                /\ \E m \in 1 .. n - 1 : file[m].nullifier = file[n].nullifier}}

InvalidProofAlerts(file) ==
  {[kind |-> "invalid_proof", at |-> k, severity |-> "critical"] :
     k \in {n \in DOMAIN file : file[n].type = "InvalidProof"}}

\* Only an issuance that says when it was generated can be stale.
StaleAlerts(i) ==
  IF i # Missing /\ i.at # Missing /\ opsNow > MaxAge + i.at
  THEN {[kind |-> "root_stale", at |-> 0, severity |-> "warning"]}
  ELSE {}

BuildAlerts(file, i) ==
  RootAlerts(file, i) \cup ReplayAlerts(file) \cup InvalidProofAlerts(file) \cup StaleAlerts(i)

Critical(alerts) == \E a \in alerts : a.severity = "critical"

-----------------------------------------------------------------------------
NoRun == [state |-> "idle", webhook |-> FALSE, file |-> <<>>, issuance |-> Missing, alerts |-> {},
          exit |-> NoValue]

MonitorInit ==
  /\ OpsInit
  /\ events = Missing
  /\ monitor = NoRun
  /\ delivered = {}

Exit(code) == [monitor EXCEPT !.state = "ended", !.exit = code]

\* ANCHORSHIELD_ALERT_WEBHOOK_URL is set or not.
BeginMonitor(webhook) ==
  /\ monitor.state \in {"idle", "ended"}
  /\ monitor' = [NoRun EXCEPT !.state = "issuance", !.webhook = webhook,
                              !.file = NormalizeEvents(events)]
  /\ delivered' = {}
  /\ UNCHANGED <<opsVars, events>>

\* An issuance that is cut throws.  The alerts also go to out/alerts.json,
\* which nothing reads.
ReadIssuance ==
  /\ monitor.state = "issuance"
  /\ monitor' = IF issuance = Cut THEN Exit(1)
                ELSE [monitor EXCEPT !.state = "emit", !.issuance = issuance,
                                     !.alerts = BuildAlerts(monitor.file, issuance)]
  /\ UNCHANGED <<opsVars, events, delivered>>

\* emitAlerts logs every alert, and posts them when there is a webhook.
Posts == monitor.webhook /\ monitor.alerts # {}

EndsUnposted ==
  /\ monitor.state = "emit"
  /\ ~Posts
  /\ monitor' = Exit(IF Critical(monitor.alerts) THEN 1 ELSE 0)
  /\ UNCHANGED <<opsVars, events, delivered>>

Emit ==
  /\ monitor.state = "emit"
  /\ Posts
  /\ delivered' = monitor.alerts
  /\ monitor' = Exit(IF Critical(monitor.alerts) THEN 1 ELSE 0)
  /\ UNCHANGED <<opsVars, events>>

\* The webhook does not answer or refuses.
EmitFails ==
  /\ monitor.state = "emit"
  /\ Posts
  /\ monitor' = Exit(1)
  /\ UNCHANGED <<opsVars, events, delivered>>

-----------------------------------------------------------------------------
Topics == [payment |-> "approved", rwa |-> "mint_authorized"]

Matching(flow, file) ==
  {k \in DOMAIN file : file[k].contract = Contracts[flow] /\ file[k].topic = Topics[flow]}

\* selectEvent: the first event of the contract with the topic.
SelectEvent(flow, file) ==
  file[CHOOSE k \in Matching(flow, file) : \A n \in Matching(flow, file) : k <= n]

\* build: one event for each flow, of the raw file fetched for it, or nothing
\* is written.
BuildIndex(payment, rwa) ==
  /\ Matching("payment", payment) # {} /\ Matching("rwa", rwa) # {}
  /\ events' = <<[type |-> "Approved", root |-> {}, nullifier |-> SelectEvent("payment", payment).nullifier],
                [type |-> "Approved", root |-> {}, nullifier |-> SelectEvent("rwa", rwa).nullifier]>>
  /\ UNCHANGED <<opsVars, monitor, delivered>>

\* The file is written by another indexer, or is a fixture.
AddEvent(e) ==
  /\ Len(NormalizeEvents(events)) < MaxEvents
  /\ events' = Append(NormalizeEvents(events), e)
  /\ UNCHANGED <<opsVars, monitor, delivered>>

MonitorNext ==
  \/ OpsNext /\ UNCHANGED monitorVars
  \/ \E webhook \in BOOLEAN : BeginMonitor(webhook)
  \/ ReadIssuance \/ EndsUnposted \/ Emit \/ EmitFails
  \/ \E payment, rwa \in RawFiles : BuildIndex(payment, rwa)
  \/ \E e \in Events : AddEvent(e)

MonitorSpec == MonitorInit /\ [][MonitorNext]_allVars

-----------------------------------------------------------------------------
Has(file, type) == file # Missing /\ \E k \in DOMAIN file : file[k].type = type

(* A run that exits with 0 saw no rejected proof, no nullifier in two      *)
(* approvals however far apart, and no root but the issuer's.  If it has a *)
(* webhook, that accepted every lesser alert too, such as a stale root;    *)
(* without one these are only in the log, and the exit does not tell them. *)
QuietMeansClean ==
  monitor.exit = 0 =>
    /\ ~Has(monitor.file, "InvalidProof")
    /\ \A k, n \in DOMAIN monitor.file :
         monitor.file[k].nullifier = monitor.file[n].nullifier => k = n \/ monitor.file[k].nullifier = NoValue
    /\ monitor.issuance # Missing =>
         \A k \in DOMAIN monitor.file :
           monitor.file[k].type \in RootTypes =>
             monitor.file[k].root = RootsOf(monitor.issuance)[monitor.file[k].type]
    /\ monitor.webhook => monitor.alerts \subseteq delivered

=============================================================================
