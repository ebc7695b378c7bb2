----------------------------- MODULE Preflight -----------------------------
(***************************************************************************)
(* scripts/bucket-b-preflight.mjs and scripts/mainnet-preflight.mjs over   *)
(* the files of RootPublish: a preflight reads the issuance and the report *)
(* at two moments, while the rotation and the publishers go on, and looks  *)
(* whether the artifacts of its other gates are there.                     *)
(***************************************************************************)
EXTENDS RootPublish

CONSTANTS
  Bundles           \* sets of artifacts that can be there together

VARIABLES
  report,           \* the issuance in out/root-publish-report.json, or NoFile
  artifacts,        \* files, approvals and npm's readiness
  preflight,        \* the preflight: [kind, state, blocked, issuance]
  everInForce       \* issuances whose roots were in force together at some time

preflightVars == <<report, artifacts, preflight, everInForce>>
everyVar      == <<allVars, preflightVars>>

Kinds == {"bucket_b", "mainnet"}

-----------------------------------------------------------------------------
\* The artifacts each script wants, besides those of the issuer.
Wanted(kind) ==
  {"approval", "transcript", "audit", "governance", "evidence"} \cup
  IF kind = "bucket_b" THEN {"anchor_config", "npm_ready"} ELSE {}

\* A first deployment wants no mainnet deployment.
Unwanted(kind) == IF kind = "mainnet" THEN {"mainnet_deployment"} ELSE {}

Blocked(kind) == ~ (Wanted(kind) \subseteq artifacts /\ Unwanted(kind) \cap artifacts = {})

\* Faulty: the root of the revocations is not compared.
SameRootsFaulty(i, j) ==
  /\ i # NoFile /\ j # NoFile
  /\ CredentialRootOf(i) = CredentialRootOf(j)
  /\ SanctionsRootOf(i) = SanctionsRootOf(j)

SameRoots(i, j) ==
  /\ i # NoFile /\ j # NoFile
  /\ CredentialRootOf(i) = CredentialRootOf(j)
  /\ SanctionsRootOf(i) = SanctionsRootOf(j)
  /\ RevocationRootOf(i) = RevocationRootOf(j)

NoRun == [kind |-> "bucket_b", state |-> "idle", blocked |-> FALSE, issuance |-> NoFile]

PreflightInit ==
  /\ PublishInit
  /\ report = NoFile
  /\ artifacts \in Bundles
  /\ preflight = NoRun
  /\ everInForce = {}

\* rootPublishReady reads the issuance; a gate that is closed is only counted.
ReadIssuance(kind) ==
  /\ preflight.state # "issuance"
  /\ preflight' = [kind |-> kind, state |-> "issuance", blocked |-> Blocked(kind), issuance |-> file]
  /\ UNCHANGED <<allVars, report, artifacts, everInForce>>

\* Then the report, and the preflight ends.
ReadReport ==
  /\ preflight.state = "issuance"
  /\ preflight' = IF ~preflight.blocked /\ SameRoots(report, preflight.issuance)
                  THEN [preflight EXCEPT !.state = "go"]
                  ELSE NoRun
  /\ UNCHANGED <<allVars, report, artifacts, everInForce>>

\* What the transactions of publishers leave is remembered.
Remember == everInForce' = everInForce \cup {i \in Inputs : InForce(i)'}

\* WriteReport with the file it writes.
Reports(p) == WriteReport(p) /\ report' = expected[p]

Publish(p) ==
  /\ \/ Reports(p)
     \/ UNCHANGED report /\ (Begin(p) \/ Send(p) \/ SendUnseen(p) \/ Throw(p)
                             \/ LoadExpected(p) \/ ReadRoot(p))
  /\ Remember
  /\ UNCHANGED <<artifacts, preflight>>

Collect(bundle) ==
  /\ artifacts' = bundle
  /\ UNCHANGED <<allVars, report, preflight, everInForce>>

PreflightNext ==
  \/ \E i \in Inputs : Rotate(i) /\ UNCHANGED preflightVars
  \/ \E p \in Publishers : Publish(p)
  \/ \E kind \in Kinds : ReadIssuance(kind)
  \/ ReadReport
  \/ \E bundle \in Bundles : Collect(bundle)

PreflightSpec == PreflightInit /\ [][PreflightNext]_everyVar

-----------------------------------------------------------------------------
(* With executing publishers only: the issuance a preflight lets pass had  *)
(* all of its roots in force together, whatever failed, was rotated or was *)
(* published between the two reads.                                        *)
GoWasInForce == preflight.state = "go" => preflight.issuance \in everInForce

=============================================================================
