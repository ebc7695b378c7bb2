-------------------------- MODULE PublishPreflight --------------------------
(***************************************************************************)
(* scripts/publish-preflight.mjs: the check before npm publish.  It reads  *)
(* both package files, then asks the registry once for the user and once   *)
(* for each version, while other people release.  The registry is external *)
(* and never takes a version back.                                         *)
(***************************************************************************)
EXTENDS Naturals, Sequences

CONSTANTS
  MaxVersion,       \* last version of a package
  NoVersions        \* no run

ASSUME VersionAssumption == MaxVersion \in Nat \ {0}

Packages == {"sdk", "cli"}
Order    == <<"sdk", "cli">>

VARIABLES
  packageFile,      \* package.json of a package: [version, publishable]
  registry,         \* versions npm has of a package
  user,             \* npm is logged in
  run               \* the run of the preflight

npmVars == <<packageFile, registry, user, run>>

PackageFile == [version : 1 .. MaxVersion, publishable : BOOLEAN]

IdleRun == [state |-> "idle", step |-> 0, versions |-> NoVersions, taken |-> {}, blocked |-> FALSE, allow |-> FALSE]

NpmInit ==
  /\ packageFile \in [Packages -> PackageFile]
  /\ registry \in [Packages -> {{}, {1}}]
  /\ user \in BOOLEAN
  /\ run = IdleRun

-----------------------------------------------------------------------------
\* private, license, version, repository and files are in order.
CheckPackage(f) == f.publishable

\* evaluatePublishPreflight reads the package files; the approval and the
\* flag for existing versions are in its environment.  taken is no variable
\* of the code.
BeginCheck(approved, allow) ==
  /\ run.state # "running"
  /\ run' = [state |-> "running", step |-> 0,
             versions |-> [p \in Packages |-> packageFile[p].version],
             taken |-> {p \in Packages : packageFile[p].version \in registry[p]},
             blocked |-> ~approved \/ \E p \in Packages : ~CheckPackage(packageFile[p]),
             allow |-> allow]
  /\ UNCHANGED <<packageFile, registry, user>>

\* npm whoami, which can fail for other reasons too.
Whoami ==
  /\ run.state = "running" /\ run.step = 0
  /\ \E known \in {user, FALSE} :
       run' = [run EXCEPT !.step = 1, !.blocked = @ \/ ~known]
  /\ UNCHANGED <<packageFile, registry, user>>

\* npm view: the version, an error 404, or another error.
Views(p, version) ==
  {"error", IF version \in registry[p] THEN "found" ELSE "missing"}

\* Faulty: a view without a version means that there is none.
BlocksFaulty(seen, allow) == seen = "found" /\ ~allow

Blocks(seen, allow) == seen = "error" \/ (seen = "found" /\ ~allow)

NpmView ==
  /\ run.state = "running" /\ run.step \in DOMAIN Order
  /\ \E seen \in Views(Order[run.step], run.versions[Order[run.step]]) :
       run' = [run EXCEPT !.step = @ + 1, !.blocked = @ \/ Blocks(seen, run.allow)]
  /\ UNCHANGED <<packageFile, registry, user>>

\* Ready without a blocker; only then main exits with 0.
Conclude ==
  /\ run.state = "running" /\ run.step > Len(Order)
  /\ run' = [run EXCEPT !.state = IF run.blocked THEN "blocked" ELSE "ready"]
  /\ UNCHANGED <<packageFile, registry, user>>

\* npm publish by anybody: a version that npm has is refused.
Release(p) ==
  /\ user /\ packageFile[p].publishable
  /\ packageFile[p].version \notin registry[p]
  /\ registry' = [registry EXCEPT ![p] = @ \cup {packageFile[p].version}]
  /\ UNCHANGED <<packageFile, user, run>>

EditPackage(p, f) ==
  /\ packageFile' = [packageFile EXCEPT ![p] = f]
  /\ UNCHANGED <<registry, user, run>>

LogIn(known) ==
  /\ user' = known
  /\ UNCHANGED <<packageFile, registry, run>>

NpmNext ==
  \/ \E approved, allow \in BOOLEAN : BeginCheck(approved, allow)
  \/ Whoami \/ NpmView \/ Conclude
  \/ \E p \in Packages : Release(p) \/ \E f \in PackageFile : EditPackage(p, f)
  \/ \E known \in BOOLEAN : LogIn(known)

NpmSpec == NpmInit /\ [][NpmNext]_npmVars

-----------------------------------------------------------------------------
(* A release that the preflight calls ready, without the flag that allows  *)
(* it, is of two versions that npm had not when the run began: neither an  *)
(* error of the registry nor a release in between looks like a free        *)
(* version, and what was published before is never taken for new.          *)
ReadyIsNew == run.state = "ready" /\ ~run.allow => run.taken = {}

=============================================================================
