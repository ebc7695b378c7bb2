----------------------------- MODULE RootPublish -----------------------------
(***************************************************************************)
(* services/issuer/ops.js and publish-roots.js against issuer_registry:    *)
(* the issuance file is rewritten by the rotation job while a publisher    *)
(* reads it more than once, sends three transactions of which any can      *)
(* fail, and reads the roots back one by one.                              *)
(*                                                                         *)
(* Here a root is the set it commits to; IssuerTrees is about the trees.   *)
(***************************************************************************)
EXTENDS IssuerRegistry, Sequences

CONSTANTS
  IssuerId,         \* issuer_id of the roster
  Inputs,           \* what the roster, the OFAC lists and the revocations can say
  Executors,        \* runs of publish-roots --execute
  Checkers,         \* runs of publish-roots --verify
  NoFile            \* out/issuance.json does not exist, or has not been read

Input == [users : SUBSET Credentials, matched : SUBSET Persons, revoked : SUBSET Persons]

\* The three roots of the issuance that buildIssuance makes of an input.  Only
\* users on the roster are listed.
CredentialRootOf(i) == i.users

\* Faulty: the sanctions list is made of the revoked users.
SanctionsRootOfFaulty(i) ==
  {<<c.person, c.issuer>> : c \in {d \in i.users : d.person \in i.revoked}}

SanctionsRootOf(i)  == {<<c.person, c.issuer>> : c \in {d \in i.users : d.person \in i.matched}}
RevocationRootOf(i) == {c \in i.users : c.person \in i.revoked}

Publishers == Executors \cup Checkers

ASSUME PublishAssumption ==
  /\ IssuerId \in Issuers
  /\ Inputs \subseteq Input
  /\ NoFile \notin Inputs
  /\ Executors \cap Checkers = {}
  /\ \A i \in Inputs : /\ CredentialRootOf(i) \in CredentialSets
                       /\ SanctionsRootOf(i) \in DenySets
                       /\ RevocationRootOf(i) \in RevokedSets

VARIABLES
  file,             \* the input behind out/issuance.json, or NoFile
  pc,               \* what a publisher does next
  commands,         \* the issuance whose root_commands a publisher read
  expected          \* the issuance whose roots a publisher compares with

publishVars == <<file, pc, commands, expected>>
allVars == <<ownershipVars, issuerVars, publishVars>>

Sending == {"set_root", "set_sanctions_root", "set_revocation_root"}
Reading == {"root", "sanctions_root", "revocation_root"}
Active  == Sending \cup {"load"} \cup Reading \cup {"write"}

\* Types; a publisher at work has read an issuance.
PublishTypeOK ==
  /\ OwnershipTypeOK /\ IssuerTypeOK
  /\ file \in Inputs \cup {NoFile}
  /\ pc \in [Publishers -> Active \cup {"idle", "threw", "reported"}]
  /\ commands \in [Publishers -> Inputs \cup {NoFile}]
  /\ expected \in [Publishers -> Inputs \cup {NoFile}]
  /\ \A p \in Publishers :
       /\ pc[p] \in Active => file # NoFile /\ commands[p] # NoFile
       /\ pc[p] \in Reading \cup {"write", "reported"} => expected[p] # NoFile

PublishInit ==
  /\ OwnershipInit
  /\ IssuerInit
  /\ file = NoFile
  /\ pc = [p \in Publishers |-> "idle"]
  /\ commands = [p \in Publishers |-> NoFile]
  /\ expected = [p \in Publishers |-> NoFile]

Goto(p, step) == pc' = [pc EXCEPT ![p] = step]

-----------------------------------------------------------------------------
\* rotateRoots: the rotation job overwrites the file.
Rotate(i) ==
  /\ file' = i
  /\ UNCHANGED <<ownershipVars, issuerVars, pc, commands, expected>>

\* loadCommands; the issuance read just before it only names the admin to check.
Begin(p) ==
  /\ pc[p] \notin Active
  /\ file # NoFile
  /\ commands' = [commands EXCEPT ![p] = file]
  /\ Goto(p, IF p \in Executors THEN "set_root" ELSE "load")
  /\ UNCHANGED <<ownershipVars, issuerVars, file, expected>>

\* The transaction of one root command.
RootTransaction(step, i) ==
  \/ step = "set_root" /\ SetRoot(Deployer, IssuerId, CredentialRootOf(i))
  \/ step = "set_sanctions_root" /\ SetSanctionsRoot(Deployer, SanctionsRootOf(i))
  \/ step = "set_revocation_root" /\ SetRevocationRoot(Deployer, IssuerId, RevocationRootOf(i))

AfterSending == [set_root            |-> "set_sanctions_root",
                 set_sanctions_root  |-> "set_revocation_root",
                 set_revocation_root |-> "load"]

\* The command exits with status 0.
Send(p) ==
  /\ pc[p] \in Sending
  /\ RootTransaction(pc[p], commands[p])
  /\ Goto(p, AfterSending[pc[p]])
  /\ UNCHANGED <<ownershipVars, file, commands, expected>>

\* The transaction is applied although the command does not exit with status 0.
SendUnseen(p) ==
  /\ pc[p] \in Sending
  /\ RootTransaction(pc[p], commands[p])
  /\ Goto(p, "threw")
  /\ UNCHANGED <<ownershipVars, file, commands, expected>>

\* An identity, a command or a getter fails, a file cannot be parsed, or the
\* process is killed.
Throw(p) ==
  /\ pc[p] \in Active
  /\ Goto(p, "threw")
  /\ UNCHANGED <<ownershipVars, issuerVars, file, commands, expected>>

\* verifyPublishedRoots reads the file again.
LoadExpected(p) ==
  /\ pc[p] = "load"
  /\ expected' = [expected EXCEPT ![p] = file]
  /\ Goto(p, "root")
  /\ UNCHANGED <<ownershipVars, issuerVars, file, commands>>

\* Faulty: the last getter is not compared.
MatchesFaulty(getter, i) ==
  \/ getter = "root" /\ root[IssuerId] = CredentialRootOf(i)
  \/ getter = "sanctions_root" /\ sanctionsRoot = SanctionsRootOf(i)
  \/ getter = "revocation_root"

Matches(getter, i) ==
  \/ getter = "root" /\ root[IssuerId] = CredentialRootOf(i)
  \/ getter = "sanctions_root" /\ sanctionsRoot = SanctionsRootOf(i)
  \/ getter = "revocation_root" /\ revocationRoot[IssuerId] = RevocationRootOf(i)

AfterReading == [root            |-> "sanctions_root",
                 sanctions_root  |-> "revocation_root",
                 revocation_root |-> "write"]

\* One getter; a root that differs throws.
ReadRoot(p) ==
  /\ pc[p] \in Reading
  /\ Goto(p, IF Matches(pc[p], expected[p]) THEN AfterReading[pc[p]] ELSE "threw")
  /\ UNCHANGED <<ownershipVars, issuerVars, file, commands, expected>>

\* writeJson(reportPath, ...): the report says verified, with the roots expected.
WriteReport(p) ==
  /\ pc[p] = "write"
  /\ Goto(p, "reported")
  /\ UNCHANGED <<ownershipVars, issuerVars, file, commands, expected>>

PublishNext ==
  \/ \E i \in Inputs : Rotate(i)
  \/ \E p \in Publishers :
       \/ Begin(p) \/ Send(p) \/ SendUnseen(p) \/ Throw(p)
       \/ LoadExpected(p) \/ ReadRoot(p) \/ WriteReport(p)

PublishSpec == PublishInit /\ [][PublishNext]_allVars

-----------------------------------------------------------------------------
InForce(i) ==
  /\ root[IssuerId] = CredentialRootOf(i)
  /\ sanctionsRoot = SanctionsRootOf(i)
  /\ revocationRoot[IssuerId] = RevocationRootOf(i)

\* Who has a witness for a statement about the roots in force.
CanProve ==
  IF root[IssuerId] = None \/ sanctionsRoot = None \/ revocationRoot[IssuerId] = None
  THEN {}
  ELSE {s.person : s \in {t \in Statements :
          /\ t.credentialRoot = root[IssuerId]
          /\ t.sanctionsRoot = sanctionsRoot
          /\ t.revocationRoot = revocationRoot[IssuerId]
          /\ Provable(t)}}

\* Whatever the roots are, each credential entitles to one of the statements that
\* can be made: the roster's credentials meet some terms and some epoch is theirs.
CredentialsCount ==
  \A c \in Credentials, r \in CredentialSets, d \in DenySets, v \in RevokedSets :
    \E s \in Statements : /\ Entitles(c, s)
                          /\ s.credentialRoot = r
                          /\ s.sanctionsRoot = d
                          /\ s.revocationRoot = v

Clean(i) == {c.person : c \in i.users} \ (i.matched \cup i.revoked)

(* With one executor: its report is about roots that are in force together *)
(* and that its own transactions set, although the file was read at two    *)
(* moments between which it may have been rewritten, and the roots were    *)
(* read at three.                                                          *)
ExecutedReportIsInForce ==
  \A p \in Executors :
    pc[p] \in {"write", "reported"} => InForce(expected[p]) /\ InForce(commands[p])

(* Once the executor reports, whatever failed before: who can prove is     *)
(* exactly who is on the published roster, not matched and not revoked.    *)
ReportedRosterDecides ==
  \A p \in Executors : pc[p] = "reported" => CanProve = Clean(expected[p])

(* README.md says a listed party cannot produce a passing proof: nobody    *)
(* whom an issuance blocks has a witness once its roster is in force.      *)
BlockedCannotProve ==
  \A p \in Executors :
    pc[p] \in {"set_sanctions_root", "set_revocation_root", "load"} =>
      CanProve \cap (commands[p].matched \cup commands[p].revoked) = {}

=============================================================================
