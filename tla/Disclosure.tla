----------------------------- MODULE Disclosure -----------------------------
(***************************************************************************)
(* services/disclosure: disclosure.js encrypts the packet of a payment to  *)
(* an auditor and leaves a package and summaries of it, vault.js makes a   *)
(* vault of them, and build-web-packet.js makes the packet that the page   *)
(* assets/auditor-live.js decrypts.  Each can stop between two files.      *)
(*                                                                         *)
(* An input stands for its packet and for the hash of it; encryption opens *)
(* with its key and no other, and only with the hash it was bound to.      *)
(***************************************************************************)
EXTENDS Naturals, Sequences

CONSTANTS
  Programs,         \* of "disclosure", "vault", "web_packet"
  InputFiles,       \* contents of input.valid.json
  MaxPayments,
  MaxKeys,
  NoFile            \* no file

\* What is encrypted and hashed, a summary, and a package with its aad.
PacketInputs == InputFiles \cup {NoFile}
SummaryFiles == [hash : PacketInputs, tx : Nat]
PackageFiles ==
  [key : Nat, packet : [content : PacketInputs, hash : PacketInputs, tx : Nat],
   aad : SummaryFiles]

ASSUME DisclosureAssumption ==
  /\ MaxPayments \in Nat \ {0} /\ MaxKeys \in Nat
  /\ Programs \subseteq {"disclosure", "vault", "web_packet"}
  /\ NoFile \notin Nat /\ NoFile \notin PackageFiles

VARIABLES
  inputFile,        \* testdata/eligibility/input.valid.json
  public,           \* the input public.json was made from
  payments,         \* what the ledger approved; deployments/ names the last one
  keys,             \* auditor keys made so far
  viewKey,          \* .m4/disclosure/auditor-view-key.pem
  package,          \* testdata/disclosure/payment-disclosure.json
  webSummary,       \* apps/web/data/disclosure-summary.json
  vault,            \* disclosure-vault.json
  webKey,           \* apps/web/data/auditor-demo-key.json
  webPackage,       \* apps/web/data/payment-disclosure.json
  program,          \* what a program has done and read
  page              \* what the page has fetched

sources  == <<inputFile, public, payments>>
outputs  == <<viewKey, package, webSummary, vault, webKey, webPackage>>
discVars == <<sources, keys, outputs, program, page>>

-----------------------------------------------------------------------------
\* mapPacket: the payment is the one deployments/ names.
MapPacket(i, hash, tx) == [content |-> i, hash |-> hash, tx |-> tx]

EncryptPacket(packet, key) == [key |-> key, packet |-> packet, aad |-> [hash |-> packet.hash, tx |-> packet.tx]]

Opens(file, key) == file.key = key /\ file.aad.hash = file.packet.hash

DecryptPacket(file, key) == IF Opens(file, key) THEN file.packet ELSE NoFile

\* Faulty: the summary of the web page is written first.
StepsFaulty ==
  [disclosure |-> <<"key", "prove", "web_summary", "package">>,
   vault      |-> <<"web_summary", "package", "payment", "vault">>,
   web_packet |-> <<"prove", "key", "package">>]

\* What a program does after its first reads.
Steps ==
  [disclosure |-> <<"key", "prove", "package", "web_summary">>,
   vault      |-> <<"web_summary", "package", "payment", "vault">>,
   web_packet |-> <<"prove", "key", "package">>]

IdleProgram == [todo |-> <<>>, input |-> NoFile, hash |-> NoFile, tx |-> 0, key |-> 0,
                summary |-> NoFile, package |-> NoFile]

DisclosureInit ==
  /\ inputFile \in InputFiles /\ public = inputFile
  /\ payments = <<inputFile>>
  /\ keys = 0
  /\ viewKey = NoFile /\ package = NoFile /\ webSummary = NoFile /\ vault = NoFile
  /\ webKey = NoFile /\ webPackage = NoFile
  /\ program = [p \in Programs |-> IdleProgram]
  /\ page = [key |-> NoFile, package |-> NoFile]

ProgramAt(p, step) == p \in Programs /\ program[p].todo # <<>> /\ Head(program[p].todo) = step

StepDone(p, j)  == program' = [program EXCEPT ![p] = [j EXCEPT !.todo = Tail(@)]]
ThrowProgram(p) == program' = [program EXCEPT ![p] = IdleProgram]

\* The programs read their sources first.  vault.js has none.
BeginProgram(p) ==
  /\ program[p].todo = <<>>
  /\ program' = [program EXCEPT ![p] =
       IF p = "vault" THEN [IdleProgram EXCEPT !.todo = Steps[p]]
       ELSE [IdleProgram EXCEPT !.todo = Steps[p], !.input = inputFile, !.tx = Len(payments),
                                 !.hash = IF p = "disclosure" THEN public ELSE inputFile]]
  /\ UNCHANGED <<sources, keys, outputs, page>>

StopProgram(p) ==
  /\ program[p].todo # <<>>
  /\ ThrowProgram(p)
  /\ UNCHANGED <<sources, keys, outputs, page>>

-----------------------------------------------------------------------------
(* disclosure.js                                                           *)

\* A new key replaces the one on disk before anything is encrypted to it.
WriteViewKey ==
  /\ ProgramAt("disclosure", "key")
  /\ keys < MaxKeys
  /\ keys' = keys + 1
  /\ viewKey' = keys'
  /\ StepDone("disclosure", [program["disclosure"] EXCEPT !.key = keys'])
  /\ UNCHANGED <<sources, package, webSummary, vault, webKey, webPackage, page>>

PackageOf(j) == EncryptPacket(MapPacket(j.input, j.hash, j.tx), j.key)

\* Faulty: the recomputed signals are not compared.
VerifiedFaulty(j) ==
  LET decrypted == DecryptPacket(PackageOf(j), j.key)
  IN decrypted.hash = j.hash /\ decrypted.tx = j.tx

\* The proof of the input recomputes the hash of its packet.
Verified(j) ==
  LET decrypted == DecryptPacket(PackageOf(j), j.key)
  IN decrypted.hash = j.hash /\ j.input = j.hash /\ decrypted.tx = j.tx

ProvePacket ==
  /\ ProgramAt("disclosure", "prove")
  /\ IF Verified(program["disclosure"]) THEN StepDone("disclosure", program["disclosure"]) ELSE ThrowProgram("disclosure")
  /\ UNCHANGED <<sources, keys, outputs, page>>

WritePackage ==
  /\ ProgramAt("disclosure", "package")
  /\ package' = PackageOf(program["disclosure"])
  /\ StepDone("disclosure", program["disclosure"])
  /\ UNCHANGED <<sources, keys, viewKey, webSummary, vault, webKey, webPackage, page>>

\* summary.json has the same contents, and only the CLI shows it.
WriteSummary ==
  /\ ProgramAt("disclosure", "web_summary")
  /\ webSummary' = [hash |-> program["disclosure"].hash, tx |-> program["disclosure"].tx]
  /\ StepDone("disclosure", program["disclosure"])
  /\ UNCHANGED <<sources, keys, viewKey, package, vault, webKey, webPackage, page>>

-----------------------------------------------------------------------------
(* vault.js                                                                *)

ReadSummary ==
  /\ ProgramAt("vault", "web_summary")
  /\ IF webSummary = NoFile THEN ThrowProgram("vault")
     ELSE StepDone("vault", [program["vault"] EXCEPT !.summary = webSummary])
  /\ UNCHANGED <<sources, keys, outputs, page>>

ReadPackage ==
  /\ ProgramAt("vault", "package")
  /\ IF package = NoFile THEN ThrowProgram("vault")
     ELSE StepDone("vault", [program["vault"] EXCEPT !.package = package])
  /\ UNCHANGED <<sources, keys, outputs, page>>

ReadDeployments ==
  /\ ProgramAt("vault", "payment")
  /\ StepDone("vault", [program["vault"] EXCEPT !.tx = Len(payments)])
  /\ UNCHANGED <<sources, keys, outputs, page>>

\* fileHash does not parse the package that it reads: it also hashes one that
\* a disclosure is writing, here NoFile.
HashedPackages == {package} \cup (IF ProgramAt("disclosure", "package") THEN {NoFile} ELSE {})

\* buildVault, which reads the package again, and the writing of the vault;
\* that the events have a payment says nothing of which one.
BuildVault ==
  /\ ProgramAt("vault", "vault")
  /\ LET j == program["vault"] IN
       IF j.summary.hash = j.package.aad.hash /\ j.summary.tx = j.tx
       THEN /\ \E file \in HashedPackages :
                 vault' = [packet |-> j.summary, aad |-> j.package.aad, encrypted |-> file]
            /\ StepDone("vault", j)
       ELSE ThrowProgram("vault") /\ UNCHANGED vault
  /\ UNCHANGED <<sources, keys, viewKey, package, webSummary, webKey, webPackage, page>>

-----------------------------------------------------------------------------
(* build-web-packet.js and the page                                        *)

ProveWeb ==
  /\ ProgramAt("web_packet", "prove")
  /\ StepDone("web_packet", program["web_packet"])
  /\ UNCHANGED <<sources, keys, outputs, page>>

\* Faulty: a key is always made.
LoadOrCreateAuditorKeyFaulty ==
  /\ ProgramAt("web_packet", "key")
  /\ keys < MaxKeys
  /\ keys' = keys + 1
  /\ webKey' = keys'
  /\ StepDone("web_packet", [program["web_packet"] EXCEPT !.key = keys'])
  /\ UNCHANGED <<sources, viewKey, package, webSummary, vault, webPackage, page>>

LoadOrCreateAuditorKey ==
  /\ ProgramAt("web_packet", "key")
  /\ IF webKey = NoFile THEN keys < MaxKeys /\ keys' = keys + 1 /\ webKey' = keys'
     ELSE UNCHANGED <<keys, webKey>>
  /\ StepDone("web_packet", [program["web_packet"] EXCEPT !.key = webKey'])
  /\ UNCHANGED <<sources, viewKey, package, webSummary, vault, webPackage, page>>

WriteWebPackage ==
  /\ ProgramAt("web_packet", "package")
  /\ webPackage' = PackageOf(program["web_packet"])
  /\ StepDone("web_packet", program["web_packet"])
  /\ UNCHANGED <<sources, keys, viewKey, package, webSummary, vault, webKey, page>>

\* run fetches both files at once; either can be answered first.
FetchKey ==
  /\ page.key = NoFile /\ webKey # NoFile
  /\ page' = [page EXCEPT !.key = webKey]
  /\ UNCHANGED <<sources, keys, outputs, program>>

FetchPackage ==
  /\ page.package = NoFile /\ webPackage # NoFile
  /\ page' = [page EXCEPT !.package = webPackage]
  /\ UNCHANGED <<sources, keys, outputs, program>>

\* Reloaded, or pressed again after an error.
Reload ==
  /\ page' = [key |-> NoFile, package |-> NoFile]
  /\ UNCHANGED <<sources, keys, outputs, program>>

-----------------------------------------------------------------------------
\* The witness of the demonstration is made anew, then its public signals.
NewInput(i) ==
  /\ inputFile' = i
  /\ UNCHANGED <<public, payments, keys, outputs, program, page>>

NewPublic ==
  /\ public' = inputFile
  /\ UNCHANGED <<inputFile, payments, keys, outputs, program, page>>

\* A payment with the proof at hand; its transaction goes to deployments/.
Deploy ==
  /\ Len(payments) < MaxPayments
  /\ payments' = Append(payments, public)
  /\ UNCHANGED <<inputFile, public, keys, outputs, program, page>>

DisclosureNext ==
  \/ \E p \in Programs : BeginProgram(p) \/ StopProgram(p)
  \/ WriteViewKey \/ ProvePacket \/ WritePackage \/ WriteSummary
  \/ ReadSummary \/ ReadPackage \/ ReadDeployments \/ BuildVault
  \/ ProveWeb \/ LoadOrCreateAuditorKey \/ WriteWebPackage
  \/ FetchKey \/ FetchPackage \/ Reload
  \/ \E i \in InputFiles : NewInput(i)
  \/ NewPublic \/ Deploy

DisclosureSpec == DisclosureInit /\ [][DisclosureNext]_discVars

-----------------------------------------------------------------------------
(* A vault names the payment that the package it was built from names, as  *)
(* vault.test.js asserts of one, although buildVault does not compare the  *)
(* two, other payments were disclosed before and a disclosure may have     *)
(* stopped between its files.  encryptedPacketSha256 is of a later read,   *)
(* and may be of another package.                                          *)
VaultNamesPayment == vault # NoFile => vault.packet = vault.aad

(* The hash an auditor sees on a package is that of the packet inside,     *)
(* also when the witness and its public signals are replaced in between:   *)
(* no reader of the package is shown a hash that was not recomputed.       *)
PackageIsProven ==
  \A file \in {package, webPackage} \ {NoFile} : file.packet.content = file.aad.hash

(* docs/M4.md: disclosure.js "verifies binding to the payment proof's      *)
(* public `packet_hash`": the payment that a package names was approved    *)
(* with the hash it has.                                                   *)
DisclosureBindsPayment ==
  package # NoFile => payments[package.aad.tx] = package.aad.hash

(* What the page fetches it can open: the key it has is the one of the     *)
(* package it has, however often the packet is built anew meanwhile.       *)
PageOpens == page.key # NoFile /\ page.package # NoFile => Opens(page.package, page.key)

=============================================================================
