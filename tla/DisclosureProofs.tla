-------------------------- MODULE DisclosureProofs --------------------------
(***************************************************************************)
(* Proofs about the disclosures: the hash on a package is that of the      *)
(* packet inside, a vault names the payment of its package, and what the   *)
(* page fetches it can open, for any number of inputs, payments and keys.  *)
(***************************************************************************)
EXTENDS Disclosure, TLAPS

(* Where a program can stand.                                              *)
Rest ==
  [disclosure |-> {<<>>, <<"key", "prove", "package", "web_summary">>,
                   <<"prove", "package", "web_summary">>, <<"package", "web_summary">>,
                   <<"web_summary">>},
   vault      |-> {<<>>, <<"web_summary", "package", "payment", "vault">>,
                   <<"package", "payment", "vault">>, <<"payment", "vault">>, <<"vault">>},
   web_packet |-> {<<>>, <<"prove", "key", "package">>, <<"key", "package">>, <<"package">>}]

(* Types.                                                                  *)
ProgramStates ==
  [todo : UNION {Rest[p] : p \in DOMAIN Rest},
   input : PacketInputs, hash : PacketInputs, tx : Nat, key : Nat,
   summary : SummaryFiles \cup {NoFile}, package : PackageFiles \cup {NoFile}]

VaultFiles ==
  [packet : SummaryFiles, aad : SummaryFiles, encrypted : PackageFiles \cup {NoFile}]

DiscTypeOK ==
  /\ inputFile \in PacketInputs /\ public \in PacketInputs
  /\ payments \in Seq(PacketInputs) /\ keys \in Nat
  /\ package \in PackageFiles \cup {NoFile} /\ webPackage \in PackageFiles \cup {NoFile}
  /\ webSummary \in SummaryFiles \cup {NoFile}
  /\ vault \in VaultFiles \cup {NoFile}
  /\ webKey \in Nat \cup {NoFile}
  /\ program \in [Programs -> ProgramStates]

ProgressOK == \A p \in Programs : program[p].todo \in Rest[p]

(* From the proof on, what is encrypted is what was proven.                *)
ProvenInv ==
  /\ PackageIsProven
  /\ ("disclosure" \in Programs /\ program["disclosure"].todo = <<"package", "web_summary">>) =>
       program["disclosure"].input = program["disclosure"].hash
  /\ ("web_packet" \in Programs /\ program["web_packet"].todo # <<>>) =>
       program["web_packet"].input = program["web_packet"].hash

(* Packages and summaries name payments in the order they are made: a      *)
(* summary is never newer than the package on disk, and no file is newer   *)
(* than the deployments.                                                   *)
FilesInOrder ==
  /\ package \in PackageFiles => package.aad.tx <= Len(payments)
  /\ webSummary # NoFile =>
       package \in PackageFiles /\ webSummary.tx <= package.aad.tx

DisclosureInOrder ==
  LET j == program["disclosure"] IN
  ("disclosure" \in Programs /\ j.todo # <<>>) =>
    /\ j.tx <= Len(payments)
    /\ package \in PackageFiles => package.aad.tx <= j.tx
    /\ j.todo = <<"web_summary">> => package \in PackageFiles /\ package.aad.tx = j.tx

VaultInOrder ==
  LET j == program["vault"] IN
  "vault" \in Programs =>
    /\ j.todo = <<"package", "payment", "vault">> =>
         j.summary \in SummaryFiles /\ package \in PackageFiles /\ j.summary.tx <= package.aad.tx
    /\ j.todo = <<"payment", "vault">> =>
         /\ j.summary \in SummaryFiles /\ j.package \in PackageFiles
         /\ j.summary.tx <= j.package.aad.tx /\ j.package.aad.tx <= Len(payments)
    /\ j.todo = <<"vault">> =>
         /\ j.summary \in SummaryFiles /\ j.package \in PackageFiles
         /\ j.summary.tx <= j.package.aad.tx /\ j.package.aad.tx <= j.tx

DInv ==
  /\ DiscTypeOK /\ ProgressOK /\ ProvenInv
  /\ FilesInOrder /\ DisclosureInOrder /\ VaultInOrder /\ VaultNamesPayment

-----------------------------------------------------------------------------
LEMMA PackageType ==
  ASSUME NEW j \in ProgramStates
  PROVE  /\ PackageOf(j) \in PackageFiles
         /\ PackageOf(j).aad.tx = j.tx
         /\ PackageOf(j).packet.content = j.input /\ PackageOf(j).aad.hash = j.hash
         /\ PackageOf(j).packet.hash = j.hash /\ PackageOf(j).key = j.key
BY DEF PackageOf, EncryptPacket, MapPacket, ProgramStates, PackageFiles, SummaryFiles

LEMMA IdleIsState == IdleProgram \in ProgramStates
BY DEF IdleProgram, ProgramStates, PacketInputs, Rest

(* The steps of each program, in their order.                              *)
LEMMA DisclosureSteps ==
  ASSUME NEW todo \in Rest["disclosure"]
  PROVE  /\ todo # <<>> => Tail(todo) \in Rest["disclosure"]
         /\ (todo # <<>> /\ Head(todo) = "key") =>
              /\ todo = <<"key", "prove", "package", "web_summary">>
              /\ Tail(todo) = <<"prove", "package", "web_summary">>
         /\ (todo # <<>> /\ Head(todo) = "prove") =>
              /\ todo = <<"prove", "package", "web_summary">>
              /\ Tail(todo) = <<"package", "web_summary">>
         /\ (todo # <<>> /\ Head(todo) = "package") =>
              /\ todo = <<"package", "web_summary">>
              /\ Tail(todo) = <<"web_summary">>
         /\ (todo # <<>> /\ Head(todo) = "web_summary") =>
              /\ todo = <<"web_summary">>
              /\ Tail(todo) = <<>>
<1>0. CASE todo = <<>>
  BY <1>0 DEF Rest
<1>1. CASE todo = <<"key", "prove", "package", "web_summary">>
  BY <1>1 DEF Rest
<1>2. CASE todo = <<"prove", "package", "web_summary">>
  BY <1>2 DEF Rest
<1>3. CASE todo = <<"package", "web_summary">>
  BY <1>3 DEF Rest
<1>4. CASE todo = <<"web_summary">>
  BY <1>4 DEF Rest
<1> QED BY <1>0, <1>1, <1>2, <1>3, <1>4 DEF Rest

LEMMA VaultSteps ==
  ASSUME NEW todo \in Rest["vault"]
  PROVE  /\ todo # <<>> => Tail(todo) \in Rest["vault"]
         /\ (todo # <<>> /\ Head(todo) = "web_summary") =>
              /\ todo = <<"web_summary", "package", "payment", "vault">>
              /\ Tail(todo) = <<"package", "payment", "vault">>
         /\ (todo # <<>> /\ Head(todo) = "package") =>
              /\ todo = <<"package", "payment", "vault">>
              /\ Tail(todo) = <<"payment", "vault">>
         /\ (todo # <<>> /\ Head(todo) = "payment") =>
              /\ todo = <<"payment", "vault">>
              /\ Tail(todo) = <<"vault">>
         /\ (todo # <<>> /\ Head(todo) = "vault") =>
              /\ todo = <<"vault">>
              /\ Tail(todo) = <<>>
<1>0. CASE todo = <<>>
  BY <1>0 DEF Rest
<1>1. CASE todo = <<"web_summary", "package", "payment", "vault">>
  BY <1>1 DEF Rest
<1>2. CASE todo = <<"package", "payment", "vault">>
  BY <1>2 DEF Rest
<1>3. CASE todo = <<"payment", "vault">>
  BY <1>3 DEF Rest
<1>4. CASE todo = <<"vault">>
  BY <1>4 DEF Rest
<1> QED BY <1>0, <1>1, <1>2, <1>3, <1>4 DEF Rest

LEMMA WebSteps ==
  ASSUME NEW todo \in Rest["web_packet"]
  PROVE  /\ todo # <<>> => Tail(todo) \in Rest["web_packet"]
         /\ (todo # <<>> /\ Head(todo) = "prove") =>
              /\ todo = <<"prove", "key", "package">>
              /\ Tail(todo) = <<"key", "package">>
         /\ (todo # <<>> /\ Head(todo) = "key") =>
              /\ todo = <<"key", "package">>
              /\ Tail(todo) = <<"package">>
         /\ (todo # <<>> /\ Head(todo) = "package") =>
              /\ todo = <<"package">>
              /\ Tail(todo) = <<>>
<1>0. CASE todo = <<>>
  BY <1>0 DEF Rest
<1>1. CASE todo = <<"prove", "key", "package">>
  BY <1>1 DEF Rest
<1>2. CASE todo = <<"key", "package">>
  BY <1>2 DEF Rest
<1>3. CASE todo = <<"package">>
  BY <1>3 DEF Rest
<1> QED BY <1>0, <1>1, <1>2, <1>3 DEF Rest

LEMMA BeginningAndEnd ==
  \A p \in {"disclosure", "vault", "web_packet"} : Steps[p] \in Rest[p] /\ <<>> \in Rest[p]
BY DEF Steps, Rest

LEMMA ProgramMoves ==
  ASSUME DiscTypeOK, ProgressOK, NEW p \in Programs, NEW j \in ProgramStates,
         j.todo \in Rest[p], program' = [program EXCEPT ![p] = j]
  PROVE  /\ program' \in [Programs -> ProgramStates] /\ ProgressOK'
         /\ program'[p] = j /\ \A q \in Programs : q # p => program'[q] = program[q]
BY DEF DiscTypeOK, ProgressOK

LEMMA ProgramDone ==
  ASSUME DiscTypeOK, ProgressOK, NEW p \in Programs, NEW j \in ProgramStates,
         j.todo = program[p].todo, j.todo # <<>>, StepDone(p, j)
  PROVE  /\ program' \in [Programs -> ProgramStates] /\ ProgressOK'
         /\ program'[p] = [j EXCEPT !.todo = Tail(j.todo)]
         /\ \A q \in Programs : q # p => program'[q] = program[q]
<1> DEFINE k == [j EXCEPT !.todo = Tail(j.todo)]
<1>1. p \in {"disclosure", "vault", "web_packet"} /\ j.todo \in Rest[p]
  BY DisclosureAssumption DEF ProgressOK
<1>2. Tail(j.todo) \in Rest[p]
  BY <1>1, DisclosureSteps, VaultSteps, WebSteps
<1>3. k \in ProgramStates
  <2>1. Tail(j.todo) \in UNION {Rest[q] : q \in DOMAIN Rest}
    BY <1>1, <1>2 DEF Rest
  <2> QED BY <2>1 DEF ProgramStates
<1>4. k.todo \in Rest[p] /\ program' = [program EXCEPT ![p] = k]
  BY <1>2 DEF StepDone, ProgramStates
<1> HIDE DEF k
<1>5. /\ program' \in [Programs -> ProgramStates] /\ ProgressOK'
      /\ program'[p] = k /\ \A q \in Programs : q # p => program'[q] = program[q]
  BY <1>3, <1>4, ProgramMoves
<1> QED BY <1>5 DEF k

LEMMA ProgramThrown ==
  ASSUME DiscTypeOK, ProgressOK, NEW p \in Programs, ThrowProgram(p)
  PROVE  /\ program' \in [Programs -> ProgramStates] /\ ProgressOK'
         /\ program'[p] = IdleProgram
         /\ \A q \in Programs : q # p => program'[q] = program[q]
<1>1. IdleProgram.todo \in Rest[p]
  BY BeginningAndEnd, DisclosureAssumption DEF IdleProgram
<1> QED BY <1>1, IdleIsState, ProgramMoves DEF ThrowProgram

-----------------------------------------------------------------------------
(* What a step leaves alone keeps what was said of it.                     *)

LEMMA PaymentsCounted == DiscTypeOK => Len(payments) \in Nat
BY DEF DiscTypeOK

LEMMA StateType ==
  ASSUME DiscTypeOK, NEW p \in Programs
  PROVE  /\ program[p] \in ProgramStates /\ program[p].tx \in Nat
         /\ program[p].summary # NoFile => program[p].summary \in SummaryFiles
         /\ program[p].package # NoFile => program[p].package \in PackageFiles
BY DEF DiscTypeOK, ProgramStates

LEMMA IdleInv ==
  ASSUME DInv, NEW p \in Programs, ThrowProgram(p), UNCHANGED <<sources, keys, outputs>>
  PROVE  DInv'
<1> USE DEF DInv, sources, outputs
<1>1. /\ program' \in [Programs -> ProgramStates] /\ ProgressOK'
      /\ program'[p].todo = <<>>
      /\ \A q \in Programs : q # p => program'[q] = program[q]
  BY ProgramThrown DEF IdleProgram
<1>2. DiscTypeOK'
  BY <1>1 DEF DiscTypeOK
<1>3. ProvenInv'
  <2>1. PackageIsProven'
    BY DEF ProvenInv, PackageIsProven
  <2>2. \A q \in Programs : program'[q].todo = <<>> \/ program'[q] = program[q]
    BY <1>1
  <2>3. <<>> # <<"package", "web_summary">>
    OBVIOUS
  <2> QED BY <2>1, <2>2, <2>3 DEF ProvenInv
<1>4. FilesInOrder'
  BY DEF FilesInOrder
<1>5. DisclosureInOrder'
  BY <1>1 DEF DisclosureInOrder
<1>6. VaultInOrder'
  <2>1. CASE p = "vault"
    <3>1. program'["vault"].todo = <<>>
      BY <1>1, <2>1
    <3>2. /\ <<>> # <<"package", "payment", "vault">>
          /\ <<>> # <<"payment", "vault">> /\ <<>> # <<"vault">>
      OBVIOUS
    <3> QED BY <3>1, <3>2 DEF VaultInOrder
  <2>2. CASE p # "vault"
    <3>1. "vault" \in Programs => program'["vault"] = program["vault"]
      BY <1>1, <2>2
    <3> QED BY <3>1 DEF VaultInOrder
  <2> QED BY <2>1, <2>2
<1>7. VaultNamesPayment'
  BY DEF VaultNamesPayment
<1> QED BY <1>1, <1>2, <1>3, <1>4, <1>5, <1>6, <1>7

LEMMA PageInv ==
  ASSUME DInv, UNCHANGED <<sources, keys, outputs, program>>
  PROVE  DInv'
BY DEF DInv, sources, outputs, DiscTypeOK, ProgressOK, ProvenInv, PackageIsProven,
       FilesInOrder, DisclosureInOrder, VaultInOrder, VaultNamesPayment

(* The inputs and the deployments are written anew; nothing is taken back. *)
LEMMA SourcesInv ==
  ASSUME DInv, inputFile' \in PacketInputs, public' \in PacketInputs,
         payments' \in Seq(PacketInputs), Len(payments) <= Len(payments'), UNCHANGED <<keys, outputs, program>>
  PROVE  DInv'
<1> USE DEF DInv, outputs
<1>1. Len(payments) \in Nat /\ Len(payments') \in Nat
  BY PaymentsCounted
<1>2. DiscTypeOK' /\ ProgressOK'
  BY DEF DiscTypeOK, ProgressOK
<1>3. ProvenInv' /\ VaultNamesPayment'
  BY DEF ProvenInv, PackageIsProven, VaultNamesPayment
<1>4. FilesInOrder'
  <2>1. package \in PackageFiles => package.aad.tx \in Nat
    BY DEF PackageFiles, SummaryFiles
  <2> QED BY <1>1, <2>1 DEF FilesInOrder
<1>5. DisclosureInOrder'
  <2>1. "disclosure" \in Programs => program["disclosure"].tx \in Nat
    BY StateType
  <2> QED BY <1>1, <2>1 DEF DisclosureInOrder
<1>6. VaultInOrder'
  <2>1. ASSUME "vault" \in Programs, program["vault"].package \in PackageFiles
        PROVE  program["vault"].package.aad.tx \in Nat
    BY <2>1 DEF PackageFiles, SummaryFiles
  <2> QED BY <1>1, <2>1 DEF VaultInOrder
<1> QED BY <1>2, <1>3, <1>4, <1>5, <1>6

LEMMA BeginInv ==
  ASSUME DInv, NEW p \in Programs, BeginProgram(p)
  PROVE  DInv'
<1> USE DEF DInv, sources, outputs
<1> DEFINE j == IF p = "vault" THEN [IdleProgram EXCEPT !.todo = Steps[p]]
                ELSE [IdleProgram EXCEPT !.todo = Steps[p], !.input = inputFile,
                        !.tx = Len(payments),
                        !.hash = IF p = "disclosure" THEN public ELSE inputFile]
<1>0. p \in {"disclosure", "vault", "web_packet"} /\ Len(payments) \in Nat
  BY DisclosureAssumption, PaymentsCounted
<1>1. j.todo = Steps[p] /\ j.todo \in Rest[p] /\ Steps[p] \in UNION {Rest[q] : q \in DOMAIN Rest}
  BY <1>0, BeginningAndEnd DEF IdleProgram, Rest
<1>2. j \in ProgramStates
  BY <1>0, <1>1 DEF IdleProgram, ProgramStates, DiscTypeOK, PacketInputs
<1>3. program' = [program EXCEPT ![p] = j] /\ UNCHANGED <<sources, keys, outputs>>
  BY DEF BeginProgram
<1>4. /\ program' \in [Programs -> ProgramStates] /\ ProgressOK'
      /\ program'[p] = j /\ \A q \in Programs : q # p => program'[q] = program[q]
  <2> HIDE DEF j
  <2> QED BY <1>1, <1>2, <1>3, ProgramMoves
<1>5. DiscTypeOK' /\ VaultNamesPayment' /\ FilesInOrder'
  BY <1>3, <1>4 DEF DiscTypeOK, VaultNamesPayment, FilesInOrder
<1>6. ProvenInv'
  <2>1. p = "disclosure" => j.todo # <<"package", "web_summary">>
    BY <1>1 DEF Steps
  <2>2. p = "web_packet" => j.input = j.hash
    BY DEF IdleProgram
  <2> HIDE DEF j
  <2> QED BY <1>3, <1>4, <2>1, <2>2 DEF ProvenInv, PackageIsProven
<1>7. DisclosureInOrder'
  <2>1. p = "disclosure" => j.todo # <<"web_summary">> /\ j.tx = Len(payments)
    BY <1>1 DEF Steps, IdleProgram
  <2> HIDE DEF j
  <2> QED BY <1>0, <1>3, <1>4, <2>1 DEF DisclosureInOrder, FilesInOrder
<1>8. VaultInOrder'
  <2>1. p = "vault" => /\ j.todo # <<"package", "payment", "vault">>
                       /\ j.todo # <<"payment", "vault">> /\ j.todo # <<"vault">>
    BY <1>1 DEF Steps
  <2> HIDE DEF j
  <2> QED BY <1>3, <1>4, <2>1 DEF VaultInOrder
<1> QED BY <1>4, <1>5, <1>6, <1>7, <1>8

-----------------------------------------------------------------------------
(* One lemma per step of the three programs.                               *)

(* What a step of program p says of the others.                            *)
LEMMA AtStep ==
  ASSUME DInv, NEW p \in {"disclosure", "vault", "web_packet"}, NEW step, ProgramAt(p, step)
  PROVE  /\ p \in Programs /\ program[p].todo # <<>> /\ Head(program[p].todo) = step
         /\ program[p].todo \in Rest[p] /\ program[p] \in ProgramStates
         /\ Len(payments) \in Nat
BY PaymentsCounted DEF DInv, DiscTypeOK, ProgressOK, ProgramAt

(* A step of the disclosure that leaves the package alone.                 *)
LEMMA DisclosureStep ==
  ASSUME DInv, NEW step, ProgramAt("disclosure", step), NEW j \in ProgramStates,
         j.todo = program["disclosure"].todo, j.tx = program["disclosure"].tx,
         StepDone("disclosure", j), step \in {"key", "prove"},
         step = "prove" => j.input = j.hash,
         UNCHANGED <<sources, package, webSummary, vault, webKey, webPackage>>, keys' \in Nat
  PROVE  DInv'
<1> USE DEF DInv, sources
<1>1. /\ "disclosure" \in Programs /\ j.todo # <<>> /\ Head(j.todo) = step
      /\ j.todo \in Rest["disclosure"]
  BY AtStep
<1>2. /\ step = "key" => Tail(j.todo) = <<"prove", "package", "web_summary">>
      /\ step = "prove" => Tail(j.todo) = <<"package", "web_summary">>
  BY <1>1, DisclosureSteps
<1>3. /\ program' \in [Programs -> ProgramStates] /\ ProgressOK'
      /\ program'["disclosure"] = [j EXCEPT !.todo = Tail(j.todo)]
      /\ \A q \in Programs : q # "disclosure" => program'[q] = program[q]
  BY <1>1, ProgramDone
<1>4. /\ program'["disclosure"].todo = Tail(j.todo) /\ program'["disclosure"].tx = j.tx
      /\ program'["disclosure"].input = j.input /\ program'["disclosure"].hash = j.hash
  BY <1>3 DEF ProgramStates
<1>5. DiscTypeOK' /\ VaultNamesPayment' /\ FilesInOrder'
  BY <1>3 DEF DiscTypeOK, VaultNamesPayment, FilesInOrder
<1>6. ProvenInv'
  <2>1. step = "key" => Tail(j.todo) # <<"package", "web_summary">>
    BY <1>2
  <2>2. PackageIsProven'
    BY DEF ProvenInv, PackageIsProven
  <2>3. "web_packet" \in Programs => program'["web_packet"] = program["web_packet"]
    BY <1>3
  <2> QED BY <1>4, <2>1, <2>2, <2>3 DEF ProvenInv
<1>7. DisclosureInOrder'
  <2>1. Tail(j.todo) # <<"web_summary">>
    BY <1>2
  <2> QED BY <1>1, <1>4, <2>1 DEF DisclosureInOrder
<1>8. VaultInOrder'
  BY <1>3 DEF VaultInOrder
<1> QED BY <1>3, <1>5, <1>6, <1>7, <1>8

LEMMA WriteViewKeyInv ==
  ASSUME DInv, WriteViewKey
  PROVE  DInv'
<1> DEFINE j == [program["disclosure"] EXCEPT !.key = keys']
<1>1. ProgramAt("disclosure", "key") /\ keys' = keys + 1 /\ keys' \in Nat
  BY DEF WriteViewKey, DInv, DiscTypeOK
<1>2. /\ j \in ProgramStates /\ j.todo = program["disclosure"].todo
      /\ j.tx = program["disclosure"].tx
  BY <1>1, AtStep DEF ProgramStates
<1>3. /\ StepDone("disclosure", j)
      /\ UNCHANGED <<sources, package, webSummary, vault, webKey, webPackage>>
  BY DEF WriteViewKey
<1> HIDE DEF j
<1> QED BY <1>1, <1>2, <1>3, DisclosureStep

LEMMA ProvePacketInv ==
  ASSUME DInv, ProvePacket
  PROVE  DInv'
<1>1. ProgramAt("disclosure", "prove") /\ UNCHANGED <<sources, keys, outputs>>
  BY DEF ProvePacket
<1>2. CASE Verified(program["disclosure"])
  <2>1. program["disclosure"].input = program["disclosure"].hash
    BY <1>2 DEF Verified
  <2>2. StepDone("disclosure", program["disclosure"])
    BY <1>2 DEF ProvePacket
  <2>3. keys' \in Nat
    BY <1>1 DEF DInv, DiscTypeOK
  <2> QED BY <1>1, <2>1, <2>2, <2>3, AtStep, DisclosureStep DEF outputs
<1>3. CASE ~Verified(program["disclosure"])
  BY <1>1, <1>3, AtStep, IdleInv DEF ProvePacket
<1> QED BY <1>2, <1>3

LEMMA WritePackageInv ==
  ASSUME DInv, WritePackage
  PROVE  DInv'
<1> USE DEF DInv, sources
<1> DEFINE j == program["disclosure"]
<1>1. /\ ProgramAt("disclosure", "package") /\ package' = PackageOf(j)
      /\ StepDone("disclosure", j)
      /\ UNCHANGED <<sources, keys, viewKey, webSummary, vault, webKey, webPackage>>
  BY DEF WritePackage
<1>2. /\ "disclosure" \in Programs /\ j.todo # <<>> /\ j \in ProgramStates
      /\ j.todo = <<"package", "web_summary">> /\ Tail(j.todo) = <<"web_summary">>
  BY <1>1, AtStep, DisclosureSteps
<1>3. /\ program' \in [Programs -> ProgramStates] /\ ProgressOK'
      /\ program'["disclosure"] = [j EXCEPT !.todo = Tail(j.todo)]
      /\ \A q \in Programs : q # "disclosure" => program'[q] = program[q]
  BY <1>1, <1>2, ProgramDone
<1>4. program'["disclosure"].todo = <<"web_summary">> /\ program'["disclosure"].tx = j.tx
  BY <1>2, <1>3 DEF ProgramStates
<1>5. /\ package' \in PackageFiles /\ package'.aad.tx = j.tx
      /\ package'.packet.content = j.input /\ package'.aad.hash = j.hash
  BY <1>1, <1>2, PackageType
<1>6. DiscTypeOK' /\ VaultNamesPayment'
  BY <1>1, <1>3, <1>5 DEF DiscTypeOK, VaultNamesPayment
<1>7. /\ j.tx \in Nat /\ j.tx <= Len(payments) /\ j.input = j.hash
      /\ package \in PackageFiles => package.aad.tx <= j.tx /\ package.aad.tx \in Nat
  BY <1>2, StateType DEF DisclosureInOrder, ProvenInv, PackageFiles, SummaryFiles
<1>8. ProvenInv'
  <2>1. PackageIsProven'
    BY <1>1, <1>5, <1>7 DEF ProvenInv, PackageIsProven
  <2>2. <<"web_summary">> # <<"package", "web_summary">>
    OBVIOUS
  <2>3. "web_packet" \in Programs => program'["web_packet"] = program["web_packet"]
    BY <1>3
  <2> QED BY <1>4, <2>1, <2>2, <2>3 DEF ProvenInv
<1>9. webSummary # NoFile => webSummary.tx \in Nat /\ webSummary.tx <= j.tx
  <2>1. webSummary # NoFile => webSummary.tx \in Nat
    BY DEF DiscTypeOK, SummaryFiles
  <2> QED BY <1>7, <2>1 DEF FilesInOrder
<1>10. FilesInOrder'
  BY <1>1, <1>5, <1>7, <1>9 DEF FilesInOrder
<1>11. DisclosureInOrder'
  BY <1>1, <1>4, <1>5, <1>7 DEF DisclosureInOrder
<1>12. VaultInOrder'
  <2>1. "vault" \in Programs => program'["vault"] = program["vault"]
    BY <1>3
  <2>2. program["vault"].summary \in SummaryFiles => program["vault"].summary.tx \in Nat
    BY DEF SummaryFiles
  <2> QED BY <1>1, <1>5, <1>7, <2>1, <2>2 DEF VaultInOrder
<1> QED BY <1>3, <1>6, <1>8, <1>10, <1>11, <1>12

LEMMA WriteSummaryInv ==
  ASSUME DInv, WriteSummary
  PROVE  DInv'
<1> USE DEF DInv, sources
<1> DEFINE j == program["disclosure"]
<1>1. /\ ProgramAt("disclosure", "web_summary") /\ webSummary' = [hash |-> j.hash, tx |-> j.tx]
      /\ StepDone("disclosure", j)
      /\ UNCHANGED <<sources, keys, viewKey, package, vault, webKey, webPackage>>
  BY DEF WriteSummary
<1>2. /\ "disclosure" \in Programs /\ j.todo # <<>> /\ j \in ProgramStates
      /\ j.todo = <<"web_summary">> /\ Tail(j.todo) = <<>>
  BY <1>1, AtStep, DisclosureSteps
<1>3. /\ program' \in [Programs -> ProgramStates] /\ ProgressOK'
      /\ program'["disclosure"] = [j EXCEPT !.todo = Tail(j.todo)]
      /\ \A q \in Programs : q # "disclosure" => program'[q] = program[q]
  BY <1>1, <1>2, ProgramDone
<1>4. program'["disclosure"].todo = <<>>
  BY <1>2, <1>3 DEF ProgramStates
<1>5. webSummary' \in SummaryFiles /\ webSummary'.tx = j.tx
  BY <1>1, <1>2 DEF ProgramStates, SummaryFiles
<1>6. DiscTypeOK' /\ VaultNamesPayment'
  BY <1>1, <1>3, <1>5 DEF DiscTypeOK, VaultNamesPayment
<1>7. ProvenInv'
  <2>1. PackageIsProven' /\ <<>> # <<"package", "web_summary">>
    BY <1>1 DEF ProvenInv, PackageIsProven
  <2>2. "web_packet" \in Programs => program'["web_packet"] = program["web_packet"]
    BY <1>3
  <2> QED BY <1>4, <2>1, <2>2 DEF ProvenInv
<1>8. package \in PackageFiles /\ package.aad.tx = j.tx /\ j.tx \in Nat
  BY <1>2, StateType DEF DisclosureInOrder
<1>9. FilesInOrder' /\ DisclosureInOrder'
  BY <1>1, <1>4, <1>5, <1>8 DEF FilesInOrder, DisclosureInOrder
<1>10. VaultInOrder'
  BY <1>1, <1>3 DEF VaultInOrder
<1> QED BY <1>3, <1>6, <1>7, <1>9, <1>10

(* A step of the vault, which leaves every other file alone.               *)
LEMMA VaultStep ==
  ASSUME DInv, NEW step, ProgramAt("vault", step), NEW j \in ProgramStates,
         j.todo = program["vault"].todo, StepDone("vault", j),
         step \in {"web_summary", "package", "payment", "vault"},
         step = "web_summary" => /\ j.summary \in SummaryFiles /\ package \in PackageFiles
                                 /\ j.summary.tx <= package.aad.tx,
         step = "package" => /\ j.summary \in SummaryFiles /\ j.package \in PackageFiles
                             /\ j.summary.tx <= j.package.aad.tx
                             /\ j.package.aad.tx <= Len(payments),
         step = "payment" => /\ j.summary \in SummaryFiles /\ j.package \in PackageFiles
                             /\ j.summary.tx <= j.package.aad.tx
                             /\ j.package.aad.tx <= j.tx,
         vault' \in VaultFiles \cup {NoFile},
         VaultNamesPayment',
         UNCHANGED <<sources, keys, package, webSummary, webKey, webPackage>>
  PROVE  DInv'
<1> USE DEF DInv, sources
<1>1. /\ "vault" \in Programs /\ j.todo # <<>> /\ Head(j.todo) = step
      /\ j.todo \in Rest["vault"]
  BY AtStep
<1>2. /\ step = "web_summary" => Tail(j.todo) = <<"package", "payment", "vault">>
      /\ step = "package" => Tail(j.todo) = <<"payment", "vault">>
      /\ step = "payment" => Tail(j.todo) = <<"vault">>
      /\ step = "vault" => Tail(j.todo) = <<>>
  BY <1>1, VaultSteps
<1>3. /\ program' \in [Programs -> ProgramStates] /\ ProgressOK'
      /\ program'["vault"] = [j EXCEPT !.todo = Tail(j.todo)]
      /\ \A q \in Programs : q # "vault" => program'[q] = program[q]
  BY <1>1, ProgramDone
<1>4. /\ program'["vault"].todo = Tail(j.todo) /\ program'["vault"].tx = j.tx
      /\ program'["vault"].summary = j.summary /\ program'["vault"].package = j.package
  BY <1>3 DEF ProgramStates
<1>5. DiscTypeOK' /\ FilesInOrder'
  BY <1>3 DEF DiscTypeOK, FilesInOrder
<1>6. /\ "disclosure" \in Programs => program'["disclosure"] = program["disclosure"]
      /\ "web_packet" \in Programs => program'["web_packet"] = program["web_packet"]
  BY <1>3
<1>7. ProvenInv' /\ DisclosureInOrder'
  BY <1>6 DEF ProvenInv, PackageIsProven, DisclosureInOrder
<1>8. VaultInOrder'
  <2>1. CASE step = "web_summary"
    BY <1>2, <1>4, <2>1 DEF VaultInOrder
  <2>2. CASE step = "package"
    BY <1>2, <1>4, <2>2 DEF VaultInOrder
  <2>3. CASE step = "payment"
    BY <1>2, <1>4, <2>3 DEF VaultInOrder
  <2>4. CASE step = "vault"
    <3>1. program'["vault"].todo = <<>>
      BY <1>2, <1>4, <2>4
    <3>2. /\ <<>> # <<"package", "payment", "vault">>
          /\ <<>> # <<"payment", "vault">> /\ <<>> # <<"vault">>
      OBVIOUS
    <3> QED BY <3>1, <3>2 DEF VaultInOrder
  <2> QED BY <2>1, <2>2, <2>3, <2>4
<1> QED BY <1>3, <1>5, <1>7, <1>8

LEMMA ReadSummaryInv ==
  ASSUME DInv, ReadSummary
  PROVE  DInv'
<1> DEFINE j == [program["vault"] EXCEPT !.summary = webSummary]
<1>1. ProgramAt("vault", "web_summary") /\ UNCHANGED <<sources, keys, outputs>>
  BY DEF ReadSummary
<1>2. CASE webSummary = NoFile
  BY <1>1, <1>2, AtStep, IdleInv DEF ReadSummary
<1>3. CASE webSummary # NoFile
  <2>1. webSummary \in SummaryFiles /\ package \in PackageFiles /\ webSummary.tx <= package.aad.tx
    BY <1>3 DEF DInv, DiscTypeOK, FilesInOrder
  <2>2. j \in ProgramStates /\ j.todo = program["vault"].todo /\ j.summary = webSummary
    BY <1>1, <2>1, AtStep DEF ProgramStates
  <2>3. StepDone("vault", j)
    BY <1>3 DEF ReadSummary
  <2>4. /\ vault' \in VaultFiles \cup {NoFile}
        /\ VaultNamesPayment'
    BY <1>1 DEF DInv, DiscTypeOK, VaultNamesPayment, outputs
  <2> HIDE DEF j
  <2> QED BY <1>1, <2>1, <2>2, <2>3, <2>4, VaultStep DEF outputs
<1> QED BY <1>2, <1>3

LEMMA ReadPackageInv ==
  ASSUME DInv, ReadPackage
  PROVE  DInv'
<1> DEFINE j == [program["vault"] EXCEPT !.package = package]
<1>1. ProgramAt("vault", "package") /\ UNCHANGED <<sources, keys, outputs>>
  BY DEF ReadPackage
<1>2. CASE package = NoFile
  BY <1>1, <1>2, AtStep, IdleInv DEF ReadPackage
<1>3. CASE package # NoFile
  <2>1. package \in PackageFiles /\ package.aad.tx <= Len(payments)
    BY <1>3 DEF DInv, DiscTypeOK, FilesInOrder
  <2>2. /\ j \in ProgramStates /\ j.todo = program["vault"].todo
        /\ j.summary = program["vault"].summary /\ j.package = package
    BY <1>1, <2>1, AtStep DEF ProgramStates
  <2>3. j.summary \in SummaryFiles /\ j.summary.tx <= package.aad.tx
    BY <1>1, <2>2, AtStep, VaultSteps DEF DInv, VaultInOrder
  <2>4. StepDone("vault", j)
    BY <1>3 DEF ReadPackage
  <2>5. /\ vault' \in VaultFiles \cup {NoFile}
        /\ VaultNamesPayment'
    BY <1>1 DEF DInv, DiscTypeOK, VaultNamesPayment, outputs
  <2> HIDE DEF j
  <2> QED BY <1>1, <2>1, <2>2, <2>3, <2>4, <2>5, VaultStep DEF outputs
<1> QED BY <1>2, <1>3

LEMMA ReadDeploymentsInv ==
  ASSUME DInv, ReadDeployments
  PROVE  DInv'
<1> DEFINE j == [program["vault"] EXCEPT !.tx = Len(payments)]
<1>1. /\ ProgramAt("vault", "payment") /\ UNCHANGED <<sources, keys, outputs>>
      /\ StepDone("vault", j)
  BY DEF ReadDeployments
<1>2. /\ j \in ProgramStates /\ j.todo = program["vault"].todo /\ j.tx = Len(payments)
      /\ j.summary = program["vault"].summary /\ j.package = program["vault"].package
  BY <1>1, AtStep DEF ProgramStates
<1>3. /\ j.summary \in SummaryFiles /\ j.package \in PackageFiles
      /\ j.summary.tx <= j.package.aad.tx /\ j.package.aad.tx <= Len(payments)
  BY <1>1, <1>2, AtStep, VaultSteps DEF DInv, VaultInOrder
<1>4. /\ vault' \in VaultFiles \cup {NoFile}
      /\ VaultNamesPayment'
  BY <1>1 DEF DInv, DiscTypeOK, VaultNamesPayment, outputs
<1> HIDE DEF j
<1> QED BY <1>1, <1>2, <1>3, <1>4, VaultStep DEF outputs

(* The payment that the deployments name when the vault is built lies      *)
(* between the two that the summary and the package name.                  *)
LEMMA BuildVaultInv ==
  ASSUME DInv, BuildVault
  PROVE  DInv'
<1> DEFINE j == program["vault"]
<1>1. ProgramAt("vault", "vault")
      /\ UNCHANGED <<sources, keys, viewKey, package, webSummary, webKey, webPackage>>
  BY DEF BuildVault
<1>2. CASE j.summary.hash = j.package.aad.hash /\ j.summary.tx = j.tx
  <2>1. PICK file \in HashedPackages :
          /\ vault' = [packet |-> j.summary, aad |-> j.package.aad, encrypted |-> file]
          /\ StepDone("vault", j)
    BY <1>2 DEF BuildVault
  <2>2. /\ j.summary \in SummaryFiles /\ j.package \in PackageFiles /\ j \in ProgramStates
        /\ j.summary.tx <= j.package.aad.tx /\ j.package.aad.tx <= j.tx
    BY <1>1, AtStep, VaultSteps DEF DInv, VaultInOrder
  <2>3. j.package.aad \in SummaryFiles
    BY <2>2 DEF PackageFiles
  <2>4. j.summary.tx = j.package.aad.tx
    BY <1>2, <2>2, <2>3 DEF SummaryFiles
  <2>5. j.summary = j.package.aad
    BY <1>2, <2>2, <2>3, <2>4 DEF SummaryFiles
  <2>8. file \in PackageFiles \cup {NoFile}
    BY DEF HashedPackages, DInv, DiscTypeOK
  <2>6. /\ vault' \in VaultFiles \cup {NoFile}
        /\ VaultNamesPayment'
    BY <2>1, <2>2, <2>3, <2>5, <2>8 DEF VaultNamesPayment, VaultFiles
  <2> HIDE DEF j
  <2>7. j.todo = program["vault"].todo
    BY DEF j
  <2> QED BY <1>1, <2>1, <2>2, <2>6, <2>7, VaultStep
<1>3. CASE ~(j.summary.hash = j.package.aad.hash /\ j.summary.tx = j.tx)
  <2>1. ThrowProgram("vault") /\ UNCHANGED vault
    BY <1>3 DEF BuildVault
  <2> QED BY <1>1, <2>1, AtStep, IdleInv DEF outputs
<1> QED BY <1>2, <1>3

(* A step of build-web-packet.js.                                          *)
LEMMA WebStep ==
  ASSUME DInv, NEW step, ProgramAt("web_packet", step), NEW j \in ProgramStates,
         j.todo = program["web_packet"].todo, j.input = program["web_packet"].input,
         j.hash = program["web_packet"].hash, StepDone("web_packet", j),
         keys' \in Nat, webKey' \in Nat \cup {NoFile},
         webPackage' = webPackage \/ webPackage' = PackageOf(j),
         UNCHANGED <<sources, package, webSummary, vault>>
  PROVE  DInv'
<1> USE DEF DInv, sources
<1>1. /\ "web_packet" \in Programs /\ j.todo # <<>> /\ j.input = j.hash
  BY AtStep DEF ProvenInv
<1>2. /\ program' \in [Programs -> ProgramStates] /\ ProgressOK'
      /\ program'["web_packet"] = [j EXCEPT !.todo = Tail(j.todo)]
      /\ \A q \in Programs : q # "web_packet" => program'[q] = program[q]
  BY <1>1, ProgramDone
<1>3. /\ program'["web_packet"].input = j.input /\ program'["web_packet"].hash = j.hash
  BY <1>2 DEF ProgramStates
<1>4. webPackage' \in PackageFiles \cup {NoFile}
  BY PackageType DEF DiscTypeOK
<1>5. DiscTypeOK' /\ VaultNamesPayment' /\ FilesInOrder'
  BY <1>2, <1>4 DEF DiscTypeOK, VaultNamesPayment, FilesInOrder
<1>6. /\ "disclosure" \in Programs => program'["disclosure"] = program["disclosure"]
      /\ "vault" \in Programs => program'["vault"] = program["vault"]
  BY <1>2
<1>7. PackageIsProven'
  BY <1>1, PackageType DEF ProvenInv, PackageIsProven
<1>8. ProvenInv'
  BY <1>1, <1>3, <1>6, <1>7 DEF ProvenInv
<1>9. DisclosureInOrder' /\ VaultInOrder'
  BY <1>6 DEF DisclosureInOrder, VaultInOrder
<1> QED BY <1>2, <1>5, <1>8, <1>9

LEMMA ProveWebInv ==
  ASSUME DInv, ProveWeb
  PROVE  DInv'
<1>1. keys' \in Nat /\ webKey' \in Nat \cup {NoFile}
  BY DEF ProveWeb, outputs, DInv, DiscTypeOK
<1> QED BY <1>1, AtStep, WebStep DEF ProveWeb, outputs

LEMMA LoadOrCreateAuditorKeyInv ==
  ASSUME DInv, LoadOrCreateAuditorKey
  PROVE  DInv' /\ webKey' \in Nat
<1> DEFINE j == [program["web_packet"] EXCEPT !.key = webKey']
<1>1. keys' \in Nat /\ webKey' \in Nat
  BY DEF LoadOrCreateAuditorKey, DInv, DiscTypeOK
<1>2. /\ ProgramAt("web_packet", "key") /\ StepDone("web_packet", j)
      /\ UNCHANGED <<sources, viewKey, package, webSummary, vault, webPackage>>
  BY DEF LoadOrCreateAuditorKey
<1>3. /\ j \in ProgramStates /\ j.todo = program["web_packet"].todo
      /\ j.input = program["web_packet"].input /\ j.hash = program["web_packet"].hash
  BY <1>1, <1>2, AtStep DEF ProgramStates
<1> HIDE DEF j
<1> QED BY <1>1, <1>2, <1>3, WebStep

LEMMA WriteWebPackageInv ==
  ASSUME DInv, WriteWebPackage
  PROVE  DInv'
<1>1. keys' \in Nat /\ webKey' \in Nat \cup {NoFile}
  BY DEF WriteWebPackage, DInv, DiscTypeOK
<1> QED BY <1>1, AtStep, WebStep DEF WriteWebPackage

-----------------------------------------------------------------------------
LEMMA DeployInv ==
  ASSUME DInv, NewPublic \/ Deploy \/ \E i \in InputFiles : NewInput(i)
  PROVE  DInv'
<1>1. /\ payments \in Seq(PacketInputs) /\ public \in PacketInputs /\ inputFile \in PacketInputs
      /\ Len(payments) \in Nat
  BY PaymentsCounted DEF DInv, DiscTypeOK
<1>2. CASE NewPublic \/ \E i \in InputFiles : NewInput(i)
  BY <1>1, <1>2, SourcesInv DEF NewPublic, NewInput, PacketInputs
<1>3. CASE Deploy
  <2>1. payments' = Append(payments, public)
    BY <1>3 DEF Deploy
  <2>2. payments' \in Seq(PacketInputs) /\ Len(payments) <= Len(payments')
    BY <1>1, <2>1
  <2> QED BY <1>1, <1>3, <2>2, SourcesInv DEF Deploy
<1> QED BY <1>2, <1>3

LEMMA DInit == DisclosureInit => DInv
<1> SUFFICES ASSUME DisclosureInit PROVE DInv
  OBVIOUS
<1> USE DEF DisclosureInit
<1>1. program \in [Programs -> ProgramStates] /\ \A p \in Programs : program[p] = IdleProgram
  BY IdleIsState
<1>2. DiscTypeOK
  <2>1. inputFile \in PacketInputs /\ payments \in Seq(PacketInputs)
    BY DEF PacketInputs
  <2> QED BY <1>1, <2>1 DEF DiscTypeOK
<1>3. ProgressOK
  BY <1>1, BeginningAndEnd, DisclosureAssumption DEF ProgressOK, IdleProgram
<1>4. IdleProgram.todo = <<>> /\ <<>> # <<"package", "web_summary">>
      /\ <<>> # <<"package", "payment", "vault">> /\ <<>> # <<"payment", "vault">>
      /\ <<>> # <<"vault">>
  BY DEF IdleProgram
<1>5. ProvenInv /\ DisclosureInOrder /\ VaultInOrder
  BY <1>1, <1>4 DEF ProvenInv, PackageIsProven, DisclosureInOrder, VaultInOrder
<1>6. FilesInOrder /\ VaultNamesPayment
  BY DisclosureAssumption DEF FilesInOrder, VaultNamesPayment
<1> QED BY <1>2, <1>3, <1>5, <1>6 DEF DInv

LEMMA DStep == DInv /\ [DisclosureNext]_discVars => DInv'
<1> SUFFICES ASSUME DInv, [DisclosureNext]_discVars PROVE DInv'
  OBVIOUS
<1>1. CASE \E p \in Programs : BeginProgram(p) \/ StopProgram(p)
  <2>1. ASSUME NEW p \in Programs, StopProgram(p) PROVE DInv'
    BY <2>1, IdleInv DEF StopProgram
  <2> QED BY <1>1, <2>1, BeginInv
<1>2. CASE WriteViewKey \/ ProvePacket \/ WritePackage \/ WriteSummary
  BY <1>2, WriteViewKeyInv, ProvePacketInv, WritePackageInv, WriteSummaryInv
<1>3. CASE ReadSummary \/ ReadPackage \/ ReadDeployments \/ BuildVault
  BY <1>3, ReadSummaryInv, ReadPackageInv, ReadDeploymentsInv, BuildVaultInv
<1>4. CASE ProveWeb \/ LoadOrCreateAuditorKey \/ WriteWebPackage
  BY <1>4, ProveWebInv, LoadOrCreateAuditorKeyInv, WriteWebPackageInv
<1>5. CASE FetchKey \/ FetchPackage \/ Reload
  BY <1>5, PageInv DEF FetchKey, FetchPackage, Reload
<1>6. CASE NewPublic \/ Deploy \/ \E i \in InputFiles : NewInput(i)
  BY <1>6, DeployInv
<1>7. CASE UNCHANGED discVars
  BY <1>7, PageInv DEF discVars
<1> QED BY <1>1, <1>2, <1>3, <1>4, <1>5, <1>6, <1>7 DEF DisclosureNext

(* services/disclosure: however the programs and the witnesses interleave, *)
(* and wherever a program stops, the hash on a package for the auditor or  *)
(* for the page is that of the packet inside.                              *)
THEOREM PackagesAreProven == DisclosureSpec => []PackageIsProven
<1>1. DInv => PackageIsProven
  BY DEF DInv, ProvenInv
<1> QED BY <1>1, DInit, DStep, PTL DEF DisclosureSpec

(* vault.js: for any number of payments, and wherever a disclosure stopped *)
(* between its files, a vault names the payment that the package it was    *)
(* built from names.                                                       *)
THEOREM VaultsNamePayments == DisclosureSpec => []VaultNamesPayment
<1>1. DInv => VaultNamesPayment
  BY DEF DInv
<1> QED BY <1>1, DInit, DStep, PTL DEF DisclosureSpec

-----------------------------------------------------------------------------
(* The page.                                                               *)

(* The key of the page is made once: every package on disk or fetched is   *)
(* encrypted to it, and the program that is about to write one has it.     *)
WebInv ==
  /\ webPackage # NoFile => webKey # NoFile /\ Opens(webPackage, webKey)
  /\ ("web_packet" \in Programs /\ program["web_packet"].todo = <<"package">>) =>
       webKey # NoFile /\ program["web_packet"].key = webKey
  /\ page.key # NoFile => page.key = webKey
  /\ page.package # NoFile => webKey # NoFile /\ Opens(page.package, webKey)
  /\ page = [key |-> page.key, package |-> page.package]

LEMMA WebKept ==
  ASSUME WebInv, UNCHANGED <<webKey, webPackage, page>>,
         "web_packet" \in Programs =>
           \/ program'["web_packet"] = program["web_packet"]
           \/ program'["web_packet"].todo # <<"package">>
  PROVE  WebInv'
BY DEF WebInv

LEMMA WebStops ==
  ASSUME DInv, WebInv, NEW p \in Programs, ThrowProgram(p), UNCHANGED <<webKey, webPackage, page>>
  PROVE  WebInv'
<1>1. /\ program'[p].todo = <<>> /\ <<>> # <<"package">>
      /\ \A q \in Programs : q # p => program'[q] = program[q]
  BY ProgramThrown DEF IdleProgram, DInv
<1> QED BY <1>1, WebKept

LEMMA OtherSteps ==
  ASSUME DInv, WebInv, NEW p \in {"disclosure", "vault"}, NEW j, StepDone(p, j),
         UNCHANGED <<webKey, webPackage, page>>
  PROVE  WebInv'
<1>1. "web_packet" \in Programs => program'["web_packet"] = program["web_packet"]
  BY DEF StepDone, DInv, DiscTypeOK
<1> QED BY <1>1, WebKept

LEMMA WebBegins ==
  ASSUME DInv, WebInv, NEW p \in Programs, BeginProgram(p)
  PROVE  WebInv'
<1>1. p = "web_packet" => program'[p].todo = Steps["web_packet"]
  BY DEF BeginProgram, DInv, DiscTypeOK, IdleProgram
<1>2. Steps["web_packet"] # <<"package">>
  BY DEF Steps
<1>3. p # "web_packet" => ("web_packet" \in Programs => program'["web_packet"] = program["web_packet"])
  BY DEF BeginProgram, DInv, DiscTypeOK
<1> QED BY <1>1, <1>2, <1>3, WebKept DEF BeginProgram, outputs

LEMMA WebProves ==
  ASSUME DInv, WebInv, ProveWeb
  PROVE  WebInv'
<1> DEFINE j == program["web_packet"]
<1>1. ProgramAt("web_packet", "prove") /\ StepDone("web_packet", j)
      /\ UNCHANGED <<webKey, webPackage, page>>
  BY DEF ProveWeb, outputs
<1>2. /\ "web_packet" \in Programs /\ j.todo # <<>> /\ j \in ProgramStates
      /\ Tail(j.todo) = <<"key", "package">>
  BY <1>1, AtStep, WebSteps
<1>3. program'["web_packet"].todo = <<"key", "package">>
  <2>1. program'["web_packet"] = [j EXCEPT !.todo = Tail(j.todo)]
    BY <1>1, <1>2, ProgramDone DEF DInv
  <2> QED BY <1>2, <2>1 DEF ProgramStates
<1>4. <<"key", "package">> # <<"package">>
  OBVIOUS
<1> QED BY <1>1, <1>3, <1>4, WebKept

LEMMA WebTakesKey ==
  ASSUME DInv, WebInv, LoadOrCreateAuditorKey
  PROVE  WebInv'
<1> DEFINE j == [program["web_packet"] EXCEPT !.key = webKey']
<1>1. /\ ProgramAt("web_packet", "key") /\ StepDone("web_packet", j)
      /\ UNCHANGED <<webPackage, page>>
      /\ webKey # NoFile => webKey' = webKey
  BY DEF LoadOrCreateAuditorKey
<1>2. webKey' \in Nat /\ webKey' # NoFile
  BY LoadOrCreateAuditorKeyInv, DisclosureAssumption
<1>3. /\ "web_packet" \in Programs /\ j.todo # <<>> /\ j \in ProgramStates
      /\ j.todo = program["web_packet"].todo /\ j.key = webKey'
  BY <1>1, <1>2, AtStep DEF ProgramStates
<1> HIDE DEF j
<1>4. program'["web_packet"].key = webKey'
  <2>1. program'["web_packet"] = [j EXCEPT !.todo = Tail(j.todo)]
    BY <1>1, <1>3, ProgramDone DEF DInv
  <2> QED BY <1>3, <2>1 DEF ProgramStates
<1>5. CASE webKey # NoFile
  BY <1>1, <1>2, <1>4, <1>5 DEF WebInv
<1>6. CASE webKey = NoFile
  BY <1>1, <1>2, <1>4, <1>6 DEF WebInv
<1> QED BY <1>5, <1>6

LEMMA WebWrites ==
  ASSUME DInv, WebInv, WriteWebPackage
  PROVE  WebInv'
<1> DEFINE j == program["web_packet"]
<1>1. /\ ProgramAt("web_packet", "package") /\ StepDone("web_packet", j)
      /\ webPackage' = PackageOf(j) /\ UNCHANGED <<webKey, page>>
  BY DEF WriteWebPackage
<1>2. /\ "web_packet" \in Programs /\ j.todo = <<"package">> /\ j \in ProgramStates
      /\ Tail(j.todo) = <<>> /\ j.todo # <<>>
  BY <1>1, AtStep, WebSteps
<1>3. program'["web_packet"].todo = <<>> /\ <<>> # <<"package">>
  <2>1. program'["web_packet"] = [j EXCEPT !.todo = Tail(j.todo)]
    BY <1>1, <1>2, ProgramDone DEF DInv
  <2> QED BY <1>2, <2>1 DEF ProgramStates
<1>4. webKey # NoFile /\ Opens(webPackage', webKey)
  BY <1>1, <1>2, PackageType DEF WebInv, Opens
<1> QED BY <1>1, <1>3, <1>4 DEF WebInv

LEMMA WebInit == DisclosureInit => WebInv
<1> SUFFICES ASSUME DisclosureInit PROVE WebInv
  OBVIOUS
<1>1. "web_packet" \in Programs => program["web_packet"].todo = <<>>
  BY DEF DisclosureInit, IdleProgram
<1>2. <<>> # <<"package">>
  OBVIOUS
<1> QED BY <1>1, <1>2 DEF DisclosureInit, WebInv

LEMMA WebStepInv == DInv /\ WebInv /\ [DisclosureNext]_discVars => WebInv'
<1> SUFFICES ASSUME DInv, WebInv, [DisclosureNext]_discVars PROVE WebInv'
  OBVIOUS
<1>1. CASE \E p \in Programs : BeginProgram(p) \/ StopProgram(p)
  <2>1. ASSUME NEW p \in Programs, StopProgram(p) PROVE WebInv'
    BY <2>1, WebStops DEF StopProgram, outputs
  <2> QED BY <1>1, <2>1, WebBegins
<1>2. CASE WriteViewKey \/ WritePackage \/ WriteSummary
  BY <1>2, OtherSteps DEF WriteViewKey, WritePackage, WriteSummary
<1>3. CASE ProvePacket
  <2>1. "disclosure" \in Programs
    BY <1>3 DEF ProvePacket, ProgramAt
  <2> QED BY <1>3, <2>1, OtherSteps, WebStops DEF ProvePacket, outputs
<1>4. CASE ReadSummary \/ ReadPackage \/ ReadDeployments \/ BuildVault
  <2>1. "vault" \in Programs
    BY <1>4 DEF ReadSummary, ReadPackage, ReadDeployments, BuildVault, ProgramAt
  <2> QED BY <1>4, <2>1, OtherSteps, WebStops
          DEF ReadSummary, ReadPackage, ReadDeployments, BuildVault, outputs
<1>5. CASE ProveWeb \/ LoadOrCreateAuditorKey \/ WriteWebPackage
  BY <1>5, WebProves, WebTakesKey, WebWrites
<1>6. CASE FetchKey \/ FetchPackage \/ Reload
  BY <1>6 DEF FetchKey, FetchPackage, Reload, outputs, WebInv
<1>7. CASE NewPublic \/ Deploy \/ \E i \in InputFiles : NewInput(i)
  BY <1>7 DEF NewPublic, Deploy, NewInput, outputs, WebInv
<1>8. CASE UNCHANGED discVars
  BY <1>8 DEF discVars, outputs, WebInv
<1> QED BY <1>1, <1>2, <1>3, <1>4, <1>5, <1>6, <1>7, <1>8 DEF DisclosureNext

(* Whenever the page has a key and a package, the key opens the package:   *)
(* in either order of the two fetches, and however often the packet is     *)
(* built anew or its program stops in between.                             *)
THEOREM PageAlwaysOpens == DisclosureSpec => []PageOpens
<1>1. WebInv => PageOpens
  BY DEF WebInv, PageOpens
<1> QED BY <1>1, DInit, DStep, WebInit, WebStepInv, PTL DEF DisclosureSpec

=============================================================================
