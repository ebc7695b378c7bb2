-------------------------- MODULE RootPublishProofs --------------------------
(***************************************************************************)
(* With one executor, a report tells the truth: proved for any inputs, any *)
(* number of checkers and rotations, and any failures.  What is reported   *)
(* decides who can prove, and what a preflight lets pass was in force.     *)
(***************************************************************************)
EXTENDS Preflight, TLAPS

(* How far an executor has come decides which roots in force are those it  *)
(* sends, and which of them it has compared with those it expects.         *)
Sent1 == {"set_sanctions_root", "set_revocation_root", "load", "write", "reported"} \cup Reading
Sent2 == Sent1 \ {"set_sanctions_root"}
Sent3 == Sent2 \ {"set_revocation_root"}
Read1 == {"sanctions_root", "revocation_root", "write", "reported"}
Read2 == Read1 \ {"sanctions_root"}
Read3 == Read2 \ {"revocation_root"}

Progress(p) ==
  /\ pc[p] \in Sent1 => root[IssuerId] = CredentialRootOf(commands[p])
  /\ pc[p] \in Sent2 => sanctionsRoot = SanctionsRootOf(commands[p])
  /\ pc[p] \in Sent3 => revocationRoot[IssuerId] = RevocationRootOf(commands[p])
  /\ pc[p] \in Read1 => root[IssuerId] = CredentialRootOf(expected[p])
  /\ pc[p] \in Read2 => sanctionsRoot = SanctionsRootOf(expected[p])
  /\ pc[p] \in Read3 => revocationRoot[IssuerId] = RevocationRootOf(expected[p])

PublishIInv ==
  /\ PublishTypeOK
  /\ \A p \in Checkers : pc[p] \notin Sending
  /\ \A p \in Executors : Progress(p)

LEMMA PublishInitInv == PublishInit => PublishIInv
<1> SUFFICES ASSUME PublishInit PROVE PublishIInv
  OBVIOUS
<1>1. OwnershipTypeOK /\ IssuerTypeOK
  BY OwnershipAssumption DEF PublishInit, OwnershipInit, IssuerInit, OwnershipTypeOK, IssuerTypeOK
<1>2. PublishTypeOK
  BY <1>1 DEF PublishInit, PublishTypeOK, Active, Sending, Reading
<1>3. \A p \in Publishers : pc[p] = "idle"
  BY DEF PublishInit
<1> QED
  BY <1>2, <1>3 DEF PublishIInv, Progress, Publishers, Sending, Reading, Sent1, Sent2, Sent3,
     Read1, Read2, Read3

\* What a publisher keeps when it is not the one that moves and no root changes.
LEMMA OthersKeep ==
  ASSUME NEW p \in Publishers, Progress(p), UNCHANGED issuerVars,
         pc'[p] = pc[p], commands'[p] = commands[p], expected'[p] = expected[p]
  PROVE  Progress(p)'
BY DEF Progress, issuerVars

LEMMA RotateInv ==
  ASSUME PublishIInv, NEW i \in Inputs, Rotate(i)
  PROVE  PublishIInv'
<1>1. PublishTypeOK'
  BY PublishAssumption DEF PublishIInv, PublishTypeOK, Rotate, OwnershipTypeOK, IssuerTypeOK,
     ownershipVars, issuerVars
<1> QED
  BY <1>1, OthersKeep DEF PublishIInv, Rotate, Publishers

\* A step of one publisher that leaves the registry alone.
LEMMA LocalStepInv ==
  ASSUME PublishIInv, NEW p \in Publishers,
         UNCHANGED <<ownershipVars, issuerVars, file>>,
         NEW step \in Active \cup {"threw", "reported"}, Goto(p, step),
         commands' = [commands EXCEPT ![p] = commands'[p]],
         expected' = [expected EXCEPT ![p] = expected'[p]],
         commands'[p] \in Inputs \cup {NoFile}, expected'[p] \in Inputs \cup {NoFile},
         step \in Active => file # NoFile /\ commands'[p] # NoFile,
         step \in Reading \cup {"write", "reported"} => expected'[p] # NoFile,
         p \in Checkers => step \notin Sending,
         p \in Executors => Progress(p)'
  PROVE  PublishIInv'
<1>1. /\ pc \in [Publishers -> Active \cup {"idle", "threw", "reported"}]
      /\ commands \in [Publishers -> Inputs \cup {NoFile}]
      /\ expected \in [Publishers -> Inputs \cup {NoFile}]
  BY DEF PublishIInv, PublishTypeOK
<1>2. pc'[p] = step /\ \A q \in Publishers \ {p} :
        pc'[q] = pc[q] /\ commands'[q] = commands[q] /\ expected'[q] = expected[q]
  BY <1>1 DEF Goto
<1>3. PublishTypeOK'
  <2>1. OwnershipTypeOK' /\ IssuerTypeOK' /\ (file \in Inputs \cup {NoFile})'
    BY DEF PublishIInv, PublishTypeOK, OwnershipTypeOK, IssuerTypeOK, ownershipVars, issuerVars
  <2>2. /\ pc' \in [Publishers -> Active \cup {"idle", "threw", "reported"}]
        /\ commands' \in [Publishers -> Inputs \cup {NoFile}]
        /\ expected' \in [Publishers -> Inputs \cup {NoFile}]
    BY <1>1 DEF Goto
  <2>3. \A q \in Publishers :
          /\ pc'[q] \in Active => file' # NoFile /\ commands'[q] # NoFile
          /\ pc'[q] \in Reading \cup {"write", "reported"} => expected'[q] # NoFile
    BY <1>2 DEF PublishIInv, PublishTypeOK
  <2> QED BY <2>1, <2>2, <2>3 DEF PublishTypeOK
<1>4. \A q \in Checkers : pc'[q] \notin Sending
  BY <1>2 DEF PublishIInv, Publishers
<1>5. \A q \in Executors : Progress(q)'
  <2> SUFFICES ASSUME NEW q \in Executors, q # p PROVE Progress(q)'
    OBVIOUS
  <2> QED BY <1>2, OthersKeep DEF PublishIInv, Publishers
<1> QED BY <1>3, <1>4, <1>5 DEF PublishIInv

LEMMA BeginInv ==
  ASSUME PublishIInv, NEW p \in Publishers, Begin(p)
  PROVE  PublishIInv'
<1> DEFINE step == IF p \in Executors THEN "set_root" ELSE "load"
<1>1. step \in Active \cup {"threw", "reported"} /\ Goto(p, step)
  BY DEF Begin, Active, Sending
<1>2. commands \in [Publishers -> Inputs \cup {NoFile}] /\ expected \in [Publishers -> Inputs \cup {NoFile}]
      /\ file \in Inputs \cup {NoFile}
      /\ pc \in [Publishers -> Active \cup {"idle", "threw", "reported"}]
  BY DEF PublishIInv, PublishTypeOK
<1>3. commands'[p] = file /\ commands' = [commands EXCEPT ![p] = commands'[p]]
  BY <1>2 DEF Begin
<1>4. expected' = [expected EXCEPT ![p] = expected'[p]] /\ expected'[p] \in Inputs \cup {NoFile}
  BY <1>2 DEF Begin
<1>5. step \notin Reading \cup {"write", "reported"} /\ (p \in Checkers => step \notin Sending)
  BY PublishAssumption DEF Reading, Sending
<1>6. p \in Executors => Progress(p)'
  <2> SUFFICES ASSUME p \in Executors PROVE Progress(p)'
    OBVIOUS
  <2>1. pc'[p] = "set_root"
    BY <1>2 DEF Begin, Goto
  <2> QED BY <2>1 DEF Progress, Sent1, Sent2, Sent3, Read1, Read2, Read3, Reading
<1>7. UNCHANGED <<ownershipVars, issuerVars, file>> /\ file # NoFile
  BY DEF Begin
<1> HIDE DEF step
<1> QED BY <1>1, <1>2, <1>3, <1>4, <1>5, <1>6, <1>7, LocalStepInv

LEMMA ThrowInv ==
  ASSUME PublishIInv, NEW p \in Publishers, Throw(p)
  PROVE  PublishIInv'
<1>1. commands \in [Publishers -> Inputs \cup {NoFile}] /\ expected \in [Publishers -> Inputs \cup {NoFile}]
      /\ pc \in [Publishers -> Active \cup {"idle", "threw", "reported"}]
  BY DEF PublishIInv, PublishTypeOK
<1>2. /\ commands' = [commands EXCEPT ![p] = commands'[p]] /\ commands'[p] \in Inputs \cup {NoFile}
      /\ expected' = [expected EXCEPT ![p] = expected'[p]] /\ expected'[p] \in Inputs \cup {NoFile}
  BY <1>1 DEF Throw
<1>3. "threw" \notin Active /\ "threw" \notin Reading \cup {"write", "reported"}
  BY DEF Active, Reading, Sending
<1>4. Progress(p)'
  <2>1. pc'[p] = "threw"
    BY <1>1 DEF Throw, Goto
  <2> QED BY <2>1 DEF Progress, Sent1, Sent2, Sent3, Read1, Read2, Read3, Reading
<1>5. Goto(p, "threw") /\ UNCHANGED <<ownershipVars, issuerVars, file>>
  BY DEF Throw
<1>6. "threw" \notin Sending
  BY DEF Sending
<1> QED BY <1>2, <1>3, <1>4, <1>5, <1>6, LocalStepInv

LEMMA LoadExpectedInv ==
  ASSUME PublishIInv, NEW p \in Publishers, LoadExpected(p)
  PROVE  PublishIInv'
<1>1. commands \in [Publishers -> Inputs \cup {NoFile}] /\ expected \in [Publishers -> Inputs \cup {NoFile}]
      /\ pc \in [Publishers -> Active \cup {"idle", "threw", "reported"}]
      /\ file \in Inputs \cup {NoFile}
  BY DEF PublishIInv, PublishTypeOK
<1>2. file # NoFile /\ commands[p] # NoFile
  BY DEF PublishIInv, PublishTypeOK, LoadExpected, Active
<1>3. /\ commands' = [commands EXCEPT ![p] = commands'[p]] /\ commands'[p] = commands[p]
      /\ expected' = [expected EXCEPT ![p] = expected'[p]] /\ expected'[p] = file
  BY <1>1 DEF LoadExpected
<1>4. "root" \in Active /\ "root" \notin Sending
  BY DEF Active, Reading, Sending
<1>5. p \in Executors => Progress(p)'
  <2> SUFFICES ASSUME p \in Executors PROVE Progress(p)'
    OBVIOUS
  <2>1. pc'[p] = "root" /\ pc[p] = "load" /\ Progress(p)
    BY <1>1 DEF LoadExpected, Goto, PublishIInv
  <2> QED BY <1>3, <2>1 DEF Progress, Sent1, Sent2, Sent3, Read1, Read2, Read3, Reading,
          LoadExpected, issuerVars
<1>6. Goto(p, "root") /\ UNCHANGED <<ownershipVars, issuerVars, file>>
  BY DEF LoadExpected
<1> QED BY <1>1, <1>2, <1>3, <1>4, <1>5, <1>6, LocalStepInv

LEMMA ReadRootInv ==
  ASSUME PublishIInv, NEW p \in Publishers, ReadRoot(p)
  PROVE  PublishIInv'
<1> DEFINE step == IF Matches(pc[p], expected[p]) THEN AfterReading[pc[p]] ELSE "threw"
<1>1. commands \in [Publishers -> Inputs \cup {NoFile}] /\ expected \in [Publishers -> Inputs \cup {NoFile}]
      /\ pc \in [Publishers -> Active \cup {"idle", "threw", "reported"}]
  BY DEF PublishIInv, PublishTypeOK
<1>2. file # NoFile /\ commands[p] # NoFile /\ expected[p] # NoFile
  BY DEF PublishIInv, PublishTypeOK, ReadRoot, Active
<1>3. /\ commands' = [commands EXCEPT ![p] = commands'[p]] /\ commands'[p] = commands[p]
      /\ expected' = [expected EXCEPT ![p] = expected'[p]] /\ expected'[p] = expected[p]
  BY <1>1 DEF ReadRoot
<1>4. /\ pc[p] = "root" => AfterReading[pc[p]] = "sanctions_root"
      /\ pc[p] = "sanctions_root" => AfterReading[pc[p]] = "revocation_root"
      /\ pc[p] = "revocation_root" => AfterReading[pc[p]] = "write"
  BY DEF AfterReading
<1>5. pc[p] \in {"root", "sanctions_root", "revocation_root"}
  BY DEF ReadRoot, Reading
<1>6. step \in Active \cup {"threw"} /\ step \notin Sending
  BY <1>4, <1>5 DEF Active, Reading, Sending
<1>7. p \in Executors => Progress(p)'
  <2> SUFFICES ASSUME p \in Executors PROVE Progress(p)'
    OBVIOUS
  <2>1. pc'[p] = step /\ Progress(p) /\ UNCHANGED issuerVars
    BY <1>1 DEF ReadRoot, Goto, PublishIInv
  <2>2. CASE ~Matches(pc[p], expected[p])
    BY <2>1, <2>2 DEF Progress, Sent1, Sent2, Sent3, Read1, Read2, Read3, Reading
  <2>3. CASE Matches(pc[p], expected[p])
    BY <1>3, <1>4, <1>5, <2>1, <2>3 DEF Progress, Sent1, Sent2, Sent3, Read1, Read2, Read3,
       Reading, Matches, issuerVars
  <2> QED BY <2>2, <2>3
<1>8. Goto(p, step) /\ UNCHANGED <<ownershipVars, issuerVars, file>>
  BY DEF ReadRoot
<1> HIDE DEF step
<1> QED BY <1>1, <1>2, <1>3, <1>6, <1>7, <1>8, LocalStepInv

LEMMA WriteReportInv ==
  ASSUME PublishIInv, NEW p \in Publishers, WriteReport(p)
  PROVE  PublishIInv'
<1>1. commands \in [Publishers -> Inputs \cup {NoFile}] /\ expected \in [Publishers -> Inputs \cup {NoFile}]
      /\ pc \in [Publishers -> Active \cup {"idle", "threw", "reported"}]
  BY DEF PublishIInv, PublishTypeOK
<1>2. expected[p] # NoFile
  BY DEF PublishIInv, PublishTypeOK, WriteReport
<1>3. /\ commands' = [commands EXCEPT ![p] = commands'[p]] /\ commands'[p] = commands[p]
      /\ expected' = [expected EXCEPT ![p] = expected'[p]] /\ expected'[p] = expected[p]
  BY <1>1 DEF WriteReport
<1>4. "reported" \notin Active /\ "reported" \notin Sending
  BY DEF Active, Reading, Sending
<1>5. p \in Executors => Progress(p)'
  <2> SUFFICES ASSUME p \in Executors PROVE Progress(p)'
    OBVIOUS
  <2>1. pc'[p] = "reported" /\ pc[p] = "write" /\ Progress(p)
    BY <1>1 DEF WriteReport, Goto, PublishIInv
  <2> QED BY <1>3, <2>1 DEF Progress, Sent1, Sent2, Sent3, Read1, Read2, Read3, Reading,
          WriteReport, issuerVars
<1>6. Goto(p, "reported") /\ UNCHANGED <<ownershipVars, issuerVars, file>>
  BY DEF WriteReport
<1> QED BY <1>1, <1>2, <1>3, <1>4, <1>5, <1>6, LocalStepInv

-----------------------------------------------------------------------------
(* The executor is the only one that sends, so a transaction disturbs      *)
(* nobody else's progress.                                                 *)
LEMMA TransactionType ==
  ASSUME PublishTypeOK, NEW step \in Sending, NEW i \in Inputs, RootTransaction(step, i)
  PROVE  IssuerTypeOK'
<1>1. /\ CredentialRootOf(i) \in CredentialSets
      /\ SanctionsRootOf(i) \in DenySets
      /\ RevocationRootOf(i) \in RevokedSets
  BY PublishAssumption
<1> QED
  BY <1>1 DEF PublishTypeOK, IssuerTypeOK, RootTransaction, SetRoot, SetSanctionsRoot,
     SetRevocationRoot

LEMMA SendingInv ==
  ASSUME NEW x, Executors = {x}, PublishIInv, NEW p \in Publishers, pc[p] \in Sending,
         RootTransaction(pc[p], commands[p]),
         NEW step \in {"threw", AfterSending[pc[p]]}, Goto(p, step),
         UNCHANGED <<ownershipVars, file, commands, expected>>
  PROVE  PublishIInv'
<1>1. /\ pc \in [Publishers -> Active \cup {"idle", "threw", "reported"}]
      /\ commands \in [Publishers -> Inputs \cup {NoFile}]
      /\ expected \in [Publishers -> Inputs \cup {NoFile}]
      /\ PublishTypeOK
  BY DEF PublishIInv, PublishTypeOK
<1>2. p = x /\ p \in Executors /\ p \notin Checkers
  BY PublishAssumption DEF PublishIInv, Publishers
<1>3. file # NoFile /\ commands[p] # NoFile /\ commands[p] \in Inputs
  BY <1>1 DEF PublishTypeOK, Active
<1>4. IssuerTypeOK'
  BY <1>1, <1>3, TransactionType
<1>5. /\ pc[p] = "set_root" => AfterSending[pc[p]] = "set_sanctions_root"
      /\ pc[p] = "set_sanctions_root" => AfterSending[pc[p]] = "set_revocation_root"
      /\ pc[p] = "set_revocation_root" => AfterSending[pc[p]] = "load"
      /\ pc[p] \in {"set_root", "set_sanctions_root", "set_revocation_root"}
  BY DEF AfterSending, Sending
<1>6. step \in Active \cup {"threw"} /\ step \notin Reading \cup {"write", "reported"}
  BY <1>5 DEF Active, Reading, Sending
<1>7. pc'[p] = step /\ \A q \in Publishers \ {p} : pc'[q] = pc[q]
  BY <1>1 DEF Goto
<1>8. PublishTypeOK'
  <2>1. OwnershipTypeOK' /\ (file \in Inputs \cup {NoFile})'
    BY <1>1 DEF PublishTypeOK, OwnershipTypeOK, ownershipVars
  <2>2. pc' \in [Publishers -> Active \cup {"idle", "threw", "reported"}]
    BY <1>1, <1>6 DEF Goto
  <2>3. \A q \in Publishers :
          /\ pc'[q] \in Active => file' # NoFile /\ commands'[q] # NoFile
          /\ pc'[q] \in Reading \cup {"write", "reported"} => expected'[q] # NoFile
    BY <1>1, <1>3, <1>6, <1>7 DEF PublishTypeOK
  <2> QED BY <1>1, <1>4, <2>1, <2>2, <2>3 DEF PublishTypeOK
<1>9. \A q \in Checkers : pc'[q] \notin Sending
  BY <1>2, <1>7 DEF PublishIInv, Publishers
<1>10. Progress(p)'
  <2>1. CASE step = "threw"
    BY <1>7, <2>1 DEF Progress, Sent1, Sent2, Sent3, Read1, Read2, Read3, Reading
  <2>2. CASE step = AfterSending[pc[p]]
    <3>1. Progress(p)
      BY <1>2 DEF PublishIInv
    <3>2. CASE pc[p] = "set_root"
      <4>1. root'[IssuerId] = CredentialRootOf(commands[p])
        BY <1>1, <3>2, PublishAssumption DEF RootTransaction, SetRoot, PublishTypeOK, IssuerTypeOK
      <4> QED BY <1>5, <1>7, <2>2, <3>2, <4>1 DEF Progress, Sent1, Sent2, Sent3, Read1, Read2,
              Read3, Reading
    <3>3. CASE pc[p] = "set_sanctions_root"
      <4>1. sanctionsRoot' = SanctionsRootOf(commands[p]) /\ root' = root
        BY <3>3 DEF RootTransaction, SetSanctionsRoot
      <4> QED BY <1>5, <1>7, <2>2, <3>1, <3>3, <4>1 DEF Progress, Sent1, Sent2, Sent3, Read1,
              Read2, Read3, Reading
    <3>4. CASE pc[p] = "set_revocation_root"
      <4>1. /\ revocationRoot'[IssuerId] = RevocationRootOf(commands[p])
            /\ root' = root /\ sanctionsRoot' = sanctionsRoot
        BY <1>1, <3>4, PublishAssumption DEF RootTransaction, SetRevocationRoot, PublishTypeOK,
           IssuerTypeOK
      <4> QED BY <1>5, <1>7, <2>2, <3>1, <3>4, <4>1 DEF Progress, Sent1, Sent2, Sent3, Read1,
              Read2, Read3, Reading
    <3> QED BY <1>5, <3>2, <3>3, <3>4
  <2> QED BY <2>1, <2>2
<1> QED BY <1>2, <1>8, <1>9, <1>10 DEF PublishIInv

LEMMA PublishStepInv ==
  ASSUME NEW x, Executors = {x}
  PROVE  PublishIInv /\ [PublishNext]_allVars => PublishIInv'
<1> SUFFICES ASSUME PublishIInv, [PublishNext]_allVars PROVE PublishIInv'
  OBVIOUS
<1>1. ASSUME NEW i \in Inputs, Rotate(i) PROVE PublishIInv'
  BY <1>1, RotateInv
<1>2. ASSUME NEW p \in Publishers, Begin(p) PROVE PublishIInv'
  BY <1>2, BeginInv
<1>3. ASSUME NEW p \in Publishers, Send(p) PROVE PublishIInv'
  BY <1>3, SendingInv DEF Send
<1>4. ASSUME NEW p \in Publishers, SendUnseen(p) PROVE PublishIInv'
  BY <1>4, SendingInv DEF SendUnseen
<1>5. ASSUME NEW p \in Publishers, Throw(p) PROVE PublishIInv'
  BY <1>5, ThrowInv
<1>6. ASSUME NEW p \in Publishers, LoadExpected(p) PROVE PublishIInv'
  BY <1>6, LoadExpectedInv
<1>7. ASSUME NEW p \in Publishers, ReadRoot(p) PROVE PublishIInv'
  BY <1>7, ReadRootInv
<1>8. ASSUME NEW p \in Publishers, WriteReport(p) PROVE PublishIInv'
  BY <1>8, WriteReportInv
<1>9. CASE UNCHANGED allVars
  <2>1. PublishTypeOK'
    BY <1>9 DEF PublishIInv, PublishTypeOK, OwnershipTypeOK, IssuerTypeOK, allVars, ownershipVars,
       issuerVars, publishVars
  <2> QED BY <1>9, <2>1 DEF PublishIInv, Progress, allVars, issuerVars, publishVars
<1> QED
  BY <1>1, <1>2, <1>3, <1>4, <1>5, <1>6, <1>7, <1>8, <1>9 DEF PublishNext

(* A report of the only executor is about roots that are in force          *)
(* together, whatever else reads them and however often the file changes.  *)
THEOREM ReportsAreTrue ==
  ASSUME NEW x, Executors = {x}
  PROVE  PublishSpec => [](PublishTypeOK /\ ExecutedReportIsInForce)
<1>1. PublishIInv => PublishTypeOK /\ ExecutedReportIsInForce
  BY DEF PublishIInv, Progress, ExecutedReportIsInForce, InForce, Sent1, Sent2, Sent3, Read1,
     Read2, Read3
<1> QED BY <1>1, PublishInitInv, PublishStepInv, PTL DEF PublishSpec

-----------------------------------------------------------------------------
(* Who can prove.                                                          *)

LEMMA InForceDecides ==
  ASSUME CredentialsCount, NEW i \in Inputs, InForce(i)
  PROVE  CanProve = Clean(i)
<1> DEFINE Submitted == {t \in Statements : /\ t.credentialRoot = CredentialRootOf(i)
                                            /\ t.sanctionsRoot = SanctionsRootOf(i)
                                            /\ t.revocationRoot = RevocationRootOf(i)
                                            /\ Provable(t)}
<1>1. /\ CredentialRootOf(i) \in CredentialSets /\ SanctionsRootOf(i) \in DenySets
      /\ RevocationRootOf(i) \in RevokedSets /\ i \in Input
  BY PublishAssumption
<1>2. CanProve = {s.person : s \in Submitted}
  BY <1>1, NoneAssumption DEF CanProve, InForce
<1>3. ASSUME NEW s \in Submitted PROVE s.person \in Clean(i)
  <2>1. PICK c \in i.users : /\ Entitles(c, s)
                             /\ <<s.person, s.issuer>> \notin SanctionsRootOf(i)
                             /\ c \notin RevocationRootOf(i)
    BY DEF Provable, CredentialRootOf
  <2>2. c.person = s.person /\ c.issuer = s.issuer
    BY <2>1 DEF Entitles
  <2>3. c.person \notin i.matched
    BY <2>1, <2>2 DEF SanctionsRootOf
  <2>4. c.person \notin i.revoked
    BY <2>1 DEF RevocationRootOf
  <2> QED BY <2>2, <2>3, <2>4 DEF Clean
<1>4. ASSUME NEW x \in Clean(i) PROVE \E s \in Submitted : s.person = x
  <2>1. PICK c \in i.users : c.person = x
    BY DEF Clean
  <2>2. c \in Credentials
    BY <1>1 DEF Input
  <2>3. PICK s \in Statements : /\ Entitles(c, s)
                                /\ s.credentialRoot = CredentialRootOf(i)
                                /\ s.sanctionsRoot = SanctionsRootOf(i)
                                /\ s.revocationRoot = RevocationRootOf(i)
    BY <1>1, <2>2 DEF CredentialsCount
  <2>4. s.person = x
    BY <2>1, <2>3 DEF Entitles
  <2>5. <<s.person, s.issuer>> \notin SanctionsRootOf(i)
    BY <2>4 DEF SanctionsRootOf, Clean
  <2>6. c \in CredentialRootOf(i) /\ c \notin RevocationRootOf(i)
    BY <2>1 DEF CredentialRootOf, RevocationRootOf, Clean
  <2>7. Provable(s)
    BY <2>3, <2>5, <2>6 DEF Provable
  <2> QED BY <2>3, <2>4, <2>7
<1> HIDE DEF Submitted
<1> QED BY <1>2, <1>3, <1>4

(* Once the only executor reports, the published roster decides who can    *)
(* prove: no blocked person, and every clean one.                          *)
THEOREM RosterDecides ==
  ASSUME NEW x, Executors = {x}, CredentialsCount
  PROVE  PublishSpec => []ReportedRosterDecides
<1>1. PublishTypeOK /\ ExecutedReportIsInForce => ReportedRosterDecides
  <2> SUFFICES ASSUME PublishTypeOK, ExecutedReportIsInForce,
                      NEW p \in Executors, pc[p] = "reported"
               PROVE  CanProve = Clean(expected[p])
    BY DEF ReportedRosterDecides
  <2>1. expected[p] \in Inputs
    BY DEF PublishTypeOK, Publishers
  <2>2. InForce(expected[p])
    BY DEF ExecutedReportIsInForce
  <2> QED BY <2>1, <2>2, InForceDecides
<1> QED BY <1>1, ReportsAreTrue, PTL

-----------------------------------------------------------------------------
(* The preflights.                                                         *)

PreflightRun == [kind : Kinds, state : {"idle", "issuance", "go"},
                 blocked : BOOLEAN, issuance : Inputs \cup {NoFile}]

(* What the report names was in force, whichever issuance with the same    *)
(* roots a preflight has read, and so was what it let pass.                *)
PreflightIInv ==
  /\ PublishIInv
  /\ preflight \in PreflightRun
  /\ \A i \in Inputs : SameRoots(report, i) => i \in everInForce
  /\ GoWasInForce

LEMMA PreflightIsPublication ==
  ASSUME [PreflightNext]_everyVar
  PROVE  [PublishNext]_allVars
BY DEF PreflightNext, Publish, Reports, ReadIssuance, ReadReport, Collect, PublishNext,
       everyVar, preflightVars

LEMMA ReadIssuanceInv ==
  ASSUME PreflightIInv, PublishIInv', NEW kind \in Kinds, ReadIssuance(kind)
  PROVE  PreflightIInv'
<1>1. file \in Inputs \cup {NoFile}
  BY DEF PreflightIInv, PublishIInv, PublishTypeOK
<1>2. preflight' \in PreflightRun /\ preflight'.state # "go"
  BY <1>1 DEF ReadIssuance, PreflightRun, Blocked
<1> QED BY <1>2 DEF PreflightIInv, GoWasInForce, ReadIssuance, SameRoots

LEMMA ReadReportInv ==
  ASSUME PreflightIInv, PublishIInv', ReadReport
  PROVE  PreflightIInv'
<1>1. NoRun \in PreflightRun /\ NoRun.state # "go"
  BY DEF NoRun, PreflightRun, Kinds
<1>2. report' = report /\ everInForce' = everInForce
  BY DEF ReadReport
<1>3. CASE ~ (~preflight.blocked /\ SameRoots(report, preflight.issuance))
  BY <1>1, <1>2, <1>3 DEF ReadReport, PreflightIInv, GoWasInForce, SameRoots
<1>4. CASE ~preflight.blocked /\ SameRoots(report, preflight.issuance)
  <2>1. preflight' = [preflight EXCEPT !.state = "go"]
    BY <1>4 DEF ReadReport
  <2>2. preflight' \in PreflightRun /\ preflight'.issuance = preflight.issuance
    BY <2>1 DEF PreflightIInv, PreflightRun
  <2>3. preflight.issuance \in Inputs
    BY <1>4 DEF PreflightIInv, PreflightRun, SameRoots
  <2>4. preflight.issuance \in everInForce
    BY <1>4, <2>3 DEF PreflightIInv
  <2> QED BY <1>2, <2>2, <2>4 DEF PreflightIInv, GoWasInForce, SameRoots
<1> QED BY <1>3, <1>4

LEMMA PublishingInv ==
  ASSUME Checkers = {}, PreflightIInv, PublishIInv', NEW p \in Publishers, Publish(p)
  PROVE  PreflightIInv'
<1>1. everInForce \subseteq everInForce' /\ preflight' = preflight
  BY DEF Publish, Remember
<1>2. ASSUME NEW i \in Inputs, SameRoots(report', i) PROVE i \in everInForce'
  <2>1. CASE Reports(p)
    <3>1. report' = expected[p] /\ pc[p] = "write" /\ p \in Executors /\ UNCHANGED issuerVars
      BY <2>1 DEF Reports, WriteReport, Publishers
    <3>2. InForce(expected[p])
      BY <3>1 DEF PreflightIInv, PublishIInv, Progress, InForce, Read1, Read2, Read3
    <3>3. InForce(i)'
      BY <1>2, <3>1, <3>2 DEF InForce, SameRoots, issuerVars
    <3> QED BY <3>3 DEF Publish, Remember
  <2>2. CASE report' = report
    BY <1>1, <1>2, <2>2 DEF PreflightIInv, SameRoots
  <2> QED BY <2>1, <2>2 DEF Publish
<1> QED BY <1>1, <1>2 DEF PreflightIInv, GoWasInForce, SameRoots

LEMMA PreflightStepInv ==
  ASSUME NEW x, Executors = {x}, Checkers = {}
  PROVE  PreflightIInv /\ [PreflightNext]_everyVar => PreflightIInv'
<1> SUFFICES ASSUME PreflightIInv, [PreflightNext]_everyVar PROVE PreflightIInv'
  OBVIOUS
<1>1. PublishIInv'
  BY PreflightIsPublication, PublishStepInv DEF PreflightIInv
<1>2. CASE UNCHANGED preflightVars
  BY <1>1, <1>2 DEF PreflightIInv, GoWasInForce, SameRoots, preflightVars
<1>3. ASSUME NEW bundle \in Bundles, Collect(bundle) PROVE PreflightIInv'
  BY <1>1, <1>3 DEF PreflightIInv, GoWasInForce, SameRoots, Collect
<1> QED BY <1>1, <1>2, <1>3, ReadIssuanceInv, ReadReportInv, PublishingInv
        DEF PreflightNext, everyVar

(* What a preflight lets pass was in force, all three roots at one time,   *)
(* whatever is rotated and published between its reads.  A publisher that  *)
(* only verifies would compare three roots at three moments and report     *)
(* what may never have been in force together.                             *)
THEOREM GoesWereInForce ==
  ASSUME NEW x, Executors = {x}, Checkers = {}
  PROVE  PreflightSpec => []GoWasInForce
<1>1. PreflightInit => PreflightIInv
  <2> SUFFICES ASSUME PreflightInit PROVE PreflightIInv
    OBVIOUS
  <2>1. PublishIInv
    BY PublishInitInv DEF PreflightInit
  <2>2. preflight \in PreflightRun /\ preflight.state = "idle"
    BY DEF PreflightInit, NoRun, PreflightRun, Kinds
  <2> QED BY <2>1, <2>2 DEF PreflightInit, PreflightIInv, SameRoots, GoWasInForce
<1>2. PreflightIInv => GoWasInForce
  BY DEF PreflightIInv
<1> QED BY <1>1, <1>2, PreflightStepInv, PTL DEF PreflightSpec

=============================================================================
