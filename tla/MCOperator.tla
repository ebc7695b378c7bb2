----------------------------- MODULE MCOperator ------------------------------
(***************************************************************************)
(* What the operators run by hand, for TLC: the issuer's commands, the     *)
(* monitor, the anchor clients, the disclosures, the release check and the *)
(* trees of an issuance.  Only the monitor reads files of another part,    *)
(* those of the commands; a behaviour is one part alone, which it chooses  *)
(* first, and a part bounds what its question does not need.               *)
(***************************************************************************)
EXTENDS Operators, Disclosure, PublishPreflight, IssuerTrees

CONSTANTS Parts, n1, n2, gate, token, verifier, u1, u2, u3, u4, u5

VARIABLE part

operatorVars == <<allVars, anchorVars, discVars, npmVars, issued, part>>

-----------------------------------------------------------------------------
(* Ana is on both lists, in another spelling; Bo is only on the later one; *)
(* the name of Cy has no Latin letters and is on a list, and nobody        *)
(* matches it.                                                             *)
MCAna     == [word |-> "ANA", spelling |-> "plain"]
MCAnaMark == [word |-> "ANA", spelling |-> "accented"]
MCBo      == [word |-> "BO", spelling |-> "plain"]
MCCy      == [word |-> Blank, spelling |-> "plain"]
MCNames   == {MCAna, MCAnaMark, MCBo, MCCy}
MCRoster  == [ana |-> MCAna, bo |-> MCBo, cy |-> MCCy]
MCLater   == <<MCBo, MCAnaMark>>
MCLists   == {<<>>, <<MCCy, MCAnaMark>>, MCLater}

MCOps      == {Ops(sync, rotate) : sync \in BOOLEAN, rotate \in BOOLEAN}
MCCommands == MCOps \cup {OfacSync, Issue}

\* Roots that the issuer has and roots that it has not, and two nullifiers.
MCEvent(type, root, nullifier) == [type |-> type, root |-> root, nullifier |-> nullifier]
MCEvents == {MCEvent("Approved", {}, n1), MCEvent("InvalidProof", {}, NoValue),
             MCEvent("SanctionsRootSet", {"bo"}, NoValue), MCEvent("SanctionsRootSet", {}, NoValue)}

MCContracts == [payment |-> gate, rwa |-> verifier]
MCRaw(contract, topic, nullifier) == [contract |-> contract, topic |-> topic, nullifier |-> nullifier]

\* A transfer comes before the approval in a payment's events, and an event
\* of the token after the authorization of a mint.
MCRawFiles == {<<MCRaw(token, "transfer", NoValue), MCRaw(gate, "approved", n1)>>,
               <<MCRaw(verifier, "mint_authorized", n1), MCRaw(token, "minted", NoValue)>>,
               <<MCRaw(verifier, "mint_authorized", n2), MCRaw(token, "minted", NoValue)>>}

\* The order of the keys is not the order of the roster, and differs by list.
MCSanctionsKey  == (u1 :> 4) @@ (u2 :> 1) @@ (u3 :> 2) @@ (u4 :> 6) @@ (u5 :> 3)
MCRevocationKey == (u1 :> 1) @@ (u2 :> 6) @@ (u3 :> 4) @@ (u4 :> 3) @@ (u5 :> 5)

\* Every roster of up to three of the first three users in any order, with
\* any of them matched and any revoked; full rosters, and one with one user
\* more than the credential tree has leaves.
MCTreeInputs ==
  UNION {[users : {users}, matched : SUBSET Range(users), revoked : SUBSET Range(users)] :
           users \in UNION {SetToSeqs(s) : s \in SUBSET {u1, u2, u3}}}
    \cup {[users |-> <<u1, u2, u3, u4>>, matched |-> {u3}, revoked |-> {u1}],
          [users |-> <<u4, u3, u2, u1>>, matched |-> {u1, u2, u3, u4}, revoked |-> {u2, u4}],
          [users |-> <<u1, u2, u3, u4, u5>>, matched |-> {}, revoked |-> {}]}

-----------------------------------------------------------------------------
MCFile == [version |-> 1, publishable |-> TRUE]

OperatorInit ==
  /\ part \in Parts
  /\ MonitorInit
  /\ part # "screening" => treasury = <<>> /\ sample.rows = First(MCLater)
  /\ AnchorInit
  /\ part # "anchor" => config = "missing" /\ ~clean
  /\ DisclosureInit
  /\ part \notin {"disclosure", "web"} => inputFile = CHOOSE i \in InputFiles : TRUE
  /\ IF part = "release" THEN NpmInit
     ELSE /\ packageFile = [p \in Packages |-> MCFile] /\ registry = [p \in Packages |-> {}]
          /\ user = FALSE /\ run = IdleRun
  /\ TreesInit

\* Next to the monitor runs the rotation, without faults.
MonitorBounds ==
  /\ treasury = <<>> /\ opsNow = 0 /\ faults = 0
  /\ \A w \in Workers : jobs[w].command \in {<<>>, Ops(FALSE, TRUE)}

\* One disclosure at a time with its vault; or the packet of the page.
DisclosureBounds ==
  IF part = "disclosure" THEN program["web_packet"].todo = <<>>
  ELSE /\ program["disclosure"].todo = <<>> /\ program["vault"].todo = <<>>
       /\ keys <= 2

OperatorNext ==
  \/ /\ part = "screening" /\ OpsNext
     /\ UNCHANGED <<monitorVars, anchorVars, discVars, npmVars, issued, part>>
  \/ /\ part = "monitor"
     /\ UNCHANGED <<anchorVars, discVars, npmVars, issued, part>>
     /\ MonitorNext /\ MonitorBounds'
  \/ /\ part = "anchor" /\ AnchorNext
     /\ UNCHANGED <<allVars, discVars, npmVars, issued, part>>
  \/ /\ part \in {"disclosure", "web"}
     /\ UNCHANGED <<allVars, anchorVars, npmVars, issued, part>>
     /\ DisclosureNext /\ DisclosureBounds'
  \/ /\ part = "release" /\ NpmNext
     /\ UNCHANGED <<allVars, anchorVars, discVars, issued, part>>
  \/ /\ part = "trees" /\ TreesNext
     /\ UNCHANGED <<allVars, anchorVars, discVars, npmVars, part>>

OperatorSpec == OperatorInit /\ [][OperatorNext]_operatorVars

=============================================================================
