--------------------------- MODULE MCRootPublish ---------------------------
(***************************************************************************)
(* Instances of the publication for TLC: Alice joins, is matched, is       *)
(* revoked, and leaves while the revocations still name her, next to Bob,  *)
(* who is clean.  A behaviour has a verifying publisher or preflights next *)
(* to the executing publisher, not both.  Some bundles have one artifact   *)
(* too few or too many for one of the preflights.                          *)
(***************************************************************************)
EXTENDS Preflight

CONSTANTS Parts, alice, bob, issuer, terms, asset, recipient, action, packet

MCCredentialOf(p) == [person |-> p, issuer |-> issuer, meets |-> {terms},
                      limit |-> 1, issued |-> 1, expires |-> 1]
MCAlice == MCCredentialOf(alice)
MCBob   == MCCredentialOf(bob)
MCCredentials == {MCAlice, MCBob}

MCInput(users, matched, revoked) ==
  [users |-> users, matched |-> matched, revoked |-> revoked]

MCInputs == {MCInput({MCBob}, {}, {alice}),
             MCInput({MCAlice, MCBob}, {}, {}),
             MCInput({MCAlice, MCBob}, {alice}, {}),
             MCInput({MCAlice, MCBob}, {}, {alice})}

MCCredentialSets == {{MCBob}, {MCAlice, MCBob}}
MCDenySets       == {{}, {<<alice, issuer>>}}
MCRevokedSets    == {{}, {MCAlice}}

MCStatements ==
  [person : Persons, issuer : {issuer}, policy : PolicyIds, terms : {terms},
   action : {Payment}, asset : {asset}, amount : {1}, recipient : {recipient},
   actionId : {action}, packet : {packet}, epoch : {1},
   credentialRoot : CredentialSets, sanctionsRoot : DenySets,
   revocationRoot : RevokedSets, circuit : Circuits]

MCEvery   == Wanted("bucket_b") \cup Wanted("mainnet")
MCBundles == {MCEvery, MCEvery \cup {"mainnet_deployment"}, MCEvery \ {"audit"}}

ASSUME MCCredentialsCount == CredentialsCount

-----------------------------------------------------------------------------
VARIABLE part

MCInit ==
  /\ part \in Parts
  /\ PreflightInit
  /\ part # "preflight" => artifacts = MCEvery

\* The preflights see three of the four issuances.
PreflightBounds ==
  \A p \in Checkers : pc[p] = "idle" /\ file # MCInput({MCAlice, MCBob}, {alice}, {})

MCNext ==
  \/ part = "publishers" /\ PublishNext /\ UNCHANGED <<preflightVars, part>>
  \/ part = "preflight" /\ UNCHANGED part /\ PreflightNext /\ PreflightBounds'

MCSpec == MCInit /\ [][MCNext]_<<everyVar, part>>

=============================================================================
