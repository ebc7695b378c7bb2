------------------------------ MODULE MCAccess ------------------------------
(***************************************************************************)
(* Instances of the access layer for TLC.  One issuer, one set of terms    *)
(* and one action id: the checks on them are equalities like those on the  *)
(* fields that vary.                                                       *)
(***************************************************************************)
EXTENDS AccessProperties

CONSTANTS alice, bob, issuer, terms, action, packet

\* Alice's limit stops short of the larger amount; Bob's is the largest u128.
MCAlice == [person |-> alice, issuer |-> issuer, meets |-> {terms},
            limit |-> 1, issued |-> 1, expires |-> 2]
MCBob   == [person |-> bob, issuer |-> issuer, meets |-> {terms},
            limit |-> Word - 1, issued |-> 1, expires |-> 2]

MCCredentials == {c \in {MCAlice, MCBob} : c.person \in Persons}

MCEverybody   == {MCCredentials}
MCNobodyToo   == {MCCredentials, {}}
MCNoDenial    == {{}}
MCAliceDenied == {{}, {<<alice, issuer>>}}
MCBobRevoked  == {{}, {MCBob}}

MCSignedAmounts == {-2, 0, 1, 2}
MCPositive == {1, 2}

MCStatementsFor(persons, policies0, actions, amounts) ==
  [person : persons, issuer : {issuer}, policy : policies0, terms : {terms},
   action : actions, asset : Assets, amount : {AsU128(a) : a \in amounts},
   recipient : RecipientIds, actionId : {action}, packet : {packet},
   epoch : Epochs, credentialRoot : CredentialSets, sanctionsRoot : DenySets,
   revocationRoot : RevokedSets, circuit : Circuits]

MCRequestsFor(amounts) ==
  [policy : PolicyIds, asset : Assets, amount : amounts,
   recipient : RecipientIds, actionId : {action}, epoch : Epochs]

MCTransferStatements == MCStatementsFor(Persons, PolicyIds, {Payment, Rwa}, MCSignedAmounts)
MCTransferRequests   == MCRequestsFor(MCSignedAmounts)

MCMintStatements     == MCStatementsFor(Persons, PolicyIds, {Rwa}, MCPositive)
MCMintRequests       == MCRequestsFor(MCPositive)

MCMixedStatements    == MCStatementsFor(Persons, PolicyIds, {Payment, Rwa}, {1})
MCMixedRequests      == MCRequestsFor({1})

-----------------------------------------------------------------------------
\* A deployment on its way: the key is not frozen, nothing is mapped yet.
UnroutedInit ==
  /\ OwnershipInit /\ ApprovalsInit /\ RwaInit /\ IdentityInit /\ AdapterInit
  /\ root \in [Issuers -> CredentialSets]
  /\ sanctionsRoot \in DenySets
  /\ revocationRoot \in [Issuers -> RevokedSets]
  /\ policies \in [PolicyIds -> Policy]
  /\ gateAllowed = Gates /\ used = {}
  /\ vk \in Circuits /\ frozen = FALSE
  /\ token = [a \in Assets |-> None]
  /\ recipient = [r \in RecipientIds |-> None]
  /\ balance = [t \in PayTokens |-> [h \in Holders |-> 0]]

UnroutedSpec == UnroutedInit /\ [][Next]_vars

=============================================================================
