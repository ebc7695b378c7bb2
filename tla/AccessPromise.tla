---------------------------- MODULE AccessPromise ----------------------------
(***************************************************************************)
(* What the access layer promises, said of people and published sets and   *)
(* not of proofs and contracts: a person is granted at most one action per *)
(* policy and epoch, by whichever gate comes first, and only while a       *)
(* credential of theirs that covers the action is enrolled and neither     *)
(* they nor it is denied.                                                  *)
(***************************************************************************)
EXTENDS Eligibility, Sequences

VARIABLES
  enrolled,         \* [Issuers -> SUBSET Credentials]
  denied,           \* SUBSET (Persons \X Issuers)
  revoked,          \* [Issuers -> SUBSET Credentials]
  granted           \* [Nullifiers -> Seq(Statements)]

promiseVars == <<enrolled, denied, revoked, granted>>

PromiseTypeOK ==
  /\ enrolled \in [Issuers -> SUBSET Credentials]
  /\ denied \subseteq Persons \X Issuers
  /\ revoked \in [Issuers -> SUBSET Credentials]
  /\ granted \in [Nullifiers -> Seq(Statements)]

\* Whatever is published at first, nothing is granted.
PromiseInit ==
  /\ enrolled \in [Issuers -> SUBSET Credentials]
  /\ denied \in SUBSET (Persons \X Issuers)
  /\ revoked \in [Issuers -> SUBSET Credentials]
  /\ granted = [n \in Nullifiers |-> << >>]

Publish ==
  /\ enrolled' \in [Issuers -> SUBSET Credentials]
  /\ denied' \in SUBSET (Persons \X Issuers)
  /\ revoked' \in [Issuers -> SUBSET Credentials]
  /\ UNCHANGED granted

Eligible(s) ==
  /\ <<s.person, s.issuer>> \notin denied
  /\ \E c \in enrolled[s.issuer] \ revoked[s.issuer] : Entitles(c, s)

Grant(s) ==
  /\ granted[Nullifier(s)] = << >>
  /\ Eligible(s)
  /\ granted' = [granted EXCEPT ![Nullifier(s)] = <<s>>]
  /\ UNCHANGED <<enrolled, denied, revoked>>

PromiseNext == Publish \/ \E s \in Statements : Grant(s)

PromiseSpec == PromiseInit /\ [][PromiseNext]_promiseVars

=============================================================================
