----------------------------- MODULE KycClients -----------------------------
(***************************************************************************)
(* The KYC backend with clients that send any request they can: any user   *)
(* id, and any status token that was made for them.                        *)
(***************************************************************************)
EXTENDS KycBackend, FiniteSets

TokensOf(c) == {t \in 1..Len(mintedFor) : mintedFor[t].conn = c}

Ask(s, c) ==
  \/ \E u \in {Null} \cup 1..Len(firstFor), t \in {Null} \cup TokensOf(c) : AskToken(s, c, u, t)
  \/ \E t \in {Null} \cup TokensOf(c) : AskStatus(s, c, t)

\* The reply reaches the client, or is lost.
Close(s) ==
  /\ requests[s] # Null /\ requests[s].stage = "answered"
  /\ requests' = [requests EXCEPT ![s] = Null]
  /\ UNCHANGED <<clock, tokenHits, statusTokens, review, histories>>

ClientsNext ==
  \/ \E s \in Slots : Serve(s) \/ Close(s) \/ \E c \in Connections : Ask(s, c)
  \/ \E u \in Users, answer \in Answers : Review(u, answer)
  \/ Sweep \/ Restart \/ KycTick

ClientsSpec == BackendInit /\ [][ClientsNext]_backendVars

-----------------------------------------------------------------------------
(* "Per-IP rate limit" (server.js): since the process started, no window,  *)
(* wherever it begins, saw more than maxPerIp token requests of one        *)
(* address admitted, whatever was swept and refused in between.            *)
RateHolds ==
  \A i \in Ips, from \in 0..ClockMax :
    LET inWindow == {k \in DOMAIN admitted[i] : admitted[i][k] \in from..(from + Window - 1)}
    IN Cardinality(inWindow) <= MaxPerIp

(* A reply about a user id, with a status token or with a status, goes to  *)
(* the client for whom that user id was made, although user ids are no     *)
(* secret and tokens expire, are swept or are forgotten between the check  *)
(* and the reply.                                                          *)
RepliesStayInSession ==
  \A s \in Slots : requests[s] # Null /\ requests[s].subject # Null =>
    firstFor[requests[s].subject] = requests[s].conn

(* An applicant can lose approval between the two requests a status makes  *)
(* to the provider: no credential is handed out of one who is not approved *)
(* when the credential is read.                                            *)
CredentialIsCurrent ==
  [][\A s \in Slots :
       requests'[s] # Null /\ requests'[s].reply.credential # Null /\ requests[s] # requests'[s]
         => review[requests'[s].reply.credential] = "GREEN"]_backendVars

=============================================================================
