------------------------------ MODULE KycPage -------------------------------
(***************************************************************************)
(* apps/web/assets/kyc-live.js against the KYC backend: one visitor's page *)
(* starts a verification, the widget refreshes the session, a timer polls  *)
(* the status.  A fetch sends what the page holds when it is called, and   *)
(* replies arrive in any order or not at all.                              *)
(***************************************************************************)
EXTENDS KycBackend

CONSTANT Page       \* the connection of the page

ASSUME PageAssumption == Page \in Connections

VARIABLES
  phase,            \* what start() has reached; "ready" has the button enabled
  userId,           \* userId of the page
  statusToken,      \* statusToken of the page
  polling,          \* pollTimer is set
  credential        \* the credential shown

pageVars == <<phase, userId, statusToken, polling, credential>>
kycVars == <<backendVars, pageVars>>

PageTypeOK ==
  /\ KycTypeOK
  /\ phase \in {"ready", "minting", "loading", "running"}
  /\ userId \in Users \cup {Null} /\ statusToken \in Tokens \cup {Null}
  /\ polling \in BOOLEAN /\ credential \in Users \cup {Null}
  /\ phase \in {"loading", "running"} => userId # Null /\ statusToken # Null
  /\ polling => phase = "running"

PageInit ==
  /\ BackendInit
  /\ phase = "ready" /\ polling = FALSE
  /\ userId = Null /\ statusToken = Null /\ credential = Null

-----------------------------------------------------------------------------
\* start: the button is disabled and a token is requested for nobody.
Start(s) ==
  /\ phase = "ready"
  /\ AskToken(s, Page, Null, Null)
  /\ phase' = "minting"
  /\ UNCHANGED <<userId, statusToken, polling, credential>>

\* The callback of the widget when its access token runs out.
Refresh(s) ==
  /\ phase = "running"
  /\ AskToken(s, Page, userId, statusToken)
  /\ UNCHANGED pageVars

\* pollStatus, by the timer and by an event of the widget.
PollByTimer(s) == polling /\ AskStatus(s, Page, statusToken) /\ UNCHANGED pageVars
PollByWidget(s) == phase = "running" /\ AskStatus(s, Page, statusToken) /\ UNCHANGED pageVars

Answered(s, path) == At(s, path, "answered")
Closed(s) ==
  /\ requests' = [requests EXCEPT ![s] = Null]
  /\ UNCHANGED <<clock, tokenHits, statusTokens, review, histories>>

\* start gets its tokens.
Launch(s) ==
  /\ Answered(s, "token") /\ requests[s].reply.code = 200
  /\ phase = "minting"
  /\ phase' = "loading"
  /\ userId' = requests[s].reply.user
  /\ statusToken' = requests[s].reply.token
  /\ Closed(s)
  /\ UNCHANGED <<polling, credential>>

\* A refresh gets its tokens: only the status token is kept.
Renew(s) ==
  /\ Answered(s, "token") /\ requests[s].reply.code = 200
  /\ phase = "running"
  /\ statusToken' = requests[s].reply.token
  /\ Closed(s)
  /\ UNCHANGED <<phase, userId, polling, credential>>

\* Faulty: the button stays disabled when the first request fails.
AfterFailureFaulty == UNCHANGED phase

\* The catch of start enables the button; a failing refresh or poll changes nothing.
AfterFailure == phase' = IF phase \in {"minting", "loading"} THEN "ready" ELSE phase

\* A request is refused or fails, or its reply is lost.
Fail(s) ==
  /\ requests[s] # Null /\ requests[s].stage = "answered"
  /\ Closed(s)
  /\ AfterFailure
  /\ UNCHANGED <<userId, statusToken, polling, credential>>

\* Faulty: the timer is cleared on the first GREEN, with or without credential.
StopsPollingFaulty(reply) == reply.review = "GREEN"

StopsPolling(reply) == reply.review = "GREEN" /\ reply.credential # Null

\* pollStatus gets a reply: the credential is shown and the timer cleared.
ShowStatus(s) ==
  /\ Answered(s, "status") /\ requests[s].reply.code = 200
  /\ LET reply == requests[s].reply IN
     /\ credential' = IF reply.credential # Null THEN reply.credential ELSE credential
     /\ polling' = (polling /\ ~StopsPolling(reply))
  /\ Closed(s)
  /\ UNCHANGED <<phase, userId, statusToken>>

\* The widget is loaded and launched, and the timer set; or one of these fails.
LoadSdk ==
  /\ phase = "loading"
  /\ \/ phase' = "running" /\ polling' = TRUE
     \/ phase' = "ready" /\ UNCHANGED polling
  /\ UNCHANGED <<backendVars, userId, statusToken, credential>>

Arrive(s) == Launch(s) \/ Renew(s) \/ ShowStatus(s) \/ Fail(s)

PageNext ==
  \/ \E s \in Slots :
       \/ Start(s) \/ Refresh(s) \/ PollByTimer(s) \/ PollByWidget(s) \/ Arrive(s)
       \/ Serve(s) /\ UNCHANGED pageVars
  \/ LoadSdk
  \/ \E u \in Users, answer \in Answers : Review(u, answer) /\ UNCHANGED pageVars
  \/ (Restart \/ Sweep \/ KycTick) /\ UNCHANGED pageVars

(* The server and the browser go on with what is open, and the timer fires. *)
(* Bodies, provider requests and the replies that carry a credential get    *)
(* through again and again, if they are tried again and again.  Nothing is  *)
(* assumed of the visitor, the widget, the reviews or the process's life.   *)
PageFairness ==
  /\ \A s \in Slots : WF_kycVars(Serve(s) /\ UNCHANGED pageVars) /\ WF_kycVars(Arrive(s))
  /\ SF_kycVars(\E s \in Slots : ReadStatusBody(s) /\ UNCHANGED pageVars)
  /\ SF_kycVars(\E s \in Slots : GetApplicant(s) /\ UNCHANGED pageVars)
  /\ SF_kycVars(\E s \in Slots : GetCredential(s) /\ UNCHANGED pageVars)
  /\ SF_kycVars(\E s \in Slots : ShowStatus(s) /\ requests[s].reply.credential # Null)
  /\ SF_kycVars(\E s \in Slots : PollByTimer(s))
  /\ WF_kycVars(LoadSdk)

PageSpec == PageInit /\ [][PageNext]_kycVars /\ PageFairness

-----------------------------------------------------------------------------
SessionApproved ==
  /\ phase = "running"
  /\ UserOf(statusToken) # Null
  /\ review[UserOf(statusToken)] = "GREEN"

(* Once the applicant of the page's session stays approved, and the        *)
(* backend keeps the session, the page shows a credential: whatever the    *)
(* order and the losses of polls and refreshes before, polling has not     *)
(* stopped too early.                                                      *)
ApprovalIsShown == <>[]SessionApproved => <>(credential # Null)

(* A start ends: with a running widget, or with the button enabled again.  *)
StartEnds == phase \in {"minting", "loading"} ~> phase \in {"ready", "running"}

=============================================================================
