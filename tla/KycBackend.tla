----------------------------- MODULE KycBackend -----------------------------
(***************************************************************************)
(* services/kyc-backend/server.js with the provider client of              *)
(* services/issuer/lib/kyc.js.  The process has one thread: a handler is   *)
(* cut where it awaits (the body, the provider), and between two parts of  *)
(* it run the other handlers, the sweeping timer and the clock.  The state *)
(* of the process is in memory and is lost when it restarts.               *)
(*                                                                         *)
(* Random user ids and status tokens are numbers never used before.        *)
(***************************************************************************)
EXTENDS Naturals, Sequences

CONSTANTS
  Null,
  Connections,      \* [client, remote, realIp]: who sends requests from where
  Loopback,         \* the loopback addresses
  Slots,            \* places for requests that are open at the same time
  Window,           \* RATE.windowMs
  MaxPerIp,         \* RATE.maxPerIp
  Answers,          \* reviews an applicant can get from the provider
  Ttl,              \* STATUS_TOKEN_TTL_MS
  MaxUsers,         \* bound on the user ids made
  MaxTokens,        \* bound on the status tokens made
  ClockMax           \* bound on the clock

ASSUME KycAssumption ==
  /\ Window \in Nat \ {0} /\ MaxPerIp \in Nat \ {0} /\ Ttl \in Nat
  /\ MaxUsers \in Nat /\ MaxTokens \in Nat /\ ClockMax \in Nat
  /\ Null \notin Nat
  /\ Answers \subseteq {"PENDING", "GREEN", "RED"}

Users  == 1..MaxUsers
Tokens == 1..MaxTokens

\* clientIp: the header counts only on a connection from the local proxy.
ClientIp(c) ==
  IF c.remote \in Loopback /\ c.realIp # Null THEN c.realIp ELSE c.remote

Ips == {ClientIp(c) : c \in Connections}

VARIABLES
  clock,            \* Date.now()
  tokenHits,        \* requests admitted per address, of the last window at least
  statusTokens,     \* [userId, expiresAt] of a live status token, or Null
  requests,         \* the open request in a slot, or Null
  review,           \* the provider's answer on the applicant of a user id
  firstFor,         \* history: whom a user id was made for
  mintedFor,        \* history: the user id and the connection of a status token
  admitted          \* history: when requests of an address were admitted

backendVars == <<clock, tokenHits, statusTokens, requests, review, firstFor, mintedFor, admitted>>
histories == <<firstFor, mintedFor, admitted>>

Reviews == Answers \cup {"unknown"}
NoReply == [code |-> 0, user |-> Null, token |-> Null, review |-> Null, credential |-> Null]

\* The replies of the two endpoints.
Failed(code)     == [NoReply EXCEPT !.code = code]
Minted(u, t)     == [NoReply EXCEPT !.code = 200, !.user = u, !.token = t]
Reported(a, cred) == [NoReply EXCEPT !.code = 200, !.review = a, !.credential = cred]

Reply ==
  [code : {0, 200, 400, 401, 429, 500, 502}, user : Users \cup {Null},
   token : Tokens \cup {Null}, review : Answers \cup {Null}, credential : Users \cup {Null}]

Request ==
  [conn : Connections, path : {"token", "status"},
   userId : Users \cup {Null}, statusToken : Tokens \cup {Null},
   stage : {"body", "access token", "applicant", "credential", "answered"},
   subject : Users \cup {Null}, reply : Reply]

\* Types; what is admitted in the current window is what the limiter counts.
KycTypeOK ==
  /\ clock \in 0..ClockMax
  /\ tokenHits \in [Ips -> Seq(0..ClockMax)]
  /\ statusTokens \in [Tokens -> [userId : Users, expiresAt : Nat] \cup {Null}]
  /\ requests \in [Slots -> Request \cup {Null}]
  /\ review \in [Users -> Reviews]
  /\ firstFor \in Seq(Connections) /\ Len(firstFor) <= MaxUsers
  /\ mintedFor \in Seq([user : Users, conn : Connections]) /\ Len(mintedFor) <= MaxTokens
  /\ admitted \in [Ips -> Seq(0..ClockMax)]

BackendInit ==
  /\ clock = 0
  /\ tokenHits = [i \in Ips |-> <<>>]
  /\ statusTokens = [t \in Tokens |-> Null]
  /\ requests = [s \in Slots |-> Null]
  /\ review = [u \in Users |-> "unknown"]
  /\ firstFor = <<>>
  /\ mintedFor = <<>>
  /\ admitted = [i \in Ips |-> <<>>]

-----------------------------------------------------------------------------
\* The hits of the last window, in their order.
Recent(hits) ==
  LET kept[n \in 0..Len(hits)] ==
        IF n = 0 THEN <<>>
        ELSE IF clock - hits[n] < Window THEN Append(kept[n - 1], hits[n]) ELSE kept[n - 1]
  IN kept[Len(hits)]

\* Faulty: the entry of an address at the limit is started over.
CountHitFaulty(ip) ==
  tokenHits' = [tokenHits EXCEPT ![ip] =
    IF Len(Recent(@)) >= MaxPerIp THEN <<>> ELSE Append(Recent(@), clock)]

\* tokenRateLimited keeps the recent hits, and the new one if there is room.
CountHit(ip) ==
  tokenHits' = [tokenHits EXCEPT ![ip] =
    IF Len(Recent(@)) >= MaxPerIp THEN Recent(@) ELSE Append(Recent(@), clock)]

RateLimited(ip) == Len(Recent(tokenHits[ip])) >= MaxPerIp

Open(c, path, u, t) ==
  [conn |-> c, path |-> path, userId |-> u, statusToken |-> t, stage |-> "body",
   subject |-> Null, reply |-> NoReply]

Put(s, r)      == requests' = [requests EXCEPT ![s] = r]
Advance(s, stage, u) == Put(s, [requests[s] EXCEPT !.stage = stage, !.subject = u])
Answer(s, reply)     == Put(s, [requests[s] EXCEPT !.stage = "answered", !.reply = reply])
At(s, path, stage)   == /\ requests[s] # Null
                        /\ requests[s].path = path
                        /\ requests[s].stage = stage

\* POST /api/kyc/token: the limiter runs before the body is read.
AskToken(s, c, u, t) ==
  LET ip == ClientIp(c)  r == Open(c, "token", u, t) IN
  /\ requests[s] = Null
  /\ CountHit(ip)
  /\ \/ /\ RateLimited(ip)
        /\ Put(s, [r EXCEPT !.stage = "answered", !.reply = Failed(429)])
        /\ UNCHANGED admitted
     \/ /\ ~RateLimited(ip)
        /\ Put(s, r)
        /\ admitted' = [admitted EXCEPT ![ip] = Append(@, clock)]
  /\ UNCHANGED <<clock, statusTokens, review, firstFor, mintedFor>>

\* POST /api/kyc/status.
AskStatus(s, c, t) ==
  /\ requests[s] = Null
  /\ Put(s, Open(c, "status", Null, t))
  /\ UNCHANGED <<clock, tokenHits, statusTokens, review, histories>>

Expired(t) == t # Null /\ statusTokens[t] # Null /\ statusTokens[t].expiresAt < clock

\* userIdForStatusToken: an expired token is deleted when it is looked up.
UserOf(t) ==
  IF t = Null \/ Expired(t) \/ statusTokens[t] = Null THEN Null ELSE statusTokens[t].userId

LookUp(t) ==
  statusTokens' = IF Expired(t) THEN [statusTokens EXCEPT ![t] = Null] ELSE statusTokens

\* Faulty: any user id that is well formed is reused.
IsSessionOfFaulty(t, u) == u # Null

\* statusTokenMatchesUser, for a user id that was sent.
IsSessionOf(t, u) == u # Null /\ UserOf(t) = u

\* readJsonBody fails: too large, not JSON, or the client goes away.
RefuseBody(s) ==
  /\ requests[s] # Null /\ requests[s].stage = "body"
  /\ Answer(s, Failed(400))
  /\ UNCHANGED <<clock, tokenHits, statusTokens, review, histories>>

\* The body of a token request is there: the user id is kept or a new one made.
ReadTokenBody(s) ==
  /\ At(s, "token", "body")
  /\ LET u == requests[s].userId  t == requests[s].statusToken IN
     /\ IF u = Null THEN UNCHANGED statusTokens ELSE LookUp(t)
     /\ \/ /\ IsSessionOf(t, u)
           /\ Advance(s, "access token", u)
           /\ UNCHANGED firstFor
        \/ /\ ~IsSessionOf(t, u)
           /\ Len(firstFor) < MaxUsers
           /\ firstFor' = Append(firstFor, requests[s].conn)
           /\ Advance(s, "access token", Len(firstFor) + 1)
  /\ UNCHANGED <<clock, tokenHits, review, mintedFor, admitted>>

CreateStatusToken(t, u) ==
  statusTokens' = [statusTokens EXCEPT ![t] = [userId |-> u, expiresAt |-> clock + Ttl]]

\* createAccessToken succeeds; the older status tokens of the user id stay.
MintTokens(s) ==
  LET u == requests[s].subject  t == Len(mintedFor) + 1 IN
  /\ At(s, "token", "access token")
  /\ t \in Tokens
  /\ CreateStatusToken(t, u)
  /\ mintedFor' = Append(mintedFor, [user |-> u, conn |-> requests[s].conn])
  /\ Answer(s, Minted(u, t))
  /\ UNCHANGED <<clock, tokenHits, review, firstFor, admitted>>

\* The body of a status request is there.
ReadStatusBody(s) ==
  /\ At(s, "status", "body")
  /\ LET t == requests[s].statusToken  u == UserOf(t) IN
     /\ LookUp(t)
     /\ IF u = Null THEN Answer(s, Failed(401)) ELSE Advance(s, "applicant", u)
  /\ UNCHANGED <<clock, tokenHits, review, histories>>

\* getApplicant; an applicant the provider does not know is an error of it.
GetApplicant(s) ==
  /\ At(s, "status", "applicant")
  /\ LET u == requests[s].subject IN
       \/ review[u] \in {"unknown", "PENDING"} /\ Answer(s, Reported(Null, Null))
       \/ review[u] = "RED" /\ Answer(s, Reported("RED", Null))
       \/ review[u] = "GREEN" /\ Advance(s, "credential", u)
  /\ UNCHANGED <<clock, tokenHits, statusTokens, review, histories>>

\* Faulty: verifiedCredential does not look at the answer of its own request.
VerifiedCredentialFaulty(u) == u

\* verifiedCredential asks the provider again and returns null unless GREEN.
VerifiedCredential(u) == IF review[u] = "GREEN" THEN u ELSE Null

GetCredential(s) ==
  /\ At(s, "status", "credential")
  /\ Answer(s, Reported("GREEN", VerifiedCredential(requests[s].subject)))
  /\ UNCHANGED <<clock, tokenHits, statusTokens, review, histories>>

\* A request to the provider fails, or the verified document lacks a field
\* or names a country without a number.
ProviderFails(s) ==
  /\ \/ At(s, "token", "access token") /\ Answer(s, Failed(500))
     \/ At(s, "status", "applicant") /\ Answer(s, Reported(Null, Null))
     \/ At(s, "status", "credential") /\ Answer(s, Failed(502))
  /\ UNCHANGED <<clock, tokenHits, statusTokens, review, histories>>

\* The timer.  It removes only what no lookup would count, so that it does
\* not matter how often it runs.
Sweep ==
  /\ tokenHits' = [i \in Ips |-> Recent(tokenHits[i])]
  /\ statusTokens' = [t \in Tokens |-> IF Expired(t) THEN Null ELSE statusTokens[t]]
  /\ UNCHANGED <<clock, requests, review, histories>>

\* The process stops and starts: both maps are empty, open requests fail.
Restart ==
  /\ tokenHits' = [i \in Ips |-> <<>>]
  /\ admitted' = [i \in Ips |-> <<>>]
  /\ statusTokens' = [t \in Tokens |-> Null]
  /\ requests' = [s \in Slots |->
       IF requests[s] = Null \/ requests[s].stage = "answered" THEN requests[s]
       ELSE [requests[s] EXCEPT !.stage = "answered", !.reply = Failed(500)]]
  /\ UNCHANGED <<clock, review, firstFor, mintedFor>>

\* The applicant of a user id submits documents; the provider reviews them.
Review(u, answer) ==
  /\ u <= Len(firstFor)
  /\ review' = [review EXCEPT ![u] = answer]
  /\ UNCHANGED <<clock, tokenHits, statusTokens, requests, histories>>

KycTick ==
  /\ clock < ClockMax
  /\ clock' = clock + 1
  /\ UNCHANGED <<tokenHits, statusTokens, requests, review, histories>>

Serve(s) ==
  \/ RefuseBody(s) \/ ReadTokenBody(s) \/ ReadStatusBody(s)
  \/ MintTokens(s) \/ GetApplicant(s) \/ GetCredential(s) \/ ProviderFails(s)

=============================================================================
