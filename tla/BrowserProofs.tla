--------------------------- MODULE BrowserProofs ----------------------------
(***************************************************************************)
(* Proofs about what runs in a visitor's browser and what it talks to.     *)
(*                                                                         *)
(* The KYC backend, for any clients, connections, limits and bounds: its   *)
(* replies stay in the session they belong to, a credential is current     *)
(* when it is handed out, the rate limit holds in every window; and the    *)
(* KYC page is one of the clients all this is shown for.                   *)
(*                                                                         *)
(* The console, for any number of tabs, epochs and transactions: what a    *)
(* visitor is told of payments.  The SDK, for any numbers and widths: the  *)
(* arguments it makes of a proof and an action.                            *)
(***************************************************************************)
EXTENDS Browser, FiniteSetTheorems, WellFoundedInduction, SequenceTheorems, TLAPS

-----------------------------------------------------------------------------
(* Sessions of the KYC backend.                                            *)

\* The types of everything but the rate limit.
SessionTypes ==
  /\ clock \in 0..ClockMax
  /\ statusTokens \in [Tokens -> [userId : Users, expiresAt : Nat] \cup {Null}]
  /\ requests \in [Slots -> Request \cup {Null}]
  /\ review \in [Users -> Reviews]
  /\ firstFor \in Seq(Connections) /\ Len(firstFor) <= MaxUsers
  /\ mintedFor \in Seq([user : Users, conn : Connections]) /\ Len(mintedFor) <= MaxTokens

\* What a request was given or names belongs to the client that sends it.
OwnRequest(r) ==
  /\ r.subject # Null => r.subject \in 1..Len(firstFor) /\ firstFor[r.subject] = r.conn
  /\ r.statusToken # Null => r.statusToken \in TokensOf(r.conn)
  /\ r.stage \in {"access token", "applicant", "credential"} => r.subject # Null
  /\ r.stage = "credential" => "GREEN" \in Answers
  /\ r.stage # "answered" => r.reply = NoReply
  /\ r.reply.user # Null => r.reply.user \in 1..Len(firstFor)
  /\ r.reply.token # Null => r.reply.token \in TokensOf(r.conn)

\* A status token is for a user id of the client that it was made for.
SessionsKept ==
  /\ \A t \in 1..Len(mintedFor) :
       /\ mintedFor[t].user \in 1..Len(firstFor)
       /\ firstFor[mintedFor[t].user] = mintedFor[t].conn
  /\ \A t \in Tokens : statusTokens[t] # Null =>
       t \in 1..Len(mintedFor) /\ statusTokens[t].userId = mintedFor[t].user
  /\ \A s \in Slots : requests[s] # Null => OwnRequest(requests[s])

SessionIInv == SessionTypes /\ SessionsKept

LEMMA ReplyTypes ==
  /\ NoReply \in Reply
  /\ \A code \in {400, 401, 429, 500, 502} :
       /\ Failed(code) \in Reply
       /\ Failed(code).user = Null /\ Failed(code).token = Null /\ Failed(code).credential = Null
  /\ \A u \in Users, t \in Tokens :
       /\ Minted(u, t) \in Reply
       /\ Minted(u, t).user = u /\ Minted(u, t).token = t /\ Minted(u, t).credential = Null
  /\ \A x \in Answers \cup {Null}, u \in Users \cup {Null} :
       /\ Reported(x, u) \in Reply
       /\ Reported(x, u).user = Null /\ Reported(x, u).token = Null
       /\ Reported(x, u).credential = u
<1>1. NoReply \in Reply
  BY DEF Reply, NoReply
<1>2. ASSUME NEW code \in {400, 401, 429, 500, 502}
      PROVE  /\ Failed(code) \in Reply
             /\ Failed(code).user = Null /\ Failed(code).token = Null
             /\ Failed(code).credential = Null
  <2>1. Failed(code) = [code |-> code, user |-> Null, token |-> Null, review |-> Null,
                        credential |-> Null]
    BY DEF NoReply, Failed
  <2> QED BY <1>2, <2>1 DEF Reply
<1>3. ASSUME NEW u \in Users, NEW t \in Tokens
      PROVE  /\ Minted(u, t) \in Reply
             /\ Minted(u, t).user = u /\ Minted(u, t).token = t
             /\ Minted(u, t).credential = Null
  <2> DEFINE m1 == [NoReply EXCEPT !.code = 200]
             m2 == [m1 EXCEPT !.user = u]
             m3 == [m2 EXCEPT !.token = t]
  <2>1. m1 = [code |-> 200, user |-> Null, token |-> Null, review |-> Null, credential |-> Null]
    BY DEF NoReply
  <2>2. m3 = Minted(u, t)
    BY DEF Minted
  <2> HIDE DEF m1
  <2>3. m2 = [code |-> 200, user |-> u, token |-> Null, review |-> Null, credential |-> Null]
    BY <2>1
  <2> HIDE DEF m2
  <2>4. m3 = [code |-> 200, user |-> u, token |-> t, review |-> Null, credential |-> Null]
    BY <2>3
  <2> HIDE DEF m3
  <2> QED BY <2>2, <2>4 DEF Reply
<1>4. ASSUME NEW x \in Answers \cup {Null}, NEW u \in Users \cup {Null}
      PROVE  /\ Reported(x, u) \in Reply
             /\ Reported(x, u).user = Null /\ Reported(x, u).token = Null
             /\ Reported(x, u).credential = u
  <2> DEFINE r1 == [NoReply EXCEPT !.code = 200]
             r2 == [r1 EXCEPT !.review = x]
             r3 == [r2 EXCEPT !.credential = u]
  <2>1. r1 = [code |-> 200, user |-> Null, token |-> Null, review |-> Null, credential |-> Null]
    BY DEF NoReply
  <2>2. r3 = Reported(x, u)
    BY DEF Reported
  <2> HIDE DEF r1
  <2>3. r2 = [code |-> 200, user |-> Null, token |-> Null, review |-> x, credential |-> Null]
    BY <2>1
  <2> HIDE DEF r2
  <2>4. r3 = [code |-> 200, user |-> Null, token |-> Null, review |-> x, credential |-> u]
    BY <2>3
  <2> HIDE DEF r3
  <2> QED BY <2>2, <2>4 DEF Reply
<1> QED BY <1>1, <1>2, <1>3, <1>4

LEMMA NullIsNothing == Null \notin Users /\ Null \notin Tokens
BY KycAssumption DEF Users, Tokens

AnswerTo(q, reply) == [q EXCEPT !.stage = "answered", !.reply = reply]

LEMMA AnsweredRequest ==
  ASSUME NEW q \in Request, NEW reply \in Reply
  PROVE  LET r == AnswerTo(q, reply) IN
         /\ r \in Request
         /\ r.conn = q.conn /\ r.subject = q.subject /\ r.statusToken = q.statusToken
         /\ r.stage = "answered" /\ r.reply = reply
<1> DEFINE p == [q EXCEPT !.stage = "answered"]
           r == AnswerTo(q, reply)
<1>1. p \in Request
  BY DEF Request
<1>2. r = [p EXCEPT !.reply = reply]
  BY DEF Request, AnswerTo
<1>3. r \in Request
  <2> HIDE DEF p, r
  <2> QED BY <1>1, <1>2 DEF Request
<1>4. /\ r.conn = q.conn /\ r.subject = q.subject /\ r.statusToken = q.statusToken
      /\ r.stage = "answered" /\ r.reply = reply
  BY DEF Request, AnswerTo
<1> QED BY <1>3, <1>4

\* A request that is answered, or goes on, is still of its client.
LEMMA AnswerOwn ==
  ASSUME SessionIInv, NEW s \in Slots, requests[s] # Null, NEW reply \in Reply,
         Answer(s, reply),
         reply.user # Null => reply.user \in 1..Len(firstFor),
         reply.token # Null => reply.token \in TokensOf(requests[s].conn)
  PROVE  /\ requests' \in [Slots -> Request \cup {Null}]
         /\ OwnRequest(requests'[s]) /\ requests'[s].reply = reply
         /\ requests'[s].conn = requests[s].conn /\ requests'[s].stage = "answered"
         /\ \A r \in Slots : r # s => requests'[r] = requests[r]
<1>1. requests \in [Slots -> Request \cup {Null}] /\ requests[s] \in Request
  BY DEF SessionIInv, SessionTypes
<1>2. OwnRequest(requests[s])
  BY DEF SessionIInv, SessionsKept
<1> DEFINE r == AnswerTo(requests[s], reply)
<1>3. /\ r \in Request
      /\ r.conn = requests[s].conn /\ r.subject = requests[s].subject
      /\ r.statusToken = requests[s].statusToken /\ r.stage = "answered" /\ r.reply = reply
  BY <1>1, AnsweredRequest
<1> HIDE DEF r
<1>4. OwnRequest(r)
  BY <1>2, <1>3 DEF OwnRequest
<1>5. requests' = [requests EXCEPT ![s] = r]
  BY DEF Answer, Put, AnswerTo, r
<1> QED BY <1>1, <1>3, <1>4, <1>5

LEMMA AdvanceOwn ==
  ASSUME SessionIInv, NEW s \in Slots, requests[s] # Null,
         NEW to \in {"access token", "applicant", "credential"}, NEW u \in Users,
         Advance(s, to, u), requests[s].stage # "answered",
         to = "credential" => "GREEN" \in Answers
  PROVE  /\ requests' \in [Slots -> Request \cup {Null}]
         /\ requests'[s].subject = u /\ requests'[s].conn = requests[s].conn
         /\ requests'[s].statusToken = requests[s].statusToken
         /\ requests'[s].stage = to /\ requests'[s].reply = NoReply
         /\ \A r \in Slots : r # s => requests'[r] = requests[r]
<1>1. requests \in [Slots -> Request \cup {Null}] /\ requests[s] \in Request
  BY DEF SessionIInv, SessionTypes
<1>2. requests[s].reply = NoReply
  BY DEF SessionIInv, SessionsKept, OwnRequest
<1> DEFINE r == [requests[s] EXCEPT !.stage = to, !.subject = u]
<1>3. r \in Request
  BY <1>1 DEF Request
<1>5. requests' = [requests EXCEPT ![s] = r]
  BY DEF Advance, Put
<1>6. /\ r.reply = NoReply /\ r.conn = requests[s].conn /\ r.stage = to
      /\ r.subject = u /\ r.statusToken = requests[s].statusToken
  BY <1>1, <1>2 DEF Request
<1> HIDE DEF r
<1> QED BY <1>1, <1>3, <1>5, <1>6

\* What changes neither user ids nor status tokens.
LEMMA SessionsStay ==
  ASSUME SessionIInv, UNCHANGED <<firstFor, mintedFor>>,
         clock' \in 0..ClockMax, review' \in [Users -> Reviews],
         statusTokens' \in [Tokens -> [userId : Users, expiresAt : Nat] \cup {Null}],
         \A t \in Tokens : statusTokens'[t] \in {Null, statusTokens[t]},
         requests' \in [Slots -> Request \cup {Null}],
         \A s \in Slots : requests'[s] \in {Null, requests[s]} \/ OwnRequest(requests'[s])
  PROVE  SessionIInv'
<1>1. SessionTypes'
  BY DEF SessionIInv, SessionTypes
<1>2. \A s \in Slots : requests'[s] # Null => OwnRequest(requests'[s])
  BY DEF SessionIInv, SessionsKept
<1>3. \A s \in Slots : requests'[s] # Null => OwnRequest(requests[s])'
  BY <1>2 DEF OwnRequest, TokensOf
<1>4. SessionsKept'
  BY <1>3 DEF SessionIInv, SessionsKept
<1> QED BY <1>1, <1>4 DEF SessionIInv

LEMMA LookedUp ==
  ASSUME SessionIInv, NEW t \in Tokens \cup {Null}, LookUp(t)
  PROVE  /\ statusTokens' \in [Tokens -> [userId : Users, expiresAt : Nat] \cup {Null}]
         /\ \A k \in Tokens : statusTokens'[k] \in {Null, statusTokens[k]}
BY DEF SessionIInv, SessionTypes, LookUp, Expired

\* The user id of a status token is of the client that the token was made for.
LEMMA UserOfToken ==
  ASSUME SessionIInv, NEW s \in Slots, requests[s] # Null,
         NEW u, u = UserOf(requests[s].statusToken), u # Null
  PROVE  u \in Users /\ u \in 1..Len(firstFor) /\ firstFor[u] = requests[s].conn
<1> DEFINE t == requests[s].statusToken
<1>1. t # Null /\ requests[s] \in Request
  BY DEF UserOf, SessionIInv, SessionTypes
<1>2. t \in Tokens /\ t \in TokensOf(requests[s].conn)
  BY <1>1 DEF SessionIInv, SessionsKept, OwnRequest, Request
<1>3. statusTokens[t] # Null /\ u = statusTokens[t].userId
  BY DEF UserOf
<1> HIDE DEF t
<1>4. u = mintedFor[t].user /\ t \in 1..Len(mintedFor) /\ mintedFor[t].conn = requests[s].conn
  BY <1>2, <1>3 DEF SessionIInv, SessionsKept, TokensOf
<1> QED BY <1>2, <1>3, <1>4 DEF SessionIInv, SessionTypes, SessionsKept

-----------------------------------------------------------------------------

\* A request that a client opens.
LEMMA OpenOwn ==
  ASSUME SessionIInv, NEW s \in Slots, NEW c \in Connections, NEW path \in {"token", "status"},
         NEW u \in {Null} \cup Users, NEW t \in {Null} \cup TokensOf(c)
  PROVE  Open(c, path, u, t) \in Request /\ OwnRequest(Open(c, path, u, t))
<1>1. t \in Tokens \cup {Null}
  BY KycAssumption DEF TokensOf, Tokens, SessionIInv, SessionTypes
<1>2. /\ NoReply \in Reply /\ NoReply.user = Null /\ NoReply.token = Null
  BY ReplyTypes DEF NoReply
<1> DEFINE r == Open(c, path, u, t)
<1>3. /\ r.conn = c /\ r.statusToken = t /\ r.subject = Null /\ r.stage = "body"
      /\ r.reply = NoReply
  BY DEF Open
<1>4. r \in Request
  BY <1>1, <1>2 DEF Open, Request
<1> QED BY <1>2, <1>3, <1>4 DEF OwnRequest

LEMMA AskKeeps ==
  ASSUME SessionIInv, NEW s \in Slots, NEW c \in Connections,
         \/ \E u \in {Null} \cup Users, t \in {Null} \cup TokensOf(c) : AskToken(s, c, u, t)
         \/ \E t \in {Null} \cup TokensOf(c) : AskStatus(s, c, t)
  PROVE  SessionIInv'
<1> USE DEF SessionIInv
<1>1. /\ requests \in [Slots -> Request \cup {Null}] /\ clock \in 0..ClockMax
      /\ review \in [Users -> Reviews]
      /\ statusTokens \in [Tokens -> [userId : Users, expiresAt : Nat] \cup {Null}]
  BY DEF SessionTypes
<1>2. UNCHANGED <<clock, statusTokens, review, firstFor, mintedFor>>
  BY DEF AskToken, AskStatus, histories
<1>3. /\ requests' \in [Slots -> Request \cup {Null}]
      /\ \A k \in Slots : requests'[k] \in {Null, requests[k]} \/ OwnRequest(requests'[k])
  <2>1. ASSUME NEW u \in {Null} \cup Users, NEW t \in {Null} \cup TokensOf(c), AskToken(s, c, u, t)
        PROVE  <1>3!:
    <3> DEFINE q == Open(c, "token", u, t)
               r == AnswerTo(q, Failed(429))
    <3>1. q \in Request /\ OwnRequest(q)
      BY OpenOwn
    <3>2. Failed(429) \in Reply /\ Failed(429).user = Null /\ Failed(429).token = Null
      BY ReplyTypes
    <3>3. r \in Request /\ OwnRequest(r)
      <4>1. /\ r \in Request
            /\ r.conn = q.conn /\ r.subject = q.subject /\ r.statusToken = q.statusToken
            /\ r.stage = "answered" /\ r.reply = Failed(429)
        <5> HIDE DEF q
        <5> QED BY <3>1, <3>2, AnsweredRequest
      <4> HIDE DEF q, r
      <4>2. /\ r.subject # Null => r.subject \in 1..Len(firstFor) /\ firstFor[r.subject] = r.conn
            /\ r.statusToken # Null => r.statusToken \in TokensOf(r.conn)
        BY <3>1, <4>1 DEF OwnRequest
      <4>3. r.reply.user = Null /\ r.reply.token = Null
        BY <3>2, <4>1
      <4> QED BY <4>1, <4>2, <4>3 DEF OwnRequest
    <3>4. requests' \in {[requests EXCEPT ![s] = r], [requests EXCEPT ![s] = q]}
      BY <2>1 DEF AskToken, Put, AnswerTo
    <3> HIDE DEF q, r
    <3> QED BY <1>1, <3>1, <3>3, <3>4
  <2>2. ASSUME NEW t \in {Null} \cup TokensOf(c), AskStatus(s, c, t)
        PROVE  <1>3!:
    <3> DEFINE q == Open(c, "status", Null, t)
    <3>1. q \in Request /\ OwnRequest(q)
      BY OpenOwn
    <3>2. requests' = [requests EXCEPT ![s] = q]
      BY <2>2 DEF AskStatus, Put
    <3> HIDE DEF q
    <3> QED BY <1>1, <3>1, <3>2
  <2> QED BY <2>1, <2>2
<1> QED BY <1>1, <1>2, <1>3, SessionsStay

LEMMA ReadTokenBodyKeeps ==
  ASSUME SessionIInv, NEW s \in Slots, ReadTokenBody(s)
  PROVE  SessionIInv'
<1> DEFINE u == requests[s].userId
           t == requests[s].statusToken
<1>1. /\ requests[s] # Null /\ requests[s].stage = "body" /\ requests[s] \in Request
      /\ t \in Tokens \cup {Null} /\ requests[s].conn \in Connections
  BY DEF ReadTokenBody, At, SessionIInv, SessionTypes, Request
<1>2. /\ statusTokens' \in [Tokens -> [userId : Users, expiresAt : Nat] \cup {Null}]
      /\ \A k \in Tokens : statusTokens'[k] \in {Null, statusTokens[k]}
  <2>1. CASE u = Null
    BY <2>1 DEF ReadTokenBody, SessionIInv, SessionTypes
  <2>2. CASE LookUp(t)
    BY <1>1, <2>2, LookedUp
  <2> QED BY <2>1, <2>2 DEF ReadTokenBody
<1>3. UNCHANGED <<clock, review, mintedFor>>
  BY DEF ReadTokenBody
<1>4. OwnRequest(requests[s])
  BY <1>1 DEF SessionIInv, SessionsKept
<1>5. CASE IsSessionOf(t, u) /\ Advance(s, "access token", u) /\ UNCHANGED firstFor
  <2>1. u # Null /\ UserOf(t) = u
    BY <1>5 DEF IsSessionOf
  <2>2. u \in Users /\ u \in 1..Len(firstFor) /\ firstFor[u] = requests[s].conn
    BY <1>1, <2>1, UserOfToken
  <2>3. /\ requests' \in [Slots -> Request \cup {Null}]
        /\ requests'[s].subject = u /\ requests'[s].conn = requests[s].conn
        /\ requests'[s].statusToken = t
        /\ requests'[s].stage = "access token" /\ requests'[s].reply = NoReply
        /\ \A r \in Slots : r # s => requests'[r] = requests[r]
    BY <1>1, <1>5, <2>2, AdvanceOwn
  <2>4. NoReply.user = Null /\ NoReply.token = Null
    BY DEF NoReply
  <2>5. OwnRequest(requests'[s])
    BY <1>4, <2>1, <2>2, <2>3, <2>4 DEF OwnRequest
  <2>6. clock' \in 0..ClockMax /\ review' \in [Users -> Reviews]
    BY <1>3 DEF SessionIInv, SessionTypes
  <2> QED BY <1>2, <1>3, <1>5, <2>3, <2>5, <2>6, SessionsStay
<1>6. CASE /\ Len(firstFor) < MaxUsers
           /\ firstFor' = Append(firstFor, requests[s].conn)
           /\ Advance(s, "access token", Len(firstFor) + 1)
  <2> DEFINE new == Len(firstFor) + 1
  <2>1. /\ firstFor \in Seq(Connections) /\ Len(firstFor) \in Nat /\ MaxUsers \in Nat
        /\ mintedFor \in Seq([user : Users, conn : Connections])
    BY KycAssumption DEF SessionIInv, SessionTypes
  <2>2. new \in Users
    <3>1. Len(firstFor) < MaxUsers
      BY <1>6
    <3> QED BY <2>1, <3>1 DEF Users
  <2>3. /\ firstFor' \in Seq(Connections) /\ Len(firstFor') = new /\ Len(firstFor') <= MaxUsers
        /\ \A k \in 1..Len(firstFor) : firstFor'[k] = firstFor[k]
        /\ firstFor'[new] = requests[s].conn
    <3>1. Len(firstFor) < MaxUsers /\ firstFor' = Append(firstFor, requests[s].conn)
      BY <1>6
    <3> QED BY <1>1, <2>1, <3>1
  <2>4. 1..Len(firstFor) \subseteq 1..Len(firstFor')
    BY <2>1, <2>3
  <2>5. /\ requests' \in [Slots -> Request \cup {Null}]
        /\ requests'[s].subject = new /\ requests'[s].conn = requests[s].conn
        /\ requests'[s].statusToken = t
        /\ requests'[s].stage = "access token" /\ requests'[s].reply = NoReply
        /\ \A r \in Slots : r # s => requests'[r] = requests[r]
    <3> HIDE DEF new
    <3> QED BY <1>1, <1>6, <2>2, AdvanceOwn DEF new
  <2> HIDE DEF new
  <2>6. SessionTypes'
    BY <1>2, <1>3, <2>3, <2>5 DEF SessionIInv, SessionTypes
  <2>7. ASSUME NEW r \in Slots, requests'[r] # Null
        PROVE  OwnRequest(requests[r])'
    <3>1. CASE r = s
      <4>1. NoReply.user = Null /\ NoReply.token = Null
        BY DEF NoReply
      <4>2. new \in 1..Len(firstFor')
        BY <2>1, <2>3 DEF new
      <4>3. t # Null => t \in TokensOf(requests[s].conn)'
        BY <1>3, <1>4, <2>5 DEF OwnRequest, TokensOf
      <4>4. new # Null
        BY <2>2, NullIsNothing
      <4> QED BY <2>3, <2>5, <3>1, <4>1, <4>2, <4>3, <4>4 DEF OwnRequest
    <3>2. CASE r # s
      <4>1. requests'[r] = requests[r] /\ OwnRequest(requests[r])
        BY <2>5, <2>7, <3>2 DEF SessionIInv, SessionsKept
      <4> QED BY <1>3, <2>3, <2>4, <4>1 DEF OwnRequest, TokensOf
    <3> QED BY <3>1, <3>2
  <2>8. SessionsKept'
    BY <1>2, <1>3, <2>3, <2>4, <2>7 DEF SessionIInv, SessionsKept
  <2> QED BY <2>6, <2>8 DEF SessionIInv
<1> QED BY <1>5, <1>6 DEF ReadTokenBody

LEMMA MintTokensKeeps ==
  ASSUME SessionIInv, NEW s \in Slots, MintTokens(s)
  PROVE  SessionIInv'
<1> DEFINE u == requests[s].subject
           new == Len(mintedFor) + 1
           entry == [userId |-> u, expiresAt |-> clock + Ttl]
<1>1. /\ requests[s] # Null /\ requests[s] \in Request /\ OwnRequest(requests[s])
      /\ requests[s].stage = "access token"
  BY DEF MintTokens, At, SessionIInv, SessionTypes, SessionsKept
<1>2. u \in Users /\ u \in 1..Len(firstFor) /\ firstFor[u] = requests[s].conn
  BY <1>1 DEF OwnRequest, Request
<1>3. /\ new \in Tokens
      /\ statusTokens' = [statusTokens EXCEPT ![new] = entry]
      /\ Answer(s, Minted(u, new))
      /\ UNCHANGED <<clock, review, firstFor>>
  BY DEF MintTokens, CreateStatusToken
<1>4. mintedFor' = Append(mintedFor, [user |-> u, conn |-> requests[s].conn])
  BY DEF MintTokens
<1>5. /\ mintedFor \in Seq([user : Users, conn : Connections]) /\ Len(mintedFor) \in Nat
      /\ statusTokens \in [Tokens -> [userId : Users, expiresAt : Nat] \cup {Null}]
      /\ clock \in Nat /\ Ttl \in Nat /\ MaxTokens \in Nat
  BY KycAssumption DEF SessionIInv, SessionTypes
<1> DEFINE item == [user |-> u, conn |-> requests[s].conn]
<1>6. item \in [user : Users, conn : Connections] /\ item.user = u /\ item.conn = requests[s].conn
  BY <1>1, <1>2 DEF Request
<1>7. entry \in [userId : Users, expiresAt : Nat] /\ entry.userId = u
  BY <1>2, <1>5
<1> HIDE DEF u, entry, item
<1>8. /\ mintedFor' \in Seq([user : Users, conn : Connections]) /\ Len(mintedFor') = new
      /\ \A k \in 1..Len(mintedFor) : mintedFor'[k] = mintedFor[k]
      /\ mintedFor'[new].user = u /\ mintedFor'[new].conn = requests[s].conn
  <2>1. mintedFor' = Append(mintedFor, item)
    BY <1>4 DEF item
  <2> QED BY <1>5, <1>6, <2>1
<1>9. /\ new <= MaxTokens /\ new \in Nat
      /\ \A k : k \in 1..new <=> k \in 1..Len(mintedFor) \/ k = new
  BY <1>3, <1>5 DEF Tokens
<1>10. /\ Minted(u, new) \in Reply /\ Minted(u, new).user = u /\ Minted(u, new).token = new
  BY <1>2, <1>3, ReplyTypes
<1> DEFINE r == AnswerTo(requests[s], Minted(u, new))
<1>11. /\ r \in Request
       /\ r.conn = requests[s].conn /\ r.subject = u /\ r.statusToken = requests[s].statusToken
       /\ r.stage = "answered" /\ r.reply = Minted(u, new)
  BY <1>1, <1>10, AnsweredRequest DEF u
<1>12. requests' = [requests EXCEPT ![s] = r]
  BY <1>3 DEF Answer, Put, AnswerTo
<1> HIDE DEF r, new
<1>13. requests' \in [Slots -> Request \cup {Null}] /\ requests'[s] = r
       /\ \A k \in Slots : k # s => requests'[k] = requests[k]
  BY <1>11, <1>12 DEF SessionIInv, SessionTypes
<1>14. statusTokens' \in [Tokens -> [userId : Users, expiresAt : Nat] \cup {Null}]
       /\ statusTokens'[new] = entry
       /\ \A k \in Tokens : k # new => statusTokens'[k] = statusTokens[k]
  BY <1>3, <1>5, <1>7
<1>15. SessionTypes'
  BY <1>3, <1>8, <1>9, <1>13, <1>14 DEF SessionIInv, SessionTypes
<1>16. \A c \in Connections : TokensOf(c) \subseteq TokensOf(c)'
  BY <1>8, <1>9 DEF TokensOf
<1>17. new \in TokensOf(requests[s].conn)'
  BY <1>8, <1>9, <1>11, <1>13 DEF TokensOf
<1>18. ASSUME NEW k \in Slots, requests'[k] # Null
       PROVE  OwnRequest(requests[k])'
  <2>1. CASE k = s
    <3>1. requests[s].conn \in Connections
      BY <1>1 DEF Request
    <3>2. u # Null
      BY <1>2, NullIsNothing
    <3> QED BY <1>1, <1>2, <1>3, <1>10, <1>11, <1>13, <1>16, <1>17, <2>1, <3>1, <3>2
            DEF OwnRequest
  <2>2. CASE k # s
    <3>1. requests'[k] = requests[k] /\ OwnRequest(requests[k]) /\ requests[k] \in Request
      BY <1>13, <1>18, <2>2 DEF SessionIInv, SessionsKept, SessionTypes
    <3>2. requests[k].conn \in Connections
      BY <3>1 DEF Request
    <3> QED BY <1>3, <1>16, <3>1, <3>2 DEF OwnRequest
  <2> QED BY <2>1, <2>2
<1>19. \A t \in 1..Len(mintedFor') :
         /\ mintedFor'[t].user \in 1..Len(firstFor)
         /\ firstFor[mintedFor'[t].user] = mintedFor'[t].conn
  BY <1>2, <1>8, <1>9 DEF SessionIInv, SessionsKept
<1>20. \A t \in Tokens : statusTokens'[t] # Null =>
         t \in 1..Len(mintedFor') /\ statusTokens'[t].userId = mintedFor'[t].user
  BY <1>7, <1>8, <1>9, <1>14 DEF SessionIInv, SessionsKept
<1>21. SessionsKept'
  BY <1>3, <1>18, <1>19, <1>20 DEF SessionsKept
<1> QED BY <1>15, <1>21 DEF SessionIInv

\* An answer that names no user id and no token.
LEMMA AnswersKeep ==
  ASSUME SessionIInv, NEW s \in Slots, requests[s] # Null,
         NEW reply \in Reply, Answer(s, reply), reply.user = Null, reply.token = Null,
         UNCHANGED <<clock, review, firstFor, mintedFor>>,
         statusTokens' \in [Tokens -> [userId : Users, expiresAt : Nat] \cup {Null}],
         \A t \in Tokens : statusTokens'[t] \in {Null, statusTokens[t]}
  PROVE  SessionIInv'
<1>1. /\ requests' \in [Slots -> Request \cup {Null}] /\ OwnRequest(requests'[s])
      /\ \A r \in Slots : r # s => requests'[r] = requests[r]
  BY AnswerOwn
<1>2. clock' \in 0..ClockMax /\ review' \in [Users -> Reviews]
  BY DEF SessionIInv, SessionTypes
<1> QED BY <1>1, <1>2, SessionsStay

\* A request that goes on for a user id of its client.
LEMMA AdvancesKeep ==
  ASSUME SessionIInv, NEW s \in Slots, requests[s] # Null, requests[s].stage # "answered",
         NEW to \in {"applicant", "credential"}, NEW u \in Users, Advance(s, to, u),
         to = "credential" => "GREEN" \in Answers,
         u \in 1..Len(firstFor), firstFor[u] = requests[s].conn,
         UNCHANGED <<clock, review, firstFor, mintedFor>>,
         statusTokens' \in [Tokens -> [userId : Users, expiresAt : Nat] \cup {Null}],
         \A t \in Tokens : statusTokens'[t] \in {Null, statusTokens[t]}
  PROVE  SessionIInv' /\ requests'[s].reply = NoReply
<1>1. /\ requests' \in [Slots -> Request \cup {Null}]
      /\ requests'[s].subject = u /\ requests'[s].conn = requests[s].conn
      /\ requests'[s].statusToken = requests[s].statusToken
      /\ requests'[s].stage = to /\ requests'[s].reply = NoReply
      /\ \A r \in Slots : r # s => requests'[r] = requests[r]
  BY AdvanceOwn
<1>2. NoReply.user = Null /\ NoReply.token = Null /\ u # Null
  BY NullIsNothing DEF NoReply
<1>3. OwnRequest(requests[s])
  BY DEF SessionIInv, SessionsKept
<1>4. OwnRequest(requests'[s])
  BY <1>1, <1>2, <1>3 DEF OwnRequest
<1>5. clock' \in 0..ClockMax /\ review' \in [Users -> Reviews]
  BY DEF SessionIInv, SessionTypes
<1> QED BY <1>1, <1>4, <1>5, SessionsStay

\* A request is served alone, and names no credential but an approved one.
Serves(s) ==
  /\ SessionIInv'
  /\ review' = review
  /\ requests'[s].conn = requests[s].conn
  /\ \A r \in Slots : r # s => requests'[r] = requests[r]
  /\ requests'[s].reply.credential # Null => review[requests'[s].reply.credential] = "GREEN"

LEMMA ServeKeeps ==
  ASSUME SessionIInv, NEW s \in Slots, Serve(s)
  PROVE  Serves(s)
<1>1. /\ requests[s] # Null /\ requests[s] \in Request /\ OwnRequest(requests[s])
      /\ requests \in [Slots -> Request \cup {Null}]
      /\ statusTokens \in [Tokens -> [userId : Users, expiresAt : Nat] \cup {Null}]
      /\ review \in [Users -> Reviews]
  BY DEF Serve, RefuseBody, ReadTokenBody, ReadStatusBody, MintTokens, GetApplicant, GetCredential,
     ProviderFails, At, SessionIInv, SessionTypes, SessionsKept
<1>2. NoReply.credential = Null
  BY DEF NoReply
<1>3. review' = review
  BY DEF Serve, RefuseBody, ReadTokenBody, ReadStatusBody, MintTokens, GetApplicant, GetCredential,
     ProviderFails
<1>4. ASSUME NEW reply \in Reply, Answer(s, reply), reply.user = Null, reply.token = Null,
             reply.credential # Null => review[reply.credential] = "GREEN",
             UNCHANGED <<clock, firstFor, mintedFor>>,
             statusTokens' \in [Tokens -> [userId : Users, expiresAt : Nat] \cup {Null}],
             \A t \in Tokens : statusTokens'[t] \in {Null, statusTokens[t]}
      PROVE  Serves(s)
  <2>1. SessionIInv'
    BY <1>1, <1>3, <1>4, AnswersKeep
  <2>2. /\ requests'[s].reply = reply /\ requests'[s].conn = requests[s].conn
        /\ \A r \in Slots : r # s => requests'[r] = requests[r]
    BY <1>1, <1>4, AnswerOwn
  <2> QED BY <1>3, <1>4, <2>1, <2>2 DEF Serves
<1>5. ASSUME NEW to \in {"applicant", "credential"}, NEW u \in Users, Advance(s, to, u),
             requests[s].stage # "answered", to = "credential" => "GREEN" \in Answers,
             u \in 1..Len(firstFor), firstFor[u] = requests[s].conn,
             UNCHANGED <<clock, firstFor, mintedFor>>,
             statusTokens' \in [Tokens -> [userId : Users, expiresAt : Nat] \cup {Null}],
             \A t \in Tokens : statusTokens'[t] \in {Null, statusTokens[t]}
      PROVE  Serves(s)
  <2>1. SessionIInv' /\ requests'[s].reply = NoReply
    BY <1>1, <1>3, <1>5, AdvancesKeep
  <2>2. /\ requests'[s].conn = requests[s].conn
        /\ \A r \in Slots : r # s => requests'[r] = requests[r]
    BY <1>1, <1>5, AdvanceOwn
  <2> QED BY <1>2, <1>3, <2>1, <2>2 DEF Serves
<1>6. ASSUME UNCHANGED statusTokens
      PROVE  /\ statusTokens' \in [Tokens -> [userId : Users, expiresAt : Nat] \cup {Null}]
             /\ \A t \in Tokens : statusTokens'[t] \in {Null, statusTokens[t]}
  BY <1>1, <1>6
<1>7. ASSUME NEW code \in {400, 401, 429, 500, 502}, Answer(s, Failed(code)),
             UNCHANGED <<clock, firstFor, mintedFor>>,
             statusTokens' \in [Tokens -> [userId : Users, expiresAt : Nat] \cup {Null}],
             \A t \in Tokens : statusTokens'[t] \in {Null, statusTokens[t]}
      PROVE  Serves(s)
  <2>1. /\ Failed(code) \in Reply
        /\ Failed(code).user = Null /\ Failed(code).token = Null /\ Failed(code).credential = Null
    BY ReplyTypes
  <2> QED BY <1>4, <1>7, <2>1
<1>8. ASSUME NEW x \in Answers \cup {Null}, NEW u \in Users \cup {Null}, Answer(s, Reported(x, u)),
             u # Null => review[u] = "GREEN", UNCHANGED <<clock, firstFor, mintedFor, statusTokens>>
      PROVE  Serves(s)
  <2>1. /\ Reported(x, u) \in Reply
        /\ Reported(x, u).user = Null /\ Reported(x, u).token = Null
        /\ Reported(x, u).credential = u
    BY ReplyTypes
  <2> QED BY <1>4, <1>6, <1>8, <2>1
<1>9. CASE RefuseBody(s)
  BY <1>6, <1>7, <1>9 DEF RefuseBody, histories
<1>10. CASE ReadTokenBody(s)
  <2>1. SessionIInv'
    BY <1>10, ReadTokenBodyKeeps
  <2>2. /\ requests[s].stage = "body"
        /\ \E u \in Users : Advance(s, "access token", u)
    <3>1. requests[s].stage = "body"
      BY <1>10 DEF ReadTokenBody, At
    <3>2. CASE /\ IsSessionOf(requests[s].statusToken, requests[s].userId)
               /\ Advance(s, "access token", requests[s].userId)
      <4>1. requests[s].userId \in Users
        BY <1>1, <3>2 DEF IsSessionOf, Request
      <4> QED BY <3>1, <3>2, <4>1
    <3>3. CASE Len(firstFor) < MaxUsers /\ Advance(s, "access token", Len(firstFor) + 1)
      <4>1. Len(firstFor) \in Nat /\ MaxUsers \in Nat
        BY KycAssumption DEF SessionIInv, SessionTypes
      <4>2. Len(firstFor) < MaxUsers
        BY <3>3
      <4>3. Len(firstFor) + 1 \in Users
        BY <4>1, <4>2 DEF Users
      <4> QED BY <3>1, <3>3, <4>3
    <3> QED BY <1>10, <3>1, <3>2, <3>3 DEF ReadTokenBody
  <2>3. PICK u \in Users : Advance(s, "access token", u)
    BY <2>2
  <2>4. /\ requests'[s].reply = NoReply /\ requests'[s].conn = requests[s].conn
        /\ \A r \in Slots : r # s => requests'[r] = requests[r]
    BY <1>1, <2>2, <2>3, AdvanceOwn
  <2> QED BY <1>2, <1>3, <2>1, <2>4 DEF Serves
<1>11. CASE ReadStatusBody(s)
  <2> DEFINE t == requests[s].statusToken
  <2>1. /\ requests[s].stage = "body" /\ UNCHANGED <<clock, firstFor, mintedFor>>
        /\ LookUp(t)
        /\ IF UserOf(t) = Null THEN Answer(s, Failed(401)) ELSE Advance(s, "applicant", UserOf(t))
    BY <1>11 DEF ReadStatusBody, At, histories
  <2>2. /\ statusTokens' \in [Tokens -> [userId : Users, expiresAt : Nat] \cup {Null}]
        /\ \A k \in Tokens : statusTokens'[k] \in {Null, statusTokens[k]}
    <3>1. t \in Tokens \cup {Null}
      BY <1>1 DEF Request
    <3> QED BY <2>1, <3>1, LookedUp
  <2>3. CASE UserOf(t) = Null
    BY <1>7, <2>1, <2>2, <2>3
  <2>4. CASE UserOf(t) # Null
    <3>1. /\ UserOf(t) \in Users /\ UserOf(t) \in 1..Len(firstFor)
          /\ firstFor[UserOf(t)] = requests[s].conn
      BY <1>1, <2>4, UserOfToken
    <3> QED BY <1>5, <2>1, <2>2, <2>4, <3>1
  <2> QED BY <2>3, <2>4
<1>12. ASSUME requests[s].stage \in {"access token", "applicant", "credential"}
       PROVE  /\ requests[s].subject \in Users /\ requests[s].subject \in 1..Len(firstFor)
              /\ firstFor[requests[s].subject] = requests[s].conn
  BY <1>1, <1>12 DEF OwnRequest, Request
<1>13. CASE MintTokens(s)
  <2>1. SessionIInv'
    BY <1>13, MintTokensKeeps
  <2> DEFINE u == requests[s].subject
             t == Len(mintedFor) + 1
  <2>2. requests[s].stage = "access token" /\ t \in Tokens /\ Answer(s, Minted(u, t))
    BY <1>13 DEF MintTokens, At
  <2>3. u \in Users /\ t \in Tokens
    BY <1>12, <2>2
  <2> HIDE DEF u, t
  <2>4. Minted(u, t) \in Reply /\ Minted(u, t).credential = Null
    BY <2>3, ReplyTypes
  <2>5. requests' = [requests EXCEPT ![s] = AnswerTo(requests[s], Minted(u, t))]
    BY <2>2 DEF Answer, Put, AnswerTo
  <2>6. /\ AnswerTo(requests[s], Minted(u, t)).reply = Minted(u, t)
        /\ AnswerTo(requests[s], Minted(u, t)).conn = requests[s].conn
    BY <1>1, <2>4, AnsweredRequest
  <2>7. /\ requests'[s].reply = Minted(u, t) /\ requests'[s].conn = requests[s].conn
        /\ \A r \in Slots : r # s => requests'[r] = requests[r]
    BY <1>1, <2>5, <2>6
  <2> QED BY <1>3, <2>1, <2>4, <2>7 DEF Serves
<1>14. CASE GetApplicant(s)
  <2> DEFINE u == requests[s].subject
  <2>1. /\ requests[s].stage = "applicant" /\ UNCHANGED <<clock, firstFor, mintedFor, statusTokens>>
    BY <1>14 DEF GetApplicant, At, histories
  <2>2. u \in Users /\ u \in 1..Len(firstFor) /\ firstFor[u] = requests[s].conn
    BY <1>12, <2>1
  <2>3. review[u] \in Answers \cup {"unknown"}
    BY <1>1, <2>2 DEF Reviews
  <2>4. CASE Answer(s, Reported(Null, Null))
    BY <1>8, <2>1, <2>4
  <2>5. CASE review[u] = "RED" /\ Answer(s, Reported("RED", Null))
    BY <1>8, <2>1, <2>3, <2>5
  <2>6. CASE review[u] = "GREEN" /\ Advance(s, "credential", u)
    BY <1>5, <1>6, <2>1, <2>2, <2>3, <2>6
  <2> QED BY <1>14, <2>4, <2>5, <2>6 DEF GetApplicant
<1>15. CASE GetCredential(s)
  <2> DEFINE u == requests[s].subject
  <2>1. /\ requests[s].stage = "credential" /\ UNCHANGED <<clock, firstFor, mintedFor, statusTokens>>
        /\ Answer(s, Reported("GREEN", VerifiedCredential(u)))
    BY <1>15 DEF GetCredential, At, histories
  <2>2. u \in Users /\ "GREEN" \in Answers
    BY <1>1, <1>12, <2>1 DEF OwnRequest
  <2>3. /\ VerifiedCredential(u) \in Users \cup {Null}
        /\ VerifiedCredential(u) # Null => review[VerifiedCredential(u)] = "GREEN"
    BY <2>2 DEF VerifiedCredential
  <2> QED BY <1>8, <2>1, <2>2, <2>3
<1>16. CASE ProviderFails(s)
  <2>1. UNCHANGED <<clock, firstFor, mintedFor, statusTokens>>
    BY <1>16 DEF ProviderFails, histories
  <2>2. \/ Answer(s, Failed(500)) \/ Answer(s, Failed(502)) \/ Answer(s, Reported(Null, Null))
    BY <1>16 DEF ProviderFails
  <2> QED BY <1>6, <1>7, <1>8, <2>1, <2>2
<1> QED BY <1>9, <1>10, <1>11, <1>13, <1>14, <1>15, <1>16 DEF Serve

\* A client that asks is told no credential yet, and the request is its own.
LEMMA AskTellsNothing ==
  ASSUME SessionIInv, NEW s \in Slots, NEW c \in Connections, NEW u, NEW t,
         AskToken(s, c, u, t) \/ AskStatus(s, c, t)
  PROVE  /\ \A r \in Slots : r # s => requests'[r] = requests[r]
         /\ requests'[s].reply.credential = Null /\ requests'[s].conn = c
<1>1. requests \in [Slots -> Request \cup {Null}]
  BY DEF SessionIInv, SessionTypes
<1>2. Failed(429).credential = Null /\ NoReply.credential = Null
  BY ReplyTypes DEF NoReply
<1>3. CASE AskToken(s, c, u, t)
  <2> DEFINE q == Open(c, "token", u, t)
             p == [q EXCEPT !.stage = "answered", !.reply = Failed(429)]
  <2>1. q.reply = NoReply /\ p.reply = Failed(429) /\ q.conn = c /\ p.conn = c
    BY DEF Open
  <2>2. requests' \in {[requests EXCEPT ![s] = p], [requests EXCEPT ![s] = q]}
    BY <1>3 DEF AskToken, Put
  <2> HIDE DEF p, q
  <2> QED BY <1>1, <1>2, <2>1, <2>2
<1>4. CASE AskStatus(s, c, t)
  <2> DEFINE q == Open(c, "status", Null, t)
  <2>1. q.reply = NoReply /\ q.conn = c
    BY DEF Open
  <2>2. requests' = [requests EXCEPT ![s] = q]
    BY <1>4 DEF AskStatus, Put
  <2> HIDE DEF q
  <2> QED BY <1>1, <1>2, <2>1, <2>2
<1> QED BY <1>3, <1>4

\* After a restart the open requests fail and no session is left.
LEMMA RestartKeeps ==
  ASSUME SessionIInv, Restart
  PROVE  /\ SessionIInv'
         /\ \A s \in Slots : requests'[s] = requests[s] \/ requests'[s].reply.credential = Null
         /\ \A s \in Slots : requests'[s] = requests[s] \/ requests'[s].conn = requests[s].conn
<1>1. /\ requests \in [Slots -> Request \cup {Null}]
      /\ \A s \in Slots : requests[s] # Null => OwnRequest(requests[s])
  BY DEF SessionIInv, SessionTypes, SessionsKept
<1>2. /\ Failed(500) \in Reply /\ Failed(500).user = Null /\ Failed(500).token = Null
      /\ Failed(500).credential = Null
  BY ReplyTypes
<1>3. requests' = [s \in Slots |->
        IF requests[s] = Null \/ requests[s].stage = "answered" THEN requests[s]
        ELSE AnswerTo(requests[s], Failed(500))]
  BY DEF Restart, AnswerTo
<1>4. ASSUME NEW s \in Slots, requests[s] # Null
      PROVE  LET r == AnswerTo(requests[s], Failed(500)) IN
             r \in Request /\ OwnRequest(r) /\ r.reply.credential = Null /\ r.conn = requests[s].conn
  <2> DEFINE r == AnswerTo(requests[s], Failed(500))
  <2>1. requests[s] \in Request /\ OwnRequest(requests[s])
    BY <1>1, <1>4
  <2>2. /\ r \in Request
        /\ r.conn = requests[s].conn /\ r.subject = requests[s].subject
        /\ r.statusToken = requests[s].statusToken
        /\ r.stage = "answered" /\ r.reply = Failed(500)
    BY <1>2, <2>1, AnsweredRequest
  <2> DEFINE q == requests[s]
  <2> HIDE DEF r, q
  <2>3. OwnRequest(r)
    <3>1. r.reply.user = Null /\ r.reply.token = Null
      BY <1>2, <2>2
    <3>2. /\ OwnRequest(q) /\ r.conn = q.conn /\ r.subject = q.subject
          /\ r.statusToken = q.statusToken /\ r.stage = "answered"
      BY <2>1, <2>2 DEF q
    <3> QED BY <3>1, <3>2 DEF OwnRequest
  <2>4. r.reply.credential = Null
    BY <1>2, <2>2
  <2> QED BY <2>2, <2>3, <2>4 DEF r
<1>5. requests' \in [Slots -> Request \cup {Null}]
  BY <1>1, <1>3, <1>4
<1>6. \A s \in Slots : requests'[s] \in {Null, requests[s]} \/ OwnRequest(requests'[s])
  BY <1>3, <1>4
<1>7. \A s \in Slots : \/ requests'[s] = requests[s]
                       \/ requests'[s].reply.credential = Null /\ requests'[s].conn = requests[s].conn
  BY <1>3, <1>4
<1>8. /\ UNCHANGED <<firstFor, mintedFor, clock, review>>
      /\ statusTokens' \in [Tokens -> [userId : Users, expiresAt : Nat] \cup {Null}]
      /\ \A t \in Tokens : statusTokens'[t] \in {Null, statusTokens[t]}
  BY DEF Restart
<1>9. clock' \in 0..ClockMax /\ review' \in [Users -> Reviews]
  BY <1>8 DEF SessionIInv, SessionTypes
<1> QED BY <1>5, <1>6, <1>7, <1>8, <1>9, SessionsStay

\* The steps of time, the timer, the provider and the reading clients.
LEMMA QuietKeeps ==
  ASSUME SessionIInv,
         \/ Sweep \/ KycTick \/ (\E u \in Users, answer \in Answers : Review(u, answer))
         \/ (\E s \in Slots : Close(s)) \/ UNCHANGED backendVars
  PROVE  SessionIInv' /\ \A s \in Slots : requests'[s] \in {Null, requests[s]}
<1>1. /\ requests \in [Slots -> Request \cup {Null}] /\ clock \in 0..ClockMax
      /\ review \in [Users -> Reviews]
      /\ statusTokens \in [Tokens -> [userId : Users, expiresAt : Nat] \cup {Null}]
  BY DEF SessionIInv, SessionTypes
<1>2. UNCHANGED <<firstFor, mintedFor>>
  BY DEF Sweep, KycTick, Review, Close, backendVars, histories
<1>3. /\ requests' \in [Slots -> Request \cup {Null}]
      /\ \A s \in Slots : requests'[s] \in {Null, requests[s]}
  BY <1>1 DEF Sweep, KycTick, Review, Close, backendVars
<1>4. /\ statusTokens' \in [Tokens -> [userId : Users, expiresAt : Nat] \cup {Null}]
      /\ \A t \in Tokens : statusTokens'[t] \in {Null, statusTokens[t]}
  <2>1. CASE Sweep
    BY <1>1, <2>1 DEF Sweep
  <2>2. CASE UNCHANGED statusTokens
    BY <1>1, <2>2
  <2> QED BY <2>1, <2>2 DEF KycTick, Review, Close, backendVars
<1>5. clock' \in 0..ClockMax
  BY <1>1, KycAssumption DEF Sweep, KycTick, Review, Close, backendVars
<1>6. review' \in [Users -> Reviews]
  BY <1>1 DEF Sweep, KycTick, Review, Close, backendVars, Reviews
<1> QED BY <1>2, <1>3, <1>4, <1>5, <1>6, SessionsStay

LEMMA InitialSessions ==
  ASSUME BackendInit
  PROVE  SessionIInv
<1>1. firstFor \in Seq(Connections) /\ mintedFor \in Seq([user : Users, conn : Connections])
      /\ Len(firstFor) = 0 /\ Len(mintedFor) = 0
  BY DEF BackendInit
<1>2. SessionTypes
  BY <1>1, KycAssumption DEF BackendInit, SessionTypes, Reviews
<1>3. SessionsKept
  BY <1>1 DEF BackendInit, SessionsKept
<1> QED BY <1>2, <1>3 DEF SessionIInv

\* A reply is new, or as it was, or names nobody who is not approved.
TellsTheApproved ==
  \A s \in Slots :
    \/ requests'[s] \in {Null, requests[s]}
    \/ requests'[s].reply.credential = Null
    \/ review[requests'[s].reply.credential] = "GREEN"

LEMMA SessionStep ==
  ASSUME SessionIInv, [ClientsNext]_backendVars
  PROVE  SessionIInv' /\ TellsTheApproved
<1>1. ASSUME NEW s \in Slots, Serve(s)
      PROVE  SessionIInv' /\ TellsTheApproved
  BY <1>1, ServeKeeps DEF Serves, TellsTheApproved
<1>2. ASSUME NEW s \in Slots, NEW c \in Connections, Ask(s, c)
      PROVE  SessionIInv' /\ TellsTheApproved
  <2>1. 1..Len(firstFor) \subseteq Users
    BY KycAssumption DEF SessionIInv, SessionTypes, Users
  <2>2. SessionIInv'
    BY <1>2, <2>1, AskKeeps DEF Ask
  <2>3. \E u, t : AskToken(s, c, u, t) \/ AskStatus(s, c, t)
    BY <1>2 DEF Ask
  <2>4. /\ \A r \in Slots : r # s => requests'[r] = requests[r]
        /\ requests'[s].reply.credential = Null
    BY <2>3, AskTellsNothing
  <2> QED BY <2>2, <2>4 DEF TellsTheApproved
<1>3. CASE Restart
  BY <1>3, RestartKeeps DEF TellsTheApproved
<1>4. CASE \/ Sweep \/ KycTick \/ (\E u \in Users, answer \in Answers : Review(u, answer))
           \/ (\E s \in Slots : Close(s)) \/ UNCHANGED backendVars
  BY <1>4, QuietKeeps DEF TellsTheApproved
<1> QED BY <1>1, <1>2, <1>3, <1>4 DEF ClientsNext

(* Whatever clients send, a reply about a user id goes to the client for   *)
(* whom that user id was made.                                             *)
THEOREM SessionsAreSeparate == ClientsSpec => []RepliesStayInSession
<1>1. BackendInit => SessionIInv
  BY InitialSessions
<1>2. SessionIInv /\ [ClientsNext]_backendVars => SessionIInv'
  BY SessionStep
<1>3. SessionIInv => RepliesStayInSession
  BY DEF SessionIInv, SessionsKept, OwnRequest, RepliesStayInSession
<1> QED BY <1>1, <1>2, <1>3, PTL DEF ClientsSpec

(* No credential is handed out of one who is not approved when it is read. *)
THEOREM CredentialsAreCurrent == ClientsSpec => CredentialIsCurrent
<1>1. BackendInit => SessionIInv
  BY InitialSessions
<1>2. SessionIInv /\ [ClientsNext]_backendVars => SessionIInv'
  BY SessionStep
<1>3. SessionIInv /\ [ClientsNext]_backendVars =>
        [\A s \in Slots :
           requests'[s] # Null /\ requests'[s].reply.credential # Null /\ requests[s] # requests'[s]
             => review[requests'[s].reply.credential] = "GREEN"]_backendVars
  BY SessionStep DEF TellsTheApproved
<1> QED BY <1>1, <1>2, <1>3, PTL DEF ClientsSpec, CredentialIsCurrent

-----------------------------------------------------------------------------
(* The page of the KYC flow is one of the clients.                         *)

\* What the page holds was made for it.
PageInv ==
  /\ SessionIInv
  /\ \A s \in Slots : requests[s] # Null => requests[s].conn = Page
  /\ userId # Null => userId \in 1..Len(firstFor)
  /\ statusToken # Null => statusToken \in TokensOf(Page)

LEMMA PageAsks ==
  ASSUME PageInv, [PageNext]_kycVars
  PROVE  \/ \E s \in Slots : Ask(s, Page) /\ UNCHANGED <<userId, statusToken>>
         \/ \E s \in Slots : Serve(s) /\ UNCHANGED <<userId, statusToken>>
         \/ Restart /\ UNCHANGED <<userId, statusToken>>
         \/ /\ \/ Sweep \/ KycTick \/ (\E u \in Users, answer \in Answers : Review(u, answer))
               \/ (\E s \in Slots : Close(s)) \/ UNCHANGED backendVars
            /\ UNCHANGED <<userId, statusToken>>
         \/ \E s \in Slots :
              /\ Close(s) /\ userId' \in {userId, requests[s].reply.user}
              /\ statusToken' = requests[s].reply.token
<1>1. CASE UNCHANGED kycVars \/ LoadSdk
  BY <1>1 DEF kycVars, pageVars, LoadSdk
<1>2. ASSUME NEW s \in Slots, Start(s) \/ Refresh(s) \/ PollByTimer(s) \/ PollByWidget(s)
      PROVE  Ask(s, Page) /\ UNCHANGED <<userId, statusToken>>
  BY <1>2 DEF Start, Refresh, PollByTimer, PollByWidget, pageVars, Ask, PageInv
<1>3. ASSUME NEW s \in Slots, Launch(s) \/ Renew(s)
      PROVE  /\ Close(s) /\ userId' \in {userId, requests[s].reply.user}
             /\ statusToken' = requests[s].reply.token
  BY <1>3 DEF Launch, Renew, Answered, At, Closed, Close
<1>4. ASSUME NEW s \in Slots, ShowStatus(s) \/ Fail(s)
      PROVE  Close(s) /\ UNCHANGED <<userId, statusToken>>
  BY <1>4 DEF ShowStatus, Fail, Answered, At, Closed, Close
<1>5. CASE \/ \E s \in Slots : Serve(s) /\ UNCHANGED pageVars
           \/ \E u \in Users, answer \in Answers : Review(u, answer) /\ UNCHANGED pageVars
           \/ (Restart \/ Sweep \/ KycTick) /\ UNCHANGED pageVars
  BY <1>5 DEF pageVars
<1> QED BY <1>1, <1>2, <1>3, <1>4, <1>5 DEF PageNext, Arrive

\* Nothing that was made is forgotten by the histories.
LEMMA BooksGrow ==
  ASSUME SessionIInv, [ClientsNext]_backendVars
  PROVE  /\ 1..Len(firstFor) \subseteq 1..Len(firstFor')
         /\ \A c \in Connections : TokensOf(c) \subseteq TokensOf(c)'
<1>1. firstFor \in Seq(Connections) /\ mintedFor \in Seq([user : Users, conn : Connections])
  BY DEF SessionIInv, SessionTypes
<1>2. CASE UNCHANGED <<firstFor, mintedFor>>
  BY <1>2 DEF TokensOf
<1>3. ASSUME NEW s \in Slots, ReadTokenBody(s)
      PROVE  /\ 1..Len(firstFor) \subseteq 1..Len(firstFor')
             /\ mintedFor' = mintedFor
  <2>1. /\ mintedFor' = mintedFor
        /\ firstFor' = firstFor \/ firstFor' = Append(firstFor, requests[s].conn)
    BY <1>3 DEF ReadTokenBody
  <2>2. Len(firstFor') = Len(firstFor) \/ Len(firstFor') = Len(firstFor) + 1
    BY <1>1, <2>1
  <2> QED BY <1>1, <2>1, <2>2
<1>4. ASSUME NEW s \in Slots, MintTokens(s)
      PROVE  /\ firstFor' = firstFor
             /\ \A c \in Connections : TokensOf(c) \subseteq TokensOf(c)'
  <2> DEFINE item == [user |-> requests[s].subject, conn |-> requests[s].conn]
  <2>1. firstFor' = firstFor /\ mintedFor' = Append(mintedFor, item)
    BY <1>4 DEF MintTokens
  <2> HIDE DEF item
  <2>2. /\ Len(mintedFor') = Len(mintedFor) + 1
        /\ \A k \in 1..Len(mintedFor) : k \in 1..Len(mintedFor') /\ mintedFor'[k] = mintedFor[k]
    BY <1>1, <2>1
  <2> QED BY <2>1, <2>2 DEF TokensOf
<1>5. CASE \E s \in Slots : Serve(s)
  BY <1>2, <1>3, <1>4, <1>5 DEF Serve, RefuseBody, ReadStatusBody, GetApplicant, GetCredential,
     ProviderFails, histories, TokensOf
<1>6. CASE \E s \in Slots, c \in Connections : Ask(s, c)
  BY <1>2, <1>6 DEF Ask, AskToken, AskStatus, histories
<1>7. CASE \/ Restart \/ Sweep \/ KycTick \/ (\E u \in Users, answer \in Answers : Review(u, answer))
           \/ (\E s \in Slots : Close(s)) \/ UNCHANGED backendVars
  BY <1>2, <1>7 DEF Restart, Sweep, KycTick, Review, Close, backendVars, histories
<1> QED BY <1>5, <1>6, <1>7 DEF ClientsNext

LEMMA PageStep ==
  ASSUME PageInv, [PageNext]_kycVars
  PROVE  PageInv' /\ [ClientsNext]_backendVars
<1>1. [ClientsNext]_backendVars
  BY PageAsks, PageAssumption DEF ClientsNext
<1>2. SessionIInv /\ SessionIInv'
  BY <1>1, SessionStep DEF PageInv
<1>3. /\ 1..Len(firstFor) \subseteq 1..Len(firstFor')
      /\ TokensOf(Page) \subseteq TokensOf(Page)'
  BY <1>1, <1>2, BooksGrow, PageAssumption
<1>4. ASSUME UNCHANGED <<userId, statusToken>>
      PROVE  /\ userId' # Null => userId' \in 1..Len(firstFor')
             /\ statusToken' # Null => statusToken' \in TokensOf(Page)'
  BY <1>3, <1>4 DEF PageInv
<1>5. ASSUME NEW s \in Slots, Close(s), userId' \in {userId, requests[s].reply.user},
             statusToken' = requests[s].reply.token
      PROVE  /\ userId' # Null => userId' \in 1..Len(firstFor')
             /\ statusToken' # Null => statusToken' \in TokensOf(Page)'
  <2>1. OwnRequest(requests[s]) /\ requests[s].conn = Page
    BY <1>5 DEF Close, PageInv, SessionIInv, SessionsKept
  <2> QED BY <1>3, <1>5, <2>1 DEF OwnRequest, PageInv
<1>6. /\ userId' # Null => userId' \in 1..Len(firstFor')
      /\ statusToken' # Null => statusToken' \in TokensOf(Page)'
  BY <1>4, <1>5, PageAsks
<1>7. ASSUME NEW s \in Slots, requests'[s] # Null
      PROVE  requests'[s].conn = Page
  <2>1. CASE requests'[s] = requests[s]
    BY <1>7, <2>1 DEF PageInv
  <2>2. ASSUME NEW r \in Slots, Ask(r, Page)
        PROVE  requests'[s].conn = Page
    <3>1. \E u, t : AskToken(r, Page, u, t) \/ AskStatus(r, Page, t)
      BY <2>2 DEF Ask
    <3>2. /\ \A k \in Slots : k # r => requests'[k] = requests[k]
          /\ requests'[r].conn = Page
      BY <1>2, <3>1, AskTellsNothing, PageAssumption
    <3> QED BY <2>1, <3>2
  <2>3. ASSUME NEW r \in Slots, Serve(r)
        PROVE  requests'[s].conn = Page
    <3>1. /\ requests'[r].conn = requests[r].conn
          /\ \A k \in Slots : k # r => requests'[k] = requests[k]
      BY <1>2, <2>3, ServeKeeps DEF Serves
    <3>2. requests[r] # Null
      BY <2>3 DEF Serve, RefuseBody, ReadTokenBody, ReadStatusBody, MintTokens, GetApplicant,
         GetCredential, ProviderFails, At
    <3> QED BY <2>1, <3>1, <3>2 DEF PageInv
  <2>4. CASE Restart
    <3>1. requests[s] # Null
      BY <1>7, <2>4 DEF Restart
    <3> QED BY <1>2, <2>1, <2>4, <3>1, RestartKeeps DEF PageInv
  <2>5. CASE \/ Sweep \/ KycTick \/ (\E u \in Users, answer \in Answers : Review(u, answer))
             \/ (\E r \in Slots : Close(r)) \/ UNCHANGED backendVars
    BY <1>2, <1>7, <2>1, <2>5, QuietKeeps
  <2> QED BY <2>2, <2>3, <2>4, <2>5, PageAsks
<1> QED BY <1>1, <1>2, <1>6, <1>7 DEF PageInv

(* The page of a visitor asks nothing that a client could not ask: what    *)
(* is shown of the backend and all clients holds of the page's sessions,   *)
(* refreshed and polled as the page does it.                               *)
THEOREM PageIsAClient == PageSpec => ClientsSpec
<1>1. PageInit => PageInv /\ BackendInit
  BY InitialSessions DEF PageInit, PageInv, BackendInit
<1>2. PageInv /\ [PageNext]_kycVars => PageInv' /\ [ClientsNext]_backendVars
  BY PageStep
<1> QED BY <1>1, <1>2, PTL DEF PageSpec, ClientsSpec

-----------------------------------------------------------------------------
(* The rate limit.                                                         *)

\* Hits are in the order of time, and none is later than c.
InOrder(h, c) ==
  /\ \A j, k \in 1..Len(h) : j <= k => h[j] <= h[k]
  /\ \A k \in 1..Len(h) : h[k] <= c

\* The hits the limiter has of an address are the end of those it admitted,
\* the others are out of every window from now on, and MaxPerIp admissions
\* take a window at least.
RateOf(A, H, c) ==
  /\ InOrder(A, c)
  /\ Len(H) <= Len(A)
  /\ \A k \in 1..Len(H) : H[k] = A[Len(A) - Len(H) + k]
  /\ \A k \in 1..(Len(A) - Len(H)) : A[k] + Window <= c
  /\ \A k \in 1..(Len(A) - MaxPerIp) : A[k] + Window <= A[k + MaxPerIp]

LEMMA SmallestOf ==
  ASSUME NEW T, T \subseteq Nat, T # {}
  PROVE  \E n \in T : \A k \in T : n <= k
<1> DEFINE R == {ss \in Nat \X Nat : ss[1] < ss[2]}
<1>1. IsWellFoundedOn(R, Nat)
  BY NatLessThanWellFounded DEF OpToRel
<1>2. PICK n \in T : \A k \in T : <<k, n>> \notin R
  <2> HIDE DEF R
  <2> QED BY <1>1, WFMin
<1>3. \A k \in T : n <= k
  <2> SUFFICES ASSUME NEW k \in T  PROVE n <= k
    OBVIOUS
  <2>1. k \in Nat /\ n \in Nat
    OBVIOUS
  <2>2. ~ (k < n)
    BY <1>2, <2>1
  <2> QED BY <2>1, <2>2
<1> QED BY <1>3

IsKept(h, c, g) ==
  g = [n \in 0..Len(h) |->
        IF n = 0 THEN <<>>
        ELSE IF c - h[n] < Window THEN Append(g[n - 1], h[n]) ELSE g[n - 1]]

LEMMA RecentIsKept ==
  ASSUME NEW h
  PROVE  Recent(h) = (CHOOSE g : IsKept(h, clock, g))[Len(h)]
BY DEF Recent, IsKept

\* What is kept of hits in order is the end of them.
LEMMA KeptTail ==
  ASSUME NEW h \in Seq(Nat), NEW c \in Nat, InOrder(h, c)
  PROVE  \E m \in 0..Len(h) :
           /\ \A k \in 1..m : h[k] + Window <= c
           /\ \A k \in (m + 1)..Len(h) : c - h[k] < Window
<1>1. Len(h) \in Nat /\ \A k \in 1..Len(h) : h[k] \in Nat
  OBVIOUS
<1>2. Window \in Nat
  BY KycAssumption
<1> DEFINE R == {k \in 1..Len(h) : c - h[k] < Window}
<1>3. CASE R = {}
  <2>1. \A k \in 1..Len(h) : h[k] + Window <= c
    BY <1>1, <1>2, <1>3
  <2> QED BY <1>1, <2>1
<1>4. CASE R # {}
  <2>1. R \subseteq Nat
    OBVIOUS
  <2>2. PICK n \in R : \A k \in R : n <= k
    <3> HIDE DEF R
    <3> QED BY <1>4, <2>1, SmallestOf
  <2>3. n \in 1..Len(h) /\ c - h[n] < Window
    BY <2>2
  <2>4. n - 1 \in 0..Len(h)
    BY <1>1, <2>3
  <2>5. ASSUME NEW k \in 1..(n - 1)
        PROVE  h[k] + Window <= c
    <3>1. k \in 1..Len(h) /\ ~ (n <= k)
      BY <1>1, <2>3
    <3>2. ~ (c - h[k] < Window)
      BY <2>2, <3>1
    <3> QED BY <1>1, <1>2, <3>1, <3>2
  <2>6. ASSUME NEW k \in n..Len(h)
        PROVE  c - h[k] < Window
    <3>1. k \in 1..Len(h) /\ n <= k
      BY <1>1, <2>3
    <3>2. h[n] <= h[k]
      BY <2>3, <3>1 DEF InOrder
    <3> QED BY <1>1, <1>2, <2>3, <3>1, <3>2
  <2>7. (n - 1) + 1 = n
    BY <2>3
  <2> QED BY <2>4, <2>5, <2>6, <2>7
<1> QED BY <1>3, <1>4

LEMMA Slice ==
  ASSUME NEW h \in Seq(Nat), NEW x \in Nat, NEW y \in Nat, 1 <= x, x <= y + 1, y <= Len(h)
  PROVE  /\ SubSeq(h, x, y) \in Seq(Nat) /\ Len(SubSeq(h, x, y)) = y - x + 1
         /\ \A i \in 1..(y - x + 1) : SubSeq(h, x, y)[i] = h[x + i - 1]
<1>1. \A i \in x..y : h[i] \in Nat
  OBVIOUS
<1>2. x \in Int /\ y \in Int
  OBVIOUS
<1>3. /\ SubSeq(h, x, y) \in Seq(Nat)
      /\ Len(SubSeq(h, x, y)) = IF x <= y THEN y - x + 1 ELSE 0
      /\ \A i \in 1..(y - x + 1) : SubSeq(h, x, y)[i] = h[x + i - 1]
  BY ONLY <1>1, <1>2, SubSeqProperties
<1>4. x <= y \/ y - x + 1 = 0
  OBVIOUS
<1> QED BY <1>3, <1>4

LEMMA EndGrows ==
  ASSUME NEW h \in Seq(Nat), NEW m \in Nat, NEW n \in Nat, m < n, n <= Len(h)
  PROVE  SubSeq(h, m + 1, n) = Append(SubSeq(h, m + 1, n - 1), h[n])
<1> DEFINE a == SubSeq(h, m + 1, n)
           b == SubSeq(h, m + 1, n - 1)
           e == Append(b, h[n])
<1>1. Len(h) \in Nat /\ \A i \in 1..Len(h) : h[i] \in Nat
  OBVIOUS
<1>2. /\ a \in Seq(Nat) /\ Len(a) = n - m
      /\ \A i \in 1..(n - m) : a[i] = h[m + i]
  <2>1. m + 1 \in Nat /\ 1 <= m + 1 /\ m + 1 <= n + 1
    OBVIOUS
  <2>2. /\ a \in Seq(Nat) /\ Len(a) = n - (m + 1) + 1
        /\ \A i \in 1..(n - (m + 1) + 1) : a[i] = h[(m + 1) + i - 1]
    BY <2>1, Slice
  <2> HIDE DEF a
  <2>3. n - (m + 1) + 1 = n - m /\ \A i \in 1..(n - m) : (m + 1) + i - 1 = m + i
    OBVIOUS
  <2> QED BY <2>2, <2>3
<1>3. /\ b \in Seq(Nat) /\ Len(b) = n - m - 1
      /\ \A i \in 1..(n - m - 1) : b[i] = h[m + i]
  <2>1. m + 1 \in Nat /\ n - 1 \in Nat /\ 1 <= m + 1 /\ m + 1 <= (n - 1) + 1 /\ n - 1 <= Len(h)
    BY <1>1
  <2>2. /\ b \in Seq(Nat) /\ Len(b) = (n - 1) - (m + 1) + 1
        /\ \A i \in 1..((n - 1) - (m + 1) + 1) : b[i] = h[(m + 1) + i - 1]
    BY <2>1, Slice
  <2> HIDE DEF b
  <2>3. (n - 1) - (m + 1) + 1 = n - m - 1 /\ \A i \in 1..(n - m - 1) : (m + 1) + i - 1 = m + i
    OBVIOUS
  <2> QED BY <2>2, <2>3
<1>4. h[n] \in Nat
  BY <1>1
<1> HIDE DEF a, b
<1>5. /\ e \in Seq(Nat) /\ Len(e) = Len(b) + 1
      /\ \A i \in 1..Len(b) : e[i] = b[i]
      /\ e[Len(b) + 1] = h[n]
  BY <1>3, <1>4, AppendProperties
<1> HIDE DEF e
<1>6. Len(e) = Len(a)
  BY <1>2, <1>3, <1>5
<1>7. \A i \in 1..Len(a) : a[i] = e[i]
  <2> SUFFICES ASSUME NEW i \in 1..(n - m)  PROVE a[i] = e[i]
    BY <1>2
  <2>1. a[i] = h[m + i]
    BY <1>2
  <2>2. CASE i = n - m
    <3>1. m + i = n /\ i = Len(b) + 1
      BY <1>3, <2>2
    <3> QED BY <1>5, <2>1, <3>1
  <2>3. CASE i # n - m
    <3>1. i \in 1..(n - m - 1)
      BY <2>3
    <3> QED BY <1>3, <1>5, <2>1, <3>1
  <2> QED BY <2>2, <2>3
<1>8. a = e
  BY <1>2, <1>5, <1>6, <1>7, SeqEqual
<1> QED BY <1>8 DEF a, e, b

LEMMA KeptExists ==
  ASSUME NEW h \in Seq(Nat), NEW c \in Nat, NEW m \in 0..Len(h),
         \A k \in 1..m : h[k] + Window <= c,
         \A k \in (m + 1)..Len(h) : c - h[k] < Window
  PROVE  IsKept(h, c, [n \in 0..Len(h) |-> SubSeq(h, m + 1, n)])
<1> DEFINE g == [n \in 0..Len(h) |-> SubSeq(h, m + 1, n)]
           f == [n \in 0..Len(h) |->
                  IF n = 0 THEN <<>>
                  ELSE IF c - h[n] < Window THEN Append(g[n - 1], h[n]) ELSE g[n - 1]]
<1>1. Len(h) \in Nat /\ \A k \in 1..Len(h) : h[k] \in Nat
  OBVIOUS
<1>2. Window \in Nat
  BY KycAssumption
<1>3. ASSUME NEW n \in 0..Len(h)
      PROVE  g[n] = f[n]
  <2>1. \A k \in Int : k < m + 1 => SubSeq(h, m + 1, k) = <<>>
    <3>1. m + 1 \in Int
      BY <1>1
    <3> QED BY <3>1, SubSeqEmpty
  <2>2. CASE n = 0
    BY <1>1, <2>1, <2>2
  <2>3. CASE n # 0 /\ n <= m
    <3>1. ~ (c - h[n] < Window)
      <4>1. n \in 1..m /\ n \in 1..Len(h)
        BY <1>1, <2>3
      <4> QED BY <1>1, <1>2, <4>1
    <3>2. n - 1 \in 0..Len(h) /\ n - 1 < m + 1 /\ n < m + 1 /\ n \in Int /\ n - 1 \in Int
      BY <1>1, <2>3
    <3>3. g[n] = <<>> /\ g[n - 1] = <<>>
      BY <2>1, <3>2
    <3> QED BY <2>3, <3>1, <3>3
  <2>4. CASE n > m
    <3>1. c - h[n] < Window /\ n # 0
      BY <1>1, <2>4
    <3>2. n - 1 \in 0..Len(h) /\ m \in Nat /\ n \in Nat /\ m < n /\ n <= Len(h)
      BY <1>1, <2>4
    <3>3. g[n] = Append(g[n - 1], h[n])
      BY <3>2, EndGrows
    <3> QED BY <3>1, <3>3
  <2>5. n = 0 \/ (n # 0 /\ n <= m) \/ n > m
    BY <1>1
  <2> HIDE DEF f, g
  <2> QED BY <2>2, <2>3, <2>4, <2>5
<1>4. g = f
  <2> HIDE DEF g
  <2>1. g = [n \in 0..Len(h) |-> g[n]]
    BY DEF g
  <2>2. \A n \in 0..Len(h) : g[n] = f[n]
    BY <1>3
  <2>3. f = [n \in 0..Len(h) |-> f[n]]
    OBVIOUS
  <2> HIDE DEF f
  <2> QED BY <2>1, <2>2, <2>3
<1> QED BY <1>4 DEF IsKept

LEMMA KeptUnique ==
  ASSUME NEW h \in Seq(Nat), NEW c \in Nat, NEW f, NEW g, IsKept(h, c, f), IsKept(h, c, g)
  PROVE  f[Len(h)] = g[Len(h)]
<1>1. Len(h) \in Nat
  OBVIOUS
<1> DEFINE Bad == {n \in 0..Len(h) : f[n] # g[n]}
<1>2. \A n \in 0..Len(h) :
        /\ f[n] = IF n = 0 THEN <<>>
                  ELSE IF c - h[n] < Window THEN Append(f[n - 1], h[n]) ELSE f[n - 1]
        /\ g[n] = IF n = 0 THEN <<>>
                  ELSE IF c - h[n] < Window THEN Append(g[n - 1], h[n]) ELSE g[n - 1]
  BY DEF IsKept
<1>3. CASE Bad # {}
  <2>1. PICK n \in Bad : \A k \in Bad : n <= k
    <3>1. Bad \subseteq Nat
      OBVIOUS
    <3> HIDE DEF Bad
    <3> QED BY <1>3, <3>1, SmallestOf
  <2>2. n \in 0..Len(h) /\ f[n] # g[n]
    BY <2>1
  <2>3. n # 0
    BY <1>2, <2>2
  <2>4. n - 1 \in 0..Len(h) /\ ~ (n <= n - 1)
    BY <1>1, <2>2, <2>3
  <2>5. f[n - 1] = g[n - 1]
    BY <2>1, <2>4
  <2> QED BY <1>2, <2>2, <2>3, <2>5
<1>4. CASE Bad = {}
  BY <1>1, <1>4
<1> QED BY <1>3, <1>4

LEMMA RecentIsEnd ==
  ASSUME NEW h \in Seq(Nat), clock \in Nat, InOrder(h, clock)
  PROVE  \E m \in 0..Len(h) :
           /\ \A k \in 1..m : h[k] + Window <= clock
           /\ Recent(h) \in Seq(Nat) /\ Len(Recent(h)) = Len(h) - m
           /\ \A k \in 1..(Len(h) - m) : Recent(h)[k] = h[m + k]
<1>1. PICK m \in 0..Len(h) :
        /\ \A k \in 1..m : h[k] + Window <= clock
        /\ \A k \in (m + 1)..Len(h) : clock - h[k] < Window
  BY KeptTail
<1> DEFINE g == [n \in 0..Len(h) |-> SubSeq(h, m + 1, n)]
           f == CHOOSE x : IsKept(h, clock, x)
<1>2. IsKept(h, clock, g)
  BY <1>1, KeptExists
<1>3. IsKept(h, clock, f)
  <2> HIDE DEF g
  <2> QED BY <1>2
<1>4. f[Len(h)] = g[Len(h)]
  <2> HIDE DEF f, g
  <2> QED BY <1>2, <1>3, KeptUnique
<1>5. Recent(h) = SubSeq(h, m + 1, Len(h))
  <2>1. g[Len(h)] = SubSeq(h, m + 1, Len(h))
    OBVIOUS
  <2> HIDE DEF g
  <2> QED BY <1>4, <2>1, RecentIsKept
<1>6. Len(h) \in Nat /\ \A k \in 1..Len(h) : h[k] \in Nat
  OBVIOUS
<1> DEFINE t == SubSeq(h, m + 1, Len(h))
<1>7. /\ t \in Seq(Nat)
      /\ Len(t) = IF m + 1 <= Len(h) THEN Len(h) - (m + 1) + 1 ELSE 0
      /\ \A i \in 1..(Len(h) - (m + 1) + 1) : t[i] = h[(m + 1) + i - 1]
  <2>1. m + 1 \in Int /\ Len(h) \in Int /\ \A k \in (m + 1)..Len(h) : h[k] \in Nat
    BY <1>6
  <2> HIDE DEF t
  <2> QED BY <2>1, SubSeqProperties DEF t
<1> HIDE DEF t
<1>8. Len(h) - (m + 1) + 1 = Len(h) - m /\ (m + 1 <= Len(h) \/ Len(h) - m = 0)
  BY <1>6
<1>9. \A i \in 1..(Len(h) - m) : (m + 1) + i - 1 = m + i
  BY <1>6
<1>10. Len(t) = Len(h) - m /\ \A i \in 1..(Len(h) - m) : t[i] = h[m + i]
  BY <1>7, <1>8, <1>9
<1> QED BY <1>1, <1>5, <1>7, <1>10 DEF t

LEMMA BelowEnd ==
  ASSUME NEW a \in Int, NEW k \in Int, NEW m \in Int,
         k \in 1..a, k + m \in 1..(a + 1), k + m # a + 1
  PROVE  k \in 1..(a - m) /\ k + m \in 1..a
OBVIOUS

LEMMA SplitEnd ==
  ASSUME NEW a \in Int, NEW h \in Int, NEW k \in Int, NEW m \in Int,
         m <= h, k > a - h, k <= a - (h - m)
  PROVE  /\ k - (a - h) \in 1..m /\ k - (a - h) \in 1..h
         /\ a - h + (k - (a - h)) = k
OBVIOUS

LEMMA AddsUp ==
  ASSUME NEW f \in Nat, NEW w \in Nat, NEW a \in Nat, NEW b \in Nat, NEW d \in Nat,
         f <= a, a + w <= b, b <= d
  PROVE  f + w <= d
OBVIOUS

\* Forgetting hits that are out of the window changes nothing.
LEMMA TrimKeeps ==
  ASSUME NEW A \in Seq(Nat), NEW H \in Seq(Nat), NEW T \in Seq(Nat), NEW c \in Nat,
         RateOf(A, H, c), NEW m \in 0..Len(H), \A k \in 1..m : H[k] + Window <= c,
         Len(T) = Len(H) - m, \A k \in 1..(Len(H) - m) : T[k] = H[m + k]
  PROVE  RateOf(A, T, c)
<1>1. /\ Len(A) \in Nat /\ Len(H) \in Nat /\ Len(T) \in Nat
      /\ Len(H) <= Len(A) /\ Len(T) <= Len(A)
      /\ \A k \in 1..Len(H) : H[k] = A[Len(A) - Len(H) + k]
      /\ \A k \in 1..(Len(A) - Len(H)) : A[k] + Window <= c
  BY DEF RateOf
<1>2. ASSUME NEW k \in 1..Len(T)
      PROVE  T[k] = A[Len(A) - Len(T) + k]
  <2>1. m + k \in 1..Len(H) /\ k \in 1..(Len(H) - m)
    BY <1>1
  <2>2. Len(A) - Len(H) + (m + k) = Len(A) - Len(T) + k
    BY <1>1
  <2>3. T[k] = H[m + k] /\ H[m + k] = A[Len(A) - Len(H) + (m + k)]
    BY <1>1, <2>1
  <2> QED BY <2>2, <2>3
<1>3. ASSUME NEW k \in 1..(Len(A) - Len(T))
      PROVE  A[k] + Window <= c
  <2>1. CASE k <= Len(A) - Len(H)
    BY <1>1, <2>1
  <2>2. CASE k > Len(A) - Len(H)
    <3> DEFINE j == k - (Len(A) - Len(H))
    <3>1. j \in 1..m /\ j \in 1..Len(H) /\ Len(A) - Len(H) + j = k
      <4>1. k \in Int /\ k <= Len(A) - (Len(H) - m) /\ m \in Int /\ m <= Len(H)
        BY <1>1
      <4>2. Len(A) \in Int /\ Len(H) \in Int /\ k > Len(A) - Len(H)
        BY <1>1, <2>2
      <4>3. /\ k - (Len(A) - Len(H)) \in 1..m /\ k - (Len(A) - Len(H)) \in 1..Len(H)
            /\ Len(A) - Len(H) + (k - (Len(A) - Len(H))) = k
        BY ONLY <4>1, <4>2, SplitEnd
      <4> QED BY <4>3
    <3> HIDE DEF j
    <3>2. H[j] = A[k] /\ H[j] + Window <= c
      BY <1>1, <3>1
    <3> QED BY <3>2
  <2> QED BY <1>1, <2>1, <2>2
<1> QED BY <1>1, <1>2, <1>3 DEF RateOf

\* One more is admitted while fewer than MaxPerIp are in the window.
LEMMA AdmitKeeps ==
  ASSUME NEW A \in Seq(Nat), NEW T \in Seq(Nat), NEW c \in Nat, RateOf(A, T, c),
         Len(T) < MaxPerIp
  PROVE  RateOf(Append(A, c), Append(T, c), c)
<1> DEFINE B == Append(A, c)
           S == Append(T, c)
<1>1. /\ B \in Seq(Nat) /\ Len(B) = Len(A) + 1 /\ B[Len(A) + 1] = c
      /\ \A k \in 1..Len(A) : B[k] = A[k]
      /\ S \in Seq(Nat) /\ Len(S) = Len(T) + 1 /\ S[Len(T) + 1] = c
      /\ \A k \in 1..Len(T) : S[k] = T[k]
  BY AppendProperties
<1>2. /\ Len(A) \in Nat /\ Len(T) \in Nat /\ MaxPerIp \in Nat /\ MaxPerIp > 0 /\ Window \in Nat
      /\ \A k \in 1..Len(A) : A[k] \in Nat
  BY KycAssumption
<1>3. /\ Len(T) <= Len(A)
      /\ \A k \in 1..Len(T) : T[k] = A[Len(A) - Len(T) + k]
      /\ \A k \in 1..(Len(A) - Len(T)) : A[k] + Window <= c
      /\ \A k \in 1..(Len(A) - MaxPerIp) : A[k] + Window <= A[k + MaxPerIp]
      /\ \A j, k \in 1..Len(A) : j <= k => A[j] <= A[k]
      /\ \A k \in 1..Len(A) : A[k] <= c
  BY DEF RateOf, InOrder
<1> HIDE DEF B, S
<1>4. \A k \in 1..Len(B) : k \in 1..Len(A) \/ k = Len(A) + 1
  BY <1>1, <1>2
<1>5. InOrder(B, c)
  <2>1. ASSUME NEW k \in 1..Len(B)
        PROVE  B[k] <= c
    <3>1. CASE k = Len(A) + 1
      BY <1>1, <3>1
    <3>2. CASE k \in 1..Len(A)
      BY <1>1, <1>3, <3>2
    <3> QED BY <1>4, <3>1, <3>2
  <2>2. ASSUME NEW j \in 1..Len(B), NEW k \in 1..Len(B), j <= k
        PROVE  B[j] <= B[k]
    <3>1. CASE k = Len(A) + 1
      <4>1. B[j] <= c /\ B[k] = c
        BY <1>1, <2>1, <3>1
      <4> QED BY <4>1
    <3>2. CASE k \in 1..Len(A)
      <4>1. j \in 1..Len(A)
        BY <1>2, <2>2, <3>2
      <4> QED BY <1>1, <1>3, <2>2, <3>2, <4>1
    <3> QED BY <1>4, <3>1, <3>2
  <2> QED BY <2>1, <2>2 DEF InOrder
<1>6. ASSUME NEW k \in 1..Len(S)
      PROVE  S[k] = B[Len(B) - Len(S) + k]
  <2>1. Len(B) - Len(S) = Len(A) - Len(T)
    BY <1>1, <1>2
  <2>2. CASE k = Len(T) + 1
    <3>1. Len(A) - Len(T) + k = Len(A) + 1
      BY <1>2, <2>2
    <3> QED BY <1>1, <2>1, <2>2, <3>1
  <2>3. CASE k # Len(T) + 1
    <3>1. k \in 1..Len(T)
      BY <1>1, <1>2, <2>3
    <3>2. Len(A) - Len(T) + k \in 1..Len(A)
      BY <1>2, <1>3, <3>1
    <3> QED BY <1>1, <1>3, <2>1, <3>1, <3>2
  <2> QED BY <2>2, <2>3
<1>7. ASSUME NEW k \in 1..(Len(B) - Len(S))
      PROVE  B[k] + Window <= c
  <2>1. k \in 1..(Len(A) + 1 - (Len(T) + 1)) /\ Len(A) \in Nat /\ Len(T) \in Nat
    BY <1>1, <1>2
  <2>2. k \in 1..(Len(A) - Len(T)) /\ k \in 1..Len(A)
    BY <2>1
  <2> QED BY <1>1, <1>3, <2>2
<1>8. ASSUME NEW k \in 1..(Len(B) - MaxPerIp)
      PROVE  B[k] + Window <= B[k + MaxPerIp]
  <2>1. k \in 1..Len(A) /\ k + MaxPerIp \in 1..Len(B)
    BY <1>1, <1>2
  <2>2. CASE k + MaxPerIp = Len(A) + 1
    <3>1. k \in 1..(Len(A) - Len(T))
      BY <1>2, <1>3, <2>1, <2>2
    <3>2. B[k] = A[k] /\ B[k + MaxPerIp] = c /\ A[k] + Window <= c
      BY <1>1, <1>3, <2>1, <2>2, <3>1
    <3> QED BY <3>2
  <2>3. CASE k + MaxPerIp # Len(A) + 1
    <3>1. k \in 1..(Len(A) - MaxPerIp) /\ k + MaxPerIp \in 1..Len(A)
      <4>1. k \in Int /\ k + MaxPerIp \in 1..(Len(A) + 1) /\ k \in 1..Len(A)
        BY <1>1, <2>1
      <4>2. MaxPerIp \in Int /\ Len(A) \in Int
        BY <1>2
      <4> QED BY <2>3, <4>1, <4>2, BelowEnd
    <3>2. B[k] = A[k] /\ B[k + MaxPerIp] = A[k + MaxPerIp]
      BY <1>1, <2>1, <3>1
    <3> QED BY <1>3, <3>1, <3>2
  <2> QED BY <2>2, <2>3
<1>9. Len(S) <= Len(B)
  BY <1>1, <1>2, <1>3
<1> QED BY <1>5, <1>6, <1>7, <1>8, <1>9 DEF RateOf, B, S

LEMMA LaterKeeps ==
  ASSUME NEW A \in Seq(Nat), NEW H \in Seq(Nat), NEW c \in Nat, RateOf(A, H, c)
  PROVE  RateOf(A, H, c + 1)
<1>1. Window \in Nat /\ Len(A) \in Nat /\ Len(H) \in Nat /\ \A k \in 1..Len(A) : A[k] \in Nat
  BY KycAssumption
<1>2. \A k \in 1..(Len(A) - Len(H)) : k \in 1..Len(A)
  BY <1>1
<1>3. InOrder(A, c + 1)
  BY <1>1 DEF RateOf, InOrder
<1>4. \A k \in 1..(Len(A) - Len(H)) : A[k] + Window <= c + 1
  BY <1>1, <1>2 DEF RateOf
<1> QED BY <1>3, <1>4 DEF RateOf

\* No window, wherever it begins, has more than MaxPerIp admissions.
LEMMA WindowsHold ==
  ASSUME NEW A \in Seq(Nat), NEW H \in Seq(Nat), NEW c \in Nat, RateOf(A, H, c),
         NEW from \in Nat
  PROVE  Cardinality({k \in DOMAIN A : A[k] \in from..(from + Window - 1)}) <= MaxPerIp
<1> DEFINE W == {k \in DOMAIN A : A[k] \in from..(from + Window - 1)}
<1>1. /\ Len(A) \in Nat /\ MaxPerIp \in Nat /\ MaxPerIp > 0 /\ Window \in Nat
      /\ DOMAIN A = 1..Len(A) /\ \A k \in 1..Len(A) : A[k] \in Nat
  BY KycAssumption, LenProperties, ElementOfSeq
<1>2. CASE W = {}
  <2>1. Cardinality(W) = 0
    <3> HIDE DEF W
    <3> QED BY <1>2, FS_EmptySet
  <2> HIDE DEF W
  <2>2. Cardinality(W) <= MaxPerIp
    BY <1>1, <2>1
  <2> QED BY <2>2 DEF W
<1>3. CASE W # {}
  <2>1. W \subseteq Nat
    BY <1>1
  <2>2. PICK n \in W : \A k \in W : n <= k
    <3> HIDE DEF W
    <3> QED BY <1>3, <2>1, SmallestOf
  <2>3. n \in 1..Len(A) /\ from <= A[n]
    BY <1>1, <2>2
  <2> DEFINE I == n..(n + MaxPerIp - 1)
  <2>4. ASSUME NEW k \in W
        PROVE  k \in I
    <3>1. k \in 1..Len(A) /\ n <= k /\ A[k] < from + Window
      BY <1>1, <2>2
    <3>2. CASE k >= n + MaxPerIp
      <4>1. n \in 1..(Len(A) - MaxPerIp) /\ n + MaxPerIp \in 1..Len(A)
        <5>1. Len(A) \in Nat /\ n \in 1..Len(A) /\ k \in 1..Len(A)
          BY <1>1, <2>3, <3>1
        <5>2. MaxPerIp \in Nat /\ MaxPerIp > 0
          BY <1>1
        <5> HIDE DEF W
        <5>3. n + MaxPerIp <= Len(A)
          BY ONLY <3>2, <5>1, <5>2
        <5> QED BY ONLY <5>1, <5>2, <5>3
      <4>2. A[n] + Window <= A[n + MaxPerIp] /\ A[n + MaxPerIp] <= A[k]
        <5>1. A[n] + Window <= A[n + MaxPerIp]
          BY <4>1 DEF RateOf
        <5>2. A[n + MaxPerIp] <= A[k]
          <6>1. n + MaxPerIp <= k
            BY <3>2
          <6> QED BY <3>1, <4>1, <6>1 DEF RateOf, InOrder
        <5> QED BY <5>1, <5>2
      <4>3. A[n] \in Nat /\ A[k] \in Nat /\ A[n + MaxPerIp] \in Nat
        <5>1. n \in 1..Len(A) /\ k \in 1..Len(A) /\ n + MaxPerIp \in 1..Len(A)
          BY <2>3, <3>1, <4>1
        <5>2. \A j \in 1..Len(A) : A[j] \in Nat
          BY <1>1
        <5> HIDE DEF W
        <5> QED BY ONLY <5>1, <5>2
      <4>4. from + Window <= A[k]
        <5>1. from <= A[n] /\ Window \in Nat
          BY <1>1, <2>3
        <5> HIDE DEF W
        <5> QED BY ONLY <4>2, <4>3, <5>1, from \in Nat, AddsUp
      <4>5. Window \in Nat
        BY <1>1
      <4> HIDE DEF W
      <4> QED BY ONLY <3>1, <4>3, <4>4, <4>5, from \in Nat
    <3>3. k \in Int /\ n \in Int
      BY <1>1, <2>3, <3>1
    <3> QED BY <1>1, <3>1, <3>2, <3>3
  <2>5. n \in Int /\ n + MaxPerIp - 1 \in Int /\ ~ (n > n + MaxPerIp - 1)
        /\ (n + MaxPerIp - 1) - n + 1 = MaxPerIp
    BY <1>1, <2>3
  <2>6. IsFiniteSet(I) /\ Cardinality(I) = MaxPerIp
    BY <2>5, FS_Interval
  <2>7. W \in SUBSET I
    BY <2>4
  <2> HIDE DEF W, I
  <2> QED BY <2>6, <2>7, FS_Subset DEF W
<1> QED BY <1>2, <1>3

RateInv ==
  /\ clock \in Nat
  /\ tokenHits \in [Ips -> Seq(Nat)] /\ admitted \in [Ips -> Seq(Nat)]
  /\ \A i \in Ips : RateOf(admitted[i], tokenHits[i], clock)

LEMMA HitsInOrder ==
  ASSUME NEW A \in Seq(Nat), NEW H \in Seq(Nat), NEW c \in Nat, RateOf(A, H, c)
  PROVE  InOrder(H, c)
<1>1. /\ Len(A) \in Nat /\ Len(H) \in Nat /\ Len(H) <= Len(A)
      /\ \A k \in 1..Len(H) : H[k] = A[Len(A) - Len(H) + k]
  BY DEF RateOf
<1>2. ASSUME NEW k \in 1..Len(H)
      PROVE  Len(A) - Len(H) + k \in 1..Len(A)
  BY <1>1
<1>3. \A k \in 1..Len(H) : H[k] <= c
  BY <1>1, <1>2 DEF RateOf, InOrder
<1>4. ASSUME NEW j \in 1..Len(H), NEW k \in 1..Len(H), j <= k
      PROVE  H[j] <= H[k]
  <2>1. Len(A) - Len(H) + j <= Len(A) - Len(H) + k
    BY <1>1, <1>4
  <2> QED BY <1>1, <1>2, <2>1 DEF RateOf, InOrder
<1> QED BY <1>3, <1>4 DEF InOrder

\* What a lookup or a sweep leaves of the hits of an address.
LEMMA RecentKeeps ==
  ASSUME RateInv, NEW i \in Ips
  PROVE  Recent(tokenHits[i]) \in Seq(Nat) /\ RateOf(admitted[i], Recent(tokenHits[i]), clock)
<1> DEFINE h == tokenHits[i]
           a == admitted[i]
<1>1. h \in Seq(Nat) /\ a \in Seq(Nat) /\ clock \in Nat /\ RateOf(a, h, clock)
  BY DEF RateInv
<1> DEFINE t == Recent(h)
<1> HIDE DEF h, a
<1>2. PICK m \in 0..Len(h) :
        /\ \A k \in 1..m : h[k] + Window <= clock
        /\ t \in Seq(Nat) /\ Len(t) = Len(h) - m
        /\ \A k \in 1..(Len(h) - m) : t[k] = h[m + k]
  BY <1>1, HitsInOrder, RecentIsEnd
<1> HIDE DEF t
<1>3. RateOf(a, t, clock)
  BY <1>1, <1>2, TrimKeeps
<1> QED BY <1>2, <1>3 DEF h, a, t

LEMMA AskTokenCounts ==
  ASSUME RateInv, NEW s, NEW c \in Connections, NEW u, NEW t, AskToken(s, c, u, t)
  PROVE  RateInv'
<1> DEFINE ip == ClientIp(c)
           kept == Recent(tokenHits[ip])
<1>1. ip \in Ips /\ clock' = clock /\ clock \in Nat
  BY DEF Ips, AskToken, RateInv
<1>2. kept \in Seq(Nat) /\ RateOf(admitted[ip], kept, clock)
  BY <1>1, RecentKeeps
<1>3. /\ tokenHits \in [Ips -> Seq(Nat)] /\ admitted \in [Ips -> Seq(Nat)]
      /\ \A i \in Ips : RateOf(admitted[i], tokenHits[i], clock)
  BY DEF RateInv
<1>4. CASE RateLimited(ip)
  <2>1. tokenHits' = [tokenHits EXCEPT ![ip] = kept] /\ admitted' = admitted
    BY <1>1, <1>3, <1>4 DEF AskToken, CountHit, RateLimited
  <2> HIDE DEF kept, ip
  <2>2. tokenHits' \in [Ips -> Seq(Nat)]
    BY <1>1, <1>2, <1>3, <2>1
  <2>3. \A i \in Ips : RateOf(admitted'[i], tokenHits'[i], clock)
    BY <1>1, <1>2, <1>3, <2>1
  <2> QED BY <1>1, <1>3, <2>1, <2>2, <2>3 DEF RateInv
<1>5. CASE ~RateLimited(ip)
  <2>1. /\ tokenHits' = [tokenHits EXCEPT ![ip] = Append(kept, clock)]
        /\ admitted' = [admitted EXCEPT ![ip] = Append(admitted[ip], clock)]
    BY <1>1, <1>3, <1>5 DEF AskToken, CountHit, RateLimited
  <2>2. ~ (Len(kept) >= MaxPerIp)
    BY <1>5 DEF RateLimited
  <2> HIDE DEF kept, ip
  <2>3. Len(kept) < MaxPerIp
    <3>1. Len(kept) \in Nat /\ MaxPerIp \in Nat
      BY <1>2, KycAssumption
    <3> QED BY <2>2, <3>1
  <2>4. admitted[ip] \in Seq(Nat)
    BY <1>1, <1>3
  <2>5. RateOf(Append(admitted[ip], clock), Append(kept, clock), clock)
    BY <1>1, <1>2, <2>3, <2>4, AdmitKeeps
  <2>6. Append(kept, clock) \in Seq(Nat) /\ Append(admitted[ip], clock) \in Seq(Nat)
    BY <1>1, <1>2, <2>4
  <2>7. tokenHits' \in [Ips -> Seq(Nat)] /\ admitted' \in [Ips -> Seq(Nat)]
    BY <1>1, <1>3, <2>1, <2>6
  <2>8. \A i \in Ips : RateOf(admitted'[i], tokenHits'[i], clock)
    BY <1>1, <1>3, <2>1, <2>5
  <2> QED BY <1>1, <2>7, <2>8 DEF RateInv
<1> QED BY <1>4, <1>5

LEMMA NoHits ==
  ASSUME NEW c \in Nat
  PROVE  RateOf(<<>>, <<>>, c)
<1>1. Len(<<>>) = 0 /\ MaxPerIp \in Nat
  BY KycAssumption
<1>2. \A k \in Int : k \notin 1..0 /\ k \notin 1..(0 - 0) /\ k \notin 1..(0 - MaxPerIp)
  BY <1>1
<1> QED BY <1>1, <1>2 DEF RateOf, InOrder

LEMMA RateStep ==
  ASSUME RateInv, [ClientsNext]_backendVars
  PROVE  RateInv'
<1>1. /\ clock \in Nat
      /\ tokenHits \in [Ips -> Seq(Nat)] /\ admitted \in [Ips -> Seq(Nat)]
      /\ \A i \in Ips : RateOf(admitted[i], tokenHits[i], clock)
  BY DEF RateInv
<1>2. ASSUME UNCHANGED <<clock, tokenHits, admitted>>
      PROVE  RateInv'
  BY <1>1, <1>2 DEF RateInv
<1>3. CASE \E s \in Slots : Serve(s)
  BY <1>2, <1>3 DEF Serve, RefuseBody, ReadTokenBody, ReadStatusBody, MintTokens, GetApplicant,
     GetCredential, ProviderFails, histories
<1>4. CASE \E s \in Slots : Close(s)
  BY <1>2, <1>4 DEF Close, histories
<1>5. CASE \E s \in Slots, c \in Connections : Ask(s, c)
  BY <1>2, <1>5, AskTokenCounts DEF Ask, AskStatus, histories
<1>6. CASE \E u \in Users, answer \in Answers : Review(u, answer)
  BY <1>2, <1>6 DEF Review, histories
<1>7. CASE Sweep
  <2>1. /\ tokenHits' = [i \in Ips |-> Recent(tokenHits[i])]
        /\ clock' = clock /\ admitted' = admitted
    BY <1>7 DEF Sweep, histories
  <2>2. \A i \in Ips : /\ Recent(tokenHits[i]) \in Seq(Nat)
                       /\ RateOf(admitted[i], Recent(tokenHits[i]), clock)
    BY RecentKeeps
  <2>3. tokenHits' \in [Ips -> Seq(Nat)]
    BY <2>1, <2>2
  <2>4. \A i \in Ips : RateOf(admitted'[i], tokenHits'[i], clock)
    BY <2>1, <2>2
  <2> QED BY <1>1, <2>1, <2>3, <2>4 DEF RateInv
<1>8. CASE Restart
  <2>1. /\ tokenHits' = [i \in Ips |-> <<>>] /\ admitted' = [i \in Ips |-> <<>>]
        /\ clock' = clock
    BY <1>8 DEF Restart
  <2> QED BY <1>1, <2>1, NoHits DEF RateInv
<1>9. CASE KycTick
  <2>1. clock' = clock + 1 /\ tokenHits' = tokenHits /\ admitted' = admitted
    BY <1>9 DEF KycTick, histories
  <2>2. ASSUME NEW i \in Ips
        PROVE  RateOf(admitted[i], tokenHits[i], clock + 1)
    BY <1>1, LaterKeeps
  <2>3. clock + 1 \in Nat
    BY <1>1
  <2> QED BY <1>1, <2>1, <2>2, <2>3 DEF RateInv
<1>10. CASE UNCHANGED backendVars
  BY <1>2, <1>10 DEF backendVars
<1> QED BY <1>3, <1>4, <1>5, <1>6, <1>7, <1>8, <1>9, <1>10 DEF ClientsNext

LEMMA InitialHits == BackendInit => RateInv
<1>1. 0 \in Nat /\ <<>> \in Seq(Nat)
  OBVIOUS
<1> QED BY <1>1, NoHits DEF BackendInit, RateInv

(* "Per-IP rate limit" (server.js 36-60): whatever the limiter forgets,    *)
(* when it is swept and however many it refuses, no window has more than   *)
(* TOKEN_RATE_MAX_PER_IP admissions of an address, for every window, every *)
(* limit and any number of connections.                                    *)
THEOREM RateIsLimited == ClientsSpec => []RateHolds
<1>1. BackendInit => RateInv
  BY InitialHits
<1>2. RateInv /\ [ClientsNext]_backendVars => RateInv'
  BY RateStep
<1>3. RateInv => RateHolds
  <2> SUFFICES ASSUME RateInv, NEW i \in Ips, NEW from \in 0..ClockMax
               PROVE  Cardinality({k \in DOMAIN admitted[i] :
                                     admitted[i][k] \in from..(from + Window - 1)}) <= MaxPerIp
    BY DEF RateHolds
  <2>1. /\ admitted[i] \in Seq(Nat) /\ tokenHits[i] \in Seq(Nat) /\ clock \in Nat
        /\ RateOf(admitted[i], tokenHits[i], clock) /\ from \in Nat
    BY DEF RateInv
  <2> QED BY <2>1, WindowsHold
<1> QED BY <1>1, <1>2, <1>3, PTL DEF ClientsSpec

-----------------------------------------------------------------------------
(* The inductive invariant of the console.                                 *)

\* A caller has a transaction.
Aboard == {"simulate", "wallet", "send", "poll"}

\* A proof that was asked for is behind whatever can still land.
ProofsAsked ==
  /\ \A c \in Callers :
       /\ latest[c] # None => latest[c].epoch \in asked
       /\ job[c] = "submit" /\ proving[c] # None => proving[c].epoch \in asked
  /\ \A x \in sent \cup Landed : x.epoch \in asked

\* The proof of a tab stays the one that its submission is about.
DraftsMatch ==
  \A c \in Callers :
    /\ stage[c] # "idle" => latest[c] # None
    /\ stage[c] \in Aboard => draft[c].caller = c /\ draft[c].epoch = latest[c].epoch

\* A transaction that is sent is accounted for before it lands.
SentIsAccounted ==
  \A x \in sent \cup Landed :
    \/ x.epoch \in marked
    \/ stage[x.caller] = "poll" /\ draft[x.caller] = x
    \/ <<x, "error">> \in told

\* Polls take their time, so the last one is sent when nothing can land any more.
PollsPaced ==
  \A c \in Callers :
    /\ stage[c] # "poll" => attempt[c] = 0
    /\ stage[c] \in Aboard => draft[c].until <= now + Timeout
    /\ stage[c] = "poll" =>
         nextPoll[c] + Timeout >= draft[c].until + attempt[c] * PollInterval
    /\ stage[c] = "poll" /\ attempt[c] = PollAttempts =>
         draft[c] \notin Landed /\ now > draft[c].until

\* What was said stays true, whatever is sent again or applied later.
ToldIsTrue ==
  \A r \in told :
    /\ r[2] = "PENDING" => r[1] \notin Landed /\ now > r[1].until
    /\ r[2] = "SUCCESS" => r[1] \in Landed

\* A tab that submits has a proof.
ConsoleIInv == ConsoleTypeOK /\ DraftsMatch

-----------------------------------------------------------------------------
(* Types.                                                                  *)

LEMMA FreshIsEpoch == FreshEpochs \subseteq Epochs
BY ConsoleAssumption DEF FreshEpochs

LEMMA BeginProofType ==
  ASSUME ConsoleTypeOK, NEW c \in Callers, BeginProof(c)
  PROVE  /\ proving' \in [Callers -> Proof \cup {None}]
         /\ \A d \in Callers : d # c => proving'[d] = proving[d]
BY FreshIsEpoch DEF ConsoleTypeOK, BeginProof, Set, Proof

LEMMA SettleTypes ==
  ASSUME SubmissionTypeOK, NEW c \in Callers, Settle(c),
         now' = now, gateOpen' = gateOpen, sequence' = sequence, applied' = applied,
         sent' \subseteq Transaction
  PROVE  /\ SubmissionTypeOK'
         /\ \A d \in Callers : stage'[d] # "idle" => d # c /\ stage'[d] = stage[d]
BY SubmissionAssumption DEF SubmissionTypeOK, Settle, Enter, Stages

LEMMA EnterTypes ==
  ASSUME SubmissionTypeOK, NEW c \in Callers, NEW s \in Stages, Enter(c, s),
         s \in Aboard => draft[c] # None,
         UNCHANGED <<ledgerVars, draft, attempt, nextPoll>>
  PROVE  /\ SubmissionTypeOK' /\ stage'[c] = s
         /\ \A d \in Callers : d # c => stage'[d] = stage[d]
BY DEF SubmissionTypeOK, Enter, Aboard, ledgerVars

LEMMA TabTypes ==
  ASSUME ConsoleTypeOK, UNCHANGED <<ledgerVars, callerVars>>,
         job' \in [Callers -> {"run", "check", "submit", None}],
         witness' \in [Callers -> Witnesses \cup {None}],
         proving' \in [Callers -> Proof \cup {None}],
         latest' \in [Callers -> Proof \cup {None}],
         connected' \in [Callers -> BOOLEAN],
         marked' = marked, asked' \subseteq Epochs, told' = told, failed' = failed,
         \A c \in Callers : stage[c] # "idle" => job'[c] = "submit" /\ proving'[c] = None,
         \A c \in Callers : proving'[c] # None => job'[c] # None
  PROVE  ConsoleTypeOK'
BY DEF ConsoleTypeOK, SubmissionTypeOK, ledgerVars, callerVars

\* The steps of a tab before and between submissions.
TabStep(c) ==
  \/ RunFlow(c) \/ RunFailureChecks(c) \/ ConnectWallet(c) \/ SubmitProving(c)
  \/ FinishRun(c) \/ ProofFails(c)
  \/ /\ job[c] = "submit" /\ proving[c] # None /\ KeepProof(c)
     /\ UNCHANGED <<ledgerVars, callerVars>> /\ job' = Set(job, c, None)
     /\ UNCHANGED <<witness, connected, marked, asked, told, failed>>
  \/ \E w \in Witnesses : RememberWitness(c, w)

LEMMA TabStepTypes ==
  ASSUME ConsoleTypeOK, NEW c \in Callers, TabStep(c)
  PROVE  /\ ConsoleTypeOK' /\ UNCHANGED <<ledgerVars, callerVars, marked, told, failed>>
         /\ asked \subseteq asked'
<1>1. /\ job \in [Callers -> {"run", "check", "submit", None}]
      /\ witness \in [Callers -> Witnesses \cup {None}]
      /\ proving \in [Callers -> Proof \cup {None}]
      /\ latest \in [Callers -> Proof \cup {None}]
      /\ connected \in [Callers -> BOOLEAN]
      /\ asked \subseteq Epochs
      /\ \A d \in Callers : stage[d] # "idle" => job[d] = "submit" /\ proving[d] = None
      /\ \A d \in Callers : proving[d] # None => job[d] # None
  BY DEF ConsoleTypeOK
<1>2. CASE RunFlow(c) \/ RunFailureChecks(c) \/ SubmitProving(c)
  <2>1. /\ job[c] = None /\ BeginProof(c)
        /\ UNCHANGED <<ledgerVars, callerVars, witness, latest, connected, marked, told, failed>>
    BY <1>2 DEF RunFlow, RunFailureChecks, SubmitProving
  <2>2. /\ proving' \in [Callers -> Proof \cup {None}]
        /\ \A d \in Callers : d # c => proving'[d] = proving[d]
        /\ proving'[c].epoch \in Epochs
    <3>1. proving'[c] # None
      BY <1>1, <2>1, FreshIsEpoch, ProofAssumption DEF BeginProof, Set, Proof
    <3> QED BY <2>1, <3>1, BeginProofType DEF Proof
  <2>3. /\ job' \in [Callers -> {"run", "check", "submit", None}] /\ job'[c] # None
        /\ \A d \in Callers : d # c => job'[d] = job[d]
    BY <1>1, <1>2, ProofAssumption DEF RunFlow, RunFailureChecks, SubmitProving, Set
  <2>4. stage[c] = "idle"
    BY <1>1, <2>1, ProofAssumption
  <2>5. asked' \subseteq Epochs /\ asked \subseteq asked'
    BY <1>1, <1>2, <2>2 DEF RunFlow, RunFailureChecks, SubmitProving
  <2> QED BY <1>1, <2>1, <2>2, <2>3, <2>4, <2>5, TabTypes
<1>3. CASE ConnectWallet(c)
  BY <1>1, <1>3, TabTypes DEF ConnectWallet, Set
<1>4. CASE FinishRun(c)
  <2>1. stage[c] = "idle" /\ proving[c] \in Proof
    BY <1>1, <1>4 DEF FinishRun
  <2>2. proving[c].epoch \in Epochs
    BY <2>1 DEF Proof
  <2> QED BY <1>1, <1>4, <2>1, <2>2, TabTypes DEF FinishRun, KeepProof, Set
<1>5. CASE ProofFails(c)
  <2>1. stage[c] = "idle"
    BY <1>1, <1>5 DEF ProofFails
  <2> QED BY <1>1, <1>5, <2>1, TabTypes DEF ProofFails, Set
<1>6. CASE /\ job[c] = "submit" /\ proving[c] # None /\ KeepProof(c)
           /\ UNCHANGED <<ledgerVars, callerVars>> /\ job' = Set(job, c, None)
           /\ UNCHANGED <<witness, connected, marked, asked, told, failed>>
  <2>1. stage[c] = "idle"
    BY <1>1, <1>6
  <2> QED BY <1>1, <1>6, <2>1, TabTypes DEF KeepProof, Set
<1>7. CASE \E w \in Witnesses : RememberWitness(c, w)
  BY <1>1, <1>7, TabTypes DEF RememberWitness, Set
<1> QED BY <1>2, <1>3, <1>4, <1>5, <1>6, <1>7 DEF TabStep

\* A submission begins, or goes on to its next request.
Continues(c) ==
  \/ SubmitLatest(c) \/ GetAddress(c) \/ BuildPayment(c) \/ Proceed(c) \/ SignInWallet(c)
  \/ /\ job[c] = "submit" /\ proving[c] # None /\ KeepProof(c)
     /\ Continue(c, proving[c])
     /\ UNCHANGED <<job, witness, connected, marked, asked, told, failed>>

LEMMA ContinuesTypes ==
  ASSUME ConsoleIInv, NEW c \in Callers, Continues(c)
  PROVE  /\ ConsoleTypeOK'
         /\ UNCHANGED <<now, gateOpen, sequence, applied, marked, asked, told, failed>>
<1> USE DEF ConsoleIInv
<1>1. /\ SubmissionTypeOK
      /\ job \in [Callers -> {"run", "check", "submit", None}]
      /\ proving \in [Callers -> Proof \cup {None}]
      /\ latest \in [Callers -> Proof \cup {None}]
      /\ connected \in [Callers -> BOOLEAN]
      /\ \A d \in Callers : stage[d] # "idle" => job[d] = "submit" /\ proving[d] = None
      /\ \A d \in Callers : proving[d] # None => job[d] # None
  BY DEF ConsoleTypeOK
<1>2. /\ now \in Nat /\ sequence \in Nat /\ MaxSequence \in Nat /\ Timeout \in Nat
      /\ PollInterval \in Nat /\ PollAttempts \in Nat /\ sequence <= MaxSequence
  BY <1>1, SubmissionAssumption DEF SubmissionTypeOK
<1>3. CASE SubmitLatest(c)
  <2> DEFINE s == IF connected[c] THEN "account" ELSE "connect"
  <2>1. s \in Stages /\ s \notin Aboard
    BY DEF Stages, Aboard
  <2>2. Enter(c, s) /\ UNCHANGED <<ledgerVars, draft, attempt, nextPoll>>
    BY <1>3 DEF SubmitLatest, Continue
  <2>3. SubmissionTypeOK' /\ \A d \in Callers : d # c => stage'[d] = stage[d]
    BY <1>1, <2>1, <2>2, EnterTypes
  <2>4. proving[c] = None
    BY <1>1, <1>3 DEF SubmitLatest
  <2> QED BY <1>1, <1>3, <2>2, <2>3, <2>4, ProofAssumption
          DEF SubmitLatest, ConsoleTypeOK, Set, ledgerVars
<1>4. CASE GetAddress(c)
  <2>1. SubmissionTypeOK' /\ \A d \in Callers : stage'[d] # "idle" => stage[d] # "idle"
    BY <1>1, <1>4, EnterTypes DEF GetAddress, Stages, Aboard
  <2> QED BY <1>1, <1>4, <2>1 DEF GetAddress, ConsoleTypeOK, Set, ledgerVars
<1>5. CASE BuildPayment(c)
  <2>1. latest[c].epoch \in Epochs
    BY <1>1, <1>5 DEF BuildPayment, DraftsMatch, Proof
  <2> DEFINE x == [caller |-> c, epoch |-> latest[c].epoch, seq |-> sequence + 1,
                   until |-> now + Timeout]
  <2>2. x \in Transaction
    BY <1>2, <1>5, <2>1 DEF BuildPayment, Build, Transaction
  <2>3. /\ stage[c] = "account" /\ stage' = [stage EXCEPT ![c] = "simulate"]
        /\ draft' = [draft EXCEPT ![c] = x]
        /\ UNCHANGED <<ledgerVars, attempt, nextPoll, consoleVars>>
    BY <1>5 DEF BuildPayment, Build, Enter
  <2> HIDE DEF x
  <2>4. SubmissionTypeOK'
    BY <1>1, <2>2, <2>3, TransactionAssumption DEF SubmissionTypeOK, Stages, ledgerVars
  <2>5. \A d \in Callers : stage'[d] # "idle" => stage[d] # "idle"
    BY <1>1, <2>3 DEF SubmissionTypeOK
  <2> QED BY <1>1, <2>3, <2>4, <2>5 DEF ConsoleTypeOK, consoleVars, tabVars, ledgerVars
<1>6. CASE Simulate(c) /\ UNCHANGED consoleVars
  <2>1. SubmissionTypeOK' /\ \A d \in Callers : stage'[d] # "idle" => stage[d] # "idle"
    BY <1>1, <1>6, EnterTypes DEF Simulate, Stages, SubmissionTypeOK
  <2> QED BY <1>1, <1>6, <2>1 DEF Simulate, ConsoleTypeOK, consoleVars, tabVars, ledgerVars
<1>7. CASE SignInWallet(c)
  <2>1. SubmissionTypeOK' /\ \A d \in Callers : stage'[d] # "idle" => stage[d] # "idle"
    BY <1>1, <1>7, EnterTypes DEF SignInWallet, Sign, Stages, SubmissionTypeOK
  <2> QED BY <1>1, <1>7, <2>1
          DEF SignInWallet, Sign, ConsoleTypeOK, consoleVars, tabVars, ledgerVars
<1>8. CASE Send(c) /\ UNCHANGED consoleVars
  <2>1. draft[c] \in Transaction
    BY <1>1, <1>8 DEF Send, SubmissionTypeOK
  <2>2. SubmissionTypeOK' /\ \A d \in Callers : stage'[d] # "idle" => stage[d] # "idle"
    BY <1>1, <1>2, <1>8, <2>1 DEF Send, Enter, Stages, SubmissionTypeOK
  <2> QED BY <1>1, <1>8, <2>2 DEF Send, ConsoleTypeOK, consoleVars, tabVars
<1>9. CASE PollAgain(c) /\ UNCHANGED consoleVars
  <2>1. attempt[c] + 1 \in 0 .. PollAttempts /\ now + PollInterval \in Nat
    BY <1>1, <1>2, <1>9 DEF PollAgain, NoResult, SubmissionTypeOK
  <2>2. SubmissionTypeOK' /\ stage' = stage
    BY <1>1, <1>9, <2>1 DEF PollAgain, SubmissionTypeOK, ledgerVars
  <2> QED BY <1>1, <1>9, <2>2 DEF PollAgain, ConsoleTypeOK, consoleVars, tabVars, ledgerVars
<1>10. CASE /\ job[c] = "submit" /\ proving[c] # None /\ KeepProof(c)
            /\ Continue(c, proving[c])
            /\ UNCHANGED <<job, witness, connected, marked, asked, told, failed>>
  <2> DEFINE s == IF connected[c] THEN "account" ELSE "connect"
  <2>1. s \in Stages /\ s \notin Aboard
    BY DEF Stages, Aboard
  <2>2. Enter(c, s) /\ UNCHANGED <<ledgerVars, draft, attempt, nextPoll>>
    BY <1>10 DEF Continue
  <2>3. SubmissionTypeOK' /\ \A d \in Callers : d # c => stage'[d] = stage[d]
    BY <1>1, <2>1, <2>2, EnterTypes
  <2> QED BY <1>1, <1>10, <2>2, <2>3 DEF KeepProof, ConsoleTypeOK, Set, ledgerVars
<1> QED BY <1>3, <1>4, <1>5, <1>6, <1>7, <1>8, <1>9, <1>10 DEF Continues, Proceed

LEMMA SubmittedTypes ==
  ASSUME ConsoleIInv, NEW c \in Callers, Submitted(c) \/ SubmitFails(c)
  PROVE  ConsoleTypeOK'
<1> USE DEF ConsoleIInv
<1>1. /\ SubmissionTypeOK
      /\ \A d \in Callers : stage[d] # "idle" => job[d] = "submit" /\ proving[d] = None
      /\ \A d \in Callers : proving[d] # None => job[d] # None
  BY DEF ConsoleTypeOK
<1>2. stage[c] # "idle"
  BY DEF Submitted, SubmitFails, PollSuccess, Result, PollEnds, SimulationFails, SendUnseen,
         PollFailure, Break
<1>3. stage[c] \in {"send", "poll"} => draft[c] \in Transaction
  BY <1>1 DEF SubmissionTypeOK
<1>4. PaidEpoch(c) \in Epochs
  BY <1>2 DEF PaidEpoch, DraftsMatch, ConsoleTypeOK, Proof
<1>5. marked' \subseteq Epochs /\ failed' \subseteq Epochs
  BY <1>4 DEF ConsoleTypeOK, Submitted, SubmitFails, EndsWith
<1>6. told' \subseteq Transaction \X {"SUCCESS", "PENDING", "error"}
  BY <1>3 DEF ConsoleTypeOK, Submitted, SubmitFails, EndsWith, PollSuccess, PollEnds, Result
<1>7. /\ SubmissionTypeOK'
      /\ \A d \in Callers : stage'[d] # "idle" => d # c /\ stage'[d] = stage[d]
  <2>1. /\ Settle(c) /\ UNCHANGED <<now, gateOpen, sequence, applied>>
        /\ sent' \subseteq Transaction
    BY <1>1, <1>3 DEF SubmissionTypeOK, Submitted, SubmitFails, PollSuccess, PollEnds,
       SimulationFails, SendUnseen, PollFailure, Break, ledgerVars
  <2> QED BY <1>1, <2>1, SettleTypes
<1>8. job' = Set(job, c, None) /\ UNCHANGED <<witness, proving, latest, connected, asked>>
  BY DEF Submitted, SubmitFails
<1> QED BY <1>1, <1>2, <1>5, <1>6, <1>7, <1>8 DEF ConsoleTypeOK, Set

LEMMA NetworkTypes ==
  ASSUME ConsoleTypeOK, Network, UNCHANGED consoleVars
  PROVE  ConsoleTypeOK'
<1>1. SubmissionTypeOK
  BY DEF ConsoleTypeOK
<1>2. SubmissionTypeOK' /\ UNCHANGED callerVars
  <2>1. ASSUME NEW x \in sent, Apply(x)
        PROVE  SubmissionTypeOK' /\ UNCHANGED callerVars
    <3>1. x \in Transaction /\ x.seq \in 0 .. MaxSequence
      BY <1>1, SubmissionAssumption DEF SubmissionTypeOK, Transaction
    <3> QED BY <1>1, <2>1, <3>1 DEF Apply, SubmissionTypeOK, callerVars
  <2>2. ASSUME NEW x \in sent, Drop(x)
        PROVE  SubmissionTypeOK' /\ UNCHANGED callerVars
    BY <1>1, <2>2 DEF Drop, SubmissionTypeOK, callerVars
  <2>3. CASE ToggleGate
    BY <1>1, <2>3 DEF ToggleGate, SubmissionTypeOK, callerVars
  <2>4. CASE Tick
    BY <1>1, <2>4, SubmissionAssumption DEF Tick, SubmissionTypeOK, callerVars
  <2> QED BY <2>1, <2>2, <2>3, <2>4 DEF Network
<1> QED BY <1>2 DEF ConsoleTypeOK, consoleVars, tabVars, callerVars

\* What one step does: every action is one of these.
LEMMA HowTabsMove ==
  ASSUME [ConsoleNext]_tabsVars
  PROVE  \/ \E c \in Callers : TabStep(c) \/ Continues(c) \/ Submitted(c) \/ SubmitFails(c)
         \/ Network /\ UNCHANGED consoleVars
         \/ UNCHANGED tabsVars
BY DEF ConsoleNext, Step, Visitor, TabStep, Continues, SubmitProven

LEMMA TypesStep ==
  ASSUME ConsoleIInv, [ConsoleNext]_tabsVars
  PROVE  ConsoleTypeOK'
<1>1. CASE UNCHANGED tabsVars
  BY <1>1 DEF ConsoleIInv, ConsoleTypeOK, SubmissionTypeOK, tabsVars, ledgerVars, callerVars,
         consoleVars, tabVars
<1> QED BY <1>1, HowTabsMove, TabStepTypes, ContinuesTypes, SubmittedTypes, NetworkTypes
        DEF ConsoleIInv

-----------------------------------------------------------------------------
(* What the steps do to proofs and drafts.                                 *)

LEMMA TabStepProofs ==
  ASSUME ConsoleTypeOK, NEW c \in Callers, TabStep(c), NEW d \in Callers
  PROVE  /\ latest[d] # None => latest'[d] # None
         /\ stage[d] # "idle" => latest'[d] = latest[d]
<1>1. /\ latest \in [Callers -> Proof \cup {None}]
      /\ proving[c] # None => stage[c] = "idle"
  BY DEF ConsoleTypeOK
<1>2. CASE latest' = latest
  BY <1>2
<1>3. CASE KeepProof(c) /\ proving[c] # None
  BY <1>1, <1>3 DEF KeepProof, Set
<1> QED BY <1>2, <1>3 DEF TabStep, RunFlow, RunFailureChecks, ConnectWallet, SubmitProving,
        FinishRun, ProofFails, RememberWitness

LEMMA ContinuesDrafts ==
  ASSUME ConsoleIInv, NEW c \in Callers, Continues(c)
  PROVE  /\ \A d \in Callers : d # c => /\ stage'[d] = stage[d] /\ draft'[d] = draft[d]
                                       /\ latest'[d] = latest[d] /\ proving'[d] = proving[d]
                                       /\ attempt'[d] = attempt[d] /\ nextPoll'[d] = nextPoll[d]
         /\ \A d \in Callers : d # c => job'[d] = job[d]
         /\ stage'[c] # "idle" /\ latest'[c] # None /\ job'[c] = "submit" /\ proving'[c] = None
         /\ latest'[c] = IF proving[c] # None THEN proving[c] ELSE latest[c]
         /\ proving[c] # None => job[c] = "submit"
<1>1. /\ stage \in [Callers -> Stages] /\ draft \in [Callers -> Transaction \cup {None}]
      /\ attempt \in [Callers -> 0..PollAttempts] /\ nextPoll \in [Callers -> Nat]
      /\ latest \in [Callers -> Proof \cup {None}]
      /\ proving \in [Callers -> Proof \cup {None}]
      /\ job \in [Callers -> {"run", "check", "submit", None}]
      /\ stage[c] # "idle" => job[c] = "submit" /\ proving[c] = None
      /\ proving[c] # None => job[c] # None
      /\ stage[c] # "idle" => latest[c] # None
  BY DEF ConsoleIInv, ConsoleTypeOK, SubmissionTypeOK, DraftsMatch
<1>2. CASE SubmitLatest(c)
  BY <1>1, <1>2 DEF SubmitLatest, NeedsProof, Continue, Enter, Set
<1>3. CASE GetAddress(c) \/ BuildPayment(c) \/ Proceed(c) \/ SignInWallet(c)
  <2>1. UNCHANGED <<latest, proving, job>> /\ stage[c] # "idle"
    BY <1>3 DEF GetAddress, BuildPayment, Proceed, SignInWallet, Simulate, Send, PollAgain,
       NoResult, Sign, consoleVars, tabVars
  <2>2. /\ \A d \in Callers : d # c => /\ stage'[d] = stage[d] /\ draft'[d] = draft[d]
                                      /\ attempt'[d] = attempt[d] /\ nextPoll'[d] = nextPoll[d]
        /\ stage'[c] # "idle"
    BY <1>1, <1>3 DEF GetAddress, BuildPayment, Build, Proceed, SignInWallet, Simulate, Send,
       PollAgain, NoResult, Sign, Enter
  <2> QED BY <1>1, <2>1, <2>2
<1>4. CASE /\ job[c] = "submit" /\ proving[c] # None /\ KeepProof(c)
           /\ Continue(c, proving[c])
           /\ UNCHANGED <<job, witness, connected, marked, asked, told, failed>>
  BY <1>1, <1>4 DEF KeepProof, Continue, Enter, Set
<1> QED BY <1>2, <1>3, <1>4 DEF Continues

LEMMA EndsDrafts ==
  ASSUME ConsoleTypeOK, NEW c \in Callers, Submitted(c) \/ SubmitFails(c)
  PROVE  /\ stage[c] # "idle"
         /\ \A d \in Callers : d # c => /\ stage'[d] = stage[d] /\ draft'[d] = draft[d]
                                       /\ attempt'[d] = attempt[d] /\ nextPoll'[d] = nextPoll[d]
         /\ \A d \in Callers : d # c => job'[d] = job[d]
         /\ stage'[c] = "idle" /\ attempt'[c] = 0 /\ job'[c] = None
         /\ UNCHANGED <<latest, proving, asked, now, gateOpen, sequence, applied>>
         /\ told \subseteq told' /\ marked \subseteq marked' /\ failed \subseteq failed'
<1>1. /\ stage \in [Callers -> Stages] /\ draft \in [Callers -> Transaction \cup {None}]
      /\ attempt \in [Callers -> 0..PollAttempts] /\ nextPoll \in [Callers -> Nat]
      /\ job \in [Callers -> {"run", "check", "submit", None}]
  BY DEF ConsoleTypeOK, SubmissionTypeOK
<1>2. /\ Settle(c) /\ job' = Set(job, c, None) /\ stage[c] # "idle"
      /\ UNCHANGED <<latest, proving, asked, now, gateOpen, sequence, applied>>
  BY DEF Submitted, SubmitFails, PollSuccess, PollEnds, SimulationFails, SendUnseen, PollFailure,
     Break, Result, ledgerVars
<1>3. told \subseteq told' /\ marked \subseteq marked' /\ failed \subseteq failed'
  BY DEF Submitted, SubmitFails, EndsWith
<1> QED BY <1>1, <1>2, <1>3 DEF Settle, Enter, Set

LEMMA DraftsStep ==
  ASSUME ConsoleIInv, [ConsoleNext]_tabsVars
  PROVE  DraftsMatch'
<1> USE DEF ConsoleIInv
<1>1. ASSUME NEW c \in Callers, TabStep(c)  PROVE DraftsMatch'
  <2>1. UNCHANGED <<stage, draft>>
    BY <1>1, TabStepTypes DEF callerVars
  <2> QED BY <1>1, <2>1, TabStepProofs DEF DraftsMatch, Aboard
<1>2. ASSUME NEW c \in Callers, Continues(c)  PROVE DraftsMatch'
  <2>1. ASSUME stage'[c] \in Aboard
        PROVE  draft'[c].caller = c /\ draft'[c].epoch = latest'[c].epoch
    <3>1. CASE BuildPayment(c)
      BY <3>1 DEF BuildPayment, Build, ConsoleTypeOK, SubmissionTypeOK, consoleVars, tabVars
    <3>2. CASE Proceed(c) \/ SignInWallet(c)
      BY <3>2 DEF Proceed, SignInWallet, Simulate, Send, PollAgain, NoResult, Sign, Aboard,
         consoleVars, tabVars, DraftsMatch
    <3>3. CASE SubmitLatest(c) \/ GetAddress(c) \/ Continue(c, proving[c])
      BY <2>1, <3>3 DEF SubmitLatest, GetAddress, Continue, Enter, Aboard, ConsoleTypeOK,
         SubmissionTypeOK
    <3> QED BY <1>2, <3>1, <3>2, <3>3 DEF Continues
  <2> QED BY <1>2, <2>1, ContinuesDrafts DEF DraftsMatch
<1>3. ASSUME NEW c \in Callers, Submitted(c) \/ SubmitFails(c)  PROVE DraftsMatch'
  BY <1>3, EndsDrafts DEF DraftsMatch, Aboard
<1>4. CASE Network /\ UNCHANGED consoleVars
  BY <1>4 DEF Network, Apply, Drop, ToggleGate, Tick, callerVars, consoleVars, tabVars,
     DraftsMatch
<1>5. CASE UNCHANGED tabsVars
  BY <1>5 DEF tabsVars, callerVars, consoleVars, tabVars, DraftsMatch
<1> QED BY <1>1, <1>2, <1>3, <1>4, <1>5, HowTabsMove

-----------------------------------------------------------------------------
(* What can still land.                                                    *)

LEMMA LandedStays ==
  ASSUME applied' = applied
  PROVE  Landed' = Landed
BY DEF Landed

LEMMA NetworkSent ==
  ASSUME Network
  PROVE  /\ UNCHANGED callerVars /\ now' \in {now, now + 1}
         /\ sent' \subseteq sent /\ Landed \subseteq Landed' /\ Landed' \subseteq Landed \cup sent
         /\ \A y \in Landed' \ Landed : now <= y.until
<1>1. ASSUME NEW x \in sent, Apply(x)
      PROVE  /\ Landed \subseteq Landed' /\ Landed' \subseteq Landed \cup {x} /\ now <= x.until
  <2>1. applied' \in {applied \cup {<<x, "SUCCESS">>}, applied \cup {<<x, "FAILED">>}}
    BY <1>1 DEF Apply
  <2>2. now <= x.until
    BY <1>1 DEF Apply
  <2>3. \A y : y \in Landed' => y \in Landed \cup {x}
    <3> SUFFICES ASSUME NEW y, y \in Landed'  PROVE y \in Landed \cup {x}
      OBVIOUS
    <3>1. PICK r \in applied' : r[2] = "SUCCESS" /\ y = r[1]
      BY DEF Landed
    <3>2. r \in applied \/ r[1] = x
      BY <2>1
    <3> QED BY <3>1, <3>2 DEF Landed
  <2>4. Landed \subseteq Landed'
    BY <2>1 DEF Landed
  <2> QED BY <2>2, <2>3, <2>4
<1>2. CASE \E x \in sent : Apply(x)
  BY <1>1, <1>2 DEF Apply
<1>3. CASE (\E x \in sent : Drop(x)) \/ ToggleGate \/ Tick
  BY <1>3, LandedStays DEF Drop, ToggleGate, Tick, callerVars
<1> QED BY <1>2, <1>3 DEF Network

LEMMA ContinuesSent ==
  ASSUME ConsoleIInv, NEW c \in Callers, Continues(c)
  PROVE  /\ Landed' = Landed
         /\ \A x \in sent' : x \in sent \/ (stage'[c] = "poll" /\ x = draft[c])
         /\ stage[c] = "poll" => stage'[c] = "poll"
         /\ stage'[c] = "poll" => draft'[c] = draft[c] /\ stage[c] \in {"send", "poll"}
<1>1. Landed' = Landed
  BY ContinuesTypes, LandedStays
<1>2. stage \in [Callers -> Stages]
  BY DEF ConsoleIInv, ConsoleTypeOK, SubmissionTypeOK
<1>3. stage[c] # "idle" => job[c] = "submit" /\ proving[c] = None
  BY DEF ConsoleIInv, ConsoleTypeOK
<1>4. CASE SubmitLatest(c) \/ (proving[c] # None /\ Continue(c, proving[c]))
  BY <1>1, <1>2, <1>3, <1>4, ProofAssumption DEF SubmitLatest, Continue, Enter, ledgerVars
<1>5. CASE GetAddress(c)
  BY <1>1, <1>2, <1>5 DEF GetAddress, Enter, ledgerVars
<1>6. CASE BuildPayment(c)
  BY <1>1, <1>2, <1>6 DEF BuildPayment, Build, Enter, ledgerVars
<1>7. CASE Simulate(c) \/ SignInWallet(c) \/ PollAgain(c)
  BY <1>1, <1>2, <1>7 DEF SignInWallet, Sign, Simulate, PollAgain, NoResult, Enter, ledgerVars
<1>8. CASE Send(c)
  BY <1>1, <1>2, <1>8 DEF Send, Enter
<1> QED BY <1>4, <1>5, <1>6, <1>7, <1>8 DEF Continues, Proceed

LEMMA EndsSent ==
  ASSUME ConsoleIInv, NEW c \in Callers, Submitted(c) \/ SubmitFails(c)
  PROVE  /\ Landed' = Landed
         /\ \A x \in sent' : x \in sent \/ (stage[c] = "send" /\ x = draft[c])
         /\ stage[c] \in Aboard /\ stage[c] \in {"send", "poll"} =>
              \/ <<draft[c], "error">> \in told'
              \/ draft[c].epoch \in marked' /\ stage[c] = "poll"
<1>1. Landed' = Landed
  BY EndsDrafts, LandedStays DEF ConsoleIInv
<1>2. \A x \in sent' : x \in sent \/ (stage[c] = "send" /\ x = draft[c])
  BY DEF Submitted, SubmitFails, PollSuccess, PollEnds, SimulationFails, SendUnseen,
     PollFailure, Break, ledgerVars
<1>3. stage[c] \in Aboard => draft[c].epoch = PaidEpoch(c)
  BY DEF ConsoleIInv, DraftsMatch, PaidEpoch
<1>4. CASE Submitted(c)
  BY <1>1, <1>2, <1>3, <1>4 DEF Submitted, EndsWith, Marks, PollSuccess, PollEnds, Result
<1>5. CASE SubmitFails(c)
  BY <1>1, <1>2, <1>5 DEF SubmitFails
<1> QED BY <1>4, <1>5

-----------------------------------------------------------------------------
(* A retry pays nothing new.                                               *)

LEMMA AskedStep ==
  ASSUME ConsoleIInv, ProofsAsked, [ConsoleNext]_tabsVars
  PROVE  ProofsAsked'
<1> USE DEF ConsoleIInv
<1>1. ASSUME NEW c \in Callers, TabStep(c)  PROVE ProofsAsked'
  <2>1. /\ UNCHANGED <<sent, Landed>> /\ asked \subseteq asked'
    BY <1>1, TabStepTypes, LandedStays DEF ledgerVars
  <2>2. /\ job \in [Callers -> {"run", "check", "submit", None}]
        /\ proving \in [Callers -> Proof \cup {None}]
        /\ latest \in [Callers -> Proof \cup {None}]
    BY DEF ConsoleTypeOK
  <2>3. CASE RunFlow(c) \/ RunFailureChecks(c)
    BY <2>1, <2>2, <2>3 DEF RunFlow, RunFailureChecks, BeginProof, Set, ProofsAsked
  <2>4. CASE SubmitProving(c)
    BY <2>1, <2>2, <2>4 DEF SubmitProving, NeedsProof, BeginProof, Set, ProofsAsked
  <2>5. CASE FinishRun(c) \/ ProofFails(c) \/ ConnectWallet(c) \/ \E w \in Witnesses : RememberWitness(c, w)
    BY <2>1, <2>2, <2>5, ProofAssumption
       DEF FinishRun, ProofFails, ConnectWallet, RememberWitness, KeepProof, Set, ProofsAsked
  <2>6. CASE /\ job[c] = "submit" /\ proving[c] # None /\ KeepProof(c)
             /\ UNCHANGED <<ledgerVars, callerVars>> /\ job' = Set(job, c, None)
             /\ UNCHANGED <<witness, connected, marked, asked, told, failed>>
    BY <2>1, <2>2, <2>6, ProofAssumption DEF KeepProof, Set, ProofsAsked
  <2> QED BY <1>1, <2>3, <2>4, <2>5, <2>6 DEF TabStep
<1>2. ASSUME NEW c \in Callers, Continues(c)  PROVE ProofsAsked'
  <2>1. /\ asked' = asked /\ Landed' = Landed
        /\ \A x \in sent' : x \in sent \/ (stage[c] \in {"send", "poll"} /\ x = draft[c])
    BY <1>2, ContinuesTypes, ContinuesSent
  <2>2. \A x \in sent' : x.epoch \in asked
    <3>1. stage[c] \in {"send", "poll"} => draft[c].epoch \in asked
      BY DEF DraftsMatch, Aboard, ProofsAsked
    <3> QED BY <2>1, <3>1 DEF ProofsAsked
  <2>3. \A d \in Callers : latest'[d] # None => latest'[d].epoch \in asked
    BY <1>2, ContinuesDrafts DEF ProofsAsked
  <2>4. \A d \in Callers : job'[d] = "submit" /\ proving'[d] # None => proving'[d].epoch \in asked
    BY <1>2, ContinuesDrafts DEF ProofsAsked
  <2> QED BY <2>1, <2>2, <2>3, <2>4 DEF ProofsAsked
<1>3. ASSUME NEW c \in Callers, Submitted(c) \/ SubmitFails(c)  PROVE ProofsAsked'
  <2>1. \A x \in sent' : x.epoch \in asked
    <3>1. stage[c] = "send" => draft[c].epoch \in asked
      BY DEF DraftsMatch, Aboard, ProofsAsked
    <3> QED BY <1>3, <3>1, EndsSent DEF ProofsAsked
  <2>2. UNCHANGED <<latest, proving, asked, Landed>>
    BY <1>3, EndsDrafts, EndsSent
  <2>3. \A d \in Callers : job'[d] = "submit" => job[d] = "submit"
    BY <1>3, EndsDrafts, ProofAssumption
  <2> QED BY <2>1, <2>2, <2>3 DEF ProofsAsked
<1>4. CASE Network /\ UNCHANGED consoleVars
  BY <1>4, NetworkSent DEF consoleVars, tabVars, ProofsAsked
<1>5. CASE UNCHANGED tabsVars
  BY <1>5, LandedStays DEF tabsVars, ledgerVars, consoleVars, tabVars, ProofsAsked
<1> QED BY <1>1, <1>2, <1>3, <1>4, <1>5, HowTabsMove

LEMMA InitialPage ==
  ASSUME ConsoleInit
  PROVE  ConsoleIInv /\ ProofsAsked
<1>1. ConsoleTypeOK
  BY SubmissionAssumption DEF ConsoleInit, SubmissionInit, ConsoleTypeOK, SubmissionTypeOK, Stages
<1> QED BY <1>1, ProofAssumption
        DEF ConsoleInit, SubmissionInit, ConsoleIInv, DraftsMatch, ProofsAsked, Aboard, Landed

(* However often submissions fail and are repeated, in whatever tabs, only *)
(* proofs that the visitor asked for are paid.                             *)
THEOREM RetriesPayOnce == ConsoleSpec => []RetryPaysOnce
<1>1. ConsoleInit => ConsoleIInv /\ ProofsAsked
  BY InitialPage
<1>2. ConsoleIInv /\ ProofsAsked /\ [ConsoleNext]_tabsVars => (ConsoleIInv /\ ProofsAsked)'
  BY TypesStep, DraftsStep, AskedStep DEF ConsoleIInv
<1>3. ConsoleIInv /\ ProofsAsked => RetryPaysOnce
  BY DEF ProofsAsked, RetryPaysOnce, Spent
<1> QED BY <1>1, <1>2, <1>3, PTL DEF ConsoleSpec

-----------------------------------------------------------------------------
(* What the page says of a payment, and the list of used epochs.           *)

LEMMA AccountedStep ==
  ASSUME ConsoleIInv, SentIsAccounted, [ConsoleNext]_tabsVars
  PROVE  SentIsAccounted'
<1>1. ASSUME NEW c \in Callers, TabStep(c)  PROVE SentIsAccounted'
  <2>1. UNCHANGED <<sent, Landed, stage, draft, marked, told>>
    BY <1>1, TabStepTypes, LandedStays DEF ConsoleIInv, ledgerVars, callerVars
  <2> QED BY <2>1 DEF SentIsAccounted
<1>2. ASSUME NEW c \in Callers, Continues(c)  PROVE SentIsAccounted'
  <2>1. UNCHANGED <<Landed, marked, told>>
    BY <1>2, ContinuesTypes, ContinuesSent
  <2>2. ASSUME NEW x \in sent \cup Landed
        PROVE  \/ x.epoch \in marked'
               \/ stage'[x.caller] = "poll" /\ draft'[x.caller] = x
               \/ <<x, "error">> \in told'
    <3>1. x \in Transaction
      BY DEF ConsoleIInv, ConsoleTypeOK, SubmissionTypeOK, Landed
    <3>2. x.caller \in Callers
      BY <3>1 DEF Transaction
    <3>3. CASE stage[x.caller] = "poll" /\ draft[x.caller] = x
      BY <1>2, <3>2, <3>3, ContinuesSent, ContinuesDrafts
    <3> QED BY <2>1, <3>3 DEF SentIsAccounted
  <2>3. ASSUME stage'[c] = "poll"
        PROVE  draft[c].caller = c /\ draft'[c] = draft[c]
    BY <1>2, <2>3, ContinuesSent DEF ConsoleIInv, DraftsMatch, Aboard
  <2> QED BY <1>2, <2>1, <2>2, <2>3, ContinuesSent DEF SentIsAccounted
<1>3. ASSUME NEW c \in Callers, Submitted(c) \/ SubmitFails(c)  PROVE SentIsAccounted'
  <2>1. /\ Landed' = Landed /\ marked \subseteq marked' /\ told \subseteq told'
        /\ \A d \in Callers : d # c => stage'[d] = stage[d] /\ draft'[d] = draft[d]
    BY <1>3, EndsSent, EndsDrafts DEF ConsoleIInv
  <2>2. ASSUME NEW x, x = draft[c], stage[c] \in {"send", "poll"}
        PROVE  x.epoch \in marked' \/ <<x, "error">> \in told'
    BY <1>3, <2>2, EndsSent DEF Aboard
  <2>3. ASSUME NEW x \in sent \cup Landed
        PROVE  \/ x.epoch \in marked'
               \/ stage'[x.caller] = "poll" /\ draft'[x.caller] = x
               \/ <<x, "error">> \in told'
    <3>1. x \in Transaction
      BY DEF ConsoleIInv, ConsoleTypeOK, SubmissionTypeOK, Landed
    <3>2. x.caller \in Callers
      BY <3>1 DEF Transaction
    <3>3. CASE x.caller = c /\ stage[c] = "poll" /\ draft[c] = x
      BY <2>2, <3>3
    <3> QED BY <2>1, <3>2, <3>3 DEF SentIsAccounted
  <2>4. \A x \in sent' : x \in sent \/ (stage[c] = "send" /\ x = draft[c])
    BY <1>3, EndsSent
  <2> QED BY <2>1, <2>2, <2>3, <2>4 DEF SentIsAccounted
<1>4. CASE Network /\ UNCHANGED consoleVars
  BY <1>4, NetworkSent DEF callerVars, consoleVars, tabVars, SentIsAccounted
<1>5. CASE UNCHANGED tabsVars
  BY <1>5, LandedStays DEF tabsVars, ledgerVars, callerVars, consoleVars, tabVars, SentIsAccounted
<1> QED BY <1>1, <1>2, <1>3, <1>4, <1>5, HowTabsMove DEF ConsoleIInv

\* The last poll without an answer comes after the transaction's time.
LEMMA LastPoll ==
  ASSUME PollsOutlast, ConsoleIInv, PollsPaced, NEW c \in Callers, PollAgain(c)
  PROVE  /\ now + PollInterval + Timeout >= draft[c].until + (attempt[c] + 1) * PollInterval
         /\ attempt[c] + 1 = PollAttempts => now > draft[c].until
         /\ draft[c] \notin Landed
<1>1. /\ stage[c] = "poll" /\ attempt[c] \in Nat /\ nextPoll[c] \in Nat /\ now \in Nat
      /\ now >= nextPoll[c] /\ draft[c] \in Transaction
  BY DEF PollAgain, NoResult, ConsoleIInv, ConsoleTypeOK, SubmissionTypeOK
<1>2. draft[c].until \in Nat
  BY <1>1 DEF Transaction
<1>3. /\ PollInterval \in Nat /\ Timeout \in Nat /\ PollAttempts \in Nat
  BY SubmissionAssumption
<1>4. nextPoll[c] + Timeout >= draft[c].until + attempt[c] * PollInterval
  BY <1>1 DEF PollsPaced
<1>5. (attempt[c] + 1) * PollInterval = attempt[c] * PollInterval + PollInterval
  BY <1>1, <1>3
<1>6. attempt[c] * PollInterval \in Nat
  BY <1>1, <1>3
<1>7. now + PollInterval + Timeout >= draft[c].until + (attempt[c] + 1) * PollInterval
  BY <1>1, <1>2, <1>3, <1>4, <1>5, <1>6
<1>8. ASSUME attempt[c] + 1 = PollAttempts  PROVE now > draft[c].until
  <2>1. attempt[c] = PollAttempts - 1
    BY <1>1, <1>3, <1>8
  <2>2. Timeout < attempt[c] * PollInterval
    BY <2>1 DEF PollsOutlast
  <2> QED BY <1>1, <1>2, <1>3, <1>4, <1>6, <2>2
<1>9. draft[c] \notin Landed
  <2> SUFFICES ASSUME draft[c] \in Landed  PROVE FALSE
    OBVIOUS
  <2>1. PICK r \in applied : r[2] = "SUCCESS" /\ r[1] = draft[c]
    BY DEF Landed
  <2>2. r = <<draft[c], "SUCCESS">>
    BY <2>1 DEF ConsoleIInv, ConsoleTypeOK, SubmissionTypeOK
  <2> QED BY <2>2 DEF PollAgain, NoResult
<1> QED BY <1>7, <1>8, <1>9

LEMMA PacedStep ==
  ASSUME PollsOutlast, ConsoleIInv, PollsPaced, [ConsoleNext]_tabsVars
  PROVE  PollsPaced'
<1>1. ASSUME NEW c \in Callers, TabStep(c)  PROVE PollsPaced'
  BY <1>1, TabStepTypes, LandedStays DEF ConsoleIInv, ledgerVars, callerVars, PollsPaced
<1>2. ASSUME NEW c \in Callers, Continues(c)  PROVE PollsPaced'
  <2>1. /\ now' = now /\ Landed' = Landed
        /\ \A d \in Callers : d # c => /\ stage'[d] = stage[d] /\ draft'[d] = draft[d]
                                      /\ attempt'[d] = attempt[d] /\ nextPoll'[d] = nextPoll[d]
    BY <1>2, ContinuesTypes, ContinuesSent, ContinuesDrafts
  <2>2. /\ stage \in [Callers -> Stages] /\ draft \in [Callers -> Transaction \cup {None}]
        /\ attempt \in [Callers -> 0..PollAttempts] /\ nextPoll \in [Callers -> Nat]
        /\ now \in Nat /\ Timeout \in Nat /\ PollInterval \in Nat /\ PollAttempts \in Nat \ {0}
    BY SubmissionAssumption DEF ConsoleIInv, ConsoleTypeOK, SubmissionTypeOK
  <2>3. stage[c] # "idle" => proving[c] = None /\ job[c] # None
    BY ProofAssumption DEF ConsoleIInv, ConsoleTypeOK
  <2> DEFINE Paced ==
        /\ stage'[c] # "poll" => attempt'[c] = 0
        /\ stage'[c] \in Aboard => draft'[c].until <= now + Timeout
        /\ stage'[c] = "poll" =>
             nextPoll'[c] + Timeout >= draft'[c].until + attempt'[c] * PollInterval
        /\ stage'[c] = "poll" /\ attempt'[c] = PollAttempts =>
             draft'[c] \notin Landed /\ now > draft'[c].until
  <2>4. Paced
    <3>1. CASE SubmitLatest(c) \/ GetAddress(c) \/ (proving[c] # None /\ Continue(c, proving[c]))
      <4>1. stage[c] # "poll" /\ stage'[c] \in {"connect", "account"} /\ attempt' = attempt
        BY <2>2, <2>3, <3>1 DEF SubmitLatest, GetAddress, Continue, Enter, NeedsProof, Stages
      <4> QED BY <4>1 DEF Aboard, PollsPaced
    <3>2. CASE BuildPayment(c)
      <4>1. /\ stage[c] = "account" /\ stage'[c] = "simulate" /\ attempt' = attempt
            /\ draft'[c].until = now + Timeout
        BY <2>2, <3>2 DEF BuildPayment, Build, Enter
      <4> QED BY <2>2, <4>1 DEF PollsPaced
    <3>3. CASE Simulate(c) \/ SignInWallet(c)
      <4>1. /\ stage[c] \in {"simulate", "wallet"} /\ stage'[c] \in {"wallet", "send"}
            /\ UNCHANGED <<attempt, draft>>
        BY <2>2, <3>3 DEF Simulate, SignInWallet, Sign, Enter
      <4> QED BY <4>1 DEF PollsPaced, Aboard
    <3>4. CASE Send(c)
      <4>1. /\ stage[c] = "send" /\ stage'[c] = "poll" /\ nextPoll'[c] = now
            /\ UNCHANGED <<attempt, draft>>
        BY <2>2, <3>4 DEF Send, Enter
      <4>2. attempt[c] = 0 /\ draft[c].until <= now + Timeout /\ draft[c] \in Transaction
        BY <2>2, <4>1 DEF PollsPaced, Aboard, ConsoleIInv, ConsoleTypeOK, SubmissionTypeOK
      <4>3. draft[c].until \in Nat
        <5> DEFINE d == draft[c]
        <5>1. d \in Transaction
          BY <4>2
        <5> HIDE DEF d
        <5>2. d.until \in Nat
          BY <5>1 DEF Transaction
        <5> QED BY <5>2 DEF d
      <4>4. 0 * PollInterval = 0
        BY <2>2
      <4> QED BY <2>2, <4>1, <4>2, <4>3, <4>4
    <3>5. CASE PollAgain(c)
      <4>1. /\ stage[c] = "poll" /\ stage'[c] = "poll" /\ nextPoll'[c] = now + PollInterval
            /\ attempt'[c] = attempt[c] + 1 /\ draft' = draft
        BY <2>2, <3>5 DEF PollAgain, NoResult
      <4>2. draft[c].until <= now + Timeout
        BY <4>1 DEF PollsPaced, Aboard
      <4> QED BY <3>5, <4>1, <4>2, LastPoll
    <3> QED BY <1>2, <3>1, <3>2, <3>3, <3>4, <3>5 DEF Continues, Proceed
  <2> QED BY <2>1, <2>4 DEF PollsPaced
<1>3. ASSUME NEW c \in Callers, Submitted(c) \/ SubmitFails(c)  PROVE PollsPaced'
  <2>1. /\ \A d \in Callers : d # c => /\ stage'[d] = stage[d] /\ draft'[d] = draft[d]
                                       /\ attempt'[d] = attempt[d] /\ nextPoll'[d] = nextPoll[d]
        /\ stage'[c] = "idle" /\ attempt'[c] = 0 /\ now' = now
    BY <1>3, EndsDrafts DEF ConsoleIInv
  <2>2. Landed' = Landed
    BY <1>3, EndsSent
  <2>3. "idle" # "poll" /\ "idle" \notin Aboard
    BY DEF Aboard
  <2> HIDE DEF Landed, Aboard
  <2> QED BY <2>1, <2>2, <2>3 DEF PollsPaced
<1>4. CASE Network /\ UNCHANGED consoleVars
  <2>1. /\ UNCHANGED callerVars /\ now' \in {now, now + 1}
        /\ \A y \in Landed' \ Landed : now <= y.until
    BY <1>4, NetworkSent
  <2>2. now \in Nat /\ Timeout \in Nat
    BY SubmissionAssumption DEF ConsoleIInv, ConsoleTypeOK, SubmissionTypeOK
  <2>3. \A d \in Callers : stage[d] \in Aboard => draft[d].until \in Nat
    <3>1. \A d \in Callers : stage[d] \in Aboard => draft[d] \in Transaction
      BY DEF Aboard, ConsoleIInv, ConsoleTypeOK, SubmissionTypeOK
    <3> QED BY <3>1 DEF Transaction
  <2> QED BY <2>1, <2>2, <2>3 DEF callerVars, PollsPaced, Aboard
<1>5. CASE UNCHANGED tabsVars
  BY <1>5, LandedStays DEF tabsVars, ledgerVars, callerVars, PollsPaced
<1> QED BY <1>1, <1>2, <1>3, <1>4, <1>5, HowTabsMove

LEMMA ToldStep ==
  ASSUME ConsoleIInv, PollsPaced, ToldIsTrue, [ConsoleNext]_tabsVars
  PROVE  ToldIsTrue'
<1>1. ASSUME NEW c \in Callers, TabStep(c)  PROVE ToldIsTrue'
  BY <1>1, TabStepTypes, LandedStays DEF ConsoleIInv, ledgerVars, ToldIsTrue
<1>2. ASSUME NEW c \in Callers, Continues(c)  PROVE ToldIsTrue'
  BY <1>2, ContinuesTypes, ContinuesSent DEF ToldIsTrue
<1>3. ASSUME NEW c \in Callers, Submitted(c) \/ SubmitFails(c)  PROVE ToldIsTrue'
  <2>1. now' = now /\ Landed' = Landed
    BY <1>3, EndsDrafts, EndsSent DEF ConsoleIInv
  <2>2. CASE PollSuccess(c) /\ EndsWith(c, "SUCCESS")
    <3>1. told' = told \cup {<<draft[c], "SUCCESS">>} /\ draft[c] \in Landed
      BY <2>2 DEF PollSuccess, Result, EndsWith, Landed
    <3> QED BY <2>1, <3>1 DEF ToldIsTrue
  <2>3. CASE PollEnds(c) /\ EndsWith(c, "PENDING")
    <3>1. /\ told' = told \cup {<<draft[c], "PENDING">>}
          /\ draft[c] \notin Landed /\ now > draft[c].until
      BY <2>3 DEF PollEnds, EndsWith, PollsPaced
    <3> QED BY <2>1, <3>1 DEF ToldIsTrue
  <2>4. CASE SubmitFails(c)
    <3>1. \A r \in told' : r \in told \/ r[2] = "error"
      BY <2>4 DEF SubmitFails
    <3> QED BY <2>1, <3>1 DEF ToldIsTrue
  <2> QED BY <1>3, <2>2, <2>3, <2>4 DEF Submitted
<1>4. CASE Network /\ UNCHANGED consoleVars
  <2>1. /\ now' \in {now, now + 1} /\ told' = told /\ Landed \subseteq Landed'
        /\ \A y \in Landed' \ Landed : now <= y.until
    BY <1>4, NetworkSent DEF consoleVars
  <2>2. now \in Nat /\ \A r \in told : r[1].until \in Nat
    BY DEF ConsoleIInv, ConsoleTypeOK, SubmissionTypeOK, Transaction
  <2> QED BY <2>1, <2>2 DEF ToldIsTrue
<1>5. CASE UNCHANGED tabsVars
  BY <1>5, LandedStays DEF tabsVars, ledgerVars, consoleVars, ToldIsTrue
<1> QED BY <1>1, <1>2, <1>3, <1>4, <1>5, HowTabsMove

LEMMA MarkedStep ==
  ASSUME ConsoleIInv, MarkedIsAccounted, [ConsoleNext]_tabsVars
  PROVE  MarkedIsAccounted'
<1>1. CASE marked' = marked /\ Landed \subseteq Landed' /\ told' = told /\ failed' = failed
  BY <1>1 DEF MarkedIsAccounted, Spent
<1>2. ASSUME NEW c \in Callers, TabStep(c)  PROVE MarkedIsAccounted'
  BY <1>1, <1>2, TabStepTypes, LandedStays DEF ConsoleIInv, ledgerVars
<1>3. ASSUME NEW c \in Callers, Continues(c)  PROVE MarkedIsAccounted'
  <2>1. failed' = failed
    BY <1>3 DEF Continues, SubmitLatest, GetAddress, BuildPayment, Proceed, SignInWallet, consoleVars
  <2> QED BY <1>1, <1>3, <2>1, ContinuesTypes, LandedStays
<1>4. ASSUME NEW c \in Callers, Submitted(c) \/ SubmitFails(c)  PROVE MarkedIsAccounted'
  <2>1. told \subseteq told' /\ failed \subseteq failed' /\ Landed' = Landed
    BY <1>4, EndsDrafts, EndsSent DEF ConsoleIInv
  <2>2. stage[c] \in Aboard => draft[c].epoch = PaidEpoch(c)
    BY DEF ConsoleIInv, DraftsMatch, PaidEpoch
  <2>3. ASSUME NEW e \in marked' \ marked
        PROVE  \/ e \in Spent' \cup failed'
               \/ \E ended \in told' : ended[2] = "PENDING" /\ ended[1].epoch = e
    <3>1. CASE PollSuccess(c) /\ EndsWith(c, "SUCCESS")
      <4>1. e = draft[c].epoch /\ draft[c] \in Landed
        BY <2>2, <2>3, <3>1 DEF PollSuccess, Result, EndsWith, Marks, Aboard, Landed
      <4> QED BY <2>1, <4>1 DEF Spent
    <3>2. CASE PollEnds(c) /\ EndsWith(c, "PENDING")
      <4>1. e = draft[c].epoch /\ <<draft[c], "PENDING">> \in told'
        BY <2>2, <2>3, <3>2 DEF PollEnds, EndsWith, Marks, Aboard
      <4> QED BY <4>1
    <3>3. CASE SubmitFails(c)
      BY <2>3, <3>3 DEF SubmitFails
    <3> QED BY <1>4, <3>1, <3>2, <3>3 DEF Submitted
  <2> QED BY <2>1, <2>3 DEF MarkedIsAccounted, Spent
<1>5. CASE Network /\ UNCHANGED consoleVars
  BY <1>1, <1>5, NetworkSent DEF consoleVars
<1>6. CASE UNCHANGED tabsVars
  BY <1>1, <1>6, LandedStays DEF tabsVars, ledgerVars, consoleVars
<1> QED BY <1>2, <1>3, <1>4, <1>5, <1>6, HowTabsMove

(* Every payment that landed is in the browser's list of used epochs,      *)
(* still polled, or ended with an error; and every epoch in the list is    *)
(* spent, or a submission with it ended as PENDING or with an error: for   *)
(* any number of tabs and any lengths of polls and timeouts.               *)
THEOREM UsedEpochsStayAccounted == ConsoleSpec => []UsedEpochsAreAccounted
<1> DEFINE IInv == ConsoleIInv /\ SentIsAccounted /\ MarkedIsAccounted
<1>1. ConsoleInit => IInv
  BY InitialPage DEF ConsoleInit, SubmissionInit, SentIsAccounted, MarkedIsAccounted, Landed
<1>2. IInv /\ [ConsoleNext]_tabsVars => IInv'
  BY TypesStep, DraftsStep, AccountedStep, MarkedStep DEF ConsoleIInv
<1>3. IInv => UsedEpochsAreAccounted
  BY DEF UsedEpochsAreAccounted, LandedIsAccounted, SentIsAccounted
<1> QED BY <1>1, <1>2, <1>3, PTL DEF ConsoleSpec

(* When the polls last longer than a transaction is valid, a payment whose *)
(* polling ended as PENDING never lands, and one that ended with SUCCESS   *)
(* has landed.                                                             *)
THEOREM PendingStaysFinal ==
  ASSUME PollsOutlast
  PROVE  ConsoleSpec => []PendingIsFinal
<1> DEFINE IInv == ConsoleIInv /\ PollsPaced /\ ToldIsTrue
<1>1. ConsoleInit => IInv
  BY InitialPage DEF ConsoleInit, SubmissionInit, PollsPaced, ToldIsTrue, Aboard, Landed
<1>2. IInv /\ [ConsoleNext]_tabsVars => IInv'
  BY TypesStep, DraftsStep, PacedStep, ToldStep DEF ConsoleIInv
<1>3. IInv => PendingIsFinal
  BY DEF PendingIsFinal, ToldIsTrue
<1> QED BY <1>1, <1>2, <1>3, PTL DEF ConsoleSpec

-----------------------------------------------------------------------------
(* The arguments of a call.                                                *)

AskedTypes ==
  \A f \in ActionFields : /\ action[f].n \in Nat
                          /\ action[f] = [form |-> action[f].form, n |-> action[f].n]

\* A number that was rounded shows: MaxSafe is odd, so that what is beyond it
\* stays beyond it.
LEMMA RoundingShows ==
  ASSUME NEW n \in Nat, Rounded(n) <= MaxSafe
  PROVE  n <= MaxSafe /\ Rounded(n) = n
<1>1. MaxSafe \in Nat /\ MaxSafe % 2 = 1
  BY WidthAssumption
<1>2. CASE n <= MaxSafe
  BY <1>2 DEF Rounded
<1>3. CASE ~ (n <= MaxSafe)
  <2>1. n - (n % 2) <= MaxSafe
    BY <1>3 DEF Rounded
  <2>2. n % 2 \in {0, 1} /\ (n = MaxSafe + 1 => n % 2 = 0)
    BY <1>1
  <2> QED BY <1>1, <1>3, <2>1, <2>2
<1> QED BY <1>2, <1>3

\* A value that is compared as a decimal string is the one that was written.
LEMMA DecimalIsWritten ==
  ASSUME NEW v, v.n \in Nat, v = [form |-> v.form, n |-> v.n],
         DecimalString(Parsed(v)) # Refused
  PROVE  DecimalString(Parsed(v)) = v.n
<1>1. CASE v.form = "number"
  <2>1. Parsed(v).form = "number" /\ Parsed(v).n = Rounded(v.n)
    BY <1>1 DEF Parsed
  <2>2. ~ (Rounded(v.n) > MaxSafe) /\ DecimalString(Parsed(v)) = Rounded(v.n)
    BY <2>1 DEF DecimalString
  <2>3. Rounded(v.n) \in Nat /\ MaxSafe \in Nat
    BY WidthAssumption DEF Rounded
  <2>4. Rounded(v.n) <= MaxSafe
    BY <2>2, <2>3
  <2> QED BY <2>2, <2>4, RoundingShows
<1>2. CASE v.form # "number"
  BY <1>2 DEF Parsed, DecimalString
<1> QED BY <1>1, <1>2

LEMMA BuiltIsAsked ==
  ASSUME AskedTypes, NEW signals, NEW o,
         o = BuildArgs(flow, [f \in ActionFields |-> Parsed(action[f])], signals),
         o.state = "built"
  PROVE  /\ o.amount = action["amount"].n
         /\ o.epoch = action["epoch"].n
         /\ o.signals["action_type"] = action["action_type"].n
         /\ o.signals["action_type"] = TypeOfFlow[o.gate]
         /\ o.signals["epoch"] = o.epoch
         /\ o.signals["amount"] = o.amount
         /\ o.signals["packet_hash"] = o.packet
<1> DEFINE parsed == [f \in ActionFields |-> Parsed(action[f])]
<1>1. FlowMatches(flow, parsed, signals) /\ FitsArguments(signals)
  <2> HIDE DEF parsed
  <2>1. CASE ~ (FlowMatches(flow, parsed, signals) /\ FitsArguments(signals))
    <3>1. o = [state |-> "refused"]
      BY <2>1 DEF BuildArgs, parsed
    <3> QED BY <3>1
  <2> QED BY <2>1
<1>2. o = [state |-> "built", gate |-> flow, signals |-> signals, epoch |-> Rounded(signals["epoch"]),
           amount |-> signals["amount"], packet |-> signals["packet_hash"]]
  BY <1>1 DEF BuildArgs
<1>3. ASSUME NEW f \in ActionFields
      PROVE  signals[f] = action[f].n /\ action[f].n \in Nat
  <2>1. DecimalString(parsed[f]) # Refused /\ DecimalString(parsed[f]) = signals[f]
    BY <1>1, <1>3 DEF FlowMatches, ActionMatches, Compared
  <2>2. parsed[f] = Parsed(action[f])
    BY <1>3
  <2> HIDE DEF parsed
  <2> QED BY <1>3, <2>1, <2>2, DecimalIsWritten DEF AskedTypes
<1>4. {"epoch", "amount", "action_type"} \subseteq ActionFields
  BY DEF ActionFields
<1>5. Rounded(signals["epoch"]) = signals["epoch"]
  <2>1. signals["epoch"] \in Nat
    BY <1>3, <1>4
  <2>2. Rounded(signals["epoch"]) <= MaxU32
    BY <1>1 DEF FitsArguments
  <2>3. Rounded(signals["epoch"]) \in Nat /\ MaxU32 \in Nat /\ MaxSafe \in Nat /\ MaxU32 < MaxSafe
    BY <2>1, WidthAssumption DEF Rounded
  <2>4. Rounded(signals["epoch"]) <= MaxSafe
    BY <2>2, <2>3
  <2> QED BY <2>1, <2>4, RoundingShows
<1>6. signals["action_type"] = TypeOfFlow[flow]
  BY <1>1 DEF FlowMatches
<1> QED BY <1>2, <1>3, <1>4, <1>5, <1>6

(* packages/sdk/src/index.js: whatever forms, overrides, proofs and        *)
(* numbers come together, arguments are built only of what was parsed, and  *)
(* for every width of the safe integers that is odd.                       *)
THEOREM NothingElseIsBuilt == SdkSpec => []ArgumentsAreAsked
<1> DEFINE Inv == AskedTypes /\ ArgumentsAreAsked
<1>1. SdkInit => Inv
  <2> SUFFICES ASSUME SdkInit  PROVE Inv
    OBVIOUS
  <2>1. outcome.state = "pending"
    BY DEF SdkInit
  <2>2. AskedTypes
    <3>1. PICK t \in AsString(Types), e \in Written({"number", "string"}, EpochValues),
               a \in Written(Forms, AmountValues) :
            action = [action_type |-> t, epoch |-> e, amount |-> a]
      BY DEF SdkInit
    <3>2. t.n \in Nat /\ t = [form |-> t.form, n |-> t.n]
      BY WidthAssumption DEF AsString, Written
    <3>3. e.n \in Nat /\ e = [form |-> e.form, n |-> e.n]
      BY WidthAssumption DEF Written
    <3>4. a.n \in Nat /\ a = [form |-> a.form, n |-> a.n]
      BY WidthAssumption DEF Written
    <3> QED BY <3>1, <3>2, <3>3, <3>4 DEF AskedTypes, ActionFields
  <2> QED BY <2>1, <2>2 DEF ArgumentsAreAsked, Built
<1>2. Inv /\ [Invoke]_sdkVars => Inv'
  <2> SUFFICES ASSUME Inv, [Invoke]_sdkVars  PROVE Inv'
    OBVIOUS
  <2>1. CASE Invoke
    <3>1. PICK signals : outcome' = BuildArgs(flow, [f \in ActionFields |-> Parsed(action[f])], signals)
      BY <2>1 DEF Invoke
    <3>2. UNCHANGED <<flow, action>>
      BY <2>1 DEF Invoke
    <3>3. AskedTypes'
      BY <3>2 DEF AskedTypes
    <3>4. ArgumentsAreAsked'
      <4> SUFFICES ASSUME outcome'.state = "built"  PROVE ArgumentsAreAsked'
        BY DEF ArgumentsAreAsked, Built
      <4> QED BY <3>1, <3>2, BuiltIsAsked DEF ArgumentsAreAsked
    <3> QED BY <3>3, <3>4
  <2>2. CASE UNCHANGED sdkVars
    BY <2>2 DEF sdkVars, AskedTypes, ArgumentsAreAsked, Built
  <2> QED BY <2>1, <2>2
<1> QED BY <1>1, <1>2, PTL DEF SdkSpec

-----------------------------------------------------------------------------
(* The types of what a visitor's browser runs and talks to.                *)

\* The tokens that are told come with the user id they are for.
Complete(r) ==
  r.path = "token" /\ r.reply.code = 200 => r.reply.user # Null /\ r.reply.token # Null

TokenReplies == \A s \in Slots : requests[s] # Null => Complete(requests[s])

LEMMA ReplyCodes ==
  /\ NoReply.code = 0
  /\ \A code \in {400, 401, 429, 500, 502} : Failed(code).code = code
BY DEF NoReply, Failed

LEMMA ReplyPut ==
  ASSUME SessionIInv, TokenReplies, NEW s \in Slots, NEW r,
         requests' = [requests EXCEPT ![s] = r], Complete(r)
  PROVE  TokenReplies'
<1>1. requests \in [Slots -> Request \cup {Null}]
  BY DEF SessionIInv, SessionTypes
<1>2. \A x \in Slots : requests'[x] = IF x = s THEN r ELSE requests[x]
  BY <1>1
<1> QED BY <1>2 DEF TokenReplies

LEMMA AnswerCompletes ==
  ASSUME SessionIInv, NEW s \in Slots, requests[s] # Null, NEW reply \in Reply,
         requests[s].path = "token" /\ reply.code = 200 => reply.user # Null /\ reply.token # Null
  PROVE  Complete(AnswerTo(requests[s], reply))
<1> DEFINE q == requests[s]
           r == AnswerTo(q, reply)
<1>1. q \in Request
  BY DEF SessionIInv, SessionTypes
<1>2. r.path = q.path
  <2> HIDE DEF q
  <2> QED BY <1>1 DEF AnswerTo, Request
<1>3. r.reply = reply
  <2> HIDE DEF q
  <2> QED BY <1>1, AnsweredRequest
<1> HIDE DEF r
<1>4. Complete(r)
  BY <1>2, <1>3 DEF Complete
<1> QED BY <1>4 DEF r

LEMMA ServeCompletes ==
  ASSUME SessionIInv, TokenReplies, NEW s \in Slots, Serve(s)
  PROVE  TokenReplies'
<1> DEFINE q == requests[s]
<1>1. q # Null
  BY DEF Serve, RefuseBody, ReadTokenBody, ReadStatusBody, MintTokens, GetApplicant, GetCredential,
     ProviderFails, At
<1>2. q \in Request /\ Complete(q) /\ OwnRequest(q)
  BY <1>1 DEF SessionIInv, SessionTypes, SessionsKept, TokenReplies
<1>3. ASSUME NEW code \in {400, 401, 429, 500, 502}, Answer(s, Failed(code))
      PROVE  TokenReplies'
  <2>1. Failed(code) \in Reply /\ Failed(code).code # 200
    BY ReplyTypes, ReplyCodes
  <2>2. Complete(AnswerTo(requests[s], Failed(code)))
    BY <1>1, <2>1, AnswerCompletes
  <2>3. requests' = [requests EXCEPT ![s] = AnswerTo(requests[s], Failed(code))]
    BY <1>3 DEF Answer, Put, AnswerTo
  <2> QED BY <2>2, <2>3, ReplyPut
<1>4. ASSUME q.path = "status", NEW x \in Answers \cup {Null}, NEW u \in Users \cup {Null},
             Answer(s, Reported(x, u))
      PROVE  TokenReplies'
  <2>1. Reported(x, u) \in Reply
    BY ReplyTypes
  <2>2. Complete(AnswerTo(requests[s], Reported(x, u)))
    BY <1>1, <1>4, <2>1, AnswerCompletes
  <2>3. requests' = [requests EXCEPT ![s] = AnswerTo(requests[s], Reported(x, u))]
    BY <1>4 DEF Answer, Put, AnswerTo
  <2> QED BY <2>2, <2>3, ReplyPut
<1>5. ASSUME NEW to, NEW u, Advance(s, to, u)
      PROVE  TokenReplies'
  <2> DEFINE r == [q EXCEPT !.stage = to, !.subject = u]
  <2>1. r.path = q.path /\ r.reply = q.reply
    <3> HIDE DEF q
    <3> QED BY <1>2 DEF Request
  <2>2. requests' = [requests EXCEPT ![s] = r]
    BY <1>5 DEF Advance, Put
  <2> HIDE DEF r
  <2>3. Complete(r)
    BY <1>2, <2>1 DEF Complete
  <2> QED BY <2>2, <2>3, ReplyPut
<1>6. CASE MintTokens(s)
  <2> DEFINE u == q.subject
             t == Len(mintedFor) + 1
  <2>1. q.stage = "access token" /\ t \in Tokens /\ Answer(s, Minted(u, t))
    BY <1>6 DEF MintTokens, At
  <2>2. u # Null /\ u \in Users /\ t # Null
    BY <1>2, <2>1, NullIsNothing DEF OwnRequest, Request
  <2>3. requests' = [requests EXCEPT ![s] = AnswerTo(requests[s], Minted(u, t))]
    BY <2>1 DEF Answer, Put, AnswerTo
  <2> HIDE DEF u, t
  <2>4. Minted(u, t) \in Reply /\ Minted(u, t).user = u /\ Minted(u, t).token = t
    <3>1. u \in Users /\ t \in Tokens
      BY <2>1, <2>2
    <3> QED BY ONLY <3>1, ReplyTypes
  <2>5. Complete(AnswerTo(requests[s], Minted(u, t)))
    BY <1>1, <2>2, <2>4, AnswerCompletes
  <2> QED BY <2>3, <2>5, ReplyPut
<1>7. CASE RefuseBody(s)
  BY <1>3, <1>7 DEF RefuseBody
<1>8. CASE ReadTokenBody(s)
  BY <1>5, <1>8 DEF ReadTokenBody
<1>9. CASE ReadStatusBody(s)
  BY <1>3, <1>5, <1>9 DEF ReadStatusBody
<1>10. CASE GetApplicant(s)
  <2>1. q.path = "status"
    BY <1>10 DEF GetApplicant, At
  <2>2. review[q.subject] = "RED" => "RED" \in Answers
    <3>1. q.stage = "applicant" /\ q.subject \in Users
      BY <1>2, <1>10 DEF GetApplicant, At, OwnRequest, Request
    <3> QED BY <3>1 DEF SessionIInv, SessionTypes, Reviews
  <2> QED BY <1>4, <1>5, <1>10, <2>1, <2>2 DEF GetApplicant
<1>11. CASE GetCredential(s)
  <2>1. q.path = "status" /\ q.stage = "credential"
    BY <1>11 DEF GetCredential, At
  <2>2. "GREEN" \in Answers /\ VerifiedCredential(q.subject) \in Users \cup {Null}
    BY <1>2, <2>1 DEF OwnRequest, Request, VerifiedCredential
  <2> QED BY <1>4, <1>11, <2>1, <2>2 DEF GetCredential
<1>12. CASE ProviderFails(s)
  <2>1. \/ Answer(s, Failed(500)) \/ Answer(s, Failed(502))
        \/ q.path = "status" /\ Answer(s, Reported(Null, Null))
    BY <1>12 DEF ProviderFails, At
  <2>2. Null \in Answers \cup {Null} /\ Null \in Users \cup {Null}
    OBVIOUS
  <2> QED BY <1>3, <1>4, <2>1, <2>2
<1> QED BY <1>6, <1>7, <1>8, <1>9, <1>10, <1>11, <1>12 DEF Serve

LEMMA TokenRepliesStep ==
  ASSUME SessionIInv, TokenReplies, [ClientsNext]_backendVars
  PROVE  TokenReplies'
<1>1. requests \in [Slots -> Request \cup {Null}]
  BY DEF SessionIInv, SessionTypes
<1>2. CASE \E s \in Slots : Serve(s)
  BY <1>2, ServeCompletes
<1>3. ASSUME NEW s \in Slots, NEW c, NEW u, NEW t, AskToken(s, c, u, t)
      PROVE  TokenReplies'
  <2> DEFINE q == Open(c, "token", u, t)
             p == [q EXCEPT !.stage = "answered", !.reply = Failed(429)]
  <2>1. q.reply = NoReply /\ p.reply = Failed(429)
    BY DEF Open
  <2>2. requests' = [requests EXCEPT ![s] = p] \/ requests' = [requests EXCEPT ![s] = q]
    BY <1>3 DEF AskToken, Put
  <2> HIDE DEF p, q
  <2>3. Complete(p) /\ Complete(q)
    BY <2>1, ReplyCodes DEF Complete
  <2> QED BY <2>2, <2>3, ReplyPut
<1>4. ASSUME NEW s \in Slots, NEW c, NEW t, AskStatus(s, c, t)
      PROVE  TokenReplies'
  <2> DEFINE q == Open(c, "status", Null, t)
  <2>1. q.path = "status"
    BY DEF Open
  <2>2. requests' = [requests EXCEPT ![s] = q]
    BY <1>4 DEF AskStatus, Put
  <2> HIDE DEF q
  <2>3. Complete(q)
    BY <2>1 DEF Complete
  <2> QED BY <2>2, <2>3, ReplyPut
<1>5. CASE \E s \in Slots, c \in Connections : Ask(s, c)
  BY <1>3, <1>4, <1>5 DEF Ask
<1>6. CASE \E s \in Slots : Close(s)
  <2>1. PICK s \in Slots : Close(s)
    BY <1>6
  <2>2. \A x \in Slots : requests'[x] = IF x = s THEN Null ELSE requests[x]
    BY <1>1, <2>1 DEF Close
  <2> QED BY <2>2 DEF TokenReplies
<1>7. CASE Restart
  <2>1. requests' = [s \in Slots |->
          IF requests[s] = Null \/ requests[s].stage = "answered" THEN requests[s]
          ELSE AnswerTo(requests[s], Failed(500))]
    BY <1>7 DEF Restart, AnswerTo
  <2>2. ASSUME NEW s \in Slots, requests[s] # Null
        PROVE  Complete(AnswerTo(requests[s], Failed(500)))
    <3>1. Failed(500) \in Reply /\ Failed(500).code # 200
      BY ReplyTypes, ReplyCodes
    <3> QED BY <2>2, <3>1, AnswerCompletes
  <2>3. ASSUME NEW s \in Slots, requests'[s] # Null
        PROVE  Complete(requests'[s])
    <3>1. CASE requests'[s] = requests[s]
      BY <2>3, <3>1 DEF TokenReplies
    <3>2. CASE requests'[s] # requests[s]
      BY <2>1, <2>2, <3>2
    <3> QED BY <3>1, <3>2
  <2> QED BY <2>3 DEF TokenReplies
<1>8. CASE UNCHANGED requests
  BY <1>8 DEF TokenReplies
<1>9. CASE Sweep \/ KycTick \/ (\E u \in Users, answer \in Answers : Review(u, answer))
           \/ UNCHANGED backendVars
  BY <1>8, <1>9 DEF Sweep, KycTick, Review, backendVars
<1> QED BY <1>2, <1>5, <1>6, <1>7, <1>9 DEF ClientsNext

\* What is known of the backend gives its types.
LEMMA KycTypes ==
  ASSUME SessionIInv, RateInv
  PROVE  KycTypeOK
<1>1. clock \in 0..ClockMax /\ ClockMax \in Nat
  BY KycAssumption DEF SessionIInv, SessionTypes
<1>2. ASSUME NEW h \in Seq(Nat), InOrder(h, clock)
      PROVE  h \in Seq(0..ClockMax)
  <2>1. \A k \in 1..Len(h) : h[k] \in 0..ClockMax
    <3> TAKE k \in 1..Len(h)
    <3>1. h[k] \in Nat /\ h[k] <= clock
      BY <1>2 DEF InOrder
    <3> QED BY <1>1, <3>1
  <2>2. Len(h) \in Nat /\ h \in [1..Len(h) -> Nat]
    OBVIOUS
  <2>3. h \in [1..Len(h) -> 0..ClockMax]
    BY <2>1, <2>2
  <2> DEFINE n == Len(h)
             S == 0..ClockMax
  <2>4. n \in Nat /\ h \in [1..n -> S]
    BY <2>2, <2>3
  <2> HIDE DEF n, S
  <2>5. h \in Seq(S)
    BY ONLY <2>4
  <2> QED BY <2>5 DEF S
<1>3. /\ tokenHits \in [Ips -> Seq(Nat)] /\ admitted \in [Ips -> Seq(Nat)]
      /\ \A i \in Ips : InOrder(admitted[i], clock) /\ InOrder(tokenHits[i], clock)
  <2>1. /\ tokenHits \in [Ips -> Seq(Nat)] /\ admitted \in [Ips -> Seq(Nat)]
        /\ \A i \in Ips : RateOf(admitted[i], tokenHits[i], clock) /\ clock \in Nat
    BY DEF RateInv
  <2>2. \A i \in Ips : InOrder(admitted[i], clock)
    BY <2>1 DEF RateOf
  <2>3. \A i \in Ips : InOrder(tokenHits[i], clock)
    BY <2>1, HitsInOrder
  <2> QED BY <2>1, <2>2, <2>3
<1>4. \A i \in Ips : admitted[i] \in Seq(0..ClockMax) /\ tokenHits[i] \in Seq(0..ClockMax)
  BY <1>2, <1>3
<1>5. tokenHits \in [Ips -> Seq(0..ClockMax)] /\ admitted \in [Ips -> Seq(0..ClockMax)]
  BY <1>3, <1>4
<1> QED BY <1>5 DEF KycTypeOK, SessionIInv, SessionTypes

\* What the page holds while it loads and runs the widget.
PageHolds ==
  /\ phase \in {"ready", "minting", "loading", "running"}
  /\ polling \in BOOLEAN /\ credential \in Users \cup {Null}
  /\ phase \in {"loading", "running"} => userId # Null /\ statusToken # Null
  /\ polling => phase = "running"

LEMMA PageHoldsStep ==
  ASSUME PageInv, TokenReplies, PageHolds, [PageNext]_kycVars
  PROVE  PageHolds'
<1>1. CASE UNCHANGED pageVars
  BY <1>1 DEF PageHolds, pageVars
<1>2. ASSUME NEW s \in Slots, Start(s)
      PROVE  PageHolds'
  BY <1>2 DEF PageHolds, Start
<1>3. ASSUME NEW s \in Slots, Refresh(s) \/ PollByTimer(s) \/ PollByWidget(s)
      PROVE  PageHolds'
  BY <1>1, <1>3 DEF Refresh, PollByTimer, PollByWidget
<1>4. ASSUME NEW s \in Slots, Launch(s) \/ Renew(s)
      PROVE  PageHolds'
  <2>1. requests[s] # Null /\ Complete(requests[s])
    BY <1>4 DEF Launch, Renew, Answered, At, TokenReplies
  <2>2. requests[s].reply.user # Null /\ requests[s].reply.token # Null
    BY <1>4, <2>1 DEF Launch, Renew, Answered, At, Complete
  <2>3. CASE Launch(s)
    BY <2>2, <2>3 DEF Launch, PageHolds
  <2>4. CASE Renew(s)
    BY <2>2, <2>4 DEF Renew, PageHolds
  <2> QED BY <1>4, <2>3, <2>4
<1>5. ASSUME NEW s \in Slots, ShowStatus(s)
      PROVE  PageHolds'
  <2>1. requests[s] \in Request
    BY <1>5 DEF ShowStatus, Answered, At, PageInv, SessionIInv, SessionTypes
  <2>2. requests[s].reply.credential \in Users \cup {Null}
    BY <2>1 DEF Request, Reply
  <2> QED BY <1>5, <2>2 DEF ShowStatus, PageHolds
<1>6. ASSUME NEW s \in Slots, Fail(s)
      PROVE  PageHolds'
  BY <1>6 DEF Fail, AfterFailure, PageHolds
<1>7. CASE LoadSdk
  <2>1. polling \in BOOLEAN /\ UNCHANGED <<userId, statusToken, credential>>
        /\ credential \in Users \cup {Null} /\ userId # Null /\ statusToken # Null /\ ~polling
    BY <1>7 DEF LoadSdk, PageHolds
  <2>2. \/ phase' = "running" /\ polling' = TRUE
        \/ phase' = "ready" /\ polling' = polling
    BY <1>7 DEF LoadSdk
  <2>3. CASE phase' = "running" /\ polling' = TRUE
    BY <2>1, <2>3 DEF PageHolds
  <2>4. CASE phase' = "ready" /\ polling' = polling
    <3>1. polling' = FALSE
      BY <2>1, <2>4
    <3> QED BY <2>1, <2>4, <3>1 DEF PageHolds
  <2> QED BY <2>2, <2>3, <2>4
<1> QED BY <1>1, <1>2, <1>3, <1>4, <1>5, <1>6, <1>7 DEF PageNext, Arrive, kycVars

LEMMA PageTypes ==
  ASSUME PageInv, RateInv, PageHolds
  PROVE  PageTypeOK
<1>1. userId \in Users \cup {Null} /\ statusToken \in Tokens \cup {Null}
  <2>1. /\ Len(firstFor) \in Nat /\ Len(firstFor) <= MaxUsers
        /\ Len(mintedFor) \in Nat /\ Len(mintedFor) <= MaxTokens
    BY DEF PageInv, SessionIInv, SessionTypes
  <2>2. 1..Len(firstFor) \subseteq Users /\ TokensOf(Page) \subseteq Tokens
    BY <2>1, KycAssumption DEF Users, Tokens, TokensOf
  <2> QED BY <2>2 DEF PageInv
<1>2. KycTypeOK
  BY KycTypes DEF PageInv
<1> QED BY <1>1, <1>2 DEF PageTypeOK, PageHolds

(* A page that loads or runs the widget has a user id and a status token,  *)
(* and polls only while it runs, and a tab that builds or sends has no     *)
(* proof under way: for any numbers of tabs, requests, sessions and ticks, *)
(* whatever replies are lost, late or refused.                             *)
THEOREM ClientsStayTyped == ConsoleSpec /\ PageSpec => []ClientsTypeOK
<1>1. ConsoleInit => ConsoleIInv
  BY InitialPage DEF ConsoleIInv
<1>2. ConsoleIInv /\ [ConsoleNext]_tabsVars => ConsoleIInv'
  BY TypesStep, DraftsStep DEF ConsoleIInv
<1>3. PageInit => PageInv /\ RateInv /\ TokenReplies /\ PageHolds
  <2> SUFFICES ASSUME PageInit  PROVE PageInv /\ RateInv /\ TokenReplies /\ PageHolds
    OBVIOUS
  <2>1. BackendInit
    BY DEF PageInit
  <2>2. PageInv
    BY <2>1, InitialSessions DEF PageInit, PageInv, BackendInit
  <2>3. RateInv
    BY <2>1, InitialHits
  <2>4. TokenReplies /\ PageHolds
    BY <2>1 DEF PageInit, BackendInit, TokenReplies, PageHolds
  <2> QED BY <2>2, <2>3, <2>4
<1>4. PageInv /\ RateInv /\ TokenReplies /\ PageHolds /\ [PageNext]_kycVars
        => (PageInv /\ RateInv /\ TokenReplies /\ PageHolds)'
  BY PageStep, RateStep, TokenRepliesStep, PageHoldsStep DEF PageInv
<1>5. ConsoleIInv /\ PageInv /\ RateInv /\ PageHolds => ClientsTypeOK
  BY PageTypes DEF ConsoleIInv, ClientsTypeOK
<1> QED BY <1>1, <1>2, <1>3, <1>4, <1>5, PTL DEF ConsoleSpec, PageSpec

=============================================================================
