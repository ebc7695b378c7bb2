--------------------------- MODULE OperatorProofs ---------------------------
(***************************************************************************)
(* Proofs about what operators run.  The clients of an anchor, for any     *)
(* number of runs: a quote is redeemed once, and evidence is of a          *)
(* transaction that exists, whichever requests and answers are lost and    *)
(* wherever a client stops.  The check before a release, the monitor, and  *)
(* the commands of the issuer.                                             *)
(***************************************************************************)
EXTENDS Operators, PublishPreflight, SequenceTheorems, TLAPS

-----------------------------------------------------------------------------
(* The clients of an anchor.                                               *)

(* The requests a running client can still have before it.                 *)
Rest ==
  [testanchor |-> {<<"challenge", "token", "sender", "receiver", "price", "quote", "create", "write">>,
      <<"token", "sender", "receiver", "price", "quote", "create", "write">>,
      <<"sender", "receiver", "price", "quote", "create", "write">>,
      <<"receiver", "price", "quote", "create", "write">>,
      <<"price", "quote", "create", "write">>,
      <<"quote", "create", "write">>,
      <<"create", "write">>,
      <<"write">>},
   licensed |-> {<<"price", "quote", "create", "write">>,
      <<"quote", "create", "write">>,
      <<"create", "write">>,
      <<"write">>},
   browser |-> {<<"challenge", "token", "price">>,
      <<"token", "price">>,
      <<"price">>}]

Maybe(S) == S \cup {NoAnswer}

Todos == {<<>>} \cup Rest["testanchor"] \cup Rest["licensed"] \cup Rest["browser"]

ClientStates ==
  [state : {"idle", "running", "threw", "done"}, todo : Todos, tries : Int, run : Nat,
   token : BOOLEAN, quote : Maybe(Nat), created : Maybe(Nat)]

FlowTypes ==
  /\ runs \in Nat
  /\ client \in [Clients -> ClientStates]
  /\ transactions \in Seq([quote : Maybe(Nat), run : Nat])
  /\ \A c \in Clients : ClientRuns(c) => client[c].todo \in Rest[c]

(* A run is of one client, and a transaction names the run that made it.   *)
RunsAreOwn ==
  /\ \A c \in Clients : client[c].run <= runs
  /\ \A c, d \in Clients :
       (ClientRuns(c) /\ ClientRuns(d) /\ client[c].run = client[d].run) => c = d
  /\ \A k \in DOMAIN transactions :
       transactions[k].quote = transactions[k].run /\ transactions[k].run <= runs

Written(c) == ClientRuns(c) /\ client[c].todo = <<"write">>
Creates(c) == ClientRuns(c) /\ client[c].todo = <<"create", "write">>
Before(c)  == ClientRuns(c) /\ client[c].todo # <<"write">>

(* A client that has not yet asked for a transaction has none, and one     *)
(* that is about to ask has the quote of its own run.                      *)
NothingYet ==
  \A c \in Clients :
    /\ Before(c) => /\ client[c].created = NoAnswer
                    /\ \A k \in DOMAIN transactions : transactions[k].run # client[c].run
    /\ Creates(c) => client[c].quote = client[c].run /\ client[c].quote \in quotes
    /\ (Written(c) /\ client[c].created # NoAnswer) =>
         /\ client[c].created \in DOMAIN transactions
         /\ transactions[client[c].created].quote = client[c].quote
         /\ client[c].quote \in quotes

AInv == FlowTypes /\ RunsAreOwn /\ NothingYet /\ OneTransactionPerQuote /\ EvidenceIsReal

-----------------------------------------------------------------------------
(* The requests of each client, in their order.                            *)
LEMMA TestanchorSteps ==
  ASSUME NEW todo \in Rest["testanchor"]
  PROVE  /\ todo # <<>>
         /\ Len(todo) # 1 => Tail(todo) \in Rest["testanchor"]
         /\ Tail(todo) = <<"write">> <=> todo = <<"create", "write">>
         /\ Tail(todo) = <<"create", "write">> => Head(todo) = "quote"
         /\ Head(todo) = "create" <=> todo = <<"create", "write">>
         /\ Head(todo) = "write" <=> todo = <<"write">>
         /\ Len(todo) = 1 => Tail(todo) = <<>>
<1>1. CASE todo = <<"challenge", "token", "sender", "receiver", "price", "quote", "create", "write">>
  BY <1>1 DEF Rest
<1>2. CASE todo = <<"token", "sender", "receiver", "price", "quote", "create", "write">>
  BY <1>2 DEF Rest
<1>3. CASE todo = <<"sender", "receiver", "price", "quote", "create", "write">>
  BY <1>3 DEF Rest
<1>4. CASE todo = <<"receiver", "price", "quote", "create", "write">>
  BY <1>4 DEF Rest
<1>5. CASE todo = <<"price", "quote", "create", "write">>
  BY <1>5 DEF Rest
<1>6. CASE todo = <<"quote", "create", "write">>
  BY <1>6 DEF Rest
<1>7. CASE todo = <<"create", "write">>
  BY <1>7 DEF Rest
<1>8. CASE todo = <<"write">>
  BY <1>8 DEF Rest
<1> QED BY <1>1, <1>2, <1>3, <1>4, <1>5, <1>6, <1>7, <1>8 DEF Rest

LEMMA LicensedSteps ==
  ASSUME NEW todo \in Rest["licensed"]
  PROVE  /\ todo # <<>>
         /\ Len(todo) # 1 => Tail(todo) \in Rest["licensed"]
         /\ Tail(todo) = <<"write">> <=> todo = <<"create", "write">>
         /\ Tail(todo) = <<"create", "write">> => Head(todo) = "quote"
         /\ Head(todo) = "create" <=> todo = <<"create", "write">>
         /\ Head(todo) = "write" <=> todo = <<"write">>
         /\ Len(todo) = 1 => Tail(todo) = <<>>
<1>1. CASE todo = <<"price", "quote", "create", "write">>
  BY <1>1 DEF Rest
<1>2. CASE todo = <<"quote", "create", "write">>
  BY <1>2 DEF Rest
<1>3. CASE todo = <<"create", "write">>
  BY <1>3 DEF Rest
<1>4. CASE todo = <<"write">>
  BY <1>4 DEF Rest
<1> QED BY <1>1, <1>2, <1>3, <1>4 DEF Rest

LEMMA BrowserSteps ==
  ASSUME NEW todo \in Rest["browser"]
  PROVE  /\ todo # <<>>
         /\ Len(todo) # 1 => Tail(todo) \in Rest["browser"]
         /\ Tail(todo) = <<"write">> <=> todo = <<"create", "write">>
         /\ Tail(todo) = <<"create", "write">> => Head(todo) = "quote"
         /\ Head(todo) = "create" <=> todo = <<"create", "write">>
         /\ Head(todo) = "write" <=> todo = <<"write">>
         /\ Len(todo) = 1 => Tail(todo) = <<>>
<1>1. CASE todo = <<"challenge", "token", "price">>
  BY <1>1 DEF Rest
<1>2. CASE todo = <<"token", "price">>
  BY <1>2 DEF Rest
<1>3. CASE todo = <<"price">>
  BY <1>3 DEF Rest
<1> QED BY <1>1, <1>2, <1>3 DEF Rest

LEMMA TodoSteps ==
  ASSUME FlowTypes, NEW c \in Clients, ClientRuns(c)
  PROVE  LET todo == client[c].todo IN
         /\ client[c] \in ClientStates /\ todo \in Rest[c] /\ todo # <<>>
         /\ Len(todo) # 1 => Tail(todo) \in Rest[c]
         /\ Tail(todo) = <<"write">> <=> todo = <<"create", "write">>
         /\ Tail(todo) = <<"create", "write">> => Head(todo) = "quote"
         /\ Head(todo) = "create" <=> todo = <<"create", "write">>
         /\ Head(todo) = "write" <=> todo = <<"write">>
         /\ Len(todo) = 1 => Tail(todo) = <<>>
<1>1. client[c] \in ClientStates /\ client[c].todo \in Rest[c]
  BY DEF FlowTypes
<1>2. CASE c = "testanchor"
  BY <1>1, <1>2, TestanchorSteps
<1>3. CASE c = "licensed"
  BY <1>1, <1>3, LicensedSteps
<1>4. CASE c = "browser"
  BY <1>1, <1>4, BrowserSteps
<1> QED BY <1>2, <1>3, <1>4, AnchorAssumption

(* The progress of one client: t is s with its next request before it.     *)
Follows(c, s, t) ==
  /\ client' = [client EXCEPT ![c] = t]
  /\ t.run = s.run /\ t.quote = s.quote /\ t.created = s.created
  /\ t.todo = Tail(s.todo)
  /\ t.state = "running" => t.todo \in Rest[c]

LEMMA GoesOn ==
  ASSUME FlowTypes, NEW c \in Clients, ClientRuns(c), NEW s \in ClientStates,
         s.todo = client[c].todo, GoOn(c, s)
  PROVE  \E t \in ClientStates : Follows(c, s, t)
<1> DEFINE tail  == Tail(s.todo)
           state == IF Len(s.todo) = 1 THEN "done" ELSE "running"
           t     == [s EXCEPT !.todo = tail, !.tries = 0, !.state = state]
<1>1. client' = [client EXCEPT ![c] = t]
  BY DEF GoOn, PutClient
<1>2. /\ tail \in {<<>>} \cup Rest[c]
      /\ state = "running" => tail \in Rest[c]
      /\ state \in {"running", "done"}
  BY TodoSteps
<1>3. tail \in Todos
  BY <1>2, AnchorAssumption DEF Todos
<1>4. tail = Tail(s.todo)
  OBVIOUS
<1> HIDE DEF tail, state
<1>5. /\ t \in ClientStates
      /\ t.run = s.run /\ t.quote = s.quote /\ t.created = s.created
      /\ t.todo = tail /\ t.state = state
  <2> DEFINE u == [s EXCEPT !.todo = tail]
             v == [u EXCEPT !.tries = 0]
  <2>1. /\ u \in ClientStates /\ u.todo = tail
        /\ u.run = s.run /\ u.quote = s.quote /\ u.created = s.created
    BY <1>3 DEF ClientStates
  <2>2. t = [v EXCEPT !.state = state]
    OBVIOUS
  <2> HIDE DEF u, t
  <2>3. /\ v \in ClientStates /\ v.todo = tail
        /\ v.run = s.run /\ v.quote = s.quote /\ v.created = s.created
    BY <2>1 DEF ClientStates
  <2> HIDE DEF v
  <2> QED BY <1>2, <2>2, <2>3 DEF ClientStates
<1> HIDE DEF t
<1> QED BY <1>1, <1>2, <1>4, <1>5 DEF Follows

(* A step of one client that creates nothing.                              *)
LEMMA QuietInv ==
  ASSUME AInv, NEW c \in Clients, ClientRuns(c), NEW t \in ClientStates,
         client' = [client EXCEPT ![c] = t], t.run = client[c].run,
         t.state = "running" =>
           /\ t.todo \in Rest[c]
           /\ t.todo # <<"write">> => Before(c) /\ t.created = NoAnswer
           /\ t.todo = <<"create", "write">> => t.quote = t.run /\ t.quote \in quotes'
           /\ (t.todo = <<"write">> /\ t.created # NoAnswer) =>
                /\ t.created \in DOMAIN transactions
                /\ transactions[t.created].quote = t.quote /\ t.quote \in quotes',
         UNCHANGED <<runs, transactions>>, quotes \subseteq quotes', EvidenceIsReal'
  PROVE  AInv'
<1> USE DEF AInv
<1>1. /\ client'[c] = t /\ \A d \in Clients : d # c => client'[d] = client[d]
      /\ client' \in [Clients -> ClientStates]
  BY DEF FlowTypes
<1>2. FlowTypes'
  BY <1>1 DEF FlowTypes, ClientRuns
<1>3. RunsAreOwn'
  BY <1>1 DEF RunsAreOwn, ClientRuns
<1>4. NothingYet'
  <2> SUFFICES ASSUME NEW d \in Clients
               PROVE  /\ Before(d)' => /\ client'[d].created = NoAnswer
                                       /\ \A k \in DOMAIN transactions :
                                            transactions[k].run # client'[d].run
                      /\ Creates(d)' => /\ client'[d].quote = client'[d].run
                                        /\ client'[d].quote \in quotes'
                      /\ (Written(d)' /\ client'[d].created # NoAnswer) =>
                           /\ client'[d].created \in DOMAIN transactions
                           /\ transactions[client'[d].created].quote = client'[d].quote
                           /\ client'[d].quote \in quotes'
    BY DEF NothingYet
  <2>1. CASE d = c
    BY <1>1, <2>1 DEF NothingYet, Before, Creates, Written, ClientRuns
  <2>2. CASE d # c
    BY <1>1, <2>2 DEF NothingYet, Before, Creates, Written, ClientRuns
  <2> QED BY <2>1, <2>2
<1>5. OneTransactionPerQuote'
  BY DEF OneTransactionPerQuote
<1> QED BY <1>2, <1>3, <1>4, <1>5

(* The step that creates a transaction: its client can only write after.   *)
LEMMA CreatedInv ==
  ASSUME AInv, NEW c \in Clients, Creates(c), NEW t \in ClientStates,
         client' = [client EXCEPT ![c] = t], t.run = client[c].run,
         t.quote = client[c].quote,
         t.created = NoAnswer \/ t.created = Len(transactions) + 1,
         t.state = "running" => t.todo = <<"write">> /\ t.todo \in Rest[c],
         transactions' = Append(transactions, [quote |-> client[c].quote, run |-> client[c].run]),
         UNCHANGED <<runs, quotes, evidence>>
  PROVE  AInv'
<1> USE DEF AInv
<1> DEFINE new == [quote |-> client[c].quote, run |-> client[c].run]
           n   == Len(transactions) + 1
<1>1. /\ client'[c] = t /\ \A d \in Clients : d # c => client'[d] = client[d]
      /\ client' \in [Clients -> ClientStates] /\ client[c] \in ClientStates
  BY DEF FlowTypes
<1>2. /\ client[c].quote = client[c].run /\ client[c].quote \in quotes /\ Before(c)
      /\ client[c].run \in Nat /\ client[c].run <= runs
      /\ \A k \in DOMAIN transactions : transactions[k].run # client[c].run
  <2>1. <<"create", "write">> # <<"write">>
    OBVIOUS
  <2>2. Before(c)
    BY <2>1 DEF Creates, Before
  <2> QED BY <1>1, <2>2 DEF NothingYet, RunsAreOwn, ClientStates
<1>3. new \in [quote : Maybe(Nat), run : Nat]
  BY <1>1, <1>2 DEF ClientStates, Maybe
<1>4. /\ transactions \in Seq([quote : Maybe(Nat), run : Nat])
      /\ DOMAIN transactions = 1 .. Len(transactions) /\ Len(transactions) \in Nat
  BY DEF FlowTypes
<1>5. /\ transactions' \in Seq([quote : Maybe(Nat), run : Nat])
      /\ DOMAIN transactions' = DOMAIN transactions \cup {n} /\ n \notin DOMAIN transactions
      /\ transactions'[n] = new
      /\ \A k \in DOMAIN transactions : transactions'[k] = transactions[k]
  <2> HIDE DEF new
  <2>1. transactions' = Append(transactions, new)
    BY DEF new
  <2>2. /\ transactions' \in Seq([quote : Maybe(Nat), run : Nat]) /\ Len(transactions') = n
        /\ transactions'[n] = new
        /\ \A k \in 1 .. Len(transactions) : transactions'[k] = transactions[k]
    BY <1>3, <1>4, <2>1, AppendProperties
  <2>3. DOMAIN transactions' = 1 .. n
    BY <2>2
  <2>4. 1 .. n = (1 .. Len(transactions)) \cup {n} /\ n \notin 1 .. Len(transactions)
    BY <1>4
  <2> QED BY <1>4, <2>2, <2>3, <2>4
<1>6. new.quote = client[c].run /\ new.run = client[c].run
  BY <1>2
<1> HIDE DEF new, n
<1>7. FlowTypes'
  BY <1>1, <1>5 DEF FlowTypes, ClientRuns
<1>8. RunsAreOwn'
  <2>1. \A k \in DOMAIN transactions' :
          transactions'[k].quote = transactions'[k].run /\ transactions'[k].run <= runs
    BY <1>2, <1>5, <1>6 DEF RunsAreOwn
  <2>2. ClientRuns(c)
    BY DEF Creates
  <2> QED BY <1>1, <2>1, <2>2 DEF RunsAreOwn, ClientRuns
<1>9. NothingYet'
  <2> SUFFICES ASSUME NEW d \in Clients
               PROVE  /\ Before(d)' => /\ client'[d].created = NoAnswer
                                       /\ \A k \in DOMAIN transactions' :
                                            transactions'[k].run # client'[d].run
                      /\ Creates(d)' => /\ client'[d].quote = client'[d].run
                                        /\ client'[d].quote \in quotes'
                      /\ (Written(d)' /\ client'[d].created # NoAnswer) =>
                           /\ client'[d].created \in DOMAIN transactions'
                           /\ transactions'[client'[d].created].quote = client'[d].quote
                           /\ client'[d].quote \in quotes'
    BY DEF NothingYet
  <2>1. CASE d = c
    <3>1. ~Before(d)' /\ ~Creates(d)'
      <4>1. <<"create", "write">> # <<"write">>
        OBVIOUS
      <4> QED BY <1>1, <2>1, <4>1 DEF Before, Creates, ClientRuns
    <3> QED BY <1>1, <1>2, <1>5, <1>6, <2>1, <3>1 DEF n
  <2>2. CASE d # c
    <3>1. client'[d] = client[d]
      BY <1>1, <2>2
    <3>2. Before(d) => client[d].run # client[c].run
      BY <2>2 DEF RunsAreOwn, Before, Creates
    <3>3. Before(d)' => \A k \in DOMAIN transactions' : transactions'[k].run # client'[d].run
      BY <1>5, <1>6, <3>1, <3>2 DEF NothingYet, Before, ClientRuns
    <3> QED BY <1>5, <3>1, <3>3 DEF NothingYet, Before, Creates, Written, ClientRuns
  <2> QED BY <2>1, <2>2
<1>10. OneTransactionPerQuote'
  <2>1. \A k \in DOMAIN transactions : transactions[k].quote # client[c].run
    BY <1>2 DEF RunsAreOwn
  <2> QED BY <1>5, <1>6, <2>1 DEF OneTransactionPerQuote
<1>11. EvidenceIsReal'
  BY <1>5 DEF EvidenceIsReal
<1> QED BY <1>7, <1>8, <1>9, <1>10, <1>11

-----------------------------------------------------------------------------
(* One lemma per step.                                                     *)

LEMMA EvidenceKept ==
  ASSUME EvidenceIsReal, UNCHANGED <<evidence, transactions>>, quotes \subseteq quotes'
  PROVE  EvidenceIsReal'
BY DEF EvidenceIsReal

LEMMA NotWriting ==
  ASSUME AInv, NEW c \in Clients, AtRequest(c)
  PROVE  /\ ClientRuns(c) /\ Before(c) /\ client[c].created = NoAnswer
         /\ client[c] \in ClientStates
         /\ NextRequest(c) = "create" <=> Creates(c)
BY TodoSteps DEF AInv, AtRequest, NextRequest, Before, Creates, NothingYet

LEMMA ThrownInv ==
  ASSUME AInv, NEW c \in Clients, ClientRuns(c), ThrowClient(c),
         UNCHANGED <<runs, transactions, evidence>>, quotes \subseteq quotes'
  PROVE  AInv'
<1> DEFINE t == [client[c] EXCEPT !.state = "threw"]
<1>1. client[c] \in ClientStates
  BY DEF AInv, FlowTypes
<1>2. t \in ClientStates /\ t.run = client[c].run /\ t.state # "running"
  BY <1>1 DEF ClientStates
<1>3. client' = [client EXCEPT ![c] = t]
  BY DEF ThrowClient, PutClient
<1> HIDE DEF t
<1> QED BY <1>2, <1>3, EvidenceKept, QuietInv DEF AInv

(* The last request of run-testanchor.mjs failed without a transaction.    *)
LEMMA FailsInv ==
  ASSUME AInv, NEW c \in Clients, AtRequest(c), Fails(c),
         UNCHANGED <<runs, transactions, evidence>>, quotes \subseteq quotes'
  PROVE  AInv'
<1>1. CASE c = "testanchor" /\ NextRequest(c) = "create"
  <2>1. GoOn(c, client[c])
    BY <1>1 DEF Fails
  <2>2. PICK t \in ClientStates : Follows(c, client[c], t)
    BY <2>1, NotWriting, GoesOn DEF AInv
  <2>3. client[c].todo = <<"create", "write">>
    BY <1>1, NotWriting DEF Creates
  <2>4. Tail(<<"create", "write">>) = <<"write">> /\ <<"write">> # <<"create", "write">>
    OBVIOUS
  <2>5. /\ client' = [client EXCEPT ![c] = t] /\ t.run = client[c].run
        /\ t.created = NoAnswer /\ t.todo = <<"write">> /\ t.todo # <<"create", "write">>
        /\ t.state = "running" => t.todo \in Rest[c]
    BY <2>2, <2>3, <2>4, NotWriting DEF Follows
  <2> QED BY <2>5, NotWriting, EvidenceKept, QuietInv DEF AInv
<1>2. CASE ~(c = "testanchor" /\ NextRequest(c) = "create")
  BY <1>2, NotWriting, ThrownInv DEF Fails
<1> QED BY <1>1, <1>2

LEMMA RetriesInv ==
  ASSUME AInv, NEW c \in Clients, AtRequest(c), Retries(c),
         UNCHANGED <<runs, transactions, evidence>>, quotes \subseteq quotes'
  PROVE  AInv'
<1>1. CASE c = "testanchor" /\ NextRequest(c) \in Retried /\ client[c].tries + 1 < Tries
  <2> DEFINE t == [client[c] EXCEPT !.tries = client[c].tries + 1]
  <2>1. client' = [client EXCEPT ![c] = t]
    BY <1>1 DEF Retries, PutClient
  <2>2. /\ t \in ClientStates /\ t.run = client[c].run /\ t.created = client[c].created
        /\ t.todo = client[c].todo /\ t.quote = client[c].quote
    BY NotWriting DEF ClientStates
  <2>3. ~Creates(c) /\ t.todo # <<"create", "write">> /\ t.todo \in Rest[c] /\ t.todo # <<"write">>
    BY <1>1, <2>2, NotWriting, TodoSteps DEF Retried, Creates, AInv, Before
  <2> HIDE DEF t
  <2> QED BY <2>1, <2>2, <2>3, NotWriting, EvidenceKept, QuietInv DEF AInv
<1>2. CASE ~(c = "testanchor" /\ NextRequest(c) \in Retried /\ client[c].tries + 1 < Tries)
  BY <1>2, FailsInv DEF Retries
<1> QED BY <1>1, <1>2

LEMMA AnswerLostInv ==
  ASSUME AInv, NEW c \in Clients, AnswerLost(c)
  PROVE  AInv'
<1>1. AtRequest(c) /\ AnchorServes(c) /\ Retries(c) /\ UNCHANGED <<config, clean, runs, evidence>>
  BY DEF AnswerLost
<1>2. CASE NextRequest(c) # "create"
  BY <1>1, <1>2, RetriesInv DEF AnchorServes
<1>3. CASE NextRequest(c) = "create"
  <2>1. /\ Fails(c) /\ Creates(c) /\ quotes' = quotes
        /\ transactions' = Append(transactions, [quote |-> client[c].quote, run |-> client[c].run])
    BY <1>1, <1>3, NotWriting DEF Retries, Retried, AnchorServes
  <2>2. CASE c = "testanchor"
    <3>1. GoOn(c, client[c])
      BY <1>3, <2>1, <2>2 DEF Fails
    <3>2. PICK t \in ClientStates : Follows(c, client[c], t)
      BY <1>1, <3>1, NotWriting, GoesOn DEF AInv
    <3>3. client[c].todo = <<"create", "write">>
      BY <2>1 DEF Creates
    <3>4. Tail(<<"create", "write">>) = <<"write">>
      OBVIOUS
    <3>5. /\ client' = [client EXCEPT ![c] = t] /\ t.run = client[c].run
          /\ t.quote = client[c].quote /\ t.created = NoAnswer /\ t.todo = <<"write">>
          /\ t.state = "running" => t.todo \in Rest[c]
      BY <1>1, <3>2, <3>3, <3>4, NotWriting DEF Follows
    <3> QED BY <1>1, <2>1, <3>5, CreatedInv
  <2>3. CASE c # "testanchor"
    <3> DEFINE t == [client[c] EXCEPT !.state = "threw"]
    <3>1. client' = [client EXCEPT ![c] = t]
      BY <2>1, <2>3 DEF Fails, ThrowClient, PutClient
    <3>2. /\ t \in ClientStates /\ t.run = client[c].run /\ t.state # "running"
          /\ t.quote = client[c].quote /\ t.created = NoAnswer
      BY <1>1, NotWriting DEF ClientStates
    <3> HIDE DEF t
    <3> QED BY <1>1, <2>1, <3>1, <3>2, CreatedInv
  <2> QED BY <2>2, <2>3
<1> QED BY <1>2, <1>3

LEMMA AnswerArrivesInv ==
  ASSUME AInv, NEW c \in Clients, AnswerArrives(c)
  PROVE  AInv'
<1> DEFINE s == [client[c] EXCEPT
                   !.token = client[c].token \/ NextRequest(c) = "token",
                   !.quote = IF NextRequest(c) = "quote" THEN client[c].run ELSE client[c].quote,
                   !.created = IF NextRequest(c) = "create" THEN Len(transactions) + 1
                               ELSE client[c].created]
<1>1. AtRequest(c) /\ AnchorServes(c) /\ GoOn(c, s) /\ UNCHANGED <<config, clean, runs, evidence>>
  BY DEF AnswerArrives
<1>2. /\ s \in ClientStates /\ s.run = client[c].run /\ s.todo = client[c].todo
      /\ s.quote = IF NextRequest(c) = "quote" THEN client[c].run ELSE client[c].quote
      /\ s.created = IF NextRequest(c) = "create" THEN Len(transactions) + 1 ELSE NoAnswer
  <2>1. Len(transactions) + 1 \in Nat
    BY DEF AInv, FlowTypes
  <2> QED BY <1>1, <2>1, NotWriting DEF ClientStates, Maybe
<1> HIDE DEF s
<1>3. PICK t \in ClientStates : Follows(c, s, t)
  BY <1>1, <1>2, NotWriting, GoesOn DEF AInv
<1>4. /\ client' = [client EXCEPT ![c] = t] /\ t.run = client[c].run /\ t.created = s.created
      /\ t.quote = s.quote /\ t.todo = Tail(client[c].todo)
      /\ t.state = "running" => t.todo \in Rest[c]
  BY <1>2, <1>3 DEF Follows
<1>5. CASE Creates(c)
  <2>1. client[c].todo = <<"create", "write">>
    BY <1>5 DEF Creates
  <2>2. Tail(<<"create", "write">>) = <<"write">> /\ Head(<<"create", "write">>) = "create"
    OBVIOUS
  <2>3. NextRequest(c) = "create" /\ t.todo = <<"write">>
    BY <1>4, <2>1, <2>2 DEF NextRequest
  <2>4. t.quote = client[c].quote /\ t.created = Len(transactions) + 1
    BY <1>2, <1>4, <2>3
  <2>5. /\ quotes' = quotes
        /\ transactions' = Append(transactions, [quote |-> client[c].quote, run |-> client[c].run])
    BY <1>1, <2>3 DEF AnchorServes
  <2> QED BY <1>1, <1>4, <1>5, <2>3, <2>4, <2>5, CreatedInv
<1>6. CASE ~Creates(c)
  <2>1. ClientRuns(c) /\ Before(c) /\ client[c].todo # <<"create", "write">>
    BY <1>1, <1>6, NotWriting DEF Creates
  <2>2. /\ NextRequest(c) # "create" /\ t.todo # <<"write">>
        /\ t.todo = <<"create", "write">> => NextRequest(c) = "quote"
    BY <1>4, <2>1, TodoSteps DEF AInv, NextRequest
  <2>3. /\ transactions' = transactions /\ quotes \subseteq quotes'
        /\ NextRequest(c) = "quote" => client[c].run \in quotes'
    BY <1>1, <2>2 DEF AnchorServes
  <2>4. EvidenceIsReal'
    BY <1>1, <2>3, EvidenceKept DEF AInv
  <2>5. t.created = NoAnswer
    BY <1>2, <1>4, <2>2
  <2>6. t.todo = <<"create", "write">> => t.quote = t.run /\ t.quote \in quotes'
    BY <1>2, <1>4, <2>2, <2>3
  <2> QED BY <1>1, <1>4, <2>1, <2>2, <2>3, <2>4, <2>5, <2>6, QuietInv
<1> QED BY <1>5, <1>6

LEMMA WriteEvidenceInv ==
  ASSUME AInv, NEW c \in Clients, WriteEvidence(c)
  PROVE  AInv'
<1>1. /\ ClientRuns(c) /\ NextRequest(c) = "write" /\ evidence' = Evidence(c)
      /\ GoOn(c, client[c]) /\ UNCHANGED <<config, clean, runs, quotes, transactions>>
  BY DEF WriteEvidence
<1>2. client[c] \in ClientStates /\ Written(c) /\ Tail(client[c].todo) \notin Rest[c]
  <2>1. client[c].todo = <<"write">> /\ client[c] \in ClientStates
    BY <1>1, TodoSteps DEF AInv, NextRequest
  <2>2. Tail(<<"write">>) = <<>>
    OBVIOUS
  <2>3. <<>> \notin Rest[c]
    BY TestanchorSteps, LicensedSteps, BrowserSteps, AnchorAssumption
  <2> QED BY <1>1, <2>1, <2>2, <2>3 DEF Written
<1>3. PICK t \in ClientStates : Follows(c, client[c], t)
  BY <1>1, <1>2, GoesOn DEF AInv
<1>5. /\ client' = [client EXCEPT ![c] = t] /\ t.run = client[c].run /\ t.state # "running"
  BY <1>2, <1>3 DEF Follows
<1>4. EvidenceIsReal'
  <2>1. evidence'.created = client[c].created /\ evidence'.quote = client[c].quote
    BY <1>1 DEF Evidence
  <2> QED BY <1>1, <1>2, <2>1 DEF AInv, NothingYet, EvidenceIsReal, ValidAnchorEvidence
<1> QED BY <1>1, <1>4, <1>5, QuietInv

LEMMA BeginClientInv ==
  ASSUME AInv, NEW c \in Clients, BeginClient(c)
  PROVE  AInv'
<1> USE DEF AInv
<1> DEFINE t == [IdleClient EXCEPT !.state = IF Begins(c) THEN "running" ELSE "threw",
                                   !.todo = Requests[c], !.run = runs + 1]
<1>1. /\ ~ClientRuns(c) /\ runs' = runs + 1 /\ client' = [client EXCEPT ![c] = t]
      /\ UNCHANGED <<quotes, transactions, evidence>>
  BY DEF BeginClient, PutClient
<1>2. Requests[c] \in Rest[c] /\ Requests[c] \in Todos
  <2>1. CASE c = "testanchor"
    BY <2>1 DEF Requests, Rest, Todos
  <2>2. CASE c = "licensed"
    BY <2>2 DEF Requests, Rest, Todos
  <2>3. CASE c = "browser"
    BY <2>3 DEF Requests, Rest, Todos
  <2> QED BY <2>1, <2>2, <2>3, AnchorAssumption
<1>3. Requests[c] # <<"write">> /\ Requests[c] # <<"create", "write">>
  <2>1. CASE c = "testanchor"
    BY <2>1 DEF Requests
  <2>2. CASE c = "licensed"
    BY <2>2 DEF Requests
  <2>3. CASE c = "browser"
    BY <2>3 DEF Requests
  <2> QED BY <2>1, <2>2, <2>3, AnchorAssumption
<1>4. runs \in Nat /\ \A d \in Clients : client[d].run \in Nat
  BY DEF FlowTypes, ClientStates
<1>5. /\ t \in ClientStates /\ t.run = runs + 1 /\ t.todo = Requests[c]
      /\ t.created = NoAnswer
  <2> DEFINE begun == IF Begins(c) THEN "running" ELSE "threw"
             asked == Requests[c]
             u     == [IdleClient EXCEPT !.state = begun]
             v     == [u EXCEPT !.todo = asked]
  <2>1. begun \in {"running", "threw"} /\ asked \in Todos /\ asked = Requests[c]
    BY <1>2
  <2>2. t = [v EXCEPT !.run = runs + 1]
    OBVIOUS
  <2>3. IdleClient \in ClientStates /\ IdleClient.created = NoAnswer
    BY DEF IdleClient, ClientStates, Todos, Maybe
  <2> HIDE DEF begun, asked, t
  <2>4. u \in ClientStates /\ u.created = NoAnswer
    BY <2>1, <2>3 DEF ClientStates
  <2> HIDE DEF u
  <2>5. v \in ClientStates /\ v.created = NoAnswer /\ v.todo = asked
    BY <2>1, <2>4 DEF ClientStates
  <2> HIDE DEF v
  <2>6. [v EXCEPT !.run = runs + 1] \in ClientStates /\ runs + 1 \in Nat
    BY <1>4, <2>5 DEF ClientStates
  <2> QED BY <2>1, <2>2, <2>5, <2>6 DEF ClientStates
<1> HIDE DEF t
<1>6. /\ client'[c] = t /\ \A d \in Clients : d # c => client'[d] = client[d]
      /\ client' \in [Clients -> ClientStates]
  BY <1>1, <1>5 DEF FlowTypes
<1>7. FlowTypes'
  BY <1>1, <1>2, <1>4, <1>5, <1>6 DEF FlowTypes, ClientRuns
<1>8. \A k \in DOMAIN transactions : transactions[k].run # runs + 1 /\ transactions[k].run <= runs + 1
  <2>1. \A k \in DOMAIN transactions : transactions[k].run <= runs /\ transactions[k].run \in Nat
    <3>1. transactions \in Seq([quote : Maybe(Nat), run : Nat])
      BY DEF FlowTypes
    <3> DEFINE kinds == [quote : Maybe(Nat), run : Nat]
    <3>2. DOMAIN transactions = 1 .. Len(transactions)
      BY <3>1
    <3>3. transactions \in Seq(kinds)
      BY <3>1
    <3> HIDE DEF kinds
    <3>4. \A k \in DOMAIN transactions : transactions[k] \in kinds
      BY <3>2, <3>3, ElementOfSeq
    <3>5. \A x \in kinds : x.run \in Nat
      BY DEF kinds
    <3> QED BY <3>4, <3>5 DEF RunsAreOwn
  <2> QED BY <1>4, <2>1
<1>9. \A d \in Clients : client[d].run # runs + 1 /\ client[d].run <= runs + 1
  <2>1. \A d \in Clients : client[d].run <= runs
    BY DEF RunsAreOwn
  <2>2. \A a, b \in Nat : a <= b => a # b + 1 /\ a <= b + 1
    OBVIOUS
  <2> QED BY <1>4, <2>1, <2>2
<1>10. RunsAreOwn'
  <2>1. \A d \in Clients : client'[d].run <= runs'
    BY <1>1, <1>4, <1>5, <1>6, <1>9
  <2>2. ASSUME NEW d \in Clients, NEW e \in Clients, ClientRuns(d)', ClientRuns(e)',
               client'[d].run = client'[e].run
        PROVE  d = e
    <3>1. CASE d = c \/ e = c
      BY <1>5, <1>6, <1>9, <2>2, <3>1
    <3>2. CASE d # c /\ e # c
      BY <1>6, <2>2, <3>2 DEF RunsAreOwn, ClientRuns
    <3> QED BY <3>1, <3>2
  <2>3. \A k \in DOMAIN transactions' :
          transactions'[k].quote = transactions'[k].run /\ transactions'[k].run <= runs'
    BY <1>1, <1>8 DEF RunsAreOwn
  <2> QED BY <2>1, <2>2, <2>3 DEF RunsAreOwn
<1>11. NothingYet'
  <2> SUFFICES ASSUME NEW d \in Clients
               PROVE  /\ Before(d)' => /\ client'[d].created = NoAnswer
                                       /\ \A k \in DOMAIN transactions :
                                            transactions[k].run # client'[d].run
                      /\ Creates(d)' => /\ client'[d].quote = client'[d].run
                                        /\ client'[d].quote \in quotes
                      /\ (Written(d)' /\ client'[d].created # NoAnswer) =>
                           /\ client'[d].created \in DOMAIN transactions
                           /\ transactions[client'[d].created].quote = client'[d].quote
                           /\ client'[d].quote \in quotes
    BY <1>1 DEF NothingYet
  <2>1. CASE d = c
    BY <1>3, <1>5, <1>6, <1>8, <2>1 DEF Before, Creates, Written
  <2>2. CASE d # c
    BY <1>6, <2>2 DEF NothingYet, Before, Creates, Written, ClientRuns
  <2> QED BY <2>1, <2>2
<1>12. OneTransactionPerQuote' /\ EvidenceIsReal'
  BY <1>1 DEF OneTransactionPerQuote, EvidenceIsReal
<1> QED BY <1>7, <1>10, <1>11, <1>12

LEMMA RestsInv ==
  ASSUME AInv, UNCHANGED <<runs, quotes, transactions, client, evidence>>
  PROVE  AInv'
BY DEF AInv, FlowTypes, RunsAreOwn, NothingYet, OneTransactionPerQuote, EvidenceIsReal,
       ClientRuns, Before, Creates, Written

LEMMA AInit == AnchorInit => AInv
<1> SUFFICES ASSUME AnchorInit PROVE AInv
  OBVIOUS
<1>1. \A c \in Clients : client[c] = IdleClient
  BY DEF AnchorInit
<1>2. IdleClient \in ClientStates /\ IdleClient.state # "running" /\ IdleClient.run = 0
  BY DEF IdleClient, ClientStates, Todos, Maybe
<1>3. transactions = <<>> /\ evidence = NoAnswer /\ runs = 0
      /\ client \in [Clients -> ClientStates]
  BY <1>2 DEF AnchorInit
<1>4. FlowTypes
  BY <1>1, <1>2, <1>3 DEF FlowTypes, ClientRuns
<1>5. RunsAreOwn /\ NothingYet
  BY <1>1, <1>2, <1>3 DEF RunsAreOwn, NothingYet, Before, Creates, Written, ClientRuns
<1>6. OneTransactionPerQuote /\ EvidenceIsReal
  BY <1>3 DEF OneTransactionPerQuote, EvidenceIsReal, ValidAnchorEvidence
<1> QED BY <1>4, <1>5, <1>6 DEF AInv

LEMMA AStep == AInv /\ [AnchorNext]_anchorVars => AInv'
<1> SUFFICES ASSUME AInv, [AnchorNext]_anchorVars PROVE AInv'
  OBVIOUS
<1>1. ASSUME NEW c \in Clients, BeginClient(c) PROVE AInv'
  BY <1>1, BeginClientInv
<1>2. ASSUME NEW c \in Clients, ClientStep(c) PROVE AInv'
  <2>1. CASE AnswerArrives(c) \/ AnswerLost(c) \/ WriteEvidence(c)
    BY <2>1, AnswerArrivesInv, AnswerLostInv, WriteEvidenceInv
  <2>2. CASE RequestLost(c)
    BY <2>2, RetriesInv DEF RequestLost
  <2>3. CASE AnswerRefuses(c)
    BY <2>3, FailsInv DEF AnswerRefuses
  <2> QED BY <1>2, <2>1, <2>2, <2>3 DEF ClientStep
<1>3. ASSUME NEW c \in Clients, StopClient(c) PROVE AInv'
  BY <1>3, ThrownInv DEF StopClient
<1>4. CASE \E kind \in Configs, users \in BOOLEAN : Configure(kind, users)
  BY <1>4, RestsInv DEF Configure
<1>5. CASE UNCHANGED anchorVars
  BY <1>5, RestsInv DEF anchorVars
<1> QED BY <1>1, <1>2, <1>3, <1>4, <1>5 DEF AnchorNext

(* Whichever requests, answers and processes are lost, and however often   *)
(* the clients are run: a quote is redeemed by at most one transaction.    *)
THEOREM QuotesAreRedeemedOnce == AnchorSpec => []OneTransactionPerQuote
<1>1. AInv => OneTransactionPerQuote
  BY DEF AInv
<1> QED BY <1>1, AInit, AStep, PTL DEF AnchorSpec

(* Evidence with an identifier names a transaction that the anchor has,    *)
(* made with the quote that the evidence names.                            *)
THEOREM EvidenceStaysReal == AnchorSpec => []EvidenceIsReal
<1>1. AInv => EvidenceIsReal
  BY DEF AInv
<1> QED BY <1>1, AInit, AStep, PTL DEF AnchorSpec

-----------------------------------------------------------------------------
(* The check before a release.                                             *)

\* What a run has seen: a version that was taken blocks once it was looked at.
CheckTypes ==
  /\ packageFile \in [Packages -> PackageFile]
  /\ registry \in [Packages -> SUBSET Nat]
  /\ run = [state |-> run.state, step |-> run.step, versions |-> run.versions,
            taken |-> run.taken, blocked |-> run.blocked, allow |-> run.allow]
  /\ run.blocked \in BOOLEAN /\ run.allow \in BOOLEAN
  /\ run.taken \subseteq Packages

TakenBlocks ==
  run.state = "running" =>
    /\ run.step \in 0..3
    /\ \A p \in run.taken : run.versions[p] \in registry[p]
    /\ \A k \in 1..2 : (k < run.step /\ Order[k] \in run.taken /\ ~run.allow) => run.blocked

CheckInv == CheckTypes /\ TakenBlocks /\ ReadyIsNew

LEMMA OrderIs == DOMAIN Order = 1..2 /\ Len(Order) = 2 /\ Order[1] = "sdk" /\ Order[2] = "cli"
BY DEF Order

LEMMA CheckBegins ==
  ASSUME CheckInv, NEW approved \in BOOLEAN, NEW allow \in BOOLEAN, BeginCheck(approved, allow)
  PROVE  CheckInv'
<1> DEFINE v == [p \in Packages |-> packageFile[p].version]
           t == {p \in Packages : packageFile[p].version \in registry[p]}
           b == ~approved \/ \E p \in Packages : ~CheckPackage(packageFile[p])
<1>1. /\ run' = [state |-> "running", step |-> 0, versions |-> v, taken |-> t, blocked |-> b,
                 allow |-> allow]
      /\ UNCHANGED <<packageFile, registry>>
  BY DEF BeginCheck
<1>2. b \in BOOLEAN /\ t \subseteq Packages /\ \A p \in t : v[p] \in registry[p]
  OBVIOUS
<1> HIDE DEF v, t, b
<1>3. CheckTypes'
  BY <1>1, <1>2 DEF CheckInv, CheckTypes
<1>4. TakenBlocks'
  <2>1. \A k \in 1..2 : ~ (k < 0)
    OBVIOUS
  <2> QED BY <1>1, <1>2, <2>1 DEF TakenBlocks
<1>5. ReadyIsNew'
  BY <1>1 DEF ReadyIsNew
<1> QED BY <1>3, <1>4, <1>5 DEF CheckInv

LEMMA WhoamiChecks ==
  ASSUME CheckInv, Whoami
  PROVE  CheckInv'
<1>1. PICK known \in {user, FALSE} : run' = [run EXCEPT !.step = 1, !.blocked = @ \/ ~known]
  BY DEF Whoami
<1> DEFINE b == run.blocked \/ ~known
<1>2. b \in BOOLEAN
  OBVIOUS
<1>3. /\ run' = [state |-> run.state, step |-> 1, versions |-> run.versions, taken |-> run.taken,
                 blocked |-> b, allow |-> run.allow]
      /\ UNCHANGED <<packageFile, registry>> /\ run.state = "running" /\ run.step = 0
  <2> HIDE DEF b
  <2>1. run' = [run EXCEPT !.step = 1, !.blocked = b]
    BY <1>1 DEF b
  <2> QED BY <2>1 DEF Whoami, CheckInv, CheckTypes
<1> HIDE DEF b
<1>4. CheckTypes'
  BY <1>2, <1>3 DEF CheckInv, CheckTypes
<1>5. TakenBlocks'
  <2>1. \A k \in 1..2 : ~ (k < 1)
    OBVIOUS
  <2> QED BY <1>3, <2>1 DEF CheckInv, TakenBlocks
<1>6. ReadyIsNew'
  BY <1>3 DEF ReadyIsNew
<1> QED BY <1>4, <1>5, <1>6 DEF CheckInv

\* A version that was taken is still there when it is viewed.
LEMMA ViewChecks ==
  ASSUME CheckInv, NpmView
  PROVE  CheckInv'
<1> DEFINE p == Order[run.step]
<1>1. PICK seen \in Views(p, run.versions[p]) :
        run' = [run EXCEPT !.step = @ + 1, !.blocked = @ \/ Blocks(seen, run.allow)]
  BY DEF NpmView
<1> DEFINE b == run.blocked \/ Blocks(seen, run.allow)
<1>2. b \in BOOLEAN
  OBVIOUS
<1>3. /\ run' = [state |-> run.state, step |-> run.step + 1, versions |-> run.versions,
                 taken |-> run.taken, blocked |-> b, allow |-> run.allow]
      /\ UNCHANGED <<packageFile, registry>> /\ run.state = "running" /\ run.step \in 1..2
  <2> HIDE DEF b
  <2>1. run' = [run EXCEPT !.step = run.step + 1, !.blocked = b]
    BY <1>1 DEF b
  <2> QED BY <2>1, OrderIs DEF NpmView, CheckInv, CheckTypes
<1>4. (p \in run.taken /\ ~run.allow) => b
  <2> SUFFICES ASSUME p \in run.taken, ~run.allow  PROVE b
    OBVIOUS
  <2>1. run.versions[p] \in registry[p]
    BY <1>3 DEF CheckInv, TakenBlocks
  <2>2. seen \in {"error", "found"}
    BY <1>1, <2>1 DEF Views
  <2> QED BY <2>2 DEF Blocks
<1> HIDE DEF b, p
<1>5. CheckTypes'
  BY <1>2, <1>3 DEF CheckInv, CheckTypes
<1>6. TakenBlocks'
  <2>1. ASSUME NEW k \in 1..2, k < run.step + 1, Order[k] \in run.taken, ~run.allow
        PROVE  b
    <3>1. k < run.step \/ k = run.step
      BY <1>3, <2>1
    <3>2. CASE k = run.step
      BY <1>4, <2>1, <3>2 DEF p
    <3>3. CASE k < run.step
      <4>1. run.blocked
        BY <1>3, <2>1, <3>3 DEF CheckInv, TakenBlocks
      <4> QED BY <4>1 DEF b
    <3> QED BY <3>1, <3>2, <3>3
  <2>2. run.step + 1 \in 0..3
    BY <1>3
  <2>3. \A q \in run.taken : run.versions[q] \in registry[q]
    BY <1>3 DEF CheckInv, TakenBlocks
  <2> QED BY <1>3, <2>1, <2>2, <2>3 DEF TakenBlocks
<1>7. ReadyIsNew'
  BY <1>3 DEF ReadyIsNew
<1> QED BY <1>5, <1>6, <1>7 DEF CheckInv

LEMMA ConcludeChecks ==
  ASSUME CheckInv, Conclude
  PROVE  CheckInv'
<1> DEFINE st == IF run.blocked THEN "blocked" ELSE "ready"
<1>1. /\ run' = [state |-> st, step |-> run.step, versions |-> run.versions,
                 taken |-> run.taken, blocked |-> run.blocked, allow |-> run.allow]
      /\ UNCHANGED <<packageFile, registry>> /\ run.state = "running" /\ run.step = 3
  <2> HIDE DEF st
  <2>1. run' = [run EXCEPT !.state = st]
    BY DEF Conclude, st
  <2>2. run.step \in 0..3 /\ run.step > 2 /\ run.state = "running"
        /\ UNCHANGED <<packageFile, registry>>
    BY OrderIs DEF Conclude, CheckInv, TakenBlocks
  <2>3. run.step = 3
    BY <2>2
  <2> QED BY <2>1, <2>2, <2>3 DEF CheckInv, CheckTypes
<1>2. CheckTypes' /\ TakenBlocks'
  <2> HIDE DEF st
  <2>1. CheckTypes'
    BY <1>1 DEF CheckInv, CheckTypes
  <2>2. st # "running"
    BY DEF st
  <2> QED BY <1>1, <2>1, <2>2 DEF TakenBlocks
<1>3. ReadyIsNew'
  <2> SUFFICES ASSUME ~run.blocked, ~run.allow  PROVE run.taken = {}
    BY <1>1 DEF ReadyIsNew
  <2>1. Order[1] \notin run.taken /\ Order[2] \notin run.taken
    <3>1. 1 \in 1..2 /\ 2 \in 1..2 /\ 1 < run.step /\ 2 < run.step
      BY <1>1
    <3> QED BY <1>1, <3>1 DEF CheckInv, TakenBlocks
  <2> QED BY <2>1, OrderIs DEF CheckInv, CheckTypes, Packages
<1> QED BY <1>2, <1>3 DEF CheckInv

(* scripts/publish-preflight.mjs: whatever is released, edited or logged   *)
(* out during a run, and whatever fails, "ready" without the flag is said  *)
(* of versions that npm had not when the run began.                        *)
THEOREM ReadyStaysNew == NpmSpec => []ReadyIsNew
<1>1. NpmInit => CheckInv
  BY VersionAssumption DEF NpmInit, IdleRun, CheckInv, CheckTypes, TakenBlocks, ReadyIsNew
<1>2. CheckInv /\ [NpmNext]_npmVars => CheckInv'
  <2> SUFFICES ASSUME CheckInv, [NpmNext]_npmVars  PROVE CheckInv'
    OBVIOUS
  <2>1. CASE \E approved, allow \in BOOLEAN : BeginCheck(approved, allow)
    BY <2>1, CheckBegins
  <2>2. CASE Whoami \/ NpmView \/ Conclude
    BY <2>2, WhoamiChecks, ViewChecks, ConcludeChecks
  <2>3. ASSUME NEW p \in Packages, Release(p)
        PROVE  CheckInv'
    <3>1. /\ registry' = [registry EXCEPT ![p] = @ \cup {packageFile[p].version}]
          /\ run' = run
          /\ packageFile' = packageFile
      BY <2>3 DEF Release
    <3>2. packageFile[p].version \in Nat
      BY <2>3, VersionAssumption DEF CheckInv, CheckTypes, PackageFile
    <3>3. registry' \in [Packages -> SUBSET Nat]
      BY <3>1, <3>2 DEF CheckInv, CheckTypes
    <3>4. \A q \in Packages : registry[q] \subseteq registry'[q]
      BY <3>1 DEF CheckInv, CheckTypes
    <3>5. CheckTypes' /\ ReadyIsNew'
      BY <3>1, <3>3 DEF CheckInv, CheckTypes, ReadyIsNew
    <3>6. TakenBlocks'
      BY <3>1, <3>4 DEF CheckInv, CheckTypes, TakenBlocks
    <3> QED BY <3>5, <3>6 DEF CheckInv
  <2>4. ASSUME UNCHANGED <<registry, run>>, packageFile' \in [Packages -> PackageFile]
        PROVE  CheckInv'
    BY <2>4 DEF CheckInv, CheckTypes, TakenBlocks, ReadyIsNew
  <2>5. ASSUME NEW p \in Packages, NEW f \in PackageFile, EditPackage(p, f)
        PROVE  CheckInv'
    BY <2>4, <2>5 DEF EditPackage, CheckInv, CheckTypes
  <2>6. CASE (\E known \in BOOLEAN : LogIn(known)) \/ UNCHANGED npmVars
    BY <2>4, <2>6 DEF LogIn, npmVars, CheckInv, CheckTypes
  <2> QED BY <2>1, <2>2, <2>3, <2>5, <2>6 DEF NpmNext
<1>3. CheckInv => ReadyIsNew
  BY DEF CheckInv
<1> QED BY <1>1, <1>2, <1>3, PTL DEF NpmSpec

-----------------------------------------------------------------------------
(* The monitor.                                                            *)

\* What a file of events can hold.
Indexed(flow, file) ==
  [type |-> "Approved", root |-> {}, nullifier |-> SelectEvent(flow, file).nullifier]
IndexedEvents == {Indexed(flow, file) : flow \in {"payment", "rwa"}, file \in RawFiles}
EventFiles == Seq(Events \cup IndexedEvents)

\* The alerts say what there is in the file.
Told(file, i, alerts) ==
  RootAlerts(file, i) \cup ReplayAlerts(file) \cup InvalidProofAlerts(file) \subseteq alerts

MonitorTypes ==
  /\ NormalizeEvents(events) \in EventFiles
  /\ monitor.file \in EventFiles
  /\ monitor = [state |-> monitor.state, webhook |-> monitor.webhook, file |-> monitor.file,
                issuance |-> monitor.issuance, alerts |-> monitor.alerts, exit |-> monitor.exit]

\* A run that has read the issuance has its alerts, and a calm exit is of a
\* run whose alerts are not critical and were accepted by its webhook.
MonitorTells ==
  /\ monitor.state = "emit" => Told(monitor.file, monitor.issuance, monitor.alerts)
  /\ monitor.exit = 0 => /\ monitor.state = "ended"
                         /\ Told(monitor.file, monitor.issuance, monitor.alerts)
                         /\ ~Critical(monitor.alerts)
                         /\ monitor.webhook => monitor.alerts \subseteq delivered

MonitorInv == MonitorTypes /\ MonitorTells

LEMMA FileIsList ==
  ASSUME NEW f \in EventFiles
  PROVE  DOMAIN f = 1..Len(f) /\ Len(f) \in Nat
BY LenProperties DEF EventFiles

\* Calm alerts are of a clean file.
LEMMA CalmIsClean ==
  ASSUME NEW f \in EventFiles, NEW i, NEW alerts, Told(f, i, alerts), ~Critical(alerts)
  PROVE  /\ ~Has(f, "InvalidProof")
         /\ \A k, n \in DOMAIN f :
              f[k].nullifier = f[n].nullifier => k = n \/ f[k].nullifier = NoValue
         /\ i # Missing =>
              \A k \in DOMAIN f : f[k].type \in RootTypes => f[k].root = RootsOf(i)[f[k].type]
<1>1. DOMAIN f = 1..Len(f) /\ Len(f) \in Nat
  BY FileIsList
<1>2. ASSUME NEW k \in DOMAIN f, f[k].type = "InvalidProof"
      PROVE  FALSE
  <2> DEFINE a == [kind |-> "invalid_proof", at |-> k, severity |-> "critical"]
  <2>1. a \in alerts
    BY <1>2 DEF Told, InvalidProofAlerts
  <2>2. a.severity = "critical"
    OBVIOUS
  <2> HIDE DEF a
  <2> QED BY <2>1, <2>2 DEF Critical
<1>3. ASSUME NEW k \in DOMAIN f, NEW n \in DOMAIN f, n < k, f[k].nullifier = f[n].nullifier
      PROVE  f[k].nullifier = NoValue
  <2> SUFFICES ASSUME f[k].nullifier # NoValue  PROVE FALSE
    OBVIOUS
  <2> DEFINE a == [kind |-> "nullifier_replay", at |-> k, severity |-> "critical"]
  <2>1. n \in 1 .. k - 1
    BY <1>1, <1>3
  <2>2. a \in alerts
    BY <1>3, <2>1 DEF Told, ReplayAlerts
  <2>3. a.severity = "critical"
    OBVIOUS
  <2> HIDE DEF a
  <2> QED BY <2>2, <2>3 DEF Critical
<1>4. ASSUME NEW k \in DOMAIN f, NEW n \in DOMAIN f, f[k].nullifier = f[n].nullifier
      PROVE  k = n \/ f[k].nullifier = NoValue
  <2>1. k < n \/ k = n \/ n < k
    BY <1>1
  <2> QED BY <1>3, <1>4, <2>1
<1>5. ASSUME i # Missing, NEW k \in DOMAIN f, f[k].type \in RootTypes
      PROVE  f[k].root = RootsOf(i)[f[k].type]
  <2> SUFFICES ASSUME f[k].root # RootsOf(i)[f[k].type]  PROVE FALSE
    OBVIOUS
  <2> DEFINE a == [kind |-> f[k].type, at |-> k, severity |-> "critical"]
  <2>1. a \in RootAlerts(f, i)
    BY <1>5 DEF RootAlerts
  <2>2. a.severity = "critical" /\ a \in alerts
    BY <2>1 DEF Told
  <2> HIDE DEF a
  <2> QED BY <2>2 DEF Critical
<1> QED BY <1>2, <1>4, <1>5 DEF Has

LEMMA MonitorRests ==
  ASSUME MonitorInv, UNCHANGED monitorVars
  PROVE  MonitorInv'
BY DEF MonitorInv, MonitorTypes, MonitorTells, monitorVars, Told, RootAlerts, ReplayAlerts,
   InvalidProofAlerts, Critical, NormalizeEvents

LEMMA MonitorBegins ==
  ASSUME MonitorInv, NEW webhook \in BOOLEAN, BeginMonitor(webhook)
  PROVE  MonitorInv'
<1>1. /\ monitor' = [state |-> "issuance", webhook |-> webhook, file |-> NormalizeEvents(events),
                     issuance |-> Missing, alerts |-> {}, exit |-> NoValue]
      /\ events' = events
  BY DEF BeginMonitor, NoRun
<1>2. NoValue # 0
  BY MonitorAssumption
<1>3. MonitorTypes'
  BY <1>1 DEF MonitorInv, MonitorTypes, NormalizeEvents
<1>4. MonitorTells'
  BY <1>1, <1>2 DEF MonitorTells
<1> QED BY <1>3, <1>4 DEF MonitorInv

LEMMA MonitorReads ==
  ASSUME MonitorInv, ReadIssuance
  PROVE  MonitorInv'
<1>1. events' = events /\ delivered' = delivered
  BY DEF ReadIssuance
<1>2. CASE issuance = Cut
  <2>1. monitor' = [state |-> "ended", webhook |-> monitor.webhook, file |-> monitor.file,
                    issuance |-> monitor.issuance, alerts |-> monitor.alerts, exit |-> 1]
    BY <1>2 DEF ReadIssuance, Exit, MonitorInv, MonitorTypes
  <2> QED BY <1>1, <2>1 DEF MonitorInv, MonitorTypes, MonitorTells, NormalizeEvents
<1>3. CASE issuance # Cut
  <2> DEFINE al == BuildAlerts(monitor.file, issuance)
  <2>1. Told(monitor.file, issuance, al)
    BY DEF Told, BuildAlerts
  <2> HIDE DEF al
  <2>2. monitor' = [state |-> "emit", webhook |-> monitor.webhook, file |-> monitor.file,
                    issuance |-> issuance, alerts |-> al, exit |-> monitor.exit]
    BY <1>3 DEF ReadIssuance, al, MonitorInv, MonitorTypes
  <2>3. monitor.exit # 0
    BY DEF ReadIssuance, MonitorInv, MonitorTells
  <2>4. MonitorTypes'
    BY <1>1, <2>2 DEF MonitorInv, MonitorTypes, NormalizeEvents
  <2>5. MonitorTells'
    BY <2>1, <2>2, <2>3 DEF MonitorTells
  <2> QED BY <2>4, <2>5 DEF MonitorInv
<1> QED BY <1>2, <1>3

LEMMA MonitorEnds ==
  ASSUME MonitorInv, EndsUnposted \/ Emit \/ EmitFails
  PROVE  MonitorInv'
<1>1. ASSUME NEW x \in {0, 1}, monitor' = Exit(x), events' = events,
             monitor.state = "emit",
             x = 0 => /\ ~Critical(monitor.alerts)
                      /\ monitor.webhook => monitor.alerts \subseteq delivered'
      PROVE  MonitorInv'
  <2>1. monitor' = [state |-> "ended", webhook |-> monitor.webhook, file |-> monitor.file,
                    issuance |-> monitor.issuance, alerts |-> monitor.alerts, exit |-> x]
    BY <1>1 DEF Exit, MonitorInv, MonitorTypes
  <2>2. Told(monitor.file, monitor.issuance, monitor.alerts)
    BY <1>1 DEF MonitorInv, MonitorTells
  <2>3. MonitorTypes'
    BY <1>1, <2>1 DEF MonitorInv, MonitorTypes, NormalizeEvents
  <2>4. MonitorTells'
    BY <1>1, <2>1, <2>2 DEF MonitorTells
  <2> QED BY <2>3, <2>4 DEF MonitorInv
<1> DEFINE x == IF Critical(monitor.alerts) THEN 1 ELSE 0
<1>2. x \in {0, 1} /\ (x = 0 => ~Critical(monitor.alerts))
  OBVIOUS
<1>3. CASE EndsUnposted
  <2>1. monitor.webhook => monitor.alerts \subseteq delivered
    BY <1>3 DEF EndsUnposted, Posts
  <2>2. monitor' = Exit(x) /\ UNCHANGED <<events, delivered>> /\ monitor.state = "emit"
    BY <1>3 DEF EndsUnposted
  <2> HIDE DEF x
  <2> QED BY <1>1, <1>2, <2>1, <2>2
<1>4. CASE Emit
  <2>1. /\ monitor' = Exit(x) /\ events' = events /\ monitor.state = "emit"
        /\ delivered' = monitor.alerts
    BY <1>4 DEF Emit
  <2> HIDE DEF x
  <2> QED BY <1>1, <1>2, <2>1
<1>5. CASE EmitFails
  BY <1>1, <1>5 DEF EmitFails
<1> QED BY <1>3, <1>4, <1>5

\* New events are in no run that has read the file.
LEMMA EventsCome ==
  ASSUME MonitorInv, UNCHANGED <<monitor, delivered>>, NormalizeEvents(events)' \in EventFiles
  PROVE  MonitorInv'
BY DEF MonitorInv, MonitorTypes, MonitorTells

(* services/monitoring/monitor.js: for any events and issuer, an exit with *)
(* 0 means a file without rejected proofs, replays and strange roots, and, *)
(* of a run with a webhook, that it accepted what there was to say.        *)
THEOREM QuietStaysClean == MonitorSpec => []QuietMeansClean
<1>1. MonitorInit => MonitorInv
  <2> SUFFICES ASSUME MonitorInit  PROVE MonitorInv
    OBVIOUS
  <2>1. NormalizeEvents(events) = <<>> /\ monitor = NoRun
    BY DEF MonitorInit, NormalizeEvents
  <2>2. <<>> \in EventFiles
    BY DEF EventFiles
  <2>3. NoValue # 0
    BY MonitorAssumption
  <2>4. monitor.state = "idle" /\ monitor.file = <<>> /\ monitor.exit = NoValue
    BY <2>1 DEF NoRun
  <2>5. MonitorTypes
    BY <2>1, <2>2, <2>4 DEF NoRun, MonitorTypes
  <2>6. MonitorTells
    BY <2>3, <2>4 DEF MonitorTells
  <2> QED BY <2>5, <2>6 DEF MonitorInv
<1>2. MonitorInv /\ [MonitorNext]_allVars => MonitorInv'
  <2> SUFFICES ASSUME MonitorInv, [MonitorNext]_allVars  PROVE MonitorInv'
    OBVIOUS
  <2>1. CASE UNCHANGED monitorVars
    BY <2>1, MonitorRests
  <2>2. CASE (\E webhook \in BOOLEAN : BeginMonitor(webhook)) \/ ReadIssuance
               \/ EndsUnposted \/ Emit \/ EmitFails
    BY <2>2, MonitorBegins, MonitorReads, MonitorEnds
  <2>3. ASSUME NEW payment \in RawFiles, NEW rwa \in RawFiles, BuildIndex(payment, rwa)
        PROVE  MonitorInv'
    <3> DEFINE e == Indexed("payment", payment)
               g == Indexed("rwa", rwa)
    <3>1. e \in IndexedEvents /\ g \in IndexedEvents
      BY DEF IndexedEvents
    <3>2. events' = <<e, g>> /\ UNCHANGED <<monitor, delivered>>
      BY <2>3 DEF BuildIndex, Indexed
    <3> HIDE DEF e, g
    <3>3. <<e, g>> \in EventFiles /\ <<>> \in EventFiles
      BY <3>1 DEF EventFiles
    <3>4. NormalizeEvents(events)' \in EventFiles
      BY <3>2, <3>3 DEF NormalizeEvents
    <3> QED BY <3>2, <3>4, EventsCome
  <2>4. ASSUME NEW e \in Events, AddEvent(e)
        PROVE  MonitorInv'
    <3>1. /\ events' = Append(NormalizeEvents(events), e)
          /\ UNCHANGED <<monitor, delivered>>
      BY <2>4 DEF AddEvent
    <3>2. Append(NormalizeEvents(events), e) \in EventFiles /\ <<>> \in EventFiles
      BY DEF MonitorInv, MonitorTypes, EventFiles
    <3>3. NormalizeEvents(events)' \in EventFiles
      BY <3>1, <3>2 DEF NormalizeEvents
    <3> QED BY <3>1, <3>3, EventsCome
  <2> QED BY <2>1, <2>2, <2>3, <2>4 DEF MonitorNext, allVars
<1>3. MonitorInv => QuietMeansClean
  <2> SUFFICES ASSUME MonitorInv, monitor.exit = 0  PROVE QuietMeansClean
    BY DEF QuietMeansClean
  <2>1. /\ monitor.file \in EventFiles /\ ~Critical(monitor.alerts)
        /\ Told(monitor.file, monitor.issuance, monitor.alerts)
        /\ monitor.webhook => monitor.alerts \subseteq delivered
    BY DEF MonitorInv, MonitorTypes, MonitorTells
  <2> QED BY <2>1, CalmIsClean DEF QuietMeansClean
<1> QED BY <1>1, <1>2, <1>3, PTL DEF MonitorSpec

-----------------------------------------------------------------------------
(* The commands of the issuer.                                             *)

Synced == Ops(TRUE, TRUE)

LEMMA Joined ==
  ASSUME NEW S, NEW s \in Seq(S), NEW t \in Seq(S), NEW r \in Seq(S),
         Len(r) = Len(s) + Len(t),
         \A i \in 1..Len(s) : r[i] = s[i],
         \A i \in 1..Len(t) : r[Len(s) + i] = t[i]
  PROVE  s \o t = r
<1>1. Len(s) \in Nat /\ Len(t) \in Nat
  OBVIOUS
<1> DEFINE u == s \o t
<1>2. u \in Seq(S) /\ Len(u) = Len(s) + Len(t)
      /\ \A i \in 1..(Len(s) + Len(t)) : u[i] = IF i <= Len(s) THEN s[i] ELSE t[i - Len(s)]
  BY ConcatProperties
<1> HIDE DEF u
<1>3. ASSUME NEW i \in 1..Len(u)
      PROVE  u[i] = r[i]
  <2>1. CASE i <= Len(s)
    <3>1. i \in 1..Len(s) /\ i \in 1..(Len(s) + Len(t))
      BY <1>1, <1>2, <2>1
    <3> QED BY <1>2, <2>1, <3>1
  <2>2. CASE ~ (i <= Len(s))
    <3>1. i - Len(s) \in 1..Len(t) /\ Len(s) + (i - Len(s)) = i /\ i \in 1..(Len(s) + Len(t))
      BY <1>1, <1>2, <2>2
    <3> QED BY <1>2, <2>2, <3>1
  <2> QED BY <2>1, <2>2
<1>4. u = r
  BY <1>2, <1>3, SeqEqual
<1> QED BY <1>4 DEF u

LEMMA SyncedSteps ==
  Synced = <<"fetch", "sdn", "sample", "previous", "build", "issuance", "report", "status">>
<1> DEFINE W == {"fetch", "sdn", "sample", "previous", "build", "issuance", "report", "status"}
           s == <<"fetch", "sdn", "sample">>
           t == <<"previous", "build", "issuance", "report">>
           st == <<"fetch", "sdn", "sample", "previous", "build", "issuance", "report">>
           e == <<"status">>
           all == <<"fetch", "sdn", "sample", "previous", "build", "issuance", "report", "status">>
<1>1. /\ s \in Seq(W) /\ Len(s) = 3
      /\ s[1] = "fetch" /\ s[2] = "sdn" /\ s[3] = "sample"
  OBVIOUS
<1>2. /\ t \in Seq(W) /\ Len(t) = 4
      /\ t[1] = "previous" /\ t[2] = "build" /\ t[3] = "issuance" /\ t[4] = "report"
  OBVIOUS
<1>a. e \in Seq(W) /\ Len(e) = 1 /\ e[1] = "status"
  OBVIOUS
<1>b. /\ st \in Seq(W) /\ Len(st) = 7
      /\ st[1] = "fetch" /\ st[2] = "sdn" /\ st[3] = "sample"
      /\ st[4] = "previous" /\ st[5] = "build" /\ st[6] = "issuance" /\ st[7] = "report"
  <2>1. st \in Seq(W)
    OBVIOUS
  <2> QED BY <2>1
<1>c. /\ all \in Seq(W) /\ Len(all) = 8
      /\ all[1] = "fetch" /\ all[2] = "sdn" /\ all[3] = "sample"
      /\ all[4] = "previous" /\ all[5] = "build" /\ all[6] = "issuance" /\ all[7] = "report"
      /\ all[8] = "status"
  <2>1. all \in Seq(W)
    OBVIOUS
  <2> QED BY <2>1
<1>3. Synced = (s \o t) \o e
  BY DEF Ops, SyncSteps, RotateSteps, Synced
<1> HIDE DEF W, s, t, st, e, all
<1>4. s \o t = st
  <2>1. \A i \in 1..3 : i = 1 \/ i = 2 \/ i = 3
    OBVIOUS
  <2>2. \A i \in 1..4 : i = 1 \/ i = 2 \/ i = 3 \/ i = 4
    OBVIOUS
  <2>3. \A i \in 1..3 : st[i] = s[i]
    BY <1>1, <1>b, <2>1
  <2>4. \A i \in 1..4 : st[3 + i] = t[i]
    BY <1>2, <1>b, <2>2
  <2>5. /\ Len(st) = Len(s) + Len(t)
        /\ \A i \in 1..Len(s) : st[i] = s[i]
        /\ \A i \in 1..Len(t) : st[Len(s) + i] = t[i]
    BY <1>1, <1>2, <1>b, <2>3, <2>4
  <2> QED BY <1>1, <1>2, <1>b, <2>5, Joined
<1>5. st \o e = all
  <2>1. \A i \in 1..7 : i = 1 \/ i = 2 \/ i = 3 \/ i = 4 \/ i = 5 \/ i = 6 \/ i = 7
    OBVIOUS
  <2>2. \A i \in 1..1 : i = 1
    OBVIOUS
  <2>3. \A i \in 1..7 : all[i] = st[i]
    BY <1>b, <1>c, <2>1
  <2>4. \A i \in 1..1 : all[7 + i] = e[i]
    BY <1>a, <1>c, <2>2
  <2>5. /\ Len(all) = Len(st) + Len(e)
        /\ \A i \in 1..Len(st) : all[i] = st[i]
        /\ \A i \in 1..Len(e) : all[Len(st) + i] = e[i]
    BY <1>a, <1>b, <1>c, <2>3, <2>4
  <2> QED BY <1>a, <1>b, <1>c, <2>5, Joined
<1>6. Synced = all
  BY <1>3, <1>4, <1>5
<1> QED BY <1>6 DEF all

SyncedWords == {"fetch", "sdn", "sample", "previous", "build", "issuance", "report", "status"}

\* What a run of issuer:ops --sync knows by the number of steps it has left.
SyncedRest(todo) ==
  /\ todo \in Seq(SyncedWords) /\ Len(todo) \in 1..8
  /\ \A i \in 1..Len(todo) : todo[i] = Synced[8 - Len(todo) + i]

Blocked(text) == ListedUsers(RowsOf(text) \cup AltNames)

SyncedSoFar(j, list) ==
  /\ SyncedRest(j.todo)
  /\ Len(j.todo) \in 4..7 => j.text \in Lists
  /\ Len(j.todo) \in 4..6 => list = [rows |-> j.text, cut |-> FALSE]
  /\ Len(j.todo) \in 1..3 => j.matched = Blocked(j.text)

JobShape(j) ==
  j = [command |-> j.command, todo |-> j.todo, state |-> j.state, writing |-> j.writing,
       text |-> j.text, start |-> j.start, source |-> j.source, rows |-> j.rows,
       matched |-> j.matched, previous |-> j.previous]

\* Of the one command that runs.
JobInv(j, list) ==
  /\ JobShape(j)
  /\ j.command = Synced =>
       /\ j.state = "running" => SyncedSoFar(j, list)
       /\ j.state = "done" => j.matched = Blocked(j.text)

LEMMA SyncedHas ==
  /\ Synced \in Seq(SyncedWords) /\ Len(Synced) = 8
  /\ Synced[1] = "fetch" /\ Synced[2] = "sdn" /\ Synced[3] = "sample" /\ Synced[4] = "previous"
  /\ Synced[5] = "build" /\ Synced[6] = "issuance" /\ Synced[7] = "report" /\ Synced[8] = "status"
<1> DEFINE all == <<"fetch", "sdn", "sample", "previous", "build", "issuance", "report", "status">>
<1>1. all \in Seq(SyncedWords)
  BY DEF SyncedWords
<1>2. /\ Len(all) = 8
      /\ all[1] = "fetch" /\ all[2] = "sdn" /\ all[3] = "sample" /\ all[4] = "previous"
      /\ all[5] = "build" /\ all[6] = "issuance" /\ all[7] = "report" /\ all[8] = "status"
  OBVIOUS
<1>3. Synced = all
  BY SyncedSteps
<1> HIDE DEF all
<1> QED BY <1>1, <1>2, <1>3

\* The next step says how many are left.
LEMMA HeadTells ==
  ASSUME NEW todo, SyncedRest(todo)
  PROVE  /\ Head(todo) = Synced[9 - Len(todo)]
         /\ Head(todo) = "fetch" => Len(todo) = 8
         /\ Head(todo) = "sdn" => Len(todo) = 7
         /\ Head(todo) = "sample" => Len(todo) = 6
         /\ Head(todo) = "previous" => Len(todo) = 5
         /\ Head(todo) = "build" => Len(todo) = 4
         /\ Head(todo) \in {"issuance", "report", "status"} => Len(todo) \in 1..3
<1>1. Len(todo) \in 1..8 /\ todo \in Seq(SyncedWords)
  BY DEF SyncedRest
<1>2. 1 \in 1..Len(todo) /\ 8 - Len(todo) + 1 = 9 - Len(todo)
  <2>1. \A m \in 1..8 : 1 \in 1..m /\ 8 - m + 1 = 9 - m
    OBVIOUS
  <2> QED BY <1>1, <2>1
<1>3. todo[1] = Synced[9 - Len(todo)]
  BY <1>2 DEF SyncedRest
<1>4. Head(todo) = todo[1]
  OBVIOUS
<1> DEFINE n == Len(todo)
<1>5. n = 1 \/ n = 2 \/ n = 3 \/ n = 4 \/ n = 5 \/ n = 6 \/ n = 7 \/ n = 8
  BY <1>1
<1>6. Head(todo) = Synced[9 - n]
  BY <1>3, <1>4
<1> HIDE DEF n
<1>7. /\ Head(todo) = "fetch" => n = 8
      /\ Head(todo) = "sdn" => n = 7
      /\ Head(todo) = "sample" => n = 6
      /\ Head(todo) = "previous" => n = 5
      /\ Head(todo) = "build" => n = 4
      /\ Head(todo) \in {"issuance", "report", "status"} => n \in 1..3
  BY <1>5, <1>6, SyncedHas
<1> QED BY <1>6, <1>7 DEF n

LEMMA TailRests ==
  ASSUME NEW todo, SyncedRest(todo), Len(todo) # 1
  PROVE  SyncedRest(Tail(todo)) /\ Len(Tail(todo)) = Len(todo) - 1
<1>1. Len(todo) \in 1..8 /\ todo \in Seq(SyncedWords)
  BY DEF SyncedRest
<1>2. /\ Tail(todo) \in Seq(SyncedWords) /\ Len(Tail(todo)) = Len(todo) - 1
      /\ \A i \in 1..(Len(todo) - 1) : Tail(todo)[i] = todo[i + 1]
  <2>1. todo # <<>>
    BY <1>1
  <2> QED BY <1>1, <2>1, HeadTailProperties
<1> DEFINE n == Len(todo)
           t == Tail(todo)
<1>3. n \in 2..8 /\ Len(t) = n - 1 /\ Len(t) \in 1..8
  <2>1. n \in 1..8 /\ n # 1 /\ Len(t) = n - 1
    BY <1>1, <1>2
  <2> HIDE DEF t, n
  <2> QED BY <2>1
<1> HIDE DEF t, n
<1>4. ASSUME NEW i \in 1..Len(t)
      PROVE  t[i] = Synced[8 - Len(t) + i]
  <2>1. i \in 1..(n - 1) /\ i + 1 \in 1..n /\ 8 - n + (i + 1) = 8 - Len(t) + i
    BY <1>3
  <2>2. t[i] = todo[i + 1]
    BY <1>2, <2>1 DEF n, t
  <2>3. todo[i + 1] = Synced[8 - n + (i + 1)]
    BY <2>1 DEF n, SyncedRest
  <2> QED BY <2>1, <2>2, <2>3
<1> QED BY <1>2, <1>3, <1>4 DEF SyncedRest, n, t

\* The lists are compared by the word of a name.
LEMMA ScreensListed ==
  ASSUME NEW names
  PROVE  ScreenRoster(names) = ListedUsers(names)
BY DEF ScreenRoster, ListedUsers, ScreeningIndex, NormalizeName

-----------------------------------------------------------------------------
(* One worker, w, runs the commands.                                       *)
SyncInv(w) ==
  /\ treasury \in Lists
  /\ jobs = [x \in {w} |-> jobs[w]]
  /\ JobInv(jobs[w], sdn)

\* What is told apart of a job, and what a step changes of it.
JobIs(k, command, todo, state, text, matched) ==
  /\ JobShape(k)
  /\ k.command = command /\ k.todo = todo /\ k.state = state /\ k.text = text /\ k.matched = matched

LEMMA JobUpdates ==
  ASSUME NEW a, JobShape(a), NEW v
  PROVE  /\ JobIs([a EXCEPT !.command = v], v, a.todo, a.state, a.text, a.matched)
         /\ JobIs([a EXCEPT !.todo = v], a.command, v, a.state, a.text, a.matched)
         /\ JobIs([a EXCEPT !.state = v], a.command, a.todo, v, a.text, a.matched)
         /\ JobIs([a EXCEPT !.writing = v], a.command, a.todo, a.state, a.text, a.matched)
         /\ JobIs([a EXCEPT !.text = v], a.command, a.todo, a.state, v, a.matched)
         /\ JobIs([a EXCEPT !.start = v], a.command, a.todo, a.state, a.text, a.matched)
         /\ JobIs([a EXCEPT !.source = v], a.command, a.todo, a.state, a.text, a.matched)
         /\ JobIs([a EXCEPT !.rows = v], a.command, a.todo, a.state, a.text, a.matched)
         /\ JobIs([a EXCEPT !.matched = v], a.command, a.todo, a.state, a.text, v)
         /\ JobIs([a EXCEPT !.previous = v], a.command, a.todo, a.state, a.text, a.matched)
<1>1. JobIs([a EXCEPT !.command = v], v, a.todo, a.state, a.text, a.matched)
  <2> DEFINE k == [a EXCEPT !.command = v]
  <2>1. k = [command |-> v, todo |-> a.todo, state |-> a.state, writing |-> a.writing,
            text |-> a.text, start |-> a.start, source |-> a.source,
            rows |-> a.rows, matched |-> a.matched, previous |-> a.previous]
    BY DEF JobShape
  <2> HIDE DEF k
  <2>2. JobIs(k, v, a.todo, a.state, a.text, a.matched)
    BY <2>1 DEF JobIs, JobShape
  <2> QED BY <2>2 DEF k
<1>2. JobIs([a EXCEPT !.todo = v], a.command, v, a.state, a.text, a.matched)
  <2> DEFINE k == [a EXCEPT !.todo = v]
  <2>1. k = [command |-> a.command, todo |-> v, state |-> a.state, writing |-> a.writing,
            text |-> a.text, start |-> a.start, source |-> a.source,
            rows |-> a.rows, matched |-> a.matched, previous |-> a.previous]
    BY DEF JobShape
  <2> HIDE DEF k
  <2>2. JobIs(k, a.command, v, a.state, a.text, a.matched)
    BY <2>1 DEF JobIs, JobShape
  <2> QED BY <2>2 DEF k
<1>3. JobIs([a EXCEPT !.state = v], a.command, a.todo, v, a.text, a.matched)
  <2> DEFINE k == [a EXCEPT !.state = v]
  <2>1. k = [command |-> a.command, todo |-> a.todo, state |-> v, writing |-> a.writing,
            text |-> a.text, start |-> a.start, source |-> a.source,
            rows |-> a.rows, matched |-> a.matched, previous |-> a.previous]
    BY DEF JobShape
  <2> HIDE DEF k
  <2>2. JobIs(k, a.command, a.todo, v, a.text, a.matched)
    BY <2>1 DEF JobIs, JobShape
  <2> QED BY <2>2 DEF k
<1>4. JobIs([a EXCEPT !.writing = v], a.command, a.todo, a.state, a.text, a.matched)
  <2> DEFINE k == [a EXCEPT !.writing = v]
  <2>1. k = [command |-> a.command, todo |-> a.todo, state |-> a.state, writing |-> v,
            text |-> a.text, start |-> a.start, source |-> a.source,
            rows |-> a.rows, matched |-> a.matched, previous |-> a.previous]
    BY DEF JobShape
  <2> HIDE DEF k
  <2>2. JobIs(k, a.command, a.todo, a.state, a.text, a.matched)
    BY <2>1 DEF JobIs, JobShape
  <2> QED BY <2>2 DEF k
<1>5. JobIs([a EXCEPT !.text = v], a.command, a.todo, a.state, v, a.matched)
  <2> DEFINE k == [a EXCEPT !.text = v]
  <2>1. k = [command |-> a.command, todo |-> a.todo, state |-> a.state, writing |-> a.writing,
            text |-> v, start |-> a.start, source |-> a.source,
            rows |-> a.rows, matched |-> a.matched, previous |-> a.previous]
    BY DEF JobShape
  <2> HIDE DEF k
  <2>2. JobIs(k, a.command, a.todo, a.state, v, a.matched)
    BY <2>1 DEF JobIs, JobShape
  <2> QED BY <2>2 DEF k
<1>6. JobIs([a EXCEPT !.start = v], a.command, a.todo, a.state, a.text, a.matched)
  <2> DEFINE k == [a EXCEPT !.start = v]
  <2>1. k = [command |-> a.command, todo |-> a.todo, state |-> a.state, writing |-> a.writing,
            text |-> a.text, start |-> v, source |-> a.source,
            rows |-> a.rows, matched |-> a.matched, previous |-> a.previous]
    BY DEF JobShape
  <2> HIDE DEF k
  <2>2. JobIs(k, a.command, a.todo, a.state, a.text, a.matched)
    BY <2>1 DEF JobIs, JobShape
  <2> QED BY <2>2 DEF k
<1>7. JobIs([a EXCEPT !.source = v], a.command, a.todo, a.state, a.text, a.matched)
  <2> DEFINE k == [a EXCEPT !.source = v]
  <2>1. k = [command |-> a.command, todo |-> a.todo, state |-> a.state, writing |-> a.writing,
            text |-> a.text, start |-> a.start, source |-> v,
            rows |-> a.rows, matched |-> a.matched, previous |-> a.previous]
    BY DEF JobShape
  <2> HIDE DEF k
  <2>2. JobIs(k, a.command, a.todo, a.state, a.text, a.matched)
    BY <2>1 DEF JobIs, JobShape
  <2> QED BY <2>2 DEF k
<1>8. JobIs([a EXCEPT !.rows = v], a.command, a.todo, a.state, a.text, a.matched)
  <2> DEFINE k == [a EXCEPT !.rows = v]
  <2>1. k = [command |-> a.command, todo |-> a.todo, state |-> a.state, writing |-> a.writing,
            text |-> a.text, start |-> a.start, source |-> a.source,
            rows |-> v, matched |-> a.matched, previous |-> a.previous]
    BY DEF JobShape
  <2> HIDE DEF k
  <2>2. JobIs(k, a.command, a.todo, a.state, a.text, a.matched)
    BY <2>1 DEF JobIs, JobShape
  <2> QED BY <2>2 DEF k
<1>9. JobIs([a EXCEPT !.matched = v], a.command, a.todo, a.state, a.text, v)
  <2> DEFINE k == [a EXCEPT !.matched = v]
  <2>1. k = [command |-> a.command, todo |-> a.todo, state |-> a.state, writing |-> a.writing,
            text |-> a.text, start |-> a.start, source |-> a.source,
            rows |-> a.rows, matched |-> v, previous |-> a.previous]
    BY DEF JobShape
  <2> HIDE DEF k
  <2>2. JobIs(k, a.command, a.todo, a.state, a.text, v)
    BY <2>1 DEF JobIs, JobShape
  <2> QED BY <2>2 DEF k
<1>10. JobIs([a EXCEPT !.previous = v], a.command, a.todo, a.state, a.text, a.matched)
  <2> DEFINE k == [a EXCEPT !.previous = v]
  <2>1. k = [command |-> a.command, todo |-> a.todo, state |-> a.state, writing |-> a.writing,
            text |-> a.text, start |-> a.start, source |-> a.source,
            rows |-> a.rows, matched |-> a.matched, previous |-> v]
    BY DEF JobShape
  <2> HIDE DEF k
  <2>2. JobIs(k, a.command, a.todo, a.state, a.text, a.matched)
    BY <2>1 DEF JobIs, JobShape
  <2> QED BY <2>2 DEF k
<1> QED BY <1>1, <1>2, <1>3, <1>4, <1>5, <1>6, <1>7, <1>8, <1>9, <1>10

LEMMA JobFollows ==
  ASSUME NEW a, NEW v, NEW command, NEW todo, NEW state, NEW text, NEW matched,
         JobIs(a, command, todo, state, text, matched)
  PROVE  /\ JobIs([a EXCEPT !.command = v], v, todo, state, text, matched)
         /\ JobIs([a EXCEPT !.todo = v], command, v, state, text, matched)
         /\ JobIs([a EXCEPT !.state = v], command, todo, v, text, matched)
         /\ JobIs([a EXCEPT !.writing = v], command, todo, state, text, matched)
         /\ JobIs([a EXCEPT !.text = v], command, todo, state, v, matched)
         /\ JobIs([a EXCEPT !.start = v], command, todo, state, text, matched)
         /\ JobIs([a EXCEPT !.source = v], command, todo, state, text, matched)
         /\ JobIs([a EXCEPT !.rows = v], command, todo, state, text, matched)
         /\ JobIs([a EXCEPT !.matched = v], command, todo, state, text, v)
         /\ JobIs([a EXCEPT !.previous = v], command, todo, state, text, matched)
<1>1. /\ JobShape(a)
      /\ a.command = command /\ a.todo = todo /\ a.state = state /\ a.text = text
      /\ a.matched = matched
  BY DEF JobIs
<1> QED BY <1>1, JobUpdates

\* What NextStep makes of a job.
LEMMA NextJob ==
  ASSUME NEW w, jobs = [x \in {w} |-> jobs[w]], NEW j, JobShape(j), NextStep(w, j)
  PROVE  LET k == jobs'[w] IN
         /\ jobs' = [x \in {w} |-> k]
         /\ JobIs(k, j.command, Tail(j.todo), IF Len(j.todo) = 1 THEN "done" ELSE "running",
                  j.text, j.matched)
<1> DEFINE st == IF Len(j.todo) = 1 THEN "done" ELSE "running"
           rest == Tail(j.todo)
           a == [j EXCEPT !.todo = rest]
           b == [a EXCEPT !.writing = FALSE]
           k == [b EXCEPT !.state = st]
<1>1. k = [j EXCEPT !.todo = Tail(j.todo), !.writing = FALSE, !.state = st]
  OBVIOUS
<1>2. JobIs(a, j.command, rest, j.state, j.text, j.matched)
  BY JobUpdates
<1> HIDE DEF a
<1>3. JobIs(b, j.command, rest, j.state, j.text, j.matched)
  BY <1>2, JobFollows
<1> HIDE DEF b
<1>4. JobIs(k, j.command, rest, st, j.text, j.matched)
  BY <1>3, JobFollows
<1>5. jobs' = [jobs EXCEPT ![w] = k]
  BY <1>1 DEF NextStep
<1> HIDE DEF k
<1>6. jobs' = [x \in {w} |-> k] /\ jobs'[w] = k
  BY <1>5
<1> QED BY <1>4, <1>6

\* A job that stands still, or throws.
LEMMA JobHalts ==
  ASSUME NEW w, SyncInv(w), treasury' = treasury,
         NEW st, jobs' = [jobs EXCEPT ![w].state = st],
         st = "threw" \/ (st = jobs[w].state /\ sdn' = sdn)
  PROVE  SyncInv(w)'
<1> DEFINE j == jobs[w]
<1>1. JobInv(j, sdn) /\ jobs = [x \in {w} |-> j]
  BY DEF SyncInv
<1>2. jobs' = [jobs EXCEPT ![w] = [j EXCEPT !.state = st]]
  OBVIOUS
<1> DEFINE k == [j EXCEPT !.state = st]
<1>3. k = [command |-> j.command, todo |-> j.todo, state |-> st, writing |-> j.writing,
           text |-> j.text, start |-> j.start, source |-> j.source, rows |-> j.rows,
           matched |-> j.matched, previous |-> j.previous]
  <2> HIDE DEF j
  <2> QED BY <1>1 DEF JobInv, JobShape
<1> HIDE DEF k, j
<1>4. jobs' = [x \in {w} |-> k] /\ jobs'[w] = k
  BY <1>1, <1>2 DEF k
<1>5. JobShape(k)
  BY <1>3 DEF JobShape
<1>6. CASE st = "threw"
  <2>1. JobInv(k, sdn')
    BY <1>3, <1>4, <1>5, <1>6 DEF JobInv
  <2> QED BY <1>4, <2>1 DEF SyncInv
<1>7. CASE st = j.state /\ sdn' = sdn
  <2>1. k = j
    BY <1>1, <1>3, <1>7 DEF JobInv, JobShape
  <2>2. JobInv(k, sdn')
    BY <1>1, <1>4, <1>7, <2>1 DEF JobInv, SyncedSoFar, SyncedRest
  <2> QED BY <1>4, <2>2 DEF SyncInv
<1> QED BY <1>6, <1>7 DEF j

\* A step of a job that knows what it has to know.
LEMMA JobGoesOn ==
  ASSUME NEW w, SyncInv(w), treasury' = treasury, CommandRuns(w), NEW j, JobShape(j),
         j.command = jobs[w].command, j.todo = jobs[w].todo, NextStep(w, j),
         j.command = Synced =>
           /\ Len(j.todo) \in 5..8 => j.text \in Lists
           /\ Len(j.todo) \in 5..7 => sdn' = [rows |-> j.text, cut |-> FALSE]
           /\ Len(j.todo) \in 1..4 => j.matched = Blocked(j.text)
  PROVE  SyncInv(w)'
<1> DEFINE k == jobs'[w]
<1>1. /\ jobs' = [x \in {w} |-> k] /\ JobShape(k)
      /\ k.command = j.command /\ k.text = j.text /\ k.matched = j.matched
      /\ k.todo = Tail(j.todo)
      /\ k.state = IF Len(j.todo) = 1 THEN "done" ELSE "running"
  BY NextJob DEF SyncInv, JobIs
<1> HIDE DEF k
<1>2. ASSUME k.command = Synced
      PROVE  /\ k.state = "running" => SyncedSoFar(k, sdn')
             /\ k.state = "done" => k.matched = Blocked(k.text)
  <2>1. SyncedRest(j.todo)
    BY <1>1, <1>2 DEF SyncInv, JobInv, CommandRuns, SyncedSoFar
  <2>2. Len(j.todo) \in 1..8
    BY <2>1 DEF SyncedRest
  <2>3. CASE Len(j.todo) = 1
    <3>1. 1 \in 1..4
      OBVIOUS
    <3> QED BY <1>1, <1>2, <2>3, <3>1
  <2>4. CASE Len(j.todo) # 1
    <3>1. SyncedRest(k.todo) /\ Len(k.todo) = Len(j.todo) - 1
      BY <1>1, <2>1, <2>4, TailRests
    <3> DEFINE n == Len(k.todo)
               m == Len(j.todo)
    <3>2. n = m - 1 /\ m \in 1..8
      BY <2>2, <3>1
    <3> HIDE DEF n, m
    <3>3. /\ n \in 4..7 => m \in 5..8
          /\ n \in 4..6 => m \in 5..7
          /\ n \in 1..3 => m \in 1..4
      BY <3>2
    <3>4. /\ n \in 4..7 => k.text \in Lists
          /\ n \in 4..6 => sdn' = [rows |-> k.text, cut |-> FALSE]
          /\ n \in 1..3 => k.matched = Blocked(k.text)
      BY <1>1, <1>2, <3>3 DEF m
    <3>5. k.state = "running"
      BY <1>1, <2>4
    <3> QED BY <3>1, <3>4, <3>5 DEF SyncedSoFar, SyncedRest, n
  <2> QED BY <2>3, <2>4
<1>3. JobInv(k, sdn')
  BY <1>1, <1>2 DEF JobInv
<1> QED BY <1>1, <1>3 DEF SyncInv, k

\* A command that begins has all its steps before it.
LEMMA CommandBegins ==
  ASSUME NEW w, SyncInv(w), NEW command, BeginCommand(w, command)
  PROVE  SyncInv(w)'
<1> DEFINE k1 == [NoJob EXCEPT !.command = command]
           k2 == [k1 EXCEPT !.todo = command]
           k3 == [k2 EXCEPT !.state = "running"]
           k == [k3 EXCEPT !.start = opsNow]
<1>1. /\ k = [NoJob EXCEPT !.command = command, !.todo = command, !.state = "running", !.start = opsNow]
      /\ JobShape(NoJob)
  BY DEF NoJob, JobShape
<1>2. jobs' = [jobs EXCEPT ![w] = k] /\ treasury' = treasury /\ sdn' = sdn
  <2> HIDE DEF k
  <2> QED BY <1>1 DEF BeginCommand, files
<1>3. JobShape(k) /\ k.command = command /\ k.todo = command /\ k.state = "running"
  <2>1. JobIs(k1, command, NoJob.todo, NoJob.state, NoJob.text, NoJob.matched)
    BY <1>1, JobUpdates
  <2> HIDE DEF k1
  <2>2. JobIs(k2, command, command, NoJob.state, NoJob.text, NoJob.matched)
    BY <2>1, JobFollows
  <2> HIDE DEF k2
  <2>3. JobIs(k3, command, command, "running", NoJob.text, NoJob.matched)
    BY <2>2, JobFollows
  <2> HIDE DEF k3
  <2>4. JobIs(k, command, command, "running", NoJob.text, NoJob.matched)
    BY <2>3, JobFollows
  <2> QED BY <2>4 DEF JobIs
<1> HIDE DEF k
<1>4. jobs' = [x \in {w} |-> k] /\ jobs'[w] = k
  BY <1>2 DEF SyncInv
<1>5. ASSUME command = Synced
      PROVE  SyncedSoFar(k, sdn)
  <2> DEFINE n == Len(Synced)
  <2>1. n = 8 /\ Synced \in Seq(SyncedWords)
    BY SyncedHas
  <2> HIDE DEF n
  <2>2. n \in 1..8 /\ n \notin 4..7 /\ n \notin 4..6 /\ n \notin 1..3
        /\ \A i \in 1..n : 8 - n + i = i
    BY <2>1
  <2> QED BY <1>3, <1>5, <2>1, <2>2 DEF SyncedSoFar, SyncedRest, n
<1>6. JobInv(k, sdn)
  BY <1>3, <1>5 DEF JobInv
<1> QED BY <1>2, <1>4, <1>6 DEF SyncInv

\* The steps that compute.
LEMMA ComputingKeeps ==
  ASSUME NEW w, SyncInv(w), Fetch(w) \/ FetchFails(w) \/ ReadPrevious(w) \/ BuildJob(w)
  PROVE  SyncInv(w)'
<1> DEFINE j == jobs[w]
<1>1. /\ treasury' = treasury /\ sdn' = sdn /\ CommandRuns(w) /\ JobShape(j) /\ treasury \in Lists
  BY DEF SyncInv, JobInv, Fetch, FetchFails, ReadPrevious, BuildJob, JobAt, files
<1>2. CASE ThrowCommand(w)
  BY <1>1, <1>2, JobHalts DEF ThrowCommand
<1>3. j.command = Synced => SyncedSoFar(j, sdn) /\ Len(j.todo) \in 1..8
  BY <1>1 DEF SyncInv, JobInv, CommandRuns, SyncedSoFar, SyncedRest
<1>4. ASSUME JobAt(w, "fetch"), NextStep(w, [jobs[w] EXCEPT !.text = treasury])
      PROVE  SyncInv(w)'
  <2> DEFINE k == [j EXCEPT !.text = treasury]
  <2>1. /\ JobShape(k) /\ k.command = j.command /\ k.todo = j.todo /\ k.text = treasury
    <3> HIDE DEF k, j
    <3>1. JobIs([j EXCEPT !.text = treasury], j.command, j.todo, j.state, treasury, j.matched)
      BY <1>1, JobUpdates
    <3> QED BY <3>1 DEF JobIs, k
  <2>2. j.command = Synced => Len(j.todo) = 8
    BY <1>3, <1>4, HeadTells DEF JobAt, SyncedSoFar
  <2>3. 8 \notin 5..7 /\ 8 \notin 1..4
    OBVIOUS
  <2> HIDE DEF k
  <2>4. NextStep(w, k)
    BY <1>4 DEF k
  <2> QED BY <1>1, <2>1, <2>2, <2>3, <2>4, JobGoesOn
<1>5. ASSUME JobAt(w, "previous"), NEW y, NEW z,
             NextStep(w, [jobs[w] EXCEPT !.start = y, !.previous = z])
      PROVE  SyncInv(w)'
  <2> DEFINE a == [j EXCEPT !.start = y]
             k == [a EXCEPT !.previous = z]
  <2>1. k = [j EXCEPT !.start = y, !.previous = z]
    OBVIOUS
  <2>2. JobIs(a, j.command, j.todo, j.state, j.text, j.matched)
    <3> HIDE DEF j
    <3> QED BY <1>1, JobUpdates
  <2> HIDE DEF a
  <2>3. JobIs(k, j.command, j.todo, j.state, j.text, j.matched)
    BY <2>2, JobFollows
  <2>5. NextStep(w, k)
    <3> HIDE DEF k
    <3> QED BY <1>5, <2>1
  <2> HIDE DEF k
  <2>6. /\ JobShape(k) /\ k.command = j.command /\ k.todo = j.todo /\ k.text = j.text
        /\ k.matched = j.matched
    BY <2>3 DEF JobIs
  <2>7. j.command = Synced => Len(j.todo) = 5
    BY <1>3, <1>5, HeadTells DEF JobAt, SyncedSoFar
  <2>8. 5 \in 4..7 /\ 5 \in 4..6 /\ 5 \notin 1..4
    OBVIOUS
  <2> QED BY <1>1, <1>3, <2>5, <2>6, <2>7, <2>8, JobGoesOn DEF SyncedSoFar
<1>6. ASSUME BuildJob(w), ~ThrowCommand(w)
      PROVE  SyncInv(w)'
  <2> DEFINE n == SourceFile.name
             r == SourceFile.content.rows
             m == ScreenRoster(RowsOf(r) \cup AltNames)
             a == [j EXCEPT !.source = n]
             b == [a EXCEPT !.rows = r]
             k == [b EXCEPT !.matched = m]
  <2>1. /\ JobAt(w, "build")
        /\ NextStep(w, [jobs[w] EXCEPT !.source = n, !.rows = r, !.matched = m])
    BY <1>6 DEF BuildJob
  <2>2. j.command = Synced => m = Blocked(j.text)
    <3> SUFFICES ASSUME j.command = Synced  PROVE m = Blocked(j.text)
      OBVIOUS
    <3>1. Len(j.todo) = 4
      BY <1>3, <2>1, HeadTells DEF JobAt, SyncedSoFar
    <3>2. 4 \in 4..7 /\ 4 \in 4..6
      OBVIOUS
    <3>3. j.text \in Lists /\ sdn = [rows |-> j.text, cut |-> FALSE]
      BY <1>3, <3>1, <3>2 DEF SyncedSoFar
    <3>4. sdn # Missing
      <4>1. sdn \in [rows : Seq(Names), cut : BOOLEAN]
        BY <3>3, OpsAssumption
      <4> QED BY <4>1, OpsAssumption
    <3>5. r = j.text
      BY <3>3, <3>4 DEF SourceFile
    <3> QED BY <3>5, ScreensListed DEF Blocked
  <2> HIDE DEF n, r, m
  <2>3. k = [j EXCEPT !.source = n, !.rows = r, !.matched = m]
    OBVIOUS
  <2>4. NextStep(w, k)
    <3> HIDE DEF k
    <3> QED BY <2>1, <2>3
  <2>5. JobIs(a, j.command, j.todo, j.state, j.text, j.matched)
    <3> HIDE DEF j
    <3> QED BY <1>1, JobUpdates
  <2> HIDE DEF a
  <2>6. JobIs(b, j.command, j.todo, j.state, j.text, j.matched)
    BY <2>5, JobFollows
  <2> HIDE DEF b
  <2>7. JobIs(k, j.command, j.todo, j.state, j.text, m)
    BY <2>6, JobFollows
  <2> HIDE DEF k
  <2>8. j.command = Synced => Len(j.todo) = 4
    BY <1>3, <2>1, HeadTells DEF JobAt, SyncedSoFar
  <2>9. 4 \in 4..7 /\ 4 \in 4..6 /\ 4 \notin 5..8 /\ 4 \notin 5..7
    OBVIOUS
  <2> QED BY <1>1, <2>2, <2>4, <2>7, <2>8, <2>9, JobGoesOn DEF JobIs
<1> QED BY <1>2, <1>4, <1>5, <1>6 DEF Fetch, FetchFails, ReadPrevious, BuildJob

\* A step that only opens a file; the list itself is open before it counts.
LEMMA OpeningKeeps ==
  ASSUME NEW w, SyncInv(w), CommandRuns(w), treasury' = treasury,
         jobs' = [jobs EXCEPT ![w].writing = TRUE],
         jobs[w].command = Synced => sdn' = sdn \/ Len(jobs[w].todo) = 7
  PROVE  SyncInv(w)'
<1> DEFINE j == jobs[w]
           k == [j EXCEPT !.writing = TRUE]
<1>1. JobInv(j, sdn) /\ jobs = [x \in {w} |-> j] /\ j.state = "running"
  BY DEF SyncInv, CommandRuns
<1>2. jobs' = [jobs EXCEPT ![w] = k]
  OBVIOUS
<1>3. JobIs(k, j.command, j.todo, j.state, j.text, j.matched)
  <2> HIDE DEF j
  <2> QED BY <1>1, JobUpdates DEF JobInv
<1>4. j.command = Synced => sdn' = sdn \/ Len(j.todo) = 7
  OBVIOUS
<1> HIDE DEF k, j
<1>5. jobs' = [x \in {w} |-> k] /\ jobs'[w] = k
  BY <1>1, <1>2
<1>6. ASSUME j.command = Synced
      PROVE  SyncedSoFar(k, sdn')
  <2>1. SyncedSoFar(j, sdn)
    BY <1>1, <1>6 DEF JobInv
  <2>2. k.todo = j.todo /\ k.text = j.text /\ k.matched = j.matched
    BY <1>3 DEF JobIs
  <2>3. 7 \notin 4..6
    OBVIOUS
  <2> QED BY <1>4, <1>6, <2>1, <2>2, <2>3 DEF SyncedSoFar
<1>7. JobInv(k, sdn')
  <2>1. JobShape(k) /\ k.command = j.command /\ k.state = "running"
    BY <1>1, <1>3 DEF JobIs
  <2> QED BY <1>6, <2>1 DEF JobInv
<1> QED BY <1>5, <1>7 DEF SyncInv

\* A step after the rotation has screened the roster.
LEMMA LateStepKeeps ==
  ASSUME NEW w, SyncInv(w), NEW step \in {"issuance", "report", "status"}, JobAt(w, step),
         UNCHANGED <<treasury, sdn>>, NextStep(w, jobs[w])
  PROVE  SyncInv(w)'
<1> DEFINE j == jobs[w]
<1>1. CommandRuns(w) /\ JobShape(j) /\ NextStep(w, j)
  BY DEF SyncInv, JobInv, JobAt
<1>2. ASSUME j.command = Synced
      PROVE  Len(j.todo) \in 1..3 /\ j.matched = Blocked(j.text)
  <2>1. SyncedSoFar(j, sdn)
    BY <1>1, <1>2 DEF SyncInv, JobInv, CommandRuns
  <2>2. Len(j.todo) \in 1..3
    BY <2>1, HeadTells DEF JobAt, SyncedSoFar
  <2> QED BY <2>1, <2>2 DEF SyncedSoFar
<1>3. \A n \in 1..3 : n \notin 5..8 /\ n \notin 5..7
  OBVIOUS
<1> HIDE DEF j
<1>4. j.command = jobs[w].command /\ j.todo = jobs[w].todo
  BY DEF j
<1> QED BY <1>1, <1>2, <1>3, <1>4, JobGoesOn

LEMMA WriteListKeeps ==
  ASSUME NEW w, SyncInv(w), WriteList(w)
  PROVE  SyncInv(w)'
<1> DEFINE j == jobs[w]
<1>1. CommandRuns(w) /\ JobShape(j) /\ treasury' = treasury
  BY DEF SyncInv, JobInv, WriteList, Opening, Closing, JobAt
<1>2. j.command = Synced =>
        /\ SyncedSoFar(j, sdn)
        /\ Head(j.todo) = "sdn" => Len(j.todo) = 7
        /\ Head(j.todo) = "sample" => Len(j.todo) = 6
  <2>1. j.command = Synced => SyncedSoFar(j, sdn)
    BY <1>1 DEF SyncInv, JobInv, CommandRuns
  <2> QED BY <2>1, HeadTells DEF SyncedSoFar
<1>3. CASE Opening(w, "sdn")
  BY <1>1, <1>2, <1>3, OpeningKeeps DEF Opening, JobAt
<1>4. CASE Opening(w, "sample") /\ UNCHANGED sdn
  BY <1>1, <1>4, OpeningKeeps DEF Opening
<1> HIDE DEF j
<1>5. j.command = jobs[w].command /\ j.todo = jobs[w].todo /\ j.text = jobs[w].text
  BY DEF j
<1>6. CASE Closing(w, "sdn") /\ sdn' = [rows |-> jobs[w].text, cut |-> FALSE]
  <2>1. NextStep(w, j) /\ Head(j.todo) = "sdn"
    BY <1>6 DEF Closing, JobAt, j
  <2>2. 7 \in 4..7 /\ 7 \notin 1..4
    OBVIOUS
  <2>3. j.command = Synced => Len(j.todo) = 7 /\ j.text \in Lists
    BY <1>2, <2>1, <2>2 DEF SyncedSoFar
  <2> QED BY <1>1, <1>5, <1>6, <2>1, <2>2, <2>3, JobGoesOn
<1>7. CASE Closing(w, "sample") /\ UNCHANGED sdn
  <2>1. NextStep(w, j) /\ Head(j.todo) = "sample"
    BY <1>7 DEF Closing, JobAt, j
  <2>2. 6 \in 4..7 /\ 6 \in 4..6 /\ 6 \notin 1..4
    OBVIOUS
  <2>3. j.command = Synced =>
          /\ Len(j.todo) = 6 /\ j.text \in Lists /\ sdn' = [rows |-> j.text, cut |-> FALSE]
    BY <1>2, <1>7, <2>1, <2>2 DEF SyncedSoFar
  <2> QED BY <1>1, <1>5, <2>1, <2>2, <2>3, JobGoesOn
<1> QED BY <1>3, <1>4, <1>6, <1>7 DEF WriteList

LEMMA SyncStep ==
  ASSUME NEW w, Workers = {w}, SyncInv(w), [OpsNext]_opsVars
  PROVE  SyncInv(w)'
<1>1. CASE Fetch(w) \/ FetchFails(w) \/ ReadPrevious(w) \/ BuildJob(w)
  BY <1>1, ComputingKeeps
<1>2. CASE WriteList(w)
  BY <1>2, WriteListKeeps
<1>3. CASE WriteIssuance(w)
  <2>1. UNCHANGED <<treasury, sdn>>
    BY <1>3 DEF WriteIssuance
  <2>2. CASE Opening(w, "issuance")
    BY <2>1, <2>2, OpeningKeeps DEF Opening, JobAt
  <2>3. CASE Closing(w, "issuance")
    BY <2>1, <2>3, LateStepKeeps DEF Closing
  <2> QED BY <1>3, <2>2, <2>3 DEF WriteIssuance
<1>4. CASE WriteReport(w)
  BY <1>4, LateStepKeeps DEF WriteReport
<1>5. ASSUME ThrowCommand(w), treasury' = treasury
      PROVE  SyncInv(w)'
  BY <1>5, JobHalts DEF ThrowCommand
<1>6. CASE WriteStatus(w)
  BY <1>5, <1>6, LateStepKeeps DEF WriteStatus
<1>7. CASE StopCommand(w)
  BY <1>5, <1>7 DEF StopCommand
<1>8. CASE \E command \in Commands : BeginCommand(w, command)
  BY <1>8, CommandBegins
<1>9. ASSUME UNCHANGED <<sdn, jobs>>, treasury' \in Lists
      PROVE  SyncInv(w)'
  BY <1>9 DEF SyncInv
<1>10. CASE (\E list \in Lists : PublishList(list)) \/ OpsTick \/ UNCHANGED opsVars
  BY <1>9, <1>10 DEF PublishList, OpsTick, opsVars, files, SyncInv
<1> QED BY <1>1, <1>2, <1>3, <1>4, <1>6, <1>7, <1>8, <1>10 DEF OpsNext, Work

(* services/issuer/ops.js: where the issuer's commands run one after the   *)
(* other, a sync that ended has screened the list it fetched, for any      *)
(* roster, spelling and list, whatever was stopped, failed or left cut     *)
(* before.  Nothing in the code keeps two commands apart: of two at once   *)
(* one may build from the list of the other.                               *)
THEOREM SyncScreens ==
  ASSUME NEW w, Workers = {w}
  PROVE  OpsSpec => []SyncedRunScreensFetched
<1>1. OpsInit => SyncInv(w)
  <2> SUFFICES ASSUME OpsInit  PROVE SyncInv(w)
    OBVIOUS
  <2>1. jobs = [x \in {w} |-> NoJob] /\ jobs[w] = NoJob /\ treasury \in Lists
    BY DEF OpsInit
  <2>2. JobShape(NoJob) /\ NoJob.state = "idle"
    BY DEF NoJob, JobShape
  <2> QED BY <2>1, <2>2 DEF SyncInv, JobInv
<1>2. SyncInv(w) /\ [OpsNext]_opsVars => SyncInv(w)'
  BY SyncStep
<1>3. SyncInv(w) => SyncedRunScreensFetched
  BY DEF SyncInv, JobInv, SyncedRunScreensFetched, Synced, Blocked
<1> QED BY <1>1, <1>2, <1>3, PTL DEF OpsSpec

-----------------------------------------------------------------------------
(* The types of the issuer's commands, for any number of workers.          *)

\* What is left of a command: a list is written after it was fetched, and the
\* sample after the list.
Plan(todo) ==
  /\ todo \in Seq(SyncedWords)
  /\ \A i \in 1..Len(todo) : \A k \in 1..Len(todo) :
       k = i + 1 => /\ todo[k] = "sdn" => todo[i] = "fetch"
                    /\ todo[k] = "sample" => todo[i] = "sdn"

\* A whole command does not begin by writing a list.
Whole(todo) == Plan(todo) /\ (todo # <<>> => todo[1] \notin {"sdn", "sample"})

JobTypes ==
  [command : Commands \cup {<<>>}, todo : Seq(SyncedWords), state : {"idle", "running", "done", "threw"},
   writing : BOOLEAN, text : Seq(Names), start : Nat, source : {"none", "sdn", "sample"},
   rows : Seq(Names), matched : SUBSET RosterUsers, previous : (SUBSET RosterUsers) \cup {Missing}]

JobTyped(j) ==
  /\ j \in JobTypes
  /\ Plan(j.todo)
  /\ j.state = "running" => j.todo # <<>>
  /\ j.state \in {"idle", "done"} => j.todo = <<>>
  /\ j.state = "running" /\ j.todo[1] \in {"sdn", "sample"} => j.text # <<>>

JobsTyped == jobs \in [Workers -> JobTypes] /\ \A w \in Workers : JobTyped(jobs[w])

FilesTyped ==
  /\ opsNow \in 0..MaxTime /\ faults \in 0..MaxFaults /\ treasury \in Lists
  /\ sdn \in Contents \cup {Missing} /\ sample \in Contents
  /\ \/ issuance \in {Missing, Cut}
     \/ issuance \in [matched : SUBSET RosterUsers, mtime : 0..opsNow, at : Nat \cup {Missing}]
  /\ report \in [previous : (SUBSET RosterUsers) \cup {Missing}, current : SUBSET RosterUsers] \cup {Missing}
  /\ status \in BOOLEAN \cup {Missing}

LEMMA FieldTypes ==
  ASSUME NEW C, NEW T, NEW S, NEW W, NEW X, NEW B, NEW O, NEW R, NEW M, NEW P,
         NEW a \in [command : C, todo : T, state : S, writing : W, text : X, start : B,
                    source : O, rows : R, matched : M, previous : P],
         NEW v
  PROVE  LET J == [command : C, todo : T, state : S, writing : W, text : X, start : B,
                   source : O, rows : R, matched : M, previous : P] IN
         /\ v \in C => [a EXCEPT !.command = v] \in J
         /\ v \in T => [a EXCEPT !.todo = v] \in J
         /\ v \in S => [a EXCEPT !.state = v] \in J
         /\ v \in W => [a EXCEPT !.writing = v] \in J
         /\ v \in X => [a EXCEPT !.text = v] \in J
         /\ v \in B => [a EXCEPT !.start = v] \in J
         /\ v \in O => [a EXCEPT !.source = v] \in J
         /\ v \in R => [a EXCEPT !.rows = v] \in J
         /\ v \in M => [a EXCEPT !.matched = v] \in J
         /\ v \in P => [a EXCEPT !.previous = v] \in J
OBVIOUS

\* A typed job, by what it says.
LEMMA TypedShape ==
  ASSUME NEW j \in JobTypes
  PROVE  /\ JobShape(j)
         /\ j.command \in Commands \cup {<<>>} /\ j.todo \in Seq(SyncedWords)
         /\ j.text \in Seq(Names) /\ j.start \in Nat /\ j.matched \subseteq RosterUsers
         /\ j.previous \in (SUBSET RosterUsers) \cup {Missing}
         /\ j.state \in {"idle", "running", "done", "threw"}
BY DEF JobTypes, JobShape

LEMMA UpdateTyped ==
  ASSUME NEW a \in JobTypes, NEW v
  PROVE  /\ v \in Commands \cup {<<>>} => [a EXCEPT !.command = v] \in JobTypes
         /\ v \in Seq(SyncedWords) => [a EXCEPT !.todo = v] \in JobTypes
         /\ v \in {"idle", "running", "done", "threw"} => [a EXCEPT !.state = v] \in JobTypes
         /\ v \in BOOLEAN => [a EXCEPT !.writing = v] \in JobTypes
         /\ v \in Seq(Names) => [a EXCEPT !.text = v] \in JobTypes
         /\ v \in Nat => [a EXCEPT !.start = v] \in JobTypes
         /\ v \in {"none", "sdn", "sample"} => [a EXCEPT !.source = v] \in JobTypes
         /\ v \in Seq(Names) => [a EXCEPT !.rows = v] \in JobTypes
         /\ v \in SUBSET RosterUsers => [a EXCEPT !.matched = v] \in JobTypes
         /\ v \in (SUBSET RosterUsers) \cup {Missing} => [a EXCEPT !.previous = v] \in JobTypes
BY FieldTypes DEF JobTypes

LEMMA PlanTail ==
  ASSUME NEW todo, Plan(todo), todo # <<>>
  PROVE  /\ Plan(Tail(todo)) /\ Head(todo) = todo[1]
         /\ Len(todo) # 1 => Tail(todo) # <<>>
         /\ Len(todo) = 1 => Tail(todo) = <<>>
         /\ Tail(todo) # <<>> => /\ Tail(todo)[1] = "sdn" => Head(todo) = "fetch"
                                 /\ Tail(todo)[1] = "sample" => Head(todo) = "sdn"
<1> DEFINE t == Tail(todo)
<1>1. todo \in Seq(SyncedWords) /\ Len(todo) \in Nat
  BY DEF Plan
<1>2. /\ t \in Seq(SyncedWords) /\ Len(t) = Len(todo) - 1 /\ Head(todo) = todo[1]
      /\ \A i \in 1..Len(t) : t[i] = todo[i + 1]
  BY <1>1, HeadTailProperties
<1>3. Len(todo) # 0
  BY <1>1, EmptySeq
<1>4. Len(t) = 0 <=> t = <<>>
  BY <1>2, EmptySeq
<1> HIDE DEF t
<1>5. \A i \in 1..Len(t) : i + 1 \in 1..Len(todo)
  BY <1>1, <1>2, <1>3
<1>6. ASSUME NEW i \in 1..Len(t), NEW k \in 1..Len(t), k = i + 1
      PROVE  (t[k] = "sdn" => t[i] = "fetch") /\ (t[k] = "sample" => t[i] = "sdn")
  <2>1. t[i] = todo[i + 1] /\ t[k] = todo[k + 1] /\ k + 1 = (i + 1) + 1
    BY <1>2, <1>6
  <2>2. i + 1 \in 1..Len(todo) /\ k + 1 \in 1..Len(todo)
    BY <1>5
  <2> QED BY <2>1, <2>2 DEF Plan
<1>7. Plan(t)
  BY <1>2, <1>6 DEF Plan
<1>8. ASSUME t # <<>>
      PROVE  (t[1] = "sdn" => todo[1] = "fetch") /\ (t[1] = "sample" => todo[1] = "sdn")
  <2>1. 1 \in 1..Len(t) /\ 1 \in 1..Len(todo) /\ 2 \in 1..Len(todo) /\ 2 = 1 + 1
    BY <1>1, <1>2, <1>3, <1>4, <1>8
  <2>2. t[1] = todo[2]
    BY <1>2, <2>1
  <2> QED BY <2>1, <2>2 DEF Plan
<1> QED BY <1>1, <1>2, <1>3, <1>4, <1>7, <1>8 DEF t

\* One part of a command after another.
LEMMA WholeJoin ==
  ASSUME NEW s, NEW t, Whole(s), Whole(t)
  PROVE  Whole(s \o t)
<1> DEFINE u == s \o t
           m == Len(s)
           n == Len(t)
<1>1. s \in Seq(SyncedWords) /\ t \in Seq(SyncedWords) /\ m \in Nat /\ n \in Nat
  BY DEF Whole, Plan
<1>2. u \in Seq(SyncedWords) /\ Len(u) = m + n
      /\ \A i \in 1..(m + n) : u[i] = IF i <= m THEN s[i] ELSE t[i - m]
  BY <1>1, ConcatProperties
<1>3. /\ m = 0 <=> s = <<>>
      /\ n = 0 <=> t = <<>>
      /\ m + n = 0 <=> u = <<>>
  BY <1>1, <1>2, EmptySeq
<1> HIDE DEF u, m, n
<1>4. ASSUME NEW i \in 1..Len(u), NEW k \in 1..Len(u), k = i + 1
      PROVE  (u[k] = "sdn" => u[i] = "fetch") /\ (u[k] = "sample" => u[i] = "sdn")
  <2>1. CASE k <= m
    <3>1. i \in 1..m /\ k \in 1..m /\ i <= m
      BY <1>1, <1>2, <1>4, <2>1
    <3>2. u[i] = s[i] /\ u[k] = s[k]
      BY <1>2, <2>1, <3>1
    <3> QED BY <1>4, <3>1, <3>2 DEF Whole, Plan, m
  <2>2. CASE i > m
    <3>1. i - m \in 1..n /\ k - m \in 1..n /\ k - m = (i - m) + 1 /\ ~(i <= m) /\ ~(k <= m)
      BY <1>1, <1>2, <1>4, <2>2
    <3>2. u[i] = t[i - m] /\ u[k] = t[k - m]
      BY <1>2, <3>1
    <3> QED BY <3>1, <3>2 DEF Whole, Plan, n
  <2>3. CASE i <= m /\ ~(k <= m)
    <3>1. k - m = 1 /\ n # 0
      BY <1>1, <1>2, <1>4, <2>3
    <3>2. u[k] = t[1] /\ t # <<>>
      BY <1>2, <1>3, <2>3, <3>1
    <3> QED BY <3>2 DEF Whole
  <2>4. k <= m \/ i > m \/ (i <= m /\ ~(k <= m))
    BY <1>1, <1>2
  <2> QED BY <2>1, <2>2, <2>3, <2>4
<1>5. ASSUME u # <<>>
      PROVE  u[1] \notin {"sdn", "sample"}
  <2>1. CASE m # 0
    <3>1. 1 <= m /\ 1 \in 1..(m + n)
      BY <1>1, <2>1
    <3>2. u[1] = s[1]
      BY <1>2, <3>1
    <3> QED BY <1>3, <2>1, <3>2 DEF Whole
  <2>2. CASE m = 0
    <3>1. n # 0 /\ 1 \in 1..(m + n) /\ ~(1 <= m) /\ 1 - m = 1
      BY <1>1, <1>3, <1>5, <2>2
    <3>2. u[1] = t[1]
      BY <1>2, <3>1
    <3> QED BY <1>3, <3>1, <3>2 DEF Whole
  <2> QED BY <2>1, <2>2
<1> QED BY <1>2, <1>4, <1>5 DEF Whole, Plan, u

LEMMA PartsAreWhole ==
  /\ Whole(<<>>) /\ Whole(<<"status">>) /\ Whole(SyncSteps) /\ Whole(RotateSteps) /\ Whole(Issue)
<1>1. Whole(<<>>)
  BY DEF Whole, Plan
<1>2. Whole(<<"status">>)
  BY DEF Whole, Plan, SyncedWords
<1>3. Whole(SyncSteps)
  <2> DEFINE s == <<"fetch", "sdn", "sample">>
  <2>1. s \in Seq(SyncedWords) /\ Len(s) = 3 /\ s[1] = "fetch" /\ s[2] = "sdn" /\ s[3] = "sample"
    BY DEF SyncedWords
  <2>2. SyncSteps = s
    BY DEF SyncSteps
  <2> HIDE DEF s
  <2>3. \A i \in 1..3 : i = 1 \/ i = 2 \/ i = 3
    OBVIOUS
  <2>4. \A i \in 1..Len(s) : \A k \in 1..Len(s) :
          k = i + 1 => (s[k] = "sdn" => s[i] = "fetch") /\ (s[k] = "sample" => s[i] = "sdn")
    BY <2>1, <2>3
  <2> QED BY <2>1, <2>2, <2>4 DEF Whole, Plan
<1>4. Whole(RotateSteps)
  <2> DEFINE s == <<"previous", "build", "issuance", "report">>
  <2>1. s \in Seq(SyncedWords) /\ Len(s) = 4
        /\ s[1] = "previous" /\ s[2] = "build" /\ s[3] = "issuance" /\ s[4] = "report"
    BY DEF SyncedWords
  <2>2. RotateSteps = s
    BY DEF RotateSteps
  <2> HIDE DEF s
  <2>3. \A i \in 1..4 : i = 1 \/ i = 2 \/ i = 3 \/ i = 4
    OBVIOUS
  <2>4. \A i \in 1..Len(s) : s[i] # "sdn" /\ s[i] # "sample"
    BY <2>1, <2>3
  <2> QED BY <2>1, <2>2, <2>4 DEF Whole, Plan
<1>5. Whole(Issue)
  <2> DEFINE s == <<"build", "issuance">>
  <2>1. s \in Seq(SyncedWords) /\ Len(s) = 2 /\ s[1] = "build" /\ s[2] = "issuance"
    BY DEF SyncedWords
  <2>2. Issue = s
    BY DEF Issue
  <2> HIDE DEF s
  <2>3. \A i \in 1..2 : i = 1 \/ i = 2
    OBVIOUS
  <2>4. \A i \in 1..Len(s) : s[i] # "sdn" /\ s[i] # "sample"
    BY <2>1, <2>3
  <2> QED BY <2>1, <2>2, <2>4 DEF Whole, Plan
<1> QED BY <1>1, <1>2, <1>3, <1>4, <1>5

\* Every command is whole and has a step.
LEMMA CommandsAreWhole ==
  ASSUME NEW command \in Commands
  PROVE  Whole(command) /\ command # <<>>
<1>1. CASE \E sync \in BOOLEAN, rotate \in BOOLEAN : command = Ops(sync, rotate)
  <2> PICK sync \in BOOLEAN, rotate \in BOOLEAN : command = Ops(sync, rotate)
    BY <1>1
  <2> DEFINE a == IF sync THEN SyncSteps ELSE <<>>
             b == IF rotate THEN RotateSteps ELSE <<>>
             c == <<"status">>
  <2>1. Whole(a) /\ Whole(b) /\ Whole(c) /\ Len(c) = 1
    BY PartsAreWhole
  <2>2. command = (a \o b) \o c
    BY DEF Ops
  <2> HIDE DEF a, b, c
  <2>3. Whole(a \o b)
    BY <2>1, WholeJoin
  <2>4. Whole(command)
    BY <2>1, <2>2, <2>3, WholeJoin
  <2>5. Len((a \o b) \o c) = Len(a \o b) + Len(c) /\ Len(a \o b) \in Nat
    <3>1. a \o b \in Seq(SyncedWords) /\ c \in Seq(SyncedWords)
      BY <2>1, <2>3 DEF Whole, Plan
    <3> DEFINE d == a \o b
    <3> HIDE DEF d
    <3>2. d \in Seq(SyncedWords)
      BY <3>1 DEF d
    <3>3. Len(d \o c) = Len(d) + Len(c) /\ Len(d) \in Nat
      BY <3>1, <3>2, ConcatProperties
    <3> QED BY <3>3 DEF d
  <2>6. Len(command) # 0
    BY <2>1, <2>2, <2>5
  <2> QED BY <2>4, <2>6, EmptySeq DEF Whole, Plan
<1>2. CASE command \in {OfacSync, Issue}
  BY <1>2, PartsAreWhole DEF OfacSync, SyncSteps, Issue
<1> QED BY <1>1, <1>2, CommandsAssumption

LEMMA PutTyped ==
  ASSUME JobsTyped, NEW w \in Workers, NEW k, JobTyped(k), jobs' = [jobs EXCEPT ![w] = k]
  PROVE  JobsTyped'
<1>1. k \in JobTypes
  BY DEF JobTyped
<1>2. jobs' \in [Workers -> JobTypes]
  BY <1>1 DEF JobsTyped
<1>3. \A x \in Workers : jobs'[x] = IF x = w THEN k ELSE jobs[x]
  BY DEF JobsTyped
<1>4. \A x \in Workers : JobTyped(jobs'[x])
  BY <1>3 DEF JobsTyped
<1> QED BY <1>2, <1>4 DEF JobsTyped

\* The step of a job that has what its next step needs.
LEMMA NextTyped ==
  ASSUME JobsTyped, NEW w \in Workers, NEW j \in JobTypes, Plan(j.todo), j.todo # <<>>,
         Head(j.todo) \in {"fetch", "sdn"} => j.text # <<>>, NextStep(w, j)
  PROVE  JobsTyped'
<1> DEFINE st == IF Len(j.todo) = 1 THEN "done" ELSE "running"
           rest == Tail(j.todo)
           a == [j EXCEPT !.todo = rest]
           b == [a EXCEPT !.writing = FALSE]
           k == [b EXCEPT !.state = st]
<1>1. jobs' = [jobs EXCEPT ![w] = k]
  BY DEF NextStep
<1>2. /\ Plan(rest) /\ rest \in Seq(SyncedWords)
      /\ st = "running" => rest # <<>>
      /\ st = "done" => rest = <<>>
      /\ st \in {"running", "done"}
      /\ (rest # <<>> /\ rest[1] \in {"sdn", "sample"}) => j.text # <<>>
  BY PlanTail DEF Plan
<1>3. JobShape(j)
  BY TypedShape
<1>4. a \in JobTypes /\ JobIs(a, j.command, rest, j.state, j.text, j.matched)
  <2> HIDE DEF rest
  <2> QED BY <1>2, <1>3, UpdateTyped, JobUpdates
<1> HIDE DEF st, rest, a
<1>5. b \in JobTypes /\ JobIs(b, j.command, rest, j.state, j.text, j.matched)
  BY <1>4, UpdateTyped, JobFollows
<1> HIDE DEF b
<1>6. k \in JobTypes /\ JobIs(k, j.command, rest, st, j.text, j.matched)
  BY <1>2, <1>5, UpdateTyped, JobFollows
<1> HIDE DEF k
<1>7. JobTyped(k)
  BY <1>2, <1>6 DEF JobTyped, JobIs
<1> QED BY <1>1, <1>7, PutTyped
\* A job that throws, or only opens a file.
LEMMA HaltTyped ==
  ASSUME JobsTyped, NEW w \in Workers, CommandRuns(w),
         ThrowCommand(w) \/ jobs' = [jobs EXCEPT ![w].writing = TRUE]
  PROVE  JobsTyped'
<1> DEFINE j == jobs[w]
<1>1. JobTyped(j) /\ j \in JobTypes /\ j.state = "running"
  BY DEF JobsTyped, CommandRuns
<1>2. JobShape(j)
  BY <1>1, TypedShape
<1>3. CASE ThrowCommand(w)
  <2> DEFINE k == [j EXCEPT !.state = "threw"]
  <2>1. jobs' = [jobs EXCEPT ![w] = k]
    BY <1>3 DEF ThrowCommand
  <2> HIDE DEF j
  <2>2. k \in JobTypes /\ JobIs(k, j.command, j.todo, "threw", j.text, j.matched)
    BY <1>1, <1>2, UpdateTyped, JobUpdates
  <2> HIDE DEF k
  <2>3. JobTyped(k)
    BY <1>1, <2>2 DEF JobTyped, JobIs
  <2> QED BY <2>1, <2>3, PutTyped
<1>4. CASE jobs' = [jobs EXCEPT ![w].writing = TRUE]
  <2> DEFINE k == [j EXCEPT !.writing = TRUE]
  <2>1. jobs' = [jobs EXCEPT ![w] = k]
    BY <1>4
  <2> HIDE DEF j
  <2>2. k \in JobTypes /\ JobIs(k, j.command, j.todo, j.state, j.text, j.matched)
    BY <1>1, <1>2, UpdateTyped, JobUpdates
  <2> HIDE DEF k
  <2>3. JobTyped(k)
    BY <1>1, <2>2 DEF JobTyped, JobIs
  <2> QED BY <2>1, <2>3, PutTyped
<1> QED BY <1>3, <1>4

LEMMA BeginTyped ==
  ASSUME JobsTyped, opsNow \in Nat, NEW w \in Workers, NEW command \in Commands, BeginCommand(w, command)
  PROVE  JobsTyped'
<1> DEFINE k1 == [NoJob EXCEPT !.command = command]
           k2 == [k1 EXCEPT !.todo = command]
           k3 == [k2 EXCEPT !.state = "running"]
           k == [k3 EXCEPT !.start = opsNow]
<1>1. Whole(command) /\ command # <<>> /\ command \in Seq(SyncedWords)
  BY CommandsAreWhole DEF Whole, Plan
<1>2. NoJob \in JobTypes /\ JobShape(NoJob)
  <2>1. <<>> \in Seq(SyncedWords) /\ <<>> \in Seq(Names)
    OBVIOUS
  <2>2. NoJob \in JobTypes
    BY <2>1 DEF NoJob, JobTypes
  <2> QED BY <2>2, TypedShape
<1>3. jobs' = [jobs EXCEPT ![w] = k]
  BY DEF BeginCommand
<1>4. k1 \in JobTypes /\ JobIs(k1, command, NoJob.todo, NoJob.state, NoJob.text, NoJob.matched)
  BY <1>2, UpdateTyped, JobUpdates
<1> HIDE DEF k1
<1>5. k2 \in JobTypes /\ JobIs(k2, command, command, NoJob.state, NoJob.text, NoJob.matched)
  BY <1>1, <1>4, UpdateTyped, JobFollows
<1> HIDE DEF k2
<1>6. k3 \in JobTypes /\ JobIs(k3, command, command, "running", NoJob.text, NoJob.matched)
  BY <1>5, UpdateTyped, JobFollows
<1> HIDE DEF k3
<1>7. k \in JobTypes /\ JobIs(k, command, command, "running", NoJob.text, NoJob.matched)
  BY <1>6, UpdateTyped, JobFollows
<1> HIDE DEF k
<1>8. JobTyped(k)
  BY <1>1, <1>7 DEF JobTyped, JobIs, Whole
<1> QED BY <1>3, <1>8, PutTyped

\* What a running job has before it.
LEMMA RunningJob ==
  ASSUME JobsTyped, NEW w \in Workers, NEW step, JobAt(w, step)
  PROVE  /\ CommandRuns(w) /\ jobs[w] \in JobTypes /\ JobShape(jobs[w])
         /\ Plan(jobs[w].todo) /\ jobs[w].todo # <<>> /\ Head(jobs[w].todo) = step
         /\ step \in {"sdn", "sample"} => jobs[w].text # <<>>
<1>1. CommandRuns(w) /\ JobTyped(jobs[w]) /\ Head(jobs[w].todo) = step
  BY DEF JobAt, JobsTyped
<1>2. jobs[w].todo # <<>> /\ Plan(jobs[w].todo) /\ jobs[w] \in JobTypes
  BY <1>1 DEF CommandRuns, JobTyped
<1>3. Head(jobs[w].todo) = jobs[w].todo[1]
  BY <1>2, PlanTail
<1> QED BY <1>1, <1>2, <1>3, TypedShape DEF JobTyped, CommandRuns

LEMMA StartTyped ==
  ASSUME JobsTyped, FilesTyped, NEW w \in Workers,
         Fetch(w) \/ FetchFails(w) \/ ReadPrevious(w) \/ BuildJob(w)
  PROVE  JobsTyped'
<1> DEFINE j == jobs[w]
<1>1. CASE ThrowCommand(w)
  <2>1. CommandRuns(w)
    BY DEF Fetch, FetchFails, ReadPrevious, BuildJob, JobAt
  <2> QED BY <1>1, <2>1, HaltTyped
<1>2. ASSUME JobAt(w, "fetch"), treasury # <<>>, NextStep(w, [jobs[w] EXCEPT !.text = treasury])
      PROVE  JobsTyped'
  <2>1. /\ j \in JobTypes /\ JobShape(j) /\ Plan(j.todo) /\ j.todo # <<>>
        /\ treasury \in Seq(Names)
    BY <1>2, RunningJob, OpsAssumption DEF FilesTyped
  <2> DEFINE k == [j EXCEPT !.text = treasury]
  <2>2. NextStep(w, k)
    BY <1>2
  <2> HIDE DEF j
  <2>3. k \in JobTypes /\ JobIs(k, j.command, j.todo, j.state, treasury, j.matched)
    BY <2>1, UpdateTyped, JobUpdates
  <2> HIDE DEF k
  <2> QED BY <1>2, <2>1, <2>2, <2>3, NextTyped DEF JobIs
<1>3. ASSUME JobAt(w, "previous"), NEW y \in Nat, NEW z \in (SUBSET RosterUsers) \cup {Missing},
             NextStep(w, [jobs[w] EXCEPT !.start = y, !.previous = z])
      PROVE  JobsTyped'
  <2>1. /\ j \in JobTypes /\ JobShape(j) /\ Plan(j.todo) /\ j.todo # <<>>
        /\ Head(j.todo) = "previous"
    BY <1>3, RunningJob
  <2> DEFINE a == [j EXCEPT !.start = y]
             k == [a EXCEPT !.previous = z]
  <2>2. NextStep(w, k)
    BY <1>3
  <2> HIDE DEF j
  <2>3. a \in JobTypes /\ JobIs(a, j.command, j.todo, j.state, j.text, j.matched)
    BY <2>1, UpdateTyped, JobUpdates
  <2> HIDE DEF a
  <2>4. k \in JobTypes /\ JobIs(k, j.command, j.todo, j.state, j.text, j.matched)
    BY <2>3, UpdateTyped, JobFollows
  <2> HIDE DEF k
  <2>5. Head(k.todo) \notin {"fetch", "sdn"} /\ Plan(k.todo) /\ k.todo # <<>>
    BY <2>1, <2>4 DEF JobIs
  <2> QED BY <2>2, <2>4, <2>5, NextTyped
<1>4. ASSUME JobAt(w, "build"), NEW n \in {"none", "sdn", "sample"}, NEW r \in Seq(Names),
             NEW m \in SUBSET RosterUsers,
             NextStep(w, [jobs[w] EXCEPT !.source = n, !.rows = r, !.matched = m])
      PROVE  JobsTyped'
  <2>1. /\ j \in JobTypes /\ JobShape(j) /\ Plan(j.todo) /\ j.todo # <<>>
        /\ Head(j.todo) = "build"
    BY <1>4, RunningJob
  <2> DEFINE a == [j EXCEPT !.source = n]
             b == [a EXCEPT !.rows = r]
             k == [b EXCEPT !.matched = m]
  <2>2. NextStep(w, k)
    BY <1>4
  <2> HIDE DEF j
  <2>3. a \in JobTypes /\ JobIs(a, j.command, j.todo, j.state, j.text, j.matched)
    BY <2>1, UpdateTyped, JobUpdates
  <2> HIDE DEF a
  <2>4. b \in JobTypes /\ JobIs(b, j.command, j.todo, j.state, j.text, j.matched)
    BY <2>3, UpdateTyped, JobFollows
  <2> HIDE DEF b
  <2>5. k \in JobTypes /\ JobIs(k, j.command, j.todo, j.state, j.text, m)
    BY <2>4, UpdateTyped, JobFollows
  <2> HIDE DEF k
  <2>6. Head(k.todo) \notin {"fetch", "sdn"} /\ Plan(k.todo) /\ k.todo # <<>>
    BY <2>1, <2>5 DEF JobIs
  <2> QED BY <2>2, <2>5, <2>6, NextTyped
<1>5. CASE Fetch(w)
  BY <1>1, <1>2, <1>5 DEF Fetch
<1>6. CASE FetchFails(w)
  BY <1>1, <1>6 DEF FetchFails
<1>7. CASE ReadPrevious(w)
  <2> DEFINE z == IF issuance = Missing THEN Missing ELSE issuance.matched
  <2>1. issuance # Cut => z \in (SUBSET RosterUsers) \cup {Missing}
    BY DEF FilesTyped
  <2>2. opsNow \in Nat
    BY OpsAssumption DEF FilesTyped
  <2>3. JobAt(w, "previous")
    BY <1>7 DEF ReadPrevious
  <2>4. ThrowCommand(w) \/ (issuance # Cut /\ NextStep(w, [jobs[w] EXCEPT !.start = opsNow, !.previous = z]))
    BY <1>7 DEF ReadPrevious
  <2> HIDE DEF z
  <2> QED BY <1>1, <1>3, <2>1, <2>2, <2>3, <2>4
<1>8. CASE BuildJob(w)
  <2> DEFINE n == SourceFile.name
             r == SourceFile.content.rows
             m == ScreenRoster(RowsOf(r) \cup AltNames)
  <2>1. n \in {"none", "sdn", "sample"} /\ r \in Seq(Names)
    <3>1. CASE sdn # Missing
      BY <3>1 DEF FilesTyped, SourceFile, Contents
    <3>2. CASE sdn = Missing
      BY <3>2 DEF FilesTyped, SourceFile, Contents
    <3> QED BY <3>1, <3>2
  <2>2. m \in SUBSET RosterUsers
    BY DEF ScreenRoster
  <2>3. JobAt(w, "build")
    BY <1>8 DEF BuildJob
  <2>4. ThrowCommand(w) \/ NextStep(w, [jobs[w] EXCEPT !.source = n, !.rows = r, !.matched = m])
    BY <1>8 DEF BuildJob
  <2> HIDE DEF n, r, m
  <2> QED BY <1>1, <1>4, <2>1, <2>2, <2>3, <2>4
<1> QED BY <1>5, <1>6, <1>7, <1>8

\* A step that writes what the job has.
LEMMA WriteTyped ==
  ASSUME JobsTyped, NEW w \in Workers, NEW step, JobAt(w, step), step # "fetch", NextStep(w, jobs[w])
  PROVE  JobsTyped'
BY RunningJob, NextTyped

\* The first rows of a list, and what a file that is being written holds.
LEMMA PrefixTyped ==
  ASSUME NEW rows \in Seq(Names), NEW k \in 0..Len(rows)
  PROVE  SubSeq(rows, 1, k) \in Seq(Names)
<1>1. \A i \in 1..k : rows[i] \in Names
  OBVIOUS
<1>2. 1 \in Int /\ k \in Int
  OBVIOUS
<1> QED BY ONLY <1>1, <1>2, SubSeqProperties

LEMMA RowsTyped ==
  ASSUME NEW rows \in Seq(Names)
  PROVE  /\ First(rows) \in Seq(Names) /\ Partial(rows) \subseteq Contents
         /\ [rows |-> rows, cut |-> FALSE] \in Contents
<1>1. Len(rows) \in Nat /\ SampleSize \in Nat
  BY OpsAssumption
<1>2. First(rows) \in Seq(Names)
  <2> DEFINE k == IF Len(rows) < SampleSize THEN Len(rows) ELSE SampleSize
  <2>1. k \in 0..Len(rows)
    BY <1>1
  <2> HIDE DEF k
  <2>2. SubSeq(rows, 1, k) \in Seq(Names)
    BY <2>1, PrefixTyped
  <2> QED BY <2>2 DEF First, k
<1>3. ASSUME NEW k \in 0..Len(rows) - 1, NEW half \in BOOLEAN
      PROVE  [rows |-> SubSeq(rows, 1, k), cut |-> half] \in Contents
  <2>1. k \in 0..Len(rows)
    BY <1>1
  <2>2. SubSeq(rows, 1, k) \in Seq(Names)
    BY <2>1, PrefixTyped
  <2> QED BY <2>2 DEF Contents
<1> QED BY <1>2, <1>3 DEF Partial, Contents

LEMMA FilesStep ==
  ASSUME JobsTyped, FilesTyped, [OpsNext]_opsVars
  PROVE  FilesTyped'
<1> DEFINE Issuances(n) == [matched : SUBSET RosterUsers, mtime : 0..n, at : Nat \cup {Missing}]
<1>1. opsNow \in 0..MaxTime /\ faults \in 0..MaxFaults /\ MaxTime \in Nat /\ MaxFaults \in Nat /\ opsNow \in Nat
  BY OpsAssumption DEF FilesTyped
<1>2. ASSUME NEW w \in Workers, Fetch(w) \/ FetchFails(w) \/ ReadPrevious(w) \/ BuildJob(w)
                                 \/ \E command \in Commands : BeginCommand(w, command)
      PROVE  FilesTyped'
  <2>1. UNCHANGED <<opsNow, faults, treasury, sdn, sample, issuance, report, status>>
    BY <1>2 DEF Fetch, FetchFails, ReadPrevious, BuildJob, BeginCommand, files
  <2> QED BY <2>1 DEF FilesTyped
<1>3. ASSUME NEW w \in Workers, WriteList(w)
      PROVE  FilesTyped'
  <2> DEFINE text == jobs[w].text
  <2>1. text \in Seq(Names)
    BY TypedShape DEF JobsTyped
  <2> HIDE DEF text
  <2>2. First(text) \in Seq(Names)
    BY <2>1, RowsTyped
  <2>3. /\ Partial(text) \subseteq Contents /\ [rows |-> text, cut |-> FALSE] \in Contents
        /\ Partial(First(text)) \subseteq Contents /\ [rows |-> First(text), cut |-> FALSE] \in Contents
    BY <2>1, <2>2, RowsTyped
  <2>4. /\ sdn' \in Partial(text) \cup {[rows |-> text, cut |-> FALSE], sdn}
        /\ sample' \in Partial(First(text)) \cup {[rows |-> First(text), cut |-> FALSE], sample}
        /\ UNCHANGED <<opsNow, faults, treasury, issuance, report, status>>
    BY <1>3 DEF WriteList, text
  <2>5. sdn' \in Contents \cup {Missing} /\ sample' \in Contents
    BY <2>3, <2>4 DEF FilesTyped
  <2> QED BY <2>4, <2>5 DEF FilesTyped
<1>4. ASSUME NEW w \in Workers, WriteIssuance(w)
      PROVE  FilesTyped'
  <2>1. Issued(jobs[w]) \in Issuances(opsNow)
    <3>1. jobs[w].matched \subseteq RosterUsers /\ jobs[w].start \in Nat /\ opsNow \in 0..opsNow
      BY <1>1, TypedShape DEF JobsTyped
    <3> QED BY <3>1 DEF Issued
  <2>2. /\ issuance' = Cut \/ issuance' = Issued(jobs[w])
        /\ UNCHANGED <<opsNow, faults, treasury, sdn, sample, report, status>>
    BY <1>4 DEF WriteIssuance
  <2> QED BY <2>1, <2>2 DEF FilesTyped
<1>5. ASSUME NEW w \in Workers, WriteReport(w)
      PROVE  FilesTyped'
  <2>1. jobs[w].matched \subseteq RosterUsers /\ jobs[w].previous \in (SUBSET RosterUsers) \cup {Missing}
    BY TypedShape DEF JobsTyped
  <2>2. /\ report' = [previous |-> jobs[w].previous, current |-> jobs[w].matched]
        /\ UNCHANGED <<opsNow, faults, treasury, sdn, sample, issuance, status>>
    BY <1>5 DEF WriteReport
  <2>3. report' \in [previous : (SUBSET RosterUsers) \cup {Missing}, current : SUBSET RosterUsers]
    BY <2>1, <2>2
  <2> QED BY <2>2, <2>3 DEF FilesTyped
<1>6. ASSUME NEW w \in Workers, WriteStatus(w)
      PROVE  FilesTyped'
  <2>1. /\ status' = status \/ (issuance # Cut /\ status' = RootStaleness(issuance))
        /\ UNCHANGED <<opsNow, faults, treasury, sdn, sample, issuance, report>>
    BY <1>6 DEF WriteStatus
  <2>2. issuance # Cut => RootStaleness(issuance) \in BOOLEAN
    <3>1. CASE issuance = Missing
      BY <3>1 DEF RootStaleness
    <3>2. CASE issuance # Missing /\ issuance # Cut
      <4>1. issuance.at \in Nat \cup {Missing} /\ issuance.mtime \in Nat
        BY <1>1, <3>2 DEF FilesTyped
      <4> DEFINE x == IF issuance.at # Missing THEN issuance.at ELSE issuance.mtime
      <4>2. x \in Nat
        BY <4>1
      <4>3. RootStaleness(issuance) = (opsNow > MaxAge + x)
        BY <3>2 DEF RootStaleness
      <4> HIDE DEF x
      <4> QED BY <1>1, <4>2, <4>3, OpsAssumption
    <3> QED BY <3>1, <3>2
  <2> QED BY <2>1, <2>2 DEF FilesTyped
<1>7. ASSUME NEW w \in Workers, StopCommand(w)
      PROVE  FilesTyped'
  <2>1. /\ faults < MaxFaults /\ faults' = faults + 1
        /\ UNCHANGED <<opsNow, treasury, sdn, sample, issuance, report, status>>
    BY <1>7 DEF StopCommand, files
  <2>2. faults' \in 0..MaxFaults
    BY <1>1, <2>1
  <2> QED BY <2>1, <2>2 DEF FilesTyped
<1>8. ASSUME NEW list \in Lists, PublishList(list)
      PROVE  FilesTyped'
  BY <1>8 DEF FilesTyped, PublishList, files
<1>9. CASE OpsTick
  <2>1. /\ opsNow < MaxTime /\ opsNow' = opsNow + 1
        /\ UNCHANGED <<faults, treasury, sdn, sample, issuance, report, status>>
    BY <1>9 DEF OpsTick, files
  <2>2. opsNow' \in 0..MaxTime /\ 0..opsNow \subseteq 0..opsNow'
    BY <1>1, <2>1
  <2>3. issuance' \in {Missing, Cut} \/ issuance' \in Issuances(opsNow')
    BY <2>1, <2>2 DEF FilesTyped
  <2> QED BY <2>1, <2>2, <2>3 DEF FilesTyped
<1>10. CASE UNCHANGED opsVars
  BY <1>10 DEF FilesTyped, opsVars, files
<1> QED BY <1>2, <1>3, <1>4, <1>5, <1>6, <1>7, <1>8, <1>9, <1>10 DEF OpsNext, Work

LEMMA JobsStep ==
  ASSUME JobsTyped, FilesTyped, [OpsNext]_opsVars
  PROVE  JobsTyped'
<1>1. ASSUME NEW w \in Workers, Fetch(w) \/ FetchFails(w) \/ ReadPrevious(w) \/ BuildJob(w)
      PROVE  JobsTyped'
  BY <1>1, StartTyped
<1>2. ASSUME NEW w \in Workers, NEW step, Opening(w, step) \/ (Closing(w, step) /\ step # "fetch")
      PROVE  JobsTyped'
  BY <1>2, HaltTyped, WriteTyped DEF Opening, Closing, JobAt
<1>3. ASSUME NEW w \in Workers, WriteList(w) \/ WriteIssuance(w)
      PROVE  JobsTyped'
  BY <1>2, <1>3 DEF WriteList, WriteIssuance
<1>4. ASSUME NEW w \in Workers, WriteReport(w)
      PROVE  JobsTyped'
  BY <1>4, WriteTyped DEF WriteReport
<1>5. ASSUME NEW w \in Workers, WriteStatus(w) \/ StopCommand(w)
      PROVE  JobsTyped'
  BY <1>5, WriteTyped, HaltTyped DEF WriteStatus, StopCommand, JobAt
<1>6. ASSUME NEW w \in Workers, NEW command \in Commands, BeginCommand(w, command)
      PROVE  JobsTyped'
  BY <1>6, BeginTyped, OpsAssumption DEF FilesTyped
<1>7. CASE (\E list \in Lists : PublishList(list)) \/ OpsTick \/ UNCHANGED opsVars
  BY <1>7 DEF JobsTyped, PublishList, OpsTick, opsVars
<1> QED BY <1>1, <1>3, <1>4, <1>5, <1>6, <1>7 DEF OpsNext, Work

LEMMA CommandsTyped == JobsTyped /\ FilesTyped => OpsTypeOK
<1> SUFFICES ASSUME JobsTyped, FilesTyped  PROVE OpsTypeOK
  OBVIOUS
<1>1. ASSUME NEW w \in Workers
      PROVE  /\ jobs[w].command \in Commands \cup {<<>>}
             /\ jobs[w].state \in {"idle", "running", "done", "threw"}
             /\ JobAt(w, "sdn") \/ JobAt(w, "sample") => jobs[w].text # <<>>
             /\ CommandRuns(w) <=> jobs[w].todo # <<>> /\ jobs[w].state # "threw"
  <2>1. JobTyped(jobs[w]) /\ jobs[w] \in JobTypes
    BY DEF JobsTyped
  <2> QED BY <2>1, RunningJob, TypedShape DEF JobTyped, CommandRuns
<1>2. \/ issuance \in {Missing, Cut}
      \/ issuance.matched \subseteq RosterUsers /\ issuance.mtime \in 0..opsNow
  BY DEF FilesTyped
<1> QED BY <1>1, <1>2 DEF OpsTypeOK, FilesTyped

LEMMA CommandsInit == OpsInit => JobsTyped /\ FilesTyped
<1> SUFFICES ASSUME OpsInit  PROVE JobsTyped /\ FilesTyped
  OBVIOUS
<1>1. NoJob \in JobTypes /\ JobTyped(NoJob)
  <2>1. <<>> \in Seq(SyncedWords) /\ <<>> \in Seq(Names)
    OBVIOUS
  <2>2. NoJob \in JobTypes
    BY <2>1 DEF NoJob, JobTypes
  <2>3. NoJob.todo = <<>> /\ NoJob.state = "idle"
    BY DEF NoJob
  <2> QED BY <2>2, <2>3, PartsAreWhole DEF JobTyped, Whole
<1>2. JobsTyped
  BY <1>1 DEF OpsInit, JobsTyped
<1>3. sample \in Contents
  <2>1. PICK list \in Lists : sample = [rows |-> First(list), cut |-> FALSE]
    BY DEF OpsInit
  <2>2. First(list) \in Seq(Names)
    BY OpsAssumption, RowsTyped
  <2> QED BY <2>1, <2>2 DEF Contents
<1>4. FilesTyped
  BY <1>3, OpsAssumption DEF OpsInit, FilesTyped
<1> QED BY <1>2, <1>4

-----------------------------------------------------------------------------
(* The types of the clients of an anchor.                                  *)

\* Of what a client has, which FlowTypes does not say.
ClientTyped(s, n, made) ==
  /\ s.tries \in 0..Tries - 1 /\ s.quote \in made \cup {NoAnswer}
  /\ s.state = "running" => s.run \in 1..n

ClientsTyped ==
  /\ config \in Configs /\ clean \in BOOLEAN /\ runs \in 0..MaxRuns /\ quotes \subseteq 1..runs
  /\ \A c \in Clients : ClientTyped(client[c], runs, quotes)

\* A step of one client.
LEMMA ClientPut ==
  ASSUME FlowTypes, ClientsTyped, NEW c \in Clients, NEW t, client' = [client EXCEPT ![c] = t],
         UNCHANGED <<config, clean>>, runs <= runs', runs' \in 0..MaxRuns,
         quotes \subseteq quotes', quotes' \subseteq 1..runs', ClientTyped(t, runs', quotes')
  PROVE  ClientsTyped'
<1>1. \A d \in Clients : client'[d] = IF d = c THEN t ELSE client[d]
  BY DEF FlowTypes
<1>2. runs \in Nat /\ 1..runs \subseteq 1..runs'
  BY DEF ClientsTyped
<1>3. ASSUME NEW d \in Clients
      PROVE  ClientTyped(client'[d], runs', quotes')
  <2>1. CASE d = c
    BY <1>1, <2>1
  <2>2. CASE d # c
    BY <1>1, <1>2, <2>2 DEF ClientsTyped, ClientTyped
  <2> QED BY <2>1, <2>2
<1> QED BY <1>3 DEF ClientsTyped

LEMMA GoOnTyped ==
  ASSUME FlowTypes, ClientsTyped, NEW c \in Clients, NEW s \in ClientStates, GoOn(c, s),
         UNCHANGED <<config, clean, runs>>, quotes \subseteq quotes', quotes' \subseteq 1..runs,
         s.run \in 1..runs, s.quote \in quotes' \cup {NoAnswer}
  PROVE  ClientsTyped'
<1> DEFINE rest == Tail(s.todo)
           st == IF Len(s.todo) = 1 THEN "done" ELSE "running"
           a == [s EXCEPT !.todo = rest]
           b == [a EXCEPT !.tries = 0]
           t == [b EXCEPT !.state = st]
<1>1. client' = [client EXCEPT ![c] = t]
  BY DEF GoOn, PutClient
<1> HIDE DEF rest, st
<1>2. a.run = s.run /\ a.quote = s.quote /\ DOMAIN a = DOMAIN s
  BY DEF ClientStates
<1> HIDE DEF a
<1>3. b.run = s.run /\ b.quote = s.quote /\ b.tries = 0 /\ DOMAIN b = DOMAIN s
  BY <1>2 DEF ClientStates
<1> HIDE DEF b
<1>4. t.run = s.run /\ t.quote = s.quote /\ t.tries = 0
  BY <1>3 DEF ClientStates
<1> HIDE DEF t
<1>5. ClientTyped(t, runs, quotes')
  BY <1>4 DEF ClientTyped, Tries
<1>6. runs <= runs /\ runs \in 0..MaxRuns
  BY AnchorAssumption DEF ClientsTyped
<1> QED BY <1>1, <1>5, <1>6, ClientPut

LEMMA ThrowTyped ==
  ASSUME FlowTypes, ClientsTyped, NEW c \in Clients, ThrowClient(c),
         UNCHANGED <<config, clean, runs>>, quotes \subseteq quotes', quotes' \subseteq 1..runs
  PROVE  ClientsTyped'
<1> DEFINE s == client[c]
           t == [s EXCEPT !.state = "threw"]
<1>1. client' = [client EXCEPT ![c] = t]
  BY DEF ThrowClient, PutClient
<1>2. s \in ClientStates /\ ClientTyped(s, runs, quotes)
  BY DEF FlowTypes, ClientsTyped
<1> HIDE DEF s
<1>3. t.tries = s.tries /\ t.quote = s.quote /\ t.state = "threw"
  BY <1>2 DEF ClientStates
<1> HIDE DEF t
<1>4. ClientTyped(t, runs, quotes')
  BY <1>2, <1>3 DEF ClientTyped
<1>5. runs <= runs /\ runs \in 0..MaxRuns
  BY AnchorAssumption DEF ClientsTyped
<1> QED BY <1>1, <1>4, <1>5, ClientPut

\* A request that failed, or is made again.
LEMMA RetriesTyped ==
  ASSUME FlowTypes, ClientsTyped, NEW c \in Clients, ClientRuns(c), Retries(c) \/ Fails(c),
         UNCHANGED <<config, clean, runs>>, quotes \subseteq quotes', quotes' \subseteq 1..runs
  PROVE  ClientsTyped'
<1> DEFINE s == client[c]
<1>1. s \in ClientStates /\ ClientTyped(s, runs, quotes) /\ s.state = "running"
  BY DEF FlowTypes, ClientsTyped, ClientRuns
<1>2. ASSUME GoOn(c, s)
      PROVE  ClientsTyped'
  <2>1. s.run \in 1..runs /\ s.quote \in quotes' \cup {NoAnswer}
    BY <1>1 DEF ClientTyped
  <2> HIDE DEF s
  <2> QED BY <1>1, <1>2, <2>1, GoOnTyped
<1>3. CASE Fails(c)
  BY <1>2, <1>3, ThrowTyped DEF Fails
<1>4. ASSUME client[c].tries + 1 < Tries, PutClient(c, [client[c] EXCEPT !.tries = @ + 1])
      PROVE  ClientsTyped'
  <2> DEFINE t == [s EXCEPT !.tries = s.tries + 1]
  <2>1. client' = [client EXCEPT ![c] = t] /\ s.tries + 1 < Tries
    BY <1>4 DEF PutClient
  <2> HIDE DEF s
  <2>2. t.tries = s.tries + 1 /\ t.quote = s.quote /\ t.run = s.run
    BY <1>1 DEF ClientStates
  <2> HIDE DEF t
  <2>3. t.tries \in 0..Tries - 1
    BY <1>1, <2>1, <2>2 DEF ClientTyped, Tries
  <2>4. ClientTyped(t, runs, quotes')
    BY <1>1, <2>2, <2>3 DEF ClientTyped
  <2>5. runs <= runs /\ runs \in 0..MaxRuns
    BY AnchorAssumption DEF ClientsTyped
  <2> QED BY <2>1, <2>4, <2>5, ClientPut
<1> QED BY <1>3, <1>4 DEF Retries

LEMMA ArrivesTyped ==
  ASSUME FlowTypes, ClientsTyped, NEW c \in Clients, AnswerArrives(c)
  PROVE  ClientsTyped'
<1> DEFINE j == client[c]
           token == j.token \/ NextRequest(c) = "token"
           quote == IF NextRequest(c) = "quote" THEN j.run ELSE j.quote
           created == IF NextRequest(c) = "create" THEN Len(transactions) + 1 ELSE j.created
           a == [j EXCEPT !.token = token]
           b == [a EXCEPT !.quote = quote]
           s == [b EXCEPT !.created = created]
<1>1. /\ AnchorServes(c) /\ GoOn(c, s) /\ UNCHANGED <<config, clean, runs, evidence>>
      /\ j \in ClientStates /\ ClientTyped(j, runs, quotes) /\ j.state = "running"
  BY DEF AnswerArrives, AtRequest, ClientRuns, FlowTypes, ClientsTyped
<1>2. j.run \in 1..runs /\ quotes \subseteq 1..runs
  BY <1>1 DEF ClientTyped, ClientsTyped
<1>3. quotes' = (IF NextRequest(c) = "quote" THEN quotes \cup {j.run} ELSE quotes)
  BY <1>1 DEF AnchorServes
<1>4. quotes \subseteq quotes' /\ quotes' \subseteq 1..runs /\ quote \in quotes' \cup {NoAnswer}
  BY <1>1, <1>2, <1>3 DEF ClientTyped
<1>5. token \in BOOLEAN /\ quote \in Maybe(Nat) /\ created \in Maybe(Nat)
  BY <1>1, <1>2 DEF FlowTypes, ClientStates, Maybe
<1> HIDE DEF token, quote, created, j
<1>6. a \in ClientStates /\ a.run = j.run
  BY <1>1, <1>5 DEF ClientStates
<1> HIDE DEF a
<1>7. b \in ClientStates /\ b.run = j.run /\ b.quote = quote
  BY <1>5, <1>6 DEF ClientStates
<1> HIDE DEF b
<1>8. s \in ClientStates /\ s.run = j.run /\ s.quote = quote
  BY <1>5, <1>7 DEF ClientStates
<1> HIDE DEF s
<1> QED BY <1>1, <1>2, <1>4, <1>8, GoOnTyped

LEMMA BeginClientTyped ==
  ASSUME FlowTypes, ClientsTyped, NEW c \in Clients, BeginClient(c)
  PROVE  ClientsTyped'
<1> DEFINE begun == IF Begins(c) THEN "running" ELSE "threw"
           u == [IdleClient EXCEPT !.state = begun]
           v == [u EXCEPT !.todo = Requests[c]]
           t == [v EXCEPT !.run = runs + 1]
<1>1. /\ runs < MaxRuns /\ runs' = runs + 1 /\ client' = [client EXCEPT ![c] = t]
      /\ UNCHANGED <<config, clean, quotes, transactions, evidence>>
  BY DEF BeginClient, PutClient
<1>2. t.tries = 0 /\ t.quote = NoAnswer /\ t.run = runs + 1
  BY DEF IdleClient
<1> HIDE DEF t
<1>3. runs \in 0..MaxRuns /\ MaxRuns \in Nat /\ quotes \subseteq 1..runs
  BY AnchorAssumption DEF ClientsTyped
<1>4. runs <= runs' /\ runs' \in 0..MaxRuns /\ 1..runs \subseteq 1..runs' /\ runs + 1 \in 1..runs'
  BY <1>1, <1>3
<1>5. ClientTyped(t, runs', quotes')
  BY <1>2, <1>4 DEF ClientTyped, Tries
<1> QED BY <1>1, <1>3, <1>4, <1>5, ClientPut

LEMMA ClientsInit == AnchorInit => ClientsTyped
<1> SUFFICES ASSUME AnchorInit  PROVE ClientsTyped
  OBVIOUS
<1>1. \A c \in Clients : client[c] = IdleClient
  BY DEF AnchorInit
<1>2. ClientTyped(IdleClient, 0, {})
  BY DEF ClientTyped, IdleClient, Tries
<1> QED BY <1>1, <1>2, AnchorAssumption DEF AnchorInit, ClientsTyped

LEMMA ClientsStep ==
  ASSUME FlowTypes, ClientsTyped, [AnchorNext]_anchorVars
  PROVE  ClientsTyped'
<1>1. ASSUME NEW c \in Clients, ClientStep(c)
      PROVE  ClientsTyped'
  <2>1. quotes \subseteq 1..runs
    BY DEF ClientsTyped
  <2>2. CASE AnswerArrives(c)
    BY <2>2, ArrivesTyped
  <2>3. CASE RequestLost(c) \/ AnswerRefuses(c)
    BY <2>1, <2>3, RetriesTyped DEF RequestLost, AnswerRefuses, AtRequest
  <2>4. CASE AnswerLost(c)
    <3>1. ClientRuns(c) /\ Retries(c) /\ UNCHANGED <<config, clean, runs>> /\ AnchorServes(c)
      BY <2>4 DEF AnswerLost, AtRequest
    <3>2. client[c].run \in 1..runs
      BY <3>1 DEF ClientsTyped, ClientTyped, ClientRuns
    <3>3. quotes \subseteq quotes' /\ quotes' \subseteq 1..runs
      BY <2>1, <3>1, <3>2 DEF AnchorServes
    <3> QED BY <3>1, <3>3, RetriesTyped
  <2>5. CASE WriteEvidence(c)
    <3> DEFINE s == client[c]
    <3>1. ClientRuns(c) /\ GoOn(c, s) /\ UNCHANGED <<config, clean, runs, quotes>>
      BY <2>5 DEF WriteEvidence
    <3>2. s \in ClientStates /\ s.run \in 1..runs /\ s.quote \in quotes' \cup {NoAnswer}
      BY <3>1 DEF FlowTypes, ClientsTyped, ClientTyped, ClientRuns
    <3> HIDE DEF s
    <3> QED BY <2>1, <3>1, <3>2, GoOnTyped
  <2> QED BY <1>1, <2>2, <2>3, <2>4, <2>5 DEF ClientStep
<1>2. ASSUME NEW c \in Clients, StopClient(c)
      PROVE  ClientsTyped'
  BY <1>2, ThrowTyped DEF StopClient, ClientsTyped
<1>3. ASSUME NEW kind \in Configs, NEW users \in BOOLEAN, Configure(kind, users)
      PROVE  ClientsTyped'
  BY <1>3 DEF Configure, ClientsTyped
<1>4. CASE UNCHANGED anchorVars
  BY <1>4 DEF anchorVars, ClientsTyped
<1> QED BY <1>1, <1>2, <1>3, <1>4, BeginClientTyped DEF AnchorNext

LEMMA FlowTyped == AInv /\ ClientsTyped => AnchorTypeOK
<1> SUFFICES ASSUME AInv, ClientsTyped  PROVE AnchorTypeOK
  OBVIOUS
<1>1. \A c \in Clients : client[c].state \in {"idle", "running", "threw", "done"}
  BY DEF AInv, FlowTypes, ClientStates
<1> QED BY <1>1 DEF AInv, RunsAreOwn, ClientsTyped, ClientTyped, AnchorTypeOK

(* Whatever is stopped, failed, lost or left cut, and with any number of   *)
(* workers: a command writes only a list that it has fetched and that is   *)
(* not empty, an issuance that is whole blocks users of the roster, and a  *)
(* client's quote is one that the anchor made.                             *)
THEOREM OperatorsStayTyped == OpsSpec /\ AnchorSpec => []OperatorTypeOK
<1>1. JobsTyped /\ FilesTyped /\ [OpsNext]_opsVars => (JobsTyped /\ FilesTyped)'
  BY JobsStep, FilesStep
<1>2. AInv /\ ClientsTyped /\ [AnchorNext]_anchorVars => (AInv /\ ClientsTyped)'
  BY AStep, ClientsStep DEF AInv
<1>3. JobsTyped /\ FilesTyped /\ AInv /\ ClientsTyped => OperatorTypeOK
  BY CommandsTyped, FlowTyped DEF OperatorTypeOK
<1> QED BY <1>1, <1>2, <1>3, CommandsInit, AInit, ClientsInit, PTL DEF OpsSpec, AnchorSpec

-----------------------------------------------------------------------------
(* Whom an issuance blocks, for any number of workers.                     *)

\* Names that a list of the Treasury has, and users that it blocks.
Listed(names) == \E list \in Lists : names \subseteq RowsOf(list)

OnlyListed(users) ==
  \A u \in users : \E list \in Lists : u \in ListedUsers(RowsOf(list) \cup AltNames)

JobListed(j) == Listed(RowsOf(j.text)) /\ OnlyListed(j.matched)

ListsInv ==
  /\ sdn # Missing => Listed(RowsOf(sdn.rows))
  /\ Listed(RowsOf(sample.rows))
  /\ \A w \in Workers : JobListed(jobs[w])
  /\ issuance \notin {Missing, Cut} => OnlyListed(issuance.matched)

LEMMA SomeListed ==
  ASSUME NEW list \in Lists
  PROVE  Listed(RowsOf(list)) /\ Listed(RowsOf(<<>>)) /\ OnlyListed({})
<1>1. Listed(RowsOf(list))
  BY DEF Listed
<1>2. RowsOf(<<>>) = {}
  BY DEF RowsOf
<1>3. Listed(RowsOf(<<>>))
  BY <1>2 DEF Listed
<1> QED BY <1>1, <1>3 DEF OnlyListed

\* A part of a list has none but its names.
LEMMA PartListed ==
  ASSUME NEW rows \in Seq(Names), Listed(RowsOf(rows)), NEW k \in 0..Len(rows)
  PROVE  Listed(RowsOf(SubSeq(rows, 1, k)))
<1> DEFINE part == SubSeq(rows, 1, k)
<1>1. Len(rows) \in Nat /\ \A i \in 1..k : i \in 1..Len(rows) /\ rows[i] \in Names
  OBVIOUS
<1>2. 1 \in Int /\ k \in Int /\ \A i \in 1..k : rows[i] \in Names
  BY <1>1
<1>3. /\ part \in Seq(Names) /\ Len(part) = IF 1 <= k THEN k - 1 + 1 ELSE 0
      /\ \A i \in 1..(k - 1 + 1) : part[i] = rows[1 + i - 1]
  BY ONLY <1>2, SubSeqProperties
<1> HIDE DEF part
<1>4. Len(part) = k /\ \A i \in 1..k : part[i] = rows[i]
  <2>1. k - 1 + 1 = k /\ \A i \in 1..k : 1 + i - 1 = i
    OBVIOUS
  <2>2. 1 <= k \/ k = 0
    OBVIOUS
  <2> QED BY <1>3, <2>1, <2>2
<1>5. DOMAIN part = 1..k /\ DOMAIN rows = 1..Len(rows)
  BY <1>3, <1>4
<1>6. RowsOf(part) \subseteq RowsOf(rows)
  BY <1>1, <1>4, <1>5 DEF RowsOf
<1>7. Listed(RowsOf(part))
  BY <1>6 DEF Listed
<1> QED BY <1>7 DEF part

LEMMA FileListed ==
  ASSUME NEW rows \in Seq(Names), Listed(RowsOf(rows))
  PROVE  /\ Listed(RowsOf(First(rows)))
         /\ \A file \in Partial(rows) : Listed(RowsOf(file.rows))
<1>1. Len(rows) \in Nat /\ SampleSize \in Nat
  BY OpsAssumption
<1>2. Listed(RowsOf(First(rows)))
  <2> DEFINE k == IF Len(rows) < SampleSize THEN Len(rows) ELSE SampleSize
  <2>1. k \in 0..Len(rows)
    BY <1>1
  <2> HIDE DEF k
  <2>2. Listed(RowsOf(SubSeq(rows, 1, k)))
    BY <2>1, PartListed
  <2> QED BY <2>2 DEF First, k
<1>3. ASSUME NEW file \in Partial(rows)
      PROVE  Listed(RowsOf(file.rows))
  <2>1. PICK k \in 0..Len(rows) - 1, half \in BOOLEAN : file = [rows |-> SubSeq(rows, 1, k), cut |-> half]
    BY DEF Partial
  <2>2. k \in 0..Len(rows)
    BY <1>1
  <2>3. Listed(RowsOf(SubSeq(rows, 1, k)))
    BY <2>2, PartListed
  <2> QED BY <2>1, <2>3
<1> QED BY <1>2, <1>3

\* Who is screened against some names of a list is on that list.
LEMMA ScreenedListed ==
  ASSUME NEW names, Listed(names)
  PROVE  OnlyListed(ScreenRoster(names \cup AltNames))
<1>1. PICK list \in Lists : names \subseteq RowsOf(list)
  BY DEF Listed
<1>2. ListedUsers(names \cup AltNames) \subseteq ListedUsers(RowsOf(list) \cup AltNames)
  BY <1>1 DEF ListedUsers
<1>3. ScreenRoster(names \cup AltNames) = ListedUsers(names \cup AltNames)
  BY ScreensListed
<1> QED BY <1>2, <1>3 DEF OnlyListed

\* A step of one worker, by what it makes of the job.
LEMMA JobPut ==
  ASSUME JobsTyped, ListsInv, NEW w \in Workers, NEW k, JobListed(k), jobs' = [jobs EXCEPT ![w] = k]
  PROVE  \A x \in Workers : JobListed(jobs'[x])
<1>1. \A x \in Workers : jobs'[x] = IF x = w THEN k ELSE jobs[x]
  BY DEF JobsTyped
<1> QED BY <1>1 DEF ListsInv

LEMMA NextListed ==
  ASSUME JobsTyped, ListsInv, NEW w \in Workers, NEW j, JobShape(j), JobListed(j), NextStep(w, j)
  PROVE  \A x \in Workers : JobListed(jobs'[x])
<1> DEFINE st == IF Len(j.todo) = 1 THEN "done" ELSE "running"
           rest == Tail(j.todo)
           a == [j EXCEPT !.todo = rest]
           b == [a EXCEPT !.writing = FALSE]
           k == [b EXCEPT !.state = st]
<1>1. jobs' = [jobs EXCEPT ![w] = k]
  BY DEF NextStep
<1>2. JobIs(a, j.command, rest, j.state, j.text, j.matched)
  <2> HIDE DEF rest
  <2> QED BY JobUpdates
<1> HIDE DEF st, rest, a
<1>3. JobIs(b, j.command, rest, j.state, j.text, j.matched)
  BY <1>2, JobFollows
<1> HIDE DEF b
<1>4. JobIs(k, j.command, rest, st, j.text, j.matched)
  BY <1>3, JobFollows
<1> HIDE DEF k
<1>5. JobListed(k)
  BY <1>4 DEF JobIs, JobListed
<1> QED BY <1>1, <1>5, JobPut

LEMMA HaltListed ==
  ASSUME JobsTyped, ListsInv, NEW w \in Workers,
         ThrowCommand(w) \/ jobs' = [jobs EXCEPT ![w].writing = TRUE]
  PROVE  \A x \in Workers : JobListed(jobs'[x])
<1> DEFINE j == jobs[w]
           k == [j EXCEPT !.state = "threw"]
           l == [j EXCEPT !.writing = TRUE]
<1>1. JobShape(j) /\ JobListed(j)
  BY TypedShape DEF JobsTyped, ListsInv
<1>2. jobs' = [jobs EXCEPT ![w] = k] \/ jobs' = [jobs EXCEPT ![w] = l]
  BY DEF ThrowCommand
<1> HIDE DEF j
<1>3. k.text = j.text /\ k.matched = j.matched /\ l.text = j.text /\ l.matched = j.matched
  BY <1>1, JobUpdates DEF JobIs
<1> HIDE DEF k, l
<1>4. JobListed(k) /\ JobListed(l)
  BY <1>1, <1>3 DEF JobListed
<1> QED BY <1>2, <1>4, JobPut

LEMMA ReadingListed ==
  ASSUME JobsTyped, FilesTyped, ListsInv, NEW w \in Workers,
         Fetch(w) \/ FetchFails(w) \/ ReadPrevious(w) \/ BuildJob(w)
  PROVE  \A x \in Workers : JobListed(jobs'[x])
<1> DEFINE j == jobs[w]
<1>1. JobShape(j) /\ JobListed(j)
  BY TypedShape DEF JobsTyped, ListsInv
<1>2. CASE ThrowCommand(w)
  BY <1>2, HaltListed
<1>3. ASSUME NextStep(w, [jobs[w] EXCEPT !.text = treasury])
      PROVE  \A x \in Workers : JobListed(jobs'[x])
  <2> DEFINE k == [j EXCEPT !.text = treasury]
  <2>1. NextStep(w, k)
    BY <1>3
  <2> HIDE DEF j
  <2>2. JobIs(k, j.command, j.todo, j.state, treasury, j.matched)
    BY <1>1, JobUpdates
  <2> HIDE DEF k
  <2>3. JobListed(k)
    BY <1>1, <2>2, SomeListed DEF JobIs, JobListed, FilesTyped
  <2> QED BY <2>1, <2>2, <2>3, NextListed DEF JobIs
<1>4. ASSUME NEW y, NEW z, NextStep(w, [jobs[w] EXCEPT !.start = y, !.previous = z])
      PROVE  \A x \in Workers : JobListed(jobs'[x])
  <2> DEFINE a == [j EXCEPT !.start = y]
             k == [a EXCEPT !.previous = z]
  <2>1. NextStep(w, k)
    BY <1>4
  <2> HIDE DEF j
  <2>2. JobIs(a, j.command, j.todo, j.state, j.text, j.matched)
    BY <1>1, JobUpdates
  <2> HIDE DEF a
  <2>3. JobIs(k, j.command, j.todo, j.state, j.text, j.matched)
    BY <2>2, JobFollows
  <2> HIDE DEF k
  <2>4. JobListed(k)
    BY <1>1, <2>3 DEF JobIs, JobListed
  <2> QED BY <2>1, <2>3, <2>4, NextListed DEF JobIs
<1>5. ASSUME NEW n, NEW r, NEW m, OnlyListed(m),
             NextStep(w, [jobs[w] EXCEPT !.source = n, !.rows = r, !.matched = m])
      PROVE  \A x \in Workers : JobListed(jobs'[x])
  <2> DEFINE a == [j EXCEPT !.source = n]
             b == [a EXCEPT !.rows = r]
             k == [b EXCEPT !.matched = m]
  <2>1. NextStep(w, k)
    BY <1>5
  <2> HIDE DEF j
  <2>2. JobIs(a, j.command, j.todo, j.state, j.text, j.matched)
    BY <1>1, JobUpdates
  <2> HIDE DEF a
  <2>3. JobIs(b, j.command, j.todo, j.state, j.text, j.matched)
    BY <2>2, JobFollows
  <2> HIDE DEF b
  <2>4. JobIs(k, j.command, j.todo, j.state, j.text, m)
    BY <2>3, JobFollows
  <2> HIDE DEF k
  <2>5. JobListed(k)
    BY <1>1, <1>5, <2>4 DEF JobIs, JobListed
  <2> QED BY <2>1, <2>4, <2>5, NextListed DEF JobIs
<1>6. CASE Fetch(w) \/ FetchFails(w) \/ ReadPrevious(w)
  BY <1>2, <1>3, <1>4, <1>6 DEF Fetch, FetchFails, ReadPrevious
<1>7. CASE BuildJob(w)
  <2> DEFINE n == SourceFile.name
             r == SourceFile.content.rows
             m == ScreenRoster(RowsOf(r) \cup AltNames)
  <2>1. Listed(RowsOf(r))
    BY DEF ListsInv, SourceFile
  <2>2. ThrowCommand(w) \/ NextStep(w, [jobs[w] EXCEPT !.source = n, !.rows = r, !.matched = m])
    BY <1>7 DEF BuildJob
  <2> HIDE DEF n, r
  <2>3. OnlyListed(m)
    BY <2>1, ScreenedListed
  <2> HIDE DEF m
  <2> QED BY <1>2, <1>5, <2>2, <2>3
<1> QED BY <1>6, <1>7

LEMMA BeginListed ==
  ASSUME JobsTyped, FilesTyped, ListsInv, NEW w \in Workers, NEW command, BeginCommand(w, command)
  PROVE  \A x \in Workers : JobListed(jobs'[x])
<1> DEFINE k == [NoJob EXCEPT !.command = command, !.todo = command, !.state = "running", !.start = opsNow]
<1>1. jobs' = [jobs EXCEPT ![w] = k]
  BY DEF BeginCommand
<1>2. k.text = <<>> /\ k.matched = {}
  BY DEF NoJob
<1> HIDE DEF k
<1>3. JobListed(k)
  BY <1>2, SomeListed DEF JobListed, FilesTyped
<1> QED BY <1>1, <1>3, JobPut

LEMMA ListsStep ==
  ASSUME JobsTyped, FilesTyped, ListsInv, [OpsNext]_opsVars
  PROVE  ListsInv'
<1>1. ASSUME NEW w \in Workers, Fetch(w) \/ FetchFails(w) \/ ReadPrevious(w) \/ BuildJob(w)
      PROVE  ListsInv'
  <2>1. UNCHANGED <<sdn, sample, issuance>>
    BY <1>1 DEF Fetch, FetchFails, ReadPrevious, BuildJob, files
  <2> QED BY <1>1, <2>1, ReadingListed DEF ListsInv
<1>2. ASSUME NEW w \in Workers, NEW command, BeginCommand(w, command)
      PROVE  ListsInv'
  <2>1. UNCHANGED <<sdn, sample, issuance>>
    BY <1>2 DEF BeginCommand, files
  <2> QED BY <1>2, <2>1, BeginListed DEF ListsInv
<1>3. ASSUME NEW w \in Workers, NEW step, Opening(w, step) \/ Closing(w, step)
      PROVE  \A x \in Workers : JobListed(jobs'[x])
  <2>1. JobShape(jobs[w]) /\ JobListed(jobs[w])
    BY TypedShape DEF JobsTyped, ListsInv
  <2> QED BY <1>3, <2>1, HaltListed, NextListed DEF Opening, Closing
<1>4. ASSUME NEW w \in Workers, WriteList(w)
      PROVE  ListsInv'
  <2> DEFINE text == jobs[w].text
  <2>1. text \in Seq(Names) /\ Listed(RowsOf(text))
    BY TypedShape DEF JobsTyped, ListsInv, JobListed
  <2>2. /\ sdn' \in Partial(text) \cup {[rows |-> text, cut |-> FALSE], sdn}
        /\ sample' \in Partial(First(text)) \cup {[rows |-> First(text), cut |-> FALSE], sample}
        /\ issuance' = issuance
    BY <1>4 DEF WriteList
  <2>3. \A x \in Workers : JobListed(jobs'[x])
    BY <1>3, <1>4 DEF WriteList
  <2> HIDE DEF text
  <2>4. /\ First(text) \in Seq(Names) /\ Listed(RowsOf(First(text)))
        /\ \A file \in Partial(text) : Listed(RowsOf(file.rows))
    BY <2>1, RowsTyped, FileListed
  <2>5. \A file \in Partial(First(text)) : Listed(RowsOf(file.rows))
    BY <2>4, FileListed
  <2>6. sdn' # Missing => Listed(RowsOf(sdn'.rows))
    BY <2>1, <2>2, <2>4 DEF ListsInv
  <2>7. Listed(RowsOf(sample'.rows))
    BY <2>2, <2>4, <2>5 DEF ListsInv
  <2> QED BY <2>2, <2>3, <2>6, <2>7 DEF ListsInv
<1>5. ASSUME NEW w \in Workers, WriteIssuance(w)
      PROVE  ListsInv'
  <2>1. issuance' = Cut \/ issuance'.matched = jobs[w].matched
    BY <1>5 DEF WriteIssuance, Issued
  <2>2. UNCHANGED <<sdn, sample>> /\ \A x \in Workers : JobListed(jobs'[x])
    BY <1>3, <1>5 DEF WriteIssuance
  <2>3. OnlyListed(jobs[w].matched)
    BY DEF ListsInv, JobListed
  <2> QED BY <2>1, <2>2, <2>3 DEF ListsInv
<1>6. ASSUME NEW w \in Workers, WriteReport(w) \/ WriteStatus(w) \/ StopCommand(w)
      PROVE  ListsInv'
  <2>1. UNCHANGED <<sdn, sample, issuance>> /\ (ThrowCommand(w) \/ NextStep(w, jobs[w]))
    BY <1>6 DEF WriteReport, WriteStatus, StopCommand, files
  <2>2. JobShape(jobs[w]) /\ JobListed(jobs[w])
    BY TypedShape DEF JobsTyped, ListsInv
  <2>3. \A x \in Workers : JobListed(jobs'[x])
    BY <2>1, <2>2, HaltListed, NextListed
  <2> QED BY <2>1, <2>3 DEF ListsInv
<1>7. CASE (\E list \in Lists : PublishList(list)) \/ OpsTick \/ UNCHANGED opsVars
  BY <1>7 DEF ListsInv, PublishList, OpsTick, opsVars, files
<1> QED BY <1>1, <1>2, <1>4, <1>5, <1>6, <1>7 DEF OpsNext, Work

(* services/issuer/ops.js and issue.js write their files in place and      *)
(* nothing keeps two commands apart.  Even so, with any number of workers, *)
(* an issuance blocks only users who are on a list of the Treasury: half a *)
(* list or an older one blocks too few, and never anybody else.            *)
THEOREM OnlyListedAreBlocked == OpsSpec => []BlocksOnlyListed
<1>1. OpsInit => JobsTyped /\ FilesTyped /\ ListsInv
  <2> SUFFICES ASSUME OpsInit  PROVE ListsInv
    BY CommandsInit
  <2>1. PICK list \in Lists : sample = [rows |-> First(list), cut |-> FALSE]
    BY DEF OpsInit
  <2>2. Listed(RowsOf(sample.rows)) /\ JobListed(NoJob)
    <3>1. list \in Seq(Names) /\ Listed(RowsOf(list))
      BY SomeListed, OpsAssumption
    <3>2. Listed(RowsOf(First(list)))
      BY <3>1, FileListed
    <3> QED BY <2>1, <3>2, SomeListed DEF JobListed, NoJob
  <2> QED BY <2>2 DEF OpsInit, ListsInv
<1>2. JobsTyped /\ FilesTyped /\ ListsInv /\ [OpsNext]_opsVars => (JobsTyped /\ FilesTyped /\ ListsInv)'
  BY JobsStep, FilesStep, ListsStep
<1>3. ListsInv => BlocksOnlyListed
  BY DEF ListsInv, BlocksOnlyListed, OnlyListed
<1> QED BY <1>1, <1>2, <1>3, PTL DEF OpsSpec

=============================================================================
