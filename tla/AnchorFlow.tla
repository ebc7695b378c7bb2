----------------------------- MODULE AnchorFlow -----------------------------
(***************************************************************************)
(* The clients of an anchor: services/anchor/run-testanchor.mjs,           *)
(* services/anchor/sep-client.js and the page's assets/anchor-live.js.  A  *)
(* client is the sequence of its requests; each can be lost, be refused,   *)
(* or be served with an answer that is lost.  The anchor is external.      *)
(***************************************************************************)
EXTENDS Naturals, Sequences

CONSTANTS
  Clients,          \* the clients that are run
  Configs,          \* what anchor.config.json can be: "missing", "placeholder", "filled"
  MaxRuns,          \* runs of all clients
  NoAnswer          \* no identifier, no file

ASSUME AnchorAssumption ==
  /\ MaxRuns \in Nat
  /\ Clients \subseteq {"testanchor", "licensed", "browser"}

VARIABLES
  config,           \* services/anchor/anchor.config.json
  clean,            \* the issuance has a clean user with a proof input
  runs,             \* runs so far; one names the quote it asks for
  quotes,           \* quotes of the anchor
  transactions,     \* SEP-31 transactions of the anchor: sequence of [quote, run]
  client,           \* the progress of a client
  evidence          \* services/anchor/out/sandbox-run.json

anchorVars == <<config, clean, runs, quotes, transactions, client, evidence>>

-----------------------------------------------------------------------------
Requests ==
  [testanchor |-> <<"challenge", "token", "sender", "receiver", "price", "quote", "create", "write">>,
   licensed   |-> <<"price", "quote", "create", "write">>,
   browser    |-> <<"challenge", "token", "price">>]

\* Faulty: the helper with retries makes the last request too.
RetriedFaulty == {"challenge", "token", "sender", "receiver", "create"}

\* The requests that run-testanchor.mjs makes through j.
Retried == {"challenge", "token", "sender", "receiver"}

Tries == 3

IdleClient == [state |-> "idle", todo |-> <<>>, tries |-> 0, run |-> 0, token |-> FALSE,
               quote |-> NoAnswer, created |-> NoAnswer]

AnchorInit ==
  /\ config \in Configs
  /\ clean \in BOOLEAN
  /\ runs = 0
  /\ quotes = {}
  /\ transactions = <<>>
  /\ client = [c \in Clients |-> IdleClient]
  /\ evidence = NoAnswer

ClientRuns(c)  == client[c].state = "running"
NextRequest(c) == Head(client[c].todo)
AtRequest(c)   == ClientRuns(c) /\ NextRequest(c) # "write"

PutClient(c, s) == client' = [client EXCEPT ![c] = s]
ThrowClient(c)  == PutClient(c, [client[c] EXCEPT !.state = "threw"])

\* The next request; a page has shown its result when none is left.
GoOn(c, s) ==
  PutClient(c, [s EXCEPT !.todo = Tail(@), !.tries = 0,
                         !.state = IF Len(s.todo) = 1 THEN "done" ELSE "running"])

\* validateAnchorConfig and the first clean user; the other clients need none.
Begins(c) == c = "licensed" => config = "filled" /\ clean

BeginClient(c) ==
  /\ ~ClientRuns(c)
  /\ runs < MaxRuns
  /\ runs' = runs + 1
  /\ PutClient(c, [IdleClient EXCEPT !.state = IF Begins(c) THEN "running" ELSE "threw",
                               !.todo = Requests[c], !.run = runs + 1])
  /\ UNCHANGED <<config, clean, quotes, transactions, evidence>>

-----------------------------------------------------------------------------
\* What the anchor does for a request.
AnchorServes(c) ==
  /\ quotes' = IF NextRequest(c) = "quote" THEN quotes \cup {client[c].run} ELSE quotes
  /\ transactions' = IF NextRequest(c) = "create"
                     THEN Append(transactions, [quote |-> client[c].quote, run |-> client[c].run])
                     ELSE transactions

AnswerArrives(c) ==
  /\ AtRequest(c)
  /\ AnchorServes(c)
  /\ GoOn(c, [client[c] EXCEPT
       !.token = @ \/ NextRequest(c) = "token",
       !.quote = IF NextRequest(c) = "quote" THEN client[c].run ELSE @,
       !.created = IF NextRequest(c) = "create" THEN Len(transactions) + 1 ELSE @])
  /\ UNCHANGED <<config, clean, runs, evidence>>

\* run-testanchor.mjs records an error of its last request and goes on.
Fails(c) ==
  IF c = "testanchor" /\ NextRequest(c) = "create"
  THEN GoOn(c, client[c])
  ELSE ThrowClient(c)

\* No answer within the time: j tries again, requestJson and call do not.
Retries(c) ==
  IF c = "testanchor" /\ NextRequest(c) \in Retried /\ client[c].tries + 1 < Tries
  THEN PutClient(c, [client[c] EXCEPT !.tries = @ + 1])
  ELSE Fails(c)

RequestLost(c) ==
  /\ AtRequest(c)
  /\ Retries(c)
  /\ UNCHANGED <<config, clean, runs, quotes, transactions, evidence>>

AnswerLost(c) ==
  /\ AtRequest(c)
  /\ AnchorServes(c)
  /\ Retries(c)
  /\ UNCHANGED <<config, clean, runs, evidence>>

\* Faulty: any answer to the last request counts.
AnswerRefusesFaulty(c) ==
  /\ AtRequest(c)
  /\ IF c = "testanchor" /\ NextRequest(c) = "create"
     THEN GoOn(c, [client[c] EXCEPT !.created = client[c].run])
     ELSE ThrowClient(c)
  /\ UNCHANGED <<config, clean, runs, quotes, transactions, evidence>>

\* The status of the answer is an error.
AnswerRefuses(c) ==
  /\ AtRequest(c)
  /\ Fails(c)
  /\ UNCHANGED <<config, clean, runs, quotes, transactions, evidence>>

\* The two shapes of sandbox-run.json.
Evidence(c) ==
  IF c = "testanchor"
  THEN [shape |-> "steps", run |-> client[c].run, quote |-> client[c].quote, created |-> client[c].created]
  ELSE [shape |-> "answers", run |-> client[c].run, quote |-> client[c].quote, created |-> client[c].created]

WriteEvidence(c) ==
  /\ ClientRuns(c) /\ NextRequest(c) = "write"
  /\ evidence' = Evidence(c)
  /\ GoOn(c, client[c])
  /\ UNCHANGED <<config, clean, runs, quotes, transactions>>

\* The process is killed, or the tab is closed.
StopClient(c) ==
  /\ ClientRuns(c)
  /\ ThrowClient(c)
  /\ UNCHANGED <<config, clean, runs, quotes, transactions, evidence>>

\* The other files change, between runs.
Configure(kind, users) ==
  /\ \A c \in Clients : ~ClientRuns(c)
  /\ config' = kind
  /\ clean' = users
  /\ UNCHANGED <<runs, quotes, transactions, client, evidence>>

ClientStep(c) == AnswerArrives(c) \/ RequestLost(c) \/ AnswerLost(c) \/ AnswerRefuses(c) \/ WriteEvidence(c)

AnchorNext ==
  \/ \E c \in Clients : BeginClient(c) \/ ClientStep(c) \/ StopClient(c)
  \/ \E kind \in Configs, users \in BOOLEAN : Configure(kind, users)

AnchorSpec == AnchorInit /\ [][AnchorNext]_anchorVars

-----------------------------------------------------------------------------
\* validAnchorEvidence of bucket-b-preflight.mjs; it is written only after a
\* price and a quote.
ValidAnchorEvidence(file) == file # NoAnswer /\ file.shape = "steps" /\ file.created # NoAnswer

(* Types; a run that was given a quote is one that the anchor made, and    *)
(* nothing is created without a quote of the same run.                     *)
AnchorTypeOK ==
  /\ config \in Configs /\ clean \in BOOLEAN /\ runs \in 0 .. MaxRuns
  /\ quotes \subseteq 1 .. runs
  /\ \A c \in Clients :
       /\ client[c].state \in {"idle", "running", "threw", "done"}
       /\ client[c].tries \in 0 .. Tries - 1
       /\ client[c].quote \in quotes \cup {NoAnswer}
  /\ \A k \in DOMAIN transactions : transactions[k].quote = transactions[k].run

(* No quote is redeemed twice: whichever answers are lost, the request     *)
(* that creates a transaction is never made again for its quote.           *)
OneTransactionPerQuote ==
  \A k, n \in DOMAIN transactions : transactions[k].quote = transactions[n].quote => k = n

(* The preflight's gate rests on a transaction that the anchor has, made   *)
(* with the quote the evidence names.                                      *)
EvidenceIsReal ==
  ValidAnchorEvidence(evidence) =>
    /\ evidence.created \in DOMAIN transactions
    /\ transactions[evidence.created].quote = evidence.quote
    /\ evidence.quote \in quotes

(* docs/GO_LIVE.md: sep-client.js "already emits exactly that shape" which *)
(* the preflight checks.  After a licensed run the gate passes.            *)
LicensedEvidencePasses ==
  "licensed" \in Clients /\ evidence # NoAnswer /\ client["licensed"].state = "done" =>
    ValidAnchorEvidence(evidence)

=============================================================================
