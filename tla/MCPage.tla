------------------------------- MODULE MCPage --------------------------------
(***************************************************************************)
(* What runs in a visitor's browser, for TLC: the console, the KYC page    *)
(* with its backend, and the SDK.  They share no state, so a behaviour is  *)
(* one part alone, which it chooses first; a part bounds what its question *)
(* does not need.                                                          *)
(***************************************************************************)
EXTENDS Browser, TLC

CONSTANTS Parts, t1, t2, s1, s2, a, b, local, shared

VARIABLE part

kycVariables == <<backendVars, pageVars>>
pageRunVars  == <<tabsVars, kycVariables, sdkVars, part>>

MCTabs  == {t1, t2}
MCSlots == {s1, s2}
MCSymmetry == Permutations(MCTabs) \cup Permutations(MCSlots) \cup Permutations({a, b})

\* Two clients behind the proxy share an address.
MCPage == [client |-> a, remote |-> local, realIp |-> shared]
MCOther == [client |-> b, remote |-> local, realIp |-> shared]
MCConnections == {MCPage, MCOther}
MCVisitor     == {MCPage}

NoCall == /\ flow = "payment" /\ input = <<>> /\ action = <<>>
          /\ outcome = [state |-> "none"]

MCInit ==
  /\ part \in Parts
  /\ ConsoleInit
  /\ PageInit
  /\ IF part = "sdk" THEN SdkInit ELSE NoCall

\* Two tabs at one moment; one tab with time; one that tries again.
ConsoleBounds ==
  /\ part # "polling" => now = 0
  /\ part # "tabs" => job[t2] = None /\ witness[t2] = None /\ ~connected[t2]
  /\ part # "retry" => sequence < 2 /\ \A c \in Callers : witness[c] # "other"
  /\ part = "tabs" => gateOpen
  /\ part = "polling" => Cardinality(told) < 3

\* Sessions within two ticks, in which a reply is read before the next one is
\* made; or requests over many ticks that go no further.
OneReply ==
  \A s, r \in Slots :
    requests[s] # Null /\ requests[r] # Null
      /\ requests[s].stage = "answered" /\ requests[r].stage = "answered" => s = r

KycBounds ==
  IF part = "rate" THEN firstFor = <<>> /\ \A s \in Slots : requests[s] = Null \/ requests[s].path = "token"
  ELSE clock <= 1 /\ OneReply /\ \A u \in Users \ {1} : review[u] = "unknown"

MCNext ==
  \/ /\ part \in {"tabs", "retry", "polling"}
     /\ UNCHANGED <<kycVariables, sdkVars, part>>
     /\ ConsoleNext /\ ConsoleBounds'
  \/ /\ part \in {"sessions", "rate"}
     /\ UNCHANGED <<tabsVars, pageVars, sdkVars, part>>
     /\ ClientsNext /\ KycBounds'
  \/ /\ part = "sdk"
     /\ Invoke
     /\ UNCHANGED <<tabsVars, kycVariables, part>>

MCSpec == MCInit /\ [][MCNext]_pageRunVars

-----------------------------------------------------------------------------
\* One busy tab, and one visitor of the KYC page.  Only the first session of
\* the visitor loses an approval again.
ProgressNext ==
  \/ part = "busy" /\ ConsoleNext /\ UNCHANGED <<kycVariables, sdkVars, part>>
  \/ /\ part = "visitor" /\ PageNext /\ UNCHANGED <<tabsVars, sdkVars, part>>
     /\ \A u \in Users \ {1} : review'[u] # "PENDING"

\* In each part nothing of the other one is ever enabled.
ProgressSpec == MCInit /\ [][ProgressNext]_pageRunVars /\ ConsoleFairness /\ PageFairness

=============================================================================
