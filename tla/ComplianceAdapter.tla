------------------------- MODULE ComplianceAdapter -------------------------
(***************************************************************************)
(* contracts/rwa_compliance_adapter: the compliance hook of the            *)
(* OpenZeppelin RWA token, which turns a mint into the consumption of a    *)
(* mint authorization.  The token itself is not part of the repository: it *)
(* checks verify_identity and calls the hook in the same transaction.      *)
(***************************************************************************)
EXTENDS IdentityVerifier

VARIABLES
  boundTokens,      \* the tokens whose entry Token(token) is set
  shares            \* [RwaTokens -> [Accounts -> I128]], the token's ledger (external)

adapterVars == <<boundTokens, shares>>

AdapterTypeOK ==
  /\ boundTokens \subseteq RwaTokens
  /\ shares \in [RwaTokens -> [Accounts -> I128]]

AdapterInit ==
  /\ boundTokens = {}
  /\ shares = [t \in RwaTokens |-> [a \in Accounts |-> 0]]

BindToken(by, t) ==
  /\ RequireAdmin(Adapter, by)
  /\ t \notin boundTokens
  /\ boundTokens' = boundTokens \cup {t}
  /\ UNCHANGED shares

UnbindToken(by, t) ==
  /\ RequireAdmin(Adapter, by)
  /\ t \in boundTokens
  /\ boundTokens' = boundTokens \ {t}
  /\ UNCHANGED shares

\* created: only the token itself can authorize the call.
Created(t, to, amount) ==
  /\ t \in boundTokens
  /\ amount > 0
  /\ ConsumeMintAuthorization(Adapter, t, to, amount)
  /\ UNCHANGED boundTokens

Transferred(t, amount) == t \in boundTokens /\ amount > 0

Destroyed(t, amount) == t \in boundTokens /\ amount > 0

-----------------------------------------------------------------------------
\* The token's mint, transfer and burn, as the hooks are driven by them.
Mint(t, to, amount) ==
  /\ VerifyIdentity(to)
  /\ Created(t, to, amount)
  /\ shares[t][to] + amount \in I128
  /\ shares' = [shares EXCEPT ![t][to] = @ + amount]

TransferShares(t, from, to, amount) ==
  /\ VerifyIdentity(from)
  /\ VerifyIdentity(to)
  /\ Transferred(t, amount)
  /\ shares[t][from] >= amount
  /\ shares' = [shares EXCEPT ![t] = Moved(shares[t], from, to, amount)]
  /\ shares'[t][to] \in I128
  /\ UNCHANGED <<identityVars, boundTokens>>

Burn(t, from, amount) ==
  /\ Destroyed(t, amount)
  /\ shares[t][from] >= amount
  /\ shares' = [shares EXCEPT ![t][from] = @ - amount]
  /\ UNCHANGED <<identityVars, boundTokens>>

=============================================================================
