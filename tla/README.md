# AnchorShield in TLA+

AnchorShield is an access layer for Stellar: a person proves in zero knowledge
that a credential of theirs satisfies a policy, and Soroban contracts verify the
proof before they move value or attest an account. This directory holds TLA+
modules of the contracts, the issuer service, the services and pages around
them and the operators' programs, configurations that check them with TLC, and
theorems about them that TLAPS proves.

    tlc -workers 2 -config Mint.cfg MCAccess        # a model-checking run
    tlapm AccessProofs.tla                          # the proofs of a module

## 1. The system

| part | state it keeps | operations | who calls it |
|---|---|---|---|
| `circuits/eligibility.circom` | none: a relation between a witness and 19 public signals | prove | browser, SDK, CLI |
| `contracts/issuer_registry` | credential and revocation root per issuer, one sanctions root, admin | `set_root`, `set_sanctions_root`, `set_revocation_root` | admin; read by the gates |
| `contracts/policy_registry` | policy per id, admin | `set_policy` | admin; read by the gates |
| `contracts/nullifier_registry` | used nullifiers, allowed gates, admin | `allow_gate`, `revoke_gate`, `is_used`, `mark_used` | admin; the gates |
| `contracts/verifier` | verifying key with circuit id and version, frozen flag, admin | `set_vk`, `freeze_vk`, `verify` | admin; the gates |
| `contracts/gate_payment` | token per asset, account per recipient id (each write-once), pause switch | `verify_and_pay`, `set_token`, `set_recipient`, pause | payers; admin |
| `contracts/gate_rwa` | inventory per asset, holding per asset and recipient id, pause switch | `verify_and_transfer`, `fund`, pause | users; admin |
| `contracts/identity_verifier` | attestation expiry per account, one-time mint authorizations, allowed consumers, asset and recipient mappings, pause switch | `attest`, `attest_for_mint`, `consume_mint_authorization`, `verify_identity` | holders; the adapter; the RWA token |
| `contracts/rwa_compliance_adapter` | bound tokens | `created`, `transferred`, `destroyed`, `bind_token` | the RWA token (OpenZeppelin SEP-57, not in this repository) |
| `contracts/governance` | signers, thresholds, delays, proposals, approvals | `propose`, `approve`, `execute` | signers; anybody executes |
| `contracts/shared` | none | signal layout and comparisons, pairing check | all gates |
| `services/issuer` | roster, fetched lists, trees, `issuance.json`, rotation, status and publication reports | issue, sync, screen against OFAC, rotate, publish or verify roots | operator |
| `services/kyc-backend` | hits per address, status tokens, both in memory | mint a token, report a status | the KYC page |
| `apps/web` KYC page | user id, status token, poll timer, credential | start, refresh, poll | visitor, widget, timer |
| `packages/sdk`, `apps/web` console, `packages/cli` | last proof of a tab; used epochs of a browser | prove, build arguments, submit, poll, retry | holder |
| `services/indexer`, `services/monitoring` | the file of events; a monitoring run | choose events; compare, alert, exit code | operator |
| `services/disclosure`, auditor page | view key, package, summaries, vault, web packet | disclose, build a vault or a web packet, decrypt | operator; auditor |
| `services/anchor`, `services/mock-anchor` | configuration, evidence of a run | SEP-10/24/38/31 conversations | operator; anchor page |
| `scripts/*preflight*` | none of their own: they read the others' files | decide whether a release may go | operator |

**Interaction.** A gate call runs in one transaction. It reads the policy, the
three roots, `is_used`, and the circuit of the key; it asks the verifier; it
moves value; it calls `mark_used` on the nullifier registry, which refuses a
gate that is not allowed or a nullifier that is used; it publishes an event.
Three gates share one nullifier registry. The identity verifier leaves state
behind (an attestation, an authorization) that the token and the adapter use in
later transactions. An administrator, later the governance contract, writes all
configuration between any two of those transactions.

Off chain the parts meet in files and requests. `ops.js` and `issue.js` write
the issuance, `publish-roots.js` sends its roots and reports, the preflights
trust that report, the monitor compares the events with the issuance. The KYC
page talks to the backend, the backend to the provider. The console asks the
wallet, simulates, sends and polls through an RPC server. Every one of those
requests can fail, and some that fail have been served.

**What is hard.** A Soroban transaction is atomic, so interleaving happens
between transactions: a root rotated, a gate paused, a key replaced, a consumer
revoked between the making of a proof and its use, or between an authorization
and its mint. Within a transaction the order of effect and check matters,
because an error anywhere undoes everything. Amounts are `i128` in calls and
`u128` in signals. Times and ledger sequences saturate. Governance rules change
while proposals are pending. Off chain, three roots are published in three
transactions of which any can fail; handlers await between a check and its use
while a timer sweeps and a process restarts; programs stop between two of the
files they write; tabs of one browser share an account and a list of epochs;
replies overtake each other; and clients retry what may have been done.
`PROJECT.json` lists the hazards one by one, at the line where they bite.

**What makes each part correct.**

- access layer as a whole: one action per person, policy and epoch, over all
  gates; only for somebody enrolled and not denied, under the roots in force;
- payment gate: payees hold exactly what was approved for them; a recipient id
  never changes its account;
- RWA gate: holdings are the sums of the approvals; no amount wraps;
- identity verifier and adapter: attestations are capped; a mint happens at most
  once per authorization, for its exact amount and account, never after expiry;
- verifier: freezing is final; pause and revocation stop a gate at once;
- governance: the counter is the number of distinct approvers; a proposal acts
  once, after its timelock; the rules change only by their own rules; nobody can
  lock the contracts out; only safety actions take the short path;
- governance over the access layer: after the handover a setting changes only by
  a proposal about its contract;
- issuer service: a listed or revoked credential has no witness, every clean one
  has; a synced run screens with the list it fetched; whatever is cut or mixed up,
  nobody is blocked who is not listed; a reported publication was in force;
- KYC: a reply stays in its session, a credential is current, the rate holds, a
  lasting approval is shown;
- clients: a payment is not repeated; a payment called pending never lands; the
  list of used epochs is off only by what ended pending, with an error or not yet;
  the arguments are those that were asked for; buttons come back;
- monitor: a run that exits with 0 saw no replay, no rejected proof and no foreign
  root;
- anchor programs: one transaction per quote; evidence that passes is real;
- disclosure programs: the hash on a package is that of the packet inside; a
  vault names the payment of its package; what a page fetches it can open;
- preflights: what they let pass was in force, existed, or is new.

## 2. The modules

| module | models | its state |
|---|---|---|
| `Eligibility` | the circuit's relation and the public signals | none |
| `Ownership` | `require_admin`, `transfer_admin`, pause of every contract | `admin`, `paused` |
| `IssuerRegistry`, `PolicyRegistry`, `NullifierRegistry`, `Verifier` | the four peers the gates read | `root`, `sanctionsRoot`, `revocationRoot`; `policies`; `gateAllowed`, `used`; `vk`, `frozen` |
| `ProofChecks` | the checks that the three gates make in the same order, and the log of approvals | `approvals` |
| `GatePayment`, `GateRwa`, `IdentityVerifier`, `ComplianceAdapter` | the contracts that act on a proof | their storage, `balance` and `shares` of the external tokens, the clock `now` |
| `AccessLayer` | the composition: one action per transaction | |
| `AccessPromise` | the abstract specification, of people and published sets | `enrolled`, `denied`, `revoked`, `granted` |
| `AccessProperties` | the properties, and the refinement mapping to `AccessPromise` | |
| `Governance`, `GovernanceProperties` | the governance contract and its properties | `config`, `isSigner`, `proposals`, `approval`, `executions`, `ledger` |
| `GovernedAccess` | `AccessLayer` with the governance contract as the admin to be: an executed proposal is the handler of its target, in the same step | both |
| `IssuerOps` | `ops.js`, `ofac-sync.js`, `issue.js` over `lib/ofac.js`: each command step by step, with files that a stop leaves cut | `treasury`, `sdn`, `sample`, `issuance`, `report`, `status`, `jobs` |
| `IssuerTrees` | `zk-tree.js` and the issuance: Merkle tree, linked exclusion tree and witnesses, next to the membership constraints of the circuit | `issued` |
| `RootPublish` | `publish-roots.js` with the rotation, composed with `IssuerRegistry` | `file`, `pc`, `commands`, `expected` |
| `Preflight` | `bucket-b-preflight.mjs` and `mainnet-preflight.mjs` over the files of `RootPublish` | `report`, `artifacts`, `preflight` |
| `PublishPreflight` | `publish-preflight.mjs` against the npm registry | `packageFile`, `registry`, `user`, `run` |
| `Monitoring` | `monitor.js` and `build-index.js` over the files of `IssuerOps` | `events`, `monitor`, `delivered` |
| `KycBackend` | `server.js` and the provider client `lib/kyc.js`, cut at their awaits | `tokenHits`, `statusTokens`, `requests`, `review`, `clock` |
| `KycClients` | the backend with clients that send any request they can make | |
| `KycPage` | the backend with `kyc-live.js` | `phase`, `userId`, `statusToken`, `polling`, `credential` |
| `Submission` | a payment from the browser to the ledger: account, simulate, wallet, send, poll | `sequence`, `sent`, `applied`, `stage`, `draft`, `attempt`, `nextPoll` |
| `Console` | the tabs of `app.js` on top of `Submission` | `job`, `witness`, `proving`, `latest`, `connected`, `marked`; histories `asked`, `told`, `failed` |
| `SdkActions` | `sdk/src/index.js` and the invoking commands of the CLI: numbers through JSON and BigInt to the arguments of a call | `flow`, `input`, `action`, `outcome` |
| `AnchorFlow` | `run-testanchor.mjs`, `sep-client.js`, `anchor-live.js` as sequences of requests | `quotes`, `transactions`, `client`, `evidence` |
| `Disclosure` | `disclosure.js`, `vault.js`, `build-web-packet.js`, `auditor-live.js`, cut at the files they read and write | `inputFile`, `public`, `payments`, the files, `program`, `page` |
| `AccessProofs`, `AccessBalances` | theorems about `AccessLayer`; the second has those about sums | |
| `GovernanceProofs` | theorems about `Governance` and `GovernedAccess` | |
| `RootPublishProofs` | theorems about `RootPublish` and `Preflight` | |
| `OperatorProofs` | theorems about `AnchorFlow`, `PublishPreflight`, `Monitoring`, `IssuerOps` and `Operators` | |
| `Operators` | `Monitoring` and `AnchorFlow` next to each other, and the types of both | |
| `Browser` | `Console`, `KycPage` and `SdkActions` next to each other, and the types of all three | |
| `BrowserProofs` | theorems about `Console`, `SdkActions`, `KycClients`, `KycPage` and `Browser` | |
| `DisclosureProofs` | theorems about `Disclosure` | |
| `TreeProofs` | the theorem about `IssuerTrees`: any depths, any keys | |
| `MCAccess`, `MCGovernance`, `MCRootPublish`, `MCPage`, `MCOperator` | instances for TLC | `part` |

**How contracts become TLA+.** A contract call is one transaction, and an `Err` or a
trap anywhere in it reverts every write. So a handler is one action, enabled
exactly when the call returns `Ok`; each `return Err` and each trap of a callee
is the negation of a conjunct; a failed call is a stuttering step. Storage
entries are functions with `None` for an absent entry. `require_auth` restricts
the signer of a transaction; where the signer does not matter to what happens
(a payer), the action quantifies over it implicitly, where it does (an admin),
it is the parameter `by`.

**How programs become TLA+.** A JavaScript function runs until its next `await`
or, in the operators' programs, until its next read or write of a file that
others write; each such piece is one action, and between two of them anything
else may happen. A request is three things: it is sent, it is served or lost,
and its answer arrives or is lost, so that a caller's failure says nothing of
what was served. A program that throws stops where it is; one that is killed may
leave the file it was writing cut.

**Abstractions.**

- Hashes are injective. A Merkle root is the set it commits to; a nullifier is
  the triple (person, policy, epoch) that is hashed; a packet hash is the tuple
  it is computed from. `action_binding` is left out: the contracts do not
  compute it, they only copy it to the event.
- A proof and its signals are a record (`Statement`). `Verify` accepts it
  exactly when a witness exists and the key is that of the statement's circuit:
  soundness and completeness of Groth16 are assumed, not shown. Likewise
  encryption is that a package opens with its key and its hash, and with nothing
  else.
- The prover picks the epoch. The contracts compare it only with an argument of
  the same call, and the circuit only with the validity interval of the
  credential, and the model does neither more nor less.
- Amounts keep their width: `Word` stands for 2^128, `AsU128` is the cast, and
  checked additions of `i128` are guards; `MaxSafe` stands for 2^53. Time and
  ledger sequences stop at `TimeMax` and `U32Max`, where the code's saturating
  sums do.
- `approvals`, `consumed` and `executions` are histories of the events that the
  contracts publish; `firstFor`, `mintedFor`, `admitted`, `asked`, `told`, `failed`,
  `taken`, `everInForce` and the fields `made` and `delay` of a governance
  proposal are histories that only properties read.
- `Eligibility` and `RootPublish` take a root for the set it commits to;
  `IssuerTrees` justifies that: it builds the trees node by node, with the hash
  as a free constructor (a hash is the pair that was hashed), keys as ordered
  numbers, and shows that the circuit's membership constraints have a solution
  exactly for the members, respectively the non-members, of those sets. A key
  whose hash is 0 has no bracketing leaf and is left out of the instance.
- In `RootPublish` the issuance file is the input it was made of, and
  `publish-roots` reads it twice before it sends; the first copy only supplies
  the admin's address that is checked. In `IssuerTrees` the users who match are
  an input; `IssuerOps` computes them, where a name is a word in some spelling:
  what `normalizeName` removes is the spelling, and a name it makes empty
  matches nobody.
- A KYC user id and a status token are numbers never used before. In `Console` a
  proof is the epoch it was made for and whether its roots are the deployed
  ones; the gate takes it or refuses it. The RWA proof of a tab is only verified
  there, never submitted.
- One disclosure runs at a time, which is how it is used; its programs, a vault
  and the page interleave freely. Its files are written at once, and a program
  that is killed stops between two of them, except where somebody can read a half
  of one without noticing: `fileHash` in `vault.js` hashes whatever is there,
  which `HashedPackages` says. The other readers parse what they read.
- The monitor has a webhook or has none (`BeginMonitor`): without one it posts
  nothing, and its exit code is of critical alerts only.
- Whether the message of an error looks like a replay (`app.js:574` searches it
  for "nullifier" or "used") is not determined by its cause in `Console`: such a
  failed submission marks its epoch or does not.
- Not represented: storage TTL and archival (entries are extended on access),
  fees, the wording of errors and events, getters.

## 3. The runs

| run | instance | distinct states | checks |
|---|---|---|---|
| `transfers` | both gates, two people with different limits of whom one is revoked, signed amounts with `Word` = 8, nothing mapped and the key not frozen yet, one administrator | 88 064 | `TypeOK`, `BooksBalance`, `ApprovedAmountIsProvenAmount` |
| `mint` | deployed contracts, adapter and another consumer, clock 0..3, cap 2, two epochs | 107 776 | `IdentityIsBacked`, `MintedAtMostOnce`, `ExpiredAuthorizationStays` |
| `together` | all three gates, one epoch, two circuits, roots that change | 114 688 | `OneApprovalPerNullifier`, `KeepsPromise`, `StoppedGateApprovesNothing`, `FrozenKeyIsFinal` |
| `governance` | rules: two signers, three rule sets of which one is invalid, ledgers 0..4, up to three proposals of which one is on a call; cutover: six contracts in the order of `docs/GOVERNANCE.md`, eleven calls of all ten kinds | 1 860 812 | `ProposalsAreExact`, `SignersCanReachThresholds`, `RulesChangeByProposal`, `OnlySafetyActsFast`, `GovernedByProposal` |
| `publication` | four inputs (a user joins, is matched, is revoked, leaves), one executing publisher next to a verifying one, or to both preflights with three inputs | 559 863 | `ExecutedReportIsInForce`, `ReportedRosterDecides`, `GoWasInForce` |
| `page` | six parts: `tabs` 219 085, `retry` 24 516, `polling` 354 256, `sessions` 326 068, `rate` 7 746, `sdk` 83 256 | 1 014 927 | `ClientsTypeOK`, `RetryPaysOnce`, `UsedEpochsAreAccounted`, `PendingIsFinal`, `RepliesStayInSession`, `RateHolds`, `ArgumentsAreAsked`, `CredentialIsCurrent` |
| `page_progress` | one tab; one visitor of the KYC page with two requests at a time | 83 604 | `BusyEnds`, `StartEnds`, `ApprovalIsShown` |
| `operator` | seven parts: `screening` 1 164 192, `monitor` 292 308, `anchor` 9 222, `disclosure` 693 424, `web` 6 728, `release` 86 016, `trees` 496 | 2 252 386 | `OperatorTypeOK`, `SyncedRunScreensFetched`, `BlocksOnlyListed`, `QuietMeansClean`, `OneTransactionPerQuote`, `EvidenceIsReal`, `PackageIsProven`, `VaultNamesPayment`, `PageOpens`, `ReadyIsNew`, `TreesDecide` |
| `stale_approvals` | a signer is replaced by a third address | until the violation | `SignerSetReachedThreshold`, violated |
| `partial_publish` | one executing publisher and the rotation | until the violation | `BlockedCannotProve`, violated |
| `disclosure_binding` | the disclosure part of `operator` | until the violation | `DisclosureBindsPayment`, violated |
| `anchor_licensed` | the anchor part of `operator` | until the violation | `LicensedEvidencePasses`, violated |

**Parts.** Several instances put systems that share no state into one run: a
behaviour chooses its `part` first and then takes steps of that part alone. A
property is then checked of every part, and nothing is lost, because a step of
one system neither reads nor writes a variable of another, so that an
interleaving of two would only repeat the states of each. Where systems do share
state they are composed: the monitor runs next to the commands whose files it
reads, the preflights next to the publishers, the page next to its backend,
governance next to the contracts.

**Why the bounds are enough.**

- *Access layer.* `Word` = 8 leaves room for both signs and for a negative
  amount whose cast is an in-range proof. Two people with one epoch give two
  approvals per gate, so a balance or a holding is a sum, and the mappings, the
  key, the pause and the gates are administered between them. In `mint` the clock
  passes the cap and reaches its end, so that expiry, the cap and the saturation
  all happen, and two epochs allow a second authorization after the first was
  consumed or expired. In `together` one nullifier is enough, because the
  question is who wins it.
- *Governance.* In the rules a signer can approve, be removed, be added again and
  try to approve again. In the cutover one proposal is on any call, and another
  one hands the gate back to the deployer or changes the rules, so that a
  contract is governed, performed on, and no longer governed. Ledger numbers run
  out, which ends the behaviour: deadlock is not checked there.
- *Trees.* Every ordered roster of up to three of three users, each matched or
  not and revoked or not, full rosters of four and one of five, in trees of 4 and
  8 leaves: the keys of the users interleave differently in the two lists, so a
  clean key falls below, between and above listed ones and next to both
  sentinels; `ProvableIffClean` also tries every leaf (value, next) a prover
  could claim, at every index. The depths are 2 and 20 in the code; what matters
  is that the exclusion tree has room for a whole roster and its sentinel, which
  `TreesAssumption` says.
- *Issuer commands.* One worker, one stop in the middle of a command, fetches
  that may fail at any time, four names of which two are spellings of one and one
  is blank, three lists, two times: a sync can fail before or after each of the
  two files, and a later command meets whatever it left.
- *Monitor.* Files of up to three events, so that two approvals with one nullifier
  can be apart; with a webhook that accepts or fails, and without one.
- *Publication.* The executor restarts after every kind of failure, and the file
  can change between any two of its steps.
- *Console.* Two epochs, two transactions, polls that outlast the validity of a
  transaction. The parts each leave out one dimension: `tabs` has two tabs and no
  clock, `polling` one tab and a clock, `retry` one tab whose gate closes and
  opens.
- *KYC.* Two slots for open requests, two clients, two user ids, two status
  tokens, a lifetime that can pass. In `sessions` a reply is read before the next
  one is made (`OneReply`): the order in which clients read replies changes
  nothing at the backend, which is all that part is about; `page_progress` keeps
  both replies and lets them overtake each other. In `rate` the clock goes on for
  five ticks over a window of two, with a limit of two.
- *Anchor, disclosure, release.* Two runs of three clients; two inputs, two
  payments and three keys; two versions of two packages, one of which others can
  publish at any time.

The runs that end by themselves (a last ledger, a last tick, a last run of a
client) do not check deadlock; those of the access layer and of the publication
do.

**What each run is sensitive to.** Every property has a faulty variant of a
handler beside the handler itself (marked `Faulty`), with the kind of slip that
would break it: a dropped guard, a removed comparison, a missing reset, a sum
that does not saturate.

**Fairness.** On chain none is assumed. Nothing obliges a person to submit a
proof, a payee to be paid or a signer to approve, so those are safety
specifications. Off chain:

- `PageFairness`: the server and the browser go on with what is open (both are
  event loops) and the timer of the page fires again and again, which is weak
  fairness of each served request and each arriving reply and strong fairness of
  the timer, whose slot may be busy. Bodies, provider requests and replies with a
  credential get through again and again if they are tried again and again:
  strong fairness, since each may also fail. Nothing is assumed of the visitor,
  the widget, the reviews or the life of the process; `ApprovalIsShown` is about
  a session that the backend keeps and a review that stays GREEN.
- `ConsoleFairness`: what a tab awaits is answered or fails. The visitor need not
  answer the wallet, which is why `BusyEnds` ends there too.

The operators' programs have no liveness property. Nothing in the repository runs
a command again or starts the monitor, so neither that a cut issuance is replaced
nor that a refused alert is made again is promised by the code. An anchor client
awaits a wallet that its visitor need not answer (`anchor-live.js:50`, `67`), and
fetches without a timeout (`anchor-live.js:19`, `sep-client.js:102`): that it ends
is not promised either.

**Four divergences.** `docs/GOVERNANCE.md:7` says a proposal executes when the
*signer set* reaches the threshold. `execute` compares a stored counter and does
not ask whether the approvers are still signers, and `set_config` does not touch
pending proposals. Run `stale_approvals` shows a proposal of a signer who was
replaced executing with fewer approvals of current signers than the threshold.
What does hold, and is proved, is the weaker `RulesChangeByProposal` and
`ProposalsAreExact`: enough *distinct* approvers, each a signer when it approved.

`README.md:67` says a listed party cannot produce a passing proof. The deny and
revocation trees of an issuance list only users of its own roster, and
`publish-roots.js` sends the credential root first. Run `partial_publish` shows
that between the first and the last transaction, or for good when a later one
fails, a user who is new on the roster and whom the same issuance matches is
enrolled and not yet listed, so that a witness under the three roots in force
exists. What does hold, in `publication`: once the executor reports, exactly
the clean users of the published roster have one.

`docs/GO_LIVE.md:20` says that `sep-client.js` already emits exactly the shape of
evidence that the preflight checks, and line 43 that the preflight then passes.
`bucket-b-preflight.mjs:45` wants `steps.sep38_price`, `steps.sep38_quote` and
`steps.sep31_create`, and `runSandboxFlow` writes `price`, `quote` and
`transaction`: run `anchor_licensed` shows a complete licensed run after which
the gate does not pass. What does hold is `EvidenceIsReal`: evidence that passes
is of a transaction the anchor has.

`docs/M4.md:7` says that `disclosure.js` verifies binding to the payment proof's
public `packet_hash`. Line 157 compares the packet's hash with `public.json` and
with the signals recomputed from the witness, and the packet's transaction with
the deployments it was copied from; the transaction is never looked up. Run
`disclosure_binding` shows a package that names the deployed payment with the
hash of another packet, after the witness and its signals were made anew. What
does hold are `PackageIsProven` and `VaultNamesPayment`: the hash is that of the
packet inside, and the vault repeats the payment that the package names.

**Other divergences met while modelling**, each of them in the model as the code
has it, and without a run of its own:

- `apps/web/assets/kyc-live.js:88`: a refresh keeps the status token of the reply
  and not its user id, although `server.js:179` makes a new user id when the
  session is gone; all later refreshes then name the first one.
- `apps/web/assets/app.js:572`: a payment that ended as PENDING is shown as
  "submitted", in the colour of success, and its epoch is marked, although by
  `PendingIsFinal` it never lands: `app.js:249` says an epoch "already used" is one
  that is spent, and here it is not. The log line has the RPC status.
- `apps/web/assets/app.js:586`: "submit failed" is said of a payment that lands
  when a request after the signature fails; its epoch stays unmarked, so that a
  later flow can pick an epoch that is spent (`app.js:249`). The same message is a
  "replay rejected", and its epoch marked, when its text has "nullifier" or "used"
  in it (line 574). `UsedEpochsAreAccounted` bounds what these three leave.
- `packages/cli/anchorshield.js:86`: the printed call has `--recipient` and
  `--vk-file-path`, which `verify_and_pay` has not (`docs/SDK.md:76`: "Print a
  testnet payment invoke command").
- `services/issuer/ops.js:54`: a list that was cut at the end of a row parses,
  and a rotation without a sync then screens with a part of it (`README.md:69`);
  users on the rest of the list are not blocked. `BlocksOnlyListed` is only about
  the opposite.
- `services/issuer/ops.js:75`: a cut issuance makes every rotation throw, also that
  of `npm run issuer:ops`, the command of `docs/OPERATIONS.md:5`; only `issue.js`, or
  the removal of the file, ends that.
- `services/monitoring/monitor.js:137`: without a webhook, which
  `docs/OPERATIONS.md:46` calls optional, a stale root or a root that was set is
  told in the log alone and the run exits with 0.
- `services/monitoring/monitor.js:113`: freshness is only looked at when the file
  has `generated_at`, which `issue.js` does not write, while `ops.js:117` falls
  back to the file's time (`docs/OPERATIONS.md:46`).
- `services/anchor/run-testanchor.mjs:175`: a creation whose answer was lost is
  reported as blocked by the anchor.
- `services/issuer/publish-roots.js:215`: `--verify` reads the roots at three
  moments (`docs/OPERATIONS.md:34`), so that its report can be of roots that were
  never in force together; `ExecutedReportIsInForce` is about `--execute`.
- `scripts/bucket-b-preflight.mjs:25`: a report of an earlier publication passes
  when the issuance has its roots again (`docs/MAINNET_READINESS.md:66`: "stale").
- `services/disclosure/disclosure.js:148`: the view key is replaced before the
  package, so that a run that fails leaves a package no key opens
  (`docs/M4.md:37`).
- `services/disclosure/vault.js:63`: `encryptedPacketSha256` is of a second read of
  the package, which may be of another disclosure or half written, while the vault
  says `encryptedPacketMatchesSummary` (line 107). `VaultNamesPayment` says nothing
  of that hash.

## 4. The theorems

All are for every value of the constants that the named assumptions admit: any
people, issuers, policies, statements, width, signers, rules, calls, programs,
runs and payments.

| theorem | says |
|---|---|
| `AccessProofs!TypesHold` | `TypeOK`: entries have their types, balances, inventories and amounts their widths |
| `AccessProofs!SpentOnce` | `OneApprovalPerNullifier` |
| `AccessProofs!PromiseKept` | `KeepsPromise`: the contracts implement `AccessPromise` |
| `AccessProofs!KeyIsFinal` | `FrozenKeyIsFinal` |
| `AccessProofs!AmountsAreProven` | `ApprovedAmountIsProvenAmount`, for any width and any signed amounts |
| `AccessProofs!StoppedIsStopped` | `StoppedGateApprovesNothing` |
| `AccessProofs!ExpiredStays` | `ExpiredAuthorizationStays` |
| `AccessProofs!KeptIsBacked` | `IdentityIsBacked` |
| `AccessProofs!UsedOnce` | `ConsumedOnce`, the first half of `MintedAtMostOnce` |
| `AccessBalances!BooksAlwaysBalance` | `BooksBalance`: balances and holdings are sums of approvals |
| `AccessBalances!MintedOnce` | `MintedAtMostOnce` |
| `GovernanceProofs!CountsAreExact` | `GovTypeOK` and `ProposalsAreExact` |
| `GovernanceProofs!NeverLockedOut` | `SignersCanReachThresholds` |
| `GovernanceProofs!RulesAreGoverned` | `RulesChangeByProposal` |
| `GovernanceProofs!FastPathIsForSafety` | `OnlySafetyActsFast` |
| `GovernanceProofs!CutoverHolds` | `GovernedByProposal`, for any order of the handover |
| `RootPublishProofs!ReportsAreTrue` | `PublishTypeOK` and `ExecutedReportIsInForce`, for one executing publisher and any number of verifying ones |
| `RootPublishProofs!RosterDecides` | `ReportedRosterDecides`, likewise |
| `RootPublishProofs!GoesWereInForce` | `GoWasInForce`, for one executing publisher |
| `DisclosureProofs!PackagesAreProven` | `PackageIsProven` |
| `DisclosureProofs!VaultsNamePayments` | `VaultNamesPayment` |
| `DisclosureProofs!PageAlwaysOpens` | `PageOpens` |
| `OperatorProofs!QuotesAreRedeemedOnce` | `OneTransactionPerQuote` |
| `OperatorProofs!EvidenceStaysReal` | `EvidenceIsReal` |
| `OperatorProofs!ReadyStaysNew` | `ReadyIsNew` |
| `OperatorProofs!QuietStaysClean` | `QuietMeansClean` |
| `OperatorProofs!SyncScreens` | `SyncedRunScreensFetched`, for commands that run one after the other |
| `OperatorProofs!OnlyListedAreBlocked` | `BlocksOnlyListed`, for commands that run at once |
| `OperatorProofs!OperatorsStayTyped` | `OperatorTypeOK` |
| `TreeProofs!TreesAlwaysDecide` | `TreesDecide`, for trees of any depth and any keys |
| `BrowserProofs!RetriesPayOnce` | `RetryPaysOnce` |
| `BrowserProofs!UsedEpochsStayAccounted` | `UsedEpochsAreAccounted`, for any lengths of polls and timeouts |
| `BrowserProofs!PendingStaysFinal` | `PendingIsFinal`, where the polls outlast a transaction |
| `BrowserProofs!NothingElseIsBuilt` | `ArgumentsAreAsked`, for numbers of any width |
| `BrowserProofs!SessionsAreSeparate` | `RepliesStayInSession` |
| `BrowserProofs!CredentialsAreCurrent` | `CredentialIsCurrent` |
| `BrowserProofs!RateIsLimited` | `RateHolds`, for any window and limit |
| `BrowserProofs!PageIsAClient` | the page with its backend implements `ClientsSpec` |
| `BrowserProofs!ClientsStayTyped` | `ClientsTypeOK` |

The theorems of the access layer are of `Spec \/ DeployedSpec`: from fresh
contracts and from the state the deployment script leaves. `CutoverHolds` is of
`GovernedSpec`, from either of the two with a governance contract on which `init`
has not been called.

**Access layer.** The inductive invariant is `IInv == TypeOK /\
OneApprovalPerNullifier`. The two halves need each other little, but the second
needs its equivalence (`used` exactly when approved): without it, a fresh
nullifier could already carry an approval and the next one would be its second.
Four actions publish approvals. Each is shown once to be an `ApprovingStep`:
some accepted statement whose nullifier was unused is marked and one approval is
appended to its sequence (`PayApproves`, `TransferRwaApproves`, ...). The
invariant, the refinement and the theorem about the frozen key all start from
that fact. Every other action leaves `used` and `approvals` alone
(`SpentUntouched`). `AmountsAreProven` adds that an approval, once there, is
never changed, and the arithmetic of the cast: a positive `i128` is its own
`u128`. `StoppedIsStopped` and `ExpiredStays` are about one step from a state of
the invariant.

**Identity verifier.** `IdentityIsBacked` alone is not inductive: when one
authorization is consumed, another one could rest on the same approval. `BackInv
== IdentityIsBacked /\ ConsumedOnce /\ OneKeyPerApproval` adds that no two
authorizations have the same nullifier, which `mark_used` gives to each new one,
and that what was consumed was approved for a mint.

**Sums.** `SumFunctionOnSet` is a fold, which the library defines by a `CHOOSE` of
a recursive function on the subsets of a set. `AccessBalances` first shows that
this function exists and is unique on a finite set, and from that that a sum does
not depend on the order of its terms: adding one member adds its term, changing
a term outside the set changes nothing, sums of non-negative terms grow with the
set. Those inductions are arguments about a least counterexample among the
finite subsets (`SmallestSet`), which needs only that strict inclusion is well
founded. The books then are `PayeesInv` and `HoldersInv`: each balance is a sum,
and what was approved went by a mapping that was there, so that a mapping added
later (they are write-once) gives no older approval a payee. Without that part the
first is not inductive. `MintedInv` does the same for the shares, which are
compared with what was consumed (`MintedIsConsumed`) and not with what was
authorized, because what is authorized may expire. All need `AccountAssumption`,
that accounts are finitely many; an address is 32 bytes.

**Refinement.** A root maps to the set it commits to, an absent root to a set
that admits nobody, the approvals of a nullifier to the statements granted. An
`ApprovingStep` is a `Grant`: `AcceptedIsEligible` derives eligibility in the
current published sets from the proof being valid and its roots being the ones
in force. A root rotation is a `Publish`; anything else is a stutter.

**Governance.** `GovIInv` strengthens the properties with `RulesOK` (the rules
in force passed `validate_config` and the flags are those of their signers),
`IdsOK` (approvals and executions name existing proposals, so a new proposal
starts with none) and `EmergenciesOK` (only safety actions are ever proposed as
emergencies, which is why no emergency changes the rules). The counter fact is
an argument about cardinalities; the no-lockout fact counts a duplicate-free
sequence by a bijection. `EtasOK` ties the stored eta to the ledger and the delay
a proposal was made under, from which `EtaIsDelay` gets that a normal proposal past
its eta has waited out that delay, or that the ledger is the last there is, where
the sum saturates. `RulesAreGoverned` and `FastPathIsForSafety` are both stated
with that delay (`WaitedOut`) and the distinct approvers (`Supported`), and not with
what `execute` compares: what executes before either holds is a safety action.

**Governance over the access layer.** Every step of `GovernedNext` is a step of
`GovNext` or leaves governance alone (`GovernedIsGov`), so `GovIInv` stays
invariant; `OwnersOK` adds that every contract has its `Admin` and `Paused`
entries. Users change no setting (`UserSettings`), an administrator only those of
one contract, its own (`AdminSettings`), a proposal only those of its target
(`PerformSettings`); and no governance action is among the handlers that write
the key, the payees, the tokens or the mint consumers (`PerformReach`). An
emergency has one of three kinds by `EmergenciesOK`, and those reach no admin,
root, policy or key (`PerformEmergency`).

**Publication.** `PublishIInv` adds to the types that a verifying publisher never
sends, and `Progress(p)`: the roots that the executor's transactions have set so
far are those of the commands it read, and the roots it has read back so far are
those it compares with. The last of the three answers is then about all three,
because nobody else changes a root in between. With two executors that fails,
and so would the property: the assumption `Executors = {x}` is the operator's
discipline, which the code does not enforce. A report of `--verify` promises
less, since another process may publish between its three getters.
`RosterDecides` adds the trees' meaning: the witnesses under the roots in force
are those of the clean users of the file that was published. It is stated under
`CredentialsCount`: every credential satisfies some statement. A policy that
nobody can satisfy, or a credential that expired before every statement, would
make "every clean user has a witness" false for a reason that has nothing to do
with roots; the module of the run assumes it too, and TLC evaluates it there.
`GoesWereInForce` compares what a preflight has read so far with the history of
the roots. It is stated for publishers that execute: a report of `--verify` is
about three moments, and a preflight that trusts it promises no more.

**Disclosure.** `DInv` orders what is on disk and what programs have read by the
payment it names: a summary is never newer than the package, the package never
newer than the deployments, and a vault in the making has read them in that
order. When the three agree, as `buildVault` asks of summary and deployments, so
does what lies between them, the package, although nobody compares it. That is
about the package read at `vault.js:120` and not about the second read, whose
hash the vault also has. `ProvenInv` follows a packet from its proof to the
file. That the hash is also the one that the named payment was approved with
does not hold (`disclosure_binding`). For the page, `WebInv` says that the key
file is written once and every web packet is encrypted for it.

**Anchor.** `AInv` adds `RunsAreOwn` (no two clients are in the same run) and
`NothingYet`: a client that has not come to the creation has no transaction of
its run, and one that is about to create has the quote of its own run. The
creation is the one request that no client repeats.

**Console and SDK.** A transaction that was sent may land while the page thinks of
something else. `SentIsAccounted` says where it is remembered: its epoch is
marked, or its tab still polls it, or the page told of an error. `MarkedIsAccounted`
is the other direction, and inductive as it stands. Together they are
`UsedEpochsAreAccounted`; they do not say that the page is right, since "submitted"
stands for PENDING too, but how far its list can be from the ledger. `PollsPaced` adds
up the waits: after *k* polls at least *k* intervals have passed since the
transaction was sent, so the last poll is later than its validity, and what is not
there then never lands. That is `PollsOutlast`, 29 waits of 2 s against
30 s in the code (`app.js`); with a shorter wait a pending payment could land, and
`PendingStaysFinal` therefore has it as its hypothesis. `DraftsMatch` ties a draft
to the proof of its tab. `NothingElseIsBuilt` is about the numbers of JavaScript:
the largest safe integer is odd, so that a number that was rounded is beyond it
and refused (`RoundingShows`).

**KYC.** `SessionIInv` follows what a client knows: each id and token in a request,
in a reply or in the backend's memory was made for the client that holds it, also
after a restart, when memory is empty and old tokens are still sent. `PageInv`
says the same of the page's own fields, which gives the refinement: each of its
steps is a request or an answer of the client `Page`. For the rate limit,
`RateOf` relates three things, what the limiter remembers of an address, what it
has admitted, and the clock: the hits kept are the last ones admitted, those it
forgot are out of the window, and any two admissions that are *limit* apart are a
window apart. The last is inductive although the limiter only ever sees the hits
it kept. That no window holds more is then a count: from its first admission on,
a window reaches at most *limit* further.

**Operators' programs.** `MonitorInv`: what a run has read is what it will exit
with, while the issuer writes next to it, and what it has posted is what it found,
if it has a webhook. `CheckInv`: a package that was taken when
the run began is among its blockers when the run has asked about it, and stays
there. `SyncInv` follows a sync from its fetch over the two files to the issuance
and the status it writes. It holds when no other command works at the same time,
and `Workers = {w}` says so: nothing in the code keeps two commands apart, and of
two at once, one may build from the list of the other. A cut file, a stop in the
middle and a command that failed before are all allowed. `OnlyListedAreBlocked`
says what is left when commands do run at once: `ListsInv` is that every file,
complete or in the middle of being written, and every job has only names of one
list of the Treasury. A command that builds from half of a list, or from the one
that another command fetched, blocks too few; it blocks nobody who is not listed.

**Trees.** `issue.js` builds two trees, and `TreesDecide` says that the circuit's
membership constraints can be solved exactly for the members of the first and
exactly for the keys that the second does not have. The recursion over heights is
an induction made by hand. `RootOpens` is its result: whatever siblings a prover
chooses, a chain of hashes that ends in the root of a tree follows the nodes of
that tree and starts from its leaf, because the hash is injective. So a prover has
no more openings than the issuer computes. That a bracketing leaf exists exactly
for an absent key is the order of the linked list: the list is described by its
sets of smaller and larger keys, and the neighbours of a key are the greatest
below and the least above it. The exclusion tree has one leaf more than there are
keys, and room for it because it is deeper than the credential tree
(`TreesAssumption`). The invariant is `IssuedIsBuilt`: the file holds what the
issuance computed from one input.

**Types.** `ClientsTypeOK` and `OperatorTypeOK` put the types of several
components together, and most of their work is in values that come from elsewhere.
A status is typed because the reply it was read from is (`TokenReplies`), the
page's fields because a reply was (`PageHolds`), a job of the issuer because its
program is a tail of one of the three commands (`JobTyped`, from
`CommandsAssumption`), and a list because a part of a sequence of names is one.

**Assumptions about constants.** Each is named in its module and evaluated by the
runs: constants that stand for nothing (`Null`, `None`, `Missing`, `NoValue`) are
none of the values they stand beside, accounts are finitely many, rosters and
lists are made of names, limits are natural numbers, the issuer's commands are
those of `ops.js`, `ofac-sync.js` and `issue.js`. Hypotheses of single
theorems are those above: one executor, one worker, no verifying publisher beside
a preflight, `CredentialsCount`, `PollsOutlast`.

**Theorems beyond the runs.** `ConsumedOnce` is a part of `MintedAtMostOnce`, which a
run checks. `PageIsAClient` is the refinement of `ClientsSpec`, whose properties
the runs check on both sides. `BlocksOnlyListed` is proved for commands that run at
once, where the run takes one worker. TLC finds it true with two workers that
both run `ops --sync --rotate` and with two lists (496962 states); that instance
is not one of the runs.

**Only model-checked.** Liveness (`ApprovalIsShown`, `StartEnds`, `BusyEnds`),
which rests on fairness and `ENABLED`, out of the prover's reach. Every other
property of the passing runs is a theorem. Where an induction over data is
needed, it is made by hand from well-foundedness, since the library's induction
theorems take an operator that the provers at hand cannot instantiate: for sums,
for the least index of a window and for the heights of trees.

## 5. What is not modelled

- *KYC enrichment* (`services/issuer/kyc-*.js`): two scripts run by hand, of which
  one rewrites the roster once and one only reads.
- *Mock anchor*: a pure function of fixtures that writes one file.
- *Wallet end-to-end harness*, *build and check scripts*, *benchmarks*: drivers
  of other programs whose outcome is an exit code.
- *Generated bindings*, *converter*: generated code and conversions of a format
  without state. `SdkActions` takes the names of the gates' arguments from the
  bindings.
- *RWA page*: one proof and its simulation for display; it submits nothing.
- *Partly*: the console without its dashboards, which show files; the CLI without
  the commands that print what they read; the deployment scripts, of which only
  the state they leave is modelled (`DeployedInit`).
- The mathematics of the proof system, of hashes and of encryption.

One hazard of the list has no property: after a restart of the backend the KYC
page goes on with the user id of the lost session (`kyc-live.js:88`). What the
page shows is what the backend says of its status token; which user id the
provider's widget then works for is outside this code.

## 6. Plan

1. Done: the access layer with its promise, governance, both together, trees,
   publication, issuer commands, monitor, preflights, KYC, console, SDK, anchor
   clients, disclosures; every safety property of the passing runs is a theorem,
   with 39 theorems in all.
2. The write-once mappings of the payment gate and of the identity verifier, as a
   theorem of their own: `PayeesInv` and `MintedInv` use that they only grow.
3. Two executing publishers, to say what is left of `ExecutedReportIsInForce`.
