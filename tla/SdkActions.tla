----------------------------- MODULE SdkActions -----------------------------
(***************************************************************************)
(* packages/sdk/src/index.js: how a proof request becomes the arguments of *)
(* a gate's call, and packages/cli/anchorshield.js on top of it.  Numbers  *)
(* pass through JSON and JavaScript on the way: a JSON number beyond       *)
(* MaxSafe is rounded when it is read, a string and a BigInt are exact.    *)
(*                                                                         *)
(* An action has one field of each width.  The other fields the SDK        *)
(* compares (ACTION_FIELDS) are like one of these; packet_hash is a signal *)
(* that it does not compare.                                               *)
(***************************************************************************)
EXTENDS Naturals

CONSTANTS
  Refused,          \* an error that is thrown
  MaxU32, MaxSafe, MaxI128,
  Types,            \* values of action_type: PAYMENT_ACTION_TYPE, RWA_ACTION_TYPE
  EpochValues,
  AmountValues,
  Hashes

ASSUME WidthAssumption ==
  /\ MaxU32 \in Nat /\ MaxSafe \in Nat /\ MaxI128 \in Nat
  /\ MaxU32 < MaxSafe /\ MaxSafe < MaxI128 /\ MaxSafe % 2 = 1
  /\ EpochValues \subseteq Nat /\ AmountValues \subseteq Nat /\ Types \subseteq {0, 1}
  /\ Hashes \subseteq Nat
  /\ Refused \notin Nat

ActionFields == {"action_type", "epoch", "amount"}
Fields       == ActionFields \cup {"packet_hash"}

\* A value as it is written in a file or a program: "other" is anything that
\* is not a natural number in its shortest form.
Forms == {"number", "string", "bigint", "other"}

VARIABLES
  flow,             \* "payment" or "rwa": what the caller invokes
  input,            \* the input of the proof, as written
  action,           \* the action the caller asks for, as written
  outcome           \* the state of the call, with the arguments that were built

sdkVars == <<flow, input, action, outcome>>

-----------------------------------------------------------------------------
Rounded(n) == IF n <= MaxSafe THEN n ELSE n - (n % 2)

\* A value as JavaScript holds it, after JSON.parse or as a literal.
Parsed(v) == IF v.form = "number" THEN [v EXCEPT !.n = Rounded(@)] ELSE v

\* Faulty: any number is taken.
DecimalStringFaulty(v) == IF v.form = "other" THEN Refused ELSE v.n

DecimalString(v) ==
  IF v.form = "other" \/ (v.form = "number" /\ v.n > MaxSafe) THEN Refused ELSE v.n

\* createProofRequest: the overrides are written as strings over the input.
CreateProofRequest(written, overrides) ==
  [f \in Fields |->
     IF f \in DOMAIN overrides THEN [form |-> "string", n |-> overrides[f]] ELSE Parsed(written[f])]

\* The public signals of a proof for an input; the prover takes numbers too.
Prove(request) == [f \in Fields |-> request[f].n]

\* normalizePublicSignals takes plain and wrapped signals, and needs all of them.
PublicSignalCount == 19

NormalizePublicSignals(count, signals) ==
  IF count = PublicSignalCount THEN signals ELSE Refused

Compared == ActionFields

\* assertActionMatchesPublicSignals.
ActionMatches(a, signals) ==
  \A f \in Compared : DecimalString(a[f]) # Refused /\ DecimalString(a[f]) = signals[f]

TypeOfFlow == [payment |-> 0, rwa |-> 1]

\* assertPaymentAction, assertRwaAction.
FlowMatches(which, a, signals) ==
  /\ signals # Refused
  /\ ActionMatches(a, signals)
  /\ signals["action_type"] = TypeOfFlow[which]

\* Number(signal) as a u32 and BigInt(signal) as an i128; the contract's
\* specification refuses a value that does not fit.
FitsArguments(signals) ==
  Rounded(signals["epoch"]) <= MaxU32 /\ signals["amount"] <= MaxI128

\* paymentContractArgs, buildPaymentInvokeArgs, buildRwaInvokeArgs.
BuildArgs(which, a, signals) ==
  IF FlowMatches(which, a, signals) /\ FitsArguments(signals)
  THEN [state |-> "built", gate |-> which, signals |-> signals, epoch |-> Rounded(signals["epoch"]),
        amount |-> signals["amount"], packet |-> signals["packet_hash"]]
  ELSE [state |-> "refused"]

-----------------------------------------------------------------------------
Written(forms, values) == {[form |-> x, n |-> k] : x \in forms, k \in values}
AsString(values) == Written({"string"}, values)

\* The caller pairs an action with a proof made from some input.
SdkInit ==
  /\ flow \in {"payment", "rwa"}
  /\ \E t \in AsString(Types), e \in AsString(EpochValues), h \in AsString(Hashes),
        a \in Written({"number", "string"}, AmountValues) :
       input = [action_type |-> t, epoch |-> e, amount |-> a, packet_hash |-> h]
  /\ \E t \in AsString(Types), e \in Written({"number", "string"}, EpochValues),
        a \in Written(Forms, AmountValues) :
       action = [action_type |-> t, epoch |-> e, amount |-> a]
  /\ outcome = [state |-> "pending"]

\* The call: submitPaymentProof, a binding's arguments, or the gate command.
Invoke ==
  /\ outcome.state = "pending"
  /\ \E overrides \in {<<>>} \cup [{"epoch"} -> EpochValues],
        count \in {PublicSignalCount - 1, PublicSignalCount} :
       outcome' = BuildArgs(flow, [f \in ActionFields |-> Parsed(action[f])],
                            NormalizePublicSignals(count, Prove(CreateProofRequest(input, overrides))))
  /\ UNCHANGED <<flow, input, action>>

SdkSpec == SdkInit /\ [][Invoke]_sdkVars

-----------------------------------------------------------------------------
Built == outcome.state = "built"

(* The arguments that are built are the ones the action names, digit by    *)
(* digit as they were written, whichever proof it was paired with and      *)
(* however numbers are written; and they pass the comparisons of the gate  *)
(* they go to with the proof's signals.  No rounding goes unnoticed, and   *)
(* none makes the SDK send what the gate must refuse.                      *)
ArgumentsAreAsked ==
  Built => /\ outcome.amount = action["amount"].n
           /\ outcome.epoch = action["epoch"].n
           /\ outcome.signals["action_type"] = action["action_type"].n
           /\ outcome.signals["action_type"] = TypeOfFlow[outcome.gate]
           /\ outcome.signals["epoch"] = outcome.epoch
           /\ outcome.signals["amount"] = outcome.amount
           /\ outcome.signals["packet_hash"] = outcome.packet

=============================================================================
