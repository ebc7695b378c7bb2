SPECIFICATION DeployedSpec
CONSTANTS
  None = None
  alice = alice
  bob = bob
  issuer = issuer
  terms = terms
  action = action
  packet = packet
  Gates = {"gate_payment", "gate_rwa", "identity_verifier"}
  Principals = {deployer}
  Deployer = deployer
  Persons = {alice}
  Issuers = {issuer}
  PolicyIds = {p1}
  Terms = {terms}
  Epochs = {1}
  Assets = {a1}
  RecipientIds = {r1}
  ActionIds = {action}
  Packets = {packet}
  Circuits = {c1, c2}
  Credentials <- MCCredentials
  CredentialSets <- MCNobodyToo
  DenySets <- MCAliceDenied
  RevokedSets <- MCNoDenial
  Statements <- MCMixedStatements
  Requests <- MCMixedRequests
  Word = 4
  Accounts = {holder}
  PayTokens = {xlm}
  RwaTokens = {bondtoken}
  OtherConsumers = {}
  TimeMax = 0
  MaxAttestationTtl = 0
  ValidUntils = {0}
INVARIANTS
  OneApprovalPerNullifier
PROPERTIES
  KeepsPromise
  StoppedGateApprovesNothing
  FrozenKeyIsFinal
