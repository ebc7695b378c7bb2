SPECIFICATION MCSpec
CONSTANTS
  Parts = {"rules", "cutover"}
  None = None
  issuer = issuer
  terms = terms
  action = action
  c1 = c1
  bond = bond
  Council = council
  Gates = {"gate_payment"}
  Principals = {deployer, council}
  Deployer = deployer
  Persons = {}
  Issuers = {issuer}
  PolicyIds = {action}
  Terms = {terms}
  Epochs = {1}
  Assets = {bond}
  RecipientIds = {}
  ActionIds = {action}
  Packets = {packet}
  Circuits = {c1, c2}
  Credentials = {}
  CredentialSets = {{}}
  DenySets = {{}}
  RevokedSets = {{}}
  Statements = {}
  Requests = {}
  Word = 2
  Accounts = {shop}
  PayTokens = {xlm}
  RwaTokens = {}
  OtherConsumers = {}
  TimeMax = 0
  MaxAttestationTtl = 0
  ValidUntils = {}
  NoConfig = NoConfig
  a = a
  b = b
  c = c
  Addresses = {a, b}
  Calls <- MCCalls
  EmergencyCalls <- MCEmergencies
  Configs <- MCConfigs
  U32Max = 4
INVARIANTS
  SignersCanReachThresholds
  ProposalsAreExact
PROPERTIES
  RulesChangeByProposal
  OnlySafetyActsFast
  GovernedByProposal
CHECK_DEADLOCK FALSE
