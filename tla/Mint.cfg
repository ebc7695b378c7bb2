SPECIFICATION DeployedSpec
CONSTANTS
  None = None
  alice = alice
  bob = bob
  issuer = issuer
  terms = terms
  action = action
  packet = packet
  Gates = {"identity_verifier"}
  Principals = {deployer}
  Deployer = deployer
  Persons = {alice}
  Issuers = {issuer}
  PolicyIds = {fund}
  Terms = {terms}
  Epochs = {1, 2}
  Assets = {bond}
  RecipientIds = {r1}
  ActionIds = {action}
  Packets = {packet}
  Circuits = {c1}
  Credentials <- MCCredentials
  CredentialSets <- MCEverybody
  DenySets <- MCNoDenial
  RevokedSets <- MCNoDenial
  Statements <- MCMintStatements
  Requests <- MCMintRequests
  Word = 8
  Accounts = {holder, other}
  PayTokens = {}
  RwaTokens = {bondtoken}
  OtherConsumers = {desk}
  TimeMax = 3
  MaxAttestationTtl = 2
  ValidUntils = {0, 1, 3}
INVARIANTS
  IdentityIsBacked
  MintedAtMostOnce
PROPERTIES
  ExpiredAuthorizationStays
