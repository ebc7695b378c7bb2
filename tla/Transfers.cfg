SPECIFICATION UnroutedSpec
CONSTANTS
  None = None
  alice = alice
  bob = bob
  issuer = issuer
  terms = terms
  action = action
  packet = packet
  Gates = {"gate_payment", "gate_rwa"}
  Principals = {deployer}
  Deployer = deployer
  Persons = {alice, bob}
  Issuers = {issuer}
  PolicyIds = {fund}
  Terms = {terms}
  Epochs = {1}
  Assets = {bond}
  RecipientIds = {r1}
  ActionIds = {action}
  Packets = {packet}
  Circuits = {c1}
  Credentials <- MCCredentials
  CredentialSets <- MCEverybody
  DenySets <- MCNoDenial
  RevokedSets <- MCBobRevoked
  Statements <- MCTransferStatements
  Requests <- MCTransferRequests
  Word = 8
  Accounts = {shop, other}
  PayTokens = {xlm}
  RwaTokens = {}
  OtherConsumers = {}
  TimeMax = 0
  MaxAttestationTtl = 0
  ValidUntils = {}
INVARIANTS
  TypeOK
  BooksBalance
  ApprovedAmountIsProvenAmount
