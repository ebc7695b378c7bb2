SPECIFICATION MCSpec
CONSTANTS
  Parts = {"publishers", "preflight"}
  None = None
  alice = alice
  bob = bob
  issuer = issuer
  terms = terms
  asset = asset
  recipient = recipient
  action = action
  packet = packet
  Gates = {}
  Principals = {deployer}
  Deployer = deployer
  Persons = {alice, bob}
  Issuers = {issuer}
  PolicyIds = {p1}
  Terms = {terms}
  Epochs = {1}
  Assets = {asset}
  RecipientIds = {recipient}
  ActionIds = {action}
  Packets = {packet}
  Circuits = {c1}
  Credentials <- MCCredentials
  CredentialSets <- MCCredentialSets
  DenySets <- MCDenySets
  RevokedSets <- MCRevokedSets
  Statements <- MCStatements
  Word = 2
  IssuerId = issuer
  Inputs <- MCInputs
  Executors = {publisher}
  Checkers = {checker}
  NoFile = NoFile
  Bundles <- MCBundles
INVARIANTS
  ExecutedReportIsInForce
  ReportedRosterDecides
  GoWasInForce
