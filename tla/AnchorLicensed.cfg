SPECIFICATION OperatorSpec
CONSTANTS
  Parts = {"anchor"}
  n1 = n1
  n2 = n2
  gate = gate
  token = token
  verifier = verifier
  u1 = u1
  u2 = u2
  u3 = u3
  u4 = u4
  u5 = u5
  Workers = {w1}
  Commands <- MCCommands
  Names <- MCNames
  Blank = Blank
  Lists <- MCLists
  Roster <- MCRoster
  AltNames = {}
  SampleSize = 1
  MaxAge = 0
  MaxTime = 1
  MaxFaults = 1
  Missing = Missing
  Cut = Cut
  Events <- MCEvents
  MaxEvents = 3
  RawFiles <- MCRawFiles
  Contracts <- MCContracts
  NoValue = NoValue
  Clients = {"testanchor", "licensed", "browser"}
  Configs = {"missing", "placeholder", "filled"}
  MaxRuns = 2
  NoAnswer = NoAnswer
  Programs = {"disclosure", "vault", "web_packet"}
  InputFiles = {i1, i2}
  MaxPayments = 2
  MaxKeys = 3
  NoFile = NoFile
  MaxVersion = 2
  NoVersions = NoVersions
  Members = {u1, u2, u3, u4, u5}
  SanctionsKey <- MCSanctionsKey
  RevocationKey <- MCRevocationKey
  KeyMax = 7
  CredentialDepth = 2
  ExclusionDepth = 3
  TreeInputs <- MCTreeInputs
  NoIssuance = NoIssuance
CHECK_DEADLOCK FALSE
INVARIANT
  LicensedEvidencePasses
