SPECIFICATION MCSpec
CONSTANTS
  Parts = {"tabs", "retry", "polling", "sessions", "rate", "sdk"}
  t1 = t1
  t2 = t2
  s1 = s1
  s2 = s2
  a = a
  b = b
  local = local
  shared = shared
  None = None
  Callers <- MCTabs
  Epochs = {1, 2}
  Original = 1
  Witnesses = {"deployed", "other"}
  Timeout = 1
  PollInterval = 1
  PollAttempts = 3
  MaxSequence = 2
  TimeMax = 4
  Null = Null
  Page <- MCPage
  Connections <- MCConnections
  Slots <- MCSlots
  Loopback = {local}
  Window = 2
  MaxPerIp = 2
  Answers = {"GREEN", "RED"}
  Ttl = 0
  MaxUsers = 2
  MaxTokens = 2
  ClockMax = 5
  Refused = Refused
  MaxU32 = 1
  MaxSafe = 3
  MaxI128 = 6
  Types = {0, 1}
  EpochValues = {1, 2, 5}
  AmountValues = {1, 3, 4, 5, 6, 7}
  Hashes = {0}
SYMMETRY MCSymmetry
CHECK_DEADLOCK FALSE
INVARIANTS
  ClientsTypeOK
  RetryPaysOnce
  UsedEpochsAreAccounted
  PendingIsFinal
  RepliesStayInSession
  RateHolds
  ArgumentsAreAsked
PROPERTIES
  CredentialIsCurrent
