SPECIFICATION ProgressSpec
CONSTANTS
  Parts = {"busy", "visitor"}
  t1 = t1
  t2 = t2
  s1 = s1
  s2 = s2
  a = a
  b = b
  local = local
  shared = shared
  None = None
  Callers = {t1}
  Epochs = {1, 2}
  Original = 1
  Witnesses = {"deployed"}
  Timeout = 0
  PollInterval = 0
  PollAttempts = 1
  MaxSequence = 1
  TimeMax = 0
  Null = Null
  Page <- MCPage
  Connections <- MCVisitor
  Slots <- MCSlots
  Loopback = {local}
  Window = 2
  MaxPerIp = 1
  Answers = {"PENDING", "GREEN"}
  Ttl = 1
  MaxUsers = 2
  MaxTokens = 2
  ClockMax = 1
  Refused = Refused
  MaxU32 = 1
  MaxSafe = 3
  MaxI128 = 6
  Types = {0, 1}
  EpochValues = {1, 2, 5}
  AmountValues = {1, 3, 4, 5, 6, 7}
  Hashes = {0}
CHECK_DEADLOCK FALSE
PROPERTIES
  ApprovalIsShown
  StartEnds
  BusyEnds
