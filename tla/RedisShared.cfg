CONSTANTS
  SDS_MAX_PREALLOC = 5
  MaxText = 3
  Alphabet <- MCAlphabet
  MaxDepth = 2
  Discard = 10
  IntRange = 4
  LongRange = 64
  Threads = {1, 2}
  Apps = {"db"}
  Slaves = TRUE
  Flavours <- MCFlavours
  Outcomes = {"ok", "unreach", "refused", "timeout", "sockerr", "fcntl", "unbound", "nosource", "nodelay"}
  ResolveFails = {"connect"}
  MaxAddresses = 2
  REDIS_CONNECT_RETRIES = 2
  ReadShapes = {"hmget"}
  Shapes = {"nested"}
  Memory = {100}
  Faults = {}
  MaxCmds = 2
  MaxReconnects = 1
SPECIFICATION MCSpec
INVARIANT OwnReply
CHECK_DEADLOCK FALSE
