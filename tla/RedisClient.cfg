CONSTANTS
  SDS_MAX_PREALLOC = 5
  MaxText = 3
  Alphabet <- MCAlphabet
  MaxDepth = 2
  Discard = 10
  IntRange = 4
  LongRange = 64
  Threads = {1}
  Apps = {"db", "api"}
  Slaves = TRUE
  Flavours <- MCFlavours
  Outcomes = {"ok", "nosocket", "unreach", "refused", "timeout", "sockerr", "fcntl", "unbound", "nosource", "nodelay"}
  ResolveFails = {"connect", "reconnect"}
  MaxAddresses = 2
  REDIS_CONNECT_RETRIES = 2
  ReadShapes = {"hmget"}
  Shapes = {"nested"}
  Memory = {2, 100}
  Faults = {"eof", "reset", "garbage", "deep", "huge", "error", "append"}
  MaxCmds = 2
  MaxReconnects = 1
SPECIFICATION MCSpec
INVARIANTS StringExact TextReadBack CommandSent OwnReply ReaderExact ConnectOutcome
PROPERTIES DescriptorsOwned ErrorSticks CallReturns
CHECK_DEADLOCK FALSE
