CONSTANTS
  DICT_HT_INITIAL_SIZE = 1
  Hash <- MCHash
  NameLists <- MCNameLists
  PatternNames = {"p"}
  Kinds = {"plain", "subscribe", "unsubscribe", "monitor", "psubscribe", "punsubscribe"}
  MaxCmds = 2
  MaxMessages = 1
  Faults = {"eof", "io", "garbage", "refused", "full"}
  Careful = TRUE
  CloseInConnect = FALSE
SPECIFICATION AsyncSpec
INVARIANTS NoCrash RightCallback CallbacksOnce DisconnectStatus
PROPERTIES TeardownStable DisconnectHappens EveryCommandAnswered
CHECK_DEADLOCK FALSE
