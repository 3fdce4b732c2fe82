CONSTANTS
  Clients = {1, 2}
  Blocks <- MCBlocks
  Keys <- MCKeys
  SyncFails = FALSE
  MaxCalls = 3
  MaxKills = 1
  MaxLosses = 1
SPECIFICATION CSpec
INVARIANTS Durable ReadWhole Visible
CHECK_DEADLOCK FALSE
