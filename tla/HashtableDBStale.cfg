CONSTANTS
  Clients = {1, 2}
  Keys = {1}
  FieldSeq <- MCOneField
  KeysOf <- MCShared
  Ops = {"Read", "Update"}
  MaxCalls = 3
SPECIFICATION HTSpec
INVARIANT ReadIntact
CHECK_DEADLOCK FALSE
