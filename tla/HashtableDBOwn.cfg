CONSTANTS
  Clients = {1, 2}
  Keys = {1, 2}
  FieldSeq <- MCFields
  KeysOf <- MCOwn
  Ops = {"Read", "Scan", "Update", "Insert", "Delete"}
  MaxCalls = 4
SPECIFICATION HTSpec
INVARIANT NoLeak
CHECK_DEADLOCK FALSE
