CONSTANTS
  Clients = {1, 2, 3}
  Keys = {1}
  FieldSeq <- MCFields
  KeysOf <- MCShared
  Ops = {"Read", "Update", "Insert"}
  MaxCalls = 3
SPECIFICATION HTSpec
INVARIANTS OwnedOnce WritesReachRecord
PROPERTY RecordKept
CHECK_DEADLOCK FALSE
