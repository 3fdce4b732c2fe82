CONSTANTS
  num_threads = 2
  record_count = 4
  operation_count = 4
  insert_start = 0
  Operations = {"READ", "UPDATE", "INSERT", "SCAN", "READMODIFYWRITE"}
  Statuses = {0, 1}
  Chooser <- MCChooser
  Hash <- MCHash
SPECIFICATION FairSpec
INVARIANTS PhasesSeparate LoadExact TransactionKeyLoaded AllTasksDone
PROPERTY Terminates
CHECK_DEADLOCK FALSE
