CONSTANTS
  num_threads = 2
  record_count = 2
  operation_count = 2
  insert_start = 0
  Operations = {"READ", "UPDATE", "INSERT", "SCAN", "READMODIFYWRITE"}
  Statuses = {0}
  Chooser <- MCChooser
  Hash <- MCHash
SPECIFICATION SysFairSpec
INVARIANTS SysTypeOK CountExact CloseSafe PhaseCoherent
PROPERTIES BenchmarkSpec ClientsFinish
CHECK_DEADLOCK FALSE
