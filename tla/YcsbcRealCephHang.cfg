CONSTANTS
  num_threads = 1
  record_count = 1
  operation_count = 1
  insert_start = 0
  Operations = {"UPDATE"}
  Statuses = {0}
  Chooser <- MCChooser
  Hash <- MCHash
SPECIFICATION SysFairSpec
PROPERTY ReportReached
CHECK_DEADLOCK FALSE
