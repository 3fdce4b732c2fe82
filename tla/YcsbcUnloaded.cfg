CONSTANTS
  num_threads = 2
  record_count = 3
  operation_count = 2
  insert_start = 0
  Operations = {"READ"}
  Statuses = {0}
  Chooser <- MCChooser
  Hash <- MCOrdered
SPECIFICATION Spec
INVARIANT TransactionKeyLoaded
CHECK_DEADLOCK FALSE
