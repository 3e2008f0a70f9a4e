SPECIFICATION SafeSpec
CONSTANTS
  Clients = {c1, c2}
  Workers = {w1}
  MaxInstances = 2
  MaxTasks = 2
  MaxDepth = 2
  Names = {n1}
  Topics = {"tick"}
  Extensions = {x1}
  HostOps = {"register_call", "unregister_call", "schedule_async"}
SYMMETRY Symmetry
CHECK_DEADLOCK FALSE
INVARIANTS
  CallTableConsistent
  PendingAccurate
  TaskRecordedOnce
  TasksKeepPlugin
