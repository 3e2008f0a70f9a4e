SPECIFICATION Spec
CONSTANTS
  Clients = {c1}
  Workers = {w1}
  MaxInstances = 1
  MaxTasks = 2
  MaxDepth = 2
  Names = {n1}
  Topics = {"tick"}
  Extensions = {}
  HostOps = {"subscribe_event", "emit_event", "schedule_async"}
CHECK_DEADLOCK FALSE
PROPERTIES
  HostCallsReturn
  TasksComplete
