SPECIFICATION SafeSpec
CONSTANTS
  Clients = {c1}
  Workers = {w1}
  MaxInstances = 2
  MaxTasks = 1
  MaxDepth = 2
  Names = {n1}
  Topics = {"tick"}
  Extensions = {x1}
  HostOps = {"subscribe_event", "unsubscribe_event", "emit_event", "schedule_async", "register_extension"}
CHECK_DEADLOCK FALSE
INVARIANTS
  SoleClientSafe
