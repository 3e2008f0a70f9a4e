SPECIFICATION Spec
CONSTANTS
  Clients = {c1}
  Workers = {w1}
  MaxInstances = 2
  MaxTasks = 1
  MaxDepth = 1
  Names = {n1}
  Topics = {"tick"}
  Extensions = {x1}
  HostOps = {"register_extension"}
CHECK_DEADLOCK FALSE
PROPERTIES
  HostCallsReturn
