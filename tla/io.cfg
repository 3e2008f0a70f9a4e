SPECIFICATION IoSpec
CONSTANTS
  Reads = {r1, r2}
  Writes = {w1}
  Files = {f1}
  FileSize <- MCFileSize
  Addrs = {a1, a2}
  Null = Null
  Lengths = {1}
  Offsets = {1}
  MaxBytes = 1
  Paths = {p}
  Regions <- MCRegions
  FileLen = 2
  Tasks = {t1, t2}
  Getters = {g}
  Invalidators = {i}
  Capacity = 2
  MaxVersion = 1
CHECK_DEADLOCK FALSE
INVARIANTS
  OpsAccounted
  PositionTracksStream
  CountsAccepted
  CacheAccounted
  KeysReleased
PROPERTIES
  ImplementsFreshCache
  OpsComplete
