SPECIFICATION RuntimeSpec
CONSTANTS
  Procs = {p1, p2}
  Scripts = {main, dep}
  Entries = {main, dep}
  FileName <- SharedName
  Requires <- MCRequires
  Texts = {t1, t2}
  NoText = NoText
  NoMeta = NoMeta
  Free = Free
  Stale = Stale
  FlagSets <- MCFlagSets
  Failures = {"io", "crash"}
  MaxEdits = 1
SYMMETRY Symmetry
INVARIANTS LockExclusive NoLeakedLock RunsWhatItRead
CHECK_DEADLOCK FALSE
