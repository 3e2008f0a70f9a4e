SPECIFICATION SafeSpec
CONSTANTS
  Procs = {child, other}
  Scripts = {main}
  Entries = {main}
  Entry = main
  FileName <- OwnName
  Requires <- MCRequires
  Texts = {t1}
  NoText = NoText
  NoMeta = NoMeta
  Free = Free
  Stale = Stale
  FlagSets <- SomeFlags
  Failures = {"io", "crash", "fork"}
  MaxEdits = 1
  Child = child
  Watched = main
INVARIANTS NoOrphan
CHECK_DEADLOCK FALSE
