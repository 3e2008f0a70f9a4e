SPECIFICATION Spec
CONSTANTS
  Procs = {child}
  Scripts = {main}
  Entries = {main}
  Entry = main
  FileName <- OwnName
  Requires <- MCRequires
  Texts = {t1, t2}
  NoText = NoText
  NoMeta = NoMeta
  Free = Free
  Stale = Stale
  FlagSets <- NoFlags
  Failures = {}
  MaxEdits = 1
  Child = child
  Watched = main_ts
PROPERTY EveryChangeRun
CHECK_DEADLOCK FALSE
