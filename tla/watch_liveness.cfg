SPECIFICATION Spec
CONSTANTS
  Procs = {child}
  Scripts = {main}
  Entries = {main}
  Entry = main
  FileName <- OwnName
  Requires <- MCRequires
  Texts = {t1, t2}
  NoText = NoText
  NoMeta = NoMeta
  Free = Free
  Stale = Stale
  FlagSets <- NoFlags
  Failures = {"fork"}
  MaxEdits = 2
  Child = child
  Watched = main
INVARIANT SpawnUnblocked
PROPERTIES EveryChangeRun WatchStops
CHECK_DEADLOCK FALSE
