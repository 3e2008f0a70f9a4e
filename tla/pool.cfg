SPECIFICATION Spec
CONSTANTS
  Tasks = {t1, t2, t3}
  Workers = {w1, w2}
  Clients = {c1, c2}
  NoTask = NoTask
INVARIANTS
  NoLostWakeup
  StopWakesAll
  ExactlyOnePlace
  DropsOnlyLate
PROPERTIES
  ImplementsService
  ServesEveryTask
  StopReturns
