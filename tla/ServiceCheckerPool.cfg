CONSTANTS
  Callers = {c1}
  Ops <- AllButLog
  Stoppers = {p1}
  Workers = {w1, w2}
  Svcs = {s1, s2}
  Scheduled = {s1, s2}
  Verdicts = {ok, critical}
  Unknown = Unknown
  Aborted = Aborted
  NilSvc = NilSvc
  Disabled = FALSE
  ChecksCap = 1
  ActionCap = 1
  ControlCap = 1
SPECIFICATION Spec
SYMMETRY PoolSymmetry
CHECK_DEADLOCK FALSE
INVARIANTS TypeOK PassIsComplete OneCheckPerService StopIsQuiet AbortedNeverKept ChangesReported RepliesMatchWaiters
PROPERTIES StatesSettleAtStop PauseIsObserved KeepsPromise
