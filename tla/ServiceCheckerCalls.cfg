CONSTANTS
  Callers = {c1}
  Ops <- Busybody
  Stoppers = {p1, p2}
  Workers = {w1}
  Svcs = {s1}
  Scheduled = {s1}
  Verdicts = {ok}
  Unknown = Unknown
  Aborted = Aborted
  NilSvc = NilSvc
  Disabled = FALSE
  ChecksCap = 1
  ActionCap = 1
  ControlCap = 1
SPECIFICATION FairSpec
CHECK_DEADLOCK FALSE
PROPERTIES StopReturns CallsReturn EventsAreServed
