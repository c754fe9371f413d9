CONSTANTS
  c1 = c1
  c2 = c2
  c3 = c3
  Callers = {c1, c2, c3}
  Ops <- Mixed
  Sender = Sender
  Nobody = Nobody
  Keys = {good, short}
  ShortKeys = {short}
  Settings = {0}
  DefaultRetries = 1
  QueueCap = 1
  HostMayFail = TRUE
SPECIFICATION FairSpec
CHECK_DEADLOCK FALSE
INVARIANTS TypeOK KeyVerdict OneRequestPerAsk
PROPERTIES KeepsPromise CallsReturn
