CONSTANTS
  c1 = c1
  c2 = c2
  c3 = c3
  Callers = {c1, c2, c3}
  Ops <- AskAndSend
  Sender = Sender
  Nobody = Nobody
  Keys = {good, fresh, short}
  ShortKeys = {short}
  Settings = {0, 1}
  DefaultRetries = 2
  QueueCap = 1
  HostMayFail = FALSE
SPECIFICATION Spec
CHECK_DEADLOCK FALSE
INVARIANTS RetriesSendPayload
