CONSTANTS
  c1 = c1
  c2 = c2
  c3 = c3
  Callers = {c1, c2, c3}
  Ops <- AskAndSend
  Sender = Sender
  Nobody = Nobody
  Keys = {good, short}
  ShortKeys = {short}
  Settings = {1}
  DefaultRetries = 2
  QueueCap = 1
  HostMayFail = TRUE
SPECIFICATION FairSpec
CHECK_DEADLOCK FALSE
PROPERTIES GetDataReturns
