CONSTANTS
  Files = {f1, f2}
  MayMiss = {f2}
  Handlers = {h1}
  Stopper = Stopper
  Loop = Loop
  Nobody = Nobody
  Tails = {t1, t2}
  MaxRetries = 1
  MaxRestarts = 1
  MaxCalls = 2
SPECIFICATION FairSpec
CHECK_DEADLOCK FALSE
PROPERTIES DeadRestarted
