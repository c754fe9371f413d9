CONSTANTS
  Requests = {"r1", "r2"}
  Served <- MCServed
  AppCodes = {404, 502}
  Deletes = 1
  MaxRefills = 1
  Saves = {"s1", "s2"}
  Keep = 1
  MaxSecond = 1
  MaxCrashes = 1
  KeepBinaries = 2
  MaxDownloads = 4
  Checked <- MCPlaces
  MaxFiles = 2
  Instances <- MCInstances
  Queues <- MCQueues
  Finished = {1, 2}
  Stuck = {1}
  MaxPayload = 2
  MaxReloads = 1
  Sessions = {"x"}
  Hooks = {"h1"}
  Callers = {"w1", "w2", "w3"}
  KeyOf <- MCKeyOf
  MaxCools = 2
  MaxLoads = 2
  MaxJobs = 3
  Buffer = 1
  Viewers = {"p1", "p2"}
  MaxRuns = 3
SPECIFICATION Spec
INVARIANTS TypeOK AnswersAreTrue DoneOnce WholeCopy ReportsAreTrue
PROPERTIES NoLossAfterReload
VIEW MCView
CHECK_DEADLOCK FALSE
