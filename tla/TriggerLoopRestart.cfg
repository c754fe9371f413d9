CONSTANTS
  Actions = {timer, scan}
  Ticking = {timer}
  Scheduled = {scan}
  Custom = timer
  Callers = {c1}
  Watcher = Watcher
  Main = Main
  Nothing = Nothing
  Starts = 3
  ChanCap = 1
SPECIFICATION FairSpec
CHECK_DEADLOCK FALSE
INVARIANTS TypeOK OneAtATime StopIsComplete CrashHasCause
PROPERTIES TriggersRun RestartEnds
