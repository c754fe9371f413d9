CONSTANTS
  Actions = {timer, scan}
  Ticking = {timer}
  Scheduled = {scan}
  Custom = timer
  Callers = {c1}
  Watcher = Watcher
  Main = Main
  Nothing = Nothing
  Starts = 3
  ChanCap = 1
SPECIFICATION Spec
CHECK_DEADLOCK FALSE
INVARIANTS ListedTimersWork
