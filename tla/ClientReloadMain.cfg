CONSTANTS
  Handlers = {h1, h2}
  Main = Main
  Tray = Tray
  Nobody = Nobody
  MaxServers = 3
  MaxCalls = 3
SPECIFICATION FairSpec
CHECK_DEADLOCK FALSE
INVARIANTS TypeOK FlagIsTrue QuietReload ExitHasCause
PROPERTIES ReloadsEnd
