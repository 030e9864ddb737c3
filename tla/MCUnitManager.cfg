CONSTANTS
  Threads = {main, io}
  Main = main
  Io = io
  LogThread = logThread
  Size = 3
  MaxInterval = 2
SPECIFICATION FairSpec
INVARIANTS TypeOK OneConsumer LogIsKept NoneLogsIntoNothing
PROPERTIES HangsOnlyInLog
CHECK_DEADLOCK FALSE
