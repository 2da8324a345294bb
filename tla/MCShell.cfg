CONSTANTS
  NPROC = 7
  NPipe = 3
  MAXARGS = 3
  Sessions <- AllSessions
  Command <- AllCommands
  parse <- parsecmd
  Wiring <- WiringOf
SPECIFICATION ShellSpec
INVARIANTS ParseCorrect Wired NobodyHangs ForegroundDone
CHECK_DEADLOCK FALSE
