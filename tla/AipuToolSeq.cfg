\* One compilation task making two tool calls; subprocess.run may raise.
CONSTANTS
  Threads = {t1}
  Dirs = {d1, d2}
  InitCwd = d0
  NoDir = NoDir
  RetCodes <- MCRetCodes
  LogLines <- MCLogLines
  MaxLogLen = 2
  MaxCalls = 2
  RunMayRaise = TRUE
SPECIFICATION Spec
INVARIANT TypeOK OutcomeMatchesTool ToolRunsInWorkDir
\* Compilation ends after its calls: a thread that made MaxCalls stops.
CHECK_DEADLOCK FALSE
