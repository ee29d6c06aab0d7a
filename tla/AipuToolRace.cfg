\* Two compilation tasks in one process, each calling a tool once in its
\* own work directory; every tool can be executed.
CONSTANTS
  Threads = {t1, t2}
  Dirs = {d1, d2}
  InitCwd = d0
  NoDir = NoDir
  RetCodes <- MCRetCodes
  LogLines <- MCLogLines
  MaxLogLen = 1
  MaxCalls = 1
  RunMayRaise = FALSE
SPECIFICATION Spec
INVARIANT ToolRunsInWorkDir
CHECK_DEADLOCK FALSE
