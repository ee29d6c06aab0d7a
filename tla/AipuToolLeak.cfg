\* One compilation task; subprocess.run raises when the tool cannot be run.
CONSTANTS
  Threads = {t1}
  Dirs = {d1, d2}
  InitCwd = d0
  NoDir = NoDir
  RetCodes <- MCRetCodes
  LogLines <- MCLogLines
  MaxLogLen = 1
  MaxCalls = 2
  RunMayRaise = TRUE
SPECIFICATION Spec
INVARIANT CwdRestoredWhenIdle
CHECK_DEADLOCK FALSE
