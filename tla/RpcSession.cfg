\* Two device keys, one tracker host and port, priorities "0" and "5" in the
\* environment; two calls of check_remote.
CONSTANTS
  Keys = {k1, k2}
  Hosts = {h1}
  Ports = {p1}
  EnvPriorities = {0, 5}
  None = None
  MaxCalls = 2
SPECIFICATION FairSpec
INVARIANT TrueOnlyForAllowedSession
PROPERTY CheckRemoteReturns
\* The process stops calling check_remote after MaxCalls calls.
CHECK_DEADLOCK FALSE
