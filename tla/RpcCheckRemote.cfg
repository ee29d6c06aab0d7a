\* One call of check_remote, with every environment and argument.
CONSTANTS
  Keys = {k1, k2}
  Hosts = {h1}
  Ports = {p1}
  EnvPriorities = {5}
  None = None
  MaxCalls = 1
SPECIFICATION Spec
INVARIANT CheckRemoteAnswers
CHECK_DEADLOCK FALSE
