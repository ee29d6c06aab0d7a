\* One float function whose IR text holds a non-ASCII character.
CONSTANTS
  Funcs = {f1}
  GsimFuncs = {}
  QuantModes = {FALSE}
  DumpOn = FALSE
  Texts <- MCNonAsciiTexts
  ToolMayFail = FALSE
  MaxRuns = 1
  NoFile = NoFile
  NoExec = NoExec
SPECIFICATION Spec
INVARIANT IrTextRoundTrip
CHECK_DEADLOCK FALSE
