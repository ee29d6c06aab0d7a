\* Two functions, one simplified by aipugsim, in a quantized or a float
\* engine; ASCII IR texts; stale files on disk; tools may fail.
CONSTANTS
  Funcs = {f1, f2}
  GsimFuncs = {f1}
  QuantModes = {TRUE, FALSE}
  DumpOn = TRUE
  Texts <- MCAsciiTexts
  ToolMayFail = TRUE
  MaxRuns = 2
  NoFile = NoFile
  NoExec = NoExec
SPECIFICATION Spec
INVARIANT TypeOK ExecutorLoadsPipelineIR IrTextRoundTrip
PROPERTY BuildSpec
\* The build ends: every function is failed or has made its runs.
CHECK_DEADLOCK FALSE
