SPECIFICATION Spec
CONSTANTS
  ToolCalls = {h1}
  Native = FALSE
INVARIANT StoppedIsTerminated
CHECK_DEADLOCK FALSE
