SPECIFICATION ToolSpec
CONSTANTS
  MaxEvents = 1
  MaxSessions = 1
  MaxPolls = 1
  MaxInterrupts = 0
  CallsMayFail = FALSE
  ThreadStartMayFail = FALSE
  JoinMayTimeOut = FALSE
INVARIANT
  CnDiagAnswers
