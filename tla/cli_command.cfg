SPECIFICATION FairToolSpec
CONSTANTS
  MaxEvents = 1
  MaxSessions = 1
  MaxPolls = 1
  MaxInterrupts = 2
  CallsMayFail = TRUE
  ThreadStartMayFail = TRUE
  JoinMayTimeOut = FALSE
INVARIANTS
  ToolTypeOK
  BodyOverImage
  LeavesNothing
  OnlyTimersTick
  VerdictSeen
  BlamesRightly
PROPERTY
  CommandEnds
