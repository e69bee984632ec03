SPECIFICATION Spec
CONSTANTS
  MaxEvents = 1
  MaxSessions = 2
  MaxPolls = 1
  MaxInterrupts = 0
  CallsMayFail = TRUE
  ThreadStartMayFail = FALSE
  JoinMayTimeOut = FALSE
INVARIANTS
  StoppedMeansDown
