SPECIFICATION Spec
CONSTANTS
  MaxEvents = 1
  MaxSessions = 2
  MaxPolls = 1
  MaxInterrupts = 0
  CallsMayFail = FALSE
  ThreadStartMayFail = FALSE
  JoinMayTimeOut = FALSE
INVARIANTS
  WaitNoticesDeath
