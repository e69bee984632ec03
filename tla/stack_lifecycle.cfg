SPECIFICATION FairSpec
CONSTANTS
  MaxEvents = 2
  MaxSessions = 2
  MaxPolls = 2
  MaxInterrupts = 2
  CallsMayFail = TRUE
  ThreadStartMayFail = TRUE
  JoinMayTimeOut = FALSE
INVARIANTS
  TypeOK
  SupervisionDiscipline
  StartedMeansUp
  WaitTrueIsFresh
  FlagsTellTheMn
  SupervisedUntilDeath
PROPERTIES
  GivenUpMeansGone
  LifecycleSpec
  DeadKernelEndsSupervision
  CallsEnd
