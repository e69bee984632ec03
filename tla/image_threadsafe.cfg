SPECIFICATION Spec
CONSTANTS
  c1 = c1
  c2 = c2
  Callers <- MCBothCallers
  InSize = 2
  OutSize = 1
  Byte = {0, 1}
  Zero = 0
  Windows <- MCTwoWindows
  HeartbeatModulus = 2
  NoOne = NoOne
  Sync = Sync
  Disciplined = FALSE
INVARIANT
  ThreadSafeAccess
