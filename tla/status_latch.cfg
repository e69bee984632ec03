SPECIFICATION Spec
CONSTANTS
  Readers = {r1}
  HeartbeatModulus = 2
  MaxCycles = 2
  Events = {"off", "preop", "op", "cs_op", "cs_other", "error"}
INVARIANTS
  TypeOK
  AliveCountsCycles
  QuietSnapshotAgrees
