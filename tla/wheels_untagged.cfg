SPECIFICATION Spec
CONSTANTS
  Dirs = {"linux_x86_64", "linux_armv7l"}
  Partial = {}
  MaxRuns = 1
  MaxVersions = 1
  MaxTargets = 1
INVARIANT
  OwnBinariesOnly
