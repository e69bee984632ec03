SPECIFICATION Spec
CONSTANTS
  Dirs = {"linux_x86_64", "linux_armhf", "windows_amd64", "linux_armv7l"}
  Partial = {"linux_armhf"}
  MaxRuns = 2
  MaxVersions = 2
  MaxTargets = 2
INVARIANTS
  TypeOK
  BinariesKept
  NoOtherTagged
  ExitZeroDelivers
  InstalledLoads
