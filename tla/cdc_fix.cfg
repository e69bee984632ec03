SPECIFICATION Spec
CONSTANTS
  Subs = {1, 2}
  MaxEntries = 2
  MaxCount = 2
  MaxRest = 1
INVARIANTS
  TypeOK
  FixedStartsEveryNode
PROPERTY
  FixChangesNothingElse
