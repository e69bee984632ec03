SPECIFICATION Spec
CONSTANTS
  t1 = t1
  t2 = t2
  Threads = {t1, t2}
  ByteBits = 2
  Doc <- MCDoc
  Owners <- MCOwners
  Vectors <- MCVectors
  Raws <- MCRaws
  Volts <- MCVolts
  FirstBytes = {3}
  Frames <- MCFrames
INVARIANTS
  TypeOK
  OutputsKept
  OwnOutputsReadBack
PROPERTY
  OnlyThatBit
