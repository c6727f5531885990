SPECIFICATION Spec
CONSTANTS
  p1 = p1
  p2 = p2
  one = one
  two = two
  flawed = flawed
  malformed = malformed
  refused = refused
  NoFile = NoFile
  Torn = Torn
  Proc <- MCProc
  Body = {one, two, flawed, malformed, refused}
  Malformed = {malformed}
  Flawed = {flawed}
  Refused = {refused}
  IOErrors = TRUE
  Bare = FALSE
  MaxSaves = 3
  MaxLosses = 2
  MaxStamp = 6
SYMMETRY Symmetric
INVARIANTS
  TypeOK
  FileIsWhole
  AcknowledgedIsDurable
  NeverTwiceInARow
PROPERTY
  ImplementsLog
