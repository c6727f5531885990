SPECIFICATION Spec
CONSTANTS
  p1 = p1
  p2 = p2
  one = one
  two = two
  flawed = flawed
  malformed = malformed
  refused = refused
  NoFile = NoFile
  Torn = Torn
  Proc <- MCProc
  Body = {one, two}
  Malformed = {}
  Flawed = {}
  Refused = {}
  IOErrors = FALSE
  Bare = TRUE
  MaxSaves = 1
  MaxLosses = 0
  MaxStamp = 3
INVARIANT
  AppendIsReported
