SPECIFICATION WalkSpec
CONSTANTS
  fa = fa
  fb = fb
  fc = fc
  ax = ax
  ay = ay
  cell = cell
  other = other
  here = here
  there = there
  Absent = Absent
  Unreadable = Unreadable
  NoKey = NoKey
  NoName = NoName
  NoReport = NoReport
  Order <- MCOrder
  File <- MCFile
  Key <- MCFile
  FileOf <- MCFileOf
  CanonOf <- MCFileOf
  Alias <- MCAlias
  Root = fa
  Sources <- MCSources
  MaxSaves = 0
  Worlds <- MCWorlds
INVARIANTS
  CleanIffWhole
  UnusedCellsAreUnused
  UnusedImportsCanGo
  ParseErrorsReachTheExitCode
CHECK_DEADLOCK FALSE
