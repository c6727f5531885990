SPECIFICATION MCSpec
CONSTANTS
  a = a
  b = b
  c = c
  x = x
  y = y
  aRel = aRel
  Absent = Absent
  Unreadable = Unreadable
  NoKey = NoKey
  File <- MCFile
  Key <- MCKey
  FileOf <- MCFileOf
  CanonOf <- MCCanonOf
  Alias <- MCAlias
  Root = a
  Sources <- MCSources
  MaxSaves = 2
INVARIANTS
  TypeOK
  LoadedOnce
  ResolvedAcyclic
  CyclesAreReal
  MissingAliasIsReported
  LoadsTheReachable
  CanonicalFilesLoadedOnce
PROPERTY
  Termination
CHECK_DEADLOCK FALSE
