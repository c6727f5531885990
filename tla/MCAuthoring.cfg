SPECIFICATION Spec
CONSTANTS
  NoName = NoName
  NoReport = NoReport
  Order <- MCOrder
  Slices <- MCSlices
INVARIANTS
  CompleteMeansSound
  AlarmsAreReal
  GapsMirrorTheWalk
  KilledMeansExecuted
PROPERTIES
  PasteFillsWhereItFits
  Converges
