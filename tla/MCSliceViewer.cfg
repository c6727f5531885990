SPECIFICATION Spec
CONSTANTS
  fa = fa
  fb = fb
  fc = fc
  dir = dir
  Absent = Absent
  NoSet = NoSet
  NoName = NoName
  Order <- MCOrder
  Path <- MCPath
  File <- MCFile
  Siblings = {fa, fb}
  InOrder <- MCInOrder
  PathRank <- RankOf
  Invocations <- MCInvocations
  Texts <- MCTexts
  SlotRow <- MCSlotRow
  SliceOf <- MCSliceOf
  RowsOf <- MCRowsOf
  ImportsOf <- MCImportsOf
  LineOf <- MCLineOf
  Diagnostic <- MCDiagnostic
  Analysis <- MCAnalysis
  MaxSaves = 1
INVARIANTS
  CursorsFit
  ScreenIsTheDisk
  WrongDetailIsReported
  QueryAgreesWithThePanes
CHECK_DEADLOCK FALSE
