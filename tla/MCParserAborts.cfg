SPECIFICATION Spec
CONSTANTS
  Texts <- MCEscapes
  Letter <- MCLetter
  Digit <- MCDigit
  ValueOf <- MCValueOf
  MaxInt = 9
  SliceWord <- MCSliceWord
  UseWord <- MCUseWord
  AsWord <- MCAsWord
  BoolWords <- MCBoolWords
  NoTree = NoTree
INVARIANT
  NeverAborts
