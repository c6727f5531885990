SPECIFICATION Spec
CONSTANTS
  Texts <- MCTexts
  Letter <- MCLetter
  Digit <- MCDigit
  ValueOf <- MCValueOf
  MaxInt = 9
  SliceWord <- MCSliceWord
  UseWord <- MCUseWord
  AsWord <- MCAsWord
  BoolWords <- MCBoolWords
  NoTree = NoTree
INVARIANTS
  TokensInOrder
  CleanIffGrammatical
  TreeIsTheText
PROPERTIES
  Advances
  Termination
