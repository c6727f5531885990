SPECIFICATION Spec
CONSTANTS
  NoName = NoName
  NoReport = NoReport
  Order <- MCOrder
  Slices <- MCLetter
INVARIANT OneSentenceIsTrue
