SPECIFICATION MCSpec
CONSTANTS
  v = v
  w = w
  Hole = Hole
  NoHash = NoHash
  Alphabet <- MCAlphabet
  Projections <- MCProjections
  MaxEdits = 3
  MaxTampers = 2
INVARIANTS
  TypeOK
  WrittenChainIsHistory
  EditsKeepTheChainReadable
  AnswerIsClean
  CleanMeansHistory
PROPERTIES
  OnlyAppends
  AppendsTheExpressible
