SPECIFICATION Spec
CONSTANTS
  v = v
  w = w
  Hole = Hole
  NoHash = NoHash
  Alphabet <- MCAlphabet
  Projections <- MCFewProjections
  MaxEdits = 2
  MaxTampers = 0
PROPERTY
  EveryChangeIsAppended
