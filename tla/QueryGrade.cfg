\* Every query over the signals the special cases look at.
SPECIFICATION GradeSpec
CONSTANTS
  Alphabet <- MCAlphabet
  MaxNames = 4
PROPERTY
  GradeMovesWithItsSignals
