SPECIFICATION Spec
CONSTANTS
  N = 6
  Texts <- MCTexts
  MaxRounds = 2
INVARIANTS
  DirectivesInv
PROPERTIES
  MeansWhatItSays
  ParsingEnds
CHECK_DEADLOCK FALSE
