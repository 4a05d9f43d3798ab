SPECIFICATION FairSpec
CONSTANTS
  Letter <- MCLetter
  Words <- MCWords
  MaxPattern = 3
  MaxPatterns = 3
  Texts <- MCTexts
INVARIANTS CurrentLongest FindRight
PROPERTIES SearchEnds
