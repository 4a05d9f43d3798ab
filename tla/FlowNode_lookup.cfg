SPECIFICATION FairSpec
CONSTANTS
  NULL = NULL
  BlockSize = 12
  Align = 4
  Letter <- MCLetters
  Depth = 3
  NodeSize = 5
  TextLens = {2, 3, 4, 14}
  MaxElse = 2
INVARIANTS AreasApart LookupRight
PROPERTIES LookupEnds
