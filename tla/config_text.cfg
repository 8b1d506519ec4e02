\* Every value a variable may have, and every text and document it may be given.
SPECIFICATION Spec
CONSTANTS
  Types <- MCTypes
  IntSize = 4
  LongSize = 8
  One = 6
  Loads <- MCLoads
  Quoted <- MCQuoted
  Name <- MCName
  Values <- MCValues
  Texts <- MCTexts
  Roots <- MCRoots
  Height <- MCHeight
  Lower <- MCLower
INVARIANTS RoundTrip ReadsTheNumber
PROPERTY LoadTakesLast
