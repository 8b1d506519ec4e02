\* The pattern parser on every short pattern, and on the standard one.
SPECIFICATION FairSpec
CONSTANTS
  Letter <- MCLetter
  Patterns <- MCPatterns
INVARIANTS Lossless
PROPERTY ParseEnds
CHECK_DEADLOCK FALSE
