SPECIFICATION Spec
CONSTANTS
  Words <- SomeWords
  Upper <- SomeUpper
  Lower <- SomeLower
  Alphabets <- CodeAlphabets
  MaxLen = 6
INVARIANTS
  KindAgrees
  TargetAgrees
\* Texts end at their longest length.
CHECK_DEADLOCK FALSE
