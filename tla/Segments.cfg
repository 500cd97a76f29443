SPECIFICATION Spec
CONSTANTS
  Word = 64
  Lengths <- Up53
  Sizes <- Up10
INVARIANTS TypeOK Prefix HeaderFits
PROPERTIES NoByteTwice
CHECK_DEADLOCK FALSE
