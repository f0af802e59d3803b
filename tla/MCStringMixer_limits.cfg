CONSTANTS
  Inputs <- ShortAndLong
  Letters = 3
  Radix = 2
  KeyLength = 6
  Resolution = 3
SPECIFICATION Spec
INVARIANTS
  DecodedIsOriginal
  FittingValuesDecode
