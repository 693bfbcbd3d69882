\* Every 8-bit size and every int8_t limit, negative ones included.
CONSTANTS
  Width = 8
  Sizes <- UInt32Range
  Limits <- Int32Range
SPECIFICATION Spec
INVARIANT
  MatchesContract
CHECK_DEADLOCK FALSE
