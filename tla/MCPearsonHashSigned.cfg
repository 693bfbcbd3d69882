\* Keys with bytes of 0x80 and above, on a signed-char ABI.
CONSTANTS
  Bytes <- MCHighBytes
  MaxLen = 2
  CharIsSigned = TRUE
SPECIFICATION Spec
INVARIANT MatchesReference
\* Hashing one key is a finite computation: it stops once the hash is known.
CHECK_DEADLOCK FALSE
