\* The empty key with two others: Put "", "ab", "ac" splits the first leaf,
\* Remove "ab" leaves "" alone in it, and a crash and Recover follow.
CONSTANTS
  MaxFree = 0
  Keys <- MCKeysEmpty
  KeyHash <- MCKeyHashEmpty
  Values = {v1}
  LEAF_KEYS = 2
  INNER_KEYS = 2
  Leaves <- MCLeaves3
  Nodes <- MCNodes5
  AbortSites <- MCNoAborts
  Null = Null
  NoValue = NoValue
INIT Init
NEXT Next
INVARIANT
  InnerInvariants
