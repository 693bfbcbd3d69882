\* Only an aborted Remove transaction (spec 7: failures are caught and change nothing) may fail.
CONSTANTS
  MaxFree = 0
  Keys <- MCKeys
  KeyHash <- MCKeyHash
  Values = {v1, v2}
  LEAF_KEYS = 2
  INNER_KEYS = 2
  Leaves <- MCLeaves3
  Nodes <- MCNodes5
  AbortSites = {"remove"}
  Null = Null
  NoValue = NoValue
SPECIFICATION Spec
INVARIANT
  LookupMatchesPool
