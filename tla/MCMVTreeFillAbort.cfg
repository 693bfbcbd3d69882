\* Only an aborted LeafFillSlotForKey transaction (spec 7: "never partially applies a Put") may fail.
CONSTANTS
  MaxFree = 0
  Keys <- MCKeys
  KeyHash <- MCKeyHash
  Values = {v1, v2}
  LEAF_KEYS = 2
  INNER_KEYS = 2
  Leaves <- MCLeaves3
  Nodes <- MCNodes5
  AbortSites = {"fill"}
  Null = Null
  NoValue = NoValue
SPECIFICATION Spec
INVARIANT
  LookupMatchesPool
