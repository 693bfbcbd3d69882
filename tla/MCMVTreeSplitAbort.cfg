\* Only an aborted LeafSplitFull transaction (spec 7: volatile state is not mutated on failure) may fail.
CONSTANTS
  MaxFree = 0
  Keys <- MCKeys
  KeyHash <- MCKeyHash
  Values = {v1, v2}
  LEAF_KEYS = 2
  INNER_KEYS = 2
  Leaves <- MCLeaves3
  Nodes <- MCNodes5
  AbortSites = {"split"}
  Null = Null
  NoValue = NoValue
SPECIFICATION Spec
PROPERTY
  KVRefinement
