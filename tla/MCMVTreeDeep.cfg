\* Five keys, four leaves, seven nodes: leaf splits up to an inner-node
\* split of tree_top and a new level above it, then crash and Recover of
\* that tree, within MaxSteps operations.
CONSTANTS
  MaxFree = 0
  Keys <- MCKeysEmpty
  KeyHash <- MCKeyHashEmpty
  Values = {v1}
  LEAF_KEYS = 2
  INNER_KEYS = 2
  Leaves <- MCLeaves
  Nodes <- MCNodes
  AbortSites <- MCNoAborts
  Null = Null
  NoValue = NoValue
  MaxSteps = 11
SPECIFICATION DeepSpec
CONSTRAINT StepBound
INVARIANTS
  LookupMatchesPool
  ParentLinked
  Balanced
  SeparatorsBound
