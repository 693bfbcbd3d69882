\* One call of MVTree::Free from any state the engine reaches with two
\* leaves and failure-free transactions: Put a key, then Free.
CONSTANTS
  MaxFree = 1
  Keys <- MCKeys
  KeyHash <- MCKeyHash
  Values = {v1}
  LEAF_KEYS = 2
  INNER_KEYS = 2
  Leaves <- MCLeaves2
  Nodes <- MCNodes5
  AbortSites <- MCNoAborts
  Null = Null
  NoValue = NoValue
SPECIFICATION Spec
INVARIANT
  FreeReleasesBlocks
\* After Free returns nothing can reopen the pool: the behaviour may stop.
CHECK_DEADLOCK FALSE
