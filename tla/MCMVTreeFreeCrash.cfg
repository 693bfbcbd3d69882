\* A crash between two of Free's deletes leaves kv_root->head naming a deleted leaf.
CONSTANTS
  MaxFree = 1
  Keys <- MCKeys
  KeyHash <- MCKeyHash
  Values = {v1}
  LEAF_KEYS = 2
  INNER_KEYS = 2
  Leaves <- MCLeaves3
  Nodes <- MCNodes5
  AbortSites <- MCNoAborts
  Null = Null
  NoValue = NoValue
SPECIFICATION Spec
INVARIANT
  FreeAllOrNothing
CHECK_DEADLOCK FALSE
