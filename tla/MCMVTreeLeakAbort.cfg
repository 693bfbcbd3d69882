\* Only the Put transactions that fill a slot may abort.  A leaf popped from
\* leaves_prealloc inside an aborted transaction is not pushed back.
CONSTANTS
  MaxFree = 0
  Keys <- MCKeys
  KeyHash <- MCKeyHash
  Values = {v1}
  LEAF_KEYS = 2
  INNER_KEYS = 2
  Leaves <- MCLeaves3
  Nodes <- MCNodes5
  AbortSites = {"fill"}
  Null = Null
  NoValue = NoValue
SPECIFICATION Spec
INVARIANT
  LeavesAccounted
