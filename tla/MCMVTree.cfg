\* Failure-free transactions, with closes (crashes) and reopens at any point.
\* Four keys with colliding hashes, two slots per leaf: leaf splits, a new
\* tree_top, inserts into it and Recover of up to three leaves.  Four keys
\* never fill a fourth leaf, so three leaves and five nodes are the whole
\* reachable state space (MCMVTreeDeep.cfg reaches inner-node splits).
\* One call of MVTree::Free from any of those states, with a crash
\* possible between any two of its deletes.  After Free returns and the
\* process closes, the pool's root is gone and no constructor can reopen
\* it: the behaviour stops there, so deadlock is not checked.
CONSTANTS
  MaxFree = 1
  Keys <- MCKeys
  KeyHash <- MCKeyHash
  Values = {v1, v2}
  LEAF_KEYS = 2
  INNER_KEYS = 2
  Leaves <- MCLeaves3
  Nodes <- MCNodes5
  AbortSites <- MCNoAborts
  Null = Null
  NoValue = NoValue
SPECIFICATION Spec
SYMMETRY MCValueSymmetry
INVARIANTS
  TypeOK
  
  KeysStoredOnce
  InnerInvariants
  ParentLinked
  SeparatorsBound
  MirrorMatchesLeaf
  LeavesAccounted
PROPERTY
  KVRefinement
CHECK_DEADLOCK FALSE
