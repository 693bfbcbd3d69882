\* INNER_KEYS = 3: an inner node splits when it gets a fourth key, which
\* takes five leaves and so six keys (Open, Put 1, 6, 5, 4, 3, 2).
CONSTANTS
  MaxFree = 0
  Keys <- MCKeys6
  KeyHash <- MCKeyHash6
  Values = {v1}
  LEAF_KEYS = 2
  INNER_KEYS = 3
  Leaves <- MCLeaves5
  Nodes <- MCNodes8
  AbortSites <- MCNoAborts
  Null = Null
  NoValue = NoValue
  MaxSteps = 7
SPECIFICATION DeepSpec
CONSTRAINT StepBound
INVARIANT
  InnerInvariants
