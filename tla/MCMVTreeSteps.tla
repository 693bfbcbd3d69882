----------------------------- MODULE MCMVTreeSteps ----------------------------
(***************************************************************************)
(* MVTree explored to a bounded number of operations, for the bounds whose *)
(* full state space is beyond TLC: five keys (a fourth leaf, and with it   *)
(* an inner-node split, takes five keys: Open, Put 1, 5, 4, 3, 2 splits    *)
(* tree_top in six steps), and six keys with three keys per inner node   *)
(* (the split at a fourth key takes five leaves).                          *)
(***************************************************************************)
EXTENDS MCMVTree

CONSTANT MaxSteps

VARIABLE steps   \* operations taken so far

DeepInit == Init /\ steps = 0

DeepNext == Next /\ steps' = steps + 1

DeepSpec == DeepInit /\ [][DeepNext]_<<vars, steps>>

StepBound == steps <= MaxSteps
=============================================================================
