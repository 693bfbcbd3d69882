----------------------------- MODULE MCGetLimit -----------------------------
(***************************************************************************)
(* Checks Get's size check on every pair of a value size in Sizes and a    *)
(* buffer limit in Limits: Init picks the pair and whether the key is      *)
(* found, one Get step computes the reply.                                 *)
(***************************************************************************)
EXTENDS GetLimit

CONSTANTS
  Sizes,    \* value sizes, as the block's uint32_t size field holds them
  Limits    \* buffer limits, as int32_t

ASSUME Sizes \subseteq UInt32Range /\ Limits \subseteq Int32Range

NotCalled == Reply("none", 0, 0)

VARIABLES found, vs, limit, reply

vars == <<found, vs, limit, reply>>

Init ==
  /\ found \in BOOLEAN /\ vs \in Sizes /\ limit \in Limits
  /\ reply = NotCalled

Get == reply = NotCalled /\ reply' = GetLimitReply(found, vs, limit) /\ UNCHANGED <<found, vs, limit>>

Spec == Init /\ [][Get]_vars

\* MVTree::Get with a buffer limit keeps its contract: it copies the value
\* only when it fits the caller's buffer, refuses it with Failure when it
\* does not, and reports the value's true size either way (spec 4.8, S7).
MatchesContract == reply # NotCalled => reply = ContractReply(found, vs, limit)
=============================================================================
