------------------------------- MODULE KVStore -------------------------------
(***************************************************************************)
(* What the engine promises its callers (spec sections 4.7-4.9, 7, 8.1):   *)
(* a map from keys to values, changed only by a Put or Remove that         *)
(* replies Ok.  A Put may fail (Failure) and then changes nothing; Remove  *)
(* replies Ok whether or not the key was there.  Reads, closing and        *)
(* reopening the engine change nothing.                                    *)
(*                                                                         *)
(* `lastOp` is the last write call the store answered, with its reply.     *)
(***************************************************************************)
CONSTANTS Keys, Values, NoKey, NoValue

VARIABLES store, lastOp

Reply(op, k, v, st) == [op |-> op, key |-> k, val |-> v, status |-> st]

NoOp == Reply("none", NoKey, NoValue, "ok")

Init ==
  /\ store = [k \in Keys |-> NoValue]
  /\ lastOp = NoOp

Put(k, v) ==
  /\ lastOp' = Reply("put", k, v, "ok")
  /\ store' = [store EXCEPT ![k] = v]

PutFails(k, v) ==
  /\ lastOp' = Reply("put", k, v, "failed")
  /\ UNCHANGED store

Remove(k) ==
  /\ lastOp' = Reply("remove", k, NoValue, "ok")
  /\ store' = [store EXCEPT ![k] = NoValue]

RemoveFails(k) ==
  /\ lastOp' = Reply("remove", k, NoValue, "failed")
  /\ UNCHANGED store

Next ==
  \E k \in Keys :
    \/ Remove(k)
    \/ RemoveFails(k)
    \/ \E v \in Values : Put(k, v) \/ PutFails(k, v)

Spec == Init /\ [][Next]_<<store, lastOp>>
=============================================================================
