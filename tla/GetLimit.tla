------------------------------ MODULE GetLimit ------------------------------
(***************************************************************************)
(* The size check of MVTree::Get(limit, keybytes, valuebytes, key, value), *)
(* the variant that copies into a caller's buffer of `limit` bytes.  Its   *)
(* lookup is that of Get (modelled in MVTree); once the slot is found:     *)
(*                                                                         *)
(*   auto vs = kv.valsize();          // uint32_t size field of the block  *)
(*   *valuebytes = vs;                // into an int32_t                   *)
(*   if (vs <= limit) { memcpy(value, kv.val(), vs); return OK; }          *)
(*   else return FAILED;                                                   *)
(*                                                                         *)
(* limit is an int32_t.  Compared with a uint32_t it is converted to       *)
(* unsigned, so a negative limit is 2^32 + limit.  Storing vs into the     *)
(* int32_t *valuebytes wraps modulo 2^32 (gcc, clang).  The width of      *)
(* both types is the constant Width (32 in the code); the conversions are  *)
(* the same at every width, and TLC checks them exhaustively at a small    *)
(* one.                                                                    *)
(***************************************************************************)
EXTENDS Integers

CONSTANT Width    \* bits of uint32_t / int32_t

ASSUME Width \in Nat \ {0}

\* A C++ int converted to uint32_t.
UInt32(x) == x % 2^Width

\* A value converted to int32_t: the two's complement reading of its bits.
Int32(x) == IF UInt32(x) >= 2^(Width - 1) THEN UInt32(x) - 2^Width ELSE UInt32(x)

\* The values an int32_t limit can take, and a stored size (MVSlot::set
\* writes (uint32_t) vsize).
Int32Range == -(2^(Width - 1))..2^(Width - 1) - 1
UInt32Range == 0..2^Width - 1

\* What Get returns: status, bytes memcpy'd into the buffer, *valuebytes.
Reply(st, copied, size) == [status |-> st, copied |-> copied, size |-> size]

\* `vs <= limit`, an unsigned comparison.
Fits(vs, limit) == vs <= UInt32(limit)

\* The reply of Get for a key whose value has vs bytes (found), or for a
\* key LeafSearch and the mirror do not find (*valuebytes untouched, -1 here).
GetLimitReply(found, vs, limit) ==
  IF ~found THEN Reply("not_found", 0, -1)
  ELSE IF Fits(vs, limit) THEN Reply("ok", vs, Int32(vs))
  ELSE Reply("failed", 0, Int32(vs))

\* The contract (spec 4.8, 6, 7; scenario S7): Failure when the value
\* exceeds buffer_limit, with the size still reported; else the value.
ContractReply(found, vs, limit) ==
  IF ~found THEN Reply("not_found", 0, -1)
  ELSE IF vs > limit THEN Reply("failed", 0, vs)
  ELSE Reply("ok", vs, vs)
=============================================================================
