---------------------------- MODULE MCPearsonHash ----------------------------
(***************************************************************************)
(* Checks PearsonHash on every key of at most MaxLen bytes drawn from      *)
(* Bytes: Init picks the key, one Hash step computes the set of results    *)
(* the code may return for it.                                             *)
(***************************************************************************)
EXTENDS PearsonHash

CONSTANTS
  Bytes,    \* byte values the key bytes range over
  MaxLen    \* longest key checked

ASSUME Bytes \subseteq 0..255 /\ MaxLen \in Nat

\* ASCII keys: every key the MVTree models use is one.
MCAsciiBytes == 0..127

\* A few bytes on either side of 0x80, where a signed char turns negative.
MCHighBytes == {97, 127, 128, 200, 255}

\* The key has not been hashed yet (a hash is never an empty set).
NotHashed == {}

VARIABLES input, hash

vars == <<input, hash>>

Inputs == UNION {[1..n -> Bytes] : n \in 0..MaxLen}

Init == input \in Inputs /\ hash = NotHashed

Hash == hash = NotHashed /\ hash' = PearsonHash(input) /\ UNCHANGED input

Next == Hash

Spec == Init /\ [][Next]_vars

\* MVTree::PearsonHash is a function of the key's bytes and equals the
\* reference definition: every call on the same key yields one and the
\* same value, the one the contract defines (spec 4.1, 8.4).
MatchesReference == hash # NotHashed => hash = {ReferenceHash(input)}
=============================================================================
