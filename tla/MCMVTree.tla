------------------------------- MODULE MCMVTree -------------------------------
(***************************************************************************)
(* Bounds for model checking MVTree.                                       *)
(*                                                                         *)
(* Keys 1..4 stand for "ab" < "ac" < "cy" < "lj", whose hashes are the     *)
(* code's own PearsonHash of those bytes: "ab"/"lj" and "ac"/"cy" collide, *)
(* so the mirror scans meet equal hashes of different keys (spec S8).      *)
(***************************************************************************)
EXTENDS MVTree

PH == INSTANCE PearsonHash WITH CharIsSigned <- TRUE

KeyBytes == <<<<97, 98>>, <<97, 99>>, <<99, 121>>, <<108, 106>>>>

\* std::string::compare of two equal-length byte strings.
BytesLess(a, b) ==
  \E i \in DOMAIN a : a[i] < b[i] /\ \A j \in 1..i - 1 : a[j] = b[j]

ASSUME \A i, j \in DOMAIN KeyBytes : i < j => BytesLess(KeyBytes[i], KeyBytes[j])

MCKeys == DOMAIN KeyBytes

\* The hashes, written out so that TLC does not recompute them at every
\* use; the ASSUME below checks them against PearsonHash of the bytes.
MCKeyHash == <<26, 31, 31, 26>>

ASSUME \A k \in MCKeys : PH!PearsonHash(KeyBytes[k]) = {MCKeyHash[k]}
ASSUME MCKeyHash[1] = MCKeyHash[4] /\ MCKeyHash[2] = MCKeyHash[3]

\* Six keys, "ab" < "ac" < "cy" < "lj" < "no" < "zz": Put "ab", then the
\* others from the highest down, splits the leaf holding "ab" every time
\* and leaves five leaves, the most six keys can fill.
KeyBytes6 == <<<<97, 98>>, <<97, 99>>, <<99, 121>>, <<108, 106>>, <<110, 111>>, <<122, 122>>>>
MCKeys6 == DOMAIN KeyBytes6
MCKeyHash6 == <<26, 31, 31, 26, 26, 247>>

ASSUME \A i, j \in MCKeys6 : i < j => BytesLess(KeyBytes6[i], KeyBytes6[j])
ASSUME \A k \in MCKeys6 : PH!PearsonHash(KeyBytes6[k]) = {MCKeyHash6[k]}

\* The empty key "" (0, the string NoKey stands for) and the four keys
\* above: its hash is PearsonHash of no bytes, and it sorts before every
\* other key, so a leaf holding only "" has max_key "".
MCKeysEmpty == {0} \cup MCKeys
MCKeyHashEmpty == (0 :> 1) @@ MCKeyHash

ASSUME PH!PearsonHash(<<>>) = {MCKeyHashEmpty[0]} /\ MCKeyHashEmpty[0] # 0

MCLeaves5 == 1..5
MCNodes8 == 1..8

MCLeaves == 1..4
MCNodes == 1..7
MCNoAborts == {}
MCAllAborts == {"fill", "split", "remove"}
MCFillAborts == {"fill"}
MCLeaves2 == 1..2
MCLeaves3 == 1..3
MCNodes5 == 1..5

\* Values are only stored, compared and returned, so permuting them maps
\* behaviours to behaviours.
MCValueSymmetry == Permutations(Values)
=============================================================================
