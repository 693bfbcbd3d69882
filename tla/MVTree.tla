-------------------------------- MODULE MVTree --------------------------------
(***************************************************************************)
(* The MVTree engine of mvtree.cc: a volatile B+-tree routing index over a *)
(* persistent, prepend-only list of fixed-size leaves.                     *)
(*                                                                         *)
(* Persistent state (survives Close):                                      *)
(*   plist  the leaves reachable from kv_root->head, in list order;        *)
(*   slot   slot[l][s]: the key/value block owned by slot s of leaf l.     *)
(* Volatile state (rebuilt by Recover on every Open):                      *)
(*   top       tree_top;                                                   *)
(*   node      the MVLeafNode / MVInnerNode objects by id;                 *)
(*   prealloc  leaves_prealloc (a std::vector: push_back / pop_back);      *)
(*   open      whether an MVTree object is constructed over the pool.      *)
(* Pool objects deleted by MVTree::Free (persistent: a delete is durable): *)
(*   freed        the leaves deleted;                                      *)
(*   rootFreed    whether kv_root has been deleted.                        *)
(* fpos is the Free loop's pLeaf, as a position in plist (0: no Free runs, *)
(* Len(plist) + 1: nullptr); frees counts the calls of Free.               *)
(* lastOp is the last write call answered and its reply.                  *)
(*                                                                         *)
(* Every public operation runs under the engine's std::shared_mutex, so    *)
(* each is one atomic step.  Lookups and enumerations only read, and are   *)
(* operators over the state (Get, TotalNumKeys, ...).  A pmemobj           *)
(* transaction either commits or rolls back every persistent write in it;  *)
(* writes to volatile objects inside its body are NOT rolled back.         *)
(*                                                                         *)
(* Keys are naturals ordered as std::string::compare orders the key bytes; *)
(* NoKey = 0 is the empty string, which a cleared mirror slot holds and    *)
(* which sorts before every other key.  Keys are arbitrary byte strings,   *)
(* so 0 may also be a key: the empty key, told from an empty slot by its   *)
(* hash (PearsonHash never returns 0) and its block.                       *)
(***************************************************************************)
EXTENDS Integers, Sequences, FiniteSets, SequencesExt, FiniteSetsExt, TLC

CONSTANTS
  Keys,         \* keys, in key order
  Values,       \* values
  KeyHash,      \* KeyHash[k]: PearsonHash of k's bytes, in 1..255
  LEAF_KEYS,    \* slots per leaf
  INNER_KEYS,   \* separator keys per inner node
  Leaves,       \* persistent leaf ids: the pool holds at most this many leaves
  Nodes,        \* volatile node ids 1..N: at most N nodes exist at once
  AbortSites,   \* transactions that may abort: subset of {"fill", "split", "remove"}
  MaxFree,      \* calls of MVTree::Free the client makes
  Null,         \* a null pointer
  NoValue       \* a key's value when the key is absent

NoKey == 0

ASSUME Keys \subseteq Nat /\ KeyHash \in [Keys -> 1..255]
ASSUME LEAF_KEYS \in Nat /\ LEAF_KEYS >= 2 /\ INNER_KEYS \in Nat \ {0}
ASSUME Nodes = 1..Cardinality(Nodes)
ASSUME AbortSites \subseteq {"fill", "split", "remove"}
ASSUME MaxFree \in Nat

\* mvtree.h: the split points of a leaf and of an inner node.
LEAF_KEYS_MIDPOINT == LEAF_KEYS \div 2
INNER_KEYS_UPPER == (INNER_KEYS + 2) \div 2
INNER_KEYS_MIDPOINT == INNER_KEYS - INNER_KEYS_UPPER + 1

Slots == 0..LEAF_KEYS - 1
KeyIdx == 0..INNER_KEYS
ChildIdx == 0..INNER_KEYS + 1

\* A persistent slot: the key and value its block holds (MVSlot::kv).  The
\* block's hash byte is always PearsonHash(key) (MVSlot::set is only ever
\* called with that hash), so it is not stored separately.
EmptySlot == [key |-> NoKey, val |-> NoValue]

\* A block whose header MVSlot::clear zeroed with its direct, unlogged
\* writes (hash 0, key and value sizes 0) and then did not free, because
\* the transaction aborted: the slot still owns it, and it reads as the
\* empty key with the empty value.
ZeroedSlot == [key |-> NoKey, val |-> ""]

SlotContent == {EmptySlot, ZeroedSlot} \cup [key : Keys, val : Values]

\* The hash byte of the block a slot owns (kvslot.hash()), 0 for none.
StoredHash(c) == IF c \in {EmptySlot, ZeroedSlot} THEN 0 ELSE KeyHash[c.key]

\* A volatile node.  Leaf descriptors use hashes/keys/leaf, inner nodes use
\* keycount/ikeys/children; both have a parent.  "free": no object.
FreeNode ==
  [kind |-> "free", parent |-> Null,
   hashes |-> [s \in Slots |-> 0], keys |-> [s \in Slots |-> NoKey], leaf |-> Null,
   keycount |-> 0, ikeys |-> [i \in KeyIdx |-> NoKey], children |-> [i \in ChildIdx |-> Null]]
LeafNode == [FreeNode EXCEPT !.kind = "leaf"]      \* new MVLeafNode(); is_leaf = true
InnerNode == [FreeNode EXCEPT !.kind = "inner"]    \* new MVInnerNode()

NodeType ==
  [kind : {"free", "leaf", "inner"}, parent : Nodes \cup {Null},
   hashes : [Slots -> 0..255], keys : [Slots -> Keys \cup {NoKey}], leaf : Leaves \cup {Null},
   keycount : 0..INNER_KEYS + 1, ikeys : [KeyIdx -> Keys \cup {NoKey}],
   children : [ChildIdx -> Nodes \cup {Null}]]

Reply(op, k, v, st) == [op |-> op, key |-> k, val |-> v, status |-> st]

VARIABLES plist, slot, open, top, node, prealloc, lastOp,
          freed, rootFreed, fpos, frees

freeVars == <<freed, rootFreed, fpos, frees>>
vars == <<plist, slot, open, top, node, prealloc, lastOp, freeVars>>

-----------------------------------------------------------------------------
(* Write paths are computed on a record w of the state they change; ok     *)
(* turns FALSE when a `new` finds no free node id (a model bound).         *)

World == [plist |-> plist, slot |-> slot, top |-> top, node |-> node,
          prealloc |-> prealloc, ok |-> TRUE]

Apply(w) ==
  /\ w.ok
  /\ plist' = w.plist /\ slot' = w.slot /\ top' = w.top
  /\ node' = w.node /\ prealloc' = w.prealloc

\* `new MVLeafNode()` / `new MVInnerNode()`: the lowest unused id.
FreeId(nd) ==
  LET F == {n \in Nodes : nd[n].kind = "free"} IN IF F = {} THEN Null ELSE Min(F)

\* transaction::exec_tx: on commit the body's effects stand; on abort the
\* persistent writes roll back and the volatile ones stay.
ExecTx(w0, w1, abort) ==
  IF abort THEN [w1 EXCEPT !.plist = w0.plist, !.slot = w0.slot] ELSE w1

\* Leaves not yet allocated in the pool.
FreshLeaves(w) == Leaves \ ToSet(w.plist)

\* make_persistent<MVLeaf>() succeeds, or a recycled leaf is at hand.
CanTakeLeaf(w) == w.prealloc # <<>> \/ FreshLeaves(w) # {}

\* The leaf Put / LeafSplitFull obtain: leaves_prealloc.back(), or a fresh one.
NextLeaf(w) ==
  IF w.prealloc # <<>> THEN Last(w.prealloc) ELSE Min(FreshLeaves(w))

\* Mutant: a recycled leaf is popped and also linked in again at the head.
TakeLeafRelinked(w) ==
  IF w.prealloc # <<>>
  THEN [w EXCEPT !.prealloc = Front(@), !.plist = <<Last(w.prealloc)>> \o @]
  ELSE [w EXCEPT !.plist = <<NextLeaf(w)>> \o @,
                 !.slot[NextLeaf(w)] = [s \in Slots |-> EmptySlot]]

\* Mutant: leaves_prealloc.back() is used without pop_back().
TakeLeafNoPop(w) ==
  IF w.prealloc # <<>>
  THEN w
  ELSE [w EXCEPT !.plist = <<NextLeaf(w)>> \o @,
                 !.slot[NextLeaf(w)] = [s \in Slots |-> EmptySlot]]

\* Pop it from leaves_prealloc, or allocate it zeroed and prepend it to the
\* persistent list (root->head = new_leaf; new_leaf->next = old_head).
TakeLeaf(w) ==
  IF w.prealloc # <<>>
  THEN [w EXCEPT !.prealloc = Front(@)]
  ELSE [w EXCEPT !.plist = <<NextLeaf(w)>> \o @,
                 !.slot[NextLeaf(w)] = [s \in Slots |-> EmptySlot]]

-----------------------------------------------------------------------------
(* MVTree::LeafSearch: descend from tree_top; at an inner node take the    *)
(* first child i with key <= keys[i], else children[keycount].             *)

\* Mutant: key.compare(keys[idx]) < 0, a key equal to a separator goes right.
RECURSIVE DescendLt(_, _, _)
DescendLt(nd, n, k) ==
  IF nd[n].kind = "leaf" THEN n
  ELSE LET kc == nd[n].keycount
           M == {i \in 0..kc - 1 : k < nd[n].ikeys[i]}
       IN DescendLt(nd, nd[n].children[IF M = {} THEN kc ELSE Min(M)], k)

RECURSIVE Descend(_, _, _)
Descend(nd, n, k) ==
  IF nd[n].kind = "leaf" THEN n
  ELSE LET kc == nd[n].keycount
           M == {i \in 0..kc - 1 : k <= nd[n].ikeys[i]}
       IN Descend(nd, nd[n].children[IF M = {} THEN kc ELSE Min(M)], k)

LeafSearch(nd, t, k) == IF t = Null THEN Null ELSE Descend(nd, t, k)

\* The slot a descending scan of a descriptor's mirror stops at for key k
\* (hash first, then key), or -1.
MatchSlot(d, k) ==
  LET M == {s \in Slots : d.hashes[s] = KeyHash[k] /\ d.keys[s] = k}
  IN IF M = {} THEN -1 ELSE Max(M)

\* Mutant: an empty slot is preferred to the slot already holding the key.
FillSlotForKeyEmptyFirst(d, k) ==
  LET E == {s \in Slots : d.hashes[s] = 0}
  IN IF E # {} THEN Min(E) ELSE MatchSlot(d, k)

\* MVTree::LeafFillSlotForKey's choice: the matching slot, else the last
\* empty slot the descending scan saw (the lowest), else -1.
FillSlotForKey(d, k) ==
  LET E == {s \in Slots : d.hashes[s] = 0}
  IN IF MatchSlot(d, k) # -1 THEN MatchSlot(d, k)
     ELSE IF E # {} THEN Min(E) ELSE -1

\* Mutant: MVSlot::set inside the `if`, so an overwrite never persists.
LeafFillSpecificSlotInsideIf(w, n, k, v, s) ==
  LET d == w.node[n]
  IN IF d.hashes[s] # 0 THEN w
     ELSE [w EXCEPT !.node[n] = [d EXCEPT !.hashes[s] = KeyHash[k], !.keys[s] = k],
                    !.slot[d.leaf][s] = [key |-> k, val |-> v]]

\* MVTree::LeafFillSpecificSlot: set the mirror if the slot was empty in it,
\* then MVSlot::set(hash, key, value) on the persistent slot.
LeafFillSpecificSlot(w, n, k, v, s) ==
  LET d == w.node[n]
  IN [w EXCEPT
        !.node[n] = IF d.hashes[s] = 0
                    THEN [d EXCEPT !.hashes[s] = KeyHash[k], !.keys[s] = k]
                    ELSE d,
        !.slot[d.leaf][s] = [key |-> k, val |-> v]]

\* MVTree::LeafFillEmptySlot: the first empty slot of a descending scan (the
\* highest); nothing at all if there is none.
LeafFillEmptySlot(w, n, k, v) ==
  LET E == {s \in Slots : w.node[n].hashes[s] = 0}
  IN IF E = {} THEN w ELSE LeafFillSpecificSlot(w, n, k, v, Max(E))

-----------------------------------------------------------------------------
(* MVTree::InnerUpdateAfterSplit(node, new_node, split_key).               *)

\* Mutant: split_key is appended after the last key.
InsertPosAppend(in, sk) == in.keycount

\* First index idx < keycount with keys[idx] > split_key, else keycount.
InsertPos(in, sk) ==
  LET A == {i \in 0..in.keycount - 1 : in.ikeys[i] > sk}
  IN IF A = {} THEN in.keycount ELSE Min(A)

\* Mutant: keycount is not incremented after the insert.
InsertSplitNoCount(in, nn, sk) ==
  LET kc == in.keycount
      idx == InsertPos(in, sk)
  IN [in EXCEPT
        !.ikeys = [i \in KeyIdx |->
                    IF i < idx \/ i > kc THEN @[i] ELSE IF i = idx THEN sk ELSE @[i - 1]],
        !.children = [i \in ChildIdx |->
                    IF i <= idx \/ i > kc + 1 THEN @[i] ELSE IF i = idx + 1 THEN nn ELSE @[i - 1]]]

\* Shift keys [idx..kc-1] and children [idx+1..kc] right by one, put
\* split_key at idx and new_node at idx+1, keycount + 1.
InsertSplit(in, nn, sk) ==
  LET kc == in.keycount
      idx == InsertPos(in, sk)
  IN [in EXCEPT
        !.keycount = kc + 1,
        !.ikeys = [i \in KeyIdx |->
                    IF i < idx \/ i > kc THEN @[i] ELSE IF i = idx THEN sk ELSE @[i - 1]],
        !.children = [i \in ChildIdx |->
                    IF i <= idx \/ i > kc + 1 THEN @[i] ELSE IF i = idx + 1 THEN nn ELSE @[i - 1]]]

\* Mutant: node->parent = top.get() is missing.
GrowTopNoReparent(w, n, nn, sk) ==
  LET t == FreeId(w.node) IN
  IF t = Null THEN [w EXCEPT !.ok = FALSE]
  ELSE [w EXCEPT
          !.node = [@ EXCEPT
                     ![t] = [InnerNode EXCEPT !.keycount = 1, !.ikeys[0] = sk,
                                              !.children[0] = w.top, !.children[1] = nn],
                     ![nn].parent = t],
          !.top = t]

\* The splitting node n had no parent: a new tree_top with split_key and
\* children (tree_top, new_node), and both children pointing up to it.
GrowTop(w, n, nn, sk) ==
  LET t == FreeId(w.node) IN
  IF t = Null THEN [w EXCEPT !.ok = FALSE]
  ELSE [w EXCEPT
          !.node = [@ EXCEPT
                     ![t] = [InnerNode EXCEPT !.keycount = 1, !.ikeys[0] = sk,
                                              !.children[0] = w.top, !.children[1] = nn],
                     ![n].parent = t,
                     ![nn].parent = t],
          !.top = t]

\* Children [UPPER..keycount] of an overfull inner node: those that move.
UpperChildren(in) == {i \in ChildIdx : INNER_KEYS_UPPER <= i /\ i <= in.keycount}

\* The node that stays: keys [UPPER..kc-1] and the upper children are
\* std::move'd out (a moved-from key is the empty string, a moved-from child
\* null), and INNER_KEYS_MIDPOINT keys remain.
LowerHalf(in) ==
  [in EXCEPT
     !.keycount = INNER_KEYS_MIDPOINT,
     !.ikeys = [i \in KeyIdx |-> IF INNER_KEYS_UPPER <= i /\ i < in.keycount THEN NoKey ELSE @[i]],
     !.children = [i \in ChildIdx |-> IF i \in UpperChildren(in) THEN Null ELSE @[i]]]

\* Mutant: ni->keycount = INNER_KEYS_MIDPOINT - 1, one child short.
UpperHalfShort(in) ==
  [InnerNode EXCEPT
     !.parent = in.parent,
     !.keycount = INNER_KEYS_MIDPOINT - 1,
     !.ikeys = [i \in KeyIdx |-> IF i + INNER_KEYS_UPPER < in.keycount THEN in.ikeys[i + INNER_KEYS_UPPER] ELSE NoKey],
     !.children = [i \in ChildIdx |-> IF i + INNER_KEYS_UPPER <= in.keycount THEN in.children[i + INNER_KEYS_UPPER] ELSE Null]]

\* The new node ni: inner's parent, the moved keys and children shifted
\* down by UPPER, and INNER_KEYS_MIDPOINT keys.
UpperHalf(in) ==
  [InnerNode EXCEPT
     !.parent = in.parent,
     !.keycount = INNER_KEYS_MIDPOINT,
     !.ikeys = [i \in KeyIdx |-> IF i + INNER_KEYS_UPPER < in.keycount THEN in.ikeys[i + INNER_KEYS_UPPER] ELSE NoKey],
     !.children = [i \in ChildIdx |-> IF i + INNER_KEYS_UPPER <= in.keycount THEN in.children[i + INNER_KEYS_UPPER] ELSE Null]]

\* Mutant: the moved children keep pointing up to the old node.
ReparentNone(nd, S, ni) == nd

\* ni->children[...]->parent = ni.get() for every moved child.
Reparent(nd, S, ni) == [m \in Nodes |-> IF m \in S THEN [nd[m] EXCEPT !.parent = ni] ELSE nd[m]]

\* Split the overfull inner node p into p and the new node ni.
SplitInner(w, p, ni) ==
  LET in == w.node[p]
      nd == Reparent(w.node, {in.children[i] : i \in UpperChildren(in)}, ni)
  IN [w EXCEPT !.node = [nd EXCEPT ![p] = LowerHalf(in), ![ni] = UpperHalf(in)]]

\* Insert into node's parent; if it overflows, split it and recurse with
\* new_split_key = inner->keys[INNER_KEYS_MIDPOINT], read after the moves.
RECURSIVE InnerUpdateAfterSplit(_, _, _, _)
InnerUpdateAfterSplit(w, n, nn, sk) ==
  IF w.node[n].parent = Null THEN GrowTop(w, n, nn, sk)
  ELSE
    LET p == w.node[n].parent
        w1 == [w EXCEPT !.node[p] = InsertSplit(@, nn, sk)]
        ni == FreeId(w1.node)
        w2 == SplitInner(w1, p, ni)
    IN IF w1.node[p].keycount <= INNER_KEYS THEN w1
       ELSE IF ni = Null THEN [w1 EXCEPT !.ok = FALSE]
       ELSE InnerUpdateAfterSplit(w2, p, ni, w2.node[p].ikeys[INNER_KEYS_MIDPOINT])

-----------------------------------------------------------------------------
(* MVTree::LeafSplitFull(leafnode, hash, key, value).                      *)

\* keys[LEAF_KEYS_MIDPOINT] of the mirror keys plus key, sorted.
SplitKey(d, k) ==
  SortSeq([i \in 1..LEAF_KEYS |-> d.keys[i - 1]] \o <<k>>, <)[LEAF_KEYS_MIDPOINT + 1]

\* The new descriptor: the mirror entries of the slots in Up, same index.
MovedMirror(d, Up, lf) ==
  [LeafNode EXCEPT !.parent = d.parent, !.leaf = lf,
     !.hashes = [s \in Slots |-> IF s \in Up THEN d.hashes[s] ELSE 0],
     !.keys = [s \in Slots |-> IF s \in Up THEN d.keys[s] ELSE NoKey]]

\* Mutant: the moved mirror entries are not cleared in the old descriptor.
ClearMovedNone(d, Up) == d

\* leafnode->hashes[slot] = 0; leafnode->keys[slot].clear() for slots in Up.
ClearMoved(d, Up) ==
  [d EXCEPT !.hashes = [s \in Slots |-> IF s \in Up THEN 0 ELSE @[s]],
            !.keys = [s \in Slots |-> IF s \in Up THEN NoKey ELSE @[s]]]

\* new_leaf->slots[slot].swap(leafnode->leaf->slots[slot]) for slots in Up.
SwapSlots(sl, a, b, Up) ==
  [sl EXCEPT ![a] = [s \in Slots |-> IF s \in Up THEN sl[b][s] ELSE sl[a][s]],
             ![b] = [s \in Slots |-> IF s \in Up THEN sl[a][s] ELSE sl[b][s]]]

\* Inside the transaction: take the new leaf, swap every slot whose mirror
\* key sorts above split_key into the same index of the new leaf, move its
\* mirror to the new descriptor nl and clear it in the old one, then fill
\* an empty slot on the side the new key belongs to.
SplitBody(w, ln, nl, k, v, sk) ==
  LET d == w.node[ln]
      lf == NextLeaf(w)
      w1 == TakeLeaf(w)
      Up == {s \in Slots : d.keys[s] > sk}
      w2 == [w1 EXCEPT !.node[nl] = MovedMirror(d, Up, lf),
                       !.node[ln] = ClearMoved(d, Up),
                       !.slot = SwapSlots(@, lf, d.leaf, Up)]
  IN LeafFillEmptySlot(w2, IF k > sk THEN nl ELSE ln, k, v)

-----------------------------------------------------------------------------
(* MVTree::Recover, run by every constructor.                              *)

\* Recover's empty_leaf: no slot owns a block with a non-zero hash byte.
IsEmptyLeaf(l) == \A s \in Slots : StoredHash(slot[l][s]) = 0
HasKeys(l) == ~IsEmptyLeaf(l)

\* max_key: the highest key of the non-empty slots of a non-empty leaf.
MaxKey(l) == Max({slot[l][s].key : s \in {t \in Slots : StoredHash(slot[l][t]) # 0}})

\* The descriptor rebuilt from a leaf: the hash byte of every block, and the
\* key of every block whose hash byte is not 0.
RecoveredLeaf(l) ==
  [LeafNode EXCEPT !.leaf = l,
     !.hashes = [s \in Slots |-> StoredHash(slot[l][s])],
     !.keys = [s \in Slots |-> IF StoredHash(slot[l][s]) = 0 THEN NoKey ELSE slot[l][s].key]]

\* Mutant: the recovered leaves are not sorted, and stay in list order.
RecoveredOrderUnsorted == SelectSeq(plist, HasKeys)

\* std::list::sort by max_key: stable, so ties keep list order.
RecoveredOrder ==
  LET L == SelectSeq(plist, HasKeys)
      Pos(l) == SelectInSeq(L, LAMBDA x : x = l)
  IN SortSeq(L, LAMBDA a, b : MaxKey(a) < MaxKey(b) \/ (MaxKey(a) = MaxKey(b) /\ Pos(a) < Pos(b)))

\* Mutant: nextnode->parent = prevnode->parent is missing.
RECURSIVE BuildTreeNoParent(_, _, _)
BuildTreeNoParent(w, i, order) ==
  IF i > Len(order) THEN w
  ELSE BuildTreeNoParent(InnerUpdateAfterSplit(w, i - 1, i, MaxKey(order[i - 1])), i + 1, order)

\* Descriptor i holds the i-th recovered leaf; each next one is linked in
\* with InnerUpdateAfterSplit(prev, next, prev's max_key), after setting
\* next->parent = prev->parent.
RECURSIVE BuildTree(_, _, _)
BuildTree(w, i, order) ==
  IF i > Len(order) THEN w
  ELSE BuildTree(InnerUpdateAfterSplit([w EXCEPT !.node[i].parent = w.node[i - 1].parent],
                                       i - 1, i, MaxKey(order[i - 1])),
                 i + 1, order)

Recover ==
  LET order == RecoveredOrder
      w0 == [World EXCEPT
               !.node = [n \in Nodes |-> IF n <= Len(order) THEN RecoveredLeaf(order[n]) ELSE FreeNode],
               !.top = IF order = <<>> THEN Null ELSE 1,
               !.prealloc = SelectSeq(plist, IsEmptyLeaf),
               !.ok = Len(order) <= Cardinality(Nodes)]
  IN IF w0.ok THEN BuildTree(w0, 2, order) ELSE w0

-----------------------------------------------------------------------------
(* Operations.  `abort` says whether the operation's transaction aborts.   *)

Aborts(site) == IF site \in AbortSites THEN BOOLEAN ELSE {FALSE}

\* No Free is running and no pool object has been deleted.  Every other
\* operation, and Recover in a constructor, dereferences kv_root or a leaf:
\* after a delete that is a read of freed pool memory, undefined behaviour
\* the model does not follow.  Only Close and a further Free are modelled.
Usable == fpos = 0 /\ freed = {} /\ ~rootFreed

\* The constructor: open or create the pool, then Recover.
Open ==
  /\ Usable
  /\ ~open
  /\ open' = TRUE
  /\ Apply(Recover)
  /\ UNCHANGED <<lastOp, freeVars>>

\* ~MVTree, or the process dying: every volatile object is gone, the pool
\* is as the last committed transaction left it.
Close ==
  /\ open
  /\ open' = FALSE
  /\ top' = Null
  /\ node' = [n \in Nodes |-> FreeNode]
  /\ prealloc' = <<>>
  /\ fpos' = 0
  /\ UNCHANGED <<plist, slot, lastOp, freed, rootFreed, frees>>

\* Put into an empty tree: take a leaf, fill slot 0 of a new descriptor in
\* one transaction, install it as tree_top.  Without a leaf the allocation
\* throws and Put replies FAILED.
PutHead(k, v, abort) ==
  LET n == FreeId(node)
      w1 == TakeLeaf(World)
      w2 == LeafFillSpecificSlot([w1 EXCEPT !.node[n] = [LeafNode EXCEPT !.leaf = NextLeaf(World)]],
                                 n, k, v, 0)
  IN /\ Usable
     /\ open
     /\ top = Null
     /\ n # Null
     /\ \/ /\ ~CanTakeLeaf(World)
           /\ lastOp' = Reply("put", k, v, "failed")
           /\ UNCHANGED <<plist, slot, open, top, node, prealloc, freeVars>>
        \/ /\ CanTakeLeaf(World)
           \* on abort the descriptor is destroyed, the popped leaf stays popped
           /\ Apply(IF abort THEN [World EXCEPT !.prealloc = w1.prealloc]
                             ELSE [w2 EXCEPT !.top = n])
           /\ lastOp' = Reply("put", k, v, IF abort THEN "failed" ELSE "ok")
           /\ UNCHANGED <<open, freeVars>>

\* Put into the leaf LeafSearch finds when LeafFillSlotForKey has a slot.
PutFill(k, v, abort) ==
  LET ln == LeafSearch(node, top, k)
      s == FillSlotForKey(node[ln], k)
  IN /\ Usable
     /\ open
     /\ top # Null
     /\ s # -1
     /\ Apply(ExecTx(World, LeafFillSpecificSlot(World, ln, k, v, s), abort))
     /\ lastOp' = Reply("put", k, v, IF abort THEN "failed" ELSE "ok")
     /\ UNCHANGED <<open, freeVars>>

\* Put into a full leaf: LeafSplitFull, then (after commit) the routing
\* update.  On abort new_leafnode is destroyed and no routing changes.
PutSplit(k, v, abort) ==
  LET ln == LeafSearch(node, top, k)
      nl == FreeId(node)
      sk == SplitKey(node[ln], k)
      w1 == ExecTx(World, SplitBody(World, ln, nl, k, v, sk), abort)
  IN /\ Usable
     /\ open
     /\ top # Null
     /\ FillSlotForKey(node[ln], k) = -1
     /\ nl # Null
     /\ \/ /\ ~CanTakeLeaf(World)
           /\ lastOp' = Reply("put", k, v, "failed")
           /\ UNCHANGED <<plist, slot, open, top, node, prealloc, freeVars>>
        \/ /\ CanTakeLeaf(World)
           /\ Apply(IF abort THEN [w1 EXCEPT !.node[nl] = FreeNode]
                    ELSE InnerUpdateAfterSplit(w1, ln, nl, sk))
           /\ lastOp' = Reply("put", k, v, IF abort THEN "failed" ELSE "ok")
           /\ UNCHANGED <<open, freeVars>>

\* MVTree::Remove of a key the mirror does not show: nothing to do, Ok.
RemoveAbsent(k) ==
  /\ Usable
  /\ open
  /\ top # Null => MatchSlot(node[LeafSearch(node, top, k)], k) = -1
  /\ lastOp' = Reply("remove", k, NoValue, "ok")
  /\ UNCHANGED <<plist, slot, open, top, node, prealloc, freeVars>>

\* Where Remove's transaction ends: it commits; it aborts at the snapshot
\* of the slot (get_rw), before anything is written; or it aborts at
\* delete_persistent or kv = nullptr, after MVSlot::clear's direct writes
\* zeroed the block's header, which no rollback restores.
ClearOutcomes ==
  IF "remove" \in AbortSites THEN {"commit", "before_zeroing", "after_zeroing"} ELSE {"commit"}

\* MVTree::Remove of a key the mirror shows: clear the mirror, then clear
\* the persistent slot in a transaction.  An abort throws out of Remove.
RemoveSlot(k, outcome) ==
  LET ln == LeafSearch(node, top, k)
      s == MatchSlot(node[ln], k)
      l == node[ln].leaf
      w1 == [World EXCEPT !.node[ln].hashes[s] = 0, !.node[ln].keys[s] = NoKey]
      w2 == ExecTx(w1, [w1 EXCEPT !.slot[l][s] = EmptySlot], outcome # "commit")
  IN /\ Usable
     /\ open
     /\ top # Null
     /\ s # -1
     /\ Apply(IF outcome = "after_zeroing" THEN [w2 EXCEPT !.slot[l][s] = ZeroedSlot] ELSE w2)
     /\ lastOp' = Reply("remove", k, NoValue, IF outcome = "commit" THEN "ok" ELSE "failed")
     /\ UNCHANGED <<open, freeVars>>

-----------------------------------------------------------------------------
(* MVTree::Free.  It takes the unique lock, so nothing else runs until it  *)
(* returns, but each delete_persistent_atomic is its own durable step: a   *)
(* crash (Close) can fall between any two.  kv_root is tested outside the  *)
(* lock and never reset: every constructor sets it, so it is non-null for  *)
(* as long as the object lives, deleted or not.  kv_root->head is never    *)
(* updated, so the loop walks plist as it was.  Deleting a leaf does not   *)
(* run its destructor (delete_persistent_atomic cannot), so its slots'     *)
(* key/value blocks stay as they are.                                      *)

\* pLeaf == nullptr: the walk has passed the last leaf.
LoopDone(pos) == pos > Len(plist)

\* Free is entered: pLeaf = kv_root->head.  After an earlier Free the read
\* of kv_root->head is from a deleted object; the model reads the stale head.
FreeBegin ==
  /\ open
  /\ fpos = 0
  /\ frees < MaxFree
  /\ fpos' = 1
  /\ frees' = frees + 1
  /\ UNCHANGED <<plist, slot, open, top, node, prealloc, lastOp, freed, rootFreed>>

\* One iteration: pt = pLeaf->next; delete_persistent_atomic(pLeaf); pLeaf = pt.
FreeLeaf ==
  /\ fpos # 0
  /\ ~LoopDone(fpos)
  /\ freed' = freed \cup {plist[fpos]}
  /\ fpos' = fpos + 1
  /\ UNCHANGED <<plist, slot, open, top, node, prealloc, lastOp, rootFreed, frees>>

\* After the loop: delete_persistent_atomic(kv_root), and Free returns.
\* tree_top, the descriptors and leaves_prealloc are left as they were.
FreeRoot ==
  /\ fpos # 0
  /\ LoopDone(fpos)
  /\ rootFreed' = TRUE
  /\ fpos' = 0
  /\ UNCHANGED <<plist, slot, open, top, node, prealloc, lastOp, freed, frees>>

-----------------------------------------------------------------------------
(* Read-only operations, as operators over the state.                      *)

\* What MVTree::Get returns when the mirror points at a slot whose block is
\* null: kv.valsize() dereferences it.
BadRead == "read of an empty slot"

\* MVTree::Get(key, value): LeafSearch, scan the mirror, read the block.
Get(k) ==
  LET ln == LeafSearch(node, top, k)
      s == IF ln = Null THEN -1 ELSE MatchSlot(node[ln], k)
      c == slot[node[ln].leaf][s]
  IN IF s = -1 THEN NoValue ELSE IF c = EmptySlot THEN BadRead ELSE c.val

\* The non-empty slots of the leaves on the persistent list, as the
\* enumerations walk them.
LiveSlots == {<<l, s>> \in ToSet(plist) \X Slots : slot[l][s] # EmptySlot}

\* MVTree::TotalNumKeys.
TotalNumKeys == Cardinality(LiveSlots)

\* MVTree::ListAllKeys, as a set.
ListAllKeys == {slot[ls[1]][ls[2]].key : ls \in LiveSlots}

\* MVTree::Analyze: walks the persistent list counting every leaf and the
\* leaves with no non-empty slot, and reports leaves_prealloc.size().
Analyze ==
  LET NoBlocks(l) == \A s \in Slots : slot[l][s] = EmptySlot   \* every slots[slot].empty()
  IN
  [leaf_empty |-> Len(SelectSeq(plist, NoBlocks)),
   leaf_prealloc |-> Len(prealloc),
   leaf_total |-> Len(plist)]

\* The map the pool holds: the value in a slot holding k (any, if several).
PMap ==
  LET L == LiveSlots IN
  [k \in Keys |->
     LET H == {ls \in L : slot[ls[1]][ls[2]].key = k}
     IN IF H = {} THEN NoValue
        ELSE LET ls == CHOOSE x \in H : TRUE IN slot[ls[1]][ls[2]].val]

-----------------------------------------------------------------------------
(* The routing tree reachable from tree_top.                               *)

Kids(n) == {node[n].children[i] : i \in 0..node[n].keycount} \ {Null}

RECURSIVE Reach(_)
Reach(n) == IF node[n].kind = "leaf" THEN {n} ELSE {n} \cup UNION {Reach(c) : c \in Kids(n)}

TreeNodes == IF top = Null THEN {} ELSE Reach(top)
TreeLeafNodes == {n \in TreeNodes : node[n].kind = "leaf"}
TreeInnerNodes == TreeNodes \ TreeLeafNodes

\* Depths at which leaf descriptors hang below n.
RECURSIVE LeafDepths(_)
LeafDepths(n) ==
  IF node[n].kind = "leaf" THEN {0} ELSE UNION {{d + 1 : d \in LeafDepths(c)} : c \in Kids(n)}

\* Above every key: the bound of the rightmost subtree.
PlusInf == Max(Keys) + 1

\* Below every key, the empty one included: the bound of the leftmost subtree.
MinusInf == -1

\* <<leaf, lo, hi>>: the keys LeafSearch routes to leaf are those in (lo, hi].
RECURSIVE Ranges(_, _, _)
Ranges(n, lo, hi) ==
  IF node[n].kind = "leaf" THEN {<<n, lo, hi>>}
  ELSE LET kc == node[n].keycount
           K == node[n].ikeys
       IN UNION {Ranges(node[n].children[i], IF i = 0 THEN lo ELSE K[i - 1],
                        IF i = kc THEN hi ELSE K[i]) : i \in 0..kc}

-----------------------------------------------------------------------------
(* Properties.                                                             *)

TypeOK ==
  /\ plist \in Seq(Leaves) /\ IsInjective(plist)
  /\ slot \in [Leaves -> [Slots -> SlotContent]]
  /\ open \in BOOLEAN
  /\ top \in Nodes \cup {Null}
  /\ node \in [Nodes -> NodeType]
  /\ prealloc \in Seq(Leaves)
  /\ lastOp \in [op : {"none", "put", "remove"}, key : Keys \cup {NoKey},
                 val : Values \cup {NoValue}, status : {"ok", "failed"}]
  /\ freed \subseteq Leaves /\ rootFreed \in BOOLEAN
  /\ fpos \in 0..Cardinality(Leaves) + 1 /\ frees \in 0..MaxFree

\* Get (LeafSearch, the descriptor's hash/key mirror, then the persistent
\* slot) returns exactly what the pool holds for every key: routing and
\* mirrors stay coherent with the persistent leaves across Put, splits,
\* Remove, crashes and Recover (spec 8.1, 8.7).
LookupMatchesPool == open => \A k \in Keys : Get(k) = PMap[k]

\* No key is stored in two persistent slots: TotalNumKeys counts each live
\* key once, and ListAllKeys lists each once (spec 3, 8.2, 8.3).
KeysStoredOnce == TotalNumKeys = Cardinality(ListAllKeys)

\* Every inner node reachable from tree_top passes
\* MVInnerNode::assert_invariants, which debug builds run after every
\* InnerUpdateAfterSplit: keycount <= INNER_KEYS, children [0..keycount]
\* non-null and the rest null, and no separator the empty string.
InnerInvariants ==
  open =>
    \A n \in TreeInnerNodes :
      LET d == node[n] IN
      /\ d.keycount \in 1..INNER_KEYS
      /\ \A i \in ChildIdx : (d.children[i] = Null) <=> (i > d.keycount)
      /\ \A i \in 0..d.keycount - 1 : d.ikeys[i] # NoKey

\* Every child's parent pointer points back to the inner node that holds
\* it, and tree_top has none: InnerUpdateAfterSplit follows these pointers
\* up from a split leaf, so a stale one sends a separator to the wrong node.
ParentLinked ==
  open /\ top # Null =>
    /\ node[top].parent = Null
    /\ \A n \in TreeInnerNodes : \A c \in Kids(n) : node[c].parent = n

\* Every root-to-leaf path has the same length (spec 8.5).
Balanced == open /\ top # Null => Cardinality(LeafDepths(top)) = 1

\* Separators split the key space: every leaf descriptor's range (lo, hi]
\* is non-empty, and every key in its mirror lies in it, so LeafSearch
\* finds a stored key in the leaf that holds it (spec 3, 8.6).
SeparatorsBound ==
  open /\ top # Null =>
    \A r \in Ranges(top, MinusInf, PlusInf) :
      /\ r[2] < r[3]
      /\ \A s \in Slots : node[r[1]].hashes[s] # 0 => r[2] < node[r[1]].keys[s] /\ node[r[1]].keys[s] <= r[3]

\* Each descriptor's hash and key arrays mirror its persistent leaf: a slot
\* is empty in the mirror iff its block is null, else the mirror holds the
\* block's key and PearsonHash(key) (spec 3, 9: "the descriptor is a cache").
MirrorMatchesLeaf ==
  open => \A n \in TreeLeafNodes, s \in Slots :
    LET c == slot[node[n].leaf][s] IN
    /\ node[n].keys[s] = c.key
    /\ node[n].hashes[s] = StoredHash(c)

\* Every leaf on the persistent list is either behind exactly one
\* descriptor of the tree or on leaves_prealloc, never both, and every
\* leaf on leaves_prealloc is empty, so a split or first Put that recycles
\* it never overwrites live slots (spec 3, 9). In the terms of
\* MVTree::Analyze: leaf_total is the descriptors plus leaf_prealloc, and
\* leaf_prealloc never exceeds leaf_empty.
LeavesAccounted ==
  open =>
    /\ Analyze.leaf_total = Cardinality(TreeLeafNodes) + Analyze.leaf_prealloc
    /\ Analyze.leaf_prealloc <= Analyze.leaf_empty
    /\ ToSet(plist) = {node[n].leaf : n \in TreeLeafNodes} \cup ToSet(prealloc)
    /\ \A i \in DOMAIN prealloc : IsEmptyLeaf(prealloc[i])

\* MVTree::Free destroys all persistent state of the engine (spec 6): once
\* it returns, no leaf it deleted still owns a key/value block.  A block
\* is freed only by MVSlot::clear or MVSlot::set; Free calls neither, and
\* delete_persistent_atomic<MVLeaf> only deallocates the leaf itself.
FreeReleasesBlocks ==
  rootFreed /\ fpos = 0 => \A l \in freed, s \in Slots : slot[l][s] = EmptySlot

\* Free is all or nothing across a crash: a pool left behind by a crash
\* (a Close) either has nothing deleted or has been freed entirely, so
\* that kv_root->head never names a deleted leaf for Recover to walk.
FreeAllOrNothing ==
  ~open => freed = {} \/ (rootFreed /\ ToSet(plist) \subseteq freed)

KV == INSTANCE KVStore WITH store <- PMap

\* The pool's contents implement the key-value store the replies promise:
\* a Put that replies Ok has stored its value, a Remove that replies Ok
\* has erased its key, and nothing else (a failed call, a split, a crash,
\* Recover) changes what the pool holds (spec 4.7-4.9, 7, 8.1, 8.7).
KVRefinement == KV!Spec

-----------------------------------------------------------------------------

Init ==
  /\ plist = <<>>
  /\ slot = [l \in Leaves |-> [s \in Slots |-> EmptySlot]]
  /\ open = FALSE
  /\ top = Null
  /\ node = [n \in Nodes |-> FreeNode]
  /\ prealloc = <<>>
  /\ lastOp = Reply("none", NoKey, NoValue, "ok")
  /\ freed = {}
  /\ rootFreed = FALSE
  /\ fpos = 0
  /\ frees = 0

Next ==
  \/ Close
  \/ FreeBegin \/ FreeLeaf \/ FreeRoot
  \/ Open
  \/ \E k \in Keys :
       \/ RemoveAbsent(k)
       \/ \E o \in ClearOutcomes : RemoveSlot(k, o)
       \/ \E v \in Values :
            \/ \E a \in Aborts("fill") : PutHead(k, v, a) \/ PutFill(k, v, a)
            \/ \E a \in Aborts("split") : PutSplit(k, v, a)

Spec == Init /\ [][Next]_vars

=============================================================================
