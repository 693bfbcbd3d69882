# TLA+ models of the MVTree engine (pmemkv)

These modules model `src/src/engines/mvtree.cc`, the MVTree key-value engine. The
engine keeps key/value pairs in a persistent-memory pool. A volatile B+-tree over
that pool routes each key to the leaf that holds it. Every definition is written
from the C++ source. `PROJECT.json` "map" names the lines each definition stands for.

## The system

| Part | Code | State |
|---|---|---|
| Pearson hash | `PEARSON_LOOKUP_TABLE`, `MVTree::PearsonHash` (612-642) | none: a pure function from key bytes to a byte that is never 0 |
| Persistent slot | `MVSlot::empty/clear/set` (648-687) | a block holding hash, key and value, or null; `clear` zeroes the header with unlogged writes before freeing |
| Persistent leaf list | `MVRoot::head`, `MVLeaf::next`, `MVLeaf::slots` | leaves only ever prepended; deleted only by `Free` |
| Leaf descriptor | `MVLeafNode`: `hashes[]`, `keys[]`, `leaf`, `parent` | a volatile mirror of one leaf's hashes and keys |
| Inner node | `MVInnerNode`: `keycount`, `keys[]`, `children[]`, `parent` | volatile separators and children |
| Tree engine | `tree_top`, `LeafSearch`, `LeafFill*`, `LeafSplitFull`, `InnerUpdateAfterSplit` (356-531) | routing; insertion with leaf and inner-node splits |
| Leaf recycling | `leaves_prealloc` (a `std::vector`) | empty leaves that Recover found, reused by Put and by splits |
| Recovery | `MVTree::Recover` (537-606), run by all three constructors | rebuilds every descriptor and the tree from the leaves |
| Public operations | `Put`, `Remove`, `Get` (two variants), `ListAllKeys`, `ListAllKeyValuePairs`, `TotalNumKeys`, `Analyze` | each holds `shared_mutex` for its whole body |
| Free | `MVTree::Free` (336-349) | deletes every leaf and then the root, one durable `delete_persistent_atomic` at a time, under the unique lock |

How the parts interact:

- A Put hashes the key and descends `tree_top` to a leaf descriptor. It scans the mirror for the key (hash first, then key) or for an empty slot, then sets the persistent slot in a pmemobj transaction.
- When the leaf is full, `LeafSplitFull` takes a new leaf, from `leaves_prealloc` or freshly allocated and prepended to the list. In the same transaction it swaps every slot whose key sorts above the split key into the new leaf and fills the new key. Outside the transaction, `InnerUpdateAfterSplit` inserts the split key into the parent. An overfull parent is split in turn, and a new `tree_top` is grown when needed.
- Nothing of the tree is persistent. Reopening the pool (and so a crash) runs `Recover`:
  - each leaf's mirror is rebuilt from its slots;
  - empty leaves go to `leaves_prealloc`;
  - the other leaves are sorted by their highest key (a stable `std::list::sort`) and linked in with `InnerUpdateAfterSplit`, with each leaf's highest key as the separator.
- A pmemobj transaction rolls back the persistent writes made in its body when it aborts, but not the volatile ones. Put catches the abort and returns `FAILED`. Remove does not catch it.
- `Free` walks the list from `kv_root->head`, deleting each leaf, and then deletes the root. It never updates `head` and never resets `kv_root`, `tree_top` or `leaves_prealloc`. Each delete is durable on its own, so a crash can stop the walk anywhere.

## Modules

- **`PearsonHash.tla`** holds operators only.
  - `PEARSON_LOOKUP_TABLE` is checked equal to the source's table.
  - `TableIndex` is the `int` value of `hash ^ data[i]`. On an ABI where `char` is signed (`CharIsSigned`), a byte ≥ 0x80 is negative.
  - `TableRead` models a read outside the table, which is undefined behaviour, as any byte.
  - `Chain` is the loop from the last byte to the first, over the set of possible accumulators.
  - `PearsonHash` is the set of results the code may return.
  - `ReferenceHash` is the RFC 3074 hash written as `FoldRight` over the unsigned bytes. It is the reference the loop is checked against.
- **`MCPearsonHash.tla`** is a harness. Init picks every key of at most `MaxLen` bytes from `Bytes`, and one step hashes it. `MatchesReference` is checked on a signed-char ABI, over bytes on both sides of 0x80.
- **`KVStore.tla`** is the abstract specification of what the engine promises:
  - a map from keys to values, with `lastOp` recording the last write call and its reply;
  - `Put(k,v)` and `Remove(k)` that reply ok change the map;
  - `PutFails` and `RemoveFails` change nothing.
- **`MVTree.tla`** is the engine.
  - Persistent variables: `plist` (the leaves from head, in list order) and `slot[leaf][i]`: `EmptySlot` (null block), a key/value pair, or `ZeroedSlot`, a block whose header `MVSlot::clear` zeroed before a transaction abort undid its `delete_persistent` and `kv = nullptr` but not its direct writes. `StoredHash` is the block's hash byte (0 for both).
  - Volatile variables:
    - `node[id]`: a leaf descriptor, an inner node, or free;
    - `top`;
    - `prealloc`;
    - `open`, which says whether an `MVTree` object exists;
    - `lastOp`.
  - Each public write runs under the unique lock and is one atomic action:
    - `PutHead` is Put into an empty tree;
    - `PutFill` is Put when `LeafFillSlotForKey` finds a slot;
    - `PutSplit` is Put through `LeafSplitFull` and `InnerUpdateAfterSplit`;
    - `RemoveAbsent` and `RemoveSlot` are the two paths of Remove. `RemoveSlot`'s `outcome` is how `MVSlot::clear` ends: committed, aborted before the zeroing (the slot is intact), or aborted after it (`ZeroedSlot`);
    - `Open` is a constructor followed by `Recover`;
    - `Close` is the destructor, or a crash. Both drop every volatile object and keep the pool as the last committed transaction left it.
    - `FreeBegin`, `FreeLeaf` (one loop iteration) and `FreeRoot` are `Free`. They hold the lock, so `Next` allows nothing but `Close` (a crash) between them. The variables are:
      - `fpos`, the loop's `pLeaf` as a position in `plist`;
      - `freed` and `rootFreed`, which record what the pool has deleted;
      - `frees`, which counts the calls against the bound `MaxFree`.
    - `Usable` holds until something is deleted. After that, every operation but `Close` and `Free` would dereference freed pool memory, which is undefined behaviour, so the model stops them.
  - The readers `Get`, `TotalNumKeys`, `ListAllKeys` and `Analyze` are operators over the state. So is `PMap`, the map that `ListAllKeyValuePairs` would list. `Analyze` is the record of the three counters the code fills (`leaf_empty`, `leaf_prealloc`, `leaf_total`); its `leaf_empty` counts leaves with no block, where Recover's `IsEmptyLeaf` counts leaves with no block of non-zero hash. Its `path` field, a copy of `pmpath`, is left out.
  - An action's `abort` argument says whether its transaction aborts. `ExecTx(w0, w1, abort)` rolls back `plist` and `slot` and keeps the volatile changes, exactly as pmemobj does.
  - Write paths are computed on a record `w` of the state they change. This lets `InnerUpdateAfterSplit` and `BuildTree` (Recover's loop) be RECURSIVE operators that follow the code's own recursion and loop.
- **`MCMVTree.tla`** gives the bounds.
  - Keys 1..4 stand for `"ab" < "ac" < "cy" < "lj"`.
  - `KeyHash` is `PearsonHash` of those bytes, written out as numbers so that TLC does not recompute it at every use; an `ASSUME` checks each against `PearsonHash`. The pairs `"ab"/"lj"` and `"ac"/"cy"` collide, so the mirror scans meet equal hashes of different keys.
  - The empty key `""` is key 0, the same string `NoKey` stands for in an empty mirror slot. The code tells the two apart by the hash (0 only in empty slots, since `PearsonHash` never returns 0) and by the block. The deep run uses `""` with the four keys above.
  - A six-key set adds `"no"`. It is used by the odd-`INNER_KEYS` run.
  - Values are model values, and symmetry over them is sound: values are only stored, compared and returned.
- **`GetLimit.tla`** is the size check of `Get(limit, keybytes, valuebytes, key, value)`:
  - `Fits` is `vs <= limit`, with the `int32_t` limit converted to unsigned;
  - `Int32` is the store of the size into `*valuebytes`;
  - `GetLimitReply` is the whole reply.

  The integer width is the constant `Width` (32 in the code). TLC's own integers are 32-bit, so the runs use `Width = 8`, where the conversions behave the same way and every input can be enumerated. `ContractReply` is the reply spec 4.8 and S7 describe.
- **`MCGetLimit.tla`** is a harness: Init picks a size, a limit and whether the key is found, and one step computes the reply.
- **`MCMVTreeSteps.tla`** adds a step counter and `StepBound`. These cut behaviours after `MaxSteps` operations, for `deep` and `odd_inner`, whose full state spaces are beyond TLC.

The refinement mapping is `KV == INSTANCE KVStore WITH store <- PMap`. `lastOp` is shared, so a reply ok must carry the change it announces.

## Properties

All of these are in `MVTree.tla` unless noted.

- `LookupMatchesPool`: Get of every key (LeafSearch, then the mirror, then the block) returns what the pool holds.
- `KeysStoredOnce`: no key is in two slots. Equivalently, TotalNumKeys equals the number of distinct keys ListAllKeys returns.
- `InnerInvariants`: every reachable inner node passes `MVInnerNode::assert_invariants`, which debug builds run after every `InnerUpdateAfterSplit`: keycount, which children are null, and no empty separator.
- `ParentLinked`: every child's `parent` points back to its parent, and `tree_top` has none; split propagation climbs these pointers.
- `Balanced`: all leaves are at one depth.
- `SeparatorsBound`: every leaf's routing range (lo, hi] is non-empty and contains every key in its mirror.
- `MirrorMatchesLeaf`: each descriptor mirrors its leaf exactly.
- `LeavesAccounted`:
  - each leaf on the list is behind exactly one descriptor, or on `leaves_prealloc`;
  - every leaf on `leaves_prealloc` is empty.

  Stated in `Analyze`'s counters, this says that `leaf_total` is the number of descriptors plus `leaf_prealloc`, and that `leaf_prealloc` never exceeds `leaf_empty`.
- `KVRefinement`: the engine implements `KVStore`.
- `FreeReleasesBlocks`: once `Free` returns, no deleted leaf still owns a key/value block (spec 6: Free destroys all persistent state).
- `FreeAllOrNothing`: a pool left by a crash has either nothing deleted or everything deleted.
- `MatchesReference` is in `MCPearsonHash.tla`. `MatchesContract` (Get with a limit replies as spec 4.8 says) is in `MCGetLimit.tla`.

## Runs

| Run | Bounds | Result |
|---|---|---|
| `pearson_signed` | bytes {97,127,128,200,255}, signed char | **violation**: on `<<128>>` the table is read at index 1 ^ −128 = −127 |
| `core` (`MCMVTree.cfg`) | 4 keys, 2 values, 2 slots per leaf, 2 keys per inner node, 3 leaves, 5 nodes, no aborts, one `Free` call | passes, 344,047 states: the eight invariants and `KVRefinement` |
| `deep` (`MCMVTreeDeep.cfg`) | 5 keys (the empty key and 4 others), 1 value, 4 leaves, 7 nodes, ≤ 11 operations | passes, 64,176 states: inner-node splits, a third level, and routing through an empty separator after Recover (`LookupMatchesPool`, `ParentLinked`, `Balanced`, `SeparatorsBound`) |
| `free_crash` (`MCMVTreeFreeCrash.cfg`) | core's bounds, 1 value, one `Free` call | **violation** of `FreeAllOrNothing` |
| `odd_inner` (`MCMVTreeOddInner.cfg`) | 6 keys, `INNER_KEYS = 3`, 5 leaves, 8 nodes, ≤ 7 operations | **violation** of `InnerInvariants` |
| `getlimit` (`MCGetLimit.cfg`) | width 8, every size in 0..255 and limit in −128..127 | **violation** of `MatchesContract` |
| `fill_abort` | fill transactions may abort | **violation** of `LookupMatchesPool` |
| `split_abort` | split transactions may abort | **violation** of `KVRefinement` |
| `remove_abort` | Remove's transaction may abort | **violation** of `LookupMatchesPool` |
| `leak_abort` | fill transactions may abort | **violation** of `LeavesAccounted` |
| `empty_key` (`MCMVTreeEmptyKey.cfg`) | the empty key and 4 others, 3 leaves, 5 nodes | **violation** of `InnerInvariants` |
| `free_leak` (`MCMVTreeFreeLeak.cfg`) | 4 keys, 2 leaves, one `Free` call | **violation** of `FreeReleasesBlocks` |

Bounds, and why they are enough:

- Two slots per leaf and two keys per inner node are the smallest sizes with a split midpoint on each side.
- A leaf split keeps two of the three keys it sorts on the left. So 4 keys fill at most 3 leaves, and with 3 leaves and 5 nodes `core` covers its whole reachable state space. The same run with 4 leaves and 7 nodes has exactly the same number of states.
- An inner-node split needs a fourth leaf, and so 5 keys. Open, then Put the keys from the highest down to the second-lowest and then the lowest, splits tree_top at step 6. `deep` allows 11 steps: a crash and a Recover of that tree, then three more operations (Removes that empty leaves of the recovered tree, and Puts that refill or split them).
- `core` also allows one `Free` from any state it reaches, with a crash possible between any two deletes. After `Free` returns and the process closes nothing can reopen the pool, so `core` does not check deadlock. Every other state has `Close` or `Open` enabled.
- With `INNER_KEYS = 3` an inner node splits at its fourth key, which takes five leaves. With six keys, Open, then Put 1, 6, 5, 4, 3, 2, reaches that split at step 7.
- In `GetLimit`, width 8 enumerates every size and limit. The conversions depend only on the sign bit and the wrap-around, which width 8 has as 32 does.

Every property of every passing run has a mutant in `PROJECT.json`. A mutant is a one-definition change modelling a plausible bug, such as:

- `<` for `<=` in LeafSearch;
- an empty slot preferred to the matching one;
- a missing reparent or pop_back;
- Recover not giving each next leaf its predecessor's parent;
- an unsorted Recover;
- the split key appended instead of inserted;
- one child short after an inner split;
- `MVSlot::set` inside the `if`;
- `keycount` not incremented after an insert into an inner node.

TLC finds the property violated under each one.

## What the violations show

1. **Signed char (`mvtree.cc:637`).** `data` is `const char *`. On x86 a key byte ≥ 0x80 gives a negative index into `PEARSON_LOOKUP_TABLE`. The hash is then undefined, against spec 8.4.
2. **Aborted fill (`:420`).** The mirror is written before `MVSlot::set`. An aborted allocation leaves the mirror naming a null block, and Get dereferences it.
3. **Aborted split (`:459`).** The mirror moves and the new key's mirror entry survive an abort, while the slot swap is undone. The counterexample:
   - Put(1), Put(3), then Put(2) fails;
   - the mirror now says slot 1 holds key 2, but it holds key 3;
   - Remove(2) replies OK and erases key 3.

   A later Put(3) stores key 3 twice. After Recover, the two leaves share a max key and one of them is misrouted.
4. **Aborted Remove (`:322`).** The mirror is cleared before the transaction and nothing catches the abort. The key stays in the pool but is invisible until reopen.
5. **Leaked leaf (`:284`, `:446`).** `pop_back()` inside an aborted transaction is not undone. The leaf is on neither list, and a pool with no other leaf then fails every Put.

6. **Aborted clear (`:658`).** When Remove's transaction aborts after `MVSlot::clear`'s direct writes, the slot keeps a zeroed block (`ZeroedSlot`). Recover skips it and recycles a leaf holding only such blocks, while `Analyze` and the enumerations still count them. `remove_abort` reports the mirror clearing at `:322` first.
7. **Crash inside Free (`:344`).** Each `delete_persistent_atomic` is durable on its own, and `head` is never updated. A crash after the first delete leaves a live root whose head names a deleted leaf, and the next constructor's `Recover` walks freed memory.
8. **Odd `INNER_KEYS` (`:521`).** With `INNER_KEYS = 3`, the split moves children 2..4 to the new node but leaves `keycount = 2`, so `children[2]` is null. `new_split_key` reads the moved-from `keys[2]`, an empty string. Spec section 3 does not require `INNER_KEYS` to be even.
9. **Negative buffer limit (`:233`).** `vs <= limit` converts the `int32_t` limit to unsigned. A negative limit then admits every value: Get copies it into the caller's buffer and replies OK, where spec 4.8 says Failure. The counterexample has a value of size 0 and limit −128: nothing is copied, but the reply is OK where it must be Failure; any larger value would overrun the caller's buffer.

10. **The empty key as a separator (`:594`, `:696`).** Put `""`, `"ab"`, `"ac"` splits a leaf, and Remove `"ab"` leaves `""` alone in it. After a crash, Recover takes that leaf's `max_key`, `""`, as a separator, and a debug build's `assert(keys[i].size() > 0)` in `assert_invariants` aborts the constructor, so that pool cannot be reopened. Release builds still route correctly (`deep`). Spec section 1 allows any byte string as a key.
11. **Blocks left by Free (`:344`).** `delete_persistent_atomic` frees a leaf without running a destructor, and `Free` never calls `MVSlot::clear`: after Open, Put and Free the pair's block is still allocated with nothing pointing at it, against spec 6 ("Free() destroys all persistent state").

Spec section 7 promises that volatile state is not mutated on failure. Findings 2-6 are the places where the code does not keep that promise.

## Fairness

No property is a liveness property, and no specification adds fairness. The public operations happen only if a caller makes them: there are no background threads, retries or timeouts, and `std::shared_mutex` promises no fairness between readers and writers. `Free` is the one multi-step operation, and its steps are plain `delete_persistent_atomic` calls under the unique lock, with a crash possible between any two; what matters about them is the state a crash leaves (`FreeAllOrNothing`) and the state a return leaves (`FreeReleasesBlocks`).

## Not modelled, and the plan

- **Operations after `Free`, or after a crash inside it.** These read or write freed pool memory, and what that memory holds is undefined. The model stops at that point, allowing only `Close` and a further `Free`.
- **A second `Free` call** (`:339`). `kv_root` is tested but never reset, so a second call would read `head` from the deleted root and delete the root, and the leaves it still names, again. The runs allow one call (`MaxFree = 1`), because what that read returns is undefined.
- **`LeafSearch` through a null child.** After the odd-`INNER_KEYS` split this is a null dereference. The `odd_inner` run stops at the malformed tree.
- **The lookup part of Get with a buffer** is that of `Get`, which `MVTree` models. `GetLimit` takes the size type of `kv.valsize()` to be `uint32_t`, as `MVSlot::set` stores it (`:682`). The header that declares it is not under `src/`.
- **Pool file create/open** and the null-handle check are I/O. `Init` is a freshly created empty pool.
- **The slot's byte layout** (hash, sizes, key and value bytes in one block) is abstracted to a key/value pair, whose hash byte is `PearsonHash(key)`, or to `ZeroedSlot`, whose hash and sizes are 0.
- **The `mvtree.h` constants** `LEAF_KEYS_MIDPOINT`, `INNER_KEYS_UPPER` and `INNER_KEYS_MIDPOINT`, and the node and array shapes, are taken from the spec because the header is not under `src/`. They are marked `spec_modelled`.
