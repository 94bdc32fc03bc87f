----------------------------- MODULE OrderedMap -----------------------------
(***************************************************************************)
(* details/ordered_map.h: the container behind every struct of a config.   *)
(* It keeps two members in step: map_, an unordered map from keys to       *)
(* values, and keys_, the vector of the keys in insertion order.  The      *)
(* module models two such maps "a" and "b" of one client (merge, swap,     *)
(* copy and node handles act on two maps), the node handle the client      *)
(* holds, a merge in progress (its loop is split into steps because it     *)
(* leaves source.map_ and source.keys_ different until it ends) and one    *)
(* iterator loop over "a" that may erase while it iterates.                *)
(***************************************************************************)
EXTENDS Naturals, Sequences, SequencesExt

CONSTANTS
  Key,      \* the keys
  Val,      \* the mapped values
  Default,  \* the value-initialised mapped value, T{}
  NoKey,    \* the key of an iterator that is not dereferenceable (nullopt)
  Lists     \* the initializer lists a client assigns: sequences of pairs

ASSUME DefaultAssumption == Default \in Val
ASSUME NoKeyAssumption == NoKey \notin Key
\* Every list the library, its tests and its examples write has distinct keys.
ASSUME ListsAssumption ==
  /\ Lists \subseteq Seq(Key \X Val)
  /\ \A l \in Lists : \A i, j \in DOMAIN l : l[i][1] = l[j][1] => i = j

VARIABLES
  map,    \* map_ of each map: a function from the bound keys to their values
  keys,   \* keys_ of each map
  node,   \* the node handle (node_type) of the client: <<key, value>> or <<>>
  merge,  \* the merge call in progress
  loop,   \* the iterator loop in progress over "a"
  ret     \* what the last call returned: [key |-> of the iterator, ok |-> flag]

vars == <<map, keys, node, merge, loop, ret>>

Maps == {"a", "b"}
NoNode == <<>>
NoMerge == [dst |-> "a", src |-> "a", at |-> 0, moved |-> <<>>]
NoLoop == [index |-> 0, key |-> NoKey, seen |-> <<>>, start |-> <<>>, live |-> FALSE]

Idle == merge = NoMerge /\ ~loop.live

EmptyMap == [k \in {} |-> Default]
Put(f, k, v) == [x \in DOMAIN f \cup {k} |-> IF x = k THEN v ELSE f[x]]
Drop(f, k) == Restrict(f, DOMAIN f \ {k})

-----------------------------------------------------------------------------
(* Observers. *)

Contains_(m, k) == k \in DOMAIN map[m]
Empty(m) == DOMAIN map[m] = {}
Size(m) == Len(keys[m])

(* get_index: the position of k in keys_, or size() when map_ has no k.    *)
FirstIndex(s, k) ==
  CHOOSE i \in DOMAIN s : s[i] = k /\ \A j \in DOMAIN s : s[j] = k => i <= j
GetIndex(m, k) ==
  IF Contains_(m, k) THEN FirstIndex(keys[m], k) - 1 ELSE Len(keys[m])

(* update_key_from_index: the key an iterator at (0-based) index caches.   *)
KeyAt(s, index) == IF index < Len(s) THEN s[index + 1] ELSE NoKey

(* What find(k) and upper_bound(k) dereference to.                         *)
Find(m, k) == KeyAt(keys[m], GetIndex(m, k))
UpperBound(m, k) ==
  IF Contains_(m, k) THEN KeyAt(keys[m], GetIndex(m, k) + 1) ELSE NoKey

-----------------------------------------------------------------------------
(* Modifiers. *)

Bind(m, k, v) ==
  /\ keys' = [keys EXCEPT ![m] = Append(@, k)]
  /\ map' = [map EXCEPT ![m] = Put(@, k, v)]

(* Mutant: the key stays in keys_.                                         *)
UnbindMapOnly(m, k) ==
  map' = [map EXCEPT ![m] = Drop(@, k)] /\ UNCHANGED keys
Unbind(m, k) ==
  /\ map' = [map EXCEPT ![m] = Drop(@, k)]
  /\ keys' = [keys EXCEPT ![m] = RemoveAt(@, FirstIndex(@, k))]

(* insert of a value_type, or of a pair that is copied: a bound key keeps  *)
(* its value and its place.                                                *)
Insert(m, k, v) ==
  /\ Idle
  /\ IF Contains_(m, k) THEN UNCHANGED <<map, keys>> ELSE Bind(m, k, v)
  /\ ret' = [key |-> k, ok |-> ~Contains_(m, k)]
  /\ UNCHANGED <<node, merge, loop>>

(* insert(Pair&&) of a std::pair<Key, T> rvalue: x is moved into map_, and *)
(* the iterator is made from what the move has left in x.first, which may  *)
(* be the old key, another one, or one that is not bound.                  *)
InsertPair(m, k, v) ==
  /\ Idle
  /\ IF Contains_(m, k)
     THEN UNCHANGED <<map, keys>> /\ ret' = [key |-> k, ok |-> FALSE]
     ELSE /\ Bind(m, k, v)
          /\ \E x \in Key \cup {NoKey} :
               ret' = [key |-> IF x \in DOMAIN map'[m] THEN x ELSE NoKey, ok |-> TRUE]
  /\ UNCHANGED <<node, merge, loop>>

(* emplace, emplace_hint and try_emplace keep a copy of the key.           *)
Emplace(m, k, v) == Insert(m, k, v)

(* insert(node_type&&): the handle keeps its node when the key is bound.   *)
InsertNode(m) ==
  /\ Idle
  /\ IF node = NoNode
     THEN /\ ret' = [key |-> NoKey, ok |-> FALSE]
          /\ UNCHANGED <<map, keys, node>>
     ELSE /\ ret' = [key |-> node[1], ok |-> ~Contains_(m, node[1])]
          /\ IF Contains_(m, node[1])
             THEN UNCHANGED <<map, keys, node>>
             ELSE Bind(m, node[1], node[2]) /\ node' = NoNode
  /\ UNCHANGED <<merge, loop>>

(* Mutant: an assigned key moves to the end.                               *)
InsertOrAssignMoves(m, k, v) ==
  /\ Idle
  /\ map' = [map EXCEPT ![m] = Put(@, k, v)]
  /\ keys' = [keys EXCEPT ![m] = Append(SelectSeq(@, LAMBDA x : x # k), k)]
  /\ ret' = [key |-> k, ok |-> ~Contains_(m, k)]
  /\ UNCHANGED <<node, merge, loop>>

(* insert_or_assign, which is also what m[k] = v does.                     *)
InsertOrAssign(m, k, v) ==
  /\ Idle
  /\ IF Contains_(m, k)
     THEN map' = [map EXCEPT ![m][k] = v] /\ UNCHANGED keys
     ELSE Bind(m, k, v)
  /\ ret' = [key |-> k, ok |-> ~Contains_(m, k)]
  /\ UNCHANGED <<node, merge, loop>>

(* operator[] read: binds a missing key to T{}.                            *)
Subscript(m, k) ==
  /\ Idle
  /\ IF Contains_(m, k) THEN UNCHANGED <<map, keys>> ELSE Bind(m, k, Default)
  /\ ret' = [key |-> k, ok |-> TRUE]
  /\ UNCHANGED <<node, merge, loop>>

(* erase(key): ok is the number of keys erased.                            *)
EraseKey(m, k) ==
  /\ Idle
  /\ IF Contains_(m, k) THEN Unbind(m, k) ELSE UNCHANGED <<map, keys>>
  /\ ret' = [key |-> NoKey, ok |-> Contains_(m, k)]
  /\ UNCHANGED <<node, merge, loop>>

(* erase(pos) with pos at 1-based position i: returns the next element.    *)
ErasePos(m, i) ==
  /\ Idle
  /\ map' = [map EXCEPT ![m] = Drop(@, keys[m][i])]
  /\ keys' = [keys EXCEPT ![m] = RemoveAt(@, i)]
  /\ ret' = [key |-> KeyAt(keys'[m], i - 1), ok |-> TRUE]
  /\ UNCHANGED <<node, merge, loop>>

(* erase(first, last): positions i up to but not including j.              *)
EraseRange(m, i, j) ==
  /\ Idle
  /\ map' = [map EXCEPT ![m] =
               Restrict(@, DOMAIN @ \ {keys[m][x] : x \in i .. (j - 1)})]
  /\ keys' = [keys EXCEPT ![m] = SubSeq(@, 1, i - 1) \o SubSeq(@, j, Len(@))]
  /\ ret' = [key |-> KeyAt(keys'[m], i - 1), ok |-> TRUE]
  /\ UNCHANGED <<node, merge, loop>>

(* extract(key) and extract(position): unlinks the node into the handle.   *)
Extract(m, k) ==
  /\ Idle
  /\ IF Contains_(m, k)
     THEN Unbind(m, k) /\ node' = <<k, map[m][k]>>
     ELSE UNCHANGED <<map, keys>> /\ node' = NoNode
  /\ ret' = [key |-> NoKey, ok |-> Contains_(m, k)]
  /\ UNCHANGED <<merge, loop>>

Clear(m) ==
  /\ Idle
  /\ map' = [map EXCEPT ![m] = EmptyMap]
  /\ keys' = [keys EXCEPT ![m] = <<>>]
  /\ ret' = [key |-> NoKey, ok |-> TRUE]
  /\ UNCHANGED <<node, merge, loop>>

Other(m) == IF m = "a" THEN "b" ELSE "a"
Swap ==
  /\ Idle
  /\ map' = [m \in Maps |-> map[Other(m)]]
  /\ keys' = [m \in Maps |-> keys[Other(m)]]
  /\ ret' = [key |-> NoKey, ok |-> TRUE]
  /\ UNCHANGED <<node, merge, loop>>

(* The defaulted copy assignment.                                          *)
CopyAssign(dst, src) ==
  /\ Idle
  /\ map' = [map EXCEPT ![dst] = map[src]]
  /\ keys' = [keys EXCEPT ![dst] = keys[src]]
  /\ ret' = [key |-> NoKey, ok |-> TRUE]
  /\ UNCHANGED <<node, merge, loop>>

(* m = {{k, v}, ...}: map_ takes the first pair of each key, keys_ the key *)
(* of every pair.                                                          *)
ListKeys(l) == [i \in DOMAIN l |-> l[i][1]]
(* Mutant: the pair is stored for the value.                               *)
ListMapOfPairs(l) ==
  [k \in {l[i][1] : i \in DOMAIN l} |-> l[FirstIndex(ListKeys(l), k)]]
ListMap(l) ==
  [k \in {l[i][1] : i \in DOMAIN l} |-> l[FirstIndex(ListKeys(l), k)][2]]
ListAssign(m, l) ==
  /\ Idle
  /\ map' = [map EXCEPT ![m] = ListMap(l)]
  /\ keys' = [keys EXCEPT ![m] = ListKeys(l)]
  /\ ret' = [key |-> NoKey, ok |-> TRUE]
  /\ UNCHANGED <<node, merge, loop>>

-----------------------------------------------------------------------------
(* merge(source), one iteration of its loops per step. *)

MergeBegin(dst, src) ==
  /\ Idle
  /\ merge' = [dst |-> dst, src |-> src, at |-> 1, moved |-> <<>>]
  /\ UNCHANGED <<map, keys, node, loop, ret>>

(* for (auto& v : source): a key dst lacks is extracted from source.map_   *)
(* and inserted into dst; source.keys_ still lists it.                     *)
MergeMove ==
  LET src == merge.src
      dst == merge.dst
      k   == keys[src][merge.at]
  IN  /\ merge.at \in 1 .. Len(keys[src])
      /\ IF Contains_(dst, k)
         THEN /\ merge' = [merge EXCEPT !.at = @ + 1]
              /\ UNCHANGED <<map, keys>>
         ELSE /\ map' = [map EXCEPT ![src] = Drop(@, k),
                                    ![dst] = Put(@, k, map[src][k])]
              /\ keys' = [keys EXCEPT ![dst] = Append(@, k)]
              /\ merge' = [merge EXCEPT !.at = @ + 1, !.moved = Append(@, k)]
      /\ UNCHANGED <<node, loop, ret>>

(* The loop that removes the moved keys from source.keys_.                 *)
MergeTrim ==
  /\ merge.at > Len(keys[merge.src])
  /\ merge.moved # <<>>
  /\ keys' = [keys EXCEPT ![merge.src] =
                RemoveAt(@, FirstIndex(@, Head(merge.moved)))]
  /\ merge' = [merge EXCEPT !.moved = Tail(@)]
  /\ UNCHANGED <<map, node, loop, ret>>

MergeEnd ==
  /\ merge # NoMerge
  /\ merge.at > Len(keys[merge.src])
  /\ merge.moved = <<>>
  /\ merge' = NoMerge
  /\ ret' = [key |-> NoKey, ok |-> TRUE]
  /\ UNCHANGED <<map, keys, node, loop>>

-----------------------------------------------------------------------------
(* for (it = begin(); it != end();) *it, then ++it or it = erase(it).  An  *)
(* iterator is its index_ and the key_ it cached; seen and start are       *)
(* history: the keys dereferenced so far, and keys_ when the loop began.   *)

Iterator(s, index) == [index |-> index, key |-> KeyAt(s, index)]
At(it) == [loop EXCEPT !.index = it.index, !.key = it.key,
                       !.seen = Append(@, loop.key)]

LoopBegin ==
  /\ Idle
  /\ loop' = [index |-> 0, key |-> KeyAt(keys["a"], 0), seen |-> <<>>,
              start |-> keys["a"], live |-> TRUE]
  /\ UNCHANGED <<map, keys, node, merge, ret>>

LoopAdvance ==
  /\ loop.live
  /\ loop.index # Len(keys["a"])
  /\ loop' = At(Iterator(keys["a"], loop.index + 1))
  /\ UNCHANGED <<map, keys, node, merge, ret>>

(* Mutants: the next element is skipped; the cached key is not updated.    *)
EraseAndGoTo(index, key) ==
  /\ loop.live
  /\ loop.index # Len(keys["a"])
  /\ map' = [map EXCEPT !["a"] = Drop(@, loop.key)]
  /\ keys' = [keys EXCEPT !["a"] = RemoveAt(@, loop.index + 1)]
  /\ loop' = At([index |-> index, key |-> key])
  /\ ret' = [key |-> loop'.key, ok |-> TRUE]
  /\ UNCHANGED <<node, merge>>
LoopEraseSkips == EraseAndGoTo(loop.index + 1, KeyAt(keys'["a"], loop.index + 1))
LoopEraseStale == EraseAndGoTo(loop.index, loop.key)
LoopErase ==
  /\ loop.live
  /\ loop.index # Len(keys["a"])
  /\ map' = [map EXCEPT !["a"] = Drop(@, loop.key)]
  /\ keys' = [keys EXCEPT !["a"] = RemoveAt(@, loop.index + 1)]
  /\ loop' = At(Iterator(keys'["a"], loop.index))
  /\ ret' = [key |-> loop'.key, ok |-> TRUE]
  /\ UNCHANGED <<node, merge>>

LoopEnd ==
  /\ loop.live
  /\ loop.index = Len(keys["a"])
  /\ loop' = NoLoop
  /\ UNCHANGED <<map, keys, node, merge, ret>>

-----------------------------------------------------------------------------
Init ==
  /\ map = [m \in Maps |-> EmptyMap]
  /\ keys = [m \in Maps |-> <<>>]
  /\ node = NoNode
  /\ merge = NoMerge
  /\ loop = NoLoop
  /\ ret = [key |-> NoKey, ok |-> TRUE]

Modify(m) ==
  \/ \E k \in Key, v \in Val : Insert(m, k, v) \/ InsertPair(m, k, v)
                               \/ Emplace(m, k, v) \/ InsertOrAssign(m, k, v)
  \/ \E k \in Key : Subscript(m, k) \/ EraseKey(m, k) \/ Extract(m, k)
  \/ InsertNode(m)
  \/ \E i \in DOMAIN keys[m] : ErasePos(m, i)
  \/ \E i, j \in 1 .. (Len(keys[m]) + 1) : i <= j /\ EraseRange(m, i, j)
  \/ Clear(m)
  \/ \E l \in Lists : ListAssign(m, l)

MergeStep == MergeMove \/ MergeTrim \/ MergeEnd
LoopStep == LoopBegin \/ LoopAdvance \/ LoopErase \/ LoopEnd

Next ==
  \/ \E m \in Maps : Modify(m)
  \/ Swap
  \/ \E dst, src \in Maps : CopyAssign(dst, src) \/ MergeBegin(dst, src)
  \/ MergeStep
  \/ LoopStep

Spec == Init /\ [][Next]_vars
-----------------------------------------------------------------------------
(* Properties. *)

(* Every variable has its type.                                            *)
TypeOK ==
  /\ map \in [Maps -> UNION {[S -> Val] : S \in SUBSET Key}]
  /\ keys \in [Maps -> Seq(Key)]
  /\ node \in (Key \X Val) \cup {NoNode}
  /\ merge \in [dst : Maps, src : Maps, at : Nat, moved : Seq(Key)]
  /\ loop \in [index : Nat, key : Key \cup {NoKey}, seen : Seq(Key),
               start : Seq(Key), live : BOOLEAN]
  /\ ret \in [key : Key \cup {NoKey}, ok : BOOLEAN]

(* map_ and keys_ never part: keys_ lists every bound key exactly once.    *)
(* Only while a merge runs does source.keys_ also list the keys already    *)
(* moved out, the ones merge has yet to erase (ordered_map.h:687, 736).    *)
Pending(m) == IF merge.src = m THEN Range(merge.moved) ELSE {}
Consistent ==
  \A m \in Maps :
    /\ IsInjective(keys[m])
    /\ Range(keys[m]) = DOMAIN map[m] \cup Pending(m)
    /\ DOMAIN map[m] \cap Pending(m) = {}

(* Between calls the observers that read keys_ (size, find, upper_bound)   *)
(* and those that read map_ (empty, contains) describe one container, and  *)
(* walking from find(k) with upper_bound never meets an unbound key.       *)
ObserversAgree ==
  merge = NoMerge =>
    \A m \in Maps :
      /\ Empty(m) <=> Size(m) = 0
      /\ \A k \in Key :
           /\ Find(m, k) = (IF Contains_(m, k) THEN k ELSE NoKey)
           /\ UpperBound(m, k) \in DOMAIN map[m] \cup {NoKey}
           /\ UpperBound(m, k) # k

(* A loop that erases some elements through its iterator still visits each *)
(* key of the map once, in insertion order: what it has seen and what is   *)
(* ahead of it make up the map it started from.                            *)
LoopExact ==
  loop.live => loop.seen \o SubSeq(keys["a"], loop.index + 1, Len(keys["a"]))
                 = loop.start

(* The key an iterator caches is the one at its index, and is bound: the   *)
(* dereference map_->find(key_) always finds it (ordered_map.h:200-204).   *)
IteratorFresh ==
  loop.live => /\ loop.key = KeyAt(keys["a"], loop.index)
               /\ loop.key # NoKey => loop.key \in DOMAIN map["a"]

(* The container implements the insertion-ordered map of OrderedMapSpec.   *)
Order(m) ==
  {p \in (DOMAIN map[m]) \X (DOMAIN map[m]) :
     \E i, j \in DOMAIN keys[m] : /\ i < j
                                  /\ keys[m][i] = p[1]
                                  /\ keys[m][j] = p[2]}
Abstract == INSTANCE OrderedMapSpec WITH
  content <- map,
  before  <- [m \in Maps |-> Order(m)],
  merging <- IF merge = NoMerge THEN <<>> ELSE <<merge.dst, merge.src>>
Implements == Abstract!Spec
=============================================================================
