--------------------------- MODULE OrderedMapSpec ---------------------------
(***************************************************************************)
(* What details/ordered_map.h keeps: a finite map together with the        *)
(* order its keys were inserted in.  Each map is the function content[m]   *)
(* and the strict total order before[m] on its keys.  There is no vector,  *)
(* no index and no intermediate state of the two members: OrderedMap is    *)
(* shown to implement this module.                                         *)
(***************************************************************************)
EXTENDS Naturals, Sequences, Functions

CONSTANTS Key, Val, Default, NoKey, Lists

VARIABLES
  content,  \* the bound keys and their values
  before,   \* <<x, y>>: x was inserted before y, and both are still bound
  node,     \* the node handle held by the client, or <<>>
  merging,  \* <<dst, src>> while a merge of src into dst runs, or <<>>
  ret       \* the result of the last call

vars == <<content, before, node, merging, ret>>

Maps == {"a", "b"}
Bound(m) == DOMAIN content[m]

(* The element that follows k, which erase(k) returns.                     *)
Follows(m, k, y) ==
  IF y = NoKey
  THEN \A z \in Bound(m) : <<k, z>> \notin before[m]
  ELSE /\ <<k, y>> \in before[m]
       /\ \A z \in Bound(m) : <<k, z>> \in before[m]
                                => z = y \/ <<y, z>> \in before[m]

Extend(f, k, v) == [x \in DOMAIN f \cup {k} |-> IF x = k THEN v ELSE f[x]]
Without(order, S) == {p \in order : p[1] \notin S /\ p[2] \notin S}

AddLast(m, k, v) ==
  /\ content' = [content EXCEPT ![m] = Extend(@, k, v)]
  /\ before' = [before EXCEPT ![m] = @ \cup {<<x, k>> : x \in Bound(m)}]

Remove(m, S) ==
  /\ content' = [content EXCEPT ![m] = Restrict(@, DOMAIN @ \ S)]
  /\ before' = [before EXCEPT ![m] = Without(@, S)]

Result(key, ok) == ret' = [key |-> key, ok |-> ok]

-----------------------------------------------------------------------------
Insert(m, k, v) ==
  /\ IF k \in Bound(m) THEN UNCHANGED <<content, before>> ELSE AddLast(m, k, v)
  /\ Result(k, k \notin Bound(m))
  /\ UNCHANGED <<node, merging>>

(* insert of a pair that is moved: a new key is last as always, but which  *)
(* element the iterator points to, if any, is not promised.                *)
InsertPair(m, k, v) ==
  \/ k \in Bound(m) /\ Insert(m, k, v)
  \/ /\ k \notin Bound(m)
     /\ AddLast(m, k, v)
     /\ \E y \in Bound(m) \cup {k, NoKey} : Result(y, TRUE)
     /\ UNCHANGED <<node, merging>>

InsertNode(m) ==
  /\ UNCHANGED merging
  /\ \/ node = <<>> /\ Result(NoKey, FALSE) /\ UNCHANGED <<content, before, node>>
     \/ /\ node # <<>> /\ node[1] \in Bound(m)
        /\ Result(node[1], FALSE) /\ UNCHANGED <<content, before, node>>
     \/ /\ node # <<>> /\ node[1] \notin Bound(m)
        /\ AddLast(m, node[1], node[2])
        /\ node' = <<>> /\ Result(node[1], TRUE)

InsertOrAssign(m, k, v) ==
  /\ IF k \in Bound(m)
     THEN content' = [content EXCEPT ![m][k] = v] /\ UNCHANGED before
     ELSE AddLast(m, k, v)
  /\ Result(k, k \notin Bound(m))
  /\ UNCHANGED <<node, merging>>

Subscript(m, k) ==
  /\ IF k \in Bound(m) THEN UNCHANGED <<content, before>> ELSE AddLast(m, k, Default)
  /\ Result(k, TRUE)
  /\ UNCHANGED <<node, merging>>

EraseKey(m, k) ==
  /\ Remove(m, {k})
  /\ Result(NoKey, k \in Bound(m))
  /\ UNCHANGED <<node, merging>>

ErasePos(m, k) ==
  /\ k \in Bound(m)
  /\ Remove(m, {k})
  /\ \E y \in Bound(m) \cup {NoKey} : Follows(m, k, y) /\ Result(y, TRUE)
  /\ UNCHANGED <<node, merging>>

(* The range erased is convex in the order; y is the element after it.     *)
EraseRange(m, S, y) ==
  /\ y \notin S
  /\ \A x \in S : y # NoKey => <<x, y>> \in before[m]
  /\ \A x \in S, z \in Bound(m) \ S :
        <<x, z>> \in before[m] => y # NoKey /\ (z = y \/ <<y, z>> \in before[m])
  /\ Remove(m, S)
  /\ Result(y, TRUE)
  /\ UNCHANGED <<node, merging>>

Extract(m, k) ==
  /\ Remove(m, {k})
  /\ node' = IF k \in Bound(m) THEN <<k, content[m][k]>> ELSE <<>>
  /\ Result(NoKey, k \in Bound(m))
  /\ UNCHANGED merging

(* clear, swap, copy and list assignment replace whole maps.               *)
Replace(c, b) ==
  /\ content' = c
  /\ before' = b
  /\ Result(NoKey, TRUE)
  /\ UNCHANGED <<node, merging>>

Clear(m) == Replace([content EXCEPT ![m] = <<>>], [before EXCEPT ![m] = {}])
Swap == Replace([a |-> content["b"], b |-> content["a"]],
                [a |-> before["b"], b |-> before["a"]])
CopyAssign(dst, src) == Replace([content EXCEPT ![dst] = content[src]],
                                [before EXCEPT ![dst] = before[src]])

(* A list of pairs with distinct keys, in its order.                       *)
ListContent(l) ==
  [k \in {l[i][1] : i \in DOMAIN l} |->
     l[CHOOSE i \in DOMAIN l : l[i][1] = k][2]]
ListOrder(l) ==
  {<<l[p[1]][1], l[p[2]][1]>> :
     p \in {q \in (DOMAIN l) \X (DOMAIN l) : q[1] < q[2]}}
ListAssign(m, l) == Replace([content EXCEPT ![m] = ListContent(l)],
                            [before EXCEPT ![m] = ListOrder(l)])

-----------------------------------------------------------------------------
(* merge moves, in the order of src, every key that dst lacks to the end   *)
(* of dst; it is over only when nothing is left to move.                   *)
MergeBegin(dst, src) ==
  /\ merging = <<>>
  /\ merging' = <<dst, src>>
  /\ UNCHANGED <<content, before, node, ret>>

MergeMove(dst, src, k) ==
  /\ merging = <<dst, src>>
  /\ k \in Bound(src) \ Bound(dst)
  /\ \A x \in Bound(src) \ Bound(dst) : <<x, k>> \notin before[src]
  /\ content' = [content EXCEPT ![src] = Restrict(@, DOMAIN @ \ {k}),
                                ![dst] = Extend(@, k, content[src][k])]
  /\ before' = [before EXCEPT ![src] = Without(@, {k}),
                              ![dst] = @ \cup {<<x, k>> : x \in Bound(dst)}]
  /\ UNCHANGED <<node, merging, ret>>

MergeEnd ==
  /\ merging # <<>>
  /\ Bound(merging[2]) \subseteq Bound(merging[1])
  /\ merging' = <<>>
  /\ Result(NoKey, TRUE)
  /\ UNCHANGED <<content, before, node>>

-----------------------------------------------------------------------------
Init ==
  /\ content = [m \in Maps |-> <<>>]
  /\ before = [m \in Maps |-> {}]
  /\ node = <<>>
  /\ merging = <<>>
  /\ ret = [key |-> NoKey, ok |-> TRUE]

Next ==
  \/ \E m \in Maps, k \in Key, v \in Val :
        Insert(m, k, v) \/ InsertPair(m, k, v) \/ InsertOrAssign(m, k, v)
  \/ \E m \in Maps, k \in Key :
        Subscript(m, k) \/ EraseKey(m, k) \/ ErasePos(m, k) \/ Extract(m, k)
  \/ \E m \in Maps : InsertNode(m) \/ Clear(m)
  \/ \E m \in Maps : \E S \in SUBSET Bound(m), y \in Bound(m) \cup {NoKey} :
        EraseRange(m, S, y)
  \/ Swap
  \/ \E dst, src \in Maps : CopyAssign(dst, src) \/ MergeBegin(dst, src)
  \/ \E m \in Maps, l \in Lists : ListAssign(m, l)
  \/ \E dst, src \in Maps, k \in Key : MergeMove(dst, src, k)
  \/ MergeEnd

Spec == Init /\ [][Next]_vars
=============================================================================
