------------------------ MODULE OrderedMapRefinement ------------------------
(***************************************************************************)
(* OrderedMap implements OrderedMapSpec, for every set of keys and values: *)
(* each call of the two containers, each key that merge examines and each  *)
(* turn of a loop is a step of the insertion-ordered map, or a stutter.    *)
(***************************************************************************)
EXTENDS OrderedMapProofs

-----------------------------------------------------------------------------
(* The order that keys_ gives to the keys bound in map_. *)

Ord(mp, ks) ==
  {p \in (DOMAIN mp) \X (DOMAIN mp) :
     \E i, j \in DOMAIN ks : i < j /\ ks[i] = p[1] /\ ks[j] = p[2]}

Before == [m \in Maps |-> Order(m)]

(* A key bound last comes after all others.                                *)
LEMMA OrdAppend ==
  ASSUME NEW mp, NEW ks, Agree(mp, ks), NEW k \in Key, k \notin DOMAIN mp, NEW v
  PROVE  Ord(Put(mp, k, v), Append(ks, k)) = Ord(mp, ks) \cup {<<x, k>> : x \in DOMAIN mp}
<1> DEFINE t == Append(ks, k)
           D == DOMAIN mp
<1>1. /\ ks \in Seq(Key) /\ Len(ks) \in Nat /\ DOMAIN ks = 1 .. Len(ks)
      /\ DOMAIN t = 1 .. (Len(ks) + 1)
      /\ \A i \in DOMAIN ks : t[i] = ks[i] /\ ks[i] \in D
      /\ t[Len(ks) + 1] = k
      /\ \A x \in D : \E i \in DOMAIN ks : ks[i] = x
  BY DEF Agree, Range
<1>2. DOMAIN Put(mp, k, v) = D \cup {k}
  BY DEF Put
<1> HIDE DEF t
<1>3. ASSUME NEW x \in D \cup {k}, NEW y \in D \cup {k}
      PROVE  (\E i, j \in DOMAIN t : i < j /\ t[i] = x /\ t[j] = y)
               <=> \/ x \in D /\ y = k
                   \/ x \in D /\ y \in D /\ \E i, j \in DOMAIN ks : i < j /\ ks[i] = x /\ ks[j] = y
  <2>1. ASSUME NEW i \in DOMAIN t, NEW j \in DOMAIN t, i < j, t[i] = x, t[j] = y
        PROVE  \/ x \in D /\ y = k
               \/ x \in D /\ y \in D /\ \E a, b \in DOMAIN ks : a < b /\ ks[a] = x /\ ks[b] = y
    <3>1. i \in DOMAIN ks /\ x = ks[i]
      BY <1>1, <2>1
    <3>2. CASE j = Len(ks) + 1
      BY <1>1, <2>1, <3>1, <3>2
    <3>3. CASE j # Len(ks) + 1
      <4>1. j \in DOMAIN ks
        BY <1>1, <3>3
      <4> QED  BY <1>1, <2>1, <3>1, <4>1
    <3> QED  BY <3>2, <3>3
  <2>2. ASSUME x \in D, y = k
        PROVE  \E i, j \in DOMAIN t : i < j /\ t[i] = x /\ t[j] = y
    <3>1. PICK i \in DOMAIN ks : ks[i] = x
      BY <1>1, <2>2
    <3>2. i \in DOMAIN t /\ Len(ks) + 1 \in DOMAIN t /\ i < Len(ks) + 1
      BY <1>1
    <3> QED  BY <1>1, <2>2, <3>1, <3>2
  <2>3. ASSUME NEW i \in DOMAIN ks, NEW j \in DOMAIN ks, i < j, ks[i] = x, ks[j] = y
        PROVE  \E a, b \in DOMAIN t : a < b /\ t[a] = x /\ t[b] = y
    <3>1. i \in DOMAIN t /\ j \in DOMAIN t /\ t[i] = x /\ t[j] = y
      BY <1>1, <2>3
    <3> QED  BY <2>3, <3>1
  <2> QED  BY <2>1, <2>2, <2>3
<1>4. ASSUME NEW x, NEW y
      PROVE  <<x, y>> \in Ord(Put(mp, k, v), t)
               <=> <<x, y>> \in Ord(mp, ks) \cup {<<z, k>> : z \in D}
  BY <1>2, <1>3 DEF Ord
<1>5. /\ \A p \in Ord(Put(mp, k, v), t) : p = <<p[1], p[2]>>
      /\ \A p \in Ord(mp, ks) \cup {<<z, k>> : z \in D} : p = <<p[1], p[2]>>
  BY DEF Ord
<1> QED  BY <1>4, <1>5 DEF t

(* Without the keys that are no longer bound.                              *)
LEMMA OrdRestrict ==
  ASSUME NEW mp, NEW ks, NEW S
  PROVE  Ord(Restrict(mp, DOMAIN mp \ S), ks) = Abstract!Without(Ord(mp, ks), S)
<1>1. DOMAIN Restrict(mp, DOMAIN mp \ S) = DOMAIN mp \ S
  BY DEF Restrict
<1> QED  BY <1>1 DEF Ord, Abstract!Without

(* A position of Cut(s, i, j) and the position of s it comes from.         *)
From(x, i, j) == IF x < i THEN x ELSE x + (j - i)

(* Positions that bind nothing do not show in the order.                   *)
LEMMA OrdCut ==
  ASSUME NEW mp, NEW ks \in Seq(Key), NEW i \in 1 .. (Len(ks) + 1), NEW j \in i .. (Len(ks) + 1),
         \A x \in i .. (j - 1) : ks[x] \notin DOMAIN mp
  PROVE  Ord(mp, Cut(ks, i, j)) = Ord(mp, ks)
<1> DEFINE c == Cut(ks, i, j)
<1>1. /\ Len(ks) \in Nat /\ DOMAIN ks = 1 .. Len(ks)
      /\ Len(c) = Len(ks) - (j - i) /\ DOMAIN c = 1 .. (Len(ks) - (j - i))
      /\ \A x \in 1 .. (i - 1) : c[x] = ks[x]
      /\ \A x \in i .. (Len(ks) - (j - i)) : c[x] = ks[x + (j - i)]
      /\ i \in Nat /\ j \in Nat /\ i <= j /\ j <= Len(ks) + 1 /\ 1 <= i
  <2>1. /\ c \in Seq(Key)
        /\ Len(c) = Len(ks) - (j - i)
        /\ \A x \in 1 .. (i - 1) : c[x] = ks[x]
        /\ \A x \in i .. (Len(ks) - (j - i)) : c[x] = ks[x + (j - i)]
    BY CutElements
  <2> HIDE DEF c
  <2> QED  BY <2>1
<1> HIDE DEF c
<1>2. \A x \in DOMAIN c : From(x, i, j) \in DOMAIN ks /\ c[x] = ks[From(x, i, j)]
  BY <1>1, SMTT(30) DEF From
<1>3. \A x, y \in DOMAIN c : x < y => From(x, i, j) < From(y, i, j)
  BY <1>1 DEF From
<1>4. \A x \in DOMAIN ks : x \notin i .. (j - 1) => \E y \in DOMAIN c : From(y, i, j) = x
  <2> SUFFICES ASSUME NEW x \in DOMAIN ks, x \notin i .. (j - 1)
               PROVE  \E y \in DOMAIN c : From(y, i, j) = x
    OBVIOUS
  <2>1. CASE x < i
    BY <1>1, <2>1 DEF From
  <2>2. CASE ~(x < i)
    <3>1. x - (j - i) \in DOMAIN c /\ ~(x - (j - i) < i) /\ x - (j - i) + (j - i) = x
      BY <1>1, <2>2
    <3> QED  BY <3>1 DEF From
  <2> QED  BY <2>1, <2>2
<1>5. \A x, y \in DOMAIN c : From(x, i, j) < From(y, i, j) => x < y
  BY <1>1 DEF From
<1>6. ASSUME NEW x \in DOMAIN mp, NEW y \in DOMAIN mp
      PROVE  (\E a, b \in DOMAIN c : a < b /\ c[a] = x /\ c[b] = y)
               <=> (\E a, b \in DOMAIN ks : a < b /\ ks[a] = x /\ ks[b] = y)
  <2>1. ASSUME NEW a \in DOMAIN c, NEW b \in DOMAIN c, a < b, c[a] = x, c[b] = y
        PROVE  \E d, e \in DOMAIN ks : d < e /\ ks[d] = x /\ ks[e] = y
    BY <1>2, <1>3, <2>1
  <2>2. ASSUME NEW a \in DOMAIN ks, NEW b \in DOMAIN ks, a < b, ks[a] = x, ks[b] = y
        PROVE  \E d, e \in DOMAIN c : d < e /\ c[d] = x /\ c[e] = y
    <3>1. a \notin i .. (j - 1) /\ b \notin i .. (j - 1)
      BY <2>2
    <3>2. PICK d \in DOMAIN c : From(d, i, j) = a
      BY <1>4, <3>1
    <3>3. PICK e \in DOMAIN c : From(e, i, j) = b
      BY <1>4, <3>1
    <3> QED  BY <1>2, <1>5, <2>2, <3>2, <3>3
  <2> QED  BY <2>1, <2>2
<1> QED  BY <1>6 DEF Ord, c

(* The order of two keys is the order of their positions.                  *)
LEMMA OrdPositions ==
  ASSUME NEW mp, NEW ks, Agree(mp, ks), NEW i \in DOMAIN ks, NEW j \in DOMAIN ks
  PROVE  <<ks[i], ks[j]>> \in Ord(mp, ks) <=> i < j
<1>1. ks[i] \in DOMAIN mp /\ ks[j] \in DOMAIN mp
  BY DEF Agree, Range
<1>2. ASSUME NEW a \in DOMAIN ks, NEW b \in DOMAIN ks, ks[a] = ks[i], ks[b] = ks[j]
      PROVE  a = i /\ b = j
  BY <1>2 DEF Agree, IsInjective
<1> QED  BY <1>1, <1>2 DEF Ord

(* The key at a position is bound; it comes after the keys of all earlier  *)
(* positions and before those of all later ones.                           *)
LEMMA KeyAtOrder ==
  ASSUME NEW mp, NEW ks, Agree(mp, ks), NEW j \in 1 .. (Len(ks) + 1), NEW y, y = KeyAt(ks, j - 1)
  PROVE  /\ y \in DOMAIN mp \cup {NoKey}
         /\ y # NoKey <=> j <= Len(ks)
         /\ y # NoKey => y = ks[j]
         /\ \A x \in 1 .. (j - 1) : y # NoKey => <<ks[x], y>> \in Ord(mp, ks)
         /\ \A x \in DOMAIN ks : x >= j => y # NoKey /\ (ks[x] = y \/ <<y, ks[x]>> \in Ord(mp, ks))
<1>1. ks \in Seq(Key) /\ Len(ks) \in Nat /\ DOMAIN ks = 1 .. Len(ks) /\ \A x \in DOMAIN ks : ks[x] \in DOMAIN mp /\ ks[x] \in Key
  BY DEF Agree, Range
<1>2. CASE j <= Len(ks)
  <2>1. j \in DOMAIN ks /\ y = ks[j] /\ y # NoKey
    BY <1>1, <1>2, NoKeyAssumption DEF KeyAt
  <2>2. \A x \in 1 .. (j - 1) : x \in DOMAIN ks /\ x < j
    BY <1>1, <1>2
  <2>3. \A x \in 1 .. (j - 1) : <<ks[x], y>> \in Ord(mp, ks)
    BY <2>1, <2>2, OrdPositions
  <2>4. \A x \in DOMAIN ks : x >= j => x = j \/ j < x
    BY <1>1
  <2>5. \A x \in DOMAIN ks : x >= j => ks[x] = y \/ <<y, ks[x]>> \in Ord(mp, ks)
    BY <2>1, <2>4, OrdPositions
  <2> QED  BY <1>1, <1>2, <2>1, <2>3, <2>5
<1>3. CASE ~(j <= Len(ks))
  BY <1>1, <1>3 DEF KeyAt
<1> QED  BY <1>2, <1>3

(* The position i of what is left is position j of what was.               *)
LEMMA CutKeyAt ==
  ASSUME NEW ks \in Seq(Key), NEW i \in 1 .. (Len(ks) + 1), NEW j \in i .. (Len(ks) + 1)
  PROVE  KeyAt(Cut(ks, i, j), i - 1) = KeyAt(ks, j - 1)
<1> DEFINE c == Cut(ks, i, j)
<1>1. Len(ks) \in Nat /\ i \in Nat /\ j \in Nat /\ i <= j /\ 1 <= i
  OBVIOUS
<1>2. /\ Len(c) = Len(ks) - (j - i)
      /\ \A x \in i .. (Len(ks) - (j - i)) : c[x] = ks[x + (j - i)]
  BY CutElements
<1> HIDE DEF c
<1>3. CASE j <= Len(ks)
  <2>1. i \in i .. (Len(ks) - (j - i)) /\ i - 1 < Len(c) /\ j - 1 < Len(ks) /\ i + (j - i) = j
    BY <1>1, <1>2, <1>3
  <2>2. i - 1 + 1 = i /\ j - 1 + 1 = j
    BY <1>1
  <2> QED  BY <1>2, <2>1, <2>2 DEF KeyAt, c
<1>4. CASE ~(j <= Len(ks))
  <2>1. ~(i - 1 < Len(c)) /\ ~(j - 1 < Len(ks))
    BY <1>1, <1>2, <1>4
  <2> QED  BY <2>1 DEF KeyAt, c
<1> QED  BY <1>3, <1>4

-----------------------------------------------------------------------------
(* What a change of one map is to the insertion-ordered map. *)

(* The order of each map in the notation of the lemmas above, before and   *)
(* after a step.                                                           *)
LEMMA BeforeIsOrd ==
  /\ Before = [m \in Maps |-> Ord(map[m], keys[m])]
  /\ Before' = [m \in Maps |-> Ord(map'[m], keys'[m])]
BY DEF Before, Order, Ord

(* What a call that changes only m makes of it.                            *)
Becomes(m, mp, ks) ==
  /\ map' = [map EXCEPT ![m] = mp]
  /\ keys' = [keys EXCEPT ![m] = ks]

(* A call that changes one map changes the order of that map only.         *)
LEMMA OneMapOrder ==
  ASSUME TypeOK, NEW m \in Maps, NEW mp, NEW ks,
         Becomes(m, mp, ks)
  PROVE  Before' = [Before EXCEPT ![m] = Ord(mp, ks)]
<1>1. \A n \in Maps : map'[n] = (IF n = m THEN mp ELSE map[n]) /\ keys'[n] = (IF n = m THEN ks ELSE keys[n])
  BY DEF TypeOK, Becomes
<1> QED  BY <1>1, BeforeIsOrd

(* A key appended to keys_ and inserted into map_ is added last            *)
(* (ordered_map.h:387-388).                                                *)
LEMMA BindRefines ==
  ASSUME TypeOK, NEW m \in Maps, Agree(map[m], keys[m]),
         NEW k \in Key, k \notin DOMAIN map[m], NEW v, Bind(m, k, v)
  PROVE  Abstract!AddLast(m, k, v)
<1>1. Becomes(m, Put(map[m], k, v), Append(keys[m], k))
  BY DEF Bind, TypeOK, Becomes
<1>2. Before' = [Before EXCEPT ![m] = Ord(Put(map[m], k, v), Append(keys[m], k))]
  BY <1>1, OneMapOrder
<1>3. Ord(Put(map[m], k, v), Append(keys[m], k)) = Before[m] \cup {<<x, k>> : x \in DOMAIN map[m]}
  BY OrdAppend, BeforeIsOrd
<1> QED  BY <1>1, <1>2, <1>3
            DEF Becomes, Abstract!AddLast, Abstract!Extend, Put, Before, Abstract!Bound

(* Keys are removed when what is left keeps its values and its order.      *)
LEMMA LessRefines ==
  ASSUME TypeOK, NEW m \in Maps, NEW S, NEW mp, NEW ks, Becomes(m, mp, ks),
         mp = Restrict(map[m], DOMAIN map[m] \ S), Ord(mp, ks) = Ord(mp, keys[m])
  PROVE  Abstract!Remove(m, S)
<1>1. map' = [map EXCEPT ![m] = mp] /\ keys' = [keys EXCEPT ![m] = ks]
  BY DEF Becomes
<1>2. Before' = [Before EXCEPT ![m] = Ord(mp, ks)]
  BY OneMapOrder
<1>3. Ord(mp, ks) = Abstract!Without(Before[m], S)
  BY OrdRestrict, BeforeIsOrd
<1>4. Before' = [Before EXCEPT ![m] = Abstract!Without(@, S)]
  BY <1>2, <1>3
<1> QED  BY <1>1, <1>4 DEF Abstract!Remove, Abstract!Restrict, Restrict, Before

(* The keys at a range of positions are removed when the range is erased   *)
(* from keys_ and its keys from map_ (ordered_map.h:588-624).              *)
LEMMA CutRefines ==
  ASSUME TypeOK, NEW m \in Maps, Agree(map[m], keys[m]),
         NEW i \in 1 .. (Len(keys[m]) + 1), NEW j \in i .. (Len(keys[m]) + 1),
         NEW S, \A x \in i .. (j - 1) : keys[m][x] \in S,
         NEW mp, mp = Restrict(map[m], DOMAIN map[m] \ S), Becomes(m, mp, Cut(keys[m], i, j))
  PROVE  Abstract!Remove(m, S)
<1>1. DOMAIN mp = DOMAIN map[m] \ S
  BY DEF Restrict
<1>2. \A x \in i .. (j - 1) : keys[m][x] \notin DOMAIN mp
  BY <1>1
<1>3. Ord(mp, Cut(keys[m], i, j)) = Ord(mp, keys[m])
  BY <1>2, OrdCut DEF Agree
<1> QED  BY <1>3, LessRefines

(* A key that is erased from keys_ at its position.                        *)
LEMMA RemoveAtRefines ==
  ASSUME TypeOK, NEW m \in Maps, Agree(map[m], keys[m]), NEW i \in DOMAIN keys[m],
         Becomes(m, Drop(map[m], keys[m][i]), RemoveAt(keys[m], i))
  PROVE  /\ Abstract!Remove(m, {keys[m][i]})
         /\ KeyAt(keys'[m], i - 1) = KeyAt(keys[m], i)
<1> DEFINE j == i + 1
           S == {keys[m][i]}
           mp == Drop(map[m], keys[m][i])
<1>1. /\ keys[m] \in Seq(Key) /\ i \in 1 .. (Len(keys[m]) + 1) /\ j \in i .. (Len(keys[m]) + 1)
      /\ i \in Nat /\ j - 1 = i /\ \A x \in i .. (j - 1) : keys[m][x] \in S
  BY DEF Agree
<1>2. RemoveAt(keys[m], i) = Cut(keys[m], i, j)
  BY RemoveAtIsCut DEF Agree
<1>3. keys'[m] = Cut(keys[m], i, j)
  BY <1>2 DEF TypeOK, Becomes
<1>4. mp = Restrict(map[m], DOMAIN map[m] \ S)
  BY DEF Drop
<1>5. Becomes(m, mp, Cut(keys[m], i, j))
  BY <1>2
<1> HIDE DEF j, S, mp
<1>6. KeyAt(Cut(keys[m], i, j), i - 1) = KeyAt(keys[m], j - 1)
  BY <1>1, CutKeyAt
<1>7. Abstract!Remove(m, S)
  BY <1>1, <1>4, <1>5, CutRefines
<1>8. KeyAt(keys'[m], i - 1) = KeyAt(keys[m], i)
  BY <1>1, <1>3, <1>6
<1> QED  BY <1>7, <1>8 DEF S

(* Erasing a bound key from map_ and its position from keys_ removes it.   *)
LEMMA UnbindRefines ==
  ASSUME TypeOK, NEW m \in Maps, Agree(map[m], keys[m]), NEW k \in DOMAIN map[m], Unbind(m, k)
  PROVE  Abstract!Remove(m, {k})
<1> DEFINE i == FirstIndex(keys[m], k)
<1>1. i \in DOMAIN keys[m] /\ keys[m][i] = k
  BY FirstIndexFinds DEF Agree
<1>2. Becomes(m, Drop(map[m], k), RemoveAt(keys[m], i))
  BY DEF Unbind, TypeOK, Becomes
<1> HIDE DEF i
<1> QED  BY <1>1, <1>2, RemoveAtRefines

(* Erasing a key that is not bound changes nothing.                        *)
LEMMA RemoveNothing ==
  ASSUME TypeOK, NEW m \in Maps, NEW k, k \notin DOMAIN map[m], UNCHANGED <<map, keys>>
  PROVE  Abstract!Remove(m, {k})
<1>1. map[m] = Restrict(map[m], DOMAIN map[m] \ {k})
  <2>1. PICK T \in SUBSET Key : map[m] \in [T -> Val]
    BY DEF TypeOK
  <2>2. DOMAIN map[m] \ {k} = DOMAIN map[m] /\ map[m] = [x \in DOMAIN map[m] |-> map[m][x]]
    BY <2>1
  <2> QED  BY <2>2 DEF Restrict
<1>2. Before[m] = Abstract!Without(Before[m], {k})
  BY BeforeIsOrd DEF Ord, Abstract!Without
<1>3. map' = [map EXCEPT ![m] = Restrict(map[m], DOMAIN map[m] \ {k})]
  BY <1>1 DEF TypeOK
<1>4. Before' = [Before EXCEPT ![m] = Abstract!Without(@, {k})]
  BY <1>2, BeforeIsOrd
<1> QED  BY <1>3, <1>4 DEF Abstract!Remove, Abstract!Restrict, Restrict, Before

-----------------------------------------------------------------------------
(* The calls. *)

Merging == IF merge = NoMerge THEN <<>> ELSE <<merge.dst, merge.src>>

(* What is left alone in map_, keys_ and the merge is left alone in the    *)
(* insertion-ordered map; between calls each map is in agreement.          *)
LEMMA Unchanged ==
  /\ UNCHANGED merge => UNCHANGED Merging
  /\ UNCHANGED <<map, keys>> => UNCHANGED Before
  /\ IndInv /\ Idle => TypeOK /\ \A m \in Maps : Agree(map[m], keys[m])
<1>1. UNCHANGED merge => UNCHANGED Merging
  BY DEF Merging
<1>2. UNCHANGED <<map, keys>> => UNCHANGED Before
  BY BeforeIsOrd
<1> QED  BY <1>1, <1>2, AgreeBetweenCalls DEF Idle, IndInv

(* insert, emplace and try_emplace add the key last or change nothing.     *)
LEMMA InsertRefines ==
  ASSUME IndInv, NEW m \in Maps, NEW k \in Key, NEW v \in Val, Insert(m, k, v)
  PROVE  Abstract!Insert(m, k, v)
<1>1. TypeOK /\ Agree(map[m], keys[m]) /\ UNCHANGED <<node, merge>>
  BY Unchanged DEF Insert
<1>2. IF k \in DOMAIN map[m] THEN UNCHANGED <<map, Before>> ELSE Abstract!AddLast(m, k, v)
  BY <1>1, BindRefines, Unchanged DEF Insert, Contains_
<1> QED  BY <1>1, <1>2, Unchanged
            DEF Insert, Contains_, Abstract!Insert, Abstract!Bound, Abstract!Result,
                Before, Merging

(* insert of a pair that is moved adds the key last or changes nothing;    *)
(* the iterator is at some element of the map, or at its end.              *)
LEMMA InsertPairRefines ==
  ASSUME IndInv, NEW m \in Maps, NEW k \in Key, NEW v \in Val, InsertPair(m, k, v)
  PROVE  Abstract!InsertPair(m, k, v)
<1>1. TypeOK /\ Agree(map[m], keys[m]) /\ UNCHANGED <<node, merge>>
  BY Unchanged DEF InsertPair
<1>2. CASE k \in DOMAIN map[m]
  <2>1. UNCHANGED <<map, keys, Before, Merging>> /\ ret' = [key |-> k, ok |-> FALSE]
    BY <1>1, <1>2, Unchanged DEF InsertPair, Contains_
  <2> QED  BY <1>1, <1>2, <2>1
              DEF Abstract!InsertPair, Abstract!Insert, Abstract!Bound, Abstract!Result,
                  Before, Merging
<1>3. CASE k \notin DOMAIN map[m]
  <2>1. Abstract!AddLast(m, k, v) /\ UNCHANGED Merging
    BY <1>1, <1>3, BindRefines, Unchanged DEF InsertPair, Contains_
  <2>2. DOMAIN map'[m] = DOMAIN map[m] \cup {k}
    BY <1>1, <1>3 DEF InsertPair, Contains_, Bind, Put, TypeOK
  <2>3. \E y \in DOMAIN map[m] \cup {k, NoKey} : ret' = [key |-> y, ok |-> TRUE]
    BY <1>3, <2>2 DEF InsertPair, Contains_
  <2> QED  BY <1>1, <1>3, <2>1, <2>3
              DEF Abstract!InsertPair, Abstract!Bound, Abstract!Result, Before, Merging
<1> QED  BY <1>2, <1>3

(* insert(node_type&&) adds the key of the node last and empties the       *)
(* handle, or leaves both as they were.                                    *)
LEMMA InsertNodeRefines ==
  ASSUME IndInv, NEW m \in Maps, InsertNode(m)
  PROVE  Abstract!InsertNode(m)
<1>1. TypeOK /\ Agree(map[m], keys[m]) /\ UNCHANGED merge
  BY Unchanged DEF InsertNode
<1>2. node # NoNode => node[1] \in Key /\ node[2] \in Val
  BY <1>1 DEF TypeOK
<1>3. CASE node = NoNode
  BY <1>1, <1>3, Unchanged
     DEF InsertNode, NoNode, Abstract!InsertNode, Abstract!Result, Before, Merging
<1>4. CASE node # NoNode /\ Contains_(m, node[1])
  BY <1>1, <1>4, Unchanged
     DEF InsertNode, NoNode, Contains_, Abstract!InsertNode, Abstract!Bound,
         Abstract!Result, Before, Merging
<1>5. CASE node # NoNode /\ ~Contains_(m, node[1])
  <2>1. Abstract!AddLast(m, node[1], node[2])
    BY <1>1, <1>2, <1>5, BindRefines DEF InsertNode, Contains_
  <2> QED
    BY <1>1, <1>5, <2>1, Unchanged
       DEF InsertNode, NoNode, Contains_, Abstract!InsertNode, Abstract!Bound,
           Abstract!Result, Before, Merging
<1> QED  BY <1>3, <1>4, <1>5

(* insert_or_assign changes the value of a bound key in place, or adds the *)
(* key last.                                                               *)
LEMMA InsertOrAssignRefines ==
  ASSUME IndInv, NEW m \in Maps, NEW k \in Key, NEW v \in Val, InsertOrAssign(m, k, v)
  PROVE  Abstract!InsertOrAssign(m, k, v)
<1>1. TypeOK /\ Agree(map[m], keys[m]) /\ UNCHANGED <<node, merge>>
  BY Unchanged DEF InsertOrAssign
<1>2. CASE k \in DOMAIN map[m]
  <2>1. map' = [map EXCEPT ![m][k] = v] /\ UNCHANGED keys
    BY <1>2 DEF InsertOrAssign, Contains_
  <2>2. \A n \in Maps : DOMAIN map'[n] = DOMAIN map[n]
    BY <1>1, <2>1 DEF TypeOK
  <2>3. UNCHANGED Before
    BY <2>1, <2>2, BeforeIsOrd DEF Ord
  <2> QED
    BY <1>1, <1>2, <2>1, <2>3, Unchanged
       DEF InsertOrAssign, Contains_, Abstract!InsertOrAssign, Abstract!Bound, Abstract!Result, Before, Merging
<1>3. CASE k \notin DOMAIN map[m]
  <2>1. Abstract!AddLast(m, k, v)
    BY <1>1, <1>3, BindRefines DEF InsertOrAssign, Contains_
  <2> QED
    BY <1>1, <1>3, <2>1, Unchanged
       DEF InsertOrAssign, Contains_, Abstract!InsertOrAssign, Abstract!Bound, Abstract!Result, Merging
<1> QED  BY <1>2, <1>3

(* operator[] adds a missing key last, with the default value.             *)
LEMMA SubscriptRefines ==
  ASSUME IndInv, NEW m \in Maps, NEW k \in Key, Subscript(m, k)
  PROVE  Abstract!Subscript(m, k)
<1>1. TypeOK /\ Agree(map[m], keys[m]) /\ UNCHANGED <<node, merge>>
  BY Unchanged DEF Subscript
<1>2. IF k \in DOMAIN map[m] THEN UNCHANGED <<map, Before>> ELSE Abstract!AddLast(m, k, Default)
  BY <1>1, BindRefines, Unchanged DEF Subscript, Contains_
<1> QED  BY <1>1, <1>2, Unchanged
            DEF Subscript, Contains_, Abstract!Subscript, Abstract!Bound,
                Abstract!Result, Before, Merging

(* erase(key) removes the key, or nothing.                                 *)
LEMMA EraseKeyRefines ==
  ASSUME IndInv, NEW m \in Maps, NEW k \in Key, EraseKey(m, k)
  PROVE  Abstract!EraseKey(m, k)
<1>1. TypeOK /\ Agree(map[m], keys[m]) /\ UNCHANGED <<node, merge>>
  BY Unchanged DEF EraseKey
<1>2. Abstract!Remove(m, {k})
  BY <1>1, UnbindRefines, RemoveNothing DEF EraseKey, Contains_
<1> QED  BY <1>1, <1>2, Unchanged
            DEF EraseKey, Contains_, Abstract!EraseKey, Abstract!Bound, Abstract!Result,
                Merging

(* extract removes the key and hands its value to the node handle.         *)
LEMMA ExtractRefines ==
  ASSUME IndInv, NEW m \in Maps, NEW k \in Key, Extract(m, k)
  PROVE  Abstract!Extract(m, k)
<1>1. TypeOK /\ Agree(map[m], keys[m]) /\ UNCHANGED merge
  BY Unchanged DEF Extract
<1>2. Abstract!Remove(m, {k})
  BY <1>1, UnbindRefines, RemoveNothing DEF Extract, Contains_
<1> QED
  BY <1>1, <1>2, Unchanged
     DEF Extract, Contains_, NoNode, Abstract!Extract, Abstract!Bound, Abstract!Result,
         Merging

(* The key at position i is erased; the iterator returned is at the key    *)
(* that followed it.                                                       *)
LEMMA FollowsErased ==
  ASSUME NEW m \in Maps, Agree(map[m], keys[m]), NEW i \in DOMAIN keys[m], NEW y, y = KeyAt(keys[m], i)
  PROVE  y \in DOMAIN map[m] \cup {NoKey} /\ Abstract!Follows(m, keys[m][i], y)
<1> DEFINE ks == keys[m]
           mp == map[m]
<1> DEFINE j == i + 1
<1>1. /\ i \in Nat /\ i + 1 \in 1 .. (Len(ks) + 1) /\ i + 1 - 1 = i /\ i \in 1 .. (i + 1 - 1)
      /\ \A x \in DOMAIN ks : i < x <=> x >= i + 1
  BY DEF Agree
<1>2. /\ y \in DOMAIN mp \cup {NoKey}
      /\ y # NoKey => <<ks[i], y>> \in Ord(mp, ks)
      /\ \A x \in DOMAIN ks : x >= i + 1 => y # NoKey /\ (ks[x] = y \/ <<y, ks[x]>> \in Ord(mp, ks))
  <2>1. /\ Agree(mp, ks) /\ j \in 1 .. (Len(ks) + 1) /\ y = KeyAt(ks, j - 1) /\ i \in 1 .. (j - 1)
        /\ j = i + 1
    BY <1>1
  <2> HIDE DEF j, ks, mp
  <2>2. /\ y \in DOMAIN mp \cup {NoKey}
        /\ \A x \in 1 .. (j - 1) : y # NoKey => <<ks[x], y>> \in Ord(mp, ks)
        /\ \A x \in DOMAIN ks : x >= j => y # NoKey /\ (ks[x] = y \/ <<y, ks[x]>> \in Ord(mp, ks))
    BY <2>1, KeyAtOrder
  <2> QED  BY <2>1, <2>2
<1>3. ASSUME NEW z \in DOMAIN mp, <<ks[i], z>> \in Ord(mp, ks)
      PROVE  y # NoKey /\ (z = y \/ <<y, z>> \in Ord(mp, ks))
  <2>1. PICK x \in DOMAIN ks : ks[x] = z
    BY <1>3 DEF Agree, Range
  <2>2. i < x
    BY <1>3, <2>1, OrdPositions
  <2> QED  BY <1>1, <1>2, <2>1, <2>2
<1>4. Before[m] = Ord(mp, ks)
  BY BeforeIsOrd
<1> QED  BY <1>2, <1>3, <1>4 DEF Abstract!Follows, Abstract!Bound, Before

(* erase(pos), in a call or in a loop, removes the key there and returns   *)
(* the key that follows it (ordered_map.h:554-586).                        *)
LEMMA ErasedRefines ==
  ASSUME TypeOK, NEW m \in Maps, Agree(map[m], keys[m]), NEW i \in DOMAIN keys[m],
         Becomes(m, Drop(map[m], keys[m][i]), RemoveAt(keys[m], i)),
         ret' = [key |-> KeyAt(keys'[m], i - 1), ok |-> TRUE], UNCHANGED <<node, merge>>
  PROVE  keys[m][i] \in Key /\ Abstract!ErasePos(m, keys[m][i])
<1>1. Abstract!Remove(m, {keys[m][i]}) /\ KeyAt(keys'[m], i - 1) = KeyAt(keys[m], i)
  BY RemoveAtRefines
<1>2. KeyAt(keys[m], i) \in DOMAIN map[m] \cup {NoKey} /\ Abstract!Follows(m, keys[m][i], KeyAt(keys[m], i))
  BY FollowsErased
<1>3. keys[m][i] \in DOMAIN map[m] /\ keys[m][i] \in Key
  BY DEF Agree, Range
<1>4. ret' = [key |-> KeyAt(keys[m], i), ok |-> TRUE]
  BY <1>1
<1> QED
  BY <1>1, <1>2, <1>3, <1>4, Unchanged
     DEF Abstract!ErasePos, Abstract!Bound, Abstract!Result, Merging

(* The call erase(pos).                                                    *)
LEMMA ErasePosRefines ==
  ASSUME IndInv, NEW m \in Maps, NEW i \in DOMAIN keys[m], ErasePos(m, i)
  PROVE  keys[m][i] \in Key /\ Abstract!ErasePos(m, keys[m][i])
<1>1. TypeOK /\ Agree(map[m], keys[m])
  BY Unchanged DEF ErasePos
<1>2. /\ Becomes(m, Drop(map[m], keys[m][i]), RemoveAt(keys[m], i))
      /\ ret' = [key |-> KeyAt(keys'[m], i - 1), ok |-> TRUE]
      /\ UNCHANGED <<node, merge>>
  BY <1>1 DEF ErasePos, TypeOK, Becomes
<1> QED  BY <1>1, <1>2, ErasedRefines

(* The keys at positions i to j - 1 are convex in the order, and the       *)
(* iterator returned is at the first key after them.                       *)
LEMMA EraseRangeRefines ==
  ASSUME IndInv, NEW m \in Maps, NEW i \in 1 .. (Len(keys[m]) + 1),
         NEW j \in i .. (Len(keys[m]) + 1), EraseRange(m, i, j)
  PROVE  \E S \in SUBSET DOMAIN map[m], y \in DOMAIN map[m] \cup {NoKey} : Abstract!EraseRange(m, S, y)
<1> DEFINE ks == keys[m]
           mp == map[m]
           S == {ks[x] : x \in i .. (j - 1)}
           y == KeyAt(ks, j - 1)
<1>1. /\ TypeOK /\ Agree(mp, ks) /\ UNCHANGED <<node, merge>>
      /\ ks \in Seq(Key) /\ DOMAIN ks = 1 .. Len(ks) /\ Len(ks) \in Nat
      /\ i .. (j - 1) \in SUBSET DOMAIN ks
      /\ j \in 1 .. (Len(ks) + 1)
      /\ \A x \in i .. (j - 1) : x \in 1 .. (j - 1)
      /\ \A x \in DOMAIN ks : x \notin i .. (j - 1) => x < i \/ x >= j
      /\ \A x \in DOMAIN ks, z \in i .. (j - 1) : x < i => ~(z < x)
  <2>1. TypeOK /\ Agree(mp, ks) /\ UNCHANGED <<node, merge>>
    BY Unchanged DEF EraseRange
  <2>2. ks \in Seq(Key) /\ DOMAIN ks = 1 .. Len(ks) /\ Len(ks) \in Nat
    BY <2>1 DEF Agree
  <2> QED  BY <2>1, <2>2
<1>2. Becomes(m, Restrict(mp, DOMAIN mp \ S), Cut(ks, i, j))
  BY <1>1 DEF EraseRange, TypeOK, Becomes, Cut
<1>3. ret' = [key |-> y, ok |-> TRUE]
  <2>1. keys'[m] = Cut(ks, i, j)
    BY <1>1, <1>2 DEF Becomes, TypeOK
  <2>2. KeyAt(Cut(ks, i, j), i - 1) = y
    BY <1>1, CutKeyAt
  <2> QED  BY <2>1, <2>2 DEF EraseRange
<1>4. S \in SUBSET DOMAIN mp
  BY <1>1 DEF Agree, Range
<1>5. /\ y \in DOMAIN mp \cup {NoKey}
      /\ y # NoKey => j \in DOMAIN ks /\ y = ks[j]
      /\ \A x \in 1 .. (j - 1) : y # NoKey => <<ks[x], y>> \in Ord(mp, ks)
      /\ \A x \in DOMAIN ks : x >= j => y # NoKey /\ (ks[x] = y \/ <<y, ks[x]>> \in Ord(mp, ks))
  <2> HIDE DEF ks, mp
  <2>1. j <= Len(ks) => j \in DOMAIN ks
    BY <1>1
  <2> HIDE DEF y
  <2>2. y = KeyAt(ks, j - 1)
    BY DEF y
  <2>3. /\ y \in DOMAIN mp \cup {NoKey}
        /\ y # NoKey <=> j <= Len(ks)
        /\ y # NoKey => y = ks[j]
        /\ \A x \in 1 .. (j - 1) : y # NoKey => <<ks[x], y>> \in Ord(mp, ks)
        /\ \A x \in DOMAIN ks : x >= j => y # NoKey /\ (ks[x] = y \/ <<y, ks[x]>> \in Ord(mp, ks))
    BY <1>1, <2>2, KeyAtOrder
  <2> QED  BY <2>1, <2>3
<1>6. y \notin S
  <2>1. CASE y = NoKey
    BY <1>1, <2>1, NoKeyAssumption
  <2>2. CASE y # NoKey
    <3>1. \A x \in i .. (j - 1) : x \in DOMAIN ks /\ x # j
      BY <1>1
    <3> HIDE DEF y
    <3>2. \A x \in i .. (j - 1) : ks[x] # ks[j]
      BY <1>1, <1>5, <2>2, <3>1 DEF Agree, IsInjective
    <3> QED  BY <1>5, <2>2, <3>2
  <2> QED  BY <2>1, <2>2
<1>7. \A x \in S : y # NoKey => <<x, y>> \in Ord(mp, ks)
  BY <1>1, <1>5
<1>8. \A x \in S, z \in DOMAIN mp \ S :
        <<x, z>> \in Ord(mp, ks) => y # NoKey /\ (z = y \/ <<y, z>> \in Ord(mp, ks))
  <2> SUFFICES ASSUME NEW a \in i .. (j - 1), NEW z \in DOMAIN mp \ S, <<ks[a], z>> \in Ord(mp, ks)
               PROVE  y # NoKey /\ (z = y \/ <<y, z>> \in Ord(mp, ks))
    OBVIOUS
  <2>1. PICK b \in DOMAIN ks : ks[b] = z
    BY <1>1 DEF Agree, Range
  <2>2. a \in DOMAIN ks /\ b \notin i .. (j - 1)
    BY <1>1, <2>1
  <2>3. a < b
    BY <1>1, <2>1, <2>2, OrdPositions
  <2>4. b >= j
    BY <1>1, <2>2, <2>3
  <2> HIDE DEF y
  <2> QED  BY <1>5, <2>1, <2>4
<1>9. Abstract!Remove(m, S)
  <2> DEFINE left == Restrict(mp, DOMAIN mp \ S)
  <2>1. \A x \in i .. (j - 1) : ks[x] \in S
    OBVIOUS
  <2>2. left = Restrict(mp, DOMAIN mp \ S)
    OBVIOUS
  <2>3. Becomes(m, left, Cut(ks, i, j))
    BY <1>2
  <2> HIDE DEF left, S
  <2> QED  BY <1>1, <2>1, <2>2, <2>3, CutRefines
<1>10. Before[m] = Ord(mp, ks)
  BY BeforeIsOrd
<1> HIDE DEF S, y
<1>11. Abstract!EraseRange(m, S, y)
  BY <1>1, <1>3, <1>6, <1>7, <1>8, <1>9, <1>10, Unchanged
     DEF Abstract!EraseRange, Abstract!Bound, Abstract!Result, Before, Merging
<1> QED  BY <1>4, <1>5, <1>11

(* An empty map has no order.                                              *)
LEMMA EmptyRefines == EmptyMap = <<>> /\ Ord(EmptyMap, <<>>) = {}
BY DEF EmptyMap, Ord

(* clear leaves nothing bound and nothing ordered.                         *)
LEMMA ClearRefines ==
  ASSUME IndInv, NEW m \in Maps, Clear(m)
  PROVE  Abstract!Clear(m)
<1>1. TypeOK /\ UNCHANGED <<node, merge>> /\ ret' = [key |-> NoKey, ok |-> TRUE]
  BY Unchanged DEF Clear
<1>2. Becomes(m, EmptyMap, <<>>)
  BY DEF Clear, Becomes
<1>3. Before' = [Before EXCEPT ![m] = {}]
  BY <1>1, <1>2, OneMapOrder, EmptyRefines
<1>4. map' = [map EXCEPT ![m] = <<>>]
  BY <1>2, EmptyRefines DEF Becomes
<1> QED  BY <1>1, <1>3, <1>4, Unchanged
            DEF Abstract!Clear, Abstract!Replace, Abstract!Result, Before, Merging

(* swap exchanges the contents with their orders.                          *)
LEMMA SwapRefines ==
  ASSUME IndInv, Swap
  PROVE  Abstract!Swap
<1>1. TypeOK /\ UNCHANGED <<node, merge>> /\ ret' = [key |-> NoKey, ok |-> TRUE]
  BY Unchanged DEF Swap
<1>2. map' = [m \in Maps |-> map[Other(m)]] /\ keys' = [m \in Maps |-> keys[Other(m)]]
  BY DEF Swap
<1>3. Before' = [m \in Maps |-> Before[Other(m)]]
  BY <1>2, BeforeIsOrd DEF Other, Maps
<1>4. map' = [a |-> map["b"], b |-> map["a"]] /\ Before' = [a |-> Before["b"], b |-> Before["a"]]
  BY <1>2, <1>3 DEF Other, Maps
<1> QED  BY <1>1, <1>4, Unchanged
            DEF Abstract!Swap, Abstract!Replace, Abstract!Result, Before, Merging

(* The copy has the content and the order of its source.                   *)
LEMMA CopyAssignRefines ==
  ASSUME IndInv, NEW dst \in Maps, NEW src \in Maps, CopyAssign(dst, src)
  PROVE  Abstract!CopyAssign(dst, src)
<1>1. TypeOK /\ UNCHANGED <<node, merge>> /\ ret' = [key |-> NoKey, ok |-> TRUE]
  BY Unchanged DEF CopyAssign
<1>2. Becomes(dst, map[src], keys[src])
  BY DEF CopyAssign, Becomes
<1>3. Before' = [Before EXCEPT ![dst] = Ord(map[src], keys[src])]
  BY <1>1, <1>2, OneMapOrder
<1>4. Before' = [Before EXCEPT ![dst] = Before[src]]
  BY <1>3, BeforeIsOrd
<1> QED  BY <1>1, <1>2, <1>4, Unchanged
            DEF Becomes, Abstract!CopyAssign, Abstract!Replace, Abstract!Result, Before,
                Merging

(* The keys of a list with distinct keys are bound in the order of the     *)
(* list.                                                                   *)
LEMMA ListRefines ==
  ASSUME NEW l \in Lists
  PROVE  ListMap(l) = Abstract!ListContent(l) /\ Ord(ListMap(l), ListKeys(l)) = Abstract!ListOrder(l)
<1> DEFINE ks == ListKeys(l)
           B == {l[i][1] : i \in DOMAIN l}
<1>1. \A i, j \in DOMAIN l : l[i][1] = l[j][1] => i = j
  BY ListsAssumption
<1>2. DOMAIN ks = DOMAIN l /\ \A i \in DOMAIN l : ks[i] = l[i][1]
  BY DEF ListKeys
<1>3. ks \in Seq(Key) /\ IsInjective(ks) /\ Range(ks) = B
  <2>1. Agree(ListMap(l), ks)
    BY ListAgrees
  <2> QED  BY <1>2, <2>1 DEF Agree, Range
<1> HIDE DEF ks
<1>4. \A k \in B : /\ FirstIndex(ks, k) \in DOMAIN l
                   /\ (CHOOSE i \in DOMAIN l : l[i][1] = k) = FirstIndex(ks, k)
  <2> SUFFICES ASSUME NEW k \in B
               PROVE  /\ FirstIndex(ks, k) \in DOMAIN l
                      /\ (CHOOSE i \in DOMAIN l : l[i][1] = k) = FirstIndex(ks, k)
    OBVIOUS
  <2>1. FirstIndex(ks, k) \in DOMAIN ks /\ ks[FirstIndex(ks, k)] = k
    BY <1>3, FirstIndexFinds
  <2>2. FirstIndex(ks, k) \in DOMAIN l /\ l[FirstIndex(ks, k)][1] = k
    BY <1>2, <2>1
  <2> QED  BY <1>1, <2>2
<1>5. ListMap(l) = Abstract!ListContent(l)
  BY <1>4 DEF ks, ListMap, Abstract!ListContent
<1>6. DOMAIN ListMap(l) = B
  BY DEF ListMap
<1>7. ASSUME NEW x, NEW y
      PROVE  <<x, y>> \in Ord(ListMap(l), ks) <=> <<x, y>> \in Abstract!ListOrder(l)
  <2>1. <<x, y>> \in Ord(ListMap(l), ks) <=> \E i, j \in DOMAIN l : i < j /\ l[i][1] = x /\ l[j][1] = y
    BY <1>2, <1>6 DEF Ord
  <2>2. <<x, y>> \in Abstract!ListOrder(l) <=> \E i, j \in DOMAIN l : i < j /\ l[i][1] = x /\ l[j][1] = y
    <3> DEFINE P == {q \in (DOMAIN l) \X (DOMAIN l) : q[1] < q[2]}
    <3>1. ASSUME NEW i \in DOMAIN l, NEW j \in DOMAIN l, i < j
          PROVE  <<i, j>> \in P /\ <<i, j>>[1] = i /\ <<i, j>>[2] = j
      BY <3>1
    <3>2. \A q \in P : q[1] \in DOMAIN l /\ q[2] \in DOMAIN l /\ q[1] < q[2]
      OBVIOUS
    <3>3. Abstract!ListOrder(l) = {<<l[q[1]][1], l[q[2]][1]>> : q \in P}
      BY DEF Abstract!ListOrder
    <3> HIDE DEF P
    <3>4. ASSUME NEW i \in DOMAIN l, NEW j \in DOMAIN l, i < j, l[i][1] = x, l[j][1] = y
          PROVE  <<x, y>> \in Abstract!ListOrder(l)
      <4>1. PICK q \in P : q = <<i, j>> /\ q[1] = i /\ q[2] = j
        BY <3>1, <3>4
      <4>2. <<l[q[1]][1], l[q[2]][1]>> = <<x, y>>
        BY <3>4, <4>1
      <4> QED  BY <3>3, <4>2
    <3>5. ASSUME <<x, y>> \in Abstract!ListOrder(l)
          PROVE  \E i, j \in DOMAIN l : i < j /\ l[i][1] = x /\ l[j][1] = y
      <4>1. PICK q \in P : <<x, y>> = <<l[q[1]][1], l[q[2]][1]>>
        BY <3>3, <3>5
      <4>2. x = l[q[1]][1] /\ y = l[q[2]][1]
        BY <4>1
      <4> QED  BY <3>2, <4>2
    <3> QED  BY <3>4, <3>5
  <2> QED  BY <2>1, <2>2
<1>8. /\ \A p \in Ord(ListMap(l), ks) : p = <<p[1], p[2]>>
      /\ \A p \in Abstract!ListOrder(l) : p = <<p[1], p[2]>>
  BY DEF Ord, Abstract!ListOrder
<1> QED  BY <1>5, <1>7, <1>8 DEF ks

(* Assigning a list replaces the content and the order by those of the     *)
(* list.                                                                   *)
LEMMA ListAssignRefines ==
  ASSUME IndInv, NEW m \in Maps, NEW l \in Lists, ListAssign(m, l)
  PROVE  Abstract!ListAssign(m, l)
<1>1. TypeOK /\ UNCHANGED <<node, merge>> /\ ret' = [key |-> NoKey, ok |-> TRUE]
  BY Unchanged DEF ListAssign
<1>2. Becomes(m, Abstract!ListContent(l), ListKeys(l))
  BY ListRefines DEF ListAssign, Becomes
<1>3. Before' = [Before EXCEPT ![m] = Ord(Abstract!ListContent(l), ListKeys(l))]
  BY <1>1, <1>2, OneMapOrder
<1>4. Before' = [Before EXCEPT ![m] = Abstract!ListOrder(l)]
  BY <1>3, ListRefines
<1> QED  BY <1>1, <1>2, <1>4, Unchanged
            DEF Becomes, Abstract!ListAssign, Abstract!Replace, Abstract!Result, Before,
                Merging

-----------------------------------------------------------------------------
(* merge. *)

(* Every key that merge has passed is bound in the destination.            *)
MergeSeen ==
  \A i \in DOMAIN keys[merge.src] :
    i < merge.at => keys[merge.src][i] \in DOMAIN map[merge.dst]

(* Between calls no merge has passed anything.                             *)
LEMMA MergeSeenBetweenCalls ==
  ASSUME TypeOK, merge = NoMerge
  PROVE  MergeSeen
<1>1. merge.at = 0 /\ keys[merge.src] \in Seq(Key)
  BY DEF TypeOK, NoMerge
<1>2. \A i \in DOMAIN keys[merge.src] : ~(i < 0)
  BY <1>1
<1> QED  BY <1>1, <1>2 DEF MergeSeen

(* A merge begins without having moved or passed a key.                    *)
LEMMA MergeBeginRefines ==
  ASSUME IndInv, NEW dst \in Maps, NEW src \in Maps, MergeBegin(dst, src)
  PROVE  Abstract!MergeBegin(dst, src) /\ MergeSeen'
<1>1. /\ merge = NoMerge /\ merge' = [dst |-> dst, src |-> src, at |-> 1, moved |-> <<>>]
      /\ UNCHANGED <<map, keys, node, ret>>
  BY DEF MergeBegin, Idle
<1>2. merge'.at = 1 /\ NoMerge.at = 0 /\ merge'.dst = dst /\ merge'.src = src
  BY <1>1 DEF NoMerge
<1>3. Merging = <<>> /\ Merging' = <<dst, src>>
  BY <1>1, <1>2 DEF Merging
<1>4. Abstract!MergeBegin(dst, src)
  BY <1>1, <1>3, Unchanged DEF Abstract!MergeBegin, Before, Merging
<1>5. \A i \in DOMAIN keys[src] : ~(i < 1)
  BY DEF IndInv, TypeOK
<1>6. MergeSeen'
  BY <1>1, <1>2, <1>5 DEF MergeSeen
<1> QED  BY <1>4, <1>6

(* A key that the destination lacks moves; another is left where it is.    *)
LEMMA MergeMoveRefines ==
  ASSUME IndInv, MergeSeen, MergeMove
  PROVE  /\ \/ \E k \in Key : Abstract!MergeMove(merge.dst, merge.src, k)
            \/ UNCHANGED <<map, Before, node, Merging, ret>>
         /\ MergeSeen'
<1> DEFINE src == merge.src
           dst == merge.dst
           k == keys[src][merge.at]
<1>1. /\ merge.at \in DOMAIN keys[src] /\ merge.at \in Nat /\ merge.at # 0
      /\ src \in Maps /\ dst \in Maps
      /\ keys[src] \in Seq(Key) /\ k \in Key /\ k \in Range(keys[src])
      /\ merge \in [dst : Maps, src : Maps, at : Nat, moved : Seq(Key)]
      /\ UNCHANGED <<node, loop, ret>>
  BY DEF MergeMove, IndInv, TypeOK, Range
<1>2. \A i \in DOMAIN keys[src] : i < merge.at + 1 => i < merge.at \/ i = merge.at
  BY <1>1
<1>3. merge # NoMerge /\ Merging = <<dst, src>>
  BY <1>1 DEF NoMerge, Merging
<1>4. ASSUME merge'.src = src, merge'.dst = dst, merge'.at = merge.at + 1
      PROVE  UNCHANGED Merging
  <2>1. merge' # NoMerge
    BY <1>1, <1>4 DEF NoMerge
  <2> QED  BY <1>3, <1>4, <2>1 DEF Merging
<1>5. CASE Contains_(dst, k)
  <2>1. UNCHANGED <<map, keys>> /\ merge' = [merge EXCEPT !.at = @ + 1]
    BY <1>5 DEF MergeMove
  <2>2. merge'.src = src /\ merge'.dst = dst /\ merge'.at = merge.at + 1
    BY <1>1, <2>1
  <2>3. MergeSeen'
    BY <1>2, <1>5, <2>1, <2>2 DEF MergeSeen, Contains_
  <2> QED  BY <1>1, <1>4, <2>1, <2>2, <2>3, Unchanged
<1>6. CASE ~Contains_(dst, k)
  <2>1. src # dst /\ Pending(dst) = {} /\ Pending(src) = Range(merge.moved)
    <3>1. src = dst => Pending(src) = {}
      BY EmptySeqFacts DEF IndInv, MergeInv, Pending
    <3>2. src # dst
      BY <1>1, <1>6, <3>1 DEF IndInv, Consistent, Contains_
    <3> QED  BY <3>2 DEF Pending
  <2>2. /\ map' = [map EXCEPT ![src] = Drop(map[src], k),
                              ![dst] = Put(map[dst], k, map[src][k])]
        /\ keys' = [keys EXCEPT ![dst] = Append(keys[dst], k)]
        /\ merge' = [merge EXCEPT !.at = @ + 1, !.moved = Append(@, k)]
    BY <1>1, <1>6, <2>1 DEF MergeMove, IndInv, TypeOK
  <2>3. k \in DOMAIN map[src] \ DOMAIN map[dst]
    BY <1>1, <1>6, <2>1 DEF IndInv, Consistent, MergeInv, Contains_
  <2>4. Agree(map[dst], keys[dst])
    BY <1>1, <2>1 DEF IndInv, TypeOK, Consistent, Agree, PartialMap
  <2>5. /\ merge'.src = src /\ merge'.dst = dst /\ merge'.at = merge.at + 1
        /\ map'[src] = Drop(map[src], k) /\ map'[dst] = Put(map[dst], k, map[src][k])
        /\ keys'[src] = keys[src] /\ keys'[dst] = Append(keys[dst], k)
        /\ \A m \in Maps : m = src \/ m = dst
    BY <1>1, <2>1, <2>2 DEF IndInv, TypeOK, Maps
  <2>6. Ord(map'[src], keys'[src]) = Abstract!Without(Before[src], {k})
    BY <1>1, <2>5, OrdRestrict, BeforeIsOrd DEF Drop
  <2>7. Ord(map'[dst], keys'[dst]) = Before[dst] \cup {<<x, k>> : x \in DOMAIN map[dst]}
    <3> HIDE DEF k
    <3>1. Ord(Put(map[dst], k, map[src][k]), Append(keys[dst], k))
            = Ord(map[dst], keys[dst]) \cup {<<x, k>> : x \in DOMAIN map[dst]}
      BY <1>1, <2>3, <2>4, OrdAppend
    <3> QED  BY <1>1, <2>5, <3>1, BeforeIsOrd
  <2>8. Before' = [Before EXCEPT ![src] = Abstract!Without(Before[src], {k}),
                                 ![dst] = Before[dst] \cup {<<x, k>> : x \in DOMAIN map[dst]}]
    BY <1>1, <2>1, <2>5, <2>6, <2>7, BeforeIsOrd
  <2>9. \A x \in DOMAIN map[src] \ DOMAIN map[dst] : <<x, k>> \notin Before[src]
    <3> SUFFICES ASSUME NEW x \in DOMAIN map[src] \ DOMAIN map[dst],
                        <<x, k>> \in Ord(map[src], keys[src])
                 PROVE  FALSE
      BY <1>1, BeforeIsOrd
    <3>1. PICK a, b \in DOMAIN keys[src] : a < b /\ keys[src][a] = x /\ keys[src][b] = k
      BY DEF Ord
    <3>2. b = merge.at
      BY <1>1, <3>1 DEF IndInv, Consistent, IsInjective
    <3> QED  BY <3>1, <3>2 DEF MergeSeen
  <2>10. Abstract!MergeMove(dst, src, k)
    <3> HIDE DEF k
    <3> QED
      BY <1>1, <1>3, <1>4, <2>2, <2>3, <2>5, <2>8, <2>9
         DEF Abstract!MergeMove, Abstract!Bound, Abstract!Restrict, Restrict, Drop, Abstract!Extend, Put,
             Before, Merging
  <2>11. MergeSeen'
    <3>1. DOMAIN map'[dst] = DOMAIN map[dst] \cup {k}
      BY <2>5 DEF Put
    <3> QED  BY <1>2, <2>5, <3>1 DEF MergeSeen
  <2> QED  BY <1>1, <2>10, <2>11
<1> QED  BY <1>5, <1>6

(* Erasing from source.keys_ a key that moved is not seen.                 *)
LEMMA MergeTrimRefines ==
  ASSUME IndInv, MergeSeen, MergeTrim
  PROVE  UNCHANGED <<map, Before, node, Merging, ret>> /\ MergeSeen'
<1> DEFINE src == merge.src
           h == Head(merge.moved)
           i == FirstIndex(keys[src], h)
<1>1. /\ src \in Maps /\ merge.dst \in Maps /\ keys[src] \in Seq(Key) /\ IsInjective(keys[src])
      /\ merge \in [dst : Maps, src : Maps, at : Nat, moved : Seq(Key)]
      /\ merge.moved \in Seq(Key) /\ merge.moved # <<>> /\ IsInjective(merge.moved)
      /\ Pending(src) = Range(merge.moved)
      /\ merge.at > Len(keys[src])
      /\ merge' = [merge EXCEPT !.moved = Tail(@)]
      /\ UNCHANGED <<map, node, ret>>
  BY DEF MergeTrim, IndInv, TypeOK, MergeInv, Consistent, Pending
<1>2. h \in Range(merge.moved)
  BY <1>1, TailDistinct
<1>3. h \in Range(keys[src]) /\ h \notin DOMAIN map[src]
  BY <1>1, <1>2 DEF IndInv, Consistent
<1>4. i \in DOMAIN keys[src] /\ keys[src][i] = h
  BY <1>1, <1>3, FirstIndexFinds
<1>5. keys' = [keys EXCEPT ![src] = RemoveAt(keys[src], i)]
  BY DEF MergeTrim
<1> HIDE DEF i
<1>6. Ord(map[src], RemoveAt(keys[src], i)) = Ord(map[src], keys[src])
  <2> DEFINE j == i + 1
  <2>1. /\ i \in 1 .. (Len(keys[src]) + 1) /\ j \in i .. (Len(keys[src]) + 1)
        /\ \A x \in i .. (j - 1) : keys[src][x] \notin DOMAIN map[src]
    BY <1>1, <1>3, <1>4
  <2>2. RemoveAt(keys[src], i) = Cut(keys[src], i, j)
    BY <1>1, <1>4, RemoveAtIsCut
  <2> HIDE DEF j
  <2> QED  BY <1>1, <2>1, <2>2, OrdCut
<1>7. keys'[src] = RemoveAt(keys[src], i) /\ \A m \in Maps : m # src => keys'[m] = keys[m]
  BY <1>1, <1>5 DEF IndInv, TypeOK
<1>8. UNCHANGED Before
  BY <1>1, <1>6, <1>7, BeforeIsOrd
<1>9. merge'.src = src /\ merge'.dst = merge.dst /\ merge'.at = merge.at
  BY <1>1
<1>10. UNCHANGED Merging
  <2>1. merge.at # 0
    BY <1>1
  <2>2. merge # NoMerge /\ merge' # NoMerge
    BY <1>9, <2>1 DEF NoMerge
  <2> QED  BY <1>9, <2>2 DEF Merging
<1>11. MergeSeen'
  <2>1. \A x \in DOMAIN keys[src] : keys[src][x] \in DOMAIN map[merge.dst]
    <3>1. \A x \in DOMAIN keys[src] : x < merge.at
      BY <1>1
    <3> QED  BY <3>1 DEF MergeSeen
  <2>2. Range(RemoveAt(keys[src], i)) \subseteq Range(keys[src])
    BY <1>1, <1>4, RemoveAtDistinct
  <2>3. \A x \in DOMAIN keys'[src] : keys'[src][x] \in DOMAIN map[merge.dst]
    BY <1>7, <2>1, <2>2 DEF Range
  <2> QED  BY <1>1, <1>9, <2>3 DEF MergeSeen
<1> QED  BY <1>1, <1>8, <1>10, <1>11

(* When merge returns, the source has no key that the destination lacks.   *)
LEMMA MergeEndRefines ==
  ASSUME IndInv, MergeSeen, MergeEnd
  PROVE  Abstract!MergeEnd
<1>1. /\ merge # NoMerge /\ merge' = NoMerge /\ ret' = [key |-> NoKey, ok |-> TRUE]
      /\ UNCHANGED <<map, keys, node>>
      /\ merge.src \in Maps /\ merge.dst \in Maps /\ merge.at \in Nat /\ keys[merge.src] \in Seq(Key)
      /\ merge.at > Len(keys[merge.src])
  BY DEF MergeEnd, IndInv, TypeOK
<1>2. \A i \in DOMAIN keys[merge.src] : i < merge.at
  BY <1>1
<1>3. DOMAIN map[merge.src] \subseteq Range(keys[merge.src])
  BY <1>1 DEF IndInv, Consistent
<1>4. DOMAIN map[merge.src] \subseteq DOMAIN map[merge.dst]
  BY <1>2, <1>3 DEF MergeSeen, Range
<1>5. Merging = <<merge.dst, merge.src>> /\ Merging' = <<>>
  BY <1>1 DEF Merging
<1>6. Merging[1] = merge.dst /\ Merging[2] = merge.src /\ Merging # <<>>
  BY <1>5
<1> QED
  BY <1>1, <1>4, <1>5, <1>6, Unchanged
     DEF Abstract!MergeEnd, Abstract!Bound, Abstract!Result, Before, Merging

-----------------------------------------------------------------------------
(* The loop is a client of the map: only its erase is a step of the map.   *)

(* A turn of a loop erases one key of the map or none.                     *)
LEMMA LoopRefines ==
  ASSUME IndInv, LoopStep
  PROVE  \/ \E k \in Key : Abstract!ErasePos("a", k)
         \/ UNCHANGED <<map, Before, node, Merging, ret>>
<1>1. CASE LoopBegin \/ LoopAdvance \/ LoopEnd
  BY <1>1, Unchanged DEF LoopBegin, LoopAdvance, LoopEnd
<1>2. CASE LoopErase
  <2> DEFINE i == loop.index + 1
  <2>1. /\ loop.live /\ merge = NoMerge /\ UNCHANGED <<node, merge>>
        /\ loop.index \in Nat /\ loop.index <= Len(keys["a"]) /\ loop.index # Len(keys["a"])
        /\ loop.key = KeyAt(keys["a"], loop.index)
        /\ keys["a"] \in Seq(Key) /\ "a" \in Maps /\ TypeOK
    BY <1>2 DEF LoopErase, IndInv, MergeInv, LoopInv, TypeOK, Maps
  <2>2. Agree(map["a"], keys["a"])
    BY <2>1, AgreeBetweenCalls
  <2>3. i \in DOMAIN keys["a"] /\ i - 1 = loop.index /\ loop.key = keys["a"][i]
    BY <2>1 DEF KeyAt
  <2>4. Becomes("a", Drop(map["a"], loop.key), RemoveAt(keys["a"], i))
    BY <1>2, <2>1 DEF LoopErase, Becomes, TypeOK
  <2>5. ret' = [key |-> KeyAt(keys'["a"], loop.index), ok |-> TRUE]
    <3>1. loop'.key = KeyAt(keys'["a"], loop.index)
      BY <1>2, <2>1 DEF LoopErase, At, Iterator, IndInv, TypeOK
    <3> QED  BY <1>2, <3>1 DEF LoopErase
  <2> HIDE DEF i
  <2>6. keys["a"][i] \in Key /\ Abstract!ErasePos("a", keys["a"][i])
    BY <2>1, <2>2, <2>3, <2>4, <2>5, ErasedRefines
  <2> QED  BY <2>6
<1> QED  BY <1>1, <1>2 DEF LoopStep

-----------------------------------------------------------------------------
(* The refinement. *)

RefInv == IndInv /\ MergeSeen

(* Every call on one map is a call of the insertion-ordered map.           *)
LEMMA ModifyRefines ==
  ASSUME IndInv, NEW m \in Maps, Modify(m)
  PROVE  Abstract!Next
<1>1. ASSUME NEW k \in Key, NEW v \in Val,
             Insert(m, k, v) \/ InsertPair(m, k, v) \/ Emplace(m, k, v)
             \/ InsertOrAssign(m, k, v)
      PROVE  Abstract!Insert(m, k, v) \/ Abstract!InsertPair(m, k, v)
             \/ Abstract!InsertOrAssign(m, k, v)
  BY <1>1, InsertRefines, InsertPairRefines, InsertOrAssignRefines DEF Emplace
<1>2. ASSUME NEW k \in Key, Subscript(m, k) \/ EraseKey(m, k) \/ Extract(m, k)
      PROVE  Abstract!Subscript(m, k) \/ Abstract!EraseKey(m, k) \/ Abstract!Extract(m, k)
  BY <1>2, SubscriptRefines, EraseKeyRefines, ExtractRefines
<1>3. ASSUME InsertNode(m)  PROVE Abstract!InsertNode(m)
  BY <1>3, InsertNodeRefines
<1>4. ASSUME NEW i \in DOMAIN keys[m], ErasePos(m, i)
      PROVE  \E k \in Key : Abstract!ErasePos(m, k)
  BY <1>4, ErasePosRefines
<1>5. ASSUME NEW i \in 1 .. (Len(keys[m]) + 1), NEW j \in 1 .. (Len(keys[m]) + 1), i <= j, EraseRange(m, i, j)
      PROVE  \E S \in SUBSET DOMAIN map[m], y \in DOMAIN map[m] \cup {NoKey} : Abstract!EraseRange(m, S, y)
  <2>1. j \in i .. (Len(keys[m]) + 1)
    BY <1>5
  <2> QED  BY <1>5, <2>1, EraseRangeRefines
<1>6. ASSUME Clear(m)  PROVE Abstract!Clear(m)
  BY <1>6, ClearRefines
<1>7. ASSUME NEW l \in Lists, ListAssign(m, l)  PROVE Abstract!ListAssign(m, l)
  BY <1>7, ListAssignRefines
<1>8. m \in Abstract!Maps
  BY DEF Maps, Abstract!Maps
<1> QED
  BY <1>1, <1>2, <1>3, <1>4, <1>5, <1>6, <1>7, <1>8 DEF Modify, Abstract!Next, Abstract!Bound

(* New maps are empty and without order.                                   *)
LEMMA InitRefines == Init => Abstract!Init /\ MergeSeen
<1> SUFFICES ASSUME Init  PROVE Abstract!Init /\ MergeSeen
  OBVIOUS
<1>1. IndInv
  BY InitInvariant
<1>2. Before = [m \in Maps |-> {}] /\ map = [m \in Maps |-> <<>>]
  BY BeforeIsOrd, EmptyRefines DEF Init
<1>3. MergeSeen
  BY <1>1, MergeSeenBetweenCalls DEF Init, IndInv
<1> QED  BY <1>2, <1>3 DEF Init, Abstract!Init, Abstract!Maps, Maps, NoNode, Before

(* Each step is a step of the insertion-ordered map, or none.              *)
LEMMA NextRefines ==
  RefInv /\ [Next]_vars => [Abstract!Next]_(Abstract!vars) /\ MergeSeen'
<1> SUFFICES ASSUME RefInv, [Next]_vars
             PROVE  [Abstract!Next]_(Abstract!vars) /\ MergeSeen'
  OBVIOUS
<1>1. IndInv /\ MergeSeen /\ IndInv' /\ TypeOK'
  BY NextInvariant DEF RefInv, IndInv
<1>2. merge' = NoMerge => MergeSeen'
  <2>1. (TypeOK /\ merge = NoMerge => MergeSeen)'
    BY MergeSeenBetweenCalls, PTL
  <2> QED  BY <1>1, <2>1
<1>3. UNCHANGED <<map, Before, node, Merging, ret>> => UNCHANGED Abstract!vars
  BY DEF Abstract!vars, Before, Merging
<1>4. ASSUME NEW m \in Maps, Modify(m)
      PROVE  Abstract!Next /\ MergeSeen'
  <2>1. merge' = NoMerge
    BY <1>4
       DEF Modify, Insert, InsertPair, Emplace, InsertOrAssign, Subscript, EraseKey,
           Extract, InsertNode, ErasePos, EraseRange, Clear, ListAssign, Idle
  <2> QED  BY <1>1, <1>2, <1>4, <2>1, ModifyRefines
<1>5. CASE Swap
  BY <1>1, <1>2, <1>5, SwapRefines DEF Swap, Idle, Abstract!Next
<1>6. ASSUME NEW dst \in Maps, NEW src \in Maps, CopyAssign(dst, src)
      PROVE  Abstract!Next /\ MergeSeen'
  BY <1>1, <1>2, <1>6, CopyAssignRefines
     DEF CopyAssign, Idle, Abstract!Next, Abstract!Maps, Maps
<1>7. ASSUME NEW dst \in Maps, NEW src \in Maps, MergeBegin(dst, src)
      PROVE  Abstract!Next /\ MergeSeen'
  BY <1>1, <1>7, MergeBeginRefines DEF Abstract!Next, Abstract!Maps, Maps
<1>8. CASE MergeMove
  <2>1. merge.dst \in Abstract!Maps /\ merge.src \in Abstract!Maps
    BY <1>1 DEF IndInv, TypeOK, Maps, Abstract!Maps
  <2> QED  BY <1>1, <1>3, <1>8, <2>1, MergeMoveRefines DEF Abstract!Next
<1>9. CASE MergeTrim
  BY <1>1, <1>3, <1>9, MergeTrimRefines
<1>10. CASE MergeEnd
  BY <1>1, <1>2, <1>10, MergeEndRefines DEF MergeEnd, Abstract!Next
<1>11. CASE LoopStep
  <2>1. merge' = NoMerge
    BY <1>1, <1>11
       DEF LoopStep, LoopBegin, LoopAdvance, LoopErase, LoopEnd, Idle, IndInv, MergeInv
  <2> QED  BY <1>1, <1>2, <1>3, <1>11, <2>1, LoopRefines DEF Abstract!Next, Abstract!Maps
<1>12. CASE UNCHANGED vars
  <2>1. UNCHANGED <<map, keys, merge, node, ret>>
    BY <1>12 DEF vars
  <2> QED  BY <1>1, <1>3, <2>1, Unchanged DEF MergeSeen
<1> QED
  BY <1>4, <1>5, <1>6, <1>7, <1>8, <1>9, <1>10, <1>11, <1>12 DEF Next, MergeStep

(* ordered_map keeps the promise of OrderedMapSpec: whatever calls the     *)
(* client makes, it sees a map that remembers the order of insertion, and  *)
(* every call returns the element it is about, except the insertion of a   *)
(* pair that is moved, of whose iterator nothing is promised.              *)
THEOREM ImplementsOrderedMap == Spec => Implements
<1>1. RefInv /\ [Next]_vars => RefInv'
  BY NextInvariant, NextRefines DEF RefInv
<1>2. Init => RefInv
  BY InitInvariant, InitRefines DEF RefInv
<1>3. Spec => []RefInv
  BY <1>1, <1>2, PTL DEF Spec
<1>4. Init => Abstract!Init
  BY InitRefines
<1>5. RefInv /\ [Next]_vars => [Abstract!Next]_(Abstract!vars)
  BY NextRefines
<1> QED  BY <1>3, <1>4, <1>5, PTL DEF Spec, Implements, Abstract!Spec
=============================================================================
