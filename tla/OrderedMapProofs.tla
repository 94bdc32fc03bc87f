-------------------------- MODULE OrderedMapProofs --------------------------
(***************************************************************************)
(* Theorems about OrderedMap for every set of keys and values and every    *)
(* set of initializer lists with distinct keys: the types, the agreement   *)
(* of map_ and keys_ through every call and every step of merge, and the   *)
(* exactness of a loop that erases while it iterates.                      *)
(***************************************************************************)
EXTENDS OrderedMap, SequenceTheorems, TLAPS

-----------------------------------------------------------------------------
(* Sequences without duplicates. *)

(* Leaving out positions i up to but not including j of a sequence: what   *)
(* both erase(pos) and erase(first, last) do to keys_.                     *)
Cut(s, i, j) == SubSeq(s, 1, i - 1) \o SubSeq(s, j, Len(s))

(* Cut(s, i, j) is s without the positions i to j - 1, what                *)
(* erase(first, last) leaves of keys_ (ordered_map.h:588-624).             *)
LEMMA CutElements ==
  ASSUME NEW S, NEW s \in Seq(S), NEW i \in 1 .. (Len(s) + 1),
         NEW j \in i .. (Len(s) + 1)
  PROVE  /\ Cut(s, i, j) \in Seq(S)
         /\ Len(Cut(s, i, j)) = Len(s) - (j - i)
         /\ \A x \in 1 .. (i - 1) : Cut(s, i, j)[x] = s[x]
         /\ \A x \in i .. (Len(s) - (j - i)) : Cut(s, i, j)[x] = s[x + (j - i)]
<1> DEFINE p == SubSeq(s, 1, i - 1)
           q == SubSeq(s, j, Len(s))
<1>1. /\ p \in Seq(S)
      /\ Len(p) = i - 1
      /\ \A x \in 1 .. (i - 1) : p[x] = s[x]
  <2>1. \A x \in 1 .. (i - 1) : s[x] \in S
    BY ElementOfSeq
  <2>2. /\ p \in Seq(S)
        /\ Len(p) = IF 1 <= i - 1 THEN (i - 1) - 1 + 1 ELSE 0
        /\ \A x \in 1 .. ((i - 1) - 1 + 1) : p[x] = s[1 + x - 1]
    <3> HIDE DEF p
    <3> i - 1 \in Int /\ 1 \in Int
      OBVIOUS
    <3> QED  BY <2>1, SubSeqProperties DEF p
  <2> HIDE DEF p
  <2>3. QED  BY <2>2
<1>2. /\ q \in Seq(S)
      /\ Len(q) = Len(s) - j + 1
      /\ \A x \in 1 .. (Len(s) - j + 1) : q[x] = s[j + x - 1]
  <2>1. \A x \in j .. Len(s) : s[x] \in S
    BY ElementOfSeq
  <2>2. /\ q \in Seq(S)
        /\ Len(q) = IF j <= Len(s) THEN Len(s) - j + 1 ELSE 0
        /\ \A x \in 1 .. (Len(s) - j + 1) : q[x] = s[j + x - 1]
    <3> Len(s) \in Int /\ j \in Int
      OBVIOUS
    <3> HIDE DEF q
    <3> QED  BY <2>1, SubSeqProperties DEF q
  <2> HIDE DEF q
  <2>3. QED  BY <2>2
<1> HIDE DEF p, q
<1>3. /\ p \o q \in Seq(S)
      /\ Len(p \o q) = Len(p) + Len(q)
      /\ \A x \in 1 .. (Len(p) + Len(q)) :
           (p \o q)[x] = IF x <= Len(p) THEN p[x] ELSE q[x - Len(p)]
  BY <1>1, <1>2, ConcatProperties
<1>4. Cut(s, i, j) = p \o q
  BY DEF Cut, p, q
<1>5. \A x \in i .. (Len(s) - (j - i)) : (p \o q)[x] = s[x + (j - i)]
  <2> TAKE x \in i .. (Len(s) - (j - i))
  <2>1. x - (i - 1) \in 1 .. (Len(s) - j + 1)
    OBVIOUS
  <2>2. (p \o q)[x] = q[x - (i - 1)]
    <3>1. x \in 1 .. (Len(p) + Len(q)) /\ ~(x <= Len(p))
      BY <1>1, <1>2
    <3> QED  BY <3>1, <1>1, <1>3
  <2>3. q[x - (i - 1)] = s[j + (x - (i - 1)) - 1]
    BY <1>2, <2>1
  <2>4. j + (x - (i - 1)) - 1 = x + (j - i)
    OBVIOUS
  <2> QED  BY <2>2, <2>3, <2>4
<1>6. \A x \in 1 .. (i - 1) : (p \o q)[x] = s[x]
  <2> TAKE x \in 1 .. (i - 1)
  <2>1. x \in 1 .. (Len(p) + Len(q)) /\ x <= Len(p)
    BY <1>1, <1>2
  <2> QED  BY <2>1, <1>1, <1>3
<1>7. Len(p \o q) = Len(s) - (j - i)
  BY <1>1, <1>2, <1>3
<1> QED  BY <1>3, <1>4, <1>5, <1>6, <1>7

(* Cutting keeps the other elements, each of them once.                    *)
LEMMA CutDistinct ==
  ASSUME NEW S, NEW s \in Seq(S), IsInjective(s),
         NEW i \in 1 .. (Len(s) + 1), NEW j \in i .. (Len(s) + 1)
  PROVE  /\ IsInjective(Cut(s, i, j))
         /\ Range(Cut(s, i, j)) = Range(s) \ {s[x] : x \in i .. (j - 1)}
<1> DEFINE c == Cut(s, i, j)
<1>1. /\ c \in Seq(S)
      /\ Len(c) = Len(s) - (j - i)
      /\ \A x \in 1 .. (i - 1) : c[x] = s[x]
      /\ \A x \in i .. (Len(s) - (j - i)) : c[x] = s[x + (j - i)]
  BY CutElements
<1> HIDE DEF c
<1>2. DOMAIN c = 1 .. (Len(s) - (j - i)) /\ DOMAIN s = 1 .. Len(s)
  BY <1>1
<1>3. IsInjective(c)
  <2> SUFFICES ASSUME NEW x \in DOMAIN c, NEW y \in DOMAIN c, c[x] = c[y]
               PROVE  x = y
    BY DEF IsInjective
  <2> DEFINE at(z) == IF z < i THEN z ELSE z + (j - i)
  <2>1. \A z \in DOMAIN c : at(z) \in DOMAIN s /\ c[z] = s[at(z)]
    <3> TAKE z \in DOMAIN c
    <3>1. CASE z < i
      BY <3>1, <1>1, <1>2
    <3>2. CASE z >= i
      <4>1. z \in i .. (Len(s) - (j - i))
        BY <3>2, <1>2
      <4> QED  BY <4>1, <3>2, <1>1, <1>2
    <3> QED  BY <3>1, <3>2, <1>2
  <2>2. at(x) = at(y)
    BY <2>1 DEF IsInjective
  <2>3. QED  BY <2>2, <1>2
<1>4. Range(c) \subseteq Range(s) \ {s[x] : x \in i .. (j - 1)}
  <2> SUFFICES ASSUME NEW x \in DOMAIN c
               PROVE  c[x] \in Range(s) /\ \A y \in i .. (j - 1) : c[x] # s[y]
    BY DEF Range
  <2>1. PICK z \in DOMAIN s : c[x] = s[z] /\ (z < i \/ z >= j)
    <3>1. CASE x < i
      BY <3>1, <1>1, <1>2
    <3>2. CASE x >= i
      <4>1. c[x] = s[x + (j - i)] /\ x + (j - i) \in DOMAIN s /\ x + (j - i) >= j
        BY <3>2, <1>1, <1>2
      <4> QED  BY <4>1
    <3> QED  BY <3>1, <3>2, <1>2
  <2>2. \A y \in i .. (j - 1) : y \in DOMAIN s /\ y # z
    BY <1>2, <2>1
  <2> QED  BY <2>1, <2>2 DEF IsInjective, Range
<1>5. Range(s) \ {s[x] : x \in i .. (j - 1)} \subseteq Range(c)
  <2> SUFFICES ASSUME NEW z \in DOMAIN s, \A y \in i .. (j - 1) : s[z] # s[y]
               PROVE  \E x \in DOMAIN c : c[x] = s[z]
    BY DEF Range
  <2>1. z \notin i .. (j - 1)
    OBVIOUS
  <2>2. CASE z < i
    BY <2>2, <1>1, <1>2, SMTT(30)
  <2>3. CASE z >= j
    <3>1. z - (j - i) \in i .. (Len(s) - (j - i))
      BY <2>3, <1>2
    <3>2. c[z - (j - i)] = s[(z - (j - i)) + (j - i)]
      BY <3>1, <1>1
    <3>3. (z - (j - i)) + (j - i) = z /\ z - (j - i) \in DOMAIN c
      BY <3>1, <1>2
    <3> QED  BY <3>2, <3>3
  <2> QED  BY <2>1, <2>2, <2>3, <1>2
<1> QED  BY <1>3, <1>4, <1>5 DEF c

(* erase(pos) is the range erase of one position.                          *)
LEMMA RemoveAtIsCut ==
  ASSUME NEW s, NEW i \in Int
  PROVE  RemoveAt(s, i) = Cut(s, i, i + 1)
BY DEF RemoveAt, Cut

(* Erasing one position of keys_ takes that key out and no other           *)
(* (ordered_map.h:554-586).                                                *)
LEMMA RemoveAtDistinct ==
  ASSUME NEW S, NEW s \in Seq(S), IsInjective(s), NEW i \in DOMAIN s
  PROVE  /\ RemoveAt(s, i) \in Seq(S)
         /\ Len(RemoveAt(s, i)) = Len(s) - 1
         /\ IsInjective(RemoveAt(s, i))
         /\ Range(RemoveAt(s, i)) = Range(s) \ {s[i]}
<1>1. /\ i \in 1 .. (Len(s) + 1) /\ i + 1 \in i .. (Len(s) + 1)
      /\ i .. ((i + 1) - 1) = {i}
  OBVIOUS
<1>a. ASSUME NEW j \in i .. (Len(s) + 1)
      PROVE  /\ Cut(s, i, j) \in Seq(S)
             /\ Len(Cut(s, i, j)) = Len(s) - (j - i)
             /\ IsInjective(Cut(s, i, j))
             /\ Range(Cut(s, i, j)) = Range(s) \ {s[x] : x \in i .. (j - 1)}
  <2>1. i \in 1 .. (Len(s) + 1)
    BY <1>1
  <2>2. Cut(s, i, j) \in Seq(S) /\ Len(Cut(s, i, j)) = Len(s) - (j - i)
    BY <2>1, CutElements
  <2>3. /\ IsInjective(Cut(s, i, j))
        /\ Range(Cut(s, i, j)) = Range(s) \ {s[x] : x \in i .. (j - 1)}
    BY <2>1, CutDistinct
  <2> QED  BY <2>2, <2>3
<1>2. /\ Cut(s, i, i + 1) \in Seq(S)
      /\ Len(Cut(s, i, i + 1)) = Len(s) - ((i + 1) - i)
  BY <1>1, <1>a
<1>3. /\ IsInjective(Cut(s, i, i + 1))
      /\ Range(Cut(s, i, i + 1)) = Range(s) \ {s[x] : x \in i .. ((i + 1) - 1)}
  BY <1>1, <1>a
<1>4. RemoveAt(s, i) = Cut(s, i, i + 1)
  BY <1>1, RemoveAtIsCut
<1>5. {s[x] : x \in i .. ((i + 1) - 1)} = {s[i]}
  BY <1>1
<1>6. Len(s) - ((i + 1) - i) = Len(s) - 1
  BY <1>1
<1>7. Len(RemoveAt(s, i)) = Len(s) - 1
  BY <1>2, <1>4, <1>6
<1>8. Range(RemoveAt(s, i)) = Range(s) \ {s[i]}
  BY <1>3, <1>4, <1>5
<1> QED  BY <1>2, <1>3, <1>4, <1>7, <1>8

(* Appending a key that keys_ lacks keeps its keys distinct                *)
(* (keys_.emplace_back, ordered_map.h:387).                                *)
LEMMA AppendDistinct ==
  ASSUME NEW S, NEW s \in Seq(S), IsInjective(s), NEW e \in S, e \notin Range(s)
  PROVE  /\ Append(s, e) \in Seq(S)
         /\ IsInjective(Append(s, e))
         /\ Range(Append(s, e)) = Range(s) \cup {e}
<1> DEFINE t == Append(s, e)
<1>1. /\ t \in Seq(S)
      /\ Len(t) = Len(s) + 1
      /\ \A i \in 1 .. Len(s) : t[i] = s[i]
      /\ t[Len(s) + 1] = e
  BY AppendProperties
<1> HIDE DEF t
<1>2. DOMAIN t = 1 .. (Len(s) + 1) /\ DOMAIN s = 1 .. Len(s)
  BY <1>1
<1>3. \A i \in DOMAIN s : s[i] # e
  BY DEF Range
<1>4. IsInjective(t)
  BY <1>1, <1>2, <1>3 DEF IsInjective
<1>5. Range(t) = Range(s) \cup {e}
  <2>1. Range(t) \subseteq Range(s) \cup {e}
    BY <1>1, <1>2 DEF Range
  <2>2. \A i \in DOMAIN s : i \in DOMAIN t /\ t[i] = s[i]
    BY <1>1, <1>2
  <2>3. Range(s) \subseteq Range(t)
    BY <2>2 DEF Range
  <2>4. e \in Range(t)
    <3>1. Len(s) + 1 \in DOMAIN t
      BY <1>2
    <3> QED  BY <3>1, <1>1 DEF Range
  <2> QED  BY <2>1, <2>3, <2>4
<1> QED  BY <1>1, <1>4, <1>5 DEF t

(* Taking the first moved key off leaves the others, each of them once.    *)
LEMMA TailDistinct ==
  ASSUME NEW S, NEW s \in Seq(S), IsInjective(s), s # <<>>
  PROVE  /\ Head(s) \in Range(s)
         /\ Tail(s) \in Seq(S)
         /\ IsInjective(Tail(s))
         /\ Range(Tail(s)) = Range(s) \ {Head(s)}
<1> DEFINE t == Tail(s)
<1>1. /\ t \in Seq(S)
      /\ Len(t) = Len(s) - 1
      /\ \A i \in 1 .. Len(t) : t[i] = s[i + 1]
  BY HeadTailProperties
<1>2. Len(s) >= 1 /\ Head(s) = s[1]
  OBVIOUS
<1> HIDE DEF t
<1>3. DOMAIN t = 1 .. (Len(s) - 1) /\ DOMAIN s = 1 .. Len(s)
  BY <1>1
<1>4. Head(s) \in Range(s)
  BY <1>2, <1>3 DEF Range
<1>5. \A i \in DOMAIN t : i + 1 \in DOMAIN s /\ i + 1 # 1 /\ t[i] = s[i + 1]
  BY <1>1, <1>3
<1>6. IsInjective(t)
  <2> SUFFICES ASSUME NEW x \in DOMAIN t, NEW y \in DOMAIN t, t[x] = t[y]
               PROVE  x = y
    BY DEF IsInjective
  <2>1. x + 1 = y + 1
    BY <1>5 DEF IsInjective
  <2> QED  BY <2>1, <1>3
<1>7. Range(t) \subseteq Range(s) \ {Head(s)}
  BY <1>2, <1>3, <1>5 DEF Range, IsInjective
<1>8. Range(s) \ {Head(s)} \subseteq Range(t)
  <2> SUFFICES ASSUME NEW z \in DOMAIN s, s[z] # Head(s)
               PROVE  \E x \in DOMAIN t : t[x] = s[z]
    BY DEF Range
  <2>1. z - 1 \in DOMAIN t /\ (z - 1) + 1 = z
    BY <1>2, <1>3
  <2> QED  BY <2>1, <1>5
<1> QED  BY <1>1, <1>4, <1>6, <1>7, <1>8 DEF t

(* std::find over a vector without duplicates.                             *)
LEMMA FirstIndexFinds ==
  ASSUME NEW S, NEW s \in Seq(S), IsInjective(s), NEW k \in Range(s)
  PROVE  FirstIndex(s, k) \in DOMAIN s /\ s[FirstIndex(s, k)] = k
<1>1. PICK i \in DOMAIN s : s[i] = k
  BY DEF Range
<1>2. \A j \in DOMAIN s : s[j] = k => i <= j
  <2> SUFFICES ASSUME NEW j \in DOMAIN s, s[j] = k  PROVE i <= j
    OBVIOUS
  <2>1. i = j
    BY <1>1 DEF IsInjective
  <2>2. i \in Nat
    OBVIOUS
  <2> QED  BY <2>1, <2>2
<1>3. \E x \in DOMAIN s : s[x] = k /\ \A j \in DOMAIN s : s[j] = k => x <= j
  BY <1>1, <1>2
<1> QED  BY <1>3 DEF FirstIndex

-----------------------------------------------------------------------------
(* map_ as a partial function. *)

PartialMap == UNION {[S -> Val] : S \in SUBSET Key}

(* The cleared map is a partial map without a key.                         *)
LEMMA EmptyMapType == EmptyMap \in PartialMap /\ DOMAIN EmptyMap = {}
<1>1. EmptyMap \in [{} -> Val]
  BY DEF EmptyMap
<1> QED  BY <1>1 DEF PartialMap, EmptyMap

(* Binding a key in map_ adds that key and no other.                       *)
LEMMA PutType ==
  ASSUME NEW f \in PartialMap, NEW k \in Key, NEW v \in Val
  PROVE  Put(f, k, v) \in PartialMap /\ DOMAIN Put(f, k, v) = DOMAIN f \cup {k}
<1>1. PICK S \in SUBSET Key : f \in [S -> Val]
  BY DEF PartialMap
<1>2. Put(f, k, v) \in [S \cup {k} -> Val] /\ DOMAIN f = S
  BY <1>1 DEF Put
<1>3. S \cup {k} \in SUBSET Key
  OBVIOUS
<1> QED  BY <1>2, <1>3 DEF PartialMap, Put

(* Erasing keys of map_ leaves the keys that are kept.                     *)
LEMMA RestrictType ==
  ASSUME NEW f \in PartialMap, NEW S \in SUBSET DOMAIN f
  PROVE  Restrict(f, S) \in PartialMap /\ DOMAIN Restrict(f, S) = S
<1>1. PICK T \in SUBSET Key : f \in [T -> Val]
  BY DEF PartialMap
<1>2. Restrict(f, S) \in [S -> Val] /\ S \in SUBSET Key
  BY <1>1 DEF Restrict
<1> QED  BY <1>2 DEF PartialMap, Restrict

(* What map_ binds are keys, to values.                                    *)
LEMMA PartialMapElements ==
  ASSUME NEW f \in PartialMap
  PROVE  DOMAIN f \subseteq Key /\ \A k \in DOMAIN f : f[k] \in Val
BY DEF PartialMap

(* Assigning a bound key a value keeps the keys of map_.                   *)
LEMMA UpdateType ==
  ASSUME NEW f \in PartialMap, NEW k \in DOMAIN f, NEW v \in Val
  PROVE  [f EXCEPT ![k] = v] \in PartialMap /\ DOMAIN [f EXCEPT ![k] = v] = DOMAIN f
<1>1. PICK T \in SUBSET Key : f \in [T -> Val]
  BY DEF PartialMap
<1>2. [f EXCEPT ![k] = v] \in [T -> Val]
  BY <1>1
<1> QED  BY <1>1, <1>2 DEF PartialMap

-----------------------------------------------------------------------------
(* The inductive invariant. *)

(* Facts of a merge in progress: the keys still ahead of its loop are not  *)
(* among those it has moved, so the extract of each finds its node.        *)
MergeInv ==
  /\ merge # NoMerge => ~loop.live
  /\ merge.src = merge.dst => merge.moved = <<>>
  /\ IsInjective(merge.moved)
  /\ \A i \in DOMAIN keys[merge.src] :
        i >= merge.at => keys[merge.src][i] \notin Range(merge.moved)

LoopInv ==
  loop.live => /\ loop.index <= Len(keys["a"])
               /\ loop.key = KeyAt(keys["a"], loop.index)
               /\ LoopExact

IndInv == TypeOK /\ Consistent /\ MergeInv /\ LoopInv

(* What one map satisfies between calls.                                   *)
Agree(mp, ks) ==
  /\ mp \in PartialMap
  /\ ks \in Seq(Key)
  /\ IsInjective(ks)
  /\ Range(ks) = DOMAIN mp

(* Between calls map_ and keys_ of each map list the same keys.            *)
LEMMA AgreeBetweenCalls ==
  ASSUME IndInv, merge = NoMerge
  PROVE  \A m \in Maps : Agree(map[m], keys[m])
<1>1. \A m \in Maps : Pending(m) = {}
  BY DEF Pending, NoMerge, Range
<1> QED  BY <1>1 DEF IndInv, TypeOK, Consistent, Agree, PartialMap

(* An empty keys_ lists no key, hence none twice.                          *)
LEMMA EmptySeqFacts == IsInjective(<<>>) /\ Range(<<>>) = {}
BY DEF IsInjective, Range

(* A call that leaves both maps in agreement preserves the invariant.      *)
LEMMA CallPreserves ==
  ASSUME IndInv, Idle, UNCHANGED <<merge, loop>>,
         DOMAIN map' = Maps, DOMAIN keys' = Maps,
         map' = [m \in Maps |-> map'[m]], keys' = [m \in Maps |-> keys'[m]],
         \A m \in Maps : Agree(map'[m], keys'[m]),
         node' \in (Key \X Val) \cup {NoNode},
         ret' \in [key : Key \cup {NoKey}, ok : BOOLEAN]
  PROVE  IndInv'
<1>1. merge' = NoMerge /\ ~loop'.live /\ loop' = loop
  BY DEF Idle
<1>2. TypeOK'
  <2>1. map' \in [Maps -> PartialMap]
    BY DEF Agree
  <2>2. keys' \in [Maps -> Seq(Key)]
    BY DEF Agree
  <2> QED  BY <2>1, <2>2 DEF IndInv, TypeOK, PartialMap
<1>3. \A m \in Maps : Pending(m)' = {}
  BY <1>1, EmptySeqFacts DEF Pending, NoMerge
<1>4. Consistent'
  BY <1>3 DEF Consistent, Agree
<1>5. MergeInv'
  BY <1>1, EmptySeqFacts DEF MergeInv, NoMerge
<1>6. LoopInv'
  BY <1>1 DEF LoopInv
<1> QED  BY <1>2, <1>4, <1>5, <1>6 DEF IndInv

-----------------------------------------------------------------------------
(* Each way a call changes one map keeps its two members in agreement. *)

(* map_.insert with keys_.emplace_back of a key the map lacks              *)
(* (ordered_map.h:387-388).                                                *)
LEMMA BindAgrees ==
  ASSUME NEW mp, NEW ks, Agree(mp, ks),
         NEW k \in Key, k \notin DOMAIN mp, NEW v \in Val
  PROVE  Agree(Put(mp, k, v), Append(ks, k))
<1>1. /\ Put(mp, k, v) \in PartialMap
      /\ DOMAIN Put(mp, k, v) = DOMAIN mp \cup {k}
  BY PutType DEF Agree
<1>2. /\ Append(ks, k) \in Seq(Key)
      /\ IsInjective(Append(ks, k))
      /\ Range(Append(ks, k)) = Range(ks) \cup {k}
  BY AppendDistinct DEF Agree
<1> QED  BY <1>1, <1>2 DEF Agree

(* map_.erase with keys_.erase at the position of the key                  *)
(* (ordered_map.h:554-586).                                                *)
LEMMA ErasePosAgrees ==
  ASSUME NEW mp, NEW ks, Agree(mp, ks), NEW i \in DOMAIN ks
  PROVE  Agree(Drop(mp, ks[i]), RemoveAt(ks, i))
<1>1. /\ RemoveAt(ks, i) \in Seq(Key)
      /\ IsInjective(RemoveAt(ks, i))
      /\ Range(RemoveAt(ks, i)) = Range(ks) \ {ks[i]}
  BY RemoveAtDistinct DEF Agree
<1>2. /\ Drop(mp, ks[i]) \in PartialMap
      /\ DOMAIN Drop(mp, ks[i]) = DOMAIN mp \ {ks[i]}
  BY RestrictType DEF Agree, Drop
<1> QED  BY <1>1, <1>2 DEF Agree

(* Erasing a key at the position std::find gives (ordered_map.h:627-645).  *)
LEMMA UnbindAgrees ==
  ASSUME NEW mp, NEW ks, Agree(mp, ks), NEW k \in DOMAIN mp
  PROVE  Agree(Drop(mp, k), RemoveAt(ks, FirstIndex(ks, k)))
<1>1. FirstIndex(ks, k) \in DOMAIN ks /\ ks[FirstIndex(ks, k)] = k
  BY FirstIndexFinds DEF Agree
<1> QED  BY <1>1, ErasePosAgrees

(* Erasing a range of positions with their keys (ordered_map.h:588-624).   *)
LEMMA EraseRangeAgrees ==
  ASSUME NEW mp, NEW ks, Agree(mp, ks), NEW i \in 1 .. (Len(ks) + 1),
         NEW j \in i .. (Len(ks) + 1)
  PROVE  Agree(Restrict(mp, DOMAIN mp \ {ks[x] : x \in i .. (j - 1)}),
               SubSeq(ks, 1, i - 1) \o SubSeq(ks, j, Len(ks)))
<1>1. /\ Cut(ks, i, j) \in Seq(Key)
      /\ IsInjective(Cut(ks, i, j))
      /\ Range(Cut(ks, i, j)) = Range(ks) \ {ks[x] : x \in i .. (j - 1)}
  BY CutElements, CutDistinct DEF Agree
<1>2. /\ Restrict(mp, DOMAIN mp \ {ks[x] : x \in i .. (j - 1)}) \in PartialMap
      /\ DOMAIN Restrict(mp, DOMAIN mp \ {ks[x] : x \in i .. (j - 1)})
           = DOMAIN mp \ {ks[x] : x \in i .. (j - 1)}
  BY RestrictType DEF Agree
<1> QED  BY <1>1, <1>2 DEF Agree, Cut

(* Assigning a bound key (ordered_map.h:441-482).                          *)
LEMMA AssignAgrees ==
  ASSUME NEW mp, NEW ks, Agree(mp, ks), NEW k \in DOMAIN mp, NEW v \in Val
  PROVE  Agree([mp EXCEPT ![k] = v], ks)
BY UpdateType DEF Agree

(* clear() empties both members (ordered_map.h:378-381).                   *)
LEMMA EmptyAgrees == Agree(EmptyMap, <<>>)
BY EmptyMapType, EmptySeqFacts DEF Agree

(* An initializer list with distinct keys fills both members alike         *)
(* (ordered_map.h:117-129).                                                *)
LEMMA ListAgrees ==
  ASSUME NEW l \in Lists
  PROVE  Agree(ListMap(l), ListKeys(l))
<1>1. l \in Seq(Key \X Val) /\ \A i, j \in DOMAIN l : l[i][1] = l[j][1] => i = j
  BY ListsAssumption
<1>2. \A i \in DOMAIN l : l[i][1] \in Key /\ l[i][2] \in Val
  <2> TAKE i \in DOMAIN l
  <2>1. l[i] \in Key \X Val
    BY <1>1
  <2> QED  BY <2>1
<1>3. DOMAIN l = 1 .. Len(l) /\ Len(l) \in Nat
  BY <1>1
<1>4. ListKeys(l) \in Seq(Key)
  <2>1. ListKeys(l) = [i \in 1 .. Len(l) |-> l[i][1]]
    BY <1>3 DEF ListKeys
  <2>2. \A i \in 1 .. Len(l) : l[i][1] \in Key
    BY <1>2, <1>3
  <2>3. [i \in 1 .. Len(l) |-> l[i][1]] \in Seq(Key)
    BY <2>2, <1>3, IsASeq
  <2> QED  BY <2>1, <2>3
<1>5. IsInjective(ListKeys(l))
  BY <1>1 DEF IsInjective, ListKeys
<1>6. Range(ListKeys(l)) = {l[i][1] : i \in DOMAIN l}
  BY DEF Range, ListKeys
<1>7. \A k \in Range(ListKeys(l)) : FirstIndex(ListKeys(l), k) \in DOMAIN l
  BY <1>4, <1>5, FirstIndexFinds DEF ListKeys
<1>8. ListMap(l) \in [Range(ListKeys(l)) -> Val]
  BY <1>2, <1>6, <1>7 DEF ListMap
<1>9. Range(ListKeys(l)) \in SUBSET Key
  BY <1>2, <1>6
<1> QED  BY <1>4, <1>5, <1>8, <1>9 DEF Agree, PartialMap

-----------------------------------------------------------------------------
(* The calls. *)

(* A call that changes map m only.                                         *)
LEMMA OneMapCall ==
  ASSUME IndInv, Idle, UNCHANGED <<merge, loop>>, NEW m \in Maps, NEW mp, NEW ks,
         map' = [map EXCEPT ![m] = mp], keys' = [keys EXCEPT ![m] = ks],
         Agree(mp, ks),
         node' \in (Key \X Val) \cup {NoNode},
         ret' \in [key : Key \cup {NoKey}, ok : BOOLEAN]
  PROVE  IndInv'
<1>1. \A n \in Maps : Agree(map[n], keys[n])
  BY AgreeBetweenCalls DEF Idle
<1>2. DOMAIN map = Maps /\ DOMAIN keys = Maps
  BY DEF IndInv, TypeOK
<1>3. /\ DOMAIN map' = Maps /\ DOMAIN keys' = Maps
      /\ map' = [n \in Maps |-> map'[n]] /\ keys' = [n \in Maps |-> keys'[n]]
  BY <1>2
<1>4. \A n \in Maps : Agree(map'[n], keys'[n])
  BY <1>1, <1>2
<1> QED  BY <1>3, <1>4, CallPreserves

(* A call that changes no map.                                             *)
LEMMA NoMapCall ==
  ASSUME IndInv, Idle, UNCHANGED <<merge, loop, map, keys>>,
         node' \in (Key \X Val) \cup {NoNode},
         ret' \in [key : Key \cup {NoKey}, ok : BOOLEAN]
  PROVE  IndInv'
<1>1. \A n \in Maps : Agree(map[n], keys[n])
  BY AgreeBetweenCalls DEF Idle
<1>2. map \in [Maps -> PartialMap] /\ keys \in [Maps -> Seq(Key)]
  BY DEF IndInv, TypeOK, PartialMap
<1> QED  BY <1>1, <1>2, CallPreserves

(* An iterator caches a key or nothing.                                    *)
LEMMA KeyAtType ==
  ASSUME NEW s \in Seq(Key), NEW n \in Nat
  PROVE  KeyAt(s, n) \in Key \cup {NoKey}
BY DEF KeyAt

(* Binding a key the map lacks, whatever the call returns.                 *)
LEMMA BindCall ==
  ASSUME IndInv, Idle, UNCHANGED <<merge, loop>>, NEW m \in Maps,
         NEW k \in Key, ~Contains_(m, k), NEW v \in Val, Bind(m, k, v),
         node' \in (Key \X Val) \cup {NoNode},
         ret' \in [key : Key \cup {NoKey}, ok : BOOLEAN]
  PROVE  IndInv'
<1>1. Agree(map[m], keys[m])
  BY AgreeBetweenCalls DEF Idle
<1>2. Agree(Put(map[m], k, v), Append(keys[m], k))
  BY <1>1, BindAgrees DEF Contains_
<1>3. /\ map' = [map EXCEPT ![m] = Put(map[m], k, v)]
      /\ keys' = [keys EXCEPT ![m] = Append(keys[m], k)]
  BY DEF Bind
<1> QED  BY <1>2, <1>3, OneMapCall

(* Unbinding a key the map binds, whatever the call returns.               *)
LEMMA UnbindCall ==
  ASSUME IndInv, Idle, UNCHANGED <<merge, loop>>, NEW m \in Maps,
         NEW k, Contains_(m, k), Unbind(m, k),
         node' \in (Key \X Val) \cup {NoNode},
         ret' \in [key : Key \cup {NoKey}, ok : BOOLEAN]
  PROVE  IndInv'
<1>1. Agree(map[m], keys[m])
  BY AgreeBetweenCalls DEF Idle
<1>2. Agree(Drop(map[m], k), RemoveAt(keys[m], FirstIndex(keys[m], k)))
  BY <1>1, UnbindAgrees DEF Contains_
<1>3. /\ map' = [map EXCEPT ![m] = Drop(map[m], k)]
      /\ keys' = [keys EXCEPT ![m] = RemoveAt(keys[m], FirstIndex(keys[m], k))]
  BY DEF Unbind
<1> QED  BY <1>2, <1>3, OneMapCall

(* insert and emplace preserve the invariant.                              *)
LEMMA InsertPreserves ==
  ASSUME IndInv, NEW m \in Maps, NEW k \in Key, NEW v \in Val, Insert(m, k, v)
  PROVE  IndInv'
<1>1. /\ Idle /\ UNCHANGED <<merge, loop>>
      /\ node' \in (Key \X Val) \cup {NoNode}
      /\ ret' \in [key : Key \cup {NoKey}, ok : BOOLEAN]
  BY DEF Insert, IndInv, TypeOK, Contains_
<1>2. CASE Contains_(m, k)
  BY <1>1, <1>2, NoMapCall DEF Insert
<1>3. CASE ~Contains_(m, k)
  BY <1>1, <1>3, BindCall DEF Insert
<1> QED  BY <1>2, <1>3

(* insert of a pair that is moved preserves the invariant, whatever the    *)
(* move leaves of the key.                                                 *)
LEMMA InsertPairPreserves ==
  ASSUME IndInv, NEW m \in Maps, NEW k \in Key, NEW v \in Val, InsertPair(m, k, v)
  PROVE  IndInv'
<1>1. /\ Idle /\ UNCHANGED <<merge, loop>>
      /\ node' \in (Key \X Val) \cup {NoNode}
  BY DEF InsertPair, IndInv, TypeOK
<1>2. ret' \in [key : Key \cup {NoKey}, ok : BOOLEAN]
  <2>1. CASE Contains_(m, k)
    <3>1. ret' = [key |-> k, ok |-> FALSE]
      BY <2>1 DEF InsertPair
    <3> QED  BY <3>1
  <2>2. CASE ~Contains_(m, k)
    <3>1. PICK x \in Key \cup {NoKey} :
            ret' = [key |-> IF x \in DOMAIN map'[m] THEN x ELSE NoKey, ok |-> TRUE]
      BY <2>2, Zenon DEF InsertPair
    <3> QED  BY <3>1
  <2> QED  BY <2>1, <2>2
<1>3. CASE Contains_(m, k)
  BY <1>1, <1>2, <1>3, NoMapCall DEF InsertPair
<1>4. CASE ~Contains_(m, k)
  BY <1>1, <1>2, <1>4, BindCall DEF InsertPair
<1> QED  BY <1>3, <1>4

(* insert(node_type&&) preserves the invariant.                            *)
LEMMA InsertNodePreserves ==
  ASSUME IndInv, NEW m \in Maps, InsertNode(m)
  PROVE  IndInv'
<1>1. Idle /\ UNCHANGED <<merge, loop>>
  BY DEF InsertNode
<1>2. CASE node = NoNode
  <2>1. UNCHANGED <<map, keys, node>> /\ ret' = [key |-> NoKey, ok |-> FALSE]
    BY <1>2, Zenon DEF InsertNode
  <2>2. ret' \in [key : Key \cup {NoKey}, ok : BOOLEAN]
    BY <2>1
  <2> QED  BY <1>1, <2>1, <2>2, NoMapCall DEF IndInv, TypeOK
<1>3. CASE node # NoNode
  <2>1. node[1] \in Key /\ node[2] \in Val
    BY <1>3 DEF IndInv, TypeOK
  <2>2. ret' \in [key : Key \cup {NoKey}, ok : BOOLEAN]
    <3>1. ret' = [key |-> node[1], ok |-> ~Contains_(m, node[1])]
      BY <1>3, Zenon DEF InsertNode
    <3> QED  BY <3>1, <2>1 DEF Contains_
  <2>3. CASE Contains_(m, node[1])
    <3>1. UNCHANGED <<map, keys, node>>
      BY <1>3, <2>3 DEF InsertNode
    <3> QED  BY <1>1, <2>2, <3>1, NoMapCall DEF IndInv, TypeOK
  <2>4. CASE ~Contains_(m, node[1])
    <3>1. Bind(m, node[1], node[2]) /\ node' = NoNode
      BY <1>3, <2>4 DEF InsertNode
    <3> QED  BY <1>1, <2>1, <2>2, <2>4, <3>1, BindCall
  <2> QED  BY <2>3, <2>4
<1> QED  BY <1>2, <1>3

(* insert_or_assign preserves the invariant.                               *)
LEMMA InsertOrAssignPreserves ==
  ASSUME IndInv, NEW m \in Maps, NEW k \in Key, NEW v \in Val,
         InsertOrAssign(m, k, v)
  PROVE  IndInv'
<1>1. /\ Idle /\ UNCHANGED <<merge, loop>>
      /\ node' \in (Key \X Val) \cup {NoNode}
      /\ ret' \in [key : Key \cup {NoKey}, ok : BOOLEAN]
  BY DEF InsertOrAssign, IndInv, TypeOK, Contains_
<1>2. CASE Contains_(m, k)
  <2>1. Agree(map[m], keys[m])
    BY <1>1, AgreeBetweenCalls DEF Idle
  <2>2. Agree([map[m] EXCEPT ![k] = v], keys[m])
    BY <1>2, <2>1, AssignAgrees DEF Contains_
  <2>3. /\ map' = [map EXCEPT ![m] = [map[m] EXCEPT ![k] = v]]
        /\ keys' = [keys EXCEPT ![m] = keys[m]]
    BY <1>2 DEF InsertOrAssign, IndInv, TypeOK
  <2> QED  BY <1>1, <2>2, <2>3, OneMapCall
<1>3. CASE ~Contains_(m, k)
  BY <1>1, <1>3, BindCall DEF InsertOrAssign
<1> QED  BY <1>2, <1>3

(* operator[] preserves the invariant.                                     *)
LEMMA SubscriptPreserves ==
  ASSUME IndInv, NEW m \in Maps, NEW k \in Key, Subscript(m, k)
  PROVE  IndInv'
<1>1. /\ Idle /\ UNCHANGED <<merge, loop>>
      /\ node' \in (Key \X Val) \cup {NoNode}
      /\ ret' \in [key : Key \cup {NoKey}, ok : BOOLEAN]
  BY DEF Subscript, IndInv, TypeOK
<1>2. CASE Contains_(m, k)
  BY <1>1, <1>2, NoMapCall DEF Subscript
<1>3. CASE ~Contains_(m, k)
  BY <1>1, <1>3, BindCall, DefaultAssumption DEF Subscript
<1> QED  BY <1>2, <1>3

(* erase(key) preserves the invariant.                                     *)
LEMMA EraseKeyPreserves ==
  ASSUME IndInv, NEW m \in Maps, NEW k \in Key, EraseKey(m, k)
  PROVE  IndInv'
<1>1. /\ Idle /\ UNCHANGED <<merge, loop>>
      /\ node' \in (Key \X Val) \cup {NoNode}
      /\ ret' \in [key : Key \cup {NoKey}, ok : BOOLEAN]
  BY DEF EraseKey, IndInv, TypeOK, Contains_
<1>2. CASE Contains_(m, k)
  BY <1>1, <1>2, UnbindCall DEF EraseKey
<1>3. CASE ~Contains_(m, k)
  BY <1>1, <1>3, NoMapCall DEF EraseKey
<1> QED  BY <1>2, <1>3

(* extract preserves the invariant.                                        *)
LEMMA ExtractPreserves ==
  ASSUME IndInv, NEW m \in Maps, NEW k \in Key, Extract(m, k)
  PROVE  IndInv'
<1>1. /\ Idle /\ UNCHANGED <<merge, loop>>
      /\ ret' \in [key : Key \cup {NoKey}, ok : BOOLEAN]
  BY DEF Extract, Contains_
<1>2. CASE Contains_(m, k)
  <2>1. map[m] \in PartialMap
    BY DEF IndInv, TypeOK, PartialMap
  <2>2. map[m][k] \in Val
    BY <1>2, <2>1, PartialMapElements DEF Contains_
  <2>3. node' \in (Key \X Val) \cup {NoNode} /\ Unbind(m, k)
    BY <1>2, <2>2 DEF Extract
  <2> QED  BY <1>1, <1>2, <2>3, UnbindCall
<1>3. CASE ~Contains_(m, k)
  BY <1>1, <1>3, NoMapCall DEF Extract
<1> QED  BY <1>2, <1>3

(* erase(pos) preserves the invariant.                                     *)
LEMMA ErasePosPreserves ==
  ASSUME IndInv, NEW m \in Maps, NEW i \in DOMAIN keys[m], ErasePos(m, i)
  PROVE  IndInv'
<1>1. /\ Idle /\ UNCHANGED <<merge, loop>>
      /\ node' \in (Key \X Val) \cup {NoNode}
  BY DEF ErasePos, IndInv, TypeOK
<1>2. Agree(map[m], keys[m])
  BY <1>1, AgreeBetweenCalls DEF Idle
<1>3. Agree(Drop(map[m], keys[m][i]), RemoveAt(keys[m], i))
  BY <1>2, ErasePosAgrees
<1>4. /\ map' = [map EXCEPT ![m] = Drop(map[m], keys[m][i])]
      /\ keys' = [keys EXCEPT ![m] = RemoveAt(keys[m], i)]
  BY DEF ErasePos
<1>5. ret' \in [key : Key \cup {NoKey}, ok : BOOLEAN]
  <2>1. keys'[m] \in Seq(Key) /\ i - 1 \in Nat
    BY <1>2, <1>3, <1>4 DEF Agree, IndInv, TypeOK
  <2>2. ret' = [key |-> KeyAt(keys'[m], i - 1), ok |-> TRUE]
    BY DEF ErasePos
  <2> QED  BY <2>1, <2>2, KeyAtType
<1> QED  BY <1>1, <1>3, <1>4, <1>5, OneMapCall

(* erase(first, last) preserves the invariant.                             *)
LEMMA EraseRangePreserves ==
  ASSUME IndInv, NEW m \in Maps, NEW i \in 1 .. (Len(keys[m]) + 1),
         NEW j \in 1 .. (Len(keys[m]) + 1), i <= j, EraseRange(m, i, j)
  PROVE  IndInv'
<1> DEFINE mp == Restrict(map[m], DOMAIN map[m] \ {keys[m][x] : x \in i .. (j - 1)})
           ks == SubSeq(keys[m], 1, i - 1) \o SubSeq(keys[m], j, Len(keys[m]))
<1>1. /\ Idle /\ UNCHANGED <<merge, loop>>
      /\ node' \in (Key \X Val) \cup {NoNode}
  BY DEF EraseRange, IndInv, TypeOK
<1>2. Agree(map[m], keys[m])
  BY <1>1, AgreeBetweenCalls DEF Idle
<1>3. Agree(mp, ks)
  <2>1. j \in i .. (Len(keys[m]) + 1)
    BY <1>2 DEF Agree
  <2> QED  BY <1>2, <2>1, EraseRangeAgrees
<1>4. /\ map' = [map EXCEPT ![m] = mp]
      /\ keys' = [keys EXCEPT ![m] = ks]
  BY DEF EraseRange
<1>5. ret' \in [key : Key \cup {NoKey}, ok : BOOLEAN]
  <2> HIDE DEF ks, mp
  <2>1. keys'[m] \in Seq(Key) /\ i - 1 \in Nat
    BY <1>2, <1>3, <1>4 DEF Agree, IndInv, TypeOK
  <2>2. ret' = [key |-> KeyAt(keys'[m], i - 1), ok |-> TRUE]
    BY DEF EraseRange
  <2> QED  BY <2>1, <2>2, KeyAtType
<1> HIDE DEF mp, ks
<1> QED  BY <1>1, <1>3, <1>4, <1>5, OneMapCall

(* clear, swap and the assignments preserve the invariant.                 *)
LEMMA WholeMapCalls ==
  ASSUME IndInv,
         \/ \E m \in Maps : Clear(m)
         \/ Swap
         \/ \E dst, src \in Maps : CopyAssign(dst, src)
         \/ \E m \in Maps, l \in Lists : ListAssign(m, l)
  PROVE  IndInv'
<1>1. /\ Idle /\ UNCHANGED <<merge, loop, node>>
      /\ ret' = [key |-> NoKey, ok |-> TRUE]
  <2>1. ASSUME NEW m \in Maps, Clear(m)
        PROVE  Idle /\ UNCHANGED <<merge, loop, node>> /\ ret' = [key |-> NoKey, ok |-> TRUE]
    BY <2>1 DEF Clear
  <2>2. ASSUME Swap
        PROVE  Idle /\ UNCHANGED <<merge, loop, node>> /\ ret' = [key |-> NoKey, ok |-> TRUE]
    BY <2>2 DEF Swap
  <2>3. ASSUME NEW dst \in Maps, NEW src \in Maps, CopyAssign(dst, src)
        PROVE  Idle /\ UNCHANGED <<merge, loop, node>> /\ ret' = [key |-> NoKey, ok |-> TRUE]
    BY <2>3 DEF CopyAssign
  <2>4. ASSUME NEW m \in Maps, NEW l \in Lists, ListAssign(m, l)
        PROVE  Idle /\ UNCHANGED <<merge, loop, node>> /\ ret' = [key |-> NoKey, ok |-> TRUE]
    BY <2>4 DEF ListAssign
  <2> QED  BY <2>1, <2>2, <2>3, <2>4, Zenon
<1>7. /\ node' \in (Key \X Val) \cup {NoNode}
      /\ ret' \in [key : Key \cup {NoKey}, ok : BOOLEAN]
  BY <1>1 DEF IndInv, TypeOK
<1>2. \A m \in Maps : Agree(map[m], keys[m])
  BY <1>1, AgreeBetweenCalls DEF Idle
<1>3. ASSUME NEW m \in Maps, Clear(m)  PROVE IndInv'
  BY <1>1, <1>7, <1>3, EmptyAgrees, OneMapCall DEF Clear
<1>4. CASE Swap
  <2>1. /\ map' = [m \in Maps |-> map[Other(m)]]
        /\ keys' = [m \in Maps |-> keys[Other(m)]]
    BY <1>4 DEF Swap
  <2>2. \A m \in Maps : Other(m) \in Maps
    BY DEF Maps, Other
  <2>3. \A m \in Maps : Agree(map'[m], keys'[m])
    BY <1>2, <2>1, <2>2
  <2> QED  BY <1>1, <1>7, <2>1, <2>3, CallPreserves
<1>5. ASSUME NEW dst \in Maps, NEW src \in Maps, CopyAssign(dst, src)
      PROVE  IndInv'
  BY <1>1, <1>7, <1>2, <1>5, OneMapCall DEF CopyAssign
<1>6. ASSUME NEW m \in Maps, NEW l \in Lists, ListAssign(m, l)  PROVE IndInv'
  BY <1>1, <1>7, <1>6, ListAgrees, OneMapCall DEF ListAssign
<1> QED  BY <1>3, <1>4, <1>5, <1>6

(* Every modifier of one map preserves the invariant.                      *)
LEMMA ModifyPreserves ==
  ASSUME IndInv, NEW m \in Maps, Modify(m)
  PROVE  IndInv'
<1>1. ASSUME NEW k \in Key, NEW v \in Val,
             Insert(m, k, v) \/ InsertPair(m, k, v) \/ Emplace(m, k, v)
             \/ InsertOrAssign(m, k, v)
      PROVE  IndInv'
  BY <1>1, InsertPreserves, InsertPairPreserves, InsertOrAssignPreserves DEF Emplace
<1>2. ASSUME NEW k \in Key, Subscript(m, k) \/ EraseKey(m, k) \/ Extract(m, k)
      PROVE  IndInv'
  BY <1>2, SubscriptPreserves, EraseKeyPreserves, ExtractPreserves
<1>3. ASSUME InsertNode(m)  PROVE IndInv'
  BY <1>3, InsertNodePreserves
<1>4. ASSUME NEW i \in DOMAIN keys[m], ErasePos(m, i)  PROVE IndInv'
  BY <1>4, ErasePosPreserves
<1>5. ASSUME NEW i \in 1 .. (Len(keys[m]) + 1), NEW j \in 1 .. (Len(keys[m]) + 1),
             i <= j, EraseRange(m, i, j)
      PROVE  IndInv'
  BY <1>5, EraseRangePreserves
<1>6. ASSUME Clear(m) \/ \E l \in Lists : ListAssign(m, l)  PROVE IndInv'
  BY <1>6, WholeMapCalls
<1> QED  BY <1>1, <1>2, <1>3, <1>4, <1>5, <1>6 DEF Modify

-----------------------------------------------------------------------------
(* The steps of merge. *)

(* merge(source) begins with nothing moved.                                *)
LEMMA MergeBeginPreserves ==
  ASSUME IndInv, NEW dst \in Maps, NEW src \in Maps, MergeBegin(dst, src)
  PROVE  IndInv'
<1>1. /\ Idle /\ UNCHANGED <<map, keys, node, loop, ret>>
      /\ merge' = [dst |-> dst, src |-> src, at |-> 1, moved |-> <<>>]
  BY DEF MergeBegin
<1>2. TypeOK'
  <2>1. <<>> \in Seq(Key)
    OBVIOUS
  <2>2. merge' \in [dst : Maps, src : Maps, at : Nat, moved : Seq(Key)]
    BY <1>1, <2>1
  <2> QED  BY <1>1, <2>2 DEF IndInv, TypeOK
<1>3. \A m \in Maps : Agree(map[m], keys[m])
  BY <1>1, AgreeBetweenCalls DEF Idle
<1>4. merge'.moved = <<>> /\ \A m \in Maps : Pending(m)' = {}
  BY <1>1, EmptySeqFacts DEF Pending
<1>5. Consistent'
  BY <1>1, <1>3, <1>4 DEF Consistent, Agree
<1>6. MergeInv'
  BY <1>1, <1>4, EmptySeqFacts DEF MergeInv, Idle
<1>7. LoopInv'
  BY <1>1 DEF LoopInv, Idle
<1> QED  BY <1>2, <1>5, <1>6, <1>7 DEF IndInv

(* One key examined by merge: if it moves, it stays in source.keys_ and is *)
(* pending (ordered_map.h:676-745).                                        *)
LEMMA MergeMovePreserves ==
  ASSUME IndInv, MergeMove
  PROVE  IndInv'
<1> DEFINE src == merge.src
           dst == merge.dst
           k == keys[src][merge.at]
<1>1. /\ merge.at \in DOMAIN keys[src] /\ merge.at \in Nat
      /\ src \in Maps /\ dst \in Maps
      /\ keys[src] \in Seq(Key) /\ k \in Key /\ k \in Range(keys[src])
      /\ merge \in [dst : Maps, src : Maps, at : Nat, moved : Seq(Key)]
      /\ UNCHANGED <<node, loop, ret>>
  BY DEF MergeMove, IndInv, TypeOK, Range
<1>2. ~loop.live
  <2>1. merge # NoMerge
    BY <1>1 DEF NoMerge
  <2> QED  BY <2>1 DEF IndInv, MergeInv
<1>3. LoopInv'
  BY <1>1, <1>2 DEF LoopInv
<1>4. CASE Contains_(dst, k)
  <2>1. UNCHANGED <<map, keys>> /\ merge' = [merge EXCEPT !.at = @ + 1]
    BY <1>4 DEF MergeMove
  <2>2. /\ merge'.src = merge.src /\ merge'.dst = merge.dst
        /\ merge'.moved = merge.moved /\ merge'.at = merge.at + 1
        /\ merge' \in [dst : Maps, src : Maps, at : Nat, moved : Seq(Key)]
    BY <1>1, <2>1
  <2>3. TypeOK'
    BY <1>1, <2>1, <2>2 DEF IndInv, TypeOK
  <2>4. Consistent'
    BY <2>1, <2>2 DEF IndInv, Consistent, Pending
  <2>5. MergeInv'
    <3>1. \A i \in DOMAIN keys[src] : i >= merge.at + 1 => i >= merge.at
      BY <1>1
    <3> QED  BY <1>1, <1>2, <2>1, <2>2, <3>1 DEF IndInv, MergeInv
  <2> QED  BY <1>3, <2>3, <2>4, <2>5 DEF IndInv
<1>5. CASE ~Contains_(dst, k)
  <2>1. /\ map' = [map EXCEPT ![src] = Drop(map[src], k),
                              ![dst] = Put(map[dst], k, map[src][k])]
        /\ keys' = [keys EXCEPT ![dst] = Append(keys[dst], k)]
        /\ merge' = [merge EXCEPT !.at = @ + 1, !.moved = Append(@, k)]
    <3>1. src = dst => Contains_(dst, k)
      <4>1. src = dst => Pending(src) = {}
        BY EmptySeqFacts DEF IndInv, MergeInv, Pending
      <4> QED  BY <1>1, <4>1 DEF IndInv, Consistent, Contains_
    <3> QED  BY <1>1, <1>5, <3>1 DEF MergeMove, IndInv, TypeOK
  <2>2. src # dst /\ Pending(dst) = {} /\ Pending(src) = Range(merge.moved)
    <3>1. src = dst => Pending(src) = {}
      BY EmptySeqFacts DEF IndInv, MergeInv, Pending
    <3>2. src # dst
      BY <1>1, <1>5, <3>1 DEF IndInv, Consistent, Contains_
    <3> QED  BY <3>2 DEF Pending
  <2>3. k \notin Range(merge.moved)
    BY <1>1 DEF IndInv, MergeInv
  <2>4. k \in DOMAIN map[src]
    BY <1>1, <2>2, <2>3 DEF IndInv, Consistent
  <2>5. map[src] \in PartialMap /\ map[dst] \in PartialMap
    BY <1>1 DEF IndInv, TypeOK, PartialMap
  <2>6. Agree(Put(map[dst], k, map[src][k]), Append(keys[dst], k))
    <3>1. Agree(map[dst], keys[dst])
      BY <1>1, <2>2, <2>5 DEF IndInv, TypeOK, Consistent, Agree
    <3>2. map[src][k] \in Val
      BY <2>4, <2>5, PartialMapElements
    <3> QED  BY <1>1, <1>5, <3>1, <3>2, BindAgrees DEF Contains_
  <2>7. /\ Drop(map[src], k) \in PartialMap
        /\ DOMAIN Drop(map[src], k) = DOMAIN map[src] \ {k}
    BY <2>5, RestrictType DEF Drop
  <2>8. /\ merge'.src = src /\ merge'.dst = dst /\ merge'.at = merge.at + 1
        /\ merge'.moved = Append(merge.moved, k)
    BY <1>1, <2>1
  <2>9. /\ Append(merge.moved, k) \in Seq(Key)
        /\ IsInjective(Append(merge.moved, k))
        /\ Range(Append(merge.moved, k)) = Range(merge.moved) \cup {k}
    BY <1>1, <2>3, AppendDistinct DEF IndInv, MergeInv
  <2>10. /\ map \in [Maps -> PartialMap] /\ keys \in [Maps -> Seq(Key)]
         /\ map'[src] = Drop(map[src], k) /\ keys'[src] = keys[src]
         /\ map'[dst] = Put(map[dst], k, map[src][k])
         /\ keys'[dst] = Append(keys[dst], k)
         /\ \A m \in Maps : m # src /\ m # dst =>
              map'[m] = map[m] /\ keys'[m] = keys[m]
    BY <1>1, <2>1, <2>2 DEF IndInv, TypeOK, PartialMap
  <2>11. TypeOK'
    <3>1. map' \in [Maps -> PartialMap] /\ keys' \in [Maps -> Seq(Key)]
      BY <1>1, <2>1, <2>6, <2>7, <2>10 DEF Agree
    <3>2. merge' \in [dst : Maps, src : Maps, at : Nat, moved : Seq(Key)]
      <4>1. merge.at + 1 \in Nat
        BY <1>1
      <4>2. merge' = [dst |-> merge.dst, src |-> merge.src, at |-> merge.at + 1,
                      moved |-> Append(merge.moved, k)]
        BY <1>1, <2>1
      <4> HIDE DEF k
      <4> QED  BY <1>1, <2>9, <4>1, <4>2
    <3> QED  BY <1>1, <3>1, <3>2 DEF IndInv, TypeOK, PartialMap
  <2>12. Consistent'
    <3>1. \A m \in Maps : m = src => Pending(m)' = Pending(src) \cup {k}
      BY <2>2, <2>8, <2>9 DEF Pending
    <3>2. \A m \in Maps : m # src => Pending(m)' = {}
      BY <2>8 DEF Pending
    <3>3. /\ IsInjective(keys'[src])
          /\ Range(keys'[src]) = DOMAIN map'[src] \cup (Pending(src) \cup {k})
          /\ DOMAIN map'[src] \cap (Pending(src) \cup {k}) = {}
      BY <1>1, <2>4, <2>7, <2>10 DEF IndInv, Consistent
    <3>4. IsInjective(keys'[dst]) /\ Range(keys'[dst]) = DOMAIN map'[dst]
      BY <2>6, <2>10 DEF Agree
    <3>5. \A m \in Maps : m = src \/ m = dst
      BY <1>1, <2>2 DEF Maps
    <3> SUFFICES ASSUME NEW m \in Maps
                 PROVE  (/\ IsInjective(keys[m])
                         /\ Range(keys[m]) = DOMAIN map[m] \cup Pending(m)
                         /\ DOMAIN map[m] \cap Pending(m) = {})'
      BY DEF Consistent
    <3>6. CASE m = src
      <4>1. Pending(m)' = Pending(src) \cup {k}
        BY <3>1, <3>6
      <4> QED  BY <3>3, <3>6, <4>1
    <3>7. CASE m = dst
      <4>1. Pending(m)' = {}
        BY <2>2, <3>2, <3>7
      <4> QED  BY <3>4, <3>7, <4>1
    <3> QED  BY <3>5, <3>6, <3>7
  <2>13. MergeInv'
    <3>1. \A i \in DOMAIN keys'[src] :
            i >= merge.at + 1 => keys'[src][i] \notin Range(merge.moved) \cup {k}
      <4> SUFFICES ASSUME NEW i \in DOMAIN keys[src], i >= merge.at + 1
                   PROVE  keys[src][i] \notin Range(merge.moved) \cup {k}
        BY <2>10
      <4>1. i >= merge.at /\ i # merge.at
        BY <1>1
      <4> QED  BY <1>1, <4>1 DEF IndInv, MergeInv, Consistent, IsInjective
    <3> QED  BY <1>1, <1>2, <2>2, <2>8, <2>9, <3>1 DEF MergeInv
  <2> QED  BY <1>3, <2>11, <2>12, <2>13 DEF IndInv
<1> QED  BY <1>4, <1>5

(* Erasing a moved key shortens keys_ of the source to what map_ still     *)
(* binds and the moved keys that are left.                                 *)
LEMMA MergeTrimPreserves ==
  ASSUME IndInv, MergeTrim
  PROVE  IndInv'
<1> DEFINE src == merge.src
           h == Head(merge.moved)
           t == Tail(merge.moved)
           i == FirstIndex(keys[src], h)
<1>1. /\ src \in Maps /\ keys[src] \in Seq(Key) /\ IsInjective(keys[src])
      /\ merge \in [dst : Maps, src : Maps, at : Nat, moved : Seq(Key)]
      /\ merge.moved \in Seq(Key) /\ merge.moved # <<>>
      /\ IsInjective(merge.moved)
      /\ Pending(src) = Range(merge.moved)
      /\ merge.at > Len(keys[src])
      /\ UNCHANGED <<map, node, loop, ret>>
  BY DEF MergeTrim, IndInv, TypeOK, MergeInv, Consistent, Pending
<1>2. /\ h \in Range(merge.moved) /\ t \in Seq(Key) /\ IsInjective(t)
      /\ Range(t) = Range(merge.moved) \ {h}
  BY <1>1, TailDistinct
<1>3. h \in Range(keys[src]) /\ h \notin DOMAIN map[src]
  BY <1>1, <1>2 DEF IndInv, Consistent
<1>4. i \in DOMAIN keys[src] /\ keys[src][i] = h
  BY <1>1, <1>3, FirstIndexFinds
<1>5. /\ RemoveAt(keys[src], i) \in Seq(Key)
      /\ Len(RemoveAt(keys[src], i)) = Len(keys[src]) - 1
      /\ IsInjective(RemoveAt(keys[src], i))
      /\ Range(RemoveAt(keys[src], i)) = Range(keys[src]) \ {h}
  BY <1>1, <1>4, RemoveAtDistinct
<1>6. /\ keys' = [keys EXCEPT ![src] = RemoveAt(keys[src], i)]
      /\ merge' = [merge EXCEPT !.moved = t]
  BY DEF MergeTrim
<1> HIDE DEF h, t, i
<1>7. /\ merge'.src = src /\ merge'.dst = merge.dst /\ merge'.at = merge.at
      /\ merge'.moved = t
      /\ merge' \in [dst : Maps, src : Maps, at : Nat, moved : Seq(Key)]
  BY <1>1, <1>2, <1>6
<1>8. /\ keys' \in [Maps -> Seq(Key)]
      /\ keys'[src] = RemoveAt(keys[src], i)
      /\ \A m \in Maps : m # src => keys'[m] = keys[m]
  BY <1>1, <1>5, <1>6 DEF IndInv, TypeOK
<1>9. TypeOK'
  BY <1>1, <1>7, <1>8 DEF IndInv, TypeOK
<1>10. Consistent'
  <2> SUFFICES ASSUME NEW m \in Maps
               PROVE  (/\ IsInjective(keys[m])
                       /\ Range(keys[m]) = DOMAIN map[m] \cup Pending(m)
                       /\ DOMAIN map[m] \cap Pending(m) = {})'
    BY DEF Consistent
  <2>1. Pending(m)' = IF m = src THEN Range(t) ELSE {}
    BY <1>7 DEF Pending
  <2>2. map'[m] = map[m]
    BY <1>1
  <2>3. CASE m = src
    <3>1. Range(keys[src]) = DOMAIN map[src] \cup Range(merge.moved)
          /\ DOMAIN map[src] \cap Range(merge.moved) = {}
      BY <1>1 DEF IndInv, Consistent
    <3>2. /\ IsInjective(keys'[m]) /\ Range(keys'[m]) = Range(keys[src]) \ {h}
      BY <1>5, <1>8, <2>3
    <3>3. Pending(m)' = Range(merge.moved) \ {h}
      BY <1>2, <2>1, <2>3
    <3> QED  BY <1>3, <2>2, <2>3, <3>1, <3>2, <3>3
  <2>4. CASE m # src
    <3>1. Pending(m) = {} /\ Pending(m)' = {} /\ keys'[m] = keys[m]
      BY <1>8, <2>1, <2>4 DEF Pending
    <3> QED  BY <2>2, <3>1 DEF IndInv, Consistent
  <2> QED  BY <2>3, <2>4
<1>11. MergeInv'
  <2>1. ~loop.live
    BY <1>1, EmptySeqFacts DEF IndInv, MergeInv, NoMerge
  <2>2. merge.src # merge.dst
    BY <1>1 DEF IndInv, MergeInv
  <2>3. \A x \in DOMAIN keys'[src] : ~(x >= merge.at)
    BY <1>1, <1>5, <1>8
  <2> QED  BY <1>1, <1>2, <1>7, <2>1, <2>2, <2>3 DEF MergeInv
<1>12. LoopInv'
  <2>1. ~loop.live
    BY <1>1 DEF IndInv, MergeInv, NoMerge
  <2> QED  BY <1>1, <2>1 DEF LoopInv
<1> QED  BY <1>9, <1>10, <1>11, <1>12 DEF IndInv

(* merge returns when nothing is pending: both maps agree again.           *)
LEMMA MergeEndPreserves ==
  ASSUME IndInv, MergeEnd
  PROVE  IndInv'
<1>1. /\ UNCHANGED <<map, keys, node, loop>> /\ merge' = NoMerge
      /\ ret' = [key |-> NoKey, ok |-> TRUE]
      /\ merge # NoMerge /\ merge.moved = <<>>
  BY DEF MergeEnd
<1>2. NoMerge.moved = <<>> /\ \A m \in Maps : Pending(m) = {} /\ Pending(m)' = {}
  BY <1>1, EmptySeqFacts DEF Pending, NoMerge
<1>3. TypeOK'
  <2>1. NoMerge \in [dst : Maps, src : Maps, at : Nat, moved : Seq(Key)]
    BY DEF NoMerge, Maps
  <2>2. [key |-> NoKey, ok |-> TRUE] \in [key : Key \cup {NoKey}, ok : BOOLEAN]
    OBVIOUS
  <2> QED  BY <1>1, <2>1, <2>2 DEF IndInv, TypeOK
<1>4. Consistent'
  BY <1>1, <1>2 DEF IndInv, Consistent
<1>5. MergeInv'
  BY <1>1, <1>2, EmptySeqFacts DEF MergeInv
<1>6. LoopInv'
  BY <1>1 DEF IndInv, LoopInv, MergeInv
<1> QED  BY <1>3, <1>4, <1>5, <1>6 DEF IndInv

-----------------------------------------------------------------------------
(* The steps of an iterator loop. *)

(* The elements of s behind its first i.                                   *)
LEMMA SuffixOf ==
  ASSUME NEW S, NEW s \in Seq(S), NEW i \in 0 .. Len(s)
  PROVE  /\ SubSeq(s, i + 1, Len(s)) \in Seq(S)
         /\ Len(SubSeq(s, i + 1, Len(s))) = Len(s) - i
         /\ \A x \in 1 .. Len(SubSeq(s, i + 1, Len(s))) :
              SubSeq(s, i + 1, Len(s))[x] = s[i + x]
<1>1. /\ i + 1 \in Int /\ Len(s) \in Int
      /\ \A x \in i + 1 .. Len(s) : s[x] \in S
  BY ElementOfSeq
<1> DEFINE p == SubSeq(s, i + 1, Len(s))
<1>2. /\ p \in Seq(S)
      /\ Len(p) = IF i + 1 <= Len(s) THEN Len(s) - (i + 1) + 1 ELSE 0
      /\ \A x \in 1 .. Len(s) - (i + 1) + 1 : p[x] = s[(i + 1) + x - 1]
  BY <1>1, SubSeqProperties
<1> HIDE DEF p
<1>3. Len(p) = Len(s) - i
  BY <1>2
<1>4. \A x \in 1 .. Len(p) : p[x] = s[i + x]
  BY <1>2, <1>3
<1> QED  BY <1>2, <1>3, <1>4 DEF p

(* What has been seen and what is ahead, one element later.                *)
LEMMA SeenAndAhead ==
  ASSUME NEW S, NEW s \in Seq(S), NEW seen \in Seq(S), NEW i \in 0 .. (Len(s) - 1)
  PROVE  seen \o SubSeq(s, i + 1, Len(s))
           = Append(seen, s[i + 1]) \o SubSeq(s, i + 2, Len(s))
<1> DEFINE p == SubSeq(s, i + 1, Len(s))
           q == SubSeq(s, i + 2, Len(s))
           t == Append(seen, s[i + 1])
<1>1. p \in Seq(S) /\ Len(p) = Len(s) - i /\ \A x \in 1 .. Len(p) : p[x] = s[i + x]
  <2>1. i \in 0 .. Len(s)
    OBVIOUS
  <2> QED  BY <2>1, SuffixOf
<1>2. q \in Seq(S) /\ Len(q) = Len(s) - (i + 1)
      /\ \A x \in 1 .. Len(q) : q[x] = s[i + 1 + x]
  <2>1. i + 1 \in 0 .. Len(s) /\ (i + 1) + 1 = i + 2
    OBVIOUS
  <2> QED  BY <2>1, SuffixOf
<1> HIDE DEF p, q
<1>3. /\ t \in Seq(S) /\ Len(t) = Len(seen) + 1
      /\ \A x \in 1 .. Len(seen) : t[x] = seen[x]
      /\ t[Len(seen) + 1] = s[i + 1]
  <2>1. s[i + 1] \in S
    BY ElementOfSeq
  <2> QED  BY <2>1, AppendProperties
<1> HIDE DEF t
<1>4. /\ seen \o p \in Seq(S) /\ Len(seen \o p) = Len(seen) + Len(p)
      /\ \A x \in 1 .. Len(seen) + Len(p) :
           (seen \o p)[x] = IF x <= Len(seen) THEN seen[x] ELSE p[x - Len(seen)]
  BY <1>1, ConcatProperties
<1>5. /\ t \o q \in Seq(S) /\ Len(t \o q) = Len(t) + Len(q)
      /\ \A x \in 1 .. Len(t) + Len(q) :
           (t \o q)[x] = IF x <= Len(t) THEN t[x] ELSE q[x - Len(t)]
  BY <1>2, <1>3, ConcatProperties
<1>6. Len(seen) \in Nat /\ Len(s) \in Nat /\ i \in Nat
  OBVIOUS
<1>7. Len(seen \o p) = Len(t \o q)
  BY <1>1, <1>2, <1>3, <1>4, <1>5, <1>6
<1>8. \A x \in 1 .. Len(seen \o p) : (seen \o p)[x] = (t \o q)[x]
  <2> TAKE x \in 1 .. Len(seen \o p)
  <2>1. x \in 1 .. Len(seen) + Len(p) /\ x \in 1 .. Len(t) + Len(q)
    BY <1>4, <1>5, <1>7
  <2>2. CASE x <= Len(seen)
    <3>1. x \in 1 .. Len(seen) /\ x <= Len(t)
      BY <1>3, <1>6, <2>1, <2>2
    <3> QED  BY <1>3, <1>4, <1>5, <2>1, <2>2, <3>1
  <2>3. CASE x = Len(seen) + 1
    <3>1. x - Len(seen) = 1 /\ ~(x <= Len(seen)) /\ x <= Len(t) /\ 1 \in 1 .. Len(p)
      BY <1>1, <1>3, <1>6, <2>3
    <3> QED  BY <1>1, <1>3, <1>4, <1>5, <2>1, <2>3, <3>1
  <2>4. CASE x > Len(seen) + 1
    <3>1. /\ ~(x <= Len(seen)) /\ ~(x <= Len(t))
          /\ x - Len(seen) \in 1 .. Len(p) /\ x - Len(t) \in 1 .. Len(q)
          /\ i + (x - Len(seen)) = i + 1 + (x - Len(t))
      BY <1>1, <1>2, <1>3, <1>6, <2>1, <2>4
    <3>2. (seen \o p)[x] = p[x - Len(seen)] /\ (t \o q)[x] = q[x - Len(t)]
      BY <1>4, <1>5, <2>1, <3>1
    <3>3. p[x - Len(seen)] = s[i + (x - Len(seen))]
      BY <1>1, <3>1
    <3>4. q[x - Len(t)] = s[i + 1 + (x - Len(t))]
      BY <1>2, <3>1
    <3> QED  BY <3>1, <3>2, <3>3, <3>4
  <2> QED  BY <1>6, <2>1, <2>2, <2>3, <2>4
<1>9. seen \o p = t \o q
  BY <1>4, <1>5, <1>7, <1>8, SeqEqual
<1> QED  BY <1>9 DEF p, q, t

(* What is ahead of an erased element slides into its place.               *)
LEMMA AheadOfErased ==
  ASSUME NEW S, NEW s \in Seq(S), NEW i \in 0 .. (Len(s) - 1)
  PROVE  SubSeq(RemoveAt(s, i + 1), i + 1, Len(RemoveAt(s, i + 1)))
           = SubSeq(s, i + 2, Len(s))
<1> DEFINE r == RemoveAt(s, i + 1)
           p == SubSeq(r, i + 1, Len(r))
           q == SubSeq(s, i + 2, Len(s))
<1>1. /\ i + 1 \in 1 .. (Len(s) + 1) /\ i + 2 \in (i + 1) .. (Len(s) + 1)
      /\ (i + 1) + 1 = i + 2 /\ i + 1 \in 0 .. Len(s) /\ i + 1 \in Int
  OBVIOUS
<1>2. r = Cut(s, i + 1, i + 2)
  <2>1. RemoveAt(s, i + 1) = Cut(s, i + 1, (i + 1) + 1)
    BY <1>1, RemoveAtIsCut
  <2> QED  BY <1>1, <2>1
<1> HIDE DEF r
<1>3. /\ r \in Seq(S) /\ Len(r) = Len(s) - ((i + 2) - (i + 1))
      /\ \A x \in i + 1 .. (Len(s) - ((i + 2) - (i + 1))) :
           r[x] = s[x + ((i + 2) - (i + 1))]
  BY <1>1, <1>2, CutElements
<1>4. Len(r) = Len(s) - 1 /\ \A x \in i + 1 .. Len(r) : r[x] = s[x + 1]
  <2>1. (i + 2) - (i + 1) = 1
    OBVIOUS
  <2> QED  BY <1>3, <2>1
<1>5. p \in Seq(S) /\ Len(p) = Len(r) - i /\ \A x \in 1 .. Len(p) : p[x] = r[i + x]
  <2>1. i \in 0 .. Len(r)
    BY <1>4
  <2> QED  BY <1>3, <2>1, SuffixOf
<1>6. q \in Seq(S) /\ Len(q) = Len(s) - (i + 1)
      /\ \A x \in 1 .. Len(q) : q[x] = s[i + 1 + x]
  BY <1>1, SuffixOf
<1> HIDE DEF p, q
<1>7. Len(p) = Len(q)
  BY <1>4, <1>5, <1>6
<1>8. \A x \in 1 .. Len(p) : p[x] = q[x]
  <2> TAKE x \in 1 .. Len(p)
  <2>1. i + x \in i + 1 .. Len(r) /\ (i + x) + 1 = i + 1 + x
    BY <1>4, <1>5
  <2> QED  BY <1>4, <1>5, <1>6, <1>7, <2>1
<1>9. p = q
  BY <1>5, <1>6, <1>7, <1>8, SeqEqual
<1> QED  BY <1>9 DEF p, q, r

(* At begin() everything is ahead and nothing seen.                        *)
LEMMA WholeSubSeq ==
  ASSUME NEW S, NEW s \in Seq(S)
  PROVE  <<>> \o SubSeq(s, 1, Len(s)) = s
OBVIOUS

(* The element under the iterator of a running loop.                       *)
LEMMA LoopElement ==
  ASSUME IndInv, loop.live, loop.index # Len(keys["a"])
  PROVE  /\ loop.index \in 0 .. (Len(keys["a"]) - 1)
         /\ keys["a"] \in Seq(Key)
         /\ loop.key = keys["a"][loop.index + 1]
         /\ loop.key \in Key
         /\ merge = NoMerge
         /\ loop \in [index : Nat, key : Key \cup {NoKey}, seen : Seq(Key),
                      start : Seq(Key), live : BOOLEAN]
<1>1. keys["a"] \in Seq(Key) /\ loop.index \in Nat /\ loop.index <= Len(keys["a"])
  BY DEF IndInv, TypeOK, LoopInv, Maps
<1>2. loop.index < Len(keys["a"])
  BY <1>1
<1>3. loop.key = keys["a"][loop.index + 1]
  BY <1>2 DEF IndInv, LoopInv, KeyAt
<1>4. merge = NoMerge
  BY DEF IndInv, MergeInv
<1> QED  BY <1>1, <1>2, <1>3, <1>4 DEF IndInv, TypeOK

(* A step of the loop that leaves merge alone and both maps in agreement   *)
(* preserves all of the invariant but LoopInv.                             *)
LEMMA LoopStepPreserves ==
  ASSUME IndInv, merge = NoMerge, UNCHANGED <<node, merge>>,
         map' \in [Maps -> PartialMap], keys' \in [Maps -> Seq(Key)],
         \A m \in Maps : Agree(map'[m], keys'[m]),
         loop' \in [index : Nat, key : Key \cup {NoKey}, seen : Seq(Key),
                    start : Seq(Key), live : BOOLEAN],
         ret' \in [key : Key \cup {NoKey}, ok : BOOLEAN],
         LoopInv'
  PROVE  IndInv'
<1>1. TypeOK'
  BY DEF IndInv, TypeOK, PartialMap
<1>2. \A m \in Maps : Pending(m)' = {}
  BY EmptySeqFacts DEF Pending, NoMerge
<1>3. Consistent'
  BY <1>2 DEF Consistent, Agree
<1>4. MergeInv'
  BY EmptySeqFacts DEF MergeInv, NoMerge
<1> QED  BY <1>1, <1>3, <1>4 DEF IndInv

(* begin() preserves the invariant.                                        *)
LEMMA LoopBeginPreserves ==
  ASSUME IndInv, LoopBegin
  PROVE  IndInv'
<1>1. merge = NoMerge /\ UNCHANGED <<map, keys, node, merge, ret>>
  BY DEF LoopBegin, Idle
<1>2. \A m \in Maps : Agree(map[m], keys[m])
  BY <1>1, AgreeBetweenCalls
<1>3. keys["a"] \in Seq(Key)
  BY DEF IndInv, TypeOK, Maps
<1>4. KeyAt(keys["a"], 0) \in Key \cup {NoKey}
  BY <1>3, KeyAtType
<1>5. /\ loop'.index = 0 /\ loop'.key = KeyAt(keys["a"], 0)
      /\ loop'.seen = <<>> /\ loop'.start = keys["a"]
      /\ loop' \in [index : Nat, key : Key \cup {NoKey}, seen : Seq(Key),
                    start : Seq(Key), live : BOOLEAN]
  BY <1>3, <1>4 DEF LoopBegin
<1>6. LoopInv'
  <2>1. 0 + 1 = 1 /\ 0 <= Len(keys["a"])
    BY <1>3
  <2> QED  BY <1>1, <1>3, <1>5, <2>1, WholeSubSeq DEF LoopInv, LoopExact
<1> QED
  BY <1>1, <1>2, <1>5, <1>6, LoopStepPreserves DEF IndInv, TypeOK, PartialMap

(* ++it preserves the invariant.                                           *)
LEMMA LoopAdvancePreserves ==
  ASSUME IndInv, LoopAdvance
  PROVE  IndInv'
<1> DEFINE s == keys["a"]
           i == loop.index
<1>1. loop.live /\ i # Len(s) /\ UNCHANGED <<map, keys, node, merge, ret>>
  BY DEF LoopAdvance
<1>2. /\ i \in 0 .. (Len(s) - 1) /\ s \in Seq(Key)
      /\ loop.key = s[i + 1] /\ loop.key \in Key /\ merge = NoMerge
      /\ loop \in [index : Nat, key : Key \cup {NoKey}, seen : Seq(Key),
                   start : Seq(Key), live : BOOLEAN]
  BY <1>1, LoopElement
<1>3. \A m \in Maps : Agree(map[m], keys[m])
  BY <1>2, AgreeBetweenCalls
<1>4. i + 1 \in Nat /\ KeyAt(s, i + 1) \in Key \cup {NoKey}
  BY <1>2, KeyAtType
<1>5. loop' = [loop EXCEPT !.index = i + 1, !.key = KeyAt(s, i + 1),
                           !.seen = Append(@, loop.key)]
  BY DEF LoopAdvance, At, Iterator
<1>6. /\ loop'.index = i + 1 /\ loop'.key = KeyAt(s, i + 1)
      /\ loop'.seen = Append(loop.seen, s[i + 1]) /\ loop'.start = loop.start
      /\ loop' \in [index : Nat, key : Key \cup {NoKey}, seen : Seq(Key),
                    start : Seq(Key), live : BOOLEAN]
  <2>1. loop' = [index |-> i + 1, key |-> KeyAt(s, i + 1),
                 seen |-> Append(loop.seen, loop.key), start |-> loop.start,
                 live |-> loop.live]
    BY <1>2, <1>5
  <2> QED  BY <1>2, <1>4, <2>1
<1>7. LoopInv'
  <2>1. (i + 1) + 1 = i + 2 /\ i + 1 <= Len(s)
    BY <1>2
  <2>2. loop.seen \o SubSeq(s, i + 1, Len(s)) = loop.start
    BY <1>1 DEF IndInv, LoopInv, LoopExact
  <2>3. Append(loop.seen, s[i + 1]) \o SubSeq(s, i + 2, Len(s)) = loop.start
    BY <1>2, <2>2, SeenAndAhead
  <2> QED  BY <1>1, <1>6, <2>1, <2>3 DEF LoopInv, LoopExact
<1> QED
  BY <1>1, <1>2, <1>3, <1>6, <1>7, LoopStepPreserves DEF IndInv, TypeOK, PartialMap

(* it = erase(it) preserves the invariant.                                 *)
LEMMA LoopErasePreserves ==
  ASSUME IndInv, LoopErase
  PROVE  IndInv'
<1> DEFINE s == keys["a"]
           i == loop.index
           r == RemoveAt(s, i + 1)
<1>1. /\ loop.live /\ i # Len(s) /\ UNCHANGED <<node, merge>>
      /\ map' = [map EXCEPT !["a"] = Drop(map["a"], loop.key)]
      /\ keys' = [keys EXCEPT !["a"] = r]
  BY DEF LoopErase
<1>2. /\ i \in 0 .. (Len(s) - 1) /\ s \in Seq(Key)
      /\ loop.key = s[i + 1] /\ loop.key \in Key /\ merge = NoMerge
      /\ loop \in [index : Nat, key : Key \cup {NoKey}, seen : Seq(Key),
                   start : Seq(Key), live : BOOLEAN]
  BY <1>1, LoopElement
<1>3. \A m \in Maps : Agree(map[m], keys[m])
  BY <1>2, AgreeBetweenCalls
<1>4. i + 1 \in DOMAIN s /\ "a" \in Maps
  BY <1>2 DEF Maps
<1>5. /\ Agree(Drop(map["a"], loop.key), r)
      /\ r \in Seq(Key) /\ Len(r) = Len(s) - 1
  <2>1. Agree(map["a"], s) /\ i + 1 \in DOMAIN s
    BY <1>3, <1>4
  <2>2. Agree(Drop(map["a"], s[i + 1]), RemoveAt(s, i + 1))
    BY <2>1, ErasePosAgrees
  <2>3. IsInjective(s)
    BY <2>1 DEF Agree
  <2>4. r \in Seq(Key) /\ Len(r) = Len(s) - 1
    BY <1>2, <2>1, <2>3, RemoveAtDistinct
  <2> QED  BY <1>2, <2>2, <2>4
<1>6. SubSeq(r, i + 1, Len(r)) = SubSeq(s, i + 2, Len(s))
  BY <1>2, AheadOfErased
<1> HIDE DEF r
<1>7. /\ map' \in [Maps -> PartialMap] /\ keys' \in [Maps -> Seq(Key)]
      /\ keys'["a"] = r
      /\ \A m \in Maps : Agree(map'[m], keys'[m])
  BY <1>1, <1>3, <1>4, <1>5 DEF IndInv, TypeOK, PartialMap, Agree
<1>8. KeyAt(r, i) \in Key \cup {NoKey} /\ i \in Nat
  BY <1>2, <1>5, KeyAtType
<1>9. loop' = [loop EXCEPT !.index = i, !.key = KeyAt(r, i),
                           !.seen = Append(@, loop.key)]
  BY <1>7 DEF LoopErase, At, Iterator
<1>10. /\ loop'.index = i /\ loop'.key = KeyAt(r, i)
       /\ loop'.seen = Append(loop.seen, s[i + 1]) /\ loop'.start = loop.start
       /\ loop' \in [index : Nat, key : Key \cup {NoKey}, seen : Seq(Key),
                     start : Seq(Key), live : BOOLEAN]
  <2>1. loop' = [index |-> i, key |-> KeyAt(r, i),
                 seen |-> Append(loop.seen, loop.key), start |-> loop.start,
                 live |-> loop.live]
    BY <1>2, <1>9
  <2> QED  BY <1>2, <1>8, <2>1
<1>11. ret' \in [key : Key \cup {NoKey}, ok : BOOLEAN]
  <2>1. ret' = [key |-> loop'.key, ok |-> TRUE]
    BY DEF LoopErase
  <2> QED  BY <1>8, <1>10, <2>1
<1>12. LoopInv'
  <2>1. loop.seen \o SubSeq(s, i + 1, Len(s)) = loop.start
    BY <1>1 DEF IndInv, LoopInv, LoopExact
  <2>2. Append(loop.seen, s[i + 1]) \o SubSeq(s, i + 2, Len(s)) = loop.start
    BY <1>2, <2>1, SeenAndAhead
  <2>3. i <= Len(r)
    BY <1>2, <1>5
  <2> QED  BY <1>6, <1>7, <1>10, <2>2, <2>3 DEF LoopInv, LoopExact
<1> QED
  BY <1>1, <1>2, <1>7, <1>10, <1>11, <1>12, LoopStepPreserves

(* The end of the loop preserves the invariant.                            *)
LEMMA LoopEndPreserves ==
  ASSUME IndInv, LoopEnd
  PROVE  IndInv'
<1>1. /\ UNCHANGED <<map, keys, node, merge, ret>> /\ loop' = NoLoop
      /\ merge = NoMerge
  BY DEF LoopEnd, IndInv, MergeInv
<1>2. \A m \in Maps : Agree(map[m], keys[m])
  BY <1>1, AgreeBetweenCalls
<1>3. /\ NoLoop \in [index : Nat, key : Key \cup {NoKey}, seen : Seq(Key),
                     start : Seq(Key), live : BOOLEAN]
      /\ ~NoLoop.live
  <2>1. <<>> \in Seq(Key)
    OBVIOUS
  <2> QED  BY <2>1 DEF NoLoop
<1>4. LoopInv'
  BY <1>1, <1>3 DEF LoopInv
<1> QED
  BY <1>1, <1>2, <1>3, <1>4, LoopStepPreserves DEF IndInv, TypeOK, PartialMap

-----------------------------------------------------------------------------
(* The theorems. *)

(* Two new maps satisfy the invariant.                                     *)
LEMMA InitInvariant == Init => IndInv
<1> SUFFICES ASSUME Init  PROVE IndInv
  OBVIOUS
<1>1. \A m \in Maps : map[m] = EmptyMap /\ keys[m] = <<>> /\ Pending(m) = {}
  BY EmptySeqFacts DEF Init, Pending, NoMerge
<1>2. TypeOK
  <2>1. map \in [Maps -> PartialMap]
    BY EmptyMapType DEF Init
  <2>2. keys \in [Maps -> Seq(Key)]
    BY DEF Init
  <2>3. <<>> \in Seq(Key)
    OBVIOUS
  <2>4. merge \in [dst : Maps, src : Maps, at : Nat, moved : Seq(Key)]
    BY <2>3 DEF Init, NoMerge, Maps
  <2>5. loop \in [index : Nat, key : Key \cup {NoKey}, seen : Seq(Key),
                  start : Seq(Key), live : BOOLEAN]
    BY <2>3 DEF Init, NoLoop
  <2>6. ret \in [key : Key \cup {NoKey}, ok : BOOLEAN]
    BY DEF Init
  <2> QED  BY <2>1, <2>2, <2>4, <2>5, <2>6 DEF Init, TypeOK, PartialMap
<1>3. Consistent
  BY <1>1, EmptySeqFacts, EmptyMapType DEF Consistent
<1>4. MergeInv
  BY <1>1, EmptySeqFacts DEF Init, MergeInv, NoMerge
<1>5. LoopInv
  BY DEF Init, LoopInv, NoLoop
<1> QED  BY <1>2, <1>3, <1>4, <1>5 DEF IndInv

(* Every call, and every step of merge and of a loop, preserves the        *)
(* invariant.                                                              *)
LEMMA NextInvariant == IndInv /\ [Next]_vars => IndInv'
<1> SUFFICES ASSUME IndInv, [Next]_vars  PROVE IndInv'
  OBVIOUS
<1>1. ASSUME NEW m \in Maps, Modify(m)  PROVE IndInv'
  BY <1>1, ModifyPreserves
<1>2. CASE Swap
  BY <1>2, WholeMapCalls
<1>3. ASSUME NEW dst \in Maps, NEW src \in Maps,
             CopyAssign(dst, src) \/ MergeBegin(dst, src)
      PROVE  IndInv'
  BY <1>3, WholeMapCalls, MergeBeginPreserves
<1>4. CASE MergeStep
  BY <1>4, MergeMovePreserves, MergeTrimPreserves, MergeEndPreserves DEF MergeStep
<1>5. CASE LoopStep
  BY <1>5, LoopBeginPreserves, LoopAdvancePreserves, LoopErasePreserves,
     LoopEndPreserves DEF LoopStep
<1>6. CASE UNCHANGED vars
  BY <1>6 DEF vars, IndInv, TypeOK, Consistent, MergeInv, LoopInv, LoopExact,
     Pending
<1> QED  BY <1>1, <1>2, <1>3, <1>4, <1>5, <1>6 DEF Next

(* The inductive invariant holds throughout every sequence of calls on two *)
(* ordered_maps, for any keys and values (ordered_map.h).                  *)
THEOREM Invariant == Spec => []IndInv
BY InitInvariant, NextInvariant, PTL DEF Spec

(* Every variable keeps its type through every call.                       *)
THEOREM TypeCorrect == Spec => []TypeOK
<1>1. IndInv => TypeOK
  BY DEF IndInv
<1> QED  BY <1>1, Invariant, PTL

(* map_ and keys_ list the same keys, each once, after every call and at   *)
(* every step of a merge (up to the keys the merge has yet to erase).      *)
THEOREM MapAndKeysAgree == Spec => []Consistent
<1>1. IndInv => Consistent
  BY DEF IndInv
<1> QED  BY <1>1, Invariant, PTL

(* A loop that erases through its iterator still meets every key once, in  *)
(* insertion order.                                                        *)
THEOREM LoopVisitsAll == Spec => []LoopExact
<1>1. IndInv => LoopExact
  BY DEF IndInv, LoopInv, LoopExact
<1> QED  BY <1>1, Invariant, PTL

(* The key an iterator caches is bound when it is dereferenced.            *)
THEOREM CachedKeyFresh == Spec => []IteratorFresh
<1>1. IndInv => IteratorFresh
  <2> SUFFICES ASSUME IndInv, loop.live
               PROVE  /\ loop.key = KeyAt(keys["a"], loop.index)
                      /\ loop.key # NoKey => loop.key \in DOMAIN map["a"]
    BY DEF IteratorFresh
  <2>1. loop.key = KeyAt(keys["a"], loop.index)
    BY DEF IndInv, LoopInv
  <2>2. CASE loop.index = Len(keys["a"])
    <3>1. loop.key = NoKey
      BY <2>1, <2>2 DEF KeyAt, IndInv, TypeOK
    <3> QED  BY <2>1, <3>1
  <2>3. CASE loop.index # Len(keys["a"])
    <3>1. /\ loop.index \in 0 .. (Len(keys["a"]) - 1) /\ merge = NoMerge
          /\ keys["a"] \in Seq(Key) /\ loop.key = keys["a"][loop.index + 1]
      BY <2>3, LoopElement
    <3>2. Range(keys["a"]) = DOMAIN map["a"]
      BY <3>1, AgreeBetweenCalls DEF Agree, Maps
    <3> QED  BY <2>1, <3>1, <3>2 DEF Range
  <2> QED  BY <2>2, <2>3
<1> QED  BY <1>1, Invariant, PTL

(* Between calls the observers that read keys_ agree with those that read  *)
(* map_, and find/upper_bound dereference to bound keys only.              *)
THEOREM ObserversConsistent == Spec => []ObserversAgree
<1>1. IndInv => ObserversAgree
  <2> SUFFICES ASSUME IndInv, merge = NoMerge, NEW m \in Maps
               PROVE  /\ Empty(m) <=> Size(m) = 0
                      /\ \A k \in Key :
                           /\ Find(m, k) = (IF Contains_(m, k) THEN k ELSE NoKey)
                           /\ UpperBound(m, k) \in DOMAIN map[m] \cup {NoKey}
                           /\ UpperBound(m, k) # k
    BY DEF ObserversAgree
  <2>1. /\ keys[m] \in Seq(Key) /\ IsInjective(keys[m])
        /\ Range(keys[m]) = DOMAIN map[m]
    BY AgreeBetweenCalls DEF Agree
  <2>2. Empty(m) <=> Size(m) = 0
    <3>1. CASE keys[m] = <<>>
      BY <2>1, <3>1, EmptySeqFacts DEF Empty, Size
    <3>2. CASE keys[m] # <<>>
      <4>1. Len(keys[m]) # 0 /\ 1 \in DOMAIN keys[m]
        BY <2>1, <3>2
      <4>2. keys[m][1] \in DOMAIN map[m]
        BY <2>1, <4>1 DEF Range
      <4> QED  BY <4>1, <4>2 DEF Empty, Size
    <3> QED  BY <3>1, <3>2
  <2>3. ASSUME NEW k \in Key
        PROVE  /\ Find(m, k) = (IF Contains_(m, k) THEN k ELSE NoKey)
               /\ UpperBound(m, k) \in DOMAIN map[m] \cup {NoKey}
               /\ UpperBound(m, k) # k
    <3>1. CASE ~Contains_(m, k)
      BY <2>1, <2>3, <3>1, NoKeyAssumption DEF Find, UpperBound, GetIndex, KeyAt
    <3>2. CASE Contains_(m, k)
      <4> DEFINE x == FirstIndex(keys[m], k)
      <4>1. x \in DOMAIN keys[m] /\ keys[m][x] = k
        BY <2>1, <3>2, FirstIndexFinds DEF Contains_
      <4>2. GetIndex(m, k) = x - 1
        BY <3>2 DEF GetIndex
      <4> HIDE DEF x
      <4>3. Find(m, k) = k
        BY <2>1, <4>1, <4>2 DEF Find, KeyAt
      <4>4. UpperBound(m, k) = KeyAt(keys[m], x)
        <5>1. x - 1 + 1 = x
          BY <2>1, <4>1
        <5> QED  BY <3>2, <4>2, <5>1 DEF UpperBound
      <4>5. CASE x < Len(keys[m])
        <5>1. x + 1 \in DOMAIN keys[m] /\ x + 1 # x
          BY <2>1, <4>1, <4>5
        <5>2. UpperBound(m, k) = keys[m][x + 1]
          BY <4>4, <4>5 DEF KeyAt
        <5> QED  BY <2>1, <3>2, <4>1, <4>3, <5>1, <5>2 DEF IsInjective, Range
      <4>6. CASE ~(x < Len(keys[m]))
        BY <2>3, <3>2, <4>3, <4>4, <4>6, NoKeyAssumption DEF KeyAt
      <4> QED  BY <4>5, <4>6
    <3> QED  BY <3>1, <3>2
  <2> QED  BY <2>2, <2>3
<1> QED  BY <1>1, Invariant, PTL
=============================================================================
