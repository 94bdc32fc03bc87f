---------------------------- MODULE MergingProofs ----------------------------
(***************************************************************************)
(* Theorems about Merging, for any maps, keys and overrides.               *)
(***************************************************************************)
EXTENDS Merging, SequenceLemmas

-----------------------------------------------------------------------------
(* The entries of a map at a path: one for a key, and a struct-like stands *)
(* at the path it was parsed at and is of the type its pointer says.       *)
EntriesAt(h, data, path) ==
  /\ data \in Seq(ToSet(data))
  /\ \A i, j \in DOMAIN data : data[i].key = data[j].key => i = j
  /\ \A i \in DOMAIN data : isStructLike(data[i].val) =>
       LET c == data[i].val.cell
       IN  c \in DOMAIN h /\ c.path = Append(path, data[i].key) /\ h[c].type = data[i].val.type

LEMMA SourceIs ==
  ASSUME NEW s \in Sources, NEW c \in DOMAIN s.heap
  PROVE  /\ c.map \in 1 .. s.maps /\ c.path \in Seq(STRING) /\ c = Cell(c.map, c.path)
         /\ DOMAIN s.heap[c] = {"type", "data"}
         /\ EntriesAt(s.heap, s.heap[c].data, c.path)
         /\ \A i \in DOMAIN s.heap[c].data :
              /\ s.heap[c].data[i].key \in ToSet(KeyOrder)
              /\ isStructLike(s.heap[c].data[i].val) => s.heap[c].data[i].val.cell.map = c.map
<1>1. /\ c.map \in 1 .. s.maps /\ c.path \in Seq(STRING) /\ c = Cell(c.map, c.path)
      /\ DOMAIN s.heap[c] = {"type", "data"}
      /\ s.heap[c].data \in Seq(ToSet(s.heap[c].data))
      /\ \A i, j \in DOMAIN s.heap[c].data : s.heap[c].data[i].key = s.heap[c].data[j].key => i = j
  <2>1. \A d \in DOMAIN s.heap : d.map \in 1 .. s.maps /\ d.path \in Seq(STRING) /\ d = Cell(d.map, d.path)
    BY SourcesAssumption, Zenon
  <2>2. \A d \in DOMAIN s.heap : DOMAIN s.heap[d] = {"type", "data"}
    BY SourcesAssumption, SMTT(60)
  <2>3. \A d \in DOMAIN s.heap : s.heap[d].data \in Seq(ToSet(s.heap[d].data))
    BY SourcesAssumption, Zenon
  <2>4. \A d \in DOMAIN s.heap : \A i, j \in DOMAIN s.heap[d].data :
          s.heap[d].data[i].key = s.heap[d].data[j].key => i = j
    BY SourcesAssumption, ZenonT(40)
  <2> QED  BY <2>1, <2>2, <2>3, <2>4
<1>2. ASSUME NEW i \in DOMAIN s.heap[c].data
      PROVE  LET e == s.heap[c].data[i]
             IN  /\ e.key \in ToSet(KeyOrder)
                 /\ isStructLike(e.val) =>
                      /\ e.val.cell.map = c.map /\ e.val.cell.path = Append(c.path, e.key)
                      /\ e.val.cell \in DOMAIN s.heap /\ s.heap[e.val.cell].type = e.val.type
  <2> DEFINE e == s.heap[c].data[i]
  <2>0. \A d \in DOMAIN s.heap : \A j \in DOMAIN s.heap[d].data :
          LET x == s.heap[d].data[j]
          IN  /\ x.key \in ToSet(KeyOrder)
              /\ isStructLike(x.val) =>
                   /\ x.val.cell = Cell(d.map, Append(d.path, x.key))
                   /\ x.val.cell \in DOMAIN s.heap /\ s.heap[x.val.cell].type = x.val.type
    BY SourcesAssumption, Zenon
  <2>1. /\ e.key \in ToSet(KeyOrder)
        /\ isStructLike(e.val) =>
             /\ e.val.cell = Cell(c.map, Append(c.path, e.key))
             /\ e.val.cell \in DOMAIN s.heap /\ s.heap[e.val.cell].type = e.val.type
    BY <2>0, Zenon
  <2>2. Cell(c.map, Append(c.path, e.key)).map = c.map
        /\ Cell(c.map, Append(c.path, e.key)).path = Append(c.path, e.key)
    BY DEF Cell
  <2> HIDE DEF e
  <2>3. /\ e.key \in ToSet(KeyOrder)
        /\ isStructLike(e.val) =>
             /\ e.val.cell.map = c.map /\ e.val.cell.path = Append(c.path, e.key)
             /\ e.val.cell \in DOMAIN s.heap /\ s.heap[e.val.cell].type = e.val.type
    BY <2>1, <2>2
  <2> QED  BY <2>3 DEF e
<1> QED  BY <1>1, <1>2 DEF EntriesAt

LEMMA TopOfMap ==
  ASSUME NEW s \in Sources, NEW n \in 1 .. s.maps
  PROVE  Cell(n, <<>>) \in DOMAIN s.heap
BY SourcesAssumption, Zenon

-----------------------------------------------------------------------------
(* Two maps together. *)

InsertFold(g, one, two, D) ==
  g = [s \in SUBSET D |-> IF s = {} THEN one ELSE Insert(g[s \ {Max(s)}], two[Max(s)])]

LEMMA BothIsFold ==
  ASSUME NEW one, NEW two
  PROVE  Both(one, two) = (CHOOSE g : InsertFold(g, one, two, DOMAIN two))[DOMAIN two]
BY Zenon DEF Both, InsertFold, Insert, FoldLeft, MapThenFoldSet

LEMMA BothSteps ==
  ASSUME NEW S, NEW one \in Seq(S), NEW two \in Seq(S)
  PROVE  \E g : /\ g[1 .. 0] = one
                /\ \A k \in 1 .. Len(two) : g[1 .. k] = Insert(g[1 .. (k - 1)], two[k])
                /\ Both(one, two) = g[1 .. Len(two)]
<1> DEFINE n == Len(two)
           V == Seq(S)
           F == [i \in 1 .. n |-> [out \in V |-> Insert(out, two[i])]]
<1>1. n \in Nat /\ DOMAIN two = 1 .. n /\ one \in V
  OBVIOUS
<1>2. F \in [1 .. n -> [V -> V]]
  <2>1. ASSUME NEW i \in 1 .. n, NEW out \in V PROVE Insert(out, two[i]) \in V
    BY DEF Insert
  <2> QED  BY <2>1
<1>3. PICK g0 : Steps(g0, V, one, n, F)
  <2> HIDE DEF F, V, n
  <2> QED  BY <1>1, <1>2, StepsExist
<1>4. ASSUME NEW s \in SUBSET (1 .. n)
      PROVE  g0[s] = IF s = {} THEN one ELSE Insert(g0[s \ {Max(s)}], two[Max(s)])
  <2>1. CASE s = {}
    BY <1>3, <2>1 DEF Steps
  <2>2. CASE s # {}
    <3>1. Max(s) \in s
      BY <1>1, <2>2, MaxIn
    <3>2. s \ {Max(s)} \in SUBSET (1 .. n) /\ Max(s) \in 1 .. n
      BY <3>1
    <3>3. g0[s \ {Max(s)}] \in V
      BY <1>3, <3>2 DEF Steps
    <3> QED  BY <1>3, <2>2, <3>2, <3>3 DEF Steps
  <2> QED  BY <2>1, <2>2
<1> DEFINE g == CHOOSE f : InsertFold(f, one, two, 1 .. n)
<1>5. InsertFold(g0, one, two, 1 .. n)
  BY <1>3, <1>4 DEF Steps, InsertFold
<1>6. InsertFold(g, one, two, 1 .. n)
  BY <1>5
<1>7. Both(one, two) = g[1 .. n]
  BY <1>1, BothIsFold
<1> HIDE DEF g, n
<1>8. \A s \in SUBSET (1 .. n) : g[s] = IF s = {} THEN one ELSE Insert(g[s \ {Max(s)}], two[Max(s)])
  BY <1>6 DEF InsertFold
<1>9. g[1 .. 0] = one
  <2>1. 1 .. 0 = {} /\ {} \in SUBSET (1 .. n)
    OBVIOUS
  <2> QED  BY <1>8, <2>1
<1>10. ASSUME NEW k \in 1 .. n PROVE g[1 .. k] = Insert(g[1 .. (k - 1)], two[k])
  <2>1. k \in Nat \ {0} /\ (1 .. k) \in SUBSET (1 .. n)
    BY <1>1
  <2>2. 1 .. k # {} /\ Max(1 .. k) = k /\ (1 .. k) \ {k} = 1 .. (k - 1)
    BY <2>1, InitialSegment
  <2> QED  BY <1>8, <2>1, <2>2
<1> QED  BY <1>7, <1>9, <1>10 DEF n

(* What inserting entries of two after those of one gives.                 *)
Inserted(out, one, two, S) ==
  /\ out \in Seq(S) /\ Len(one) <= Len(out)
  /\ \A i \in 1 .. Len(one) : out[i] = one[i]
  /\ \A i \in 1 .. Len(out) : i > Len(one) => out[i] \in ToSet(two)
  /\ \A i, j \in 1 .. Len(out) : out[i].key = out[j].key => i = j

LEMMA InsertOne ==
  ASSUME NEW S, NEW one \in Seq(S), NEW two \in Seq(S), NEW out, Inserted(out, one, two, S),
         NEW e \in ToSet(two), e \in S
  PROVE  /\ Inserted(Insert(out, e), one, two, S)
         /\ KeysOf(Insert(out, e)) = KeysOf(out) \cup {e.key}
<1>1. CASE e.key \in KeysOf(out)
  BY <1>1 DEF Insert
<1>2. CASE e.key \notin KeysOf(out)
  <2> DEFINE new == Append(out, e)
             n == Len(out)
  <2>1. Insert(out, e) = new
    BY <1>2 DEF Insert
  <2>2. out \in Seq(S) /\ n \in Nat /\ Len(one) \in Nat /\ Len(one) <= n /\ DOMAIN out = 1 .. n
    BY DEF Inserted
  <2>3. new \in Seq(S) /\ Len(new) = n + 1 /\ new[n + 1] = e /\ (\A i \in 1 .. n : new[i] = out[i])
        /\ DOMAIN new = 1 .. (n + 1)
    BY <2>2
  <2> HIDE DEF new, n
  <2>4. \A i \in 1 .. (n + 1) : i \in 1 .. n \/ i = n + 1
    BY <2>2
  <2>5. \A i \in 1 .. Len(one) : new[i] = one[i]
    BY <2>2, <2>3 DEF Inserted, n
  <2>6. \A i \in 1 .. (n + 1) : i > Len(one) => new[i] \in ToSet(two)
    BY <2>2, <2>3, <2>4 DEF Inserted, n
  <2>7. \A i \in 1 .. n : out[i].key # e.key
    BY <1>2, <2>2 DEF KeysOf
  <2>8. ASSUME NEW i \in 1 .. (n + 1), NEW j \in 1 .. (n + 1), new[i].key = new[j].key PROVE i = j
    <3>1. \A k, l \in 1 .. n : out[k].key = out[l].key => k = l
      BY DEF Inserted, n
    <3> QED  BY <2>3, <2>4, <2>7, <2>8, <3>1
  <2>9. Inserted(new, one, two, S)
    BY <2>2, <2>3, <2>5, <2>6, <2>8 DEF Inserted
  <2>10. KeysOf(new) = KeysOf(out) \cup {e.key}
    <3>1. \A k \in KeysOf(new) : k \in KeysOf(out) \cup {e.key}
      BY <2>2, <2>3, <2>4 DEF KeysOf
    <3>2. \A k \in KeysOf(out) : k \in KeysOf(new)
      BY <2>2, <2>3 DEF KeysOf
    <3>3. e.key \in KeysOf(new)
      <4>1. n + 1 \in 1 .. (n + 1)
        BY <2>2
      <4> QED  BY <2>3, <4>1 DEF KeysOf
    <3> QED  BY <3>1, <3>2, <3>3
  <2> QED  BY <2>1, <2>9, <2>10
<1> QED  BY <1>1, <1>2

LEMMA BothInserted ==
  ASSUME NEW S, NEW one \in Seq(S), NEW two \in Seq(S),
         \A i, j \in DOMAIN one : one[i].key = one[j].key => i = j
  PROVE  /\ Inserted(Both(one, two), one, two, S)
         /\ KeysOf(Both(one, two)) = KeysOf(one) \cup KeysOf(two)
<1>1. PICK g : /\ g[1 .. 0] = one
               /\ \A k \in 1 .. Len(two) : g[1 .. k] = Insert(g[1 .. (k - 1)], two[k])
               /\ Both(one, two) = g[1 .. Len(two)]
  BY BothSteps
<1>2. Len(two) \in Nat /\ Len(one) \in Nat /\ DOMAIN one = 1 .. Len(one) /\ DOMAIN two = 1 .. Len(two)
  OBVIOUS
<1> DEFINE First(k) == {two[i].key : i \in 1 .. k}
           T == {k \in Nat : k <= Len(two)
                    /\ ~ (/\ Inserted(g[1 .. k], one, two, S)
                          /\ KeysOf(g[1 .. k]) = KeysOf(one) \cup First(k))}
<1>3. ASSUME NEW k \in T, \A j \in T : k <= j PROVE FALSE
  <2>1. CASE k = 0
    <3>1. g[1 .. k] = one
      BY <1>1, <2>1
    <3>2. Inserted(one, one, two, S)
      BY <1>2 DEF Inserted
    <3>3. First(0) = {}
      OBVIOUS
    <3> QED  BY <2>1, <3>1, <3>2, <3>3
  <2>2. CASE k # 0
    <3>1. k - 1 \in Nat /\ k - 1 <= Len(two) /\ k - 1 \notin T /\ k \in 1 .. Len(two)
      BY <1>2, <1>3, <2>2, SMTT(30)
    <3>2. Inserted(g[1 .. (k - 1)], one, two, S) /\ KeysOf(g[1 .. (k - 1)]) = KeysOf(one) \cup First(k - 1)
      BY <3>1
    <3>3. g[1 .. k] = Insert(g[1 .. (k - 1)], two[k])
      BY <1>1, <3>1
    <3>4. two[k] \in ToSet(two) /\ two[k] \in S
      BY <1>2, <3>1 DEF ToSet
    <3>5. First(k) = First(k - 1) \cup {two[k].key}
      <4>1. 1 .. k = (1 .. (k - 1)) \cup {k}
        BY <3>1
      <4> QED  BY <4>1
    <3> HIDE DEF First
    <3>6. Inserted(g[1 .. k], one, two, S)
          /\ KeysOf(g[1 .. k]) = KeysOf(g[1 .. (k - 1)]) \cup {two[k].key}
      BY <3>2, <3>3, <3>4, InsertOne
    <3>7. KeysOf(g[1 .. k]) = KeysOf(one) \cup First(k)
      BY <3>2, <3>5, <3>6
    <3> QED  BY <1>3, <3>6, <3>7
  <2> QED  BY <2>1, <2>2
<1>4. Len(two) \notin T
  <2> HIDE DEF T
  <2>1. T = {}
    <3>1. T \in SUBSET Nat
      BY DEF T
    <3> QED  BY <1>3, <3>1, LeastNumber
  <2> QED  BY <2>1
<1>5. First(Len(two)) = KeysOf(two)
  BY <1>2 DEF KeysOf
<1> QED  BY <1>1, <1>2, <1>4, <1>5

(* The first entry for a key stays.                                        *)
Together(h, path, one, two, out) ==
  /\ EntriesAt(h, out, path)
  /\ \A i \in DOMAIN one : i \in DOMAIN out /\ out[i] = one[i]
  /\ \A i \in DOMAIN out : out[i].key \in KeysOf(one) => i \in DOMAIN one
  /\ \A i \in DOMAIN out : i \notin DOMAIN one => out[i] \in ToSet(two)
  /\ KeysOf(out) = KeysOf(one) \cup KeysOf(two)

LEMMA BothIs ==
  ASSUME NEW h, NEW path, NEW one, NEW two, EntriesAt(h, one, path), EntriesAt(h, two, path)
  PROVE  Together(h, path, one, two, Both(one, two))
<1> DEFINE out == Both(one, two)
           S == ToSet(one) \cup ToSet(two)
<1>1. one \in Seq(S) /\ two \in Seq(S)
      /\ \A i, j \in DOMAIN one : one[i].key = one[j].key => i = j
  BY DEF EntriesAt
<1>2. Inserted(out, one, two, S) /\ KeysOf(out) = KeysOf(one) \cup KeysOf(two)
  BY <1>1, BothInserted
<1> HIDE DEF out
<1>3. out \in Seq(S) /\ Len(one) <= Len(out) /\ DOMAIN one = 1 .. Len(one) /\ DOMAIN out = 1 .. Len(out)
      /\ Len(one) \in Nat /\ Len(out) \in Nat
  BY <1>1, <1>2 DEF Inserted
<1>4. (\A i \in DOMAIN one : i \in DOMAIN out /\ out[i] = one[i])
      /\ (\A i \in DOMAIN out : i \notin DOMAIN one => out[i] \in ToSet(two))
      /\ \A i, j \in DOMAIN out : out[i].key = out[j].key => i = j
  BY <1>2, <1>3 DEF Inserted
<1>5. ASSUME NEW i \in DOMAIN out, out[i].key \in KeysOf(one) PROVE i \in DOMAIN one
  <2>1. PICK j \in DOMAIN one : one[j].key = out[i].key
    BY <1>5 DEF KeysOf
  <2> QED  BY <1>4, <2>1
<1>6. out \in Seq(ToSet(out))
  <2>1. \A i \in DOMAIN out : out[i] \in ToSet(out)
    BY DEF ToSet
  <2>2. out = [i \in 1 .. Len(out) |-> out[i]]
    BY <1>3
  <2> QED  BY <1>3, <2>1, <2>2
<1>7. ASSUME NEW i \in DOMAIN out
      PROVE  (\E j \in DOMAIN one : out[i] = one[j]) \/ (\E j \in DOMAIN two : out[i] = two[j])
  BY <1>4 DEF ToSet
<1>8. ASSUME NEW i \in DOMAIN out, isStructLike(out[i].val)
      PROVE  LET c == out[i].val.cell
             IN  c \in DOMAIN h /\ c.path = Append(path, out[i].key) /\ h[c].type = out[i].val.type
  BY <1>7, <1>8, SMTT(30) DEF EntriesAt
<1>9. EntriesAt(h, out, path)
  BY <1>4, <1>6, <1>8 DEF EntriesAt
<1> QED  BY <1>2, <1>4, <1>5, <1>9 DEF out, Together

-----------------------------------------------------------------------------
(* The inductive invariant. *)

(* The cells of the heap, and how far the merge is.                        *)
Heap ==
  /\ source \in Sources
  /\ DOMAIN heap = DOMAIN source.heap
  /\ \A c \in DOMAIN heap : /\ DOMAIN heap[c] = {"type", "data"}
                            /\ heap[c].type = source.heap[c].type
  /\ merged \in Nat /\ merged <= source.maps
  /\ phase \in {"overrides", "strip", "done"} => merged = source.maps

(* What is in the tree, and the maps before they are.                      *)
Place(c) == c = Root \/ c \in DOMAIN heap
Known(c) == c = Root \/ (c \in DOMAIN heap /\ c.map <= merged)
Maps == \A c : Place(c) => EntriesAt(source.heap, Data(c), c.path)

(* What the merge of the next map is through with: what is at or below an  *)
(* entry that a call has passed, of the struct it merges; Key(cs, n) is    *)
(* the key of the entry where call n waits for call n + 1.                 *)
Key(cs, n) == cs[n].out[cs[n].at - 1].key
Touched(cs, c) == \E n \in 1 .. Len(cs) : \E j \in 1 .. (cs[n].at - 1) :
  /\ n < Len(cs) => j # cs[n].at - 1
  /\ n <= Len(c.path) /\ c.path[n] = cs[n].out[j].key
  /\ \A m \in 1 .. (n - 1) : c.path[m] = Key(cs, m)

(* Elsewhere the tree leads to structs of the maps merged so far.          *)
Reach == phase = "merge" =>
  \A c : Known(c) => \A i \in DOMAIN Data(c) : isStructLike(Data(c)[i].val) =>
    \/ Data(c)[i].val.cell.map <= merged
    \/ Data(c)[i].val.cell.map = merged + 1 /\ Touched(calls, c)

(* A call merges the struct at a path of the next map into the one at this *)
(* path of the tree, and has not written to it yet.                        *)
Merges(f) ==
  /\ Known(f.one) /\ f.two \in DOMAIN heap /\ f.two.map = merged + 1 /\ f.two.path = f.one.path
  /\ EntriesAt(source.heap, f.out, f.one.path)
  /\ f.at \in Nat /\ 1 <= f.at /\ f.at <= Len(f.out) + 1
  /\ \A i \in DOMAIN f.out :
       /\ isStructLike(f.out[i].val) => f.out[i].val.cell.map <= merged + 1
       /\ f.out[i].key \in Common(f.one, f.two) =>
            /\ f.out[i].val = AtKey(Data(f.one), f.out[i].key)
            /\ Checked(f.one, f.two, f.out[i].key) = "ok"
            /\ f.out[i].val.cell.map <= merged
At(cs, n) ==
  /\ DOMAIN cs[n] = {"one", "two", "out", "at"}
  /\ cs[n].one = Root <=> n = 1
  /\ Len(cs[n].one.path) = n - 1
  /\ \A m \in 1 .. (n - 1) : cs[n].one.path[m] = Key(cs, m)
  /\ n < Len(cs) =>
       /\ cs[n].at > 1 /\ cs[n].out[cs[n].at - 1].key \in Common(cs[n].one, cs[n].two)
       /\ cs[n + 1].one = cs[n].out[cs[n].at - 1].val.cell
Stack(cs) ==
  /\ cs \in Seq(ToSet(cs))
  /\ \A n \in 1 .. Len(cs) : Merges(cs[n]) /\ At(cs, n)
Calls == phase = "merge" => Stack(calls) /\ (calls # <<>> => merged < source.maps)

Inv == Heap /\ Maps /\ Reach /\ Calls /\ PendingMapsKept

LEMMA RootIs == Root.path = <<>> /\ Root.map = 0 /\ Len(<<>>) = 0
BY DEF Root, Cell

LEMMA CellIs == ASSUME NEW n, NEW p PROVE Cell(n, p).map = n /\ Cell(n, p).path = p
BY DEF Cell

LEMMA PlaceIs ==
  ASSUME Heap, NEW c, Place(c)
  PROVE  /\ c.path \in Seq(STRING)
         /\ c # Root => c.map \in 1 .. source.maps /\ c = Cell(c.map, c.path)
         /\ c.map \in Nat
<1>1. CASE c = Root
  BY <1>1, RootIs
<1>2. CASE c # Root
  <2>1. source \in Sources /\ c \in DOMAIN source.heap
    BY <1>2 DEF Heap, Place
  <2>2. c.map \in 1 .. source.maps /\ c.path \in Seq(STRING) /\ c = Cell(c.map, c.path)
    BY <2>1, SourceIs
  <2> QED  BY <2>2
<1> QED  BY <1>1, <1>2

LEMMA AtKeyIs ==
  ASSUME NEW h, NEW data, NEW path, EntriesAt(h, data, path)
  PROVE  /\ \A i \in DOMAIN data : data[i].key \in KeysOf(data) /\ AtKey(data, data[i].key) = data[i].val
         /\ \A k \in KeysOf(data) : \E i \in DOMAIN data : data[i].key = k /\ AtKey(data, k) = data[i].val
<1>1. ASSUME NEW i \in DOMAIN data PROVE AtKey(data, data[i].key) = data[i].val
  <2> DEFINE j == CHOOSE l \in DOMAIN data : data[l].key = data[i].key
  <2>1. j \in DOMAIN data /\ data[j].key = data[i].key
    OBVIOUS
  <2>2. AtKey(data, data[i].key) = data[j].val
    BY DEF AtKey
  <2> HIDE DEF j
  <2>3. j = i
    BY <2>1 DEF EntriesAt
  <2> QED  BY <2>2, <2>3
<1>2. \A i \in DOMAIN data : data[i].key \in KeysOf(data)
  BY DEF KeysOf
<1>3. \A k \in KeysOf(data) : \E i \in DOMAIN data : data[i].key = k
  BY DEF KeysOf
<1> QED  BY <1>1, <1>2, <1>3

LEMMA CheckIs ==
  ASSUME NEW v, NEW w
  PROVE  /\ checkForErrors(v, w) = "ok" => isStructLike(v) /\ isStructLike(w) /\ v.type = w.type
         /\ checkForErrors(v, w) # "ok" =>
              checkForErrors(v, w) \in {"DuplicateKeyException", "MismatchKeyException",
                                        "MismatchTypeException"}
BY DEF checkForErrors

(* The struct-likes at a place stand below it.                             *)
LEMMA Below ==
  ASSUME Heap, Maps, NEW c, Place(c), NEW i \in DOMAIN Data(c), isStructLike(Data(c)[i].val)
  PROVE  LET d == Data(c)[i].val.cell
         IN  d \in DOMAIN heap /\ d.path = Append(c.path, Data(c)[i].key)
BY DEF Maps, EntriesAt, Heap

-----------------------------------------------------------------------------
(* Steps that leave the tree as it is. *)

SameTree == source' = source /\ heap' = heap /\ cfg_data' = cfg_data /\ merged' = merged

LEMMA SameData ==
  ASSUME SameTree
  PROVE  /\ \A c : Data(c)' = Data(c)
         /\ \A c : Known(c)' = Known(c) /\ Place(c)' = Place(c)
<1>1. \A c : Data(c)' = Data(c)
  BY DEF SameTree, Data
<1>2. \A c : Known(c)' = Known(c) /\ Place(c)' = Place(c)
  BY DEF SameTree, Known, Place
<1> QED  BY <1>1, <1>2

LEMMA SameMerges ==
  ASSUME SameTree, NEW f, Merges(f)
  PROVE  Merges(f)'
BY SameData DEF SameTree, Merges, Common, Checked, AtKey, KeysOf

LEMMA SameAt ==
  ASSUME SameTree, NEW cs, NEW n, At(cs, n)
  PROVE  At(cs, n)'
BY SameData DEF SameTree, At, Common, KeysOf, Key

LEMMA SameMaps ==
  ASSUME SameTree, Heap, Maps, PendingMapsKept, phase' \in {"overrides", "strip", "done"} => merged = source.maps
  PROVE  Heap' /\ Maps' /\ PendingMapsKept'
BY SameData DEF SameTree, Heap, Maps, PendingMapsKept

(* Nothing remains to be shown when the merge has come to an end.          *)
LEMMA NotMerging ==
  ASSUME Inv, SameTree, phase' # "merge", phase' \in {"overrides", "strip", "done"} => merged = source.maps
  PROVE  Inv'
BY SameMaps DEF Inv, Reach, Calls

LEMMA FailInv ==
  ASSUME Inv, NEW e, Fail(e), e \notin {"merge", "overrides", "strip", "done"} PROVE Inv'
BY NotMerging DEF Fail, SameTree

LEMMA EndsInv == ASSUME Inv, EndMerge \/ EndOverrides \/ EndStrip PROVE Inv'
<1>1. CASE EndMerge
  BY <1>1, NotMerging DEF EndMerge, SameTree
<1>2. CASE EndOverrides
  BY <1>2, NotMerging DEF EndOverrides, SameTree, Inv, Heap
<1>3. CASE EndStrip
  <2>1. merged = source.maps
    BY <1>3 DEF EndStrip, Inv, Heap
  <2> QED  BY <1>3, <2>1, NotMerging DEF EndStrip, SameTree
<1> QED  BY <1>1, <1>2, <1>3

LEMMA InitInv == Init => Inv
<1> SUFFICES ASSUME Init PROVE Inv
  OBVIOUS
<1>1. source \in Sources /\ heap = source.heap /\ calls = <<>> /\ phase = "merge"
  BY DEF Init
<1>2. source.maps \in Nat /\ \A n \in 1 .. source.maps : Cell(n, <<>>) \in DOMAIN source.heap
  BY <1>1, SourcesAssumption
<1>3. merged \in {0, 1} /\ merged <= source.maps /\ (merged = 0 <=> source.maps = 0)
  BY <1>2 DEF Init
<1>4. Heap
  BY <1>1, <1>2, <1>3, SourceIs DEF Heap
<1>5. cfg_data = IF merged = 0 THEN <<>> ELSE source.heap[Cell(1, <<>>)].data
  BY <1>1, <1>3 DEF Init
<1>6. ASSUME merged # 0 PROVE /\ EntriesAt(source.heap, cfg_data, <<>>)
                              /\ \A i \in DOMAIN cfg_data : isStructLike(cfg_data[i].val) =>
                                   cfg_data[i].val.cell.map = 1
  <2> DEFINE c == Cell(1, <<>>)
  <2>1. c \in DOMAIN source.heap /\ c.map = 1 /\ c.path = <<>> /\ cfg_data = source.heap[c].data
    BY <1>2, <1>3, <1>5, <1>6, CellIs
  <2> HIDE DEF c
  <2> QED  BY <1>1, <2>1, SourceIs
<1>7. ASSUME merged = 0 PROVE EntriesAt(source.heap, cfg_data, <<>>) /\ DOMAIN cfg_data = {}
  <2>1. cfg_data = <<>>
    BY <1>5, <1>7
  <2>2. <<>> \in Seq(ToSet(<<>>)) /\ DOMAIN <<>> = {}
    OBVIOUS
  <2> QED  BY <2>1, <2>2 DEF EntriesAt
<1>8. Maps
  <2>1. ASSUME NEW c, Place(c) PROVE EntriesAt(source.heap, Data(c), c.path)
    <3>1. CASE c = Root
      BY <1>6, <1>7, <3>1, RootIs DEF Data
    <3>2. CASE c # Root
      <4>1. c \in DOMAIN source.heap /\ Data(c) = source.heap[c].data
        BY <1>1, <2>1, <3>2 DEF Place, Data
      <4> QED  BY <1>1, <4>1, SourceIs
    <3> QED  BY <3>1, <3>2
  <2> QED  BY <2>1 DEF Maps
<1>9. Reach
  <2>1. ASSUME NEW c, Known(c), NEW i \in DOMAIN Data(c), isStructLike(Data(c)[i].val)
        PROVE  Data(c)[i].val.cell.map <= merged
    <3>1. CASE c = Root
      <4>1. Data(c) = cfg_data
        BY <3>1 DEF Data
      <4> QED  BY <1>3, <1>6, <1>7, <2>1, <4>1
    <3>2. CASE c # Root
      <4>1. c \in DOMAIN source.heap /\ Data(c) = source.heap[c].data /\ c.map <= merged
        BY <1>1, <2>1, <3>2 DEF Known, Data
      <4> QED  BY <1>1, <2>1, <4>1, SourceIs
    <3> QED  BY <3>1, <3>2
  <2> QED  BY <2>1 DEF Reach
<1>10. Calls /\ PendingMapsKept
  BY <1>1 DEF Calls, Stack, PendingMapsKept
<1> QED  BY <1>4, <1>8, <1>9, <1>10 DEF Inv

-----------------------------------------------------------------------------
(* A call begins. *)

LEMMA PendingIs ==
  ASSUME Inv, phase = "merge", NEW c \in DOMAIN heap, c.map > merged
  PROVE  /\ Data(c) = source.heap[c].data /\ EntriesAt(source.heap, Data(c), c.path)
         /\ \A i \in DOMAIN Data(c) :
              /\ Data(c)[i].key \in ToSet(KeyOrder)
              /\ isStructLike(Data(c)[i].val) => Data(c)[i].val.cell.map = c.map
<1>1. source \in Sources /\ c \in DOMAIN source.heap /\ heap[c] = source.heap[c] /\ merged \in Nat
  BY DEF Inv, Heap, PendingMapsKept
<1>2. c # Root
  <2>1. c.map \in 1 .. source.maps
    BY <1>1, SourceIs
  <2> QED  BY <2>1, RootIs
<1>3. Data(c) = source.heap[c].data
  BY <1>1, <1>2 DEF Data
<1> QED  BY <1>1, <1>3, SourceIs

(* No conflict is left when nothing is bad.                                *)
LEMMA AllChecked ==
  ASSUME NEW stack, NEW one, NEW two, Call(stack, one, two), phase' = "merge", phase = "merge",
         \A k \in Common(one, two) : k \in ToSet(KeyOrder)
  PROVE  /\ \A k \in Common(one, two) : Checked(one, two, k) = "ok"
         /\ calls' = Append(stack, [one |-> one, two |-> two,
                                    out |-> Both(Data(one), Data(two)), at |-> 1])
         /\ SameTree /\ phase' = phase
<1> DEFINE bad == {i \in DOMAIN KeyOrder :
                     KeyOrder[i] \in Common(one, two) /\ Checked(one, two, KeyOrder[i]) # "ok"}
           first == CHOOSE i \in bad : \A j \in bad : i <= j
<1>1. Checked(one, two, KeyOrder[first]) # "merge"
  BY CheckIs DEF Checked
<1>2. bad = {}
  BY <1>1 DEF Call, Fail
<1>3. \A k \in Common(one, two) : \E i \in DOMAIN KeyOrder : KeyOrder[i] = k
  BY DEF ToSet
<1>4. \A k \in Common(one, two) : Checked(one, two, k) = "ok"
  BY <1>2, <1>3
<1>5. /\ calls' = Append(stack, [one |-> one, two |-> two,
                                 out |-> Both(Data(one), Data(two)), at |-> 1])
      /\ SameTree /\ phase' = phase
  BY <1>2 DEF Call, SameTree
<1> QED  BY <1>4, <1>5

LEMMA CallFails ==
  ASSUME Inv, phase = "merge", NEW stack, NEW one, NEW two, Call(stack, one, two), phase' # "merge"
  PROVE  Inv'
<1> DEFINE bad == {i \in DOMAIN KeyOrder :
                     KeyOrder[i] \in Common(one, two) /\ Checked(one, two, KeyOrder[i]) # "ok"}
           first == CHOOSE i \in bad : \A j \in bad : i <= j
<1>1. Fail(Checked(one, two, KeyOrder[first]))
  BY DEF Call
<1>2. Checked(one, two, KeyOrder[first]) \notin {"merge", "overrides", "strip", "done"}
  BY CheckIs DEF Checked
<1> QED  BY <1>1, <1>2, FailInv

LEMMA NewCall ==
  ASSUME Inv, phase = "merge", merged < source.maps,
         NEW one, NEW two, Known(one), ~Touched(calls, one),
         two \in DOMAIN heap, two.map = merged + 1, two.path = one.path,
         \A k \in Common(one, two) : Checked(one, two, k) = "ok"
  PROVE  Merges([one |-> one, two |-> two, out |-> Both(Data(one), Data(two)), at |-> 1])
<1> DEFINE d == Data(one)
           e == Data(two)
           out == Both(d, e)
           f == [one |-> one, two |-> two, out |-> out, at |-> 1]
<1>1. merged \in Nat /\ Place(one)
  BY DEF Inv, Heap, Known, Place
<1>2. EntriesAt(source.heap, d, one.path) /\ EntriesAt(source.heap, e, one.path)
  BY <1>1, PendingIs DEF Inv, Maps
<1>3. \A i \in DOMAIN d : isStructLike(d[i].val) => d[i].val.cell.map <= merged
  BY DEF Inv, Reach
<1>4. \A i \in DOMAIN e : isStructLike(e[i].val) => e[i].val.cell.map = merged + 1
  BY <1>1, PendingIs
<1>5. Common(one, two) = KeysOf(d) \cap KeysOf(e)
  BY DEF Common
<1>6. \A k \in KeysOf(d) \cap KeysOf(e) : isStructLike(AtKey(d, k))
  BY <1>5, CheckIs DEF Checked
<1> HIDE DEF d, e
<1>7. Together(source.heap, one.path, d, e, out)
  BY <1>2, BothIs
<1> HIDE DEF out
<1>8. /\ EntriesAt(source.heap, out, one.path)
      /\ \A i \in DOMAIN d : i \in DOMAIN out /\ out[i] = d[i]
      /\ \A i \in DOMAIN out : out[i].key \in KeysOf(d) => i \in DOMAIN d
      /\ \A i \in DOMAIN out : i \notin DOMAIN d => out[i] \in ToSet(e)
  BY <1>7 DEF Together
<1>9. ASSUME NEW i \in DOMAIN out, isStructLike(out[i].val) PROVE out[i].val.cell.map <= merged + 1
  <2>1. CASE i \in DOMAIN d
    <3>1. out[i] = d[i] /\ d[i].val.cell.map <= merged
      BY <1>3, <1>8, <1>9, <2>1
    <3>2. d[i].val.cell \in DOMAIN heap
      BY <1>2, <1>8, <1>9, <2>1 DEF EntriesAt, Inv, Heap
    <3>3. d[i].val.cell.map \in Nat
      BY <3>2, PlaceIs DEF Place, Inv
    <3> QED  BY <1>1, <3>1, <3>3
  <2>2. CASE i \notin DOMAIN d
    <3>1. PICK j \in DOMAIN e : out[i] = e[j]
      BY <1>8, <2>2 DEF ToSet
    <3> QED  BY <1>1, <1>4, <1>9, <3>1
  <2> QED  BY <2>1, <2>2
<1>10. ASSUME NEW i \in DOMAIN out, out[i].key \in KeysOf(d) \cap KeysOf(e)
      PROVE  out[i].val = AtKey(d, out[i].key) /\ out[i].val.cell.map <= merged
  <2>1. i \in DOMAIN d /\ out[i] = d[i]
    BY <1>8, <1>10
  <2>2. AtKey(d, d[i].key) = d[i].val
    BY <1>2, <2>1, AtKeyIs
  <2> QED  BY <1>3, <1>6, <1>10, <2>1, <2>2
<1>11. Len(out) \in Nat
  BY <1>8 DEF EntriesAt
<1>12. f.one = one /\ f.two = two /\ f.out = out /\ f.at = 1
  OBVIOUS
<1> HIDE DEF f
<1>13. Merges(f)
  BY <1>1, <1>5, <1>8, <1>9, <1>10, <1>11, <1>12 DEF Merges, d
<1> QED  BY <1>13 DEF f, out, d, e

LEMMA MergeMapInv == ASSUME Inv, MergeMap PROVE Inv'
<1> DEFINE two == Cell(merged + 1, <<>>)
           f == [one |-> Root, two |-> two, out |-> Both(Data(Root), Data(two)), at |-> 1]
<1>1. phase = "merge" /\ calls = <<>> /\ merged < source.maps /\ Call(<<>>, Root, two)
  BY SMTT(30) DEF MergeMap
<1>2. source \in Sources /\ merged \in Nat /\ source.maps \in Nat
  BY SourcesAssumption DEF Inv, Heap
<1>3. two \in DOMAIN heap /\ two.map = merged + 1 /\ two.path = Root.path
  <2>1. merged + 1 \in 1 .. source.maps
    BY <1>1, <1>2
  <2>2. two \in DOMAIN heap
    BY <1>2, <2>1, TopOfMap DEF Inv, Heap
  <2> QED  BY <2>2, CellIs, RootIs
<1> HIDE DEF two
<1>4. Known(Root) /\ ~Touched(calls, Root)
  BY <1>1 DEF Known, Touched
<1>5. CASE phase' # "merge"
  BY <1>1, <1>5, CallFails
<1>6. CASE phase' = "merge"
  <2>1. \A k \in Common(Root, two) : k \in ToSet(KeyOrder)
    <3>1. \A i \in DOMAIN Data(two) : Data(two)[i].key \in ToSet(KeyOrder)
      BY <1>1, <1>2, <1>3, PendingIs
    <3> QED  BY <3>1 DEF Common, KeysOf
  <2>2. /\ \A k \in Common(Root, two) : Checked(Root, two, k) = "ok"
        /\ calls' = Append(<<>>, f) /\ SameTree /\ phase' = phase
    BY <1>1, <1>6, <2>1, AllChecked
  <2>3. Merges(f)
    BY <1>1, <1>3, <1>4, <2>2, NewCall
  <2>4. f.one = Root /\ DOMAIN f = {"one", "two", "out", "at"} /\ f.at = 1
    OBVIOUS
  <2> HIDE DEF f
  <2>5. PICK cs : cs = calls' /\ cs = <<f>>
    BY <2>2
  <2>6. Len(cs) = 1 /\ cs[1] = f /\ cs \in Seq(ToSet(cs)) /\ \A n \in 1 .. 1 : n = 1
    BY <2>5 DEF ToSet
  <2>7. Merges(cs[1])' /\ At(cs, 1)'
    <3>1. At(cs, 1)
      BY <2>4, <2>6, RootIs DEF At
    <3> QED  BY <2>2, <2>3, <2>6, <3>1, SameMerges, SameAt
  <2>8. Calls'
    <3>1. merged' < source'.maps
      BY <1>1, <2>2 DEF SameTree
    <3>2. Stack(cs)'
      BY <2>6, <2>7 DEF Stack
    <3> QED  BY <2>5, <3>1, <3>2 DEF Calls
  <2>9. Reach'
    <3>1. \A c : ~Touched(calls, c)
      BY <1>1 DEF Touched
    <3>2. \A c : Known(c) => \A i \in DOMAIN Data(c) : isStructLike(Data(c)[i].val) =>
            Data(c)[i].val.cell.map <= merged
      BY <1>1, <3>1 DEF Inv, Reach
    <3>3. \A c : Known(c)' = Known(c) /\ Data(c)' = Data(c)
      BY <2>2, SameData
    <3>4. merged' = merged
      BY <2>2 DEF SameTree
    <3> QED  BY <3>2, <3>3, <3>4 DEF Reach
  <2> QED  BY <1>1, <2>2, <2>8, <2>9, SameMaps DEF Inv
<1> QED  BY <1>5, <1>6

-----------------------------------------------------------------------------
(* The call at work passes an entry. *)

(* What is known of the call at work, and of the others.                   *)
LEMMA StackIs ==
  ASSUME Inv, phase = "merge", calls # <<>>
  PROVE  /\ Len(calls) \in Nat \ {0} /\ calls \in Seq(ToSet(calls)) /\ Here = calls[Len(calls)]
         /\ merged < source.maps
         /\ \A n \in 1 .. Len(calls) :
              /\ Merges(calls[n]) /\ At(calls, n) /\ calls[n].at \in Nat /\ calls[n].at >= 1
              /\ Place(calls[n].one) /\ calls[n].one.path \in Seq(STRING)
              /\ DOMAIN calls[n].out = 1 .. Len(calls[n].out) /\ Len(calls[n].out) \in Nat
              /\ calls[n].at <= Len(calls[n].out) + 1
              /\ \A i, j \in DOMAIN calls[n].out : calls[n].out[i].key = calls[n].out[j].key => i = j
<1>1. calls \in Seq(ToSet(calls)) /\ (\A n \in 1 .. Len(calls) : Merges(calls[n]) /\ At(calls, n))
      /\ merged < source.maps
  BY DEF Inv, Calls, Stack
<1>2. Len(calls) \in Nat \ {0} /\ Here = calls[Len(calls)]
  BY <1>1 DEF Here, Last
<1>3. ASSUME NEW n \in 1 .. Len(calls)
      PROVE  /\ calls[n].at \in Nat /\ calls[n].at >= 1 /\ calls[n].at <= Len(calls[n].out) + 1
             /\ Place(calls[n].one) /\ calls[n].one.path \in Seq(STRING)
             /\ DOMAIN calls[n].out = 1 .. Len(calls[n].out) /\ Len(calls[n].out) \in Nat
             /\ \A i, j \in DOMAIN calls[n].out : calls[n].out[i].key = calls[n].out[j].key => i = j
  <2>1. Merges(calls[n])
    BY <1>1
  <2>2. Place(calls[n].one)
    BY <2>1 DEF Merges, Known, Place
  <2>3. calls[n].one.path \in Seq(STRING)
    BY <2>2, PlaceIs DEF Inv
  <2>4. EntriesAt(source.heap, calls[n].out, calls[n].one.path)
    BY <2>1 DEF Merges
  <2>5. DOMAIN calls[n].out = 1 .. Len(calls[n].out) /\ Len(calls[n].out) \in Nat
        /\ \A i, j \in DOMAIN calls[n].out : calls[n].out[i].key = calls[n].out[j].key => i = j
    <3>1. PICK o : o = calls[n].out
      BY SMTT(30)
    <3>2. o \in Seq(ToSet(o)) /\ \A i, j \in DOMAIN o : o[i].key = o[j].key => i = j
      BY <2>4, <3>1 DEF EntriesAt
    <3>3. DOMAIN o = 1 .. Len(o) /\ Len(o) \in Nat
      BY <3>2
    <3> QED  BY <3>1, <3>2, <3>3
  <2> QED  BY <2>1, <2>2, <2>3, <2>5 DEF Merges
<1> QED  BY <1>1, <1>2, <1>3

(* The stack in which the call at work has passed one entry more, perhaps  *)
(* with a new call above it.                                               *)
Passes(cs) ==
  LET n == Len(calls)
  IN  /\ cs \in Seq(ToSet(cs)) /\ Len(cs) \in {n, n + 1}
      /\ \A m \in 1 .. n : m < n => cs[m] = calls[m]
      /\ cs[n].one = calls[n].one /\ cs[n].two = calls[n].two /\ cs[n].out = calls[n].out
      /\ cs[n].at = calls[n].at + 1 /\ DOMAIN cs[n] = DOMAIN calls[n]

LEMMA PassesKey ==
  ASSUME Inv, phase = "merge", calls # <<>>, NEW cs, Passes(cs)
  PROVE  /\ \A m \in 1 .. Len(calls) : m < Len(calls) => Key(cs, m) = Key(calls, m)
         /\ Key(cs, Len(calls)) = Here.out[Here.at].key
<1> DEFINE n == Len(calls)
<1>1. n \in Nat /\ calls[n].at \in Nat /\ Here = calls[n]
  BY StackIs
<1>2. calls[n].at + 1 - 1 = calls[n].at
  BY <1>1
<1>3. Key(cs, n) = Here.out[Here.at].key
  BY <1>1, <1>2, SMTT(30) DEF Passes, Key
<1>4. \A m \in 1 .. n : m < n => Key(cs, m) = Key(calls, m)
  BY DEF Passes, Key
<1> QED  BY <1>3, <1>4

LEMMA TouchedGrows ==
  ASSUME Inv, phase = "merge", calls # <<>>, NEW cs, Passes(cs), NEW c, Touched(calls, c)
  PROVE  Touched(cs, c)
<1> DEFINE n == Len(calls)
<1>1. PICK k \in 1 .. n : \E j \in 1 .. (calls[k].at - 1) :
        /\ k < n => j # calls[k].at - 1
        /\ k <= Len(c.path) /\ c.path[k] = calls[k].out[j].key
        /\ \A m \in 1 .. (k - 1) : c.path[m] = Key(calls, m)
  BY DEF Touched
<1>2. PICK j \in 1 .. (calls[k].at - 1) :
        /\ k < n => j # calls[k].at - 1
        /\ k <= Len(c.path) /\ c.path[k] = calls[k].out[j].key
        /\ \A m \in 1 .. (k - 1) : c.path[m] = Key(calls, m)
  BY <1>1
<1>3. n \in Nat /\ Len(cs) \in {n, n + 1} /\ k \in 1 .. Len(cs)
  BY StackIs DEF Passes
<1>4. \A m \in 1 .. (k - 1) : m \in 1 .. n /\ m < n /\ c.path[m] = Key(cs, m)
  <2>1. \A m \in 1 .. (k - 1) : m \in 1 .. n /\ m < n
    BY <1>3
  <2> QED  BY <1>2, <2>1, PassesKey
<1>5. CASE k < n
  <2>1. cs[k] = calls[k]
    BY <1>5 DEF Passes
  <2> QED  BY <1>2, <1>3, <1>4, <1>5, <2>1 DEF Touched
<1>6. CASE k = n
  <2>1. cs[k].out = calls[k].out /\ cs[k].at = calls[k].at + 1 /\ calls[k].at \in Nat
    BY <1>6, StackIs DEF Passes
  <2>2. j \in 1 .. (cs[k].at - 1) /\ j # cs[k].at - 1
    BY <2>1
  <2> QED  BY <1>2, <1>3, <1>4, <2>1, <2>2 DEF Touched
<1> QED  BY <1>3, <1>5, <1>6

(* The entries below the one it has passed stay in their places.           *)
LEMMA PassesStack ==
  ASSUME Inv, phase = "merge", calls # <<>>, NEW cs, Passes(cs), Here.at <= Len(Here.out),
         Len(cs) > Len(calls) =>
           /\ Here.out[Here.at].key \in Common(Here.one, Here.two)
           /\ cs[Len(calls) + 1].one = Here.out[Here.at].val.cell
  PROVE  \A m \in 1 .. Len(calls) : Merges(cs[m]) /\ At(cs, m)
<1> DEFINE n == Len(calls)
           f == cs[n]
<1>1. n \in Nat \ {0} /\ calls[n].at \in Nat /\ Here = calls[n] /\ Len(cs) \in {n, n + 1}
      /\ calls[n].at >= 1 /\ Len(calls[n].out) \in Nat
  BY StackIs DEF Passes
<1>2. ASSUME NEW m \in 1 .. n, m < n PROVE Merges(cs[m]) /\ At(cs, m)
  <2>1. cs[m] = calls[m] /\ Merges(calls[m]) /\ At(calls, m)
    BY <1>2, StackIs DEF Passes
  <2>2. m + 1 \in 1 .. n /\ cs[m + 1].one = calls[m + 1].one
    BY <1>1, <1>2 DEF Passes
  <2>3. \A l \in 1 .. (m - 1) : Key(cs, l) = Key(calls, l)
    <3>1. \A l \in 1 .. (m - 1) : l \in 1 .. n /\ l < n
      BY <1>1, <1>2
    <3> QED  BY <3>1, PassesKey
  <2>4. At(cs, m)
    BY <1>1, <1>2, <2>1, <2>2, <2>3 DEF At
  <2> QED  BY <2>1, <2>4
<1>3. Merges(calls[n]) /\ At(calls, n)
  BY <1>1, StackIs
<1>4. f.one = calls[n].one /\ f.two = calls[n].two /\ f.out = calls[n].out
      /\ f.at = calls[n].at + 1 /\ DOMAIN f = DOMAIN calls[n]
  BY DEF Passes
<1>5. f.at \in Nat /\ 1 <= f.at /\ f.at <= Len(f.out) + 1 /\ f.at > 1 /\ f.at - 1 = Here.at
  BY <1>1, <1>4, SMTT(30)
<1>6. \A l \in 1 .. (n - 1) : Key(cs, l) = Key(calls, l)
  <2>1. \A l \in 1 .. (n - 1) : l \in 1 .. n /\ l < n
    BY <1>1
  <2> QED  BY <2>1, PassesKey
<1> HIDE DEF f
<1>7. Merges(f)
  BY <1>3, <1>4, <1>5 DEF Merges
<1>8. At(cs, n)
  <2>1. n < Len(cs) => /\ f.out[f.at - 1].key \in Common(f.one, f.two)
                       /\ cs[n + 1].one = f.out[f.at - 1].val.cell
    BY <1>1, <1>4, <1>5
  <2>2. /\ DOMAIN f = {"one", "two", "out", "at"} /\ (f.one = Root <=> n = 1)
        /\ Len(f.one.path) = n - 1 /\ \A m \in 1 .. (n - 1) : f.one.path[m] = Key(cs, m)
    BY <1>3, <1>4, <1>6 DEF At
  <2> QED  BY <1>5, <2>1, <2>2 DEF At, f
<1>9. \A m \in 1 .. n : m < n \/ m = n
  BY <1>1
<1> QED  BY <1>2, <1>7, <1>8, <1>9 DEF f

LEMMA PassesReach ==
  ASSUME Inv, phase = "merge", calls # <<>>, SameTree, Passes(calls')
  PROVE  Reach'
<1>1. PICK cs : cs = calls'
  OBVIOUS
<1>2. \A c : Touched(calls, c) => Touched(cs, c)
  BY <1>1, TouchedGrows
<1>3. \A c : Touched(calls, c) => Touched(calls, c)'
  BY <1>1, <1>2 DEF Touched, Key
<1>4. \A c : Known(c)' = Known(c) /\ Data(c)' = Data(c)
  BY SameData
<1>5. merged' = merged
  BY DEF SameTree
<1> QED  BY <1>3, <1>4, <1>5 DEF Inv, Reach

(* The structs at a common key stand at one path, and nothing there is     *)
(* merged yet.                                                             *)
Child == Here.out[Here.at].val.cell
ChildOfTwo == AtKey(Data(Here.two), Here.out[Here.at].key).cell

LEMMA ChildIs ==
  ASSUME Inv, phase = "merge", calls # <<>>, Here.at <= Len(Here.out),
         Here.out[Here.at].key \in Common(Here.one, Here.two)
  PROVE  /\ AtKey(Data(Here.one), Here.out[Here.at].key) = Here.out[Here.at].val
         /\ Child \in DOMAIN heap /\ Child.map <= merged
         /\ Child.path = Append(Here.one.path, Here.out[Here.at].key)
         /\ ChildOfTwo \in DOMAIN heap /\ ChildOfTwo.map = merged + 1 /\ ChildOfTwo.path = Child.path
<1> DEFINE f == Here
           i == f.at
           k == f.out[i].key
           e == Data(f.two)
<1>1. Merges(f) /\ i \in DOMAIN f.out /\ merged \in Nat
  BY StackIs DEF Inv, Heap
<1>2. /\ f.out[i].val = AtKey(Data(f.one), k) /\ Checked(f.one, f.two, k) = "ok"
      /\ f.out[i].val.cell.map <= merged
  BY <1>1 DEF Merges
<1>3. isStructLike(f.out[i].val) /\ isStructLike(AtKey(e, k))
  BY <1>2, CheckIs DEF Checked
<1>4. Child \in DOMAIN heap /\ Child.path = Append(f.one.path, k)
  BY <1>1, <1>3 DEF Merges, EntriesAt, Child, Inv, Heap
<1>5. f.two \in DOMAIN heap /\ f.two.map = merged + 1 /\ f.two.path = f.one.path
  BY <1>1 DEF Merges
<1>6. EntriesAt(source.heap, e, f.one.path)
      /\ \A j \in DOMAIN e : isStructLike(e[j].val) => e[j].val.cell.map = merged + 1
  BY <1>1, <1>5, PendingIs
<1>7. k \in KeysOf(e)
  BY DEF Common
<1> HIDE DEF e
<1>8. PICK j \in DOMAIN e : e[j].key = k /\ AtKey(e, k) = e[j].val
  BY <1>6, <1>7, AtKeyIs
<1>9. ChildOfTwo = e[j].val.cell
  BY <1>8 DEF ChildOfTwo, e
<1>10. ChildOfTwo \in DOMAIN heap /\ ChildOfTwo.map = merged + 1 /\ ChildOfTwo.path = Append(f.one.path, k)
  BY <1>3, <1>6, <1>8, <1>9 DEF EntriesAt, Inv, Heap
<1> QED  BY <1>2, <1>4, <1>10 DEF Child

LEMMA ChildUntouched ==
  ASSUME Inv, phase = "merge", calls # <<>>, Here.at <= Len(Here.out),
         NEW c, c.path = Append(Here.one.path, Here.out[Here.at].key)
  PROVE  ~Touched(calls, c)
<1> DEFINE n == Len(calls)
<1>1. n \in Nat \ {0} /\ Here = calls[n]
  BY StackIs
<1>2. At(calls, n) /\ calls[n].one.path \in Seq(STRING) /\ calls[n].at \in Nat /\ calls[n].at >= 1
  BY <1>1, StackIs
<1>3. Len(Here.one.path) = n - 1 /\ \A m \in 1 .. (n - 1) : Here.one.path[m] = Key(calls, m)
  BY <1>1, <1>2 DEF At
<1>4. c.path[n] = Here.out[Here.at].key /\ \A m \in 1 .. (n - 1) : c.path[m] = Key(calls, m)
  BY <1>1, <1>2, <1>3
<1>5. ASSUME NEW k \in 1 .. n, NEW j \in 1 .. (calls[k].at - 1), k < n => j # calls[k].at - 1,
             c.path[k] = calls[k].out[j].key
      PROVE  FALSE
  <2>1. /\ calls[k].at \in Nat /\ calls[k].at <= Len(calls[k].out) + 1 /\ Len(calls[k].out) \in Nat
        /\ DOMAIN calls[k].out = 1 .. Len(calls[k].out)
        /\ \A i, l \in DOMAIN calls[k].out : calls[k].out[i].key = calls[k].out[l].key => i = l
    BY StackIs
  <2>2. j \in DOMAIN calls[k].out
    BY <2>1
  <2>3. CASE k = n
    <3>1. calls[k].at \in DOMAIN calls[k].out /\ j # calls[k].at
      BY <1>1, <1>2, <2>1, <2>3
    <3> QED  BY <1>1, <1>4, <1>5, <2>1, <2>2, <2>3, <3>1
  <2>4. CASE k < n
    <3>1. At(calls, k) /\ k \in 1 .. (n - 1)
      BY <1>1, <2>4, StackIs
    <3>2. calls[k].at - 1 \in DOMAIN calls[k].out
      BY <1>1, <2>1, <2>4, <3>1, SMTT(30) DEF At
    <3>3. calls[k].out[j].key = calls[k].out[calls[k].at - 1].key
      BY <1>4, <1>5, <3>1 DEF Key
    <3> QED  BY <1>5, <2>1, <2>2, <2>4, <3>2, <3>3
  <2> QED  BY <1>1, <2>3, <2>4
<1> QED  BY <1>5 DEF Touched

(* The step of an entry that is merged or passed. *)
Passed(cs) == LET key == Here.out[Here.at].key IN
  /\ Passes(cs)
  /\ key \notin Common(Here.one, Here.two) => Len(cs) = Len(calls)
  /\ key \in Common(Here.one, Here.two) =>
       /\ Len(cs) = Len(calls) + 1
       /\ cs[Len(cs)] = [one |-> Child, two |-> ChildOfTwo,
                          out |-> Both(Data(Child), Data(ChildOfTwo)), at |-> 1]
       /\ \A k \in Common(Child, ChildOfTwo) : Checked(Child, ChildOfTwo, k) = "ok"

LEMMA EntryCalls ==
  ASSUME Inv, MergeEntry
  PROVE  /\ phase = "merge" /\ calls # <<>> /\ Here.at <= Len(Here.out)
         /\ phase' # "merge" => \E next : Call(next, Child, ChildOfTwo)
         /\ phase' = "merge" => SameTree /\ phase' = phase /\ protos' = protos /\ \E cs : cs = calls' /\ Passed(cs)
<1> DEFINE n == Len(calls)
           entry == Here.out[Here.at]
           next == [calls EXCEPT ![n].at = @ + 1]
<1>1. phase = "merge" /\ calls # <<>> /\ Here.at <= Len(Here.out)
  BY DEF MergeEntry, Merging
<1>2. n \in Nat \ {0} /\ calls \in Seq(ToSet(calls)) /\ Here = calls[n] /\ DOMAIN calls = 1 .. n
      /\ At(calls, n)
  BY <1>1, StackIs
<1>0. n = Len(calls)
  OBVIOUS
<1> DEFINE last == [calls[n] EXCEPT !.at = @ + 1]
<1>11. next = [m \in 1 .. n |-> IF m = n THEN last ELSE calls[m]]
  BY <1>2
<1>12. DOMAIN calls[n] = {"one", "two", "out", "at"}
  BY <1>2 DEF At
<1>13. last.one = calls[n].one /\ last.two = calls[n].two /\ last.out = calls[n].out
       /\ last.at = calls[n].at + 1 /\ DOMAIN last = DOMAIN calls[n]
  BY <1>12
<1>4. entry.key \notin Common(Here.one, Here.two) =>
        calls' = next /\ UNCHANGED <<source, heap, cfg_data, merged, applied, protos, phase>>
  BY DEF MergeEntry
<1>5. entry.key \in Common(Here.one, Here.two) =>
        Call(next, AtKey(Data(Here.one), entry.key).cell, AtKey(Data(Here.two), entry.key).cell)
  BY DEF MergeEntry
<1> HIDE DEF last, next
<1>14. n \in 1 .. n /\ n \in Nat /\ n \in Nat \ {0}
  BY <1>2
<1> HIDE DEF n
<1>3. /\ Len(next) = n /\ DOMAIN next = 1 .. n /\ next = [m \in 1 .. n |-> next[m]]
      /\ \A m \in 1 .. n : m < n => next[m] = calls[m]
      /\ next[n].one = calls[n].one /\ next[n].two = calls[n].two /\ next[n].out = calls[n].out
      /\ next[n].at = calls[n].at + 1 /\ DOMAIN next[n] = DOMAIN calls[n]
  <2>1. DOMAIN next = 1 .. n /\ next[n] = last /\ \A m \in 1 .. n : m < n => next[m] = calls[m]
    BY <1>11, <1>14
  <2>2. next = [m \in 1 .. n |-> next[m]]
    BY <1>11, <2>1
  <2>3. Len(next) = n
    BY <1>14, <2>2
  <2> QED  BY <1>13, <2>1, <2>2, <2>3
<1>6. next \in Seq(ToSet(next))
  <2>1. \A m \in 1 .. n : next[m] \in ToSet(next)
    BY <1>3 DEF ToSet
  <2> QED  BY <1>3, <1>14, <2>1
<1>7. ASSUME entry.key \notin Common(Here.one, Here.two)
      PROVE  SameTree /\ phase' = phase /\ protos' = protos /\ \E cs : cs = calls' /\ Passed(cs)
  <2>1. SameTree /\ phase' = phase /\ protos' = protos
    BY <1>4, <1>7 DEF SameTree
  <2>2. PICK cs : cs = calls' /\ cs = next
    BY <1>4, <1>7
  <2>3. Passes(cs)
    BY <1>0, <1>2, <1>3, <1>6, <2>2 DEF Passes
  <2>4. Passed(cs)
    BY <1>0, <1>3, <1>7, <2>2, <2>3 DEF Passed
  <2> QED  BY <2>1, <2>2, <2>4
<1>8. ASSUME entry.key \in Common(Here.one, Here.two)
      PROVE  Call(next, Child, ChildOfTwo)
  <2>1. AtKey(Data(Here.one), entry.key) = entry.val
    BY <1>1, <1>8, ChildIs
  <2> QED  BY <1>5, <1>8, <2>1 DEF Child, ChildOfTwo
<1>9. ASSUME entry.key \in Common(Here.one, Here.two), phase' = "merge"
      PROVE  SameTree /\ phase' = phase /\ protos' = protos /\ \E cs : cs = calls' /\ Passed(cs)
  <2> DEFINE g == [one |-> Child, two |-> ChildOfTwo, out |-> Both(Data(Child), Data(ChildOfTwo)), at |-> 1]
  <2>1. Call(next, Child, ChildOfTwo) /\ ChildOfTwo \in DOMAIN heap /\ ChildOfTwo.map = merged + 1
        /\ merged \in Nat
    BY <1>1, <1>8, <1>9, ChildIs DEF Inv, Heap
  <2>2. \A k \in Common(Child, ChildOfTwo) : k \in ToSet(KeyOrder)
    <3>1. \A i \in DOMAIN Data(ChildOfTwo) : Data(ChildOfTwo)[i].key \in ToSet(KeyOrder)
      BY <1>1, <2>1, PendingIs
    <3> QED  BY <3>1 DEF Common, KeysOf
  <2>3. /\ \A k \in Common(Child, ChildOfTwo) : Checked(Child, ChildOfTwo, k) = "ok"
        /\ calls' = Append(next, g) /\ SameTree /\ phase' = phase
    BY <1>1, <1>9, <2>1, <2>2, AllChecked
  <2>4. protos' = protos
    BY <1>9, <2>1, CheckIs DEF Call, Fail, Checked
  <2>5. g = [one |-> Child, two |-> ChildOfTwo, out |-> Both(Data(Child), Data(ChildOfTwo)), at |-> 1]
    OBVIOUS
  <2> HIDE DEF g
  <2>6. PICK cs : cs = calls' /\ cs = Append(next, g)
    BY <2>3
  <2>7. Len(cs) = n + 1 /\ cs[n + 1] = g /\ (\A m \in 1 .. n : cs[m] = next[m]) /\ DOMAIN cs = 1 .. (n + 1)
    BY <1>2, <1>3, <1>6, <2>6
  <2>8. cs \in Seq(ToSet(cs))
    <3>1. cs = [m \in 1 .. (n + 1) |-> cs[m]]
      BY <1>2, <1>3, <1>6, <2>6
    <3>2. \A m \in 1 .. (n + 1) : cs[m] \in ToSet(cs)
      BY <2>7 DEF ToSet
    <3> QED  BY <1>2, <3>1, <3>2
  <2>9. Passes(cs)
    BY <1>0, <1>2, <1>3, <2>7, <2>8 DEF Passes
  <2>10. Passed(cs)
    BY <1>0, <1>9, <2>3, <2>5, <2>7, <2>9 DEF Passed
  <2> QED  BY <2>3, <2>4, <2>6, <2>10
<1>10. MergeEntry => phase' = phase \/ entry.key \in Common(Here.one, Here.two)
  BY <1>4
<1> QED  BY <1>1, <1>7, <1>8, <1>9, <1>10

LEMMA MergeEntryInv == ASSUME Inv, MergeEntry PROVE Inv'
<1> DEFINE n == Len(calls)
           entry == Here.out[Here.at]
<1>1. phase = "merge" /\ calls # <<>> /\ Here.at <= Len(Here.out)
  BY EntryCalls
<1>2. n \in Nat \ {0} /\ Here = calls[n] /\ At(calls, n) /\ n \in 1 .. n
  BY <1>1, StackIs
<1>0. n = Len(calls)
  OBVIOUS
<1>3. CASE phase' # "merge"
  BY <1>1, <1>3, EntryCalls, CallFails
<1>4. CASE phase' = "merge"
  <2>1. SameTree /\ phase' = phase
    BY <1>4, EntryCalls
  <2>2. PICK cs : cs = calls' /\ Passed(cs)
    BY <1>4, EntryCalls
  <2>3. Passes(cs) /\ cs \in Seq(ToSet(cs)) /\ Len(cs) \in {n, n + 1}
    BY <2>2 DEF Passed, Passes
  <2> HIDE DEF n
  <2>4. CASE entry.key \notin Common(Here.one, Here.two)
    <3>1. Len(cs) = n /\ ~(Len(cs) > Len(calls))
      BY <1>0, <1>2, <2>2, <2>4 DEF Passed
    <3>2. \A m \in 1 .. n : Merges(cs[m]) /\ At(cs, m)
      BY <1>0, <1>1, <2>3, <3>1, PassesStack
    <3>3. Stack(cs)'
      BY <2>1, <2>3, <3>1, <3>2, SameMerges, SameAt DEF Stack
    <3> QED  BY <1>1, <2>1, <2>2, <2>3, <3>3, StackIs, PassesReach, SameMaps DEF Inv, Calls, SameTree
  <2>5. CASE entry.key \in Common(Here.one, Here.two)
    <3> DEFINE g == [one |-> Child, two |-> ChildOfTwo, out |-> Both(Data(Child), Data(ChildOfTwo)), at |-> 1]
    <3>1. /\ Child \in DOMAIN heap /\ Child.map <= merged /\ Child.path = Append(Here.one.path, entry.key)
          /\ ChildOfTwo \in DOMAIN heap /\ ChildOfTwo.map = merged + 1 /\ ChildOfTwo.path = Child.path
      BY <1>1, <2>5, ChildIs
    <3>2. /\ Len(cs) = n + 1 /\ cs[n + 1] = g
          /\ \A k \in Common(Child, ChildOfTwo) : Checked(Child, ChildOfTwo, k) = "ok"
      BY <1>0, <2>2, <2>5 DEF Passed
    <3>3. Known(Child) /\ ~Touched(calls, Child) /\ Child # Root
      <4>1. ~Touched(calls, Child)
        BY <1>1, <3>1, ChildUntouched
      <4>2. Child # Root
        <5>1. source \in Sources /\ Child \in DOMAIN source.heap
          BY <3>1 DEF Inv, Heap
        <5>2. Child.map \in 1 .. source.maps
          BY <5>1, SourceIs
        <5> QED  BY <5>2, RootIs
      <4> QED  BY <3>1, <4>1, <4>2 DEF Known
    <3>4. Merges(g)
      BY <1>1, <3>1, <3>2, <3>3, NewCall, StackIs
    <3>5. g.one = Child /\ DOMAIN g = {"one", "two", "out", "at"}
      OBVIOUS
    <3> HIDE DEF g
    <3>6. \A m \in 1 .. n : Merges(cs[m]) /\ At(cs, m)
      BY <1>0, <1>1, <2>3, <2>5, <3>2, <3>5, PassesStack DEF Child
    <3>7. At(cs, n + 1)
      <4>1. Len(Here.one.path) = n - 1 /\ (\A m \in 1 .. (n - 1) : Here.one.path[m] = Key(calls, m))
            /\ Here.one.path \in Seq(STRING)
        <5>1. Len(calls[n].one.path) = n - 1 /\ \A m \in 1 .. (n - 1) : calls[n].one.path[m] = Key(calls, m)
          BY <1>2 DEF At
        <5>2. calls[n].one.path \in Seq(STRING)
          BY <1>0, <1>1, <1>2, StackIs
        <5> QED  BY <1>2, <5>1, <5>2
      <4>2. Len(Child.path) = n /\ Child.path[n] = entry.key
            /\ \A m \in 1 .. (n - 1) : Child.path[m] = Key(calls, m)
        <5>1. Child.path = Append(Here.one.path, entry.key)
          BY <3>1
        <5> QED  BY <1>2, <4>1, <5>1
      <4>3. \A m \in 1 .. n : Child.path[m] = Key(cs, m)
        <5>1. \A m \in 1 .. n : m = n \/ (m < n /\ m \in 1 .. (n - 1))
          BY <1>2
        <5>2. Key(cs, n) = entry.key /\ \A m \in 1 .. n : m < n => Key(cs, m) = Key(calls, m)
          BY <1>0, <1>1, <2>3, PassesKey
        <5> QED  BY <4>2, <5>1, <5>2
      <4>4. n + 1 - 1 = n /\ ~(n + 1 < Len(cs)) /\ n + 1 # 1
        BY <1>2, <3>2
      <4> QED  BY <3>2, <3>3, <3>5, <4>2, <4>3, <4>4 DEF At
    <3>8. Stack(cs)'
      <4>1. \A m \in 1 .. (n + 1) : m \in 1 .. n \/ m = n + 1
        BY <1>2
      <4>2. \A m \in 1 .. Len(cs) : Merges(cs[m]) /\ At(cs, m)
        BY <3>2, <3>4, <3>6, <3>7, <4>1
      <4> QED  BY <2>1, <2>3, <4>2, SameMerges, SameAt DEF Stack
    <3>9. Calls'
      BY <1>1, <2>1, <2>2, <3>8, StackIs DEF Calls, SameTree
    <3>10. Reach'
      BY <1>1, <2>1, <2>2, <2>3, PassesReach
    <3> QED  BY <1>1, <2>1, <3>9, <3>10, SameMaps DEF Inv
  <2> QED  BY <2>4, <2>5
<1> QED  BY <1>3, <1>4
-----------------------------------------------------------------------------
(* A struct of the tree is written. *)

LEMMA WriteIs ==
  ASSUME Heap, Maps, source' = source, NEW t, Place(t), NEW data, Write(t, data),
         EntriesAt(source.heap, data, t.path)
  PROVE  /\ DOMAIN heap' = DOMAIN heap /\ \A c \in DOMAIN heap : c # t => heap'[c] = heap[c]
         /\ \A c \in DOMAIN heap : DOMAIN heap'[c] = {"type", "data"} /\ heap'[c].type = heap[c].type
         /\ \A c : Place(c)' = Place(c)
         /\ \A c : Place(c) => Data(c)' = IF c = t THEN data ELSE Data(c)
         /\ Maps'
<1>1. \A c \in DOMAIN heap : DOMAIN heap[c] = {"type", "data"}
  BY DEF Heap
<1>2. CASE t = Root
  <2>1. heap' = heap /\ cfg_data' = data
    BY <1>2 DEF Write
  <2>2. \A c : Place(c) => Data(c)' = IF c = t THEN data ELSE Data(c)
    BY <1>2, <2>1 DEF Data
  <2>3. \A c : Place(c)' = Place(c)
    BY <2>1 DEF Place
  <2> QED  BY <1>1, <2>1, <2>2, <2>3 DEF Maps
<1>3. CASE t # Root
  <2> DEFINE new == [heap[t] EXCEPT !.data = data]
  <2>1. t \in DOMAIN heap /\ heap' = [heap EXCEPT ![t] = new] /\ cfg_data' = cfg_data
    BY <1>3 DEF Place, Write
  <2>2. DOMAIN new = {"type", "data"} /\ new.type = heap[t].type /\ new.data = data
    BY <1>1, <2>1
  <2> HIDE DEF new
  <2>3. /\ DOMAIN heap' = DOMAIN heap /\ \A c \in DOMAIN heap : c # t => heap'[c] = heap[c]
        /\ heap'[t] = new
    BY <2>1
  <2>4. \A c : Place(c)' = Place(c)
    BY <2>3 DEF Place
  <2>5. ASSUME NEW c, Place(c) PROVE Data(c)' = IF c = t THEN data ELSE Data(c)
    BY <1>3, <2>1, <2>2, <2>3, <2>5 DEF Data, Place
  <2>6. Maps'
    BY <2>4, <2>5 DEF Maps
  <2> QED  BY <1>1, <2>2, <2>3, <2>4, <2>5, <2>6
<1> QED  BY <1>2, <1>3

LEMMA KeptMerges ==
  ASSUME source' = source, DOMAIN heap' = DOMAIN heap, merged' = merged, NEW f, Merges(f),
         Data(f.one)' = Data(f.one), Data(f.two)' = Data(f.two)
  PROVE  Merges(f)'
<1>1. \A k : Checked(f.one, f.two, k)' = Checked(f.one, f.two, k)
  BY DEF Checked, AtKey
<1>2. Common(f.one, f.two)' = Common(f.one, f.two)
  BY DEF Common, KeysOf
<1>3. \A k : AtKey(Data(f.one), k)' = AtKey(Data(f.one), k)
  BY DEF AtKey
<1>4. Known(f.one)'
  BY DEF Merges, Known
<1> QED  BY <1>1, <1>2, <1>3, <1>4 DEF Merges

(* The call at work returns to the one that waits for it. *)
LEMMA TargetIs ==
  ASSUME Inv, phase = "merge", calls # <<>>
  PROVE  Target = Here.one /\ Known(Here.one)
<1> DEFINE n == Len(calls)
<1>1. n \in Nat \ {0} /\ Here = calls[n] /\ Merges(calls[n]) /\ At(calls, n)
  BY StackIs
<1>2. Known(Here.one)
  BY <1>1 DEF Merges
<1>3. CASE n = 1
  BY <1>1, <1>2, <1>3 DEF At, Target
<1>4. CASE n # 1
  <2>1. n - 1 \in 1 .. n /\ n - 1 < n /\ n - 1 + 1 = n
    <3>1. n \in Nat \ {0, 1}
      BY <1>1, <1>4
    <3> HIDE DEF n
    <3> QED  BY <3>1
  <2>2. At(calls, n - 1)
    BY <2>1, StackIs
  <2>3. calls[n].one = calls[n - 1].out[calls[n - 1].at - 1].val.cell
    BY <2>1, <2>2 DEF At
  <2> QED  BY <1>1, <1>2, <1>4, <2>3 DEF Target
<1> QED  BY <1>3, <1>4

LEMMA FrontIs ==
  ASSUME NEW S, NEW s \in Seq(S), Len(s) # 0
  PROVE  /\ Front(s) \in Seq(ToSet(Front(s))) /\ Len(Front(s)) = Len(s) - 1
         /\ \A m \in 1 .. (Len(s) - 1) : Front(s)[m] = s[m]
         /\ Len(s) = 1 => Front(s) = <<>>
<1> DEFINE n == Len(s)
           t == Front(s)
<1>1. n \in Nat \ {0}
  OBVIOUS
<1>2. t = [m \in 1 .. (n - 1) |-> s[m]]
  BY DEF Front
<1> HIDE DEF t, n
<1>3. n - 1 \in Nat
  BY <1>1
<1>4. DOMAIN t = 1 .. (n - 1) /\ \A m \in 1 .. (n - 1) : t[m] = s[m]
  BY <1>2
<1>5. \A m \in 1 .. (n - 1) : t[m] \in ToSet(t)
  BY <1>4 DEF ToSet
<1>6. t \in Seq(ToSet(t)) /\ Len(t) = n - 1
  BY <1>2, <1>3, <1>4, <1>5
<1>7. n = 1 => t = <<>>
  BY <1>6
<1> QED  BY <1>4, <1>6, <1>7 DEF n, t

LEMMA TouchedReturns ==
  ASSUME Inv, phase = "merge", Len(calls) > 1, NEW cs, Len(cs) = Len(calls) - 1,
         \A m \in 1 .. (Len(calls) - 1) : cs[m] = calls[m],
         NEW c, c.path \in Seq(STRING), Touched(calls, c) \/ (c.path = Here.one.path)
  PROVE  Touched(cs, c)
<1> DEFINE n == Len(calls)
<1>1. calls # <<>>
  OBVIOUS
<1>2. n \in Nat \ {0, 1} /\ n - 1 \in 1 .. n /\ n - 1 < n /\ Here = calls[n] /\ n - 1 \in 1 .. (n - 1)
      /\ Len(cs) = n - 1
  <2>1. n \in Nat \ {0, 1} /\ Here = calls[n] /\ Len(cs) = n - 1
    BY <1>1, StackIs
  <2> HIDE DEF n
  <2>2. n - 1 \in 1 .. n /\ n - 1 < n /\ n - 1 \in 1 .. (n - 1)
    BY <2>1
  <2> QED  BY <2>1, <2>2
<1>3. At(calls, n - 1) /\ At(calls, n) /\ calls[n - 1].at \in Nat
  BY <1>1, <1>2, StackIs
<1>4. cs[n - 1] = calls[n - 1]
  BY <1>2
<1>5. calls[n - 1].at > 1
  BY <1>2, <1>3 DEF At
<1>6. calls[n - 1].at - 1 \in 1 .. (cs[n - 1].at - 1)
  BY <1>3, <1>4, <1>5
<1>7. \A m \in 1 .. (n - 1) : Key(cs, m) = Key(calls, m)
  BY DEF Key
(* At or below the struct that has been merged. *)
<1>8. ASSUME Len(c.path) >= n - 1, \A m \in 1 .. (n - 1) : c.path[m] = Key(calls, m)
      PROVE  Touched(cs, c)
  <2>1. \A m \in 1 .. (n - 1) : c.path[m] = Key(cs, m)
    BY <1>7, <1>8
  <2>2. c.path[n - 1] = cs[n - 1].out[calls[n - 1].at - 1].key
    BY <1>2, <1>4, <2>1 DEF Key
  <2>3. \A m \in 1 .. (n - 1 - 1) : c.path[m] = Key(cs, m)
    BY <1>2, <2>1
  <2>4. n - 1 \in 1 .. Len(cs) /\ ~(n - 1 < Len(cs)) /\ n - 1 <= Len(c.path)
    BY <1>2, <1>8
  <2> QED  BY <1>6, <2>2, <2>3, <2>4 DEF Touched
<1>9. CASE c.path = Here.one.path
  BY <1>2, <1>3, <1>8, <1>9 DEF At
<1>10. CASE Touched(calls, c)
  <2>1. PICK k \in 1 .. n : \E j \in 1 .. (calls[k].at - 1) :
          /\ k < n => j # calls[k].at - 1
          /\ k <= Len(c.path) /\ c.path[k] = calls[k].out[j].key
          /\ \A m \in 1 .. (k - 1) : c.path[m] = Key(calls, m)
    BY <1>10 DEF Touched
  <2>2. CASE k = n
    <3>1. n <= Len(c.path) /\ \A m \in 1 .. (n - 1) : c.path[m] = Key(calls, m)
      BY <2>1, <2>2
    <3>2. Len(c.path) >= n - 1
      <4> HIDE DEF n
      <4> QED  BY <1>2, <3>1
    <3> QED  BY <1>8, <3>1, <3>2
  <2>3. CASE k # n
    <3>1. k \in 1 .. (n - 1) /\ k < n /\ k \in 1 .. Len(cs) /\ \A m \in 1 .. (k - 1) : m \in 1 .. (n - 1)
      BY <1>2, <2>3
    <3>2. cs[k] = calls[k] /\ \A m \in 1 .. (k - 1) : Key(cs, m) = Key(calls, m)
      BY <1>7, <3>1
    <3>3. PICK j \in 1 .. (calls[k].at - 1) :
            /\ j # calls[k].at - 1
            /\ k <= Len(c.path) /\ c.path[k] = calls[k].out[j].key
            /\ \A m \in 1 .. (k - 1) : c.path[m] = Key(calls, m)
      BY <2>1, <3>1
    <3> QED  BY <3>1, <3>2, <3>3 DEF Touched
  <2> QED  BY <2>2, <2>3
<1> QED  BY <1>9, <1>10
LEMMA ReturnMergedInv == ASSUME Inv, ReturnMerged PROVE Inv'
<1> DEFINE n == Len(calls)
           t == Here.one
           out == Here.out
<1>1. phase = "merge" /\ calls # <<>> /\ Write(Target, out) /\ calls' = Front(calls)
      /\ merged' = (IF n = 1 THEN merged + 1 ELSE merged) /\ phase' = phase /\ source' = source
  BY DEF ReturnMerged, Merging
<1>2. n \in Nat \ {0} /\ calls \in Seq(ToSet(calls)) /\ Here = calls[n] /\ merged < source.maps
      /\ Merges(Here) /\ At(calls, n) /\ t.path \in Seq(STRING) /\ n \in 1 .. n
  BY <1>1, StackIs
<1>3. Target = t /\ Known(t) /\ Place(t)
  BY <1>1, TargetIs DEF Known, Place
<1>4. EntriesAt(source.heap, out, t.path)
      /\ \A i \in DOMAIN out : isStructLike(out[i].val) => out[i].val.cell.map <= merged + 1
  BY <1>2, SMTT(30) DEF Merges
<1>5. merged \in Nat /\ source.maps \in Nat
  BY SourcesAssumption DEF Inv, Heap
<1> HIDE DEF t, out, n
<1>6. /\ DOMAIN heap' = DOMAIN heap /\ \A c \in DOMAIN heap : c # t => heap'[c] = heap[c]
      /\ \A c \in DOMAIN heap : DOMAIN heap'[c] = {"type", "data"} /\ heap'[c].type = heap[c].type
      /\ \A c : Place(c)' = Place(c)
      /\ \A c : Place(c) => Data(c)' = IF c = t THEN out ELSE Data(c)
      /\ Maps'
  BY <1>1, <1>3, <1>4, WriteIs DEF Inv
<1>7. merged' \in Nat /\ merged' <= source.maps /\ merged' >= merged
  BY <1>1, <1>2, <1>5
<1>8. Heap'
  <2>1. \A c \in DOMAIN heap : heap[c].type = source.heap[c].type
    BY DEF Inv, Heap
  <2> QED  BY <1>1, <1>6, <1>7, <2>1 DEF Inv, Heap
<1>9. \A c : Place(c) => c.map \in Nat /\ c.path \in Seq(STRING)
  BY PlaceIs DEF Inv
<1>10. t.map \in Nat /\ t.map <= merged
  BY <1>3, <1>5, <1>9, RootIs DEF Known
<1>11. PendingMapsKept'
  <2>1. ASSUME NEW c \in DOMAIN heap, c.map > merged' PROVE heap'[c] = source.heap[c]
    <3>1. c.map \in Nat /\ c.map > merged /\ c # t
      BY <1>5, <1>7, <1>9, <1>10, <2>1 DEF Place
    <3> QED  BY <1>6, <3>1 DEF Inv, PendingMapsKept
  <2> QED  BY <1>1, <1>6, <2>1 DEF PendingMapsKept
(* What a struct-like in the tree leads to is a place. *)
<1>12. ASSUME NEW c, Place(c), NEW i \in DOMAIN Data(c), isStructLike(Data(c)[i].val)
       PROVE  Data(c)[i].val.cell.map \in Nat
  BY <1>9, <1>12, Below DEF Inv, Place
<1>13. \A i \in DOMAIN out : isStructLike(out[i].val) => out[i].val.cell.map \in Nat
  BY <1>4, <1>9 DEF EntriesAt, Place, Inv, Heap
<1>14. CASE n = 1
  <2>1. merged' = merged + 1 /\ calls' = <<>>
    BY <1>1, <1>2, <1>14, FrontIs DEF n
  <2>2. Calls'
    BY <2>1 DEF Calls, Stack
  <2>3. ASSUME NEW c, Known(c)', NEW i \in DOMAIN (Data(c)'), isStructLike(Data(c)'[i].val)
        PROVE  Data(c)'[i].val.cell.map <= merged'
    <3>1. Place(c)
      BY <1>6, <2>3 DEF Known, Place
    <3>2. CASE c = t
      <4>1. Data(c)' = out
        BY <1>6, <3>1, <3>2
      <4> QED  BY <1>4, <2>1, <2>3, <4>1
    <3>3. CASE c # t
      <4>1. Data(c)' = Data(c)
        BY <1>6, <3>1, <3>3
      <4>2. CASE Known(c)
        <5>1. \/ Data(c)[i].val.cell.map <= merged
              \/ Data(c)[i].val.cell.map = merged + 1
          BY <1>1, <2>3, <4>1, <4>2 DEF Inv, Reach
        <5>2. Data(c)[i].val.cell.map \in Nat
          BY <1>12, <2>3, <3>1, <4>1
        <5> QED  BY <1>5, <2>1, <4>1, <5>1, <5>2
      <4>3. CASE ~Known(c)
        <5>1. c \in DOMAIN heap /\ c.map <= merged + 1 /\ c.map > merged
          <6>1. c \in DOMAIN heap /\ c.map <= merged + 1 /\ ~(c.map <= merged)
            BY <1>6, <2>1, <2>3, <4>3 DEF Known
          <6>2. c.map \in Nat
            BY <1>9, <3>1
          <6> QED  BY <1>5, <6>1, <6>2
        <5>2. Data(c)[i].val.cell.map = c.map
          BY <1>1, <2>3, <4>1, <5>1, PendingIs
        <5> QED  BY <2>1, <4>1, <5>1, <5>2
      <4> QED  BY <4>2, <4>3
    <3> QED  BY <3>2, <3>3
  <2>4. Reach'
    BY <2>3 DEF Reach
  <2> QED  BY <1>6, <1>8, <1>11, <2>2, <2>4 DEF Inv
<1>15. CASE n # 1
  <2>1. merged' = merged /\ n - 1 \in Nat /\ n > 1
    BY <1>1, <1>2, <1>15
  <2>2. PICK cs : cs = calls' /\ cs = Front(calls)
    BY <1>1
  <2>3. cs \in Seq(ToSet(cs)) /\ Len(cs) = n - 1 /\ \A m \in 1 .. (n - 1) : cs[m] = calls[m]
    <3>1. Len(calls) # 0
      BY <1>2 DEF n
    <3> QED  BY <1>2, <2>2, <3>1, FrontIs DEF n
  <2>4. \A c : c.path \in Seq(STRING) /\ (Touched(calls, c) \/ c.path = t.path) => Touched(cs, c)
    BY <1>1, <2>1, <2>3, TouchedReturns DEF n, t
  <2>5. \A c : Touched(cs, c) => Touched(calls, c)'
    BY <2>2 DEF Touched, Key
  <2>6. \A c : Known(c)' = Known(c)
    BY <1>6, <2>1 DEF Known
  <2>7. ASSUME NEW c, Known(c)', NEW i \in DOMAIN (Data(c)'), isStructLike(Data(c)'[i].val)
        PROVE  \/ Data(c)'[i].val.cell.map <= merged
               \/ Data(c)'[i].val.cell.map = merged + 1 /\ Touched(cs, c)
    <3>1. Place(c) /\ c.path \in Seq(STRING)
      BY <1>6, <1>9, <2>7 DEF Known, Place
    <3>2. CASE c = t
      <4>1. Data(c)' = out
        BY <1>6, <3>1, <3>2
      <4>2. out[i].val.cell.map <= merged + 1 /\ out[i].val.cell.map \in Nat
        BY <1>4, <1>13, <2>7, <4>1
      <4>3. Touched(cs, c)
        BY <2>4, <3>1, <3>2
      <4> QED  BY <1>5, <4>1, <4>2, <4>3
    <3>3. CASE c # t
      <4>1. Data(c)' = Data(c)
        BY <1>6, <3>1, <3>3
      <4>2. \/ Data(c)[i].val.cell.map <= merged
            \/ Data(c)[i].val.cell.map = merged + 1 /\ Touched(calls, c)
        BY <1>1, <2>6, <2>7, <4>1 DEF Inv, Reach
      <4> QED  BY <2>4, <3>1, <4>1, <4>2
    <3> QED  BY <3>2, <3>3
  <2>8. Reach'
    BY <2>1, <2>5, <2>7 DEF Reach
  <2>9. ASSUME NEW m \in 1 .. (n - 1)
        PROVE  /\ Merges(cs[m])' /\ At(calls, m) /\ m \in 1 .. n /\ m < n
               /\ Common(cs[m].one, cs[m].two)' = Common(cs[m].one, cs[m].two)
    <3>1. m \in 1 .. n /\ m < n /\ m - 1 # n - 1
      BY <1>2
    <3>2. cs[m] = calls[m] /\ Merges(cs[m]) /\ At(calls, m)
      BY <1>1, <2>3, <3>1, StackIs DEF n
    <3>3. PICK f : f = cs[m]
      OBVIOUS
    <3>4. Place(f.one) /\ f.one # t
      <4>1. Len(f.one.path) = m - 1 /\ Len(t.path) = n - 1
        BY <1>2, <3>2, <3>3 DEF At, t
      <4> QED  BY <3>1, <3>2, <3>3, <4>1 DEF Merges, Known, Place
    <3>5. Place(f.two) /\ f.two # t
      <4>1. f.two \in DOMAIN heap /\ f.two.map = merged + 1
        BY <3>2, <3>3 DEF Merges
      <4> QED  BY <1>5, <1>10, <4>1 DEF Place
    <3>6. Data(f.one)' = Data(f.one) /\ Data(f.two)' = Data(f.two)
      BY <1>6, <3>4, <3>5
    <3>7. Merges(f)'
      BY <1>1, <1>6, <2>1, <3>2, <3>3, <3>6, KeptMerges
    <3>8. Common(f.one, f.two)' = Common(f.one, f.two)
      BY <3>6 DEF Common, KeysOf
    <3> QED  BY <3>1, <3>2, <3>3, <3>7, <3>8
  <2>10. ASSUME NEW m \in 1 .. (n - 1) PROVE At(cs, m)'
    <3>1. \A l \in 1 .. (n - 1) : Key(cs, l)' = Key(calls, l)
      BY <2>3 DEF Key
    <3>2. \A l \in 1 .. (m - 1) : Key(cs, l)' = Key(calls, l)
      <4>1. \A l \in 1 .. (m - 1) : l \in 1 .. (n - 1)
        BY <1>2
      <4> QED  BY <3>1, <4>1
    <3>3. At(calls, m) /\ m < Len(calls) /\ cs[m] = calls[m]
      BY <2>3, <2>9 DEF n
    <3>4. m < Len(cs) => cs[m + 1] = calls[m + 1]
      BY <2>3
    <3>5. Common(cs[m].one, cs[m].two)' = Common(cs[m].one, cs[m].two)
      BY <2>9
    <3> QED  BY <3>2, <3>3, <3>4, <3>5 DEF At
  <2>11. Stack(cs)'
    BY <2>3, <2>9, <2>10 DEF Stack
  <2>12. Calls'
    BY <1>1, <1>2, <2>1, <2>2, <2>11 DEF Calls
  <2> QED  BY <1>6, <1>8, <1>11, <2>8, <2>12 DEF Inv
<1> QED  BY <1>14, <1>15
-----------------------------------------------------------------------------
(* Overrides and protos. *)

NestErrors == {"ok", "InvalidKeyException", "InvalidTypeException"}
Nested == [error : NestErrors, cell : {Root} \cup DOMAIN heap]

NestFold(g, ks, D) ==
  g = [s \in SUBSET D |-> IF s = {} THEN Ok(Root) ELSE Nest(g[s \ {Max(s)}], ks[Max(s)])]

LEMMA NestIsFold ==
  ASSUME NEW ks
  PROVE  FoldLeft(Nest, Ok(Root), ks) = (CHOOSE g : NestFold(g, ks, DOMAIN ks))[DOMAIN ks]
BY Zenon DEF NestFold, FoldLeft, MapThenFoldSet

LEMMA NestIs ==
  ASSUME Heap, Maps, NEW at \in Nested, NEW k
  PROVE  /\ Nest(at, k) \in Nested
         /\ Nest(at, k).error = "ok" => at.error = "ok" /\ Nest(at, k).cell.path = Append(at.cell.path, k)
<1>1. Place(at.cell) /\ at.error \in NestErrors /\ at.cell \in {Root} \cup DOMAIN heap
  BY DEF Nested, Place
<1>2. EntriesAt(source.heap, Data(at.cell), at.cell.path)
  BY <1>1 DEF Maps
<1>3. CASE at.error # "ok"
  BY <1>3 DEF Nest
<1>4. CASE at.error = "ok" /\ k \notin KeysOf(Data(at.cell))
  <2>1. Nest(at, k) = [at EXCEPT !.error = "InvalidKeyException"]
    BY <1>4 DEF Nest
  <2> QED  BY <2>1 DEF Nested, NestErrors
<1>5. CASE at.error = "ok" /\ k \in KeysOf(Data(at.cell)) /\ ~isStructLike(AtKey(Data(at.cell), k))
  <2>1. Nest(at, k) = [at EXCEPT !.error = "InvalidTypeException"]
    BY <1>5 DEF Nest
  <2> QED  BY <2>1 DEF Nested, NestErrors
<1>6. CASE at.error = "ok" /\ k \in KeysOf(Data(at.cell)) /\ isStructLike(AtKey(Data(at.cell), k))
  <2> DEFINE d == AtKey(Data(at.cell), k).cell
  <2>1. Nest(at, k) = Ok(d)
    BY <1>6 DEF Nest
  <2>2. d \in DOMAIN heap /\ d.path = Append(at.cell.path, k)
    <3>1. PICK i \in DOMAIN Data(at.cell) :
            Data(at.cell)[i].key = k /\ AtKey(Data(at.cell), k) = Data(at.cell)[i].val
      BY <1>2, <1>6, AtKeyIs
    <3> QED  BY <1>1, <1>6, <3>1, Below
  <2> HIDE DEF d
  <2>3. Ok(d).error = "ok" /\ Ok(d).cell = d /\ Ok(d) \in Nested
    BY <2>2 DEF Ok, Nested, NestErrors
  <2> QED  BY <1>6, <2>1, <2>2, <2>3
<1> QED  BY <1>3, <1>4, <1>5, <1>6

LEMMA NestSteps ==
  ASSUME Heap, Maps, NEW ks \in Seq(STRING)
  PROVE  \E g : /\ g[1 .. 0] = Ok(Root) /\ \A k \in 0 .. Len(ks) : g[1 .. k] \in Nested
                /\ \A k \in 1 .. Len(ks) : g[1 .. k] = Nest(g[1 .. (k - 1)], ks[k])
                /\ FoldLeft(Nest, Ok(Root), ks) = g[1 .. Len(ks)]
<1> DEFINE n == Len(ks)
           V == Nested
           base == Ok(Root)
           F == [i \in 1 .. n |-> [at \in V |-> Nest(at, ks[i])]]
<1>1. n \in Nat /\ DOMAIN ks = 1 .. n /\ base \in V
  BY DEF Ok, Nested, NestErrors
<1>2. F \in [1 .. n -> [V -> V]]
  <2>1. ASSUME NEW i \in 1 .. n, NEW at \in V PROVE Nest(at, ks[i]) \in V
    BY NestIs
  <2> QED  BY <2>1
<1>3. PICK g0 : Steps(g0, V, base, n, F)
  <2> HIDE DEF F, V, n, base
  <2> QED  BY <1>1, <1>2, StepsExist
<1> HIDE DEF base
<1>4. ASSUME NEW s \in SUBSET (1 .. n)
      PROVE  g0[s] = IF s = {} THEN base ELSE Nest(g0[s \ {Max(s)}], ks[Max(s)])
  <2>1. CASE s = {}
    BY <1>3, <2>1 DEF Steps
  <2>2. CASE s # {}
    <3>1. Max(s) \in s
      BY <1>1, <2>2, MaxIn
    <3>2. s \ {Max(s)} \in SUBSET (1 .. n) /\ Max(s) \in 1 .. n
      BY <3>1
    <3>3. g0[s \ {Max(s)}] \in V
      BY <1>3, <3>2 DEF Steps
    <3> QED  BY <1>3, <2>2, <3>2, <3>3 DEF Steps
  <2> QED  BY <2>1, <2>2
<1> DEFINE g == CHOOSE f : NestFold(f, ks, 1 .. n)
<1>5. NestFold(g0, ks, 1 .. n)
  BY <1>3, <1>4 DEF Steps, NestFold, base
<1>6. NestFold(g, ks, 1 .. n)
  BY <1>5
<1>7. FoldLeft(Nest, Ok(Root), ks) = g[1 .. n]
  BY <1>1, NestIsFold
<1> HIDE DEF g, n
<1>8. \A s \in SUBSET (1 .. n) : g[s] = IF s = {} THEN Ok(Root) ELSE Nest(g[s \ {Max(s)}], ks[Max(s)])
  BY <1>6 DEF NestFold
<1>9. g[1 .. 0] = Ok(Root)
  <2>1. 1 .. 0 = {} /\ {} \in SUBSET (1 .. n)
    OBVIOUS
  <2> QED  BY <1>8, <2>1
<1>10. ASSUME NEW k \in 1 .. n PROVE g[1 .. k] = Nest(g[1 .. (k - 1)], ks[k])
  <2>1. k \in Nat \ {0} /\ (1 .. k) \in SUBSET (1 .. n)
    BY <1>1
  <2>2. 1 .. k # {} /\ Max(1 .. k) = k /\ (1 .. k) \ {k} = 1 .. (k - 1)
    BY <2>1, InitialSegment
  <2> QED  BY <1>8, <2>1, <2>2
<1>11. \A k \in 0 .. n : g[1 .. k] \in Nested
  <2> DEFINE T == {k \in Nat : k <= n /\ g[1 .. k] \notin Nested}
  <2>1. ASSUME NEW k \in T, \A j \in T : k <= j PROVE FALSE
    <3>1. CASE k = 0
      BY <1>1, <1>9, <3>1 DEF base
    <3>2. CASE k # 0
      <4>1. k - 1 \in Nat /\ k - 1 <= n /\ k - 1 \notin T /\ k \in 1 .. n
        BY <1>1, <2>1, <3>2
      <4>2. g[1 .. (k - 1)] \in Nested
        BY <4>1
      <4>3. g[1 .. k] \in Nested
        BY <1>10, <4>1, <4>2, NestIs
      <4> QED  BY <4>3
    <3> QED  BY <3>1, <3>2
  <2>2. \A k \in 0 .. n : k \notin T
    <3> HIDE DEF T
    <3>1. T = {}
      <4>1. T \in SUBSET Nat
        BY DEF T
      <4> QED  BY <2>1, <4>1, LeastNumber
    <3> QED  BY <3>1
  <2>3. \A k \in 0 .. n : k \in Nat /\ k <= n
    BY <1>1
  <2> QED  BY <2>2, <2>3
<1> QED  BY <1>7, <1>9, <1>10, <1>11 DEF n

LEMMA NestedIs ==
  ASSUME Heap, Maps, NEW keys, Front(keys) \in Seq(STRING)
  PROVE  getNestedConfig(keys) \in Nested
<1>1. PICK g : /\ \A k \in 0 .. Len(Front(keys)) : g[1 .. k] \in Nested
               /\ FoldLeft(Nest, Ok(Root), Front(keys)) = g[1 .. Len(Front(keys))]
  BY NestSteps
<1> QED  BY <1>1 DEF getNestedConfig, Found

LEMMA WithIs ==
  ASSUME NEW h, NEW data, NEW path, EntriesAt(h, data, path), NEW k, NEW v, ~isStructLike(v)
  PROVE  EntriesAt(h, With(data, k, v), path) /\ KeysOf(With(data, k, v)) = KeysOf(data)
<1> DEFINE new == With(data, k, v)
           e == [key |-> k, val |-> v]
<1>1. Len(data) \in Nat /\ DOMAIN data = 1 .. Len(data)
      /\ (\A i, j \in DOMAIN data : data[i].key = data[j].key => i = j)
  BY DEF EntriesAt
<1>2. DOMAIN new = DOMAIN data /\ new = [i \in 1 .. Len(data) |-> new[i]]
      /\ \A i \in DOMAIN data : new[i] = IF data[i].key = k THEN e ELSE data[i]
  BY <1>1 DEF With
<1>3. e.key = k /\ e.val = v
  OBVIOUS
<1> HIDE DEF new, e
<1>4. \A i \in DOMAIN data : new[i].key = data[i].key /\ (isStructLike(new[i].val) => new[i] = data[i])
  BY <1>2, <1>3
<1>5. \A i \in 1 .. Len(data) : new[i] \in ToSet(new)
  BY <1>1, <1>2 DEF ToSet
<1>6. new \in Seq(ToSet(new))
  BY <1>1, <1>2, <1>5
<1>7. EntriesAt(h, new, path)
  <2>1. \A i, j \in DOMAIN new : new[i].key = new[j].key => i = j
    BY <1>1, <1>2, <1>4
  <2>2. ASSUME NEW i \in DOMAIN new, isStructLike(new[i].val)
        PROVE  LET c == new[i].val.cell
               IN  c \in DOMAIN h /\ c.path = Append(path, new[i].key) /\ h[c].type = new[i].val.type
    BY <1>2, <1>4, <2>2 DEF EntriesAt
  <2> QED  BY <1>6, <2>1, <2>2 DEF EntriesAt
<1>8. KeysOf(new) = KeysOf(data)
  <2>1. \A x \in KeysOf(new) : x \in KeysOf(data)
    BY <1>2, <1>4 DEF KeysOf
  <2>2. \A x \in KeysOf(data) : x \in KeysOf(new)
    BY <1>2, <1>4 DEF KeysOf
  <2> QED  BY <2>1, <2>2
<1> QED  BY <1>7, <1>8 DEF new

LEMMA SuffixIs ==
  ASSUME NEW S, NEW s \in Seq(S), NEW n, n = Len(s), NEW i \in 1 .. n
  PROVE  /\ SubSeq(s, i + 1, n) \in Seq(S) /\ Len(SubSeq(s, i + 1, n)) = n - i
         /\ \A j \in 1 .. (n - i) : SubSeq(s, i + 1, n)[j] = s[j + i]
<1>1. Len(SubSeq(s, i + 1, n)) = n - i
  OBVIOUS
<1>2. SubSeq(s, i + 1, n) \in Seq(S)
  OBVIOUS
<1>3. \A j \in 1 .. (n - i) : SubSeq(s, i + 1, n)[j] = s[j + i]
  OBVIOUS
<1> QED  BY <1>1, <1>2, <1>3

LEMMA EraseIs ==
  ASSUME NEW h, NEW data, NEW path, EntriesAt(h, data, path), NEW k \in KeysOf(data)
  PROVE  /\ EntriesAt(h, Erase(data, k), path)
         /\ \A i \in DOMAIN Erase(data, k) : Erase(data, k)[i] \in ToSet(data)
         /\ KeysOf(Erase(data, k)) = KeysOf(data) \ {k}
         /\ \A i, j \in DOMAIN Erase(data, k) : i < j =>
              \E a, b \in DOMAIN data : a < b /\ Erase(data, k)[i] = data[a] /\ Erase(data, k)[j] = data[b]
<1> DEFINE at == CHOOSE i \in DOMAIN data : data[i].key = k
           n == Len(data)
           p == SubSeq(data, 1, at - 1)
           q == SubSeq(data, at + 1, n)
           new == Erase(data, k)
           S == ToSet(data)
<1>1. data \in Seq(S) /\ n \in Nat /\ DOMAIN data = 1 .. n
      /\ (\A i, j \in DOMAIN data : data[i].key = data[j].key => i = j)
  BY DEF EntriesAt
<1>2. at \in 1 .. n /\ data[at].key = k
  <2>1. \E i \in DOMAIN data : data[i].key = k
    BY DEF KeysOf
  <2> QED  BY <1>1, <2>1
<1>3. new = p \o q
  BY DEF Erase, RemoveAt
<1> HIDE DEF at, new, n, S
<1>4. p \in Seq(S) /\ Len(p) = at - 1 /\ \A i \in 1 .. (at - 1) : p[i] = data[i]
  BY <1>1, <1>2 DEF n
<1>5. q \in Seq(S) /\ Len(q) = n - at /\ \A i \in 1 .. (n - at) : q[i] = data[i + at]
  <2>1. n = Len(data)
    BY DEF n
  <2>2. data \in Seq(S) /\ at \in 1 .. n
    BY <1>1, <1>2
  <2> QED  BY <2>1, <2>2, SuffixIs
<1> HIDE DEF p, q
<1>6. Len(new) = n - 1 /\ new \in Seq(S) /\ DOMAIN new = 1 .. (n - 1)
  <2>1. new \in Seq(S) /\ Len(new) = Len(p) + Len(q)
    BY <1>3, <1>4, <1>5, ConcatType
  <2>2. Len(new) = n - 1
    BY <1>1, <1>2, <1>4, <1>5, <2>1
  <2> QED  BY <2>1, <2>2
<1>7. \A i \in 1 .. (n - 1) : new[i] = IF i < at THEN data[i] ELSE data[i + 1]
  <2>1. ASSUME NEW i \in 1 .. (n - 1), i < at PROVE new[i] = data[i]
    <3>1. i \in 1 .. Len(p) /\ i \in 1 .. (at - 1)
      BY <1>1, <1>2, <1>4, <2>1
    <3>2. (p \o q)[i] = p[i]
      BY <1>4, <1>5, <3>1
    <3> QED  BY <1>3, <1>4, <3>1, <3>2
  <2>2. ASSUME NEW i \in 1 .. (n - 1), ~(i < at) PROVE new[i] = data[i + 1]
    <3>1. i - (at - 1) \in 1 .. (n - at) /\ i - (at - 1) + at = i + 1 /\ i > Len(p) /\ i <= Len(p) + Len(q)
      BY <1>1, <1>2, <1>4, <1>5, <2>2
    <3>2. (p \o q)[i] = q[i - Len(p)]
      BY <1>4, <1>5, <3>1
    <3> QED  BY <1>3, <1>4, <1>5, <3>1, <3>2
  <2> QED  BY <2>1, <2>2
<1> DEFINE old(i) == IF i < at THEN i ELSE i + 1
<1>8. \A i \in 1 .. (n - 1) : old(i) \in 1 .. n /\ old(i) # at /\ new[i] = data[old(i)]
  BY <1>1, <1>2, <1>7
<1>9. \A i, j \in 1 .. (n - 1) : (old(i) = old(j) => i = j) /\ (i < j => old(i) < old(j))
  BY <1>1, <1>2
<1>10. \A j \in 1 .. n : j # at => \E i \in 1 .. (n - 1) : old(i) = j
  <2>1. ASSUME NEW j \in 1 .. n, j # at PROVE \E i \in 1 .. (n - 1) : old(i) = j
    <3>1. CASE j < at
      <4>1. j \in 1 .. (n - 1) /\ old(j) = j
        BY <1>1, <1>2, <2>1, <3>1
      <4> QED  BY <4>1
    <3>2. CASE ~(j < at)
      <4>1. j - 1 \in 1 .. (n - 1) /\ old(j - 1) = j
        BY <1>1, <1>2, <2>1, <3>2
      <4> QED  BY <4>1
    <3> QED  BY <3>1, <3>2
  <2> QED  BY <2>1
<1> HIDE DEF old
<1>11. \A i \in 1 .. (n - 1) : new[i] \in ToSet(data)
  BY <1>1, <1>8 DEF ToSet
<1>12. EntriesAt(h, new, path)
  <2>1. new \in Seq(ToSet(new))
    <3>1. \A i \in 1 .. (n - 1) : new[i] \in ToSet(new)
      BY <1>6 DEF ToSet
    <3>2. new = [i \in 1 .. (n - 1) |-> new[i]] /\ n - 1 \in Nat
      BY <1>1, <1>2, <1>6
    <3> QED  BY <3>1, <3>2
  <2>2. \A i, j \in DOMAIN new : new[i].key = new[j].key => i = j
    BY <1>1, <1>6, <1>8, <1>9
  <2>3. ASSUME NEW i \in DOMAIN new, isStructLike(new[i].val)
        PROVE  LET c == new[i].val.cell
               IN  c \in DOMAIN h /\ c.path = Append(path, new[i].key) /\ h[c].type = new[i].val.type
    <3>1. PICK j \in DOMAIN data : new[i] = data[j]
      BY <1>1, <1>6, <1>8
    <3> QED  BY <2>3, <3>1 DEF EntriesAt
  <2> QED  BY <2>1, <2>2, <2>3 DEF EntriesAt
<1>13. KeysOf(new) = KeysOf(data) \ {k}
  <2>1. ASSUME NEW x \in KeysOf(new) PROVE x \in KeysOf(data) \ {k}
    <3>1. PICK i \in DOMAIN new : new[i].key = x
      BY DEF KeysOf
    <3>2. old(i) \in DOMAIN data /\ data[old(i)].key = x /\ old(i) # at
      BY <1>1, <1>6, <1>8, <3>1
    <3> QED  BY <1>1, <1>2, <3>2 DEF KeysOf
  <2>2. ASSUME NEW x \in KeysOf(data) \ {k} PROVE x \in KeysOf(new)
    <3>1. PICK j \in DOMAIN data : data[j].key = x
      BY DEF KeysOf
    <3>2. j # at /\ j \in 1 .. n
      BY <1>1, <1>2, <2>2, <3>1
    <3>3. PICK i \in 1 .. (n - 1) : old(i) = j
      BY <1>10, <3>2
    <3>4. i \in DOMAIN new /\ new[i].key = x
      BY <1>6, <1>8, <3>1, <3>3
    <3> QED  BY <3>4 DEF KeysOf
  <2> QED  BY <2>1, <2>2
<1>14. \A i, j \in DOMAIN new : i < j => \E a, b \in DOMAIN data : a < b /\ new[i] = data[a] /\ new[j] = data[b]
  BY <1>1, <1>6, <1>8, <1>9
<1> QED  BY <1>6, <1>11, <1>12, <1>13, <1>14 DEF new

(* Once all maps are merged, a place is written.                           *)
LEMMA PlaceWritten ==
  ASSUME Inv, phase \in {"overrides", "strip"}, NEW t, Place(t), NEW data, Write(t, data),
         EntriesAt(source.heap, data, t.path),
         source' = source, merged' = merged, phase' = phase
  PROVE  Inv'
<1>1. merged = source.maps /\ phase # "merge"
  BY DEF Inv, Heap
<1>2. /\ DOMAIN heap' = DOMAIN heap
      /\ \A c \in DOMAIN heap : DOMAIN heap'[c] = {"type", "data"} /\ heap'[c].type = heap[c].type
      /\ Maps'
  BY WriteIs DEF Inv
<1>3. Heap'
  BY <1>1, <1>2 DEF Inv, Heap
<1>4. PendingMapsKept'
  <2>1. ASSUME NEW c \in DOMAIN heap, c.map > merged PROVE FALSE
    <3>1. source \in Sources /\ c \in DOMAIN source.heap
      BY SMTT(30) DEF Inv, Heap
    <3>2. c.map \in 1 .. source.maps /\ source.maps \in Nat
      BY <3>1, SourceIs, SourcesAssumption
    <3> QED  BY <1>1, <2>1, <3>2
  <2> QED  BY <1>2, <2>1 DEF PendingMapsKept
<1> QED  BY <1>1, <1>2, <1>3, <1>4 DEF Inv, Reach, Calls

Counts == applied \in Nat /\ applied <= Len(source.overrides)

LEMMA ApplyOverrideInv == ASSUME Inv, Counts, ApplyOverride PROVE Inv'
<1> DEFINE o == source.overrides[applied + 1]
           nested == getNestedConfig(o.key)
<1>1. CASE Fail("InvalidTypeException") \/ Fail("InvalidOverrideException")
  BY <1>1, FailInv
<1>2. CASE ~(Fail("InvalidTypeException") \/ Fail("InvalidOverrideException"))
  <2>1. Last(o.key) \in KeysOf(Data(nested.cell)) /\ phase = "overrides"
        /\ Write(nested.cell, With(Data(nested.cell), Last(o.key), o.val))
        /\ applied < Len(source.overrides)
        /\ UNCHANGED <<source, calls, merged, protos, phase>>
    BY <1>2 DEF ApplyOverride, Apply
  <2>2. o.key \in Seq(STRING) /\ ~isStructLike(o.val)
    <3>1. /\ source.overrides \in Seq(ToSet(source.overrides))
          /\ \A i \in DOMAIN source.overrides :
               source.overrides[i].key \in Seq(STRING) /\ ~isStructLike(source.overrides[i].val)
      BY SourcesAssumption DEF Inv, Heap
    <3>2. applied + 1 \in DOMAIN source.overrides
      BY <2>1, <3>1 DEF Counts
    <3> QED  BY <3>1, <3>2
  <2> HIDE DEF o
  <2>3. nested \in Nested
    BY <2>2, FrontOfAny, NestedIs DEF Inv
  <2> HIDE DEF nested
  <2>4. Place(nested.cell)
    BY <2>3 DEF Nested, Place
  <2>5. EntriesAt(source.heap, With(Data(nested.cell), Last(o.key), o.val), nested.cell.path)
    BY <2>2, <2>4, WithIs DEF Inv, Maps
  <2> QED  BY <2>1, <2>4, <2>5, PlaceWritten
<1> QED  BY <1>1, <1>2

LEMMA StripProtoInv == ASSUME Inv, StripProto, \A key \in protos : key \in Seq(STRING) PROVE Inv'
<1>1. phase = "strip"
  BY DEF StripProto
<1>2. PICK key \in protos :
        LET nested == getNestedConfig(key)
        IN  IF nested.error # "ok" THEN Fail(nested.error)
            ELSE IF Last(key) \notin KeysOf(Data(nested.cell)) THEN Fail("std::out_of_range")
            ELSE /\ Write(nested.cell, Erase(Data(nested.cell), Last(key)))
                 /\ protos' = protos \ {key}
                 /\ UNCHANGED <<source, calls, merged, applied, phase>>
  BY DEF StripProto
<1> DEFINE nested == getNestedConfig(key)
<1>3. nested \in Nested
  BY FrontOfAny, NestedIs DEF Inv
<1>4. /\ nested.error # "ok" => Fail(nested.error)
      /\ nested.error = "ok" /\ Last(key) \notin KeysOf(Data(nested.cell)) => Fail("std::out_of_range")
      /\ nested.error = "ok" /\ Last(key) \in KeysOf(Data(nested.cell)) =>
           /\ Write(nested.cell, Erase(Data(nested.cell), Last(key)))
           /\ UNCHANGED <<source, calls, merged, applied, phase>>
  BY <1>2
<1> HIDE DEF nested
<1>5. CASE nested.error # "ok"
  BY <1>3, <1>4, <1>5, FailInv DEF Nested, NestErrors
<1>6. CASE nested.error = "ok" /\ Last(key) \notin KeysOf(Data(nested.cell))
  BY <1>4, <1>6, FailInv
<1>7. CASE nested.error = "ok" /\ Last(key) \in KeysOf(Data(nested.cell))
  <2>1. Place(nested.cell)
    BY <1>3 DEF Nested, Place
  <2>2. EntriesAt(source.heap, Erase(Data(nested.cell), Last(key)), nested.cell.path)
    BY <1>7, <2>1, EraseIs DEF Inv, Maps
  <2> QED  BY <1>1, <1>4, <1>7, <2>1, <2>2, PlaceWritten
<1> QED  BY <1>5, <1>6, <1>7

-----------------------------------------------------------------------------
(* Every step preserves the invariant. *)

ProtosAre == protos \subseteq ProtoKeys

LEMMA CountsInit == Init => Counts /\ ProtosAre
<1> SUFFICES ASSUME Init PROVE Counts /\ ProtosAre
  OBVIOUS
<1>1. source.overrides \in Seq(ToSet(source.overrides)) /\ applied = 0 /\ protos = ProtoKeys
  BY SourcesAssumption, SMTT(30) DEF Init
<1> QED  BY <1>1 DEF Counts, ProtosAre

LEMMA CountsNext == ASSUME Inv, Counts, ProtosAre, [Next]_vars PROVE Counts' /\ ProtosAre'
<1>1. source.overrides \in Seq(ToSet(source.overrides))
  BY SourcesAssumption DEF Inv, Heap
<1>2. source' = source
  BY ZenonT(40) DEF Next, vars, MergeMap, MergeEntry, ReturnMerged, EndMerge, ApplyOverride, EndOverrides,
         StripProto, EndStrip, Finished, Call, Fail
<1>3. applied' = applied \/ (applied < Len(source.overrides) /\ applied' = applied + 1)
  BY ZenonT(40) DEF Next, vars, MergeMap, MergeEntry, ReturnMerged, EndMerge, ApplyOverride, EndOverrides,
         StripProto, EndStrip, Finished, Call, Fail
<1>4. Counts'
  BY <1>1, <1>2, <1>3 DEF Counts
<1>5. protos' \subseteq protos
  BY DEF Next, vars, MergeMap, MergeEntry, ReturnMerged, EndMerge, ApplyOverride, EndOverrides,
         StripProto, EndStrip, Finished, Call, Fail
<1>6. ProtoKeys' = ProtoKeys
  BY <1>2 DEF ProtoKeys
<1> QED  BY <1>4, <1>5, <1>6 DEF ProtosAre

LEMMA NextInv == ASSUME Inv, Counts, ProtosAre, [Next]_vars PROVE Inv'
<1>1. \A key \in protos : key \in Seq(STRING)
  <2>1. source \in Sources
    BY DEF Inv, Heap
  <2>2. \A c \in DOMAIN source.heap : c.path \in Seq(STRING)
    BY <2>1, SourceIs
  <2> QED  BY <2>2 DEF ProtosAre, ProtoKeys
<1>2. CASE MergeMap
  BY <1>2, MergeMapInv
<1>3. CASE MergeEntry
  BY <1>3, MergeEntryInv
<1>4. CASE ReturnMerged
  BY <1>4, ReturnMergedInv
<1>5. CASE EndMerge \/ EndOverrides \/ EndStrip
  BY <1>5, EndsInv
<1>6. CASE ApplyOverride
  BY <1>6, ApplyOverrideInv
<1>7. CASE StripProto
  BY <1>1, <1>7, StripProtoInv
<1>8. CASE UNCHANGED vars
  <2>1. SameTree /\ calls' = calls /\ phase' = phase
    BY <1>8 DEF vars, SameTree
  <2>2. \A c : Touched(calls, c)' = Touched(calls, c)
    BY <2>1 DEF Touched, Key
  <2>3. Reach'
    BY <2>1, <2>2, SameData DEF Inv, Reach, SameTree
  <2>4. PICK cs : cs = calls
    OBVIOUS
  <2>5. Stack(cs) => Stack(cs)'
    BY <2>1, SameMerges, SameAt DEF Stack
  <2>6. Calls'
    BY <2>1, <2>4, <2>5 DEF Inv, Calls, SameTree
  <2>7. Heap' /\ Maps' /\ PendingMapsKept'
    BY <2>1, SameMaps DEF Inv, Heap
  <2> QED  BY <2>3, <2>6, <2>7 DEF Inv
<1>9. CASE Finished
  BY <1>8, <1>9 DEF Finished
<1> QED  BY <1>2, <1>3, <1>4, <1>5, <1>6, <1>7, <1>8, <1>9 DEF Next

LEMMA AlwaysInv == Spec => [](Inv /\ Counts /\ ProtosAre)
<1>1. Init => Inv /\ Counts /\ ProtosAre
  BY InitInv, CountsInit
<1>2. Inv /\ Counts /\ ProtosAre /\ [Next]_vars => (Inv /\ Counts /\ ProtosAre)'
  BY NextInv, CountsNext
<1> QED  BY <1>1, <1>2, PTL DEF Spec

(* A map of cfg_res is not changed before it is in the tree, although its  *)
(* structs are shared with it and written through pointers while the maps  *)
(* before it are merged and while it is merged itself (config_helpers.cpp: *)
(* 82-100).                                                                *)
THEOREM PendingKept == Spec => []PendingMapsKept
<1>1. Inv => PendingMapsKept
  BY DEF Inv
<1> QED  BY <1>1, AlwaysInv, PTL
-----------------------------------------------------------------------------
(* Nothing of the merged maps is lost. *)

(* How many maps are in the tree at the path of a cell, and the struct the *)
(* tree has there: that of the first map which has one.                    *)
Upto(c) == IF phase = "merge" /\ Touched(calls, c) THEN merged + 1 ELSE merged
Primary(c, n) ==
  \/ c = Root
  \/ /\ c \in DOMAIN heap /\ c.path # <<>> /\ c.map <= n
     /\ \A m \in 1 .. n : Cell(m, c.path) \in DOMAIN heap => c.map <= m

(* It has every key of the structs at its path, less the protos removed.   *)
Full(c, n) == \A m \in 1 .. n : Cell(m, c.path) \in DOMAIN heap =>
  \A k \in KeysOf(source.heap[Cell(m, c.path)].data) :
    k \in KeysOf(Data(c)) \/ Append(c.path, k) \in ProtoKeys \ protos
Leads(c) == \A i \in DOMAIN Data(c) : isStructLike(Data(c)[i].val) =>
  Primary(Data(c)[i].val.cell, Upto(Data(c)[i].val.cell))
Complete == \A c : Primary(c, Upto(c)) => Full(c, Upto(c)) /\ Leads(c)

(* What is merged at one path is of one type.                              *)
Agree == \A c, d \in DOMAIN heap :
  c.path = d.path /\ c.path # <<>> /\ c.map <= Upto(c) /\ d.map <= Upto(c) =>
    source.heap[c].type = source.heap[d].type

Joins(f) ==
  /\ Primary(f.one, merged)
  /\ f.out = Both(Data(f.one), Data(f.two))
  /\ f.one # Root => source.heap[f.one].type = source.heap[f.two].type
  /\ KeysOf(f.out) = KeysOf(Data(f.one)) \cup KeysOf(Data(f.two))
  /\ \A i \in DOMAIN f.out :
       f.out[i].val = IF f.out[i].key \in KeysOf(Data(f.one)) THEN AtKey(Data(f.one), f.out[i].key)
                      ELSE AtKey(Data(f.two), f.out[i].key)
Joined(cs) == \A n \in 1 .. Len(cs) : Joins(cs[n])

Working == phase \in {"merge", "overrides", "strip", "done"}
Whole == Working => Complete /\ Agree /\ (phase = "merge" => protos = ProtoKeys /\ Joined(calls))

LEMMA CellsOf ==
  ASSUME Heap
  PROVE  /\ source \in Sources /\ DOMAIN heap = DOMAIN source.heap /\ merged \in Nat /\ source.maps \in Nat
         /\ \A c \in DOMAIN heap : c.map \in Nat \ {0} /\ c.path \in Seq(STRING) /\ c = Cell(c.map, c.path)
                                   /\ c.map \in 1 .. source.maps /\ c # Root
<1>1. source \in Sources /\ DOMAIN heap = DOMAIN source.heap /\ merged \in Nat /\ source.maps \in Nat
  BY SourcesAssumption DEF Heap
<1>2. ASSUME NEW c \in DOMAIN heap
      PROVE  c.map \in Nat \ {0} /\ c.path \in Seq(STRING) /\ c = Cell(c.map, c.path)
             /\ c.map \in 1 .. source.maps /\ c # Root
  <2>1. c.map \in 1 .. source.maps /\ c.path \in Seq(STRING) /\ c = Cell(c.map, c.path)
    BY <1>1, SourceIs
  <2> QED  BY <1>1, <2>1, RootIs
<1> QED  BY <1>1, <1>2

(* A struct-like is in the ones its path goes through. *)
LEMMA ParentIs ==
  ASSUME NEW s \in Sources, NEW c \in DOMAIN s.heap, c.path # <<>>
  PROVE  \E d \in DOMAIN s.heap :
           /\ d.map = c.map /\ d.path = Front(c.path) /\ Last(c.path) \in KeysOf(s.heap[d].data)
           /\ d = Cell(c.map, Front(c.path))
<1>1. PICK d \in DOMAIN s.heap : \E i \in DOMAIN s.heap[d].data :
        isStructLike(s.heap[d].data[i].val) /\ s.heap[d].data[i].val.cell = c
  <2>1. \A e \in DOMAIN s.heap : e.path # <<>> =>
          \E d \in DOMAIN s.heap : \E i \in DOMAIN s.heap[d].data :
            isStructLike(s.heap[d].data[i].val) /\ s.heap[d].data[i].val.cell = e
    BY SourcesAssumption, ZenonT(30)
  <2> QED  BY <2>1, ZenonT(30)
<1>2. PICK i \in DOMAIN s.heap[d].data :
        isStructLike(s.heap[d].data[i].val) /\ s.heap[d].data[i].val.cell = c
  BY <1>1
<1> DEFINE k == s.heap[d].data[i].key
<1>3. c.path = Append(d.path, k) /\ c.map = d.map
  BY <1>2, SourceIs, ZenonT(40) DEF EntriesAt
<1>4. d.path \in Seq(STRING) /\ c.path \in Seq(STRING) /\ d = Cell(d.map, d.path)
  BY SourceIs
<1>5. k \in KeysOf(s.heap[d].data)
  BY DEF KeysOf
<1> HIDE DEF k
<1>6. Front(c.path) = d.path /\ Last(c.path) = k
  <2>1. Len(c.path) = Len(d.path) + 1 /\ c.path[Len(c.path)] = k
        /\ \A j \in 1 .. Len(d.path) : c.path[j] = d.path[j]
    BY <1>3, <1>4
  <2>2. Front(c.path) \in Seq(STRING) /\ Len(Front(c.path)) = Len(d.path)
        /\ \A j \in 1 .. Len(d.path) : Front(c.path)[j] = c.path[j]
    <3>1. /\ Front(c.path) \in Seq(STRING) /\ Len(Front(c.path)) = Len(c.path) - 1
          /\ \A j \in 1 .. (Len(c.path) - 1) : Front(c.path)[j] = c.path[j]
      BY <1>4, FrontLast
    <3> QED  BY <1>4, <2>1, <3>1
  <2>3. Front(c.path) = d.path
    BY <1>4, <2>1, <2>2
  <2> QED  BY <2>1, <2>3 DEF Last
<1> QED  BY <1>3, <1>4, <1>5, <1>6

LEMMA PrefixCell ==
  ASSUME NEW s \in Sources, NEW c \in DOMAIN s.heap, NEW n \in Nat, n < Len(c.path)
  PROVE  /\ Cell(c.map, SubSeq(c.path, 1, n)) \in DOMAIN s.heap
         /\ c.path[n + 1] \in KeysOf(s.heap[Cell(c.map, SubSeq(c.path, 1, n))].data)
<1> DEFINE p == c.path
           l == Len(p)
           At0(k) == Cell(c.map, SubSeq(p, 1, k))
           T == {j \in Nat : j <= l /\ At0(l - j) \notin DOMAIN s.heap}
<1>1. p \in Seq(STRING) /\ l \in Nat /\ c = Cell(c.map, p)
  BY SourceIs
<1>2. ASSUME NEW k \in 1 .. l, At0(k) \in DOMAIN s.heap
      PROVE  At0(k - 1) \in DOMAIN s.heap /\ p[k] \in KeysOf(s.heap[At0(k - 1)].data)
  <2> DEFINE q == SubSeq(p, 1, k)
  <2>1. q \in Seq(STRING) /\ Len(q) = k /\ q # <<>> /\ q[k] = p[k]
    BY <1>1
  <2>2. At0(k).path = q /\ At0(k).map = c.map
    BY CellIs
  <2>3. PICK d \in DOMAIN s.heap :
          d = Cell(c.map, Front(q)) /\ Last(q) \in KeysOf(s.heap[d].data)
    <3> HIDE DEF q, At0
    <3> QED  BY <1>2, <2>1, <2>2, ParentIs
  <2>4. Front(q) = SubSeq(p, 1, k - 1)
    <3>1. SubSeq(p, 1, k - 1) \in Seq(STRING) /\ Len(SubSeq(p, 1, k - 1)) = k - 1
          /\ \A j \in 1 .. (k - 1) : SubSeq(p, 1, k - 1)[j] = p[j]
      BY <1>1
    <3>2. \A j \in 1 .. (k - 1) : q[j] = p[j]
      BY <1>1
    <3> HIDE DEF q
    <3>3. Front(q) \in Seq(STRING) /\ Len(Front(q)) = k - 1
          /\ \A j \in 1 .. (k - 1) : Front(q)[j] = q[j]
      BY <2>1, FrontLast
    <3> QED  BY <3>1, <3>2, <3>3
  <2>5. Last(q) = p[k]
    <3> HIDE DEF q
    <3> QED  BY <2>1 DEF Last
  <2> QED  BY <2>3, <2>4, <2>5
<1>3. At0(l) \in DOMAIN s.heap
  <2>1. SubSeq(p, 1, l) = p
    BY <1>1
  <2> QED  BY <1>1, <2>1
<1> HIDE DEF At0, l
<1>4. ASSUME NEW j \in T, \A i \in T : j <= i PROVE FALSE
  <2>1. j # 0
    BY <1>1, <1>3, <1>4
  <2>2. j - 1 \in Nat /\ j - 1 <= l /\ j - 1 \notin T /\ l - (j - 1) \in 1 .. l /\ l - (j - 1) - 1 = l - j
    BY <1>1, <1>4, <2>1
  <2>3. At0(l - (j - 1)) \in DOMAIN s.heap
    BY <2>2
  <2>4. At0(l - j) \in DOMAIN s.heap
    BY <1>2, <2>2, <2>3
  <2> QED  BY <1>4, <2>4
<1>5. \A k \in 0 .. l : At0(k) \in DOMAIN s.heap
  <2>1. T = {}
    <3>1. T \in SUBSET Nat
      OBVIOUS
    <3> HIDE DEF T
    <3> QED  BY <1>4, <3>1, LeastNumber
  <2>2. ASSUME NEW k \in 0 .. l PROVE At0(k) \in DOMAIN s.heap
    <3>1. l - k \in Nat /\ l - k <= l /\ l - (l - k) = k
      BY <1>1
    <3> QED  BY <2>1, <3>1
  <2> QED  BY <2>2
<1>6. n + 1 \in 1 .. l /\ n + 1 \in 0 .. l /\ n + 1 - 1 = n
  BY <1>1 DEF l
<1>7. At0(n) \in DOMAIN s.heap /\ p[n + 1] \in KeysOf(s.heap[At0(n)].data)
  BY <1>2, <1>5, <1>6
<1> QED  BY <1>7 DEF At0

(* A path at or below another. *)
Starts(p, c) == Len(p) <= Len(c.path) /\ \A m \in 1 .. Len(p) : c.path[m] = p[m]

LEMMA UnderPath ==
  ASSUME NEW s \in Sources, NEW c \in DOMAIN s.heap, NEW p \in Seq(STRING), Starts(p, c), Len(p) < Len(c.path)
  PROVE  /\ Cell(c.map, p) \in DOMAIN s.heap
         /\ c.path[Len(p) + 1] \in KeysOf(s.heap[Cell(c.map, p)].data)
<1>1. c.path \in Seq(STRING) /\ Len(p) \in Nat
  BY SourceIs
<1>2. SubSeq(c.path, 1, Len(p)) = p
  <2>1. SubSeq(c.path, 1, Len(p)) \in Seq(STRING) /\ Len(SubSeq(c.path, 1, Len(p))) = Len(p)
        /\ \A j \in 1 .. Len(p) : SubSeq(c.path, 1, Len(p))[j] = c.path[j]
    BY <1>1
  <2> QED  BY <2>1 DEF Starts
<1> QED  BY <1>1, <1>2, PrefixCell

LEMMA SamePath ==
  ASSUME NEW p \in Seq(STRING), NEW c, c.path \in Seq(STRING), Starts(p, c), Len(c.path) = Len(p)
  PROVE  c.path = p
BY DEF Starts

(* A struct that is the first of n maps at its path is the first of n + 1. *)
LEMMA PrimaryGrows ==
  ASSUME Heap, NEW c, NEW n \in Nat, Primary(c, n)
  PROVE  Primary(c, n + 1)
<1>1. CASE c = Root
  BY <1>1 DEF Primary
<1>2. CASE c # Root
  <2>1. c \in DOMAIN heap /\ c.path # <<>> /\ c.map <= n /\ c.map \in Nat
        /\ \A m \in 1 .. n : Cell(m, c.path) \in DOMAIN heap => c.map <= m
    BY <1>2, CellsOf DEF Primary
  <2>2. \A m \in 1 .. (n + 1) : m \in 1 .. n \/ m = n + 1
    OBVIOUS
  <2>3. \A m \in 1 .. (n + 1) : Cell(m, c.path) \in DOMAIN heap => c.map <= m
    BY <2>1, <2>2
  <2> QED  BY <2>1, <2>3 DEF Primary
<1> QED  BY <1>1, <1>2

LEMMA PrimaryWas ==
  ASSUME Heap, NEW c, NEW n \in Nat, Primary(c, n + 1), c = Root \/ c.map <= n
  PROVE  Primary(c, n)
<1>1. \A m \in 1 .. n : m \in 1 .. (n + 1)
  OBVIOUS
<1> QED  BY <1>1 DEF Primary

LEMMA PrimaryOnly ==
  ASSUME Heap, NEW c, NEW d, NEW n \in Nat, Primary(c, n + 1), Primary(d, n), c.path = d.path,
         c # Root, d # Root
  PROVE  c = d
<1>1. /\ c \in DOMAIN heap /\ d \in DOMAIN heap /\ c.map \in Nat \ {0} /\ d.map \in Nat \ {0}
      /\ c = Cell(c.map, c.path) /\ d = Cell(d.map, d.path)
  BY CellsOf DEF Primary
<1>2. d.map <= n /\ c.map <= n + 1
  BY DEF Primary
<1>3. c.map <= d.map
  <2>1. d.map \in 1 .. (n + 1)
    BY <1>1, <1>2
  <2> QED  BY <1>1, <2>1 DEF Primary
<1>4. d.map <= c.map
  <2>1. c.map \in 1 .. n
    BY <1>1, <1>2, <1>3
  <2> QED  BY <1>1, <2>1 DEF Primary
<1> QED  BY <1>1, <1>3, <1>4
LEMMA UptoIs ==
  ASSUME Heap, NEW c
  PROVE  Upto(c) \in Nat /\ Upto(c) \in {merged, merged + 1} /\ (Upto(c) # merged => Touched(calls, c))
BY CellsOf DEF Upto

LEMMA PrimaryKept ==
  ASSUME DOMAIN heap' = DOMAIN heap
  PROVE  \A c, n : Primary(c, n)' = Primary(c, n)
BY DEF Primary

LEMMA FullKept ==
  ASSUME DOMAIN heap' = DOMAIN heap, source' = source, protos' = protos,
         NEW c, NEW n, Full(c, n), Data(c)' = Data(c)
  PROVE  Full(c, n)'
BY ZenonT(40) DEF Full, KeysOf, ProtoKeys

LEMMA LeadsKept ==
  ASSUME Heap, DOMAIN heap' = DOMAIN heap,
         \A d : Place(d) => Upto(d)' = Upto(d) \/ Upto(d)' = Upto(d) + 1,
         NEW c, Leads(c), Data(c)' = Data(c)
  PROVE  Leads(c)'
<1>1. ASSUME NEW d, Primary(d, Upto(d)) PROVE Primary(d, Upto(d))'
  <2>1. Upto(d) \in Nat
    BY UptoIs
  <2>2. Primary(d, Upto(d) + 1)
    BY <1>1, <2>1, PrimaryGrows
  <2>6. Place(d)
    BY <1>1 DEF Primary, Place
  <2>3. PICK n : n = Upto(d)'
    OBVIOUS
  <2>4. Primary(d, n)
    BY <1>1, <2>2, <2>3, <2>6
  <2>5. DOMAIN heap' = DOMAIN heap
    OBVIOUS
  <2> QED  BY <2>3, <2>4, <2>5 DEF Primary
<1> QED  BY <1>1 DEF Leads

LEMMA JoinsKept ==
  ASSUME source' = source, DOMAIN heap' = DOMAIN heap, merged' = merged, NEW f, Joins(f),
         Data(f.one)' = Data(f.one), Data(f.two)' = Data(f.two)
  PROVE  Joins(f)'
<1>1. \A k : AtKey(Data(f.one), k)' = AtKey(Data(f.one), k) /\ AtKey(Data(f.two), k)' = AtKey(Data(f.two), k)
  BY DEF AtKey
<1>2. Primary(f.one, merged)'
  BY PrimaryKept DEF Joins
<1>3. KeysOf(Data(f.one))' = KeysOf(Data(f.one)) /\ KeysOf(Data(f.two))' = KeysOf(Data(f.two))
  BY DEF KeysOf
<1>4. Both(Data(f.one), Data(f.two))' = Both(Data(f.one), Data(f.two))
  <2>1. \A d, e : Both(d, e)' = Both(d, e)
    OBVIOUS
  <2> QED  BY <2>1
<1> QED  BY <1>1, <1>2, <1>3, <1>4 DEF Joins

LEMMA NewJoins ==
  ASSUME Inv, phase = "merge", NEW one, NEW two, Known(one), Primary(one, merged),
         two \in DOMAIN heap, two.map = merged + 1, two.path = one.path,
         one # Root => source.heap[one].type = source.heap[two].type
  PROVE  Joins([one |-> one, two |-> two, out |-> Both(Data(one), Data(two)), at |-> 1])
<1> DEFINE d == Data(one)
           e == Data(two)
           out == Both(d, e)
           f == [one |-> one, two |-> two, out |-> out, at |-> 1]
<1>1. merged \in Nat /\ Place(one)
  BY DEF Inv, Heap, Known, Place
<1>2. EntriesAt(source.heap, d, one.path) /\ EntriesAt(source.heap, e, one.path)
  BY <1>1, PendingIs DEF Inv, Maps
<1>3. f.one = one /\ f.two = two /\ f.out = out
  OBVIOUS
<1> HIDE DEF d, e
<1>4. Together(source.heap, one.path, d, e, out)
  BY <1>2, BothIs
<1> HIDE DEF out
<1>5. /\ \A i \in DOMAIN d : i \in DOMAIN out /\ out[i] = d[i]
      /\ \A i \in DOMAIN out : out[i].key \in KeysOf(d) => i \in DOMAIN d
      /\ \A i \in DOMAIN out : i \notin DOMAIN d => out[i] \in ToSet(e)
      /\ KeysOf(out) = KeysOf(d) \cup KeysOf(e)
  BY <1>4 DEF Together
<1>6. ASSUME NEW i \in DOMAIN out
      PROVE  out[i].val = IF out[i].key \in KeysOf(d) THEN AtKey(d, out[i].key) ELSE AtKey(e, out[i].key)
  <2>1. CASE i \in DOMAIN d
    BY <1>2, <1>5, <2>1, AtKeyIs
  <2>2. CASE i \notin DOMAIN d
    <3>1. PICK j \in DOMAIN e : out[i] = e[j]
      BY <1>5, <2>2 DEF ToSet
    <3>2. AtKey(e, e[j].key) = e[j].val
      BY <1>2, AtKeyIs
    <3> QED  BY <1>5, <2>2, <3>1, <3>2
  <2> QED  BY <2>1, <2>2
<1> HIDE DEF f
<1>7. Joins(f)
  BY <1>3, <1>5, <1>6 DEF Joins, out, d, e
<1> QED  BY <1>7 DEF f, out, d, e

-----------------------------------------------------------------------------
(* The call at work and the paths at or below its struct. *)

LEMMA HerePath ==
  ASSUME Inv, phase = "merge", calls # <<>>
  PROVE  /\ Here.one.path \in Seq(STRING) /\ Len(Here.one.path) + 1 = Len(calls) /\ Len(calls) \in Nat \ {0}
         /\ \A m \in 1 .. (Len(calls) - 1) : Here.one.path[m] = Key(calls, m)
         /\ Here.one = Root <=> Len(calls) = 1
         /\ ~Touched(calls, Here.one)
         /\ Here.two = Cell(merged + 1, Here.one.path) /\ Here.two \in DOMAIN heap /\ Place(Here.one)
         /\ Data(Here.two) = source.heap[Here.two].data
<1> DEFINE n == Len(calls)
<1>1. n \in Nat \ {0} /\ Here = calls[n]
  BY StackIs
<1>2. Merges(calls[n]) /\ At(calls, n) /\ calls[n].one.path \in Seq(STRING) /\ Place(calls[n].one)
  BY <1>1, StackIs
<1>3. /\ Len(Here.one.path) = n - 1 /\ (Here.one = Root <=> n = 1)
      /\ \A m \in 1 .. (n - 1) : Here.one.path[m] = Key(calls, m)
  BY <1>1, <1>2 DEF At
<1>4. Here.two \in DOMAIN heap /\ Here.two.map = merged + 1 /\ Here.two.path = Here.one.path
  BY <1>1, <1>2 DEF Merges
<1>5. merged \in Nat /\ Here.two = Cell(merged + 1, Here.one.path)
  BY <1>4, CellsOf DEF Inv
<1>6. Data(Here.two) = source.heap[Here.two].data
  BY <1>4, <1>5, PendingIs
<1>7. ASSUME NEW k \in 1 .. n, NEW j \in 1 .. (calls[k].at - 1), k < n => j # calls[k].at - 1,
             k <= n - 1, Here.one.path[k] = calls[k].out[j].key
      PROVE  FALSE
  <2>1. /\ calls[k].at \in Nat /\ calls[k].at <= Len(calls[k].out) + 1 /\ Len(calls[k].out) \in Nat
        /\ DOMAIN calls[k].out = 1 .. Len(calls[k].out) /\ At(calls, k)
        /\ \A i, l \in DOMAIN calls[k].out : calls[k].out[i].key = calls[k].out[l].key => i = l
    BY StackIs
  <2>2. k < n /\ k \in 1 .. (n - 1)
    <3> HIDE DEF n
    <3> QED  BY <1>1, <1>7
  <2>3. j \in DOMAIN calls[k].out /\ calls[k].at - 1 \in DOMAIN calls[k].out
    BY <2>1, <2>2 DEF At
  <2>4. calls[k].out[j].key = calls[k].out[calls[k].at - 1].key
    BY <1>3, <1>7, <2>2 DEF Key
  <2> QED  BY <1>7, <2>1, <2>2, <2>3, <2>4
<1>8. ~Touched(calls, Here.one)
  BY <1>3, <1>7 DEF Touched
<1>9. Len(Here.one.path) + 1 = n
  <2> HIDE DEF n
  <2> QED  BY <1>1, <1>3
<1> QED  BY <1>1, <1>2, <1>3, <1>4, <1>5, <1>6, <1>8, <1>9

LEMMA KeyOfMaps ==
  ASSUME Inv, Whole, phase = "merge", calls # <<>>, NEW c \in DOMAIN heap,
         Starts(Here.one.path, c), Len(calls) <= Len(c.path)
  PROVE  /\ c.map <= merged => c.path[Len(calls)] \in KeysOf(Data(Here.one))
         /\ c.map = merged + 1 => c.path[Len(calls)] \in KeysOf(Data(Here.two))
<1> DEFINE p == Here.one.path
           k == c.path[Len(calls)]
<1>1. p \in Seq(STRING) /\ Len(p) + 1 = Len(calls) /\ Len(p) \in Nat
  BY HerePath
<1>2. source \in Sources /\ c \in DOMAIN source.heap /\ c.map \in Nat \ {0} /\ c.path \in Seq(STRING) /\ merged \in Nat
  BY CellsOf DEF Inv
<1>3. Cell(c.map, p) \in DOMAIN source.heap /\ k \in KeysOf(source.heap[Cell(c.map, p)].data)
  <2>1. Len(p) < Len(c.path)
    BY <1>1, <1>2
  <2>2. k = c.path[Len(p) + 1]
    BY <1>1
  <2> HIDE DEF p, k
  <2> QED  BY <1>1, <1>2, <2>1, <2>2, UnderPath DEF p
<1>4. ASSUME c.map <= merged PROVE k \in KeysOf(Data(Here.one))
  <2>1. Primary(Here.one, Upto(Here.one)) /\ Upto(Here.one) = merged
    <3>1. Upto(Here.one) = merged
      BY HerePath DEF Upto
    <3>2. Here = calls[Len(calls)] /\ Len(calls) \in Nat \ {0}
      BY StackIs
    <3>3. Joins(Here)
      BY <3>2 DEF Whole, Working, Joined
    <3> QED  BY <3>1, <3>3 DEF Joins
  <2>2. Full(Here.one, merged) /\ protos = ProtoKeys
    BY <2>1 DEF Whole, Working, Complete
  <2>3. c.map \in 1 .. merged
    BY <1>2, <1>4
  <2>4. Cell(c.map, p) \in DOMAIN heap
    BY <1>3, CellsOf DEF Inv
  <2> HIDE DEF k
  <2> QED  BY <1>3, <2>2, <2>3, <2>4 DEF Full
<1>5. ASSUME c.map = merged + 1 PROVE k \in KeysOf(Data(Here.two))
  BY <1>3, <1>5, HerePath
<1> QED  BY <1>4, <1>5

LEMMA PassedBelow ==
  ASSUME Inv, phase = "merge", calls # <<>>, NEW c, c.path \in Seq(STRING),
         Starts(Here.one.path, c), Len(calls) <= Len(c.path),
         NEW j \in 1 .. (Here.at - 1), c.path[Len(calls)] = Here.out[j].key
  PROVE  Touched(calls, c)
<1> DEFINE n == Len(calls)
<1>1. n \in Nat \ {0} /\ Here = calls[n] /\ n \in 1 .. n /\ ~(n < n)
  BY StackIs
<1>2. Len(Here.one.path) + 1 = n /\ \A m \in 1 .. (n - 1) : Here.one.path[m] = Key(calls, m)
  BY HerePath
<1>3. \A m \in 1 .. (n - 1) : c.path[m] = Key(calls, m)
  <2>1. \A m \in 1 .. Len(Here.one.path) : c.path[m] = Here.one.path[m]
    BY DEF Starts
  <2>2. Len(Here.one.path) = n - 1
    <3> HIDE DEF n
    <3>1. Len(Here.one.path) \in Nat
      BY HerePath
    <3> QED  BY <1>1, <1>2, <3>1
  <2> QED  BY <1>2, <2>1, <2>2
<1> QED  BY <1>1, <1>3 DEF Touched
-----------------------------------------------------------------------------
(* Steps of the merge, one after the other. *)

LEMMA CompleteStep ==
  ASSUME Heap, DOMAIN heap' = DOMAIN heap, source' = source, protos' = protos, Complete,
         \A d : Place(d) => Upto(d)' = Upto(d) \/ Upto(d)' = Upto(d) + 1,
         \A c : Primary(c, Upto(c))' =>
           \/ Upto(c)' = Upto(c) /\ Data(c)' = Data(c)
           \/ Full(c, Upto(c))' /\ Leads(c)'
  PROVE  Complete'
<1>1. ASSUME NEW c, Primary(c, Upto(c))', Upto(c)' = Upto(c), Data(c)' = Data(c)
      PROVE  Full(c, Upto(c))' /\ Leads(c)'
  <2>1. PICK n : n = Upto(c)
    OBVIOUS
  <2>2. Primary(c, n)
    <3>1. Upto(c)' = n /\ DOMAIN heap' = DOMAIN heap
      BY <1>1, <2>1
    <3> QED  BY <1>1, <3>1 DEF Primary
  <2>3. Full(c, n) /\ Leads(c)
    BY <2>1, <2>2 DEF Complete
  <2>4. Full(c, n)'
    BY <1>1, <2>3, FullKept
  <2>5. Leads(c)'
    BY <1>1, <2>3, LeadsKept
  <2>6. Full(c, Upto(c))'
    BY <1>1, <2>1, <2>4 DEF Full
  <2> QED  BY <2>5, <2>6
<1> QED  BY <1>1 DEF Complete

LEMMA AgreeStep ==
  ASSUME DOMAIN heap' = DOMAIN heap, source' = source, Agree,
         \A c, d \in DOMAIN heap :
           c.path = d.path /\ c.path # <<>> /\ (c.map <= Upto(c))' /\ (d.map <= Upto(c))' =>
             Upto(c)' = Upto(c) \/ source.heap[c].type = source.heap[d].type
  PROVE  Agree'
<1>1. ASSUME NEW c \in DOMAIN heap, NEW d \in DOMAIN heap, c.path = d.path, c.path # <<>>,
             (c.map <= Upto(c))', (d.map <= Upto(c))'
      PROVE  source.heap[c].type = source.heap[d].type
  <2>1. CASE source.heap[c].type = source.heap[d].type
    BY <2>1
  <2>2. CASE Upto(c)' = Upto(c)
    <3>1. c.map <= Upto(c) /\ d.map <= Upto(c)
      BY <1>1, <2>2
    <3> QED  BY <1>1, <3>1 DEF Agree
  <2> QED  BY <1>1, <2>1, <2>2
<1> QED  BY <1>1 DEF Agree

(* Nothing is merged or written. *)
LEMMA SameWhole ==
  ASSUME Heap, SameTree, protos' = protos, Complete, Agree, \A c : Upto(c)' = Upto(c)
  PROVE  Complete' /\ Agree'
<1>1. DOMAIN heap' = DOMAIN heap /\ source' = source /\ \A c : Data(c)' = Data(c)
  BY SameData DEF SameTree
<1>2. Complete'
  BY <1>1, CompleteStep
<1>3. Agree'
  BY <1>1, AgreeStep
<1> QED  BY <1>2, <1>3

LEMMA InitWhole == Init => Whole
<1> SUFFICES ASSUME Init PROVE Whole
  OBVIOUS
<1>1. source \in Sources /\ heap = source.heap /\ calls = <<>> /\ phase = "merge" /\ protos = ProtoKeys
  BY DEF Init
<1>2. source.maps \in Nat /\ \A n \in 1 .. source.maps : Cell(n, <<>>) \in DOMAIN source.heap
  BY <1>1, SourcesAssumption
<1>3. merged \in {0, 1} /\ (merged = 0 <=> source.maps = 0)
  BY <1>2 DEF Init
<1>4. \A c : Upto(c) = merged
  BY <1>1 DEF Upto, Touched
<1>5. Inv
  BY InitInv
<1>6. \A c \in DOMAIN heap : c.map \in Nat \ {0} /\ c = Cell(c.map, c.path) /\ c \in DOMAIN source.heap
                             /\ c.path \in Seq(STRING)
  BY <1>5, CellsOf DEF Inv
<1>7. ASSUME NEW c, Primary(c, merged) PROVE Full(c, merged) /\ Leads(c)
  <2>1. CASE merged = 0
    <3>1. c = Root
      BY <1>6, <1>7, <2>1 DEF Primary
    <3>2. Data(c) = <<>>
      BY <1>3, <2>1, <3>1 DEF Data, Init
    <3> QED  BY <2>1, <3>2 DEF Full, Leads
  <2>2. CASE merged = 1
    <3>1. \A m \in 1 .. 1 : m = 1
      OBVIOUS
    <3>2. Cell(1, c.path) \in DOMAIN source.heap /\ Data(c) = source.heap[Cell(1, c.path)].data
      <4>1. CASE c = Root
        <5>1. Cell(1, <<>>) \in DOMAIN source.heap
          BY <1>2, <1>3, <2>2
        <5>2. cfg_data = heap[Cell(1, <<>>)].data
          BY <1>3, <2>2 DEF Init
        <5> QED  BY <1>1, <4>1, <5>1, <5>2, RootIs DEF Data
      <4>2. CASE c # Root
        <5>1. c \in DOMAIN heap /\ c.map <= 1
          BY <1>7, <2>2, <4>2 DEF Primary
        <5>2. c.map = 1
          BY <1>6, <5>1, SMTT(30)
        <5> QED  BY <1>1, <1>6, <4>2, <5>1, <5>2 DEF Data
      <4> QED  BY <4>1, <4>2
    <3>3. Full(c, merged)
      BY <2>2, <3>1, <3>2 DEF Full
    <3>4. ASSUME NEW i \in DOMAIN Data(c), isStructLike(Data(c)[i].val)
          PROVE  Primary(Data(c)[i].val.cell, 1)
      <4> DEFINE b == Cell(1, c.path)
                 d == Data(c)[i].val.cell
      <4>1. b.map = 1 /\ b.path = c.path
        BY CellIs
      <4>2. b \in DOMAIN source.heap /\ Data(c) = source.heap[b].data
        BY <3>2
      <4> HIDE DEF b
      <4>3. /\ EntriesAt(source.heap, source.heap[b].data, b.path) /\ b.path \in Seq(STRING)
            /\ source.heap[b].data[i].key \in ToSet(KeyOrder)
            /\ isStructLike(source.heap[b].data[i].val) => source.heap[b].data[i].val.cell.map = b.map
        <5>1. PICK s : s = source
          OBVIOUS
        <5>2. s \in Sources /\ b \in DOMAIN s.heap /\ i \in DOMAIN s.heap[b].data
          BY <1>1, <3>4, <4>2, <5>1
        <5>3. /\ EntriesAt(s.heap, s.heap[b].data, b.path) /\ b.path \in Seq(STRING)
              /\ s.heap[b].data[i].key \in ToSet(KeyOrder)
              /\ isStructLike(s.heap[b].data[i].val) => s.heap[b].data[i].val.cell.map = b.map
          BY <5>2, SourceIs, Zenon
        <5> QED  BY <5>1, <5>3
      <4>4. d.map = 1 /\ d \in DOMAIN heap /\ d.path = Append(c.path, Data(c)[i].key)
        BY <1>1, <3>4, <4>1, <4>2, <4>3 DEF EntriesAt
      <4>5. d.path # <<>>
        <5>1. c.path \in Seq(STRING)
          BY <4>1, <4>3
        <5> HIDE DEF d
        <5> QED  BY <4>4, <5>1
      <4> HIDE DEF d
      <4>6. Primary(d, 1)
        BY <3>1, <4>4, <4>5 DEF Primary
      <4> QED  BY <4>6 DEF d
    <3>5. Leads(c)
      BY <1>4, <2>2, <3>4 DEF Leads
    <3> QED  BY <3>3, <3>5
  <2> QED  BY <1>3, <2>1, <2>2
<1>8. Complete
  BY <1>4, <1>7 DEF Complete
<1>9. Agree
  <2>1. ASSUME NEW c \in DOMAIN heap, NEW d \in DOMAIN heap, c.path = d.path, c.map <= merged, d.map <= merged
        PROVE  c = d
    <3>1. c.map \in Nat \ {0} /\ d.map \in Nat \ {0} /\ c = Cell(c.map, c.path) /\ d = Cell(d.map, d.path)
      BY <1>6
    <3>2. c.map = d.map
      BY <1>3, <2>1, <3>1
    <3> QED  BY <2>1, <3>1, <3>2
  <2> QED  BY <1>4, <2>1 DEF Agree
<1> QED  BY <1>1, <1>8, <1>9 DEF Whole, Joined

LEMMA EndsWhole == ASSUME Inv, Whole, EndMerge \/ EndOverrides \/ EndStrip PROVE Whole'
<1>1. SameTree /\ protos' = protos /\ calls' = calls /\ phase' # "merge" /\ Working
      /\ (phase = "merge" => calls = <<>>)
  BY DEF EndMerge, EndOverrides, EndStrip, SameTree, Working
<1>2. \A c : Upto(c)' = Upto(c)
  <2>1. \A c : Upto(c) = merged
    BY <1>1 DEF Upto, Touched
  <2>2. \A c : Upto(c)' = merged
    BY <1>1 DEF Upto, SameTree
  <2> QED  BY <2>1, <2>2
<1>3. Complete' /\ Agree'
  BY <1>1, <1>2, SameWhole DEF Whole, Inv
<1> QED  BY <1>1, <1>3 DEF Whole

LEMMA FailWhole == ASSUME NEW e, Fail(e), e \notin {"merge", "overrides", "strip", "done"} PROVE Whole'
BY DEF Fail, Whole, Working

LEMMA CallFailsWhole ==
  ASSUME phase = "merge", NEW stack, NEW one, NEW two, Call(stack, one, two), phase' # "merge"
  PROVE  Whole'
<1> DEFINE bad == {i \in DOMAIN KeyOrder :
                     KeyOrder[i] \in Common(one, two) /\ Checked(one, two, KeyOrder[i]) # "ok"}
           first == CHOOSE i \in bad : \A j \in bad : i <= j
<1>1. Fail(Checked(one, two, KeyOrder[first]))
  BY DEF Call
<1>2. Checked(one, two, KeyOrder[first]) \notin {"merge", "overrides", "strip", "done"}
  BY CheckIs DEF Checked
<1> QED  BY <1>1, <1>2, FailWhole
LEMMA SameJoins ==
  ASSUME SameTree, NEW f, Joins(f)
  PROVE  Joins(f)'
BY SameData, JoinsKept DEF SameTree

LEMMA MergeMapWhole ==
  ASSUME Inv, Whole, MergeMap
  PROVE  /\ Whole'
         /\ phase' = "merge" => SameTree /\ protos' = protos /\ \A c : Upto(c)' = Upto(c)
<1> DEFINE two == Cell(merged + 1, <<>>)
           f == [one |-> Root, two |-> two, out |-> Both(Data(Root), Data(two)), at |-> 1]
<1>1. phase = "merge" /\ calls = <<>> /\ merged < source.maps /\ Call(<<>>, Root, two)
  BY DEF MergeMap
<1>2. source \in Sources /\ merged \in Nat /\ source.maps \in Nat
  BY CellsOf DEF Inv
<1>3. two \in DOMAIN heap /\ two.map = merged + 1 /\ two.path = Root.path
  <2>1. merged + 1 \in 1 .. source.maps
    BY <1>1, <1>2
  <2>2. two \in DOMAIN heap
    BY <1>2, <2>1, TopOfMap DEF Inv, Heap
  <2> QED  BY <2>2, CellIs, RootIs
<1> HIDE DEF two
<1>4. CASE phase' # "merge"
  BY <1>1, <1>4, CallFailsWhole
<1>5. CASE phase' = "merge"
  <2>1. \A k \in Common(Root, two) : k \in ToSet(KeyOrder)
    <3>1. \A i \in DOMAIN Data(two) : Data(two)[i].key \in ToSet(KeyOrder)
      BY <1>1, <1>2, <1>3, PendingIs
    <3> QED  BY <3>1 DEF Common, KeysOf
  <2>2. calls' = Append(<<>>, f) /\ SameTree /\ phase' = phase
    BY <1>1, <1>5, <2>1, AllChecked
  <2>3. protos' = protos
    BY <1>1, <1>5, CheckIs DEF Call, Fail, Checked
  <2>4. Joins(f)
    BY <1>1, <1>3, NewJoins DEF Known, Primary
  <2> HIDE DEF f
  <2>5. PICK cs : cs = calls' /\ cs = <<f>>
    BY <2>2
  <2>6. Len(cs) = 1 /\ cs[1] = f /\ \A n \in 1 .. 1 : n = 1
    BY <2>5
  <2>7. Joins(cs[1])'
    BY <2>2, <2>4, <2>6, SameJoins
  <2>8. Joined(calls)'
    BY <2>5, <2>6, <2>7 DEF Joined
  <2>9. f.at = 1
    BY DEF f
  <2>10. \A c : Upto(c)' = Upto(c)
    <3>1. \A c : Upto(c) = merged
      BY <1>1 DEF Upto, Touched
    <3>2. \A c : ~Touched(cs, c)
      BY <2>6, <2>9 DEF Touched
    <3>3. \A c : Upto(c)' = merged
      BY <2>2, <2>5, <3>2 DEF Upto, Touched, Key, SameTree
    <3> QED  BY <3>1, <3>3
  <2>11. Complete' /\ Agree' /\ protos' = ProtoKeys'
    <3>1. ProtoKeys' = ProtoKeys
      BY <2>2 DEF ProtoKeys, SameTree
    <3> QED  BY <1>1, <2>2, <2>3, <2>10, <3>1, SameWhole DEF Whole, Working, Inv
  <2> QED  BY <2>2, <2>3, <2>8, <2>10, <2>11 DEF Whole
<1> QED  BY <1>4, <1>5

(* What a further entry touches is at or below this entry. *)
LEMMA TouchedPasses ==
  ASSUME Inv, phase = "merge", calls # <<>>, NEW cs, Passes(cs),
         Len(cs) > Len(calls) => cs[Len(calls) + 1].at = 1,
         NEW c, Touched(cs, c)
  PROVE  \/ Touched(calls, c)
         \/ /\ Len(cs) = Len(calls) /\ Len(calls) <= Len(c.path)
            /\ c.path[Len(calls)] = Here.out[Here.at].key
            /\ \A m \in 1 .. (Len(calls) - 1) : c.path[m] = Here.one.path[m]
<1> DEFINE n == Len(calls)
<1>1. n \in Nat \ {0} /\ Here = calls[n] /\ calls[n].at \in Nat /\ calls[n].at >= 1
  BY StackIs
<1>2. n = Len(calls)
  OBVIOUS
<1>3. Len(cs) \in {n, n + 1} /\ cs[n].at = calls[n].at + 1 /\ cs[n].out = calls[n].out
      /\ \A m \in 1 .. n : m < n => cs[m] = calls[m]
  BY DEF Passes
<1>4. \A m \in 1 .. n : m < n => Key(cs, m) = Key(calls, m)
  BY PassesKey
<1>5. \A m \in 1 .. (n - 1) : Here.one.path[m] = Key(calls, m)
  BY HerePath
<1>6. Len(cs) > n => cs[n + 1].at = 1
  OBVIOUS
<1> HIDE DEF n
<1>7. PICK k \in 1 .. Len(cs) : \E j \in 1 .. (cs[k].at - 1) :
        /\ k < Len(cs) => j # cs[k].at - 1
        /\ k <= Len(c.path) /\ c.path[k] = cs[k].out[j].key
        /\ \A m \in 1 .. (k - 1) : c.path[m] = Key(cs, m)
  BY DEF Touched
<1>8. PICK j \in 1 .. (cs[k].at - 1) :
        /\ k < Len(cs) => j # cs[k].at - 1
        /\ k <= Len(c.path) /\ c.path[k] = cs[k].out[j].key
        /\ \A m \in 1 .. (k - 1) : c.path[m] = Key(cs, m)
  BY <1>7
<1>9. k \in 1 .. n
  <2>1. ASSUME k = n + 1, Len(cs) > n PROVE FALSE
    BY <1>6, <1>8, <2>1
  <2> QED  BY <1>1, <1>3, <2>1
<1>10. \A m \in 1 .. (k - 1) : m \in 1 .. (n - 1) /\ c.path[m] = Key(calls, m)
  <2>1. \A m \in 1 .. (k - 1) : m \in 1 .. (n - 1) /\ m \in 1 .. n /\ m < n
    BY <1>1, <1>9
  <2> QED  BY <1>4, <1>8, <2>1
<1>11. CASE k < n
  <2>1. cs[k] = calls[k] /\ k < Len(cs)
    BY <1>1, <1>3, <1>9, <1>11
  <2> QED  BY <1>2, <1>8, <1>9, <1>10, <1>11, <2>1 DEF Touched
<1>12. CASE k = n
  <2>1. CASE j = calls[n].at
    <3>1. Len(cs) = n
      <4>1. cs[n].at - 1 = calls[n].at
        BY <1>1, <1>3
      <4>2. Len(cs) = n + 1 => k < Len(cs)
        BY <1>1, <1>12
      <4>3. k < Len(cs) => j # cs[n].at - 1
        BY <1>8, <1>12
      <4> QED  BY <1>3, <2>1, <4>1, <4>2, <4>3
    <3>2. \A m \in 1 .. (n - 1) : c.path[m] = Here.one.path[m]
      BY <1>5, <1>10, <1>12
    <3> QED  BY <1>1, <1>2, <1>3, <1>8, <1>12, <2>1, <3>1, <3>2
  <2>2. CASE j # calls[n].at
    <3>1. j \in 1 .. (calls[n].at - 1)
      BY <1>1, <1>3, <1>8, <1>12, <2>2
    <3>2. c.path[n] = calls[n].out[j].key /\ n <= Len(c.path) /\ ~(n < n) /\ n \in 1 .. n
      BY <1>1, <1>3, <1>8, <1>12
    <3> QED  BY <1>2, <1>10, <1>12, <3>1, <3>2 DEF Touched
  <2> QED  BY <2>1, <2>2
<1> QED  BY <1>1, <1>9, <1>11, <1>12

LEMMA TouchedExtends ==
  ASSUME NEW cs, NEW c, Touched(cs, c), NEW d, NEW k,
         Len(cs) \in Nat, c.path \in Seq(STRING), k \in STRING, d.path = Append(c.path, k)
  PROVE  Touched(cs, d)
<1>1. Len(d.path) = Len(c.path) + 1 /\ \A m \in 1 .. Len(c.path) : d.path[m] = c.path[m]
  OBVIOUS
<1>2. PICK n \in 1 .. Len(cs) : \E j \in 1 .. (cs[n].at - 1) :
        /\ n < Len(cs) => j # cs[n].at - 1
        /\ n <= Len(c.path) /\ c.path[n] = cs[n].out[j].key
        /\ \A m \in 1 .. (n - 1) : c.path[m] = Key(cs, m)
  BY DEF Touched
<1>3. n <= Len(d.path) /\ d.path[n] = c.path[n] /\ \A m \in 1 .. (n - 1) : d.path[m] = c.path[m]
  <2>1. Len(c.path) \in Nat /\ n \in Nat /\ n >= 1 /\ n <= Len(c.path)
    BY <1>2
  <2>2. n \in 1 .. Len(c.path) /\ n <= Len(d.path) /\ \A m \in 1 .. (n - 1) : m \in 1 .. Len(c.path)
    BY <1>1, <2>1
  <2> QED  BY <1>1, <2>2
<1> QED  BY <1>2, <1>3 DEF Touched
(* The struct of a key that the tree lacks is the first at its path. *)
LEMMA FreshPrimary ==
  ASSUME Inv, Whole, phase = "merge", calls # <<>>, NEW d \in DOMAIN heap, d.map = merged + 1,
         Starts(Here.one.path, d), Len(calls) <= Len(d.path), d.path[Len(calls)] \notin KeysOf(Data(Here.one))
  PROVE  /\ Primary(d, merged + 1)
         /\ \A m \in 1 .. merged : Cell(m, d.path) \notin DOMAIN heap
<1>1. merged \in Nat /\ d.path \in Seq(STRING) /\ d = Cell(d.map, d.path)
  BY CellsOf DEF Inv
<1>2. Len(calls) \in Nat \ {0}
  BY HerePath
<1>3. d.path # <<>>
  BY <1>1, <1>2
<1>4. ASSUME NEW m \in 1 .. merged, Cell(m, d.path) \in DOMAIN heap PROVE FALSE
  <2>1. PICK e \in DOMAIN heap : e = Cell(m, d.path)
    BY <1>4
  <2>2. e.path = d.path /\ e.map = m /\ e.map <= merged
    BY <2>1, CellIs
  <2>3. Starts(Here.one.path, e)
    BY <2>2 DEF Starts
  <2> QED  BY <2>2, <2>3, KeyOfMaps
<1>5. \A m \in 1 .. (merged + 1) : m \in 1 .. merged \/ m = merged + 1
  BY <1>1
<1>6. d.map <= merged + 1 /\ \A m \in 1 .. (merged + 1) : Cell(m, d.path) \in DOMAIN heap => d.map <= m
  BY <1>1, <1>4, <1>5
<1> QED  BY <1>3, <1>4, <1>6 DEF Primary

(* A key that is in one of the two maps only. *)
LEMMA AloneIs ==
  ASSUME Inv, Whole, phase = "merge", calls # <<>>, NEW c \in DOMAIN heap, c.map <= merged + 1,
         Starts(Here.one.path, c), Len(calls) <= Len(c.path),
         c.path[Len(calls)] \notin Common(Here.one, Here.two)
  PROVE  \/ c.path[Len(calls)] \notin KeysOf(Data(Here.two)) /\ c.map <= merged
         \/ c.path[Len(calls)] \notin KeysOf(Data(Here.one)) /\ c.map = merged + 1
<1>1. merged \in Nat /\ c.map \in Nat
  BY CellsOf DEF Inv
<1>2. c.map <= merged \/ c.map = merged + 1
  BY <1>1
<1> QED  BY <1>2, KeyOfMaps DEF Common

LEMMA AppendIs ==
  ASSUME NEW p \in Seq(STRING), NEW k, NEW q \in Seq(STRING), q = Append(p, k)
  PROVE  k \in STRING /\ Len(q) = Len(p) + 1 /\ q[Len(p) + 1] = k /\ \A m \in 1 .. Len(p) : q[m] = p[m]
<1>1. Len(q) = Len(p) + 1 /\ q[Len(p) + 1] = k /\ \A m \in 1 .. Len(p) : q[m] = p[m]
  OBVIOUS
<1>2. q[Len(p) + 1] \in STRING
  <2>1. Len(p) + 1 \in 1 .. Len(q)
    BY <1>1
  <2> QED  BY <2>1
<1> QED  BY <1>1, <1>2

(* The struct at or below a key of the next map only is complete at once. *)
LEMMA FreshWhole ==
  ASSUME Inv, Whole, phase = "merge", calls # <<>>, NEW c \in DOMAIN heap, c.map = merged + 1,
         Starts(Here.one.path, c), Len(calls) <= Len(c.path),
         c.path[Len(calls)] \notin KeysOf(Data(Here.one))
  PROVE  /\ Full(c, merged + 1)
         /\ \A i \in DOMAIN Data(c) : isStructLike(Data(c)[i].val) =>
              /\ Primary(Data(c)[i].val.cell, merged + 1)
              /\ Data(c)[i].val.cell.path = Append(c.path, Data(c)[i].key) /\ Data(c)[i].key \in STRING
<1>1. merged \in Nat /\ c.path \in Seq(STRING) /\ c = Cell(c.map, c.path) /\ source \in Sources
      /\ c \in DOMAIN source.heap /\ c # Root /\ DOMAIN heap = DOMAIN source.heap
  BY CellsOf DEF Inv
<1>2. Data(c) = source.heap[c].data /\ EntriesAt(source.heap, Data(c), c.path)
      /\ \A i \in DOMAIN Data(c) : isStructLike(Data(c)[i].val) => Data(c)[i].val.cell.map = c.map
  <2>1. c.map > merged
    BY <1>1
  <2> QED  BY <2>1, PendingIs
<1>3. \A m \in 1 .. merged : Cell(m, c.path) \notin DOMAIN heap
  BY FreshPrimary
<1>4. Full(c, merged + 1)
  <2>1. \A m \in 1 .. (merged + 1) : m \in 1 .. merged \/ m = merged + 1
    BY <1>1
  <2>2. \A m \in 1 .. (merged + 1) : Cell(m, c.path) \in DOMAIN heap => Cell(m, c.path) = c
    BY <1>1, <1>3, <2>1
  <2> QED  BY <1>2, <2>2 DEF Full
<1>5. ASSUME NEW i \in DOMAIN Data(c), isStructLike(Data(c)[i].val)
      PROVE  /\ Primary(Data(c)[i].val.cell, merged + 1)
             /\ Data(c)[i].val.cell.path = Append(c.path, Data(c)[i].key) /\ Data(c)[i].key \in STRING
  <2>1. PICK d : d = Data(c)[i].val.cell
    OBVIOUS
  <2>2. PICK k : k = Data(c)[i].key
    OBVIOUS
  <2>3. d \in DOMAIN heap /\ d.path = Append(c.path, k) /\ d.map = merged + 1
    BY <1>1, <1>2, <1>5, <2>1, <2>2 DEF EntriesAt
  <2>4. d.path \in Seq(STRING)
    BY <2>3, CellsOf DEF Inv
  <2>5. k \in STRING
    BY <1>1, <2>3, <2>4, AppendIs
  <2>6. Starts(Here.one.path, d) /\ Len(calls) <= Len(d.path) /\ d.path[Len(calls)] = c.path[Len(calls)]
    <3>1. PICK p : p = Here.one.path
      OBVIOUS
    <3>2. PICK n : n = Len(calls)
      OBVIOUS
    <3>3. p \in Seq(STRING) /\ n \in Nat \ {0}
      BY <3>1, <3>2, HerePath
    <3>4. Starts(p, c) /\ n <= Len(c.path)
      BY <3>1, <3>2
    <3>5. Starts(p, d) /\ n <= Len(d.path) /\ d.path[n] = c.path[n]
      <4>1. Len(d.path) = Len(c.path) + 1 /\ \A m \in 1 .. Len(c.path) : d.path[m] = c.path[m]
        BY <1>1, <2>3, <2>4, AppendIs
      <4>2. Len(p) \in Nat /\ Len(c.path) \in Nat /\ Len(p) <= Len(c.path) /\ n \in 1 .. Len(c.path)
        BY <1>1, <3>3, <3>4 DEF Starts
      <4>3. \A m \in 1 .. Len(p) : m \in 1 .. Len(c.path)
        BY <4>2
      <4> QED  BY <3>4, <4>1, <4>2, <4>3 DEF Starts
    <3> QED  BY <3>1, <3>2, <3>5
  <2>7. Primary(d, merged + 1)
    BY <2>3, <2>6, FreshPrimary
  <2> QED  BY <2>1, <2>2, <2>3, <2>5, <2>7
<1> QED  BY <1>4, <1>5
(* A key of one of the two maps is passed: what is at or below it is       *)
(* merged, as the first map has it or as the second.                       *)
Alone(c) ==
  \/ Primary(c, merged) /\ Cell(merged + 1, c.path) \notin DOMAIN heap
  \/ c \in DOMAIN heap /\ c.map = merged + 1 /\ \A m \in 1 .. merged : Cell(m, c.path) \notin DOMAIN heap

LEMMA EntryAloneWhole ==
  ASSUME Inv, Whole, phase = "merge", calls # <<>>, Here.at <= Len(Here.out), SameTree, phase' = phase,
         protos' = protos, NEW cs, cs = calls', Passed(cs), Here.out[Here.at].key \notin Common(Here.one, Here.two)
  PROVE  /\ Complete' /\ Agree'
         /\ \A c : Primary(c, Upto(c))' /\ Upto(c)' # Upto(c) =>
              Upto(c) = merged /\ Upto(c)' = merged + 1 /\ Alone(c)
<1> DEFINE p == Here.one.path
           n == Len(calls)
           k == Here.out[Here.at].key
<1>1. /\ Complete /\ Agree /\ Heap /\ merged \in Nat /\ DOMAIN heap' = DOMAIN heap /\ source' = source
      /\ (\A c : Data(c)' = Data(c)) /\ merged' = merged
  BY CellsOf, SameData DEF Whole, Working, Inv, SameTree
<1>2. Passes(cs) /\ Len(cs) = n
  BY DEF Passed
<1>3. p \in Seq(STRING) /\ Len(p) + 1 = n /\ n \in Nat \ {0}
  BY HerePath
<1>4. \A c : Upto(c) = IF Touched(calls, c) THEN merged + 1 ELSE merged
  BY DEF Upto
<1>5. \A c : Upto(c)' = IF Touched(cs, c) THEN merged + 1 ELSE merged
  <2>1. \A c : Touched(calls, c)' = Touched(cs, c)
    BY DEF Touched, Key
  <2> QED  BY <1>1, <2>1 DEF Upto
<1>6. \A c : Touched(calls, c) => Touched(cs, c)
  BY <1>2, TouchedGrows
<1>7. \A c : Upto(c)' = Upto(c) \/ Upto(c)' = Upto(c) + 1
  BY <1>4, <1>5, <1>6
<1>8. ASSUME NEW c, Upto(c)' # Upto(c)
      PROVE  /\ Upto(c) = merged /\ Upto(c)' = merged + 1 /\ n <= Len(c.path) /\ c.path[n] = k
             /\ Starts(p, c) /\ Touched(cs, c)
  <2>1. Touched(cs, c) /\ ~Touched(calls, c)
    BY <1>4, <1>5, <1>6, <1>8
  <2>2. ~(Len(cs) > n)
    BY <1>2, <1>3
  <2>3. n <= Len(c.path) /\ c.path[n] = k /\ \A m \in 1 .. (n - 1) : c.path[m] = p[m]
    BY <1>2, <2>1, <2>2, TouchedPasses
  <2>4. Starts(p, c)
    <3> HIDE DEF n, p
    <3>1. Len(p) = n - 1 /\ Len(p) \in Nat
      BY <1>3
    <3>2. CASE Len(c.path) \in Nat
      BY <1>3, <2>3, <3>1, <3>2 DEF Starts
    <3> QED  BY <1>3, <2>3, <3>1 DEF Starts
  <2> QED  BY <1>4, <1>5, <2>1, <2>3, <2>4
<1>9. ASSUME NEW c \in DOMAIN heap, Upto(c)' # Upto(c), c.map <= merged + 1
      PROVE  \/ k \notin KeysOf(Data(Here.two)) /\ c.map <= merged
             \/ k \notin KeysOf(Data(Here.one)) /\ c.map = merged + 1
  BY <1>8, <1>9, AloneIs
<1> HIDE DEF n, p, k
<1>10. \A c : Primary(c, Upto(c))' /\ Upto(c)' # Upto(c) => Full(c, Upto(c))' /\ Leads(c)' /\ Alone(c)
  <2>1. ASSUME NEW c, Primary(c, Upto(c))', Upto(c)' # Upto(c)
        PROVE  Full(c, Upto(c))' /\ Leads(c)' /\ Alone(c)
    <3>1. /\ Upto(c) = merged /\ Upto(c)' = merged + 1 /\ n <= Len(c.path) /\ c.path[n] = k
          /\ Starts(p, c) /\ Touched(cs, c)
      BY <1>8, <2>1
    <3>2. c \in DOMAIN heap /\ c.map <= merged + 1 /\ Primary(c, merged + 1)
      <4>1. Primary(c, merged + 1)
        <5>1. Primary(c, merged + 1)'
          BY <1>1, <2>1, <3>1
        <5> QED  BY <1>1, <5>1 DEF Primary
      <4>2. c # Root
        BY <1>3, <3>1, RootIs
      <4> QED  BY <4>1, <4>2 DEF Primary
    <3>3. c.path \in Seq(STRING) /\ c.map \in Nat
      BY <3>2, CellsOf DEF Inv
    <3>4. CASE k \notin KeysOf(Data(Here.two)) /\ c.map <= merged
      <4>1. Primary(c, merged) /\ Full(c, merged) /\ Leads(c)
        BY <1>1, <3>1, <3>2, <3>4, PrimaryWas DEF Complete
      <4>2. Cell(merged + 1, c.path) \notin DOMAIN heap
        <5>1. ASSUME NEW e \in DOMAIN heap, e = Cell(merged + 1, c.path) PROVE FALSE
          <6>1. e.map = merged + 1 /\ e.path = c.path
            BY <5>1, CellIs
          <6>2. Starts(p, e)
            BY <3>1, <6>1 DEF Starts
          <6> QED  BY <3>1, <3>4, <6>1, <6>2, KeyOfMaps DEF n, p
        <5> QED  BY <5>1
      <4>3. \A m \in 1 .. (merged + 1) : m \in 1 .. merged \/ m = merged + 1
        BY <1>1
      <4>4. Full(c, merged + 1)
        BY <4>1, <4>2, <4>3 DEF Full
      <4>5. Full(c, merged + 1)'
        BY <1>1, <4>4, FullKept
      <4>6. Full(c, Upto(c))'
        BY <1>1, <3>1, <4>5
      <4>7. Alone(c)
        BY <4>1, <4>2 DEF Alone
      <4>8. Leads(c)'
        BY <1>1, <1>7, <4>1, LeadsKept
      <4> QED  BY <4>6, <4>7, <4>8
    <3>5. CASE k \notin KeysOf(Data(Here.one)) /\ c.map = merged + 1
      <4>1. /\ Full(c, merged + 1)
            /\ \A i \in DOMAIN Data(c) : isStructLike(Data(c)[i].val) =>
                 /\ Primary(Data(c)[i].val.cell, merged + 1)
                 /\ Data(c)[i].val.cell.path = Append(c.path, Data(c)[i].key) /\ Data(c)[i].key \in STRING
        BY <3>1, <3>2, <3>5, FreshWhole DEF n, p
      <4>2. Full(c, Upto(c))'
        <5>1. Full(c, merged + 1)'
          BY <1>1, <4>1, FullKept
        <5> QED  BY <1>1, <3>1, <5>1
      <4>3. ASSUME NEW i \in DOMAIN Data(c), isStructLike(Data(c)[i].val)
            PROVE  Primary(Data(c)[i].val.cell, Upto(Data(c)[i].val.cell))'
        <5>1. PICK d : d = Data(c)[i].val.cell
          OBVIOUS
        <5>2. Touched(cs, d)
          BY <1>2, <1>3, <3>1, <3>3, <4>1, <4>3, <5>1, TouchedExtends
        <5>3. Upto(d)' = merged + 1
          BY <1>5, <5>2
        <5>4. Primary(d, merged + 1)
          BY <4>1, <4>3, <5>1
        <5>5. Primary(d, merged + 1)'
          BY <1>1, <5>4 DEF Primary
        <5>6. Primary(d, Upto(d))'
          BY <1>1, <5>3, <5>5
        <5> QED  BY <1>1, <5>1, <5>6
      <4>4. Leads(c)'
        BY <1>1, <4>3 DEF Leads
      <4>5. Alone(c)
        BY <3>1, <3>2, <3>5, FreshPrimary DEF Alone, n, p
      <4> QED  BY <4>2, <4>4, <4>5
    <3> QED  BY <1>9, <2>1, <3>2, <3>4, <3>5
  <2> QED  BY <2>1
<1>11. Complete'
  BY <1>1, <1>7, <1>10, CompleteStep
<1>12. Agree'
  <2>1. ASSUME NEW c \in DOMAIN heap, NEW d \in DOMAIN heap, c.path = d.path, c.path # <<>>,
               c.map <= Upto(c)', d.map <= Upto(c)', Upto(c)' # Upto(c)
        PROVE  source.heap[c].type = source.heap[d].type
    <3>1. Upto(c) = merged /\ Upto(c)' = merged + 1
      BY <1>8, <2>1
    <3>2. /\ c.map \in Nat /\ d.map \in Nat /\ c = Cell(c.map, c.path) /\ d = Cell(d.map, d.path)
      BY CellsOf DEF Inv
    <3>3. \A m, x : (Starts(p, c) => Starts(p, d)) /\ c.path[n] = d.path[n]
      BY <2>1 DEF Starts
    <3>4. \/ k \notin KeysOf(Data(Here.two)) /\ c.map <= merged
          \/ k \notin KeysOf(Data(Here.one)) /\ c.map = merged + 1
      BY <1>9, <2>1, <3>1
    <3>5. \/ k \notin KeysOf(Data(Here.two)) /\ d.map <= merged
          \/ k \notin KeysOf(Data(Here.one)) /\ d.map = merged + 1
      <4>1. Upto(d)' # Upto(d)
        <5>1. \A z : Touched(z, c) = Touched(z, d)
          BY <2>1 DEF Touched
        <5> QED  BY <1>4, <1>5, <2>1, <5>1
      <4> QED  BY <1>9, <2>1, <3>1, <4>1
    <3>6. k \in KeysOf(Data(Here.one)) \/ k \in KeysOf(Data(Here.two))
      <4>1. Starts(p, c) /\ n <= Len(c.path) /\ c.path[n] = k
        BY <1>8, <2>1
      <4>2. c.map <= merged \/ c.map = merged + 1
        BY <1>1, <2>1, <3>1, <3>2
      <4> QED  BY <4>1, <4>2, KeyOfMaps DEF n, p
    <3>7. CASE c.map <= merged /\ d.map <= merged
      BY <1>1, <2>1, <3>1, <3>7 DEF Agree
    <3>8. CASE c.map = d.map
      BY <2>1, <3>2, <3>8
    <3> QED  BY <3>4, <3>5, <3>6, <3>7, <3>8
  <2>2. \A c, d \in DOMAIN heap :
           c.path = d.path /\ c.path # <<>> /\ (c.map <= Upto(c))' /\ (d.map <= Upto(c))' =>
             Upto(c)' = Upto(c) \/ source.heap[c].type = source.heap[d].type
    BY <2>1
  <2> QED  BY <1>1, <2>2, AgreeStep
<1> QED  BY <1>8, <1>10, <1>11, <1>12
LEMMA JoinsChild ==
  ASSUME Inv, Whole, phase = "merge", calls # <<>>, Here.at <= Len(Here.out),
         Here.out[Here.at].key \in Common(Here.one, Here.two)
  PROVE  Joins([one |-> Child, two |-> ChildOfTwo, out |-> Both(Data(Child), Data(ChildOfTwo)), at |-> 1])
<1> DEFINE k == Here.out[Here.at].key
           d == Data(Here.one)
           e == Data(Here.two)
<1>1. /\ AtKey(d, k) = Here.out[Here.at].val
      /\ Child \in DOMAIN heap /\ Child.map <= merged
      /\ Child.path = Append(Here.one.path, k)
      /\ ChildOfTwo \in DOMAIN heap /\ ChildOfTwo.map = merged + 1 /\ ChildOfTwo.path = Child.path
  BY ChildIs
<1>2. Place(Here.one) /\ Place(Here.two) /\ ~Touched(calls, Here.one) /\ ~Touched(calls, Child)
  BY <1>1, HerePath, ChildUntouched DEF Place
<1>3. Upto(Here.one) = merged /\ Upto(Child) = merged
  BY <1>2 DEF Upto
<1>4. Here = calls[Len(calls)] /\ Len(calls) \in 1 .. Len(calls) /\ Merges(Here)
  BY StackIs
<1>5. Primary(Here.one, merged)
  BY <1>4 DEF Whole, Working, Joined, Joins
<1>6. Leads(Here.one)
  BY <1>3, <1>5 DEF Whole, Working, Complete
<1>7. EntriesAt(source.heap, d, Here.one.path) /\ EntriesAt(source.heap, e, Here.two.path)
  BY <1>2 DEF Inv, Maps
<1>8. PICK i \in DOMAIN d : d[i].key = k /\ AtKey(d, k) = d[i].val
  BY <1>7, AtKeyIs DEF Common
<1>9. PICK j \in DOMAIN e : e[j].key = k /\ AtKey(e, k) = e[j].val
  BY <1>7, AtKeyIs DEF Common
<1>10. isStructLike(d[i].val) /\ isStructLike(e[j].val) /\ d[i].val.type = e[j].val.type
  <2>1. Here.at \in DOMAIN Here.out
    BY <1>4, StackIs
  <2>2. Checked(Here.one, Here.two, k) = "ok"
    BY <1>4, <2>1 DEF Merges
  <2> QED  BY <1>8, <1>9, <2>2, CheckIs DEF Checked
<1>11. d[i].val.cell = Child /\ e[j].val.cell = ChildOfTwo
  BY <1>1, <1>8, <1>9 DEF Child, ChildOfTwo
<1>12. Primary(Child, merged)
  BY <1>3, <1>6, <1>10, <1>11 DEF Leads
<1>13. source.heap[Child].type = source.heap[ChildOfTwo].type
  BY <1>7, <1>10, <1>11 DEF EntriesAt
<1> QED  BY <1>1, <1>12, <1>13, NewJoins DEF Known

LEMMA MergeEntryWhole ==
  ASSUME Inv, Whole, MergeEntry
  PROVE  /\ Whole'
         /\ phase' = "merge" =>
              /\ SameTree /\ protos' = protos
              /\ \A c : Primary(c, Upto(c))' /\ Upto(c)' # Upto(c) =>
                   Upto(c) = merged /\ Upto(c)' = merged + 1 /\ Alone(c)
<1> DEFINE n == Len(calls)
           k == Here.out[Here.at].key
<1>1. phase = "merge" /\ calls # <<>> /\ Here.at <= Len(Here.out)
  BY EntryCalls
<1>2. CASE phase' # "merge"
  BY <1>1, <1>2, EntryCalls, CallFailsWhole
<1>3. CASE phase' = "merge"
  <2>1. SameTree /\ phase' = phase /\ protos' = protos
    BY <1>3, EntryCalls
  <2>2. PICK cs : cs = calls' /\ Passed(cs)
    BY <1>3, EntryCalls
  <2>3. n \in Nat \ {0} /\ Passes(cs) /\ Len(cs) \in {n, n + 1}
    BY <1>1, <2>2, StackIs DEF Passed, Passes
  <2>4. Complete /\ Agree /\ protos = ProtoKeys /\ Joined(calls) /\ Heap
    BY <1>1 DEF Whole, Working, Inv
  <2>5. ProtoKeys' = ProtoKeys
    BY <2>1 DEF ProtoKeys, SameTree
  <2>6. \A m \in 1 .. n : Joins(cs[m])
    <3>1. ASSUME NEW m \in 1 .. n PROVE Joins(cs[m])
      <4>1. Joins(calls[m])
        BY <2>4 DEF Joined
      <4>2. cs[m].one = calls[m].one /\ cs[m].two = calls[m].two /\ cs[m].out = calls[m].out
        <5>1. CASE m = n
          BY <2>3, <5>1 DEF Passes
        <5>2. CASE m # n
          BY <2>3, <5>2 DEF Passes
        <5> QED  BY <5>1, <5>2
      <4> QED  BY <4>1, <4>2 DEF Joins
    <3> QED  BY <3>1
  <2>7. CASE k \notin Common(Here.one, Here.two)
    <3>1. /\ Complete' /\ Agree'
          /\ \A c : Primary(c, Upto(c))' /\ Upto(c)' # Upto(c) =>
               Upto(c) = merged /\ Upto(c)' = merged + 1 /\ Alone(c)
      BY <1>1, <2>1, <2>2, <2>7, EntryAloneWhole
    <3>2. Len(cs) = n
      BY <2>2, <2>7 DEF Passed
    <3>3. Joined(cs)'
      BY <2>1, <2>6, <3>2, SameJoins DEF Joined
    <3> QED  BY <1>1, <2>1, <2>2, <2>4, <2>5, <3>1, <3>3 DEF Whole
  <2>8. CASE k \in Common(Here.one, Here.two)
    <3> DEFINE g == [one |-> Child, two |-> ChildOfTwo, out |-> Both(Data(Child), Data(ChildOfTwo)), at |-> 1]
    <3>1. Len(cs) = n + 1 /\ cs[n + 1] = g
      BY <2>2, <2>8 DEF Passed
    <3>2. g.at = 1 /\ Joins(g)
      BY <1>1, <2>8, JoinsChild
    <3> HIDE DEF g, n
    <3>3. \A m \in 1 .. (n + 1) : m \in 1 .. n \/ m = n + 1
      BY <2>3
    <3>4. Joined(cs)'
      <4>1. \A m \in 1 .. (n + 1) : Joins(cs[m])
        BY <2>6, <3>1, <3>2, <3>3
      <4> QED  BY <2>1, <3>1, <4>1, SameJoins DEF Joined
    <3>5. \A c : Upto(c)' = Upto(c)
      <4>1. \A c : Touched(cs, c) => Touched(calls, c)
        <5>1. Len(cs) # Len(calls) /\ cs[Len(calls) + 1].at = 1
          BY <2>3, <3>1, <3>2 DEF n
        <5> QED  BY <1>1, <2>3, <5>1, TouchedPasses
      <4>2. \A c : Touched(calls, c) => Touched(cs, c)
        BY <1>1, <2>3, TouchedGrows
      <4>3. \A c : Touched(calls, c)' = Touched(calls, c)
        <5>1. \A c : Touched(calls, c)' = Touched(cs, c)
          BY <2>2 DEF Touched, Key
        <5>2. \A c : Touched(calls, c) \in BOOLEAN /\ Touched(cs, c) \in BOOLEAN
          BY DEF Touched
        <5> QED  BY <4>1, <4>2, <5>1, <5>2
      <4> QED  BY <1>1, <2>1, <4>3 DEF Upto, SameTree
    <3>6. Complete' /\ Agree'
      BY <2>1, <2>4, <3>5, SameWhole
    <3> QED  BY <1>1, <2>1, <2>2, <2>4, <2>5, <3>4, <3>5, <3>6 DEF Whole
  <2> QED  BY <2>7, <2>8
<1> QED  BY <1>2, <1>3
-----------------------------------------------------------------------------
(* A call returns. *)

(* What the waiting call has passed is what was passed, or at or below the *)
(* struct that has been merged.                                            *)
LEMMA TouchedWas ==
  ASSUME Inv, phase = "merge", Len(calls) > 1, NEW cs, Len(cs) = Len(calls) - 1,
         \A m \in 1 .. (Len(calls) - 1) : cs[m] = calls[m],
         NEW c, c.path \in Seq(STRING), Touched(cs, c)
  PROVE  Touched(calls, c) \/ Starts(Here.one.path, c)
<1> DEFINE n == Len(calls)
<1>1. calls # <<>> /\ n = Len(calls)
  OBVIOUS
<1>2. n \in Nat \ {0, 1} /\ Here = calls[n] /\ Len(cs) = n - 1
  <2>1. n \in Nat \ {0}
    BY <1>1, StackIs
  <2> QED  BY <1>1, <2>1, StackIs
<1>3. Len(Here.one.path) = n - 1 /\ \A m \in 1 .. (n - 1) : Here.one.path[m] = Key(calls, m)
  <2>1. At(calls, n)
    BY <1>1, <1>2, StackIs
  <2> QED  BY <1>2, <2>1 DEF At
<1>4. \A m \in 1 .. (n - 1) : cs[m] = calls[m] /\ Key(cs, m) = Key(calls, m)
  BY DEF Key
<1> HIDE DEF n
<1>5. PICK k \in 1 .. (n - 1) : \E j \in 1 .. (cs[k].at - 1) :
        /\ k < Len(cs) => j # cs[k].at - 1
        /\ k <= Len(c.path) /\ c.path[k] = cs[k].out[j].key
        /\ \A m \in 1 .. (k - 1) : c.path[m] = Key(cs, m)
  BY <1>2 DEF Touched
<1>6. PICK j \in 1 .. (calls[k].at - 1) :
        /\ k < n - 1 => j # calls[k].at - 1
        /\ k <= Len(c.path) /\ c.path[k] = calls[k].out[j].key
        /\ \A m \in 1 .. (k - 1) : c.path[m] = Key(cs, m)
  BY <1>2, <1>4, <1>5
<1>7. k \in 1 .. n /\ k < n /\ \A m \in 1 .. (k - 1) : m \in 1 .. (n - 1) /\ c.path[m] = Key(calls, m)
  <2>1. k \in 1 .. n /\ k < n /\ \A m \in 1 .. (k - 1) : m \in 1 .. (n - 1)
    BY <1>2, <1>5
  <2> QED  BY <1>4, <1>6, <2>1
<1>8. CASE j # calls[k].at - 1
  BY <1>1, <1>6, <1>7, <1>8 DEF Touched
<1>9. CASE j = calls[k].at - 1
  <2>1. k = n - 1
    BY <1>2, <1>5, <1>6, <1>9
  <2>2. c.path[k] = Key(calls, k)
    BY <1>6, <1>9 DEF Key
  <2>3. \A m \in 1 .. (n - 1) : m \in 1 .. (k - 1) \/ m = k
    BY <1>2, <2>1
  <2>4. \A m \in 1 .. (n - 1) : c.path[m] = Here.one.path[m]
    BY <1>3, <1>7, <2>1, <2>2, <2>3
  <2>5. Len(Here.one.path) <= Len(c.path)
    BY <1>3, <1>6, <2>1
  <2> QED  BY <1>3, <2>4, <2>5 DEF Starts
<1> QED  BY <1>8, <1>9

(* All that is below the struct has been passed when its call returns. *)
LEMMA BelowTouched ==
  ASSUME Inv, Whole, phase = "merge", calls # <<>>, Here.at > Len(Here.out),
         NEW c \in DOMAIN heap, c.map <= merged + 1, Starts(Here.one.path, c), Len(calls) <= Len(c.path)
  PROVE  Touched(calls, c)
<1>1. merged \in Nat /\ c.map \in Nat /\ c.path \in Seq(STRING)
  BY CellsOf DEF Inv
<1>2. Here = calls[Len(calls)] /\ Len(calls) \in 1 .. Len(calls)
      /\ Here.at \in Nat /\ Len(Here.out) \in Nat /\ DOMAIN Here.out = 1 .. Len(Here.out)
  BY StackIs
<1>3. KeysOf(Here.out) = KeysOf(Data(Here.one)) \cup KeysOf(Data(Here.two))
  BY <1>2 DEF Whole, Working, Joined, Joins
<1>4. c.map <= merged \/ c.map = merged + 1
  BY <1>1
<1>5. c.path[Len(calls)] \in KeysOf(Here.out)
  BY <1>3, <1>4, KeyOfMaps
<1>6. PICK j \in DOMAIN Here.out : Here.out[j].key = c.path[Len(calls)]
  BY <1>5 DEF KeysOf
<1>7. j \in 1 .. (Here.at - 1)
  BY <1>2
<1> QED  BY <1>1, <1>6, <1>7, PassedBelow

LEMMA ReturnIs ==
  ASSUME Inv, ReturnMerged
  PROVE  /\ phase = "merge" /\ phase' = phase /\ calls # <<>> /\ Here.at > Len(Here.out)
         /\ source' = source /\ protos' = protos
         /\ merged' = IF Len(calls) = 1 THEN merged + 1 ELSE merged
         /\ DOMAIN heap' = DOMAIN heap /\ Place(Here.one)
         /\ \A c : Place(c) => Data(c)' = IF c = Here.one THEN Here.out ELSE Data(c)
         /\ \E cs : cs = calls' /\ Len(cs) = Len(calls) - 1 /\ \A m \in 1 .. (Len(calls) - 1) : cs[m] = calls[m]
<1>1. phase = "merge" /\ calls # <<>> /\ Write(Target, Here.out) /\ calls' = Front(calls)
      /\ merged' = (IF Len(calls) = 1 THEN merged + 1 ELSE merged) /\ phase' = phase /\ source' = source
      /\ Here.at > Len(Here.out) /\ protos' = protos
  BY DEF ReturnMerged, Merging
<1>2. Len(calls) \in Nat \ {0} /\ calls \in Seq(ToSet(calls)) /\ Merges(Here)
  BY <1>1, StackIs
<1>3. Target = Here.one /\ Place(Here.one)
  BY <1>1, TargetIs DEF Known, Place
<1>4. EntriesAt(source.heap, Here.out, Here.one.path)
  BY <1>2 DEF Merges
<1>5. /\ DOMAIN heap' = DOMAIN heap
      /\ \A c : Place(c) => Data(c)' = IF c = Here.one THEN Here.out ELSE Data(c)
  <2>1. PICK t : t = Here.one
    OBVIOUS
  <2>2. PICK out : out = Here.out
    OBVIOUS
  <2>3. Place(t) /\ Write(t, out) /\ EntriesAt(source.heap, out, t.path) /\ source' = source
    BY <1>1, <1>3, <1>4, <2>1, <2>2
  <2>4. /\ DOMAIN heap' = DOMAIN heap
        /\ \A c : Place(c) => Data(c)' = IF c = t THEN out ELSE Data(c)
    BY <2>3, WriteIs DEF Inv
  <2> QED  BY <2>1, <2>2, <2>4
<1>6. PICK cs : cs = calls' /\ cs = Front(calls)
  BY <1>1
<1>7. Len(calls) # 0
  BY <1>2
<1>8. Len(cs) = Len(calls) - 1 /\ \A m \in 1 .. (Len(calls) - 1) : cs[m] = calls[m]
  BY <1>2, <1>6, <1>7, FrontIs
<1> QED  BY <1>1, <1>3, <1>5, <1>6, <1>8
LEMMA ReturnMergedWhole ==
  ASSUME Inv, Whole, ReturnMerged
  PROVE  /\ Whole'
         /\ \E t : /\ t = Here.one /\ Primary(t, merged) /\ Upto(t) = merged /\ Upto(t)' = merged + 1
                  /\ \A c : Primary(c, Upto(c))' => c = t \/ (Upto(c)' = Upto(c) /\ Data(c)' = Data(c))
<1>0. PICK n, t, out, all : n = Len(calls) /\ t = Here.one /\ out = Here.out /\ all = merged + 1
  OBVIOUS
<1>1. /\ phase = "merge" /\ phase' = phase /\ calls # <<>> /\ Here.at > Len(Here.out)
      /\ source' = source /\ protos' = protos
      /\ merged' = (IF n = 1 THEN merged + 1 ELSE merged)
      /\ DOMAIN heap' = DOMAIN heap /\ Place(t)
      /\ \A c : Place(c) => Data(c)' = IF c = t THEN out ELSE Data(c)
  BY <1>0, ReturnIs
<1>2. PICK cs : cs = calls' /\ Len(cs) = n - 1 /\ \A m \in 1 .. (n - 1) : cs[m] = calls[m]
  BY <1>0, ReturnIs
<1>3. /\ t.path \in Seq(STRING) /\ Len(t.path) + 1 = n /\ n \in Nat \ {0}
      /\ (t = Root <=> n = 1) /\ ~Touched(calls, t)
      /\ Here.two = Cell(merged + 1, t.path) /\ Here.two \in DOMAIN heap
      /\ Data(Here.two) = source.heap[Here.two].data
  BY <1>0, <1>1, HerePath
<1>4. /\ Complete /\ Agree /\ Heap /\ protos = ProtoKeys /\ Joined(calls) /\ merged \in Nat
      /\ DOMAIN heap = DOMAIN source.heap
  BY <1>1, CellsOf DEF Whole, Working, Inv
<1>5. Joins(Here) /\ Here = calls[n]
  BY <1>0, <1>1, <1>4, StackIs DEF Joined
<1>6. \A c : Place(c) => c.path \in Seq(STRING) /\ c.map \in Nat
  BY PlaceIs DEF Inv
<1>7. ASSUME NEW c, Place(c)
      PROVE  /\ Upto(c) = IF Touched(calls, c) THEN merged + 1 ELSE merged
             /\ Upto(c)' \in {merged, merged + 1}
             /\ Touched(calls, c) \/ c = t => Upto(c)' = merged + 1
             /\ Upto(c)' = merged + 1 => Touched(calls, c) \/ Starts(t.path, c)
  <2>1. c.path \in Seq(STRING)
    BY <1>6, <1>7
  <2>2. Upto(c) = IF Touched(calls, c) THEN merged + 1 ELSE merged
    BY <1>1 DEF Upto
  <2>3. CASE n = 1
    <3>1. Len(cs) = 0 /\ merged' = merged + 1
      BY <1>1, <1>2, <2>3
    <3>2. ~Touched(calls, c)'
      BY <1>2, <3>1 DEF Touched
    <3>3. Upto(c)' = merged + 1
      BY <3>1, <3>2 DEF Upto
    <3>4. Starts(t.path, c)
      <4>1. Len(t.path) = 0
        BY <1>3, <2>3
      <4> QED  BY <2>1, <4>1 DEF Starts
    <3> QED  BY <2>2, <3>3, <3>4
  <2>4. CASE n # 1
    <3>1. merged' = merged /\ n > 1
      BY <1>1, <1>3, <2>4
    <3>2. Upto(c)' = IF Touched(cs, c) THEN merged + 1 ELSE merged
      <4>1. Touched(calls, c)' = Touched(cs, c)
        BY <1>2 DEF Touched, Key
      <4> QED  BY <1>1, <3>1, <4>1 DEF Upto
    <3>3. Touched(calls, c) \/ c = t => Touched(cs, c)
      BY <1>0, <1>1, <1>2, <2>1, <3>1, TouchedReturns
    <3>4. Touched(cs, c) => Touched(calls, c) \/ Starts(t.path, c)
      BY <1>0, <1>1, <1>2, <2>1, <3>1, TouchedWas
    <3> QED  BY <1>4, <2>2, <3>2, <3>3, <3>4
  <2> QED  BY <2>3, <2>4
<1>8. \A c : Place(c) => Upto(c)' = Upto(c) \/ Upto(c)' = Upto(c) + 1
  <2>1. ASSUME NEW c, Place(c) PROVE Upto(c)' = Upto(c) \/ Upto(c)' = Upto(c) + 1
    BY <1>4, <1>7, <2>1
  <2> QED  BY <2>1
(* Nothing is completed but the struct itself. *)
<1>9. ASSUME NEW c, Place(c), Upto(c)' # Upto(c), c.map <= merged + 1
      PROVE  Upto(c) = merged /\ Upto(c)' = merged + 1 /\ c.path = t.path
  <2>1. Upto(c) = merged /\ Upto(c)' = merged + 1 /\ ~Touched(calls, c) /\ Starts(t.path, c)
    BY <1>4, <1>7, <1>9
  <2>2. c.path \in Seq(STRING)
    BY <1>6, <1>9
  <2>3. CASE Len(c.path) = Len(t.path)
    BY <1>3, <2>1, <2>2, <2>3, SamePath
  <2>4. CASE Len(c.path) # Len(t.path)
    <3>1. n <= Len(c.path) /\ c.path # <<>>
      <4>1. Len(t.path) \in Nat /\ Len(t.path) <= Len(c.path) /\ Len(c.path) \in Nat
        BY <1>3, <2>1, <2>2 DEF Starts
      <4> QED  BY <1>3, <2>2, <2>4, <4>1
    <3>2. c \in DOMAIN heap
      BY <1>9, <3>1, RootIs DEF Place
    <3> QED  BY <1>0, <1>1, <1>9, <2>1, <3>1, <3>2, BelowTouched
  <2> QED  BY <2>1, <2>3, <2>4
<1>10. Primary(t, merged) /\ Upto(t) = merged /\ Upto(t)' = merged + 1 /\ Full(t, merged) /\ Leads(t)
  <2>1. Primary(t, merged)
    BY <1>0, <1>5 DEF Joins
  <2>2. Upto(t) = merged /\ Upto(t)' = merged + 1
    BY <1>1, <1>3, <1>7
  <2> QED  BY <1>4, <2>1, <2>2 DEF Complete
<1>11. /\ KeysOf(out) = KeysOf(Data(t)) \cup KeysOf(Data(Here.two))
       /\ \A i \in DOMAIN out :
            out[i].val = IF out[i].key \in KeysOf(Data(t)) THEN AtKey(Data(t), out[i].key)
                         ELSE AtKey(Data(Here.two), out[i].key)
       /\ t # Root => source.heap[t].type = source.heap[Here.two].type
  BY <1>0, <1>5 DEF Joins
<1>12. Data(t)' = out
  BY <1>1
<1>13. Full(t, all)'
  <2>1. ASSUME NEW m \in 1 .. (merged + 1), Cell(m, t.path) \in DOMAIN heap,
               NEW k \in KeysOf(source.heap[Cell(m, t.path)].data)
        PROVE  k \in KeysOf(out)
    <3>1. CASE m \in 1 .. merged
      <4>1. k \in KeysOf(Data(t))
        BY <1>4, <1>10, <2>1, <3>1 DEF Full
      <4> QED  BY <1>11, <4>1
    <3>2. CASE m = merged + 1
      BY <1>3, <1>11, <3>2
    <3> QED  BY <1>4, <3>1, <3>2
  <2>3. KeysOf(Data(t))' = KeysOf(out)
    BY <1>12 DEF KeysOf
  <2>4. ASSUME NEW m \in 1 .. all, Cell(m, t.path) \in DOMAIN heap,
               NEW k \in KeysOf(source.heap[Cell(m, t.path)].data)
        PROVE  k \in KeysOf(Data(t))'
    BY <1>0, <2>1, <2>3, <2>4
  <2> QED  BY <1>1, <2>4 DEF Full, KeysOf
<1>14. ASSUME NEW i \in DOMAIN out, isStructLike(out[i].val)
       PROVE  Primary(out[i].val.cell, Upto(out[i].val.cell))'
  <2>1. PICK d : d = out[i].val.cell
    OBVIOUS
  <2>2. PICK k : k = out[i].key
    OBVIOUS
  <2>3. EntriesAt(source.heap, out, t.path) /\ EntriesAt(source.heap, Data(t), t.path)
        /\ EntriesAt(source.heap, Data(Here.two), Here.two.path)
    <3>1. EntriesAt(source.heap, out, t.path)
      <4>1. Merges(calls[n]) /\ Here = calls[n]
        BY <1>0, <1>1, <1>5, StackIs
      <4>2. EntriesAt(source.heap, calls[n].out, calls[n].one.path)
        BY <4>1, Zenon DEF Merges
      <4> QED  BY <1>0, <4>1, <4>2
    <3> QED  BY <1>1, <1>3, <3>1 DEF Inv, Maps, Place
  <2>4. d \in DOMAIN heap /\ d.path = Append(t.path, k)
    BY <1>4, <1>14, <2>1, <2>2, <2>3 DEF EntriesAt
  <2>5. d.path \in Seq(STRING) /\ Place(d)
    BY <1>6, <2>4 DEF Place
  <2>6. /\ k \in STRING /\ Len(d.path) = n /\ d.path[n] = k
        /\ \A m \in 1 .. Len(t.path) : d.path[m] = t.path[m]
    BY <1>3, <2>4, <2>5, AppendIs
  <2>7. Starts(t.path, d) /\ n <= Len(d.path)
    <3>1. Len(t.path) \in Nat
      BY <1>3
    <3> QED  BY <1>3, <2>6, <3>1 DEF Starts
  <2>8. Touched(calls, d)
    <3>1. i \in 1 .. (Here.at - 1)
      <4>1. PICK f : f = Here
        OBVIOUS
      <4>2. f.at \in Nat /\ Len(f.out) \in Nat /\ DOMAIN f.out = 1 .. Len(f.out) /\ f.out = out /\ f.at > Len(f.out)
        BY <1>0, <1>1, <1>3, <1>5, <4>1, StackIs
      <4>3. i \in 1 .. (f.at - 1)
        BY <4>2
      <4> QED  BY <4>1, <4>3
    <3>2. d.path[n] = Here.out[i].key
      BY <1>0, <2>2, <2>6
    <3> QED  BY <1>0, <1>1, <2>5, <2>7, <3>1, <3>2, PassedBelow
  <2>9. Upto(d) = merged + 1 /\ Upto(d)' = merged + 1
    BY <1>7, <2>5, <2>8
  <2>10. Primary(d, merged + 1)
    <3>1. CASE k \in KeysOf(Data(t))
      <4>1. PICK j \in DOMAIN Data(t) : Data(t)[j].key = k /\ AtKey(Data(t), k) = Data(t)[j].val
        BY <2>3, <3>1, AtKeyIs
      <4>2. Data(t)[j].val = out[i].val
        BY <1>11, <2>2, <3>1, <4>1
      <4> QED  BY <1>10, <1>14, <2>1, <2>9, <4>2 DEF Leads
    <3>2. CASE k \notin KeysOf(Data(t))
      <4>1. k \in KeysOf(Data(Here.two))
        <5>1. k \in KeysOf(out)
          BY <2>2 DEF KeysOf
        <5> QED  BY <1>11, <3>2, <5>1
      <4>2. PICK j \in DOMAIN Data(Here.two) :
              Data(Here.two)[j].key = k /\ AtKey(Data(Here.two), k) = Data(Here.two)[j].val
        BY <2>3, <4>1, AtKeyIs
      <4>3. Data(Here.two)[j].val = out[i].val
        BY <1>11, <2>2, <3>2, <4>2
      <4>4. d.map = merged + 1
        <5>1. Here.two.map = merged + 1 /\ Here.two.map > merged
          BY <1>3, <1>4, CellIs
        <5> QED  BY <1>1, <1>3, <1>14, <2>1, <4>3, <5>1, PendingIs
      <4> QED  BY <1>0, <1>1, <2>4, <2>6, <2>7, <3>2, <4>4, FreshPrimary
    <3> QED  BY <3>1, <3>2
  <2>11. Primary(d, all)
    BY <1>0, <2>10
  <2>12. Primary(d, all)'
    BY <1>1, <2>11 DEF Primary
  <2>13. Upto(d)' = all
    BY <1>0, <2>9
  <2> QED  BY <2>1, <2>12, <2>13
<1>15. \A c : Primary(c, Upto(c))' =>
         \/ c # t /\ Upto(c)' = Upto(c) /\ Data(c)' = Data(c)
         \/ c = t /\ Full(c, Upto(c))' /\ Leads(c)'
  <2>1. ASSUME NEW c, Primary(c, Upto(c))'
        PROVE  \/ c # t /\ Upto(c)' = Upto(c) /\ Data(c)' = Data(c)
               \/ c = t /\ Full(c, Upto(c))' /\ Leads(c)'
    <3>1. Place(c) /\ (c = Root \/ (c.path # <<>> /\ c.map <= merged + 1))
      <4>1. c = Root \/ (c \in DOMAIN heap /\ c.path # <<>> /\ c.map <= Upto(c)')
        BY <1>1, <2>1 DEF Primary
      <4>2. Place(c)
        BY <4>1 DEF Place
      <4>3. Upto(c)' \in {merged, merged + 1} /\ c.map \in Nat
        BY <1>6, <1>7, <4>2
      <4> QED  BY <1>4, <4>1, <4>2, <4>3
    <3>2. CASE c = t
      <4>1. Full(c, Upto(c))'
        <5>1. Upto(t)' = all
          BY <1>0, <1>10
        <5> QED  BY <1>13, <3>2, <5>1
      <4>2. Leads(c)'
        BY <1>12, <1>14, <3>2 DEF Leads
      <4> QED  BY <3>2, <4>1, <4>2
    <3>3. CASE c # t
      <4>1. Data(c)' = Data(c)
        BY <1>1, <3>1, <3>3
      <4>2. ASSUME Upto(c)' # Upto(c) PROVE FALSE
        <5>1. c.map <= merged + 1
          BY <1>4, <3>1, RootIs
        <5>2. Upto(c)' = merged + 1 /\ c.path = t.path
          BY <1>9, <3>1, <4>2, <5>1
        <5>3. CASE n = 1
          <6>1. c.path = <<>> /\ t = Root
            BY <1>3, <5>2, <5>3
          <6> QED  BY <3>1, <3>3, <6>1
        <5>4. CASE n # 1
          <6>1. c.path # <<>> /\ t # Root
            BY <1>3, <5>2, <5>4
          <6>2. c # Root
            BY <6>1, RootIs
          <6>3. Primary(c, merged + 1)
            <7>1. Primary(c, all)'
              BY <1>0, <2>1, <5>2
            <7>2. Primary(c, all)
              BY <1>1, <7>1 DEF Primary
            <7> QED  BY <1>0, <7>2
          <6> QED  BY <1>4, <1>10, <3>3, <5>2, <6>1, <6>2, <6>3, PrimaryOnly
        <5> QED  BY <5>3, <5>4
      <4> QED  BY <3>3, <4>1, <4>2
    <3> QED  BY <3>2, <3>3
  <2> QED  BY <2>1
<1>16. Complete'
  <2>1. protos' = protos /\ DOMAIN heap' = DOMAIN heap /\ source' = source
    BY <1>1
  <2> QED  BY <1>4, <1>8, <1>15, <2>1, CompleteStep
<1>17. Agree'
  <2>1. ASSUME NEW c \in DOMAIN heap, NEW d \in DOMAIN heap, c.path = d.path, c.path # <<>>,
               (c.map <= Upto(c))', (d.map <= Upto(c))', Upto(c)' # Upto(c)
        PROVE  source.heap[c].type = source.heap[d].type
    <3>1. Place(c) /\ Place(d) /\ c.map \in Nat /\ d.map \in Nat /\ c = Cell(c.map, c.path) /\ d = Cell(d.map, d.path)
      BY <1>6, <1>4, CellsOf DEF Place
    <3>2. c.map <= merged + 1 /\ d.map <= merged + 1
      BY <1>4, <1>7, <2>1, <3>1
    <3>3. c.path = t.path
      BY <1>9, <2>1, <3>1, <3>2
    <3>4. t # Root /\ t \in DOMAIN heap /\ t.map <= merged
      <4>1. t # Root
        BY <2>1, <3>3, RootIs
      <4> QED  BY <1>10, <4>1 DEF Primary
    <3>5. ASSUME NEW x \in DOMAIN heap, x.path = t.path, x.map <= merged + 1, x.map \in Nat,
                 x = Cell(x.map, x.path)
          PROVE  source.heap[x].type = source.heap[t].type
      <4>1. CASE x.map <= merged
        BY <1>4, <1>10, <2>1, <3>3, <3>4, <3>5, <4>1 DEF Agree
      <4>2. CASE ~(x.map <= merged)
        <5>1. x.map = merged + 1
          BY <1>4, <3>5, <4>2
        <5> QED  BY <1>3, <1>11, <3>4, <3>5, <5>1
      <4> QED  BY <4>1, <4>2
    <3> QED  BY <2>1, <3>1, <3>2, <3>3, <3>5
  <2>2. source' = source /\ DOMAIN heap' = DOMAIN heap
    BY <1>1
  <2> QED  BY <1>4, <2>1, <2>2, AgreeStep
<1>18. Joined(calls)'
  <2>1. ASSUME NEW m \in 1 .. (n - 1) PROVE Joins(cs[m])'
    <3>1. m \in 1 .. n /\ m < n /\ n # 1 /\ m - 1 # n - 1
      BY <1>3
    <3>2. PICK f : f = cs[m]
      OBVIOUS
    <3>3. f = calls[m] /\ Joins(f) /\ Merges(f) /\ At(calls, m)
      BY <1>0, <1>1, <1>2, <1>4, <3>1, <3>2, StackIs DEF Joined
    <3>4. Place(f.one) /\ f.one # t
      <4>1. Len(f.one.path) = m - 1 /\ Len(t.path) = n - 1
        BY <1>3, <3>3 DEF At
      <4> QED  BY <3>1, <3>3, <4>1 DEF Merges, Known, Place
    <3>5. Place(f.two) /\ f.two # t
      <4>1. f.two \in DOMAIN heap /\ f.two.map = merged + 1
        BY <3>3 DEF Merges
      <4>2. t.map <= merged
        BY <1>4, <1>10, RootIs DEF Primary
      <4> QED  BY <1>4, <4>1, <4>2 DEF Place
    <3>6. Data(f.one)' = Data(f.one) /\ Data(f.two)' = Data(f.two)
      BY <1>1, <3>4, <3>5
    <3>7. merged' = merged
      BY <1>1, <3>1
    <3>8. Joins(f)'
      BY <1>1, <3>3, <3>6, <3>7, JoinsKept
    <3> QED  BY <3>2, <3>8
  <2> QED  BY <1>2, <2>1 DEF Joined
<1>19. ProtoKeys' = ProtoKeys
  BY <1>1 DEF ProtoKeys
<1>20. Whole'
  BY <1>1, <1>4, <1>16, <1>17, <1>18, <1>19 DEF Whole
<1>21. \A c : Primary(c, Upto(c))' => c = t \/ (Upto(c)' = Upto(c) /\ Data(c)' = Data(c))
  BY <1>15
<1> QED  BY <1>0, <1>10, <1>20, <1>21
-----------------------------------------------------------------------------
(* Overrides and protos: a struct of the tree is written. *)

LEMMA WrittenWhole ==
  ASSUME Inv, Whole, phase \in {"overrides", "strip"}, NEW t, Place(t), NEW data, Write(t, data),
         EntriesAt(source.heap, data, t.path),
         \A i \in DOMAIN data : isStructLike(data[i].val) => \E j \in DOMAIN Data(t) : data[i] = Data(t)[j],
         \A k \in KeysOf(Data(t)) : k \in KeysOf(data) \/ Append(t.path, k) \in ProtoKeys \ protos',
         protos' \subseteq protos, source' = source, merged' = merged, phase' = phase
  PROVE  Whole'
<1>1. /\ DOMAIN heap' = DOMAIN heap /\ \A c : Place(c) => Data(c)' = IF c = t THEN data ELSE Data(c)
  BY WriteIs DEF Inv
<1>2. \A c : Upto(c) = merged /\ Upto(c)' = merged
  BY DEF Upto
<1>3. Complete /\ Agree
  BY DEF Whole, Working
<1>4. PICK all : all = merged
  OBVIOUS
<1>5. ASSUME NEW c, Primary(c, all)
      PROVE  Full(c, all)' /\ \A i \in DOMAIN (Data(c)') : isStructLike(Data(c)'[i].val) =>
               Primary(Data(c)'[i].val.cell, all)
  <2>1. Place(c) /\ Full(c, all) /\ Leads(c)
    BY <1>2, <1>3, <1>4, <1>5 DEF Complete, Primary, Place
  <2>2. \A i \in DOMAIN Data(c) : isStructLike(Data(c)[i].val) => Primary(Data(c)[i].val.cell, all)
    BY <1>2, <1>4, <2>1 DEF Leads
  <2>3. \A k \in KeysOf(Data(c)) : k \in KeysOf(Data(c)') \/ Append(c.path, k) \in ProtoKeys \ protos'
    BY <1>1, <2>1
  <2>4. KeysOf(Data(c))' = KeysOf(Data(c)')
    BY DEF KeysOf
  <2>5. ProtoKeys' = ProtoKeys
    BY DEF ProtoKeys
  <2>6. ASSUME NEW m \in 1 .. all, Cell(m, c.path) \in DOMAIN heap,
               NEW k \in KeysOf(source.heap[Cell(m, c.path)].data)
        PROVE  k \in KeysOf(Data(c))' \/ Append(c.path, k) \in ProtoKeys' \ protos'
    <3>1. k \in KeysOf(Data(c)) \/ Append(c.path, k) \in ProtoKeys \ protos
      BY <2>1, <2>6 DEF Full
    <3> QED  BY <2>3, <2>4, <2>5, <3>1
  <2>7. Full(c, all)'
    BY <1>1, <2>6 DEF Full, KeysOf
  <2>8. ASSUME NEW i \in DOMAIN (Data(c)'), isStructLike(Data(c)'[i].val)
        PROVE  Primary(Data(c)'[i].val.cell, all)
    BY <1>1, <2>1, <2>2, <2>8
  <2> QED  BY <2>7, <2>8
<1>6. \A c : Primary(c, all)' = Primary(c, all)
  BY <1>1 DEF Primary
<1>7. Complete'
  <2>1. ASSUME NEW c, Primary(c, all)'
        PROVE  Full(c, all)' /\ Leads(c)'
    <3>1. Primary(c, all)
      BY <1>1, <2>1 DEF Primary
    <3>2. Full(c, all)' /\ \A i \in DOMAIN (Data(c)') : isStructLike(Data(c)'[i].val) =>
               Primary(Data(c)'[i].val.cell, all)
      BY <1>5, <3>1
    <3>3. \A d : Upto(d)' = all
      BY <1>2, <1>4
    <3>4. ASSUME NEW i \in DOMAIN (Data(c)'), isStructLike(Data(c)'[i].val)
          PROVE  Primary(Data(c)[i].val.cell, Upto(Data(c)[i].val.cell))'
      <4>1. PICK d : d = Data(c)'[i].val.cell
        OBVIOUS
      <4>2. Primary(d, all) /\ Upto(d)' = all
        BY <3>2, <3>3, <3>4, <4>1
      <4>3. Primary(d, all)'
        BY <1>1, <4>2 DEF Primary
      <4> QED  BY <4>1, <4>2, <4>3
    <3> QED  BY <3>2, <3>4 DEF Leads
  <2>2. \A c : Upto(c)' = all
    BY <1>2, <1>4
  <2> QED  BY <2>1, <2>2 DEF Complete
<1>8. Agree'
  BY <1>1, <1>2, <1>3 DEF Agree
<1> QED  BY <1>7, <1>8 DEF Whole

LEMMA ApplyOverrideWhole == ASSUME Inv, Whole, Counts, ApplyOverride PROVE Whole'
<1> DEFINE o == source.overrides[applied + 1]
           nested == getNestedConfig(o.key)
<1>1. CASE Fail("InvalidTypeException") \/ Fail("InvalidOverrideException")
  BY <1>1, FailWhole
<1>2. CASE ~(Fail("InvalidTypeException") \/ Fail("InvalidOverrideException"))
  <2>1. Last(o.key) \in KeysOf(Data(nested.cell)) /\ phase = "overrides"
        /\ Write(nested.cell, With(Data(nested.cell), Last(o.key), o.val))
        /\ applied < Len(source.overrides)
        /\ UNCHANGED <<source, calls, merged, protos, phase>>
    BY <1>2 DEF ApplyOverride, Apply
  <2>2. o.key \in Seq(STRING) /\ ~isStructLike(o.val)
    <3>1. /\ source.overrides \in Seq(ToSet(source.overrides))
          /\ \A i \in DOMAIN source.overrides :
               source.overrides[i].key \in Seq(STRING) /\ ~isStructLike(source.overrides[i].val)
      BY SourcesAssumption DEF Inv, Heap
    <3>2. applied + 1 \in DOMAIN source.overrides
      BY <2>1, <3>1 DEF Counts
    <3> QED  BY <3>1, <3>2
  <2>3. PICK k, v : k = Last(o.key) /\ v = o.val
    OBVIOUS
  <2> HIDE DEF o
  <2>4. nested \in Nested
    BY <2>2, FrontOfAny, NestedIs DEF Inv
  <2> HIDE DEF nested
  <2>5. PICK t : t = nested.cell
    OBVIOUS
  <2>6. Place(t)
    BY <2>4, <2>5 DEF Nested, Place
  <2>7. PICK data : data = With(Data(t), k, v)
    OBVIOUS
  <2>8. EntriesAt(source.heap, Data(t), t.path)
    BY <2>6 DEF Inv, Maps
  <2>9. EntriesAt(source.heap, data, t.path) /\ KeysOf(data) = KeysOf(Data(t))
    BY <2>2, <2>3, <2>7, <2>8, WithIs
  <2>10. Write(t, data) /\ protos' = protos /\ source' = source /\ merged' = merged /\ phase' = phase
    BY <2>1, <2>3, <2>5, <2>7
  <2>11. \A i \in DOMAIN data : isStructLike(data[i].val) => \E j \in DOMAIN Data(t) : data[i] = Data(t)[j]
    <3>1. ASSUME NEW i \in DOMAIN data, isStructLike(data[i].val) PROVE i \in DOMAIN Data(t) /\ data[i] = Data(t)[i]
      <4>1. DOMAIN data = DOMAIN Data(t)
            /\ data[i] = IF Data(t)[i].key = k THEN [key |-> k, val |-> v] ELSE Data(t)[i]
        BY <2>7, <3>1 DEF With
      <4>2. Data(t)[i].key # k
        BY <2>2, <2>3, <3>1, <4>1
      <4> QED  BY <4>1, <4>2
    <3> QED  BY <3>1
  <2> QED  BY <2>1, <2>6, <2>9, <2>10, <2>11, WrittenWhole
<1> QED  BY <1>1, <1>2

(* The key of a proto that is not removed is there as far as its path has  *)
(* not been overridden.                                                    *)
LEMMA KeyThere ==
  ASSUME Inv, Whole, phase = "strip", ProtosAre, NEW key \in protos, NEW n \in Nat, n < Len(key),
         NEW c, Primary(c, merged), c.path = SubSeq(key, 1, n)
  PROVE  key[n + 1] \in KeysOf(Data(c))
<1>1. /\ source \in Sources /\ merged = source.maps /\ DOMAIN heap = DOMAIN source.heap
      /\ \A d \in DOMAIN heap : d.map \in 1 .. merged /\ d.path \in Seq(STRING)
  BY CellsOf DEF Inv, Heap
<1>2. (\A d : Upto(d) = merged) /\ Complete /\ Agree
  BY DEF Whole, Working, Upto
<1>3. PICK e \in DOMAIN source.heap : source.heap[e].type = "kProto" /\ e.path = key
  BY DEF ProtosAre, ProtoKeys
<1>4. key \in Seq(STRING) /\ Len(key) \in Nat /\ e.map \in 1 .. merged
  BY <1>1, <1>3
<1>5. Cell(e.map, c.path) \in DOMAIN heap /\ key[n + 1] \in KeysOf(source.heap[Cell(e.map, c.path)].data)
  BY <1>1, <1>3, PrefixCell
<1>6. Full(c, merged)
  BY <1>2 DEF Complete
<1>7. key[n + 1] \in KeysOf(Data(c)) \/ Append(c.path, key[n + 1]) \in ProtoKeys \ protos
  BY <1>4, <1>5, <1>6 DEF Full
<1>8. ASSUME Append(c.path, key[n + 1]) \in ProtoKeys \ protos PROVE FALSE
  <2> DEFINE q == SubSeq(key, 1, n + 1)
  <2>1. Append(c.path, key[n + 1]) = q
    BY <1>4
  <2>2. q \in Seq(STRING) /\ Len(q) = n + 1 /\ q # <<>>
    BY <1>4
  <2>3. n + 1 < Len(key)
    <3>1. ASSUME n + 1 = Len(key) PROVE FALSE
      <4>1. q = key
        BY <1>4, <3>1
      <4> QED  BY <1>8, <2>1, <4>1
    <3> QED  BY <1>4, <3>1
  <2>4. Cell(e.map, q) \in DOMAIN source.heap
    BY <1>1, <1>3, <2>3, PrefixCell
  <2>5. SubSeq(q, 1, Len(q)) = SubSeq(key, 1, Len(q)) /\ q # key
    BY <1>4, <2>2, <2>3
  <2> HIDE DEF q
  <2>6. PICK d \in DOMAIN source.heap : source.heap[d].type = "kProto" /\ d.path = q
    BY <1>8, <2>1 DEF ProtoKeys
  <2>7. PICK f \in DOMAIN source.heap : f = Cell(e.map, q)
    BY <2>4
  <2>8. f.map = e.map /\ f.path = q
    BY <2>7, CellIs
  <2>9. source.heap[f].type = "kProto"
    <3>1. f.map <= merged /\ d.map <= merged
      BY <1>1, <2>6, <2>7
    <3> QED  BY <1>1, <1>2, <2>2, <2>6, <2>8, <3>1 DEF Agree
  <2>10. ~IsStrictPrefix(q, key)
    BY <1>1, <1>3, <2>8, <2>9, SourcesAssumption
  <2>11. IsStrictPrefix(q, key)
    BY <1>4, <2>2, <2>3, <2>5 DEF IsStrictPrefix, IsPrefix
  <2> QED  BY <2>10, <2>11
<1> QED  BY <1>7, <1>8
(* Following the key of a proto leads to the struct it is in, or to a      *)
(* value that an override has put in the way.                              *)
Along(at, key, k) ==
  /\ at.error \in {"ok", "InvalidTypeException"}
  /\ at.error = "ok" => Primary(at.cell, merged) /\ at.cell.path = SubSeq(key, 1, k)

LEMMA AlongStep ==
  ASSUME Inv, Whole, phase = "strip", ProtosAre, NEW key \in protos, NEW k \in Nat \ {0}, k < Len(key),
         NEW at \in Nested, Along(at, key, k - 1)
  PROVE  Along(Nest(at, key[k]), key, k)
<1>1. key \in Seq(STRING) /\ Len(key) \in Nat
  <2>1. source \in Sources
    BY DEF Inv, Heap
  <2>2. \A c \in DOMAIN source.heap : c.path \in Seq(STRING)
    BY <2>1, SourceIs
  <2> QED  BY <2>2 DEF ProtosAre, ProtoKeys
<1>2. CASE at.error # "ok"
  BY <1>2 DEF Nest, Along
<1>3. CASE at.error = "ok"
  <2>1. PICK c : c = at.cell
    OBVIOUS
  <2>2. Primary(c, merged) /\ c.path = SubSeq(key, 1, k - 1)
    BY <1>3, <2>1 DEF Along
  <2>3. k - 1 \in Nat /\ k - 1 < Len(key) /\ k - 1 + 1 = k
    BY <1>1
  <2>4. key[k] \in KeysOf(Data(c))
    BY <2>2, <2>3, KeyThere
  <2>5. CASE ~isStructLike(AtKey(Data(c), key[k]))
    <3>1. Nest(at, key[k]) = [at EXCEPT !.error = "InvalidTypeException"]
      BY <1>3, <2>1, <2>4, <2>5 DEF Nest
    <3>2. Nest(at, key[k]).error = "InvalidTypeException"
      BY <3>1 DEF Nested
    <3> QED  BY <3>2 DEF Along
  <2>6. CASE isStructLike(AtKey(Data(c), key[k]))
    <3>1. Nest(at, key[k]) = Ok(AtKey(Data(c), key[k]).cell)
      BY <1>3, <2>1, <2>4, <2>6 DEF Nest
    <3>2. Place(c)
      BY <2>2 DEF Primary, Place
    <3>3. PICK i \in DOMAIN Data(c) : Data(c)[i].key = key[k] /\ AtKey(Data(c), key[k]) = Data(c)[i].val
      BY <2>4, <3>2, AtKeyIs DEF Inv, Maps
    <3>4. PICK d : d = Data(c)[i].val.cell
      OBVIOUS
    <3>5. \A x : Upto(x) = merged
      BY DEF Upto
    <3>6. Leads(c)
      BY <2>2, <3>5 DEF Whole, Working, Complete
    <3>7. Primary(d, merged)
      BY <2>6, <3>3, <3>4, <3>5, <3>6 DEF Leads
    <3>8. d.path = Append(c.path, key[k])
      BY <2>6, <3>2, <3>3, <3>4, Below DEF Inv
    <3>9. Append(SubSeq(key, 1, k - 1), key[k]) = SubSeq(key, 1, k)
      BY <1>1
    <3>10. Nest(at, key[k]).error = "ok" /\ Nest(at, key[k]).cell = d
      BY <3>1, <3>3, <3>4 DEF Ok
    <3> QED  BY <2>2, <3>7, <3>8, <3>9, <3>10 DEF Along
  <2> QED  BY <2>5, <2>6
<1> QED  BY <1>2, <1>3

LEMMA ProtoFound ==
  ASSUME Inv, Whole, phase = "strip", ProtosAre, NEW key \in protos
  PROVE  LET nested == getNestedConfig(key)
         IN  /\ nested \in Nested /\ nested.error \in {"ok", "InvalidTypeException"}
             /\ nested.error = "ok" =>
                  Last(key) \in KeysOf(Data(nested.cell)) /\ Append(nested.cell.path, Last(key)) = key
<1>1. key \in Seq(STRING) /\ key # <<>>
  <2>1. source \in Sources
    BY DEF Inv, Heap
  <2>2. \A c \in DOMAIN source.heap : c.path \in Seq(STRING) /\ (source.heap[c].type = "kProto" => c.path # <<>>)
    BY <2>1, SourceIs, SourcesAssumption
  <2> QED  BY <2>2 DEF ProtosAre, ProtoKeys
<1> DEFINE l == Len(key)
           ks == Front(key)
<1>2. l \in Nat \ {0} /\ ks \in Seq(STRING) /\ Len(ks) = l - 1 /\ \A j \in 1 .. (l - 1) : ks[j] = key[j]
  BY <1>1, FrontLast
<1>3. PICK g : /\ g[1 .. 0] = Ok(Root) /\ \A k \in 0 .. Len(ks) : g[1 .. k] \in Nested
               /\ \A k \in 1 .. Len(ks) : g[1 .. k] = Nest(g[1 .. (k - 1)], ks[k])
               /\ FoldLeft(Nest, Ok(Root), ks) = g[1 .. Len(ks)]
  BY <1>2, NestSteps DEF Inv
<1> HIDE DEF ks
<1> DEFINE T == {k \in Nat : k <= l - 1 /\ ~Along(g[1 .. k], key, k)}
<1>4. ASSUME NEW k \in T, \A j \in T : k <= j PROVE FALSE
  <2>1. CASE k = 0
    <3>1. SubSeq(key, 1, 0) = <<>>
      BY <1>1
    <3>2. Ok(Root).error = "ok" /\ Ok(Root).cell = Root
      BY DEF Ok
    <3>3. Along(Ok(Root), key, 0)
      BY <3>1, <3>2, RootIs DEF Along, Primary
    <3> QED  BY <1>3, <1>4, <2>1, <3>3
  <2>2. CASE k # 0
    <3>1. k \in Nat \ {0} /\ k < l /\ k - 1 \in Nat /\ k - 1 <= l - 1 /\ k - 1 \notin T /\ k \in 1 .. (l - 1)
          /\ k - 1 \in 0 .. (l - 1)
      BY <1>2, <1>4, <2>2
    <3>2. Along(g[1 .. (k - 1)], key, k - 1)
      BY <3>1
    <3>3. g[1 .. (k - 1)] \in Nested /\ g[1 .. k] = Nest(g[1 .. (k - 1)], key[k])
      BY <1>2, <1>3, <3>1
    <3> HIDE DEF T
    <3>4. PICK at : at = g[1 .. (k - 1)]
      OBVIOUS
    <3>5. Along(Nest(at, key[k]), key, k)
      BY <3>1, <3>2, <3>3, <3>4, AlongStep
    <3> QED  BY <1>4, <3>3, <3>4, <3>5 DEF T
  <2> QED  BY <2>1, <2>2
<1>5. l - 1 \notin T
  <2>1. T \in SUBSET Nat
    OBVIOUS
  <2> HIDE DEF T
  <2> QED  BY <1>4, <2>1, LeastNumber
<1>6. Along(g[1 .. (l - 1)], key, l - 1)
  BY <1>2, <1>5
<1>7. PICK nested : nested = getNestedConfig(key)
  OBVIOUS
<1>8. nested = g[1 .. (l - 1)] /\ nested \in Nested
  <2>1. getNestedConfig(key) = FoldLeft(Nest, Ok(Root), ks)
    BY DEF getNestedConfig, Found, ks
  <2>2. l - 1 \in 0 .. Len(ks) /\ Len(ks) = l - 1
    BY <1>2
  <2> QED  BY <1>3, <1>7, <2>1, <2>2
<1>9. Along(nested, key, l - 1)
  BY <1>6, <1>8
<1>10. ASSUME nested.error = "ok"
       PROVE  Last(key) \in KeysOf(Data(nested.cell)) /\ Append(nested.cell.path, Last(key)) = key
  <2>1. PICK c : c = nested.cell
    OBVIOUS
  <2>2. Primary(c, merged) /\ c.path = SubSeq(key, 1, l - 1)
    BY <1>9, <1>10, <2>1 DEF Along
  <2>3. l - 1 \in Nat /\ l - 1 < l /\ l - 1 + 1 = l /\ Last(key) = key[l]
    BY <1>2 DEF Last
  <2>4. key[l] \in KeysOf(Data(c))
    BY <2>2, <2>3, KeyThere
  <2>5. Append(SubSeq(key, 1, l - 1), key[l]) = key
    BY <1>1, <1>2
  <2> QED  BY <2>1, <2>2, <2>3, <2>4, <2>5
<1> QED  BY <1>7, <1>8, <1>9, <1>10 DEF Along

LEMMA StripProtoWhole ==
  ASSUME Inv, Whole, ProtosAre, StripProto
  PROVE  Whole' /\ phase' \in {"strip", "InvalidTypeException"}
<1>1. phase = "strip"
  BY DEF StripProto
<1>2. PICK key \in protos :
        LET nested == getNestedConfig(key)
        IN  IF nested.error # "ok" THEN Fail(nested.error)
            ELSE IF Last(key) \notin KeysOf(Data(nested.cell)) THEN Fail("std::out_of_range")
            ELSE /\ Write(nested.cell, Erase(Data(nested.cell), Last(key)))
                 /\ protos' = protos \ {key}
                 /\ UNCHANGED <<source, calls, merged, applied, phase>>
  BY DEF StripProto
<1>3. PICK nested : nested = getNestedConfig(key)
  OBVIOUS
<1>4. /\ nested \in Nested /\ nested.error \in {"ok", "InvalidTypeException"}
      /\ nested.error = "ok" =>
           Last(key) \in KeysOf(Data(nested.cell)) /\ Append(nested.cell.path, Last(key)) = key
  BY <1>1, <1>3, ProtoFound
<1>5. CASE nested.error # "ok"
  <2>1. Fail("InvalidTypeException")
    BY <1>2, <1>3, <1>4, <1>5
  <2> QED  BY <2>1, FailWhole DEF Fail
<1>6. CASE nested.error = "ok"
  <2>1. PICK t, k, data : t = nested.cell /\ k = Last(key) /\ data = Erase(Data(t), k)
    OBVIOUS
  <2>2. k \in KeysOf(Data(t)) /\ Append(t.path, k) = key /\ Place(t)
    BY <1>4, <1>6, <2>1 DEF Nested, Place
  <2>3. Write(t, data) /\ protos' = protos \ {key} /\ source' = source /\ merged' = merged /\ phase' = phase
    BY <1>2, <1>3, <1>4, <1>6, <2>1
  <2>4. /\ EntriesAt(source.heap, data, t.path) /\ KeysOf(data) = KeysOf(Data(t)) \ {k}
        /\ \A i \in DOMAIN data : data[i] \in ToSet(Data(t))
    <3>1. EntriesAt(source.heap, Data(t), t.path)
      BY <2>2 DEF Inv, Maps
    <3> QED  BY <2>1, <2>2, <3>1, EraseIs
  <2>5. \A i \in DOMAIN data : isStructLike(data[i].val) => \E j \in DOMAIN Data(t) : data[i] = Data(t)[j]
    BY <2>4 DEF ToSet
  <2>6. \A x \in KeysOf(Data(t)) : x \in KeysOf(data) \/ Append(t.path, x) \in ProtoKeys \ protos'
    BY <2>2, <2>3, <2>4 DEF ProtosAre
  <2>7. protos' \subseteq protos
    BY <2>3
  <2>8. Whole'
    BY <1>1, <2>2, <2>3, <2>4, <2>5, <2>6, <2>7, WrittenWhole
  <2> QED  BY <1>1, <2>3, <2>8
<1> QED  BY <1>5, <1>6
-----------------------------------------------------------------------------
(* Every step preserves it. *)

PhaseOK == phase \in {"merge", "overrides", "strip", "done"} \cup EXCEPTIONS

LEMMA CallPhase ==
  ASSUME PhaseOK, NEW stack, NEW one, NEW two, Call(stack, one, two)
  PROVE  PhaseOK'
<1> DEFINE bad == {i \in DOMAIN KeyOrder :
                     KeyOrder[i] \in Common(one, two) /\ Checked(one, two, KeyOrder[i]) # "ok"}
           first == CHOOSE i \in bad : \A j \in bad : i <= j
<1>1. phase' = phase \/ (bad # {} /\ phase' = Checked(one, two, KeyOrder[first]))
  BY DEF Call, Fail
<1>2. CASE bad = {}
  BY <1>1, <1>2 DEF PhaseOK
<1>3. CASE bad # {}
  <2>1. bad \in SUBSET Nat
    BY KeyOrderAssumption
  <2>2. \E i \in bad : \A j \in bad : i <= j
    BY <1>3, <2>1, LeastNumber
  <2>3. first \in bad
    BY <2>2
  <2> HIDE DEF first
  <2>4. Checked(one, two, KeyOrder[first]) # "ok"
    BY <2>3
  <2>5. Checked(one, two, KeyOrder[first]) \in EXCEPTIONS
    BY <2>4, CheckIs DEF Checked, EXCEPTIONS
  <2> QED  BY <1>1, <2>5 DEF PhaseOK
<1> QED  BY <1>2, <1>3

LEMMA NextWhole ==
  ASSUME Inv, Whole, Counts, ProtosAre, PhaseOK, [Next]_vars
  PROVE  Whole' /\ PhaseOK'
<1>1. CASE MergeMap
  BY <1>1, MergeMapWhole, CallPhase DEF MergeMap
<1>2. CASE MergeEntry
  <2>1. phase' = phase \/ \E stack, one, two : Call(stack, one, two)
    BY <1>2 DEF MergeEntry
  <2> QED  BY <1>2, <2>1, MergeEntryWhole, CallPhase DEF PhaseOK
<1>3. CASE ReturnMerged
  BY <1>3, ReturnMergedWhole DEF ReturnMerged, PhaseOK
<1>4. CASE EndMerge \/ EndOverrides \/ EndStrip
  <2>1. phase' \in {"overrides", "strip", "done"}
    BY <1>4 DEF EndMerge, EndOverrides, EndStrip
  <2> QED  BY <1>4, <2>1, EndsWhole DEF PhaseOK
<1>5. CASE ApplyOverride
  <2>1. phase' \in {phase, "InvalidTypeException", "InvalidOverrideException"}
    BY <1>5 DEF ApplyOverride, Fail
  <2> QED  BY <1>5, <2>1, ApplyOverrideWhole DEF PhaseOK, EXCEPTIONS
<1>6. CASE StripProto
  BY <1>6, StripProtoWhole DEF PhaseOK, EXCEPTIONS
<1>7. CASE UNCHANGED vars
  <2>1. SameTree /\ calls' = calls /\ phase' = phase /\ protos' = protos /\ source' = source
    BY <1>7 DEF vars, SameTree
  <2>2. \A c : Touched(calls, c)' = Touched(calls, c)
    BY <2>1 DEF Touched, Key
  <2>3. \A c : Upto(c)' = Upto(c)
    BY <2>1, <2>2 DEF Upto, SameTree
  <2>4. ASSUME Working PROVE Complete' /\ Agree'
    BY <2>1, <2>3, <2>4, SameWhole DEF Whole, Inv
  <2>5. PICK cs : cs = calls
    OBVIOUS
  <2>6. Joined(cs) => Joined(cs)'
    BY <2>1, SameJoins DEF Joined
  <2>7. ProtoKeys' = ProtoKeys /\ Working' = Working
    BY <2>1 DEF ProtoKeys, Working
  <2> QED  BY <2>1, <2>4, <2>5, <2>6, <2>7 DEF Whole, PhaseOK, Working
<1>8. CASE Finished
  BY <1>7, <1>8 DEF Finished
<1> QED  BY <1>1, <1>2, <1>3, <1>4, <1>5, <1>6, <1>7, <1>8 DEF Next

LEMMA AlwaysWhole == Spec => [](Whole /\ PhaseOK)
<1>1. Init => Whole /\ PhaseOK
  BY InitWhole DEF Init, PhaseOK
<1>2. (Inv /\ Counts /\ ProtosAre) /\ (Whole /\ PhaseOK) /\ [Next]_vars => (Whole /\ PhaseOK)'
  BY NextWhole
<1> QED  BY <1>1, <1>2, AlwaysInv, PTL DEF Spec

(* For any maps, keys and overrides: the counters stay within what there   *)
(* is to do, a pointer leads to a struct of the type it says, and merging, *)
(* overriding and removing the protos come to an end only by exceptions of *)
(* the parser: stripProtos finds every proto where it looks for it, unless *)
(* an override has put a value in the way (config_parser.cpp:303-376).     *)
THEOREM TypeCorrect == Spec => []TypeOK
<1>1. ASSUME Inv, Counts, PhaseOK PROVE TypeOK
  <2>1. ASSUME NEW c \in DOMAIN heap \cup {Root}, NEW e \in ToSet(Data(c)), isStructLike(e.val)
        PROVE  e.val.cell \in DOMAIN heap /\ heap[e.val.cell].type = e.val.type
    <3>1. Place(c) /\ EntriesAt(source.heap, Data(c), c.path)
      BY <1>1, <2>1 DEF Place, Inv, Maps
    <3>2. PICK i \in DOMAIN Data(c) : e = Data(c)[i]
      BY DEF ToSet
    <3>3. e.val.cell \in DOMAIN source.heap /\ source.heap[e.val.cell].type = e.val.type
      BY <2>1, <3>1, <3>2 DEF EntriesAt
    <3> QED  BY <1>1, <3>3 DEF Inv, Heap
  <2>2. merged <= source.maps /\ applied <= Len(source.overrides)
    BY <1>1 DEF Inv, Heap, Counts
  <2> QED  BY <1>1, <2>1, <2>2 DEF TypeOK, PhaseOK
<1> QED  BY <1>1, AlwaysInv, AlwaysWhole, PTL

-----------------------------------------------------------------------------
(* What the tree has is right.                                             *)

RightAt(c) == \A data, n : data = Data(c) /\ n = Upto(c) => EntriesRight(data, c.path, n)
Exact == Working =>
  /\ \A c : Primary(c, Upto(c)) => RightAt(c)
  /\ phase = "merge" => applied = 0
  /\ phase \in {"strip", "done"} => applied = Len(source.overrides)
  /\ phase = "done" => protos = {}

LEMMA EntriesOfIs ==
  ASSUME source \in Sources, NEW m, NEW path
  PROVE  /\ EntriesAt(source.heap, EntriesOf(m, path), path)
         /\ Cell(m, path) \in DOMAIN source.heap => EntriesOf(m, path) = source.heap[Cell(m, path)].data
         /\ Cell(m, path) \notin DOMAIN source.heap => EntriesOf(m, path) = <<>>
<1>1. CASE Cell(m, path) \notin DOMAIN source.heap
  <2>1. EntriesOf(m, path) = <<>>
    BY <1>1 DEF EntriesOf
  <2>2. EntriesAt(source.heap, <<>>, path)
    BY DEF EntriesAt
  <2> QED  BY <1>1, <2>1, <2>2
<1>2. CASE Cell(m, path) \in DOMAIN source.heap
  <2>1. EntriesOf(m, path) = source.heap[Cell(m, path)].data
    BY <1>2 DEF EntriesOf
  <2>2. PICK c : c = Cell(m, path)
    OBVIOUS
  <2>3. c \in DOMAIN source.heap /\ c.path = path
    BY <1>2, <2>2, CellIs
  <2>4. EntriesAt(source.heap, source.heap[c].data, c.path)
    BY <2>3, SourceIs
  <2> QED  BY <1>2, <2>1, <2>2, <2>3, <2>4
<1> QED  BY <1>1, <1>2

LEMMA NamedNext ==
  ASSUME NEW path, NEW n \in Nat, NEW k
  PROVE  Named(path, n + 1, k) <=> Named(path, n, k) \/ k \in KeysOf(EntriesOf(n + 1, path))
<1>1. \A m \in 1 .. (n + 1) : m \in 1 .. n \/ m = n + 1
  OBVIOUS
<1>2. n + 1 \in 1 .. (n + 1) /\ \A m \in 1 .. n : m \in 1 .. (n + 1)
  OBVIOUS
<1> QED  BY <1>1, <1>2 DEF Named

LEMMA NamedFirstNext ==
  ASSUME NEW path, NEW n \in Nat, NEW k, NEW l, NamedFirst(path, n, k, l)
  PROVE  NamedFirst(path, n + 1, k, l)
<1>1. \A m \in 1 .. n : m \in 1 .. (n + 1)
  OBVIOUS
<1> QED  BY <1>1 DEF NamedFirst

LEMMA NoOverrides ==
  ASSUME applied = 0, NEW v, NEW w, NEW path
  PROVE  ValueRight(v, w, path) <=> v.type = w.type /\ (isStructLike(w) \/ v = w)
<1>1. AppliedTo(path) = {}
  BY DEF AppliedTo
<1> QED  BY <1>1 DEF ValueRight

(* The entries of a map that is the only one with a struct at the path.    *)
LEMMA OnlyMapRight ==
  ASSUME source \in Sources, applied = 0, Removed = {}, NEW path, NEW n \in Nat \ {0},
         NEW data, data = EntriesOf(n, path), \A m \in 1 .. (n - 1) : EntriesOf(m, path) = <<>>
  PROVE  EntriesRight(data, path, n)
<1>1. EntriesAt(source.heap, data, path) /\ n \in 1 .. n
  BY EntriesOfIs
<1>2. \A m \in 1 .. n : m = n \/ m \in 1 .. (n - 1)
  OBVIOUS
<1>3. ASSUME NEW i \in DOMAIN data
      PROVE  Named(path, n, data[i].key) /\ Append(path, data[i].key) \notin Removed
  BY <1>1 DEF Named, KeysOf
<1>4. ASSUME NEW m \in 1 .. n, NEW e \in ToSet(EntriesOf(m, path))
      PROVE  /\ e.key \in KeysOf(data) \/ Append(path, e.key) \in Removed
             /\ e.key \in KeysOf(data) => ValueRight(AtKey(data, e.key), e.val, Append(path, e.key))
  <2>1. m = n
    <3>1. m \in 1 .. (n - 1) => EntriesOf(m, path) = <<>>
      OBVIOUS
    <3> QED  BY <1>2, <1>4, <3>1 DEF ToSet
  <2>2. PICK j \in DOMAIN data : e = data[j]
    BY <1>4, <2>1 DEF ToSet
  <2>3. data[j].key \in KeysOf(data) /\ AtKey(data, data[j].key) = data[j].val
    BY <1>1, <2>2, AtKeyIs
  <2> QED  BY <2>2, <2>3, NoOverrides
<1>5. ASSUME NEW i \in DOMAIN data, NEW j \in DOMAIN data, i < j
      PROVE  NamedFirst(path, n, data[i].key, data[j].key)
  <2>1. ~Named(path, n - 1, data[j].key)
    BY DEF Named, KeysOf
  <2>2. DOMAIN data = 1 .. Len(data) /\ Len(data) \in Nat
    BY <1>1 DEF EntriesAt
  <2>3. \A b \in 1 .. i : b \in DOMAIN data /\ b # j
    BY <1>5, <2>2
  <2>4. \A b \in 1 .. i : data[b].key # data[j].key
    BY <1>1, <2>3 DEF EntriesAt
  <2> QED  BY <1>1, <2>1, <2>4 DEF NamedFirst
<1> QED  BY <1>3, <1>4, <1>5 DEF EntriesRight

(* The next map has no struct at the path.                                 *)
LEMMA NoMapRight ==
  ASSUME NEW path, NEW n \in Nat, NEW data, EntriesRight(data, path, n), EntriesOf(n + 1, path) = <<>>
  PROVE  EntriesRight(data, path, n + 1)
<1>1. \A m \in 1 .. (n + 1) : m \in 1 .. n \/ m = n + 1
  OBVIOUS
<1>2. \A i \in DOMAIN data : Named(path, n + 1, data[i].key) /\ Append(path, data[i].key) \notin Removed
  BY NamedNext DEF EntriesRight
<1>3. ASSUME NEW m \in 1 .. (n + 1), NEW e \in ToSet(EntriesOf(m, path))
      PROVE  /\ e.key \in KeysOf(data) \/ Append(path, e.key) \in Removed
             /\ e.key \in KeysOf(data) => ValueRight(AtKey(data, e.key), e.val, Append(path, e.key))
  <2>1. m \in 1 .. n
    BY <1>1, <1>3 DEF ToSet
  <2> QED  BY <1>3, <2>1 DEF EntriesRight
<1>4. \A i, j \in DOMAIN data : i < j => NamedFirst(path, n + 1, data[i].key, data[j].key)
  BY NamedFirstNext DEF EntriesRight
<1> QED  BY <1>2, <1>3, <1>4 DEF EntriesRight

(* The entries that Both adds are in the order of the second map.          *)
AddedFrom(out, S, one, two, k) ==
  /\ out \in Seq(S)
  /\ \A i \in 1 .. Len(out) : i > Len(one) => \E a \in 1 .. k : out[i] = two[a]
AddedInOrder(out, one, two) ==
  \A i, j \in 1 .. Len(out) : i < j /\ i > Len(one) =>
    \E a, b \in 1 .. Len(two) : a < b /\ out[i] = two[a] /\ out[j] = two[b]

LEMMA InOrderNext ==
  ASSUME NEW S, NEW one, NEW two, NEW out, NEW new \in Seq(S), NEW l \in Nat, NEW k \in 1 .. Len(two),
         Len(two) \in Nat, l = Len(out), Len(new) = l + 1, \A i \in 1 .. l : new[i] = out[i],
         new[l + 1] = two[k], AddedFrom(out, S, one, two, k - 1), AddedInOrder(out, one, two)
  PROVE  AddedInOrder(new, one, two)
<1>1. ASSUME NEW i \in 1 .. (l + 1), NEW j \in 1 .. (l + 1), i < j, i > Len(one)
      PROVE  \E a, b \in 1 .. Len(two) : a < b /\ new[i] = two[a] /\ new[j] = two[b]
  <2>1. i \in 1 .. l /\ (j \in 1 .. l \/ j = l + 1)
    BY <1>1
  <2>2. CASE j \in 1 .. l
    <3>1. PICK a \in 1 .. Len(two), b \in 1 .. Len(two) : a < b /\ out[i] = two[a] /\ out[j] = two[b]
      BY <1>1, <2>1, <2>2 DEF AddedInOrder
    <3>2. new[i] = out[i] /\ new[j] = out[j]
      BY <2>1, <2>2
    <3> QED  BY <3>1, <3>2
  <2>3. CASE j = l + 1
    <3>1. PICK a \in 1 .. (k - 1) : out[i] = two[a]
      BY <1>1, <2>1 DEF AddedFrom
    <3>2. new[i] = out[i] /\ a < k /\ a \in 1 .. Len(two)
      BY <2>1
    <3> QED  BY <2>3, <3>1, <3>2
  <2> QED  BY <2>1, <2>2, <2>3
<1> QED  BY <1>1 DEF AddedInOrder

LEMMA BothInOrder ==
  ASSUME NEW S, NEW one \in Seq(S), NEW two \in Seq(S)
  PROVE  LET out == Both(one, two)
         IN  \A i, j \in DOMAIN out : i < j /\ i > Len(one) =>
               \E a, b \in DOMAIN two : a < b /\ out[i] = two[a] /\ out[j] = two[b]
<1>1. PICK g : /\ g[1 .. 0] = one
               /\ \A k \in 1 .. Len(two) : g[1 .. k] = Insert(g[1 .. (k - 1)], two[k])
               /\ Both(one, two) = g[1 .. Len(two)]
  BY BothSteps
<1> DEFINE n == Len(one)
           From(out, k) == AddedFrom(out, S, one, two, k)
           Order(out) == AddedInOrder(out, one, two)
           T == {k \in Nat : k <= Len(two) /\ ~(From(g[1 .. k], k) /\ Order(g[1 .. k]))}
<1>2. Len(two) \in Nat /\ n \in Nat /\ DOMAIN two = 1 .. Len(two)
  OBVIOUS
<1>3. ASSUME NEW k \in T, \A j \in T : k <= j PROVE FALSE
  <2>1. CASE k = 0
    <3>1. From(one, 0) /\ Order(one)
      <4>1. \A i \in 1 .. Len(one) : ~(i > n)
        OBVIOUS
      <4>2. \A i, j \in 1 .. Len(one) : ~(i > n)
        OBVIOUS
      <4> QED  BY <4>1, <4>2 DEF AddedFrom, AddedInOrder
    <3> QED  BY <1>1, <1>3, <2>1, <3>1
  <2>2. CASE k # 0
    <3>1. k - 1 \in Nat /\ k - 1 <= Len(two) /\ k - 1 \notin T /\ k \in 1 .. Len(two) /\ k \in Nat
      BY <1>2, <1>3, <2>2
    <3>2. PICK out : out = g[1 .. (k - 1)]
      OBVIOUS
    <3>3. From(out, k - 1) /\ Order(out)
      BY <3>1, <3>2
    <3>4. PICK e : e = two[k]
      OBVIOUS
    <3>5. g[1 .. k] = Insert(out, e) /\ e \in S
      BY <1>1, <1>2, <3>1, <3>2, <3>4
    <3>6. \A a \in 1 .. (k - 1) : a \in 1 .. k /\ a \in 1 .. Len(two) /\ a < k
      BY <1>2, <3>1
    <3>7. CASE e.key \in KeysOf(out)
      <4>1. g[1 .. k] = out
        BY <3>5, <3>7 DEF Insert
      <4>2. From(out, k)
        BY <3>3, <3>6 DEF AddedFrom
      <4> QED  BY <1>3, <3>3, <4>1, <4>2
    <3>8. CASE e.key \notin KeysOf(out)
      <4>1. PICK new : new = Append(out, e)
        OBVIOUS
      <4>2. PICK l : l = Len(out)
        OBVIOUS
      <4>3. /\ new \in Seq(S) /\ Len(new) = l + 1 /\ new[l + 1] = e /\ l \in Nat
            /\ \A i \in 1 .. l : new[i] = out[i]
        BY <3>3, <3>5, <4>1, <4>2 DEF AddedFrom
      <4>4. g[1 .. k] = new
        BY <3>5, <3>8, <4>1 DEF Insert
      <4>5. \A i \in 1 .. (l + 1) : i \in 1 .. l \/ i = l + 1
        BY <4>3
      <4>6. k \in 1 .. k
        BY <3>1
      <4>7. From(new, k)
        <5>1. ASSUME NEW i \in 1 .. (l + 1), i > n PROVE \E a \in 1 .. k : new[i] = two[a]
          BY <3>3, <3>4, <3>6, <4>2, <4>3, <4>5, <4>6, <5>1 DEF AddedFrom
        <5> QED  BY <4>3, <5>1 DEF AddedFrom
      <4>8. Order(new)
        <5>1. Len(two) \in Nat /\ k \in 1 .. Len(two) /\ l \in Nat
          BY <1>2, <3>1, <4>3
        <5> HIDE DEF T
        <5> QED  BY <3>3, <3>4, <4>2, <4>3, <5>1, InOrderNext
      <4> QED  BY <1>3, <4>4, <4>7, <4>8
    <3> QED  BY <3>7, <3>8
  <2> QED  BY <2>1, <2>2
<1>4. Len(two) \notin T
  <2>1. T \in SUBSET Nat
    OBVIOUS
  <2> HIDE DEF T
  <2> QED  BY <1>3, <2>1, LeastNumber
<1>5. From(g[1 .. Len(two)], Len(two)) /\ Order(g[1 .. Len(two)])
  BY <1>2, <1>4
<1>6. PICK out : out = Both(one, two)
  OBVIOUS
<1>7. Order(out) /\ DOMAIN out = 1 .. Len(out)
  BY <1>1, <1>5, <1>6 DEF AddedFrom
<1> QED  BY <1>2, <1>6, <1>7 DEF AddedInOrder

(* A key that only the maps before have comes first.                       *)
LEMMA JoinedNamed ==
  ASSUME source \in Sources, NEW path, NEW n \in Nat, NEW k, NEW l, Named(path, n, k), ~Named(path, n, l)
  PROVE  NamedFirst(path, n + 1, k, l)
<1>1. PICK m \in 1 .. n : k \in KeysOf(EntriesOf(m, path))
  BY DEF Named
<1>2. PICK e : e = EntriesOf(m, path)
  OBVIOUS
<1>3. PICK a \in DOMAIN e : e[a].key = k
  BY <1>1, <1>2 DEF KeysOf
<1>4. ~Named(path, m - 1, l)
  <2>1. \A h \in 1 .. (m - 1) : h \in 1 .. n
    OBVIOUS
  <2> QED  BY <2>1 DEF Named
<1>5. \A b \in DOMAIN e : e[b].key # l
  BY <1>2 DEF Named, KeysOf
<1>6. e \in Seq(ToSet(e))
  BY <1>2, EntriesOfIs DEF EntriesAt
<1>7. \A b \in 1 .. a : e[b].key # l
  BY <1>5, <1>6
<1>8. m \in 1 .. (n + 1)
  OBVIOUS
<1> QED  BY <1>2, <1>3, <1>4, <1>7, <1>8 DEF NamedFirst

(* A struct of the next map is merged into what the maps before it have at *)
(* its path.                                                               *)
LEMMA JoinedRight ==
  ASSUME source \in Sources, applied = 0, Removed = {}, NEW path, NEW n \in Nat,
         NEW one, EntriesAt(source.heap, one, path), EntriesRight(one, path, n),
         NEW two, two = EntriesOf(n + 1, path),
         \A k \in KeysOf(one) \cap KeysOf(two) : checkForErrors(AtKey(one, k), AtKey(two, k)) = "ok",
         NEW out, out = Both(one, two)
  PROVE  EntriesRight(out, path, n + 1)
<1>1. EntriesAt(source.heap, two, path)
  BY EntriesOfIs
<1>2. Together(source.heap, path, one, two, out)
  BY <1>1, BothIs
<1>3. /\ EntriesAt(source.heap, out, path)
      /\ \A i \in DOMAIN one : i \in DOMAIN out /\ out[i] = one[i]
      /\ \A i \in DOMAIN out : out[i].key \in KeysOf(one) => i \in DOMAIN one
      /\ \A i \in DOMAIN out : i \notin DOMAIN one => out[i] \in ToSet(two)
      /\ KeysOf(out) = KeysOf(one) \cup KeysOf(two)
  BY <1>2 DEF Together
<1>4. \A k : k \in KeysOf(one) <=> Named(path, n, k)
  <2>1. ASSUME NEW k \in KeysOf(one) PROVE Named(path, n, k)
    BY DEF KeysOf, EntriesRight
  <2>2. ASSUME NEW k, Named(path, n, k) PROVE k \in KeysOf(one)
    <3>1. PICK m \in 1 .. n : k \in KeysOf(EntriesOf(m, path))
      BY <2>2 DEF Named
    <3>2. PICK e \in ToSet(EntriesOf(m, path)) : e.key = k
      BY <3>1 DEF KeysOf, ToSet
    <3> QED  BY <3>2 DEF EntriesRight
  <2> QED  BY <2>1, <2>2
<1>5. \A k : k \in KeysOf(out) <=> Named(path, n + 1, k)
  BY <1>3, <1>4, NamedNext
<1>6. \A k \in KeysOf(one) : AtKey(out, k) = AtKey(one, k)
  <2>1. ASSUME NEW k \in KeysOf(one) PROVE AtKey(out, k) = AtKey(one, k)
    <3>1. PICK i \in DOMAIN one : one[i].key = k /\ AtKey(one, k) = one[i].val
      BY AtKeyIs
    <3>2. i \in DOMAIN out /\ out[i] = one[i]
      BY <1>3
    <3>3. AtKey(out, out[i].key) = out[i].val
      BY <1>3, <3>2, AtKeyIs
    <3> QED  BY <3>1, <3>2, <3>3
  <2> QED  BY <2>1
<1>7. ASSUME NEW i \in DOMAIN out
      PROVE  Named(path, n + 1, out[i].key) /\ Append(path, out[i].key) \notin Removed
  BY <1>5 DEF KeysOf
<1>8. ASSUME NEW m \in 1 .. (n + 1), NEW e \in ToSet(EntriesOf(m, path))
      PROVE  /\ e.key \in KeysOf(out) \/ Append(path, e.key) \in Removed
             /\ e.key \in KeysOf(out) => ValueRight(AtKey(out, e.key), e.val, Append(path, e.key))
  <2>1. CASE m \in 1 .. n
    <3>1. e.key \in KeysOf(one) /\ ValueRight(AtKey(one, e.key), e.val, Append(path, e.key))
      BY <2>1 DEF EntriesRight
    <3>2. e.key \in KeysOf(out) /\ AtKey(out, e.key) = AtKey(one, e.key)
      BY <1>3, <1>6, <3>1
    <3> QED  BY <3>1, <3>2
  <2>2. CASE m = n + 1
    <3>0. PICK j \in DOMAIN two : e = two[j]
      BY <2>2 DEF ToSet
    <3>1. e.key \in KeysOf(two) /\ AtKey(two, e.key) = e.val /\ j \in DOMAIN two /\ e = two[j]
      BY <1>1, <3>0, AtKeyIs
    <3>2. e.key \in KeysOf(out)
      BY <1>3, <3>1
    <3>3. CASE e.key \in KeysOf(one)
      <4>1. checkForErrors(AtKey(one, e.key), e.val) = "ok"
        BY <3>1, <3>3
      <4>2. isStructLike(e.val) /\ AtKey(one, e.key).type = e.val.type
        BY <4>1, CheckIs
      <4>3. AtKey(out, e.key) = AtKey(one, e.key)
        BY <1>6, <3>3
      <4> QED  BY <3>2, <4>2, <4>3, NoOverrides
    <3>4. CASE e.key \notin KeysOf(one)
      <4>1. PICK i \in DOMAIN out : out[i].key = e.key /\ AtKey(out, e.key) = out[i].val
        BY <1>3, <3>2, AtKeyIs
      <4>2. i \notin DOMAIN one
        BY <1>3, <3>4, <4>1 DEF KeysOf
      <4>3. PICK b \in DOMAIN two : out[i] = two[b]
        BY <1>3, <4>2 DEF ToSet
      <4>4. b = j
        BY <1>1, <3>1, <4>1, <4>3 DEF EntriesAt
      <4>5. AtKey(out, e.key) = e.val
        BY <3>1, <4>1, <4>3, <4>4
      <4> QED  BY <3>2, <4>5, NoOverrides
    <3> QED  BY <3>3, <3>4
  <2> QED  BY <2>1, <2>2
<1>9. /\ one \in Seq(ToSet(one) \cup ToSet(two)) /\ two \in Seq(ToSet(one) \cup ToSet(two))
      /\ DOMAIN one = 1 .. Len(one) /\ DOMAIN out = 1 .. Len(out) /\ DOMAIN two = 1 .. Len(two)
      /\ Len(one) \in Nat /\ Len(out) \in Nat /\ Len(two) \in Nat
  BY <1>1, <1>3 DEF EntriesAt
<1>10. ASSUME NEW i \in DOMAIN out, NEW j \in DOMAIN out, i < j
       PROVE  NamedFirst(path, n + 1, out[i].key, out[j].key)
  <2>1. CASE j \in DOMAIN one
    <3>1. i \in DOMAIN one
      BY <1>9, <1>10, <2>1
    <3>2. NamedFirst(path, n, one[i].key, one[j].key)
      BY <1>10, <2>1, <3>1 DEF EntriesRight
    <3>3. one[i] = out[i] /\ one[j] = out[j]
      BY <1>3, <2>1, <3>1
    <3> QED  BY <3>2, <3>3, NamedFirstNext
  <2>2. CASE j \notin DOMAIN one
    <3>1. ~Named(path, n, out[j].key)
      BY <1>3, <1>4, <2>2
    <3>2. CASE i \in DOMAIN one
      <4>1. out[i].key \in KeysOf(one)
        BY <1>3, <3>2 DEF KeysOf
      <4>2. Named(path, n, out[i].key)
        BY <1>4, <4>1
      <4> QED  BY <3>1, <4>2, JoinedNamed
    <3>3. CASE i \notin DOMAIN one
      <4>1. i > Len(one)
        BY <1>9, <3>3
      <4>2. \E a, b \in DOMAIN two : a < b /\ out[i] = two[a] /\ out[j] = two[b]
        BY <1>9, <1>10, <4>1, BothInOrder
      <4>3. PICK a \in DOMAIN two, b \in DOMAIN two : a < b /\ out[i] = two[a] /\ out[j] = two[b]
        BY <4>2
      <4>4. \A c \in 1 .. a : c \in DOMAIN two /\ c # b
        BY <1>9, <4>3
      <4>5. \A c \in 1 .. a : two[c].key # two[b].key
        BY <1>1, <4>4 DEF EntriesAt
      <4>6. n + 1 \in 1 .. (n + 1) /\ (n + 1) - 1 = n
        OBVIOUS
      <4>7. PICK k, l : k = out[i].key /\ l = out[j].key
        OBVIOUS
      <4>8. two[a].key = k /\ (\A c \in 1 .. a : two[c].key # l) /\ ~Named(path, n, l)
        BY <3>1, <4>3, <4>5, <4>7
      <4>9. NamedFirst(path, n + 1, k, l)
        BY <4>6, <4>8 DEF NamedFirst
      <4> QED  BY <4>7, <4>9
    <3> QED  BY <3>2, <3>3
  <2> QED  BY <2>1, <2>2
<1> QED  BY <1>7, <1>8, <1>10 DEF EntriesRight

LEMMA RightKept ==
  ASSUME source' = source, protos' = protos, applied' = applied, NEW data, NEW path, NEW n
  PROVE  EntriesRight(data, path, n)' = EntriesRight(data, path, n)
<1>1. \A m, p : EntriesOf(m, p)' = EntriesOf(m, p)
  BY DEF EntriesOf
<1>2. \A p, m, k : Named(p, m, k)' = Named(p, m, k)
  BY <1>1 DEF Named, KeysOf
<1>3. \A p, m, k, l : NamedFirst(p, m, k, l)' = NamedFirst(p, m, k, l)
  BY <1>1, <1>2 DEF NamedFirst
<1>4. Removed' = Removed
  BY DEF Removed, ProtoKeys
<1>5. \A p : AppliedTo(p)' = AppliedTo(p)
  BY DEF AppliedTo
<1>6. \A v, w, p : ValueRight(v, w, p)' = ValueRight(v, w, p)
  BY <1>5 DEF ValueRight
<1> QED  BY <1>1, <1>2, <1>3, <1>4, <1>6 DEF EntriesRight, ToSet

LEMMA RightStep ==
  ASSUME source' = source, protos' = protos, applied' = applied, NEW c, NEW data, NEW n,
         data = Data(c)', n = Upto(c)', EntriesRight(data, c.path, n)
  PROVE  RightAt(c)'
<1>1. EntriesRight(data, c.path, n)'
  BY RightKept
<1> QED  BY <1>1 DEF RightAt

LEMMA NoneRemoved == ASSUME protos = ProtoKeys PROVE Removed = {}
BY DEF Removed

(* Of the structs the merge is through with, those of one map have what it *)
(* has, and the others have been joined.                                   *)
LEMMA AloneRight ==
  ASSUME Inv, Whole, Exact, phase = "merge", NEW c, Alone(c), Upto(c) = merged
  PROVE  EntriesRight(Data(c), c.path, merged + 1)
<1>1. /\ source \in Sources /\ merged \in Nat /\ DOMAIN heap = DOMAIN source.heap
      /\ applied = 0 /\ Removed = {} /\ PendingMapsKept
  BY CellsOf, NoneRemoved DEF Inv, Whole, Exact, Working
<1>2. CASE Primary(c, merged) /\ Cell(merged + 1, c.path) \notin DOMAIN heap
  <2>1. EntriesRight(Data(c), c.path, merged)
    BY <1>2 DEF Exact, Working, RightAt
  <2>2. EntriesOf(merged + 1, c.path) = <<>>
    BY <1>1, <1>2, EntriesOfIs
  <2> QED  BY <1>1, <2>1, <2>2, NoMapRight
<1>3. CASE c \in DOMAIN heap /\ c.map = merged + 1 /\ \A m \in 1 .. merged : Cell(m, c.path) \notin DOMAIN heap
  <2>1. c = Cell(merged + 1, c.path) /\ c # Root
    BY <1>3, CellsOf DEF Inv
  <2>2. Data(c) = source.heap[c].data
    <3>1. c.map > merged
      BY <1>1, <1>3
    <3> QED  BY <1>3, <2>1, <3>1, PendingIs DEF Inv
  <2>3. Data(c) = EntriesOf(merged + 1, c.path)
    BY <1>1, <1>3, <2>1, <2>2, EntriesOfIs
  <2>4. \A m \in 1 .. ((merged + 1) - 1) : EntriesOf(m, c.path) = <<>>
    BY <1>1, <1>3, EntriesOfIs
  <2>5. merged + 1 \in Nat \ {0}
    BY <1>1
  <2> QED  BY <1>1, <2>3, <2>4, <2>5, OnlyMapRight
<1> QED  BY <1>2, <1>3 DEF Alone

LEMMA MergesRight ==
  ASSUME Inv, Whole, Exact, phase = "merge", phase' = "merge", source' = source, protos' = protos,
         applied' = applied, DOMAIN heap' = DOMAIN heap,
         \A c : Primary(c, Upto(c))' =>
           \/ Upto(c)' = Upto(c) /\ Data(c)' = Data(c)
           \/ Upto(c) = merged /\ Upto(c)' = merged + 1 /\ Alone(c) /\ Data(c)' = Data(c)
           \/ RightAt(c)'
  PROVE  Exact'
<1>1. ASSUME NEW c, Primary(c, Upto(c))' PROVE RightAt(c)'
  <2>1. CASE Upto(c)' = Upto(c) /\ Data(c)' = Data(c)
    <3>1. Primary(c, Upto(c))
      BY <1>1, <2>1 DEF Primary
    <3>2. PICK data, n : data = Data(c) /\ n = Upto(c)
      OBVIOUS
    <3>3. EntriesRight(data, c.path, n)
      BY <3>1, <3>2 DEF Exact, Working, RightAt
    <3> QED  BY <2>1, <3>2, <3>3, RightStep
  <2>2. CASE Upto(c) = merged /\ Upto(c)' = merged + 1 /\ Alone(c) /\ Data(c)' = Data(c)
    <3>1. PICK data, n : data = Data(c) /\ n = merged + 1
      OBVIOUS
    <3>2. EntriesRight(data, c.path, n)
      BY <2>2, <3>1, AloneRight
    <3> QED  BY <2>2, <3>1, <3>2, RightStep
  <2> QED  BY <1>1, <2>1, <2>2
<1>2. applied' = 0
  BY DEF Exact, Working
<1> QED  BY <1>1, <1>2 DEF Exact

LEMMA InitExact == Init => Exact
<1> SUFFICES ASSUME Init PROVE Exact
  OBVIOUS
<1>1. /\ source \in Sources /\ heap = source.heap /\ calls = <<>> /\ phase = "merge" /\ protos = ProtoKeys
      /\ applied = 0
  BY DEF Init
<1>2. source.maps \in Nat /\ \A n \in 1 .. source.maps : Cell(n, <<>>) \in DOMAIN source.heap
  BY <1>1, SourcesAssumption
<1>3. merged \in {0, 1} /\ (merged = 0 <=> source.maps = 0)
  BY <1>2 DEF Init
<1>4. \A c : Upto(c) = merged
  BY <1>1 DEF Upto, Touched
<1>5. Heap /\ Removed = {}
  BY <1>1, InitInv, NoneRemoved DEF Inv
<1>6. ASSUME NEW c, Primary(c, merged) PROVE EntriesRight(Data(c), c.path, merged)
  <2>1. CASE merged = 0
    <3>1. c = Root
      BY <1>5, <1>6, <2>1, CellsOf DEF Primary
    <3>2. Data(c) = <<>>
      BY <1>3, <2>1, <3>1 DEF Init, Data
    <3>3. DOMAIN <<>> = {} /\ 1 .. 0 = {}
      OBVIOUS
    <3>4. EntriesRight(<<>>, c.path, 0)
      BY <3>3 DEF EntriesRight
    <3> QED  BY <2>1, <3>2, <3>4
  <2>2. CASE merged = 1
    <3>1. Data(c) = EntriesOf(1, c.path)
      <4>1. CASE c = Root
        <5>1. Data(c) = heap[Cell(1, <<>>)].data
          BY <1>3, <2>2, <4>1 DEF Init, Data
        <5>2. 1 \in 1 .. source.maps
          BY <1>2, <1>3, <2>2
        <5> QED  BY <1>1, <1>2, <4>1, <5>1, <5>2, RootIs, EntriesOfIs
      <4>2. CASE c # Root
        <5>1. c \in DOMAIN heap /\ c.map <= 1
          BY <1>6, <2>2, <4>2 DEF Primary
        <5>2. c = Cell(1, c.path)
          BY <1>5, <5>1, CellsOf
        <5>3. Data(c) = source.heap[c].data
          BY <1>1, <4>2 DEF Data
        <5> QED  BY <1>1, <5>1, <5>2, <5>3, EntriesOfIs
      <4> QED  BY <4>1, <4>2
    <3>2. \A m \in 1 .. (1 - 1) : EntriesOf(m, c.path) = <<>>
      OBVIOUS
    <3>3. EntriesRight(Data(c), c.path, 1)
      BY <1>1, <1>5, <3>1, <3>2, OnlyMapRight
    <3> QED  BY <2>2, <3>3
  <2> QED  BY <1>3, <2>1, <2>2
<1>7. \A c : Primary(c, Upto(c)) => RightAt(c)
  <2>1. ASSUME NEW c, Primary(c, Upto(c)) PROVE RightAt(c)
    <3>1. Upto(c) = merged
      BY <1>4
    <3>2. Primary(c, merged)
      BY <2>1, <3>1
    <3> QED  BY <1>6, <3>1, <3>2 DEF RightAt
  <2> QED  BY <2>1
<1> QED  BY <1>1, <1>7 DEF Exact

LEMMA NoPhase ==
  ASSUME phase' \notin {"merge", "overrides", "strip", "done"} PROVE Exact'
BY DEF Exact, Working

LEMMA MergeMapExact == ASSUME Inv, Whole, Exact, MergeMap PROVE Exact'
<1>1. phase = "merge" /\ applied' = applied
  BY DEF MergeMap, Call, Fail
<1>2. CASE phase' = "merge"
  <2>1. SameTree /\ protos' = protos /\ \A c : Upto(c)' = Upto(c)
    BY <1>2, MergeMapWhole
  <2>2. source' = source /\ DOMAIN heap' = DOMAIN heap /\ \A c : Data(c)' = Data(c)
    BY <2>1, SameData DEF SameTree
  <2> QED  BY <1>1, <1>2, <2>1, <2>2, MergesRight
<1>3. CASE phase' # "merge"
  <2>1. phase' \notin {"overrides", "strip", "done"}
    BY <1>1, <1>3, CheckIs DEF MergeMap, Call, Fail, Checked
  <2> QED  BY <1>3, <2>1, NoPhase
<1> QED  BY <1>2, <1>3

LEMMA MergeEntryExact == ASSUME Inv, Whole, Exact, MergeEntry PROVE Exact'
<1>1. phase = "merge" /\ applied' = applied
  BY DEF MergeEntry, Merging, Call, Fail
<1>2. CASE phase' = "merge"
  <2>1. /\ SameTree /\ protos' = protos
        /\ \A c : Primary(c, Upto(c))' /\ Upto(c)' # Upto(c) =>
             Upto(c) = merged /\ Upto(c)' = merged + 1 /\ Alone(c)
    BY <1>2, MergeEntryWhole
  <2>2. source' = source /\ DOMAIN heap' = DOMAIN heap /\ \A c : Data(c)' = Data(c)
    BY <2>1, SameData DEF SameTree
  <2> QED  BY <1>1, <1>2, <2>1, <2>2, MergesRight
<1>3. CASE phase' # "merge"
  <2>1. PICK next : Call(next, Child, ChildOfTwo)
    BY <1>3, EntryCalls
  <2>2. phase' \notin {"overrides", "strip", "done"}
    BY <1>1, <1>3, <2>1, CheckIs DEF Call, Fail, Checked
  <2> QED  BY <1>3, <2>2, NoPhase
<1> QED  BY <1>2, <1>3

LEMMA ReturnMergedExact == ASSUME Inv, Whole, Exact, ReturnMerged PROVE Exact'
<1>1. /\ phase = "merge" /\ phase' = phase /\ calls # <<>>
      /\ source' = source /\ protos' = protos /\ DOMAIN heap' = DOMAIN heap /\ Place(Here.one)
      /\ \A c : Place(c) => Data(c)' = IF c = Here.one THEN Here.out ELSE Data(c)
  BY ReturnIs
<1>2. applied' = applied
  BY DEF ReturnMerged
<1>3. PICK t : /\ t = Here.one /\ Primary(t, merged) /\ Upto(t) = merged /\ Upto(t)' = merged + 1
               /\ \A c : Primary(c, Upto(c))' => c = t \/ (Upto(c)' = Upto(c) /\ Data(c)' = Data(c))
  BY ReturnMergedWhole
<1>4. PICK one, two, out : one = Data(t) /\ two = Data(Here.two) /\ out = Here.out
  OBVIOUS
<1>5. /\ source \in Sources /\ applied = 0 /\ Removed = {} /\ merged \in Nat
      /\ DOMAIN heap = DOMAIN source.heap
  BY <1>1, CellsOf, NoneRemoved DEF Inv, Whole, Exact, Working
<1>6. EntriesAt(source.heap, one, t.path)
  BY <1>1, <1>3, <1>4 DEF Inv, Maps
<1>7. EntriesRight(one, t.path, merged)
  <2>1. Primary(t, Upto(t))
    BY <1>3
  <2> QED  BY <1>1, <1>3, <1>4, <2>1 DEF Exact, Working, RightAt
<1>8. two = EntriesOf(merged + 1, t.path)
  BY <1>1, <1>3, <1>4, <1>5, HerePath, EntriesOfIs
<1>9. out = Both(one, two) /\ KeysOf(out) = KeysOf(one) \cup KeysOf(two)
      /\ \A i \in DOMAIN out : out[i].key \in Common(Here.one, Here.two) => Checked(Here.one, Here.two, out[i].key) = "ok"
  <2>1. Here = calls[Len(calls)] /\ Len(calls) \in 1 .. Len(calls) /\ Merges(Here)
    BY <1>1, StackIs
  <2>2. Joins(Here)
    BY <1>1, <2>1 DEF Whole, Working, Joined
  <2> QED  BY <1>3, <1>4, <2>1, <2>2 DEF Joins, Merges
<1>10. \A k \in KeysOf(one) \cap KeysOf(two) : checkForErrors(AtKey(one, k), AtKey(two, k)) = "ok"
  <2>1. ASSUME NEW k \in KeysOf(one) \cap KeysOf(two) PROVE checkForErrors(AtKey(one, k), AtKey(two, k)) = "ok"
    <3>1. PICK i \in DOMAIN out : out[i].key = k
      BY <1>9 DEF KeysOf
    <3>2. k \in Common(Here.one, Here.two)
      BY <1>3, <1>4 DEF Common
    <3> QED  BY <1>3, <1>4, <1>9, <3>1, <3>2 DEF Checked
  <2> QED  BY <2>1
<1>11. EntriesRight(out, t.path, merged + 1)
  BY <1>5, <1>6, <1>7, <1>8, <1>9, <1>10, JoinedRight
<1>12. RightAt(t)'
  <2>1. PICK n : n = merged + 1
    OBVIOUS
  <2>2. out = Data(t)' /\ n = Upto(t)' /\ EntriesRight(out, t.path, n)
    BY <1>1, <1>3, <1>4, <1>11, <2>1
  <2> QED  BY <1>1, <1>2, <2>2, RightStep
<1>13. \A c : Primary(c, Upto(c))' =>
         \/ Upto(c)' = Upto(c) /\ Data(c)' = Data(c)
         \/ RightAt(c)'
  BY <1>3, <1>12
<1> QED  BY <1>1, <1>2, <1>13, MergesRight

LEMMA EndsExact == ASSUME Inv, Whole, Exact, Counts, EndMerge \/ EndOverrides \/ EndStrip PROVE Exact'
<1>1. /\ SameTree /\ protos' = protos /\ calls' = calls /\ phase' # "merge" /\ Working /\ applied' = applied
      /\ (phase = "merge" => calls = <<>>)
  BY DEF EndMerge, EndOverrides, EndStrip, SameTree, Working
<1>2. \A c : Upto(c)' = Upto(c) /\ Data(c)' = Data(c)
  <2>1. \A c : Upto(c) = merged
    BY <1>1 DEF Upto, Touched
  <2>2. \A c : Upto(c)' = merged
    BY <1>1 DEF Upto, SameTree
  <2> QED  BY <1>1, <2>1, <2>2, SameData
<1>3. source' = source /\ DOMAIN heap' = DOMAIN heap
  BY <1>1 DEF SameTree
<1>4. ASSUME NEW c, Primary(c, Upto(c))' PROVE RightAt(c)'
  <2>1. Primary(c, Upto(c))
    BY <1>2, <1>3, <1>4 DEF Primary
  <2>2. PICK data, n : data = Data(c) /\ n = Upto(c)
    OBVIOUS
  <2>3. EntriesRight(data, c.path, n)
    BY <1>1, <2>1, <2>2 DEF Exact, RightAt
  <2> QED  BY <1>1, <1>2, <1>3, <2>2, <2>3, RightStep
<1>5. phase' \in {"strip", "done"} => applied' = Len(source'.overrides)
  BY <1>1 DEF EndMerge, EndOverrides, EndStrip, Exact
<1>6. phase' = "done" => protos' = {}
  BY DEF EndMerge, EndOverrides, EndStrip
<1> QED  BY <1>1, <1>4, <1>5, <1>6 DEF Exact

-----------------------------------------------------------------------------
(* Following a path in the tree leads to the struct that the tree has      *)
(* there.                                                                  *)

FoundAt(at, ks, k) == at.error = "ok" => Primary(at.cell, merged) /\ at.cell.path = SubSeq(ks, 1, k)

LEMMA FoundStep ==
  ASSUME Inv, Whole, phase \in {"overrides", "strip", "done"}, NEW ks \in Seq(STRING), NEW k \in 1 .. Len(ks),
         NEW at \in Nested, FoundAt(at, ks, k - 1)
  PROVE  /\ FoundAt(Nest(at, ks[k]), ks, k)
         /\ Nest(at, ks[k]).error = "ok" <=>
              at.error = "ok" /\ ks[k] \in KeysOf(Data(at.cell)) /\ isStructLike(AtKey(Data(at.cell), ks[k]))
<1>1. CASE at.error # "ok"
  BY <1>1 DEF Nest, FoundAt
<1>2. CASE at.error = "ok"
  <2>1. PICK c : c = at.cell
    OBVIOUS
  <2>2. Primary(c, merged) /\ c.path = SubSeq(ks, 1, k - 1) /\ Place(c)
    BY <1>2, <2>1 DEF FoundAt, Primary, Place
  <2>3. CASE ks[k] \notin KeysOf(Data(c))
    <3>1. Nest(at, ks[k]) = [at EXCEPT !.error = "InvalidKeyException"]
      BY <1>2, <2>1, <2>3 DEF Nest
    <3>2. Nest(at, ks[k]).error = "InvalidKeyException"
      BY <3>1 DEF Nested
    <3> QED  BY <2>1, <2>3, <3>2 DEF FoundAt
  <2>4. CASE ks[k] \in KeysOf(Data(c)) /\ ~isStructLike(AtKey(Data(c), ks[k]))
    <3>1. Nest(at, ks[k]) = [at EXCEPT !.error = "InvalidTypeException"]
      BY <1>2, <2>1, <2>4 DEF Nest
    <3>2. Nest(at, ks[k]).error = "InvalidTypeException"
      BY <3>1 DEF Nested
    <3> QED  BY <2>1, <2>4, <3>2 DEF FoundAt
  <2>5. CASE ks[k] \in KeysOf(Data(c)) /\ isStructLike(AtKey(Data(c), ks[k]))
    <3>1. Nest(at, ks[k]) = Ok(AtKey(Data(c), ks[k]).cell)
      BY <1>2, <2>1, <2>5 DEF Nest
    <3>2. PICK i \in DOMAIN Data(c) : Data(c)[i].key = ks[k] /\ AtKey(Data(c), ks[k]) = Data(c)[i].val
      BY <2>2, <2>5, AtKeyIs DEF Inv, Maps
    <3>3. PICK d : d = Data(c)[i].val.cell
      OBVIOUS
    <3>4. \A x : Upto(x) = merged
      BY DEF Upto
    <3>5. Leads(c)
      BY <2>2, <3>4 DEF Whole, Working, Complete
    <3>6. Primary(d, merged)
      BY <2>5, <3>2, <3>3, <3>4, <3>5 DEF Leads
    <3>7. d.path = Append(c.path, ks[k])
      BY <2>2, <2>5, <3>2, <3>3, Below DEF Inv
    <3>8. Append(SubSeq(ks, 1, k - 1), ks[k]) = SubSeq(ks, 1, k)
      OBVIOUS
    <3>9. Nest(at, ks[k]).error = "ok" /\ Nest(at, ks[k]).cell = d
      BY <3>1, <3>2, <3>3 DEF Ok
    <3> QED  BY <1>2, <2>1, <2>2, <2>5, <3>6, <3>7, <3>8, <3>9 DEF FoundAt
  <2> QED  BY <2>3, <2>4, <2>5
<1> QED  BY <1>1, <1>2

(* The steps of the walk, for an induction over them.                      *)
LEMMA FoundSteps ==
  ASSUME Inv, Whole, phase \in {"overrides", "strip", "done"}, NEW ks \in Seq(STRING)
  PROVE  \E g : /\ g[1 .. 0] = Ok(Root) /\ Found(ks) = g[1 .. Len(ks)]
                /\ \A k \in 0 .. Len(ks) : g[1 .. k] \in Nested /\ FoundAt(g[1 .. k], ks, k)
                /\ \A k \in 1 .. Len(ks) : g[1 .. k] = Nest(g[1 .. (k - 1)], ks[k])
<1>1. PICK g : /\ g[1 .. 0] = Ok(Root) /\ \A k \in 0 .. Len(ks) : g[1 .. k] \in Nested
               /\ \A k \in 1 .. Len(ks) : g[1 .. k] = Nest(g[1 .. (k - 1)], ks[k])
               /\ FoldLeft(Nest, Ok(Root), ks) = g[1 .. Len(ks)]
  BY NestSteps DEF Inv
<1> DEFINE T == {k \in Nat : k <= Len(ks) /\ ~FoundAt(g[1 .. k], ks, k)}
<1>2. Len(ks) \in Nat
  OBVIOUS
<1>3. ASSUME NEW k \in T, \A j \in T : k <= j PROVE FALSE
  <2>1. CASE k = 0
    <3>1. SubSeq(ks, 1, 0) = <<>>
      OBVIOUS
    <3>2. Ok(Root).error = "ok" /\ Ok(Root).cell = Root
      BY DEF Ok
    <3>3. FoundAt(Ok(Root), ks, 0)
      BY <3>1, <3>2, RootIs DEF FoundAt, Primary
    <3> QED  BY <1>1, <1>3, <2>1, <3>3
  <2>2. CASE k # 0
    <3>1. k - 1 \in Nat /\ k - 1 <= Len(ks) /\ k - 1 \notin T /\ k \in 1 .. Len(ks) /\ k - 1 \in 0 .. Len(ks)
      BY <1>2, <1>3, <2>2
    <3>2. FoundAt(g[1 .. (k - 1)], ks, k - 1) /\ g[1 .. (k - 1)] \in Nested
      BY <1>1, <3>1
    <3>3. g[1 .. k] = Nest(g[1 .. (k - 1)], ks[k])
      BY <1>1, <3>1
    <3> HIDE DEF T
    <3>4. FoundAt(g[1 .. k], ks, k)
      BY <3>1, <3>2, <3>3, FoundStep
    <3> QED  BY <1>3, <3>4 DEF T
  <2> QED  BY <2>1, <2>2
<1>4. T = {}
  <2>1. T \in SUBSET Nat
    OBVIOUS
  <2> HIDE DEF T
  <2> QED  BY <1>3, <2>1, LeastNumber
<1>5. \A k \in 0 .. Len(ks) : FoundAt(g[1 .. k], ks, k)
  BY <1>2, <1>4
<1> QED  BY <1>1, <1>5 DEF Found

LEMMA FoundIs ==
  ASSUME Inv, Whole, phase \in {"overrides", "strip", "done"}, NEW ks \in Seq(STRING)
  PROVE  /\ Found(ks) \in Nested
         /\ Found(ks).error = "ok" => Primary(Found(ks).cell, merged) /\ Found(ks).cell.path = ks
<1>1. PICK g : /\ Found(ks) = g[1 .. Len(ks)]
               /\ \A k \in 0 .. Len(ks) : g[1 .. k] \in Nested /\ FoundAt(g[1 .. k], ks, k)
  BY FoundSteps
<1>2. Len(ks) \in 0 .. Len(ks) /\ SubSeq(ks, 1, Len(ks)) = ks
  OBVIOUS
<1> QED  BY <1>1, <1>2 DEF FoundAt

(* The tree has one struct at a path.                                      *)
LEMMA OnePrimary ==
  ASSUME Inv, NEW c, NEW d, Primary(c, merged), Primary(d, merged), c.path = d.path
  PROVE  c = d
<1>1. Heap /\ merged \in Nat
  BY CellsOf DEF Inv
<1>2. CASE c = Root \/ d = Root
  BY <1>2, RootIs DEF Primary
<1>3. CASE c # Root /\ d # Root
  BY <1>1, <1>3, PrimaryGrows, PrimaryOnly
<1> QED  BY <1>2, <1>3

LEMMA AppendSame ==
  ASSUME NEW S, NEW p \in Seq(S), NEW q \in Seq(S), NEW k, NEW l, Append(p, k) = Append(q, l)
  PROVE  p = q /\ k = l
<1>1. Len(Append(p, k)) = Len(p) + 1 /\ Len(Append(q, l)) = Len(q) + 1
      /\ Append(p, k)[Len(p) + 1] = k /\ Append(q, l)[Len(q) + 1] = l
  OBVIOUS
<1>2. Len(p) = Len(q)
  BY <1>1
<1>3. \A i \in 1 .. Len(p) : p[i] = Append(p, k)[i] /\ q[i] = Append(q, l)[i]
  BY <1>2
<1> QED  BY <1>1, <1>2, <1>3

-----------------------------------------------------------------------------
(* Overrides and the removal of protos keep it right.                      *)

LEMMA ChangedRight ==
  ASSUME source' = source, NEW path, NEW n, NEW old, NEW new, EntriesRight(old, path, n),
         NEW gone, gone = Removed', Removed \subseteq gone,
         \A k \in KeysOf(new) : k \in KeysOf(old) /\ Append(path, k) \notin gone,
         \A k \in KeysOf(old) : k \in KeysOf(new) \/ Append(path, k) \in gone,
         \A k \in KeysOf(new) : \A w :
           ValueRight(AtKey(old, k), w, Append(path, k)) => ValueRight(AtKey(new, k), w, Append(path, k))',
         \A i, j \in DOMAIN new : i < j =>
           \E a, b \in DOMAIN old : a < b /\ new[i].key = old[a].key /\ new[j].key = old[b].key
  PROVE  EntriesRight(new, path, n)'
<1>1. \A m, p : EntriesOf(m, p)' = EntriesOf(m, p)
  BY DEF EntriesOf
<1>2. \A p, m, k : Named(p, m, k)' = Named(p, m, k)
  BY <1>1 DEF Named, KeysOf
<1>3. \A p, m, k, l : NamedFirst(p, m, k, l)' = NamedFirst(p, m, k, l)
  BY <1>1, <1>2 DEF NamedFirst
<1>4. ASSUME NEW i \in DOMAIN new PROVE Named(path, n, new[i].key) /\ Append(path, new[i].key) \notin gone
  <2>1. new[i].key \in KeysOf(new)
    BY DEF KeysOf
  <2>2. new[i].key \in KeysOf(old)
    BY <2>1
  <2>3. PICK j \in DOMAIN old : old[j].key = new[i].key
    BY <2>2 DEF KeysOf
  <2> QED  BY <2>1, <2>3 DEF EntriesRight
<1>5. ASSUME NEW m \in 1 .. n, NEW e \in ToSet(EntriesOf(m, path))
      PROVE  /\ e.key \in KeysOf(new) \/ Append(path, e.key) \in gone
             /\ e.key \in KeysOf(new) => ValueRight(AtKey(new, e.key), e.val, Append(path, e.key))'
  <2>1. /\ e.key \in KeysOf(old) \/ Append(path, e.key) \in Removed
        /\ e.key \in KeysOf(old) => ValueRight(AtKey(old, e.key), e.val, Append(path, e.key))
    BY DEF EntriesRight
  <2> QED  BY <2>1
<1>6. ASSUME NEW i \in DOMAIN new, NEW j \in DOMAIN new, i < j
      PROVE  NamedFirst(path, n, new[i].key, new[j].key)
  <2>1. PICK a \in DOMAIN old, b \in DOMAIN old : a < b /\ new[i].key = old[a].key /\ new[j].key = old[b].key
    BY <1>6
  <2>2. NamedFirst(path, n, old[a].key, old[b].key)
    BY <2>1 DEF EntriesRight
  <2> QED  BY <2>1, <2>2
<1>7. \A i \in DOMAIN new : Named(path, n, new[i].key)' /\ Append(path, new[i].key) \notin Removed'
  BY <1>2, <1>4
<1>8. \A m \in 1 .. n : \A e \in ToSet(EntriesOf(m, path))' :
        /\ e.key \in KeysOf(new) \/ Append(path, e.key) \in Removed'
        /\ e.key \in KeysOf(new) => ValueRight(AtKey(new, e.key), e.val, Append(path, e.key))'
  BY <1>1, <1>5 DEF ToSet
<1>9. \A i, j \in DOMAIN new : i < j => NamedFirst(path, n, new[i].key, new[j].key)'
  BY <1>3, <1>6
<1> QED  BY <1>7, <1>8, <1>9 DEF EntriesRight

LEMMA WrittenRight ==
  ASSUME Inv, phase \in {"overrides", "strip"}, NEW t, Primary(t, merged), NEW data, Write(t, data),
         EntriesAt(source.heap, data, t.path), source' = source, merged' = merged, phase' = phase,
         NEW n, n = merged,
         \A c, d : Primary(c, n) /\ d = (IF c = t THEN data ELSE Data(c)) => EntriesRight(d, c.path, n)'
  PROVE  \A c : Primary(c, Upto(c))' => RightAt(c)'
<1>1. Place(t)
  BY DEF Primary, Place
<1>2. /\ DOMAIN heap' = DOMAIN heap /\ \A c : Place(c) => Data(c)' = IF c = t THEN data ELSE Data(c)
  BY <1>1, WriteIs DEF Inv
<1>3. \A c : Upto(c)' = n
  BY DEF Upto
<1>4. ASSUME NEW c, Primary(c, Upto(c))' PROVE RightAt(c)'
  <2>1. Primary(c, n)
    BY <1>2, <1>3, <1>4 DEF Primary
  <2>2. PICK d : d = IF c = t THEN data ELSE Data(c)
    OBVIOUS
  <2>3. Data(c)' = d
    BY <1>2, <2>1, <2>2 DEF Primary, Place
  <2>4. EntriesRight(d, c.path, n)'
    BY <2>1, <2>2
  <2> QED  BY <1>3, <2>3, <2>4 DEF RightAt
<1> QED  BY <1>4

LEMMA AppliedNext ==
  ASSUME source' = source, applied \in Nat, applied' = applied + 1, NEW p
  PROVE  AppliedTo(p)' = IF source.overrides[applied + 1].key = p THEN AppliedTo(p) \cup {applied + 1} ELSE AppliedTo(p)
<1>1. 1 .. (applied + 1) = (1 .. applied) \cup {applied + 1}
  OBVIOUS
<1> QED  BY <1>1 DEF AppliedTo

LEMMA OverrideIs ==
  ASSUME Inv, Counts, ApplyOverride, phase' \in {"merge", "overrides", "strip", "done"}
  PROVE  \E t, k, v, p :
           /\ p = source.overrides[applied + 1].key /\ v = source.overrides[applied + 1].val /\ k = Last(p)
           /\ p \in Seq(STRING) /\ p # <<>> /\ ~isStructLike(v) /\ applied + 1 \in DOMAIN source.overrides
           /\ Found(Front(p)).error = "ok" /\ t = Found(Front(p)).cell /\ k \in KeysOf(Data(t))
           /\ Write(t, With(Data(t), k, v)) /\ phase = "overrides" /\ applied' = applied + 1
           /\ UNCHANGED <<source, calls, merged, protos, phase>>
<1>1. PICK p, v : p = source.overrides[applied + 1].key /\ v = source.overrides[applied + 1].val
  OBVIOUS
<1>2. PICK nested : nested = getNestedConfig(p)
  OBVIOUS
<1>3. /\ nested.error = "ok" /\ Last(p) \in KeysOf(Data(nested.cell)) /\ phase = "overrides"
      /\ Write(nested.cell, With(Data(nested.cell), Last(p), v)) /\ applied' = applied + 1
      /\ applied < Len(source.overrides) /\ UNCHANGED <<source, calls, merged, protos, phase>>
  BY <1>1, <1>2 DEF ApplyOverride, Apply, Fail
<1>4. nested = Found(Front(p))
  BY <1>2 DEF getNestedConfig
<1>5. p \in Seq(STRING) /\ p # <<>> /\ ~isStructLike(v) /\ applied + 1 \in DOMAIN source.overrides
  <2>1. /\ source.overrides \in Seq(ToSet(source.overrides))
        /\ \A i \in DOMAIN source.overrides :
             source.overrides[i].key \in Seq(STRING) \ {<<>>} /\ ~isStructLike(source.overrides[i].val)
    BY SourcesAssumption DEF Inv, Heap
  <2>2. applied + 1 \in DOMAIN source.overrides
    BY <1>3, <2>1 DEF Counts
  <2> QED  BY <1>1, <2>1, <2>2
<1> QED  BY <1>1, <1>3, <1>4, <1>5

LEMMA FrontAppend ==
  ASSUME NEW p \in Seq(STRING), p # <<>>
  PROVE  Front(p) \in Seq(STRING) /\ Append(Front(p), Last(p)) = p /\ Last(p) \in STRING
<1>1. /\ Front(p) \in Seq(STRING) /\ Len(Front(p)) = Len(p) - 1
      /\ \A i \in 1 .. (Len(p) - 1) : Front(p)[i] = p[i]
      /\ Last(p) = p[Len(p)] /\ Last(p) \in STRING /\ Len(p) \in Nat \ {0}
  BY FrontLast
<1>2. PICK q, k : q = Front(p) /\ k = Last(p)
  OBVIOUS
<1>3. Append(q, k) \in Seq(STRING) /\ Len(Append(q, k)) = Len(p)
  BY <1>1, <1>2
<1>4. \A i \in 1 .. Len(p) : Append(q, k)[i] = p[i]
  BY <1>1, <1>2
<1>5. Append(q, k) = p
  BY <1>1, <1>3, <1>4
<1> QED  BY <1>1, <1>2, <1>5

LEMMA WithAtKey ==
  ASSUME NEW h, NEW data, NEW path, EntriesAt(h, data, path), NEW k, NEW v, NEW new, new = With(data, k, v),
         EntriesAt(h, new, path)
  PROVE  /\ DOMAIN new = DOMAIN data /\ \A i \in DOMAIN data : new[i].key = data[i].key
         /\ \A x \in KeysOf(data) : AtKey(new, x) = IF x = k THEN v ELSE AtKey(data, x)
<1>1. /\ DOMAIN new = DOMAIN data
      /\ \A i \in DOMAIN data : new[i] = IF data[i].key = k THEN [key |-> k, val |-> v] ELSE data[i]
  BY DEF With
<1>2. \A i \in DOMAIN data : new[i].key = data[i].key /\ new[i].val = IF data[i].key = k THEN v ELSE data[i].val
  BY <1>1
<1>3. ASSUME NEW x \in KeysOf(data) PROVE AtKey(new, x) = IF x = k THEN v ELSE AtKey(data, x)
  <2>1. PICK i \in DOMAIN data : data[i].key = x /\ AtKey(data, x) = data[i].val
    BY AtKeyIs
  <2>2. AtKey(new, new[i].key) = new[i].val
    BY <1>1, <2>1, AtKeyIs
  <2> QED  BY <1>2, <2>1, <2>2
<1> QED  BY <1>1, <1>2, <1>3

(* An override counts for its own path only, and the last one does.        *)
LEMMA AppliedRight ==
  ASSUME source' = source, applied \in Nat, applied' = applied + 1,
         NEW p, p = source.overrides[applied + 1].key, NEW v, v = source.overrides[applied + 1].val
  PROVE  /\ \A q, x, w : q # p /\ ValueRight(x, w, q) => ValueRight(x, w, q)'
         /\ \A w : ValueRight(v, w, p)'
<1>1. ASSUME NEW q, NEW x, NEW w, q # p, ValueRight(x, w, q) PROVE ValueRight(x, w, q)'
  <2>1. AppliedTo(q)' = AppliedTo(q)
    BY <1>1, AppliedNext
  <2> QED  BY <1>1, <2>1 DEF ValueRight
<1>2. ASSUME NEW w PROVE ValueRight(v, w, p)'
  <2>1. PICK S : S = AppliedTo(p)'
    OBVIOUS
  <2>2. S = AppliedTo(p) \cup {applied + 1}
    BY <2>1, AppliedNext
  <2>3. \A j \in AppliedTo(p) : j \in 1 .. applied
    BY DEF AppliedTo
  <2>4. \A j \in S : j <= applied + 1
    BY <2>2, <2>3
  <2>5. applied + 1 \in S /\ S # {}
    BY <2>2
  <2> QED  BY <2>1, <2>4, <2>5 DEF ValueRight
<1> QED  BY <1>1, <1>2

LEMMA ApplyOverrideExact == ASSUME Inv, Whole, Exact, Counts, ApplyOverride PROVE Exact'
<1>1. CASE phase' \notin {"merge", "overrides", "strip", "done"}
  BY <1>1, NoPhase
<1>2. CASE phase' \in {"merge", "overrides", "strip", "done"}
  <2>1. PICK t, k, v, p :
           /\ p = source.overrides[applied + 1].key /\ v = source.overrides[applied + 1].val /\ k = Last(p)
           /\ p \in Seq(STRING) /\ p # <<>> /\ ~isStructLike(v)
           /\ Found(Front(p)).error = "ok" /\ t = Found(Front(p)).cell /\ k \in KeysOf(Data(t))
           /\ Write(t, With(Data(t), k, v)) /\ phase = "overrides" /\ applied' = applied + 1
           /\ UNCHANGED <<source, calls, merged, protos, phase>>
    BY <1>2, OverrideIs
  <2>2. Front(p) \in Seq(STRING) /\ Append(Front(p), k) = p
    BY <2>1, FrontAppend
  <2>3. Primary(t, merged) /\ t.path = Front(p) /\ Place(t)
    BY <2>1, <2>2, FoundIs DEF Primary, Place
  <2>4. PICK old, new : old = Data(t) /\ new = With(old, k, v)
    OBVIOUS
  <2>5. EntriesAt(source.heap, old, t.path)
    BY <2>3, <2>4 DEF Inv, Maps
  <2>6. EntriesAt(source.heap, new, t.path) /\ KeysOf(new) = KeysOf(old)
    BY <2>1, <2>4, <2>5, WithIs
  <2>7. /\ DOMAIN new = DOMAIN old /\ \A i \in DOMAIN old : new[i].key = old[i].key
        /\ \A x \in KeysOf(old) : AtKey(new, x) = IF x = k THEN v ELSE AtKey(old, x)
    BY <2>4, <2>5, <2>6, WithAtKey
  <2>8. /\ \A q, x, w : q # p /\ ValueRight(x, w, q) => ValueRight(x, w, q)'
        /\ \A w : ValueRight(v, w, p)'
    BY <2>1, AppliedRight DEF Counts
  <2>9. PICK n : n = merged
    OBVIOUS
  <2>10. ASSUME NEW c, Primary(c, n) PROVE EntriesRight(Data(c), c.path, n) /\ c.path \in Seq(STRING)
    <3>1. Upto(c) = n
      BY <2>1, <2>9 DEF Upto
    <3>2. EntriesRight(Data(c), c.path, n)
      BY <2>1, <2>10, <3>1 DEF Exact, Working, RightAt
    <3>3. Place(c)
      BY <2>10 DEF Primary, Place
    <3> QED  BY <3>2, <3>3, PlaceIs DEF Inv
  <2>11. PICK gone : gone = Removed
    OBVIOUS
  <2>12. gone = Removed'
    BY <2>1, <2>11 DEF Removed, ProtoKeys
  <2>13. ASSUME NEW c, Primary(c, n), NEW x, c # t \/ x # k PROVE Append(c.path, x) # p
    <3>1. ASSUME Append(c.path, x) = p PROVE FALSE
      <4>1. c.path = t.path /\ x = k
        BY <2>2, <2>3, <2>10, <2>13, <3>1, AppendSame
      <4> QED  BY <2>3, <2>9, <2>13, <4>1, OnePrimary
    <3> QED  BY <3>1
  <2>14. ASSUME NEW c, Primary(c, n), NEW d, d = IF c = t THEN new ELSE Data(c)
         PROVE  EntriesRight(d, c.path, n)'
    <3>1. PICK was : was = Data(c)
      OBVIOUS
    <3>2. EntriesRight(was, c.path, n)
      BY <2>10, <2>14, <3>1
    <3>3. \A x \in KeysOf(was) : Append(c.path, x) \notin gone
      BY <2>11, <3>2 DEF EntriesRight, KeysOf
    <3>4. DOMAIN d = DOMAIN was /\ KeysOf(d) = KeysOf(was) /\ \A i \in DOMAIN was : d[i].key = was[i].key
      BY <2>4, <2>6, <2>7, <2>14, <3>1
    <3>5. ASSUME NEW x \in KeysOf(d), NEW w, ValueRight(AtKey(was, x), w, Append(c.path, x))
          PROVE  ValueRight(AtKey(d, x), w, Append(c.path, x))'
      <4>1. CASE c = t /\ x = k
        <5>1. AtKey(d, x) = v /\ Append(c.path, x) = p
          BY <2>2, <2>3, <2>4, <2>7, <2>14, <3>1, <3>4, <3>5, <4>1
        <5> QED  BY <2>8, <5>1
      <4>2. CASE c # t \/ x # k
        <5>1. AtKey(d, x) = AtKey(was, x)
          BY <2>4, <2>7, <2>14, <3>1, <3>4, <3>5, <4>2
        <5>2. Append(c.path, x) # p
          BY <2>13, <2>14, <4>2
        <5> QED  BY <2>8, <3>5, <5>1, <5>2
      <4> QED  BY <4>1, <4>2
    <3>6. \A i, j \in DOMAIN d : i < j =>
            \E a, b \in DOMAIN was : a < b /\ d[i].key = was[a].key /\ d[j].key = was[b].key
      BY <3>4
    <3> QED  BY <2>1, <2>11, <2>12, <3>2, <3>3, <3>4, <3>5, <3>6, ChangedRight
  <2>15. \A c : Primary(c, Upto(c))' => RightAt(c)'
    <3>1. Write(t, new)
      BY <2>1, <2>4
    <3>2. \A c, d : Primary(c, n) /\ d = (IF c = t THEN new ELSE Data(c)) => EntriesRight(d, c.path, n)'
      BY <2>14
    <3> QED  BY <2>1, <2>3, <2>6, <2>9, <3>1, <3>2, WrittenRight
  <2> QED  BY <2>1, <2>15 DEF Exact
<1> QED  BY <1>1, <1>2

LEMMA StripProtoExact == ASSUME Inv, Whole, Exact, ProtosAre, StripProto PROVE Exact'
<1>1. phase = "strip"
  BY DEF StripProto
<1>2. CASE phase' \notin {"merge", "overrides", "strip", "done"}
  BY <1>2, NoPhase
<1>3. CASE phase' \in {"merge", "overrides", "strip", "done"}
  <2>1. PICK p \in protos :
          LET nested == getNestedConfig(p)
          IN  IF nested.error # "ok" THEN Fail(nested.error)
              ELSE IF Last(p) \notin KeysOf(Data(nested.cell)) THEN Fail("std::out_of_range")
              ELSE /\ Write(nested.cell, Erase(Data(nested.cell), Last(p)))
                   /\ protos' = protos \ {p}
                   /\ UNCHANGED <<source, calls, merged, applied, phase>>
    BY DEF StripProto
  <2>2. p \in Seq(STRING) /\ p # <<>> /\ p \in ProtoKeys
    <3>1. source \in Sources
      BY DEF Inv, Heap
    <3>2. \A c \in DOMAIN source.heap : c.path \in Seq(STRING) /\ (source.heap[c].type = "kProto" => c.path # <<>>)
      BY <3>1, SourceIs, SourcesAssumption
    <3> QED  BY <3>2 DEF ProtosAre, ProtoKeys
  <2>3. PICK nested : nested = getNestedConfig(p)
    OBVIOUS
  <2>4. /\ nested \in Nested /\ nested.error \in {"ok", "InvalidTypeException"}
        /\ nested.error = "ok" => Last(p) \in KeysOf(Data(nested.cell))
    BY <1>1, <2>3, ProtoFound
  <2>5. nested.error = "ok"
    BY <1>3, <2>1, <2>3, <2>4 DEF Fail
  <2>6. PICK t, k, old, new : t = nested.cell /\ k = Last(p) /\ old = Data(t) /\ new = Erase(old, k)
    OBVIOUS
  <2>7. /\ Write(t, new) /\ protos' = protos \ {p} /\ k \in KeysOf(old)
        /\ UNCHANGED <<source, calls, merged, applied, phase>>
    BY <2>1, <2>3, <2>4, <2>5, <2>6
  <2>8. Front(p) \in Seq(STRING) /\ Append(Front(p), k) = p
    BY <2>2, <2>6, FrontAppend
  <2>9. nested = Found(Front(p))
    BY <2>3 DEF getNestedConfig
  <2>10. Primary(t, merged) /\ t.path = Front(p) /\ Place(t)
    BY <1>1, <2>5, <2>6, <2>8, <2>9, FoundIs DEF Primary, Place
  <2>11. EntriesAt(source.heap, old, t.path)
    BY <2>6, <2>10 DEF Inv, Maps
  <2>12. /\ EntriesAt(source.heap, new, t.path) /\ KeysOf(new) = KeysOf(old) \ {k}
         /\ \A i \in DOMAIN new : new[i] \in ToSet(old)
         /\ \A i, j \in DOMAIN new : i < j => \E a, b \in DOMAIN old : a < b /\ new[i] = old[a] /\ new[j] = old[b]
    BY <2>6, <2>7, <2>11, EraseIs
  <2>13. \A x \in KeysOf(new) : AtKey(new, x) = AtKey(old, x)
    <3>1. ASSUME NEW x \in KeysOf(new) PROVE AtKey(new, x) = AtKey(old, x)
      <4>1. PICK i \in DOMAIN new : new[i].key = x /\ AtKey(new, x) = new[i].val
        BY <2>12, AtKeyIs
      <4>2. PICK j \in DOMAIN old : new[i] = old[j]
        BY <2>12 DEF ToSet
      <4>3. AtKey(old, old[j].key) = old[j].val
        BY <2>11, AtKeyIs
      <4> QED  BY <4>1, <4>2, <4>3
    <3> QED  BY <3>1
  <2>14. PICK n : n = merged
    OBVIOUS
  <2>15. ASSUME NEW c, Primary(c, n) PROVE EntriesRight(Data(c), c.path, n) /\ c.path \in Seq(STRING)
    <3>1. Upto(c) = n
      BY <1>1, <2>14 DEF Upto
    <3>2. EntriesRight(Data(c), c.path, n)
      BY <1>1, <2>15, <3>1 DEF Exact, Working, RightAt
    <3>3. Place(c)
      BY <2>15 DEF Primary, Place
    <3> QED  BY <3>2, <3>3, PlaceIs DEF Inv
  <2>16. PICK gone : gone = Removed'
    OBVIOUS
  <2>17. gone = Removed \cup {p}
    <3>1. ProtoKeys' = ProtoKeys
      BY <2>7 DEF ProtoKeys
    <3> QED  BY <2>2, <2>7, <2>16, <3>1 DEF Removed
  <2>18. ASSUME NEW c, Primary(c, n), NEW x, c # t \/ x # k PROVE Append(c.path, x) # p
    <3>1. ASSUME Append(c.path, x) = p PROVE FALSE
      <4>1. c.path = t.path /\ x = k
        BY <2>8, <2>10, <2>15, <2>18, <3>1, AppendSame
      <4> QED  BY <2>10, <2>14, <2>18, <4>1, OnePrimary
    <3> QED  BY <3>1
  <2>19. \A x, w, q : ValueRight(x, w, q) => ValueRight(x, w, q)'
    <3>1. \A q : AppliedTo(q)' = AppliedTo(q)
      BY <2>7 DEF AppliedTo
    <3> QED  BY <2>7, <3>1 DEF ValueRight
  <2>20. ASSUME NEW c, Primary(c, n), NEW d, d = IF c = t THEN new ELSE Data(c)
         PROVE  EntriesRight(d, c.path, n)'
    <3>1. PICK was : was = Data(c)
      OBVIOUS
    <3>2. EntriesRight(was, c.path, n)
      BY <2>15, <2>20, <3>1
    <3>3. \A x \in KeysOf(was) : Append(c.path, x) \notin Removed
      BY <3>2 DEF EntriesRight, KeysOf
    <3>4. \A x \in KeysOf(d) : x \in KeysOf(was) /\ (c # t \/ x # k) /\ AtKey(d, x) = AtKey(was, x)
      BY <2>6, <2>12, <2>13, <2>20, <3>1
    <3>5. \A x \in KeysOf(d) : x \in KeysOf(was) /\ Append(c.path, x) \notin gone
      BY <2>17, <2>18, <2>20, <3>3, <3>4
    <3>6. \A x \in KeysOf(was) : x \in KeysOf(d) \/ Append(c.path, x) \in gone
      BY <2>6, <2>8, <2>10, <2>12, <2>17, <2>20, <3>1
    <3>7. \A x \in KeysOf(d) : \A w :
            ValueRight(AtKey(was, x), w, Append(c.path, x)) => ValueRight(AtKey(d, x), w, Append(c.path, x))'
      BY <2>19, <3>4
    <3>8. \A i, j \in DOMAIN d : i < j =>
            \E a, b \in DOMAIN was : a < b /\ d[i].key = was[a].key /\ d[j].key = was[b].key
      BY <2>6, <2>12, <2>20, <3>1
    <3>9. Removed \subseteq gone /\ source' = source
      BY <2>7, <2>17
    <3> QED  BY <2>16, <3>2, <3>5, <3>6, <3>7, <3>8, <3>9, ChangedRight
  <2>21. \A c : Primary(c, Upto(c))' => RightAt(c)'
    <3>1. \A c, d : Primary(c, n) /\ d = (IF c = t THEN new ELSE Data(c)) => EntriesRight(d, c.path, n)'
      BY <2>20
    <3> QED  BY <1>1, <2>7, <2>10, <2>12, <2>14, <3>1, WrittenRight
  <2> QED  BY <1>1, <2>7, <2>21 DEF Exact, Working
<1> QED  BY <1>2, <1>3

-----------------------------------------------------------------------------
(* Every step keeps it right. *)

LEMMA NextExact == ASSUME Inv, Whole, Exact, Counts, ProtosAre, [Next]_vars PROVE Exact'
<1>1. CASE UNCHANGED vars
  <2>1. /\ SameTree /\ calls' = calls /\ phase' = phase /\ protos' = protos /\ source' = source
        /\ applied' = applied /\ DOMAIN heap' = DOMAIN heap
    BY <1>1 DEF vars, SameTree
  <2>2. \A c : Touched(calls, c)' = Touched(calls, c)
    BY <2>1 DEF Touched, Key
  <2>3. \A c : Upto(c)' = Upto(c) /\ Data(c)' = Data(c)
    BY <2>1, <2>2, SameData DEF Upto, SameTree
  <2>4. ASSUME Working, NEW c, Primary(c, Upto(c))' PROVE RightAt(c)'
    <3>1. Primary(c, Upto(c))
      BY <2>1, <2>3, <2>4 DEF Primary
    <3>2. PICK data, n : data = Data(c) /\ n = Upto(c)
      OBVIOUS
    <3>3. EntriesRight(data, c.path, n)
      BY <2>4, <3>1, <3>2 DEF Exact, RightAt
    <3> QED  BY <2>1, <2>3, <3>2, <3>3, RightStep
  <2>5. Working' = Working
    BY <2>1 DEF Working
  <2> QED  BY <2>1, <2>4, <2>5 DEF Exact
<1>2. CASE Finished
  BY <1>1, <1>2 DEF Finished
<1> QED  BY <1>1, <1>2, MergeMapExact, MergeEntryExact, ReturnMergedExact, EndsExact, ApplyOverrideExact,
            StripProtoExact DEF Next

LEMMA AlwaysExact == Spec => []Exact
<1>1. (Inv /\ Counts /\ ProtosAre) /\ Whole /\ Exact /\ [Next]_vars => Exact'
  BY NextExact
<1> QED  BY <1>1, InitExact, AlwaysInv, AlwaysWhole, PTL DEF Spec

-----------------------------------------------------------------------------
(* What the tree is at a path. *)

LEMMA PrefixIs ==
  ASSUME NEW S, NEW p \in Seq(S), NEW q \in Seq(S)
  PROVE  IsPrefix(p, q) <=> Len(p) <= Len(q) /\ \A i \in 1 .. Len(p) : p[i] = q[i]
<1>1. SubSeq(p, 1, Len(p)) = p
  OBVIOUS
<1>2. ASSUME Len(p) <= Len(q)
      PROVE  SubSeq(q, 1, Len(p)) \in Seq(S) /\ Len(SubSeq(q, 1, Len(p))) = Len(p)
             /\ \A i \in 1 .. Len(p) : SubSeq(q, 1, Len(p))[i] = q[i]
  BY <1>2
<1> QED  BY <1>1, <1>2 DEF IsPrefix

LEMMA PrefixAppend ==
  ASSUME NEW S, NEW p \in Seq(S), NEW q \in Seq(S), NEW x \in S
  PROVE  IsPrefix(p, Append(q, x)) <=> IsPrefix(p, q) \/ p = Append(q, x)
<1>1. /\ Append(q, x) \in Seq(S) /\ Len(Append(q, x)) = Len(q) + 1 /\ Len(q) \in Nat /\ Len(p) \in Nat
      /\ \A i \in 1 .. Len(q) : Append(q, x)[i] = q[i]
  OBVIOUS
<1>2. PICK r, n, l : r = Append(q, x) /\ n = Len(q) /\ l = Len(p)
  OBVIOUS
<1>3. r \in Seq(S) /\ Len(r) = n + 1 /\ n \in Nat /\ l \in Nat /\ l = Len(p) /\ \A i \in 1 .. n : r[i] = q[i]
  BY <1>1, <1>2
<1>4. IsPrefix(p, r) <=> l <= n + 1 /\ \A i \in 1 .. l : p[i] = r[i]
  BY <1>3, PrefixIs
<1>5. IsPrefix(p, q) <=> l <= n /\ \A i \in 1 .. l : p[i] = q[i]
  BY <1>2, PrefixIs
<1>6. CASE l <= n
  <2>1. \A i \in 1 .. l : r[i] = q[i]
    BY <1>3, <1>6
  <2>2. p # r
    BY <1>2, <1>3, <1>6
  <2>3. IsPrefix(p, r) <=> IsPrefix(p, q)
    BY <1>3, <1>4, <1>5, <1>6, <2>1
  <2> QED  BY <1>2, <2>2, <2>3
<1>7. CASE l = n + 1
  <2>1. ASSUME \A i \in 1 .. l : p[i] = r[i] PROVE p = r
    <3>1. Len(p) = Len(r) /\ r \in Seq(S) /\ \A i \in 1 .. Len(p) : p[i] = r[i]
      BY <1>3, <1>7, <2>1
    <3> QED  BY <3>1
  <2>2. ~IsPrefix(p, q)
    BY <1>3, <1>5, <1>7
  <2> QED  BY <1>2, <1>3, <1>4, <1>7, <2>1, <2>2
<1>8. CASE l > n + 1
  <2>1. ~IsPrefix(p, r) /\ ~IsPrefix(p, q) /\ p # r
    BY <1>2, <1>3, <1>4, <1>5, <1>8
  <2> QED  BY <1>2, <2>1
<1> QED  BY <1>3, <1>6, <1>7, <1>8

(* The keys by which a struct may be cut off.                              *)
LEMMA CutKeys ==
  ASSUME Inv, Counts
  PROVE  /\ \A i \in 1 .. applied : source.overrides[i].key \in Seq(STRING) \ {<<>>}
                                    /\ ~isStructLike(source.overrides[i].val)
         /\ \A p \in Removed : p \in Seq(STRING) \ {<<>>}
<1>1. source \in Sources
  BY DEF Inv, Heap
<1>2. /\ source.overrides \in Seq(ToSet(source.overrides))
      /\ \A i \in DOMAIN source.overrides :
           source.overrides[i].key \in Seq(STRING) \ {<<>>} /\ ~isStructLike(source.overrides[i].val)
  BY <1>1, SourcesAssumption
<1>3. \A i \in 1 .. applied : i \in DOMAIN source.overrides
  BY <1>2 DEF Counts
<1>4. \A c \in DOMAIN source.heap : c.path \in Seq(STRING) /\ (source.heap[c].type = "kProto" => c.path # <<>>)
  BY <1>1, SourceIs, SourcesAssumption
<1>5. \A p \in Removed : p \in Seq(STRING) \ {<<>>}
  BY <1>4 DEF Removed, ProtoKeys
<1> QED  BY <1>2, <1>3, <1>5

LEMMA CutOffNext ==
  ASSUME Inv, Counts, NEW q \in Seq(STRING), NEW x \in STRING, NEW r, r = Append(q, x)
  PROVE  CutOff(r) <=> CutOff(q) \/ AppliedTo(r) # {} \/ r \in Removed
<1>1. ASSUME NEW i \in 1 .. applied
      PROVE  IsPrefix(source.overrides[i].key, r) <=> IsPrefix(source.overrides[i].key, q) \/ source.overrides[i].key = r
  <2>1. PICK p \in Seq(STRING) : p = source.overrides[i].key
    BY CutKeys
  <2> QED  BY <2>1, PrefixAppend
<1>2. \A p \in Removed : IsPrefix(p, r) <=> IsPrefix(p, q) \/ p = r
  BY CutKeys, PrefixAppend
<1>3. (\E i \in 1 .. applied : IsPrefix(source.overrides[i].key, r)) <=>
        (\E i \in 1 .. applied : IsPrefix(source.overrides[i].key, q)) \/ AppliedTo(r) # {}
  BY <1>1 DEF AppliedTo
<1>4. (\E p \in Removed : IsPrefix(p, r)) <=> (\E p \in Removed : IsPrefix(p, q)) \/ r \in Removed
  BY <1>2
<1> QED  BY <1>3, <1>4 DEF CutOff

LEMMA NoneCutOff == ASSUME Inv, Counts PROVE ~CutOff(<<>>)
<1>1. <<>> \in Seq(STRING) /\ Len(<<>>) = 0
  OBVIOUS
<1>2. ASSUME NEW p \in Seq(STRING) \ {<<>>} PROVE ~IsPrefix(p, <<>>)
  <2>1. Len(p) > 0 /\ p \in Seq(STRING)
    OBVIOUS
  <2>2. IsPrefix(p, <<>>) => Len(p) <= Len(<<>>)
    BY <1>1, <2>1, PrefixIs
  <2> QED  BY <1>1, <2>1, <2>2
<1> QED  BY <1>2, CutKeys DEF CutOff

(* A struct is the value of an entry of the struct it is in.               *)
LEMMA ParentEntry ==
  ASSUME source \in Sources, NEW c \in DOMAIN source.heap, NEW q \in Seq(STRING), NEW x, c.path = Append(q, x)
  PROVE  \E e \in ToSet(EntriesOf(c.map, q)) : e.key = x /\ isStructLike(e.val)
<1>1. c.path # <<>>
  OBVIOUS
<1>2. PICK d \in DOMAIN source.heap : \E i \in DOMAIN source.heap[d].data :
        isStructLike(source.heap[d].data[i].val) /\ source.heap[d].data[i].val.cell = c
  <2>1. \A e \in DOMAIN source.heap : e.path # <<>> =>
          \E d \in DOMAIN source.heap : \E i \in DOMAIN source.heap[d].data :
            isStructLike(source.heap[d].data[i].val) /\ source.heap[d].data[i].val.cell = e
    BY SourcesAssumption, ZenonT(30)
  <2> QED  BY <1>1, <2>1, ZenonT(30)
<1>3. PICK data : data = source.heap[d].data
  OBVIOUS
<1>4. PICK i \in DOMAIN data : isStructLike(data[i].val) /\ data[i].val.cell = c
  BY <1>2, <1>3
<1>5. EntriesAt(source.heap, data, d.path) /\ data[i].val.cell.map = d.map
  BY <1>3, <1>4, SourceIs, ZenonT(40)
<1>6. c.path = Append(d.path, data[i].key) /\ c.map = d.map
  BY <1>4, <1>5 DEF EntriesAt
<1>7. d.path \in Seq(STRING) /\ d = Cell(d.map, d.path)
  BY SourceIs
<1>8. d.path = q /\ data[i].key = x
  <2>1. PICK p, k : p = d.path /\ k = data[i].key
    OBVIOUS
  <2>2. p \in Seq(STRING) /\ Append(p, k) = Append(q, x)
    BY <1>6, <1>7, <2>1
  <2> QED  BY <2>1, <2>2, AppendSame
<1>9. data = EntriesOf(c.map, q)
  BY <1>3, <1>6, <1>7, <1>8, EntriesOfIs
<1> QED  BY <1>4, <1>8, <1>9 DEF ToSet

(* A struct of a map is where it was parsed, unless it is cut off there.   *)
LEMMA ChildRight ==
  ASSUME Inv, Counts, NEW n \in Nat, NEW c \in DOMAIN source.heap, c.map \in 1 .. n,
         NEW q \in Seq(STRING), NEW x \in STRING, NEW r, r = Append(q, x), c.path = r,
         NEW data, EntriesAt(source.heap, data, q), EntriesRight(data, q, n), ~CutOff(q)
  PROVE  x \in KeysOf(data) /\ isStructLike(AtKey(data, x)) <=> ~CutOff(r)
<1>1. source \in Sources
  BY DEF Inv, Heap
<1>2. PICK e \in ToSet(EntriesOf(c.map, q)) : e.key = x /\ isStructLike(e.val)
  <2>1. c \in DOMAIN source.heap /\ c.path = Append(q, x)
    OBVIOUS
  <2>2. \E e \in ToSet(EntriesOf(c.map, q)) : e.key = x /\ isStructLike(e.val)
    BY <1>1, <2>1, ParentEntry, Zenon
  <2> QED  BY <2>2
<1>3. /\ x \in KeysOf(data) \/ r \in Removed
      /\ x \in KeysOf(data) => ValueRight(AtKey(data, x), e.val, r)
  BY <1>2 DEF EntriesRight
<1>4. x \in KeysOf(data) => r \notin Removed
  BY DEF EntriesRight, KeysOf
<1>5. CutOff(r) <=> AppliedTo(r) # {} \/ r \in Removed
  BY CutOffNext
<1>6. CASE AppliedTo(r) = {}
  <2>1. x \in KeysOf(data) => AtKey(data, x).type = e.val.type
    BY <1>3, <1>6 DEF ValueRight
  <2>2. x \in KeysOf(data) => isStructLike(AtKey(data, x))
    BY <1>2, <2>1 DEF isStructLike
  <2> QED  BY <1>3, <1>4, <1>5, <1>6, <2>2
<1>7. CASE AppliedTo(r) # {}
  <2>1. ASSUME x \in KeysOf(data) PROVE ~isStructLike(AtKey(data, x))
    <3>1. PICK i \in AppliedTo(r) : AtKey(data, x) = source.overrides[i].val
      BY <1>3, <1>7, <2>1 DEF ValueRight
    <3>2. i \in 1 .. applied
      BY DEF AppliedTo
    <3> QED  BY <3>1, <3>2, CutKeys
  <2> QED  BY <1>5, <1>7, <2>1
<1> QED  BY <1>6, <1>7

LEMMA TreeIsRight ==
  ASSUME Inv, Whole, Exact, Counts, phase \in {"overrides", "strip", "done"}
  PROVE  TreeRight
<1>1. /\ source \in Sources /\ DOMAIN heap = DOMAIN source.heap /\ merged = source.maps /\ merged \in Nat
      /\ \A c \in DOMAIN source.heap : c.path \in Seq(STRING) /\ c.map \in 1 .. merged
  BY CellsOf DEF Inv, Heap
<1>2. ASSUME NEW c, Primary(c, merged)
      PROVE  EntriesRight(Data(c), c.path, merged) /\ EntriesAt(source.heap, Data(c), c.path)
  <2>1. Upto(c) = merged
    BY DEF Upto
  <2>2. EntriesRight(Data(c), c.path, merged)
    BY <1>2, <2>1 DEF Exact, Working, RightAt
  <2>3. Place(c)
    BY <1>2 DEF Primary, Place
  <2> QED  BY <2>2, <2>3 DEF Inv, Maps
<1>3. ASSUME NEW path \in {<<>>} \cup {c.path : c \in DOMAIN source.heap}
      PROVE  /\ Found(path).error = "ok" <=> ~CutOff(path)
             /\ Found(path).error = "ok" => EntriesRight(Data(Found(path).cell), path, source.maps)
  <2>1. path \in Seq(STRING) /\ Len(path) \in Nat
    <3>1. <<>> \in Seq(STRING)
      OBVIOUS
    <3>2. path \in Seq(STRING)
      BY <1>1, <1>3, <3>1
    <3> QED  BY <3>2
  <2>2. PICK g : /\ g[1 .. 0] = Ok(Root) /\ Found(path) = g[1 .. Len(path)]
                 /\ \A k \in 0 .. Len(path) : g[1 .. k] \in Nested /\ FoundAt(g[1 .. k], path, k)
                 /\ \A k \in 1 .. Len(path) : g[1 .. k] = Nest(g[1 .. (k - 1)], path[k])
    BY <2>1, FoundSteps
  <2> DEFINE Good(k) == g[1 .. k].error = "ok" <=> ~CutOff(SubSeq(path, 1, k))
             T == {k \in Nat : k <= Len(path) /\ ~Good(k)}
  <2>3. ASSUME NEW k \in 1 .. Len(path), Good(k - 1) PROVE Good(k)
    <3>1. PICK q, x, r : q = SubSeq(path, 1, k - 1) /\ x = path[k] /\ r = SubSeq(path, 1, k)
      OBVIOUS
    <3>2. q \in Seq(STRING) /\ x \in STRING /\ r = Append(q, x)
      BY <2>1, <3>1
    <3>3. PICK c \in DOMAIN source.heap : c.path = r
      <4>1. PICK d \in DOMAIN source.heap : d.path = path
        <5>1. path # <<>>
          BY <2>1
        <5> QED  BY <1>3, <5>1
      <4>2. CASE k = Len(path)
        <5>1. r = path
          BY <2>1, <3>1, <4>2
        <5> QED  BY <4>1, <5>1
      <4>3. CASE k # Len(path)
        <5>1. k \in Nat /\ k < Len(path)
          BY <2>1, <4>3
        <5>2. Cell(d.map, r) \in DOMAIN source.heap
          BY <1>1, <3>1, <4>1, <5>1, PrefixCell
        <5> QED  BY <5>2, CellIs
      <4> QED  BY <4>2, <4>3
    <3>4. PICK at : at = g[1 .. (k - 1)]
      OBVIOUS
    <3>5. at \in Nested /\ FoundAt(at, path, k - 1) /\ g[1 .. k] = Nest(at, x)
      <4>1. k - 1 \in 0 .. Len(path)
        BY <2>1
      <4> QED  BY <2>2, <3>1, <3>4, <4>1
    <3>6. Nest(at, x).error = "ok" <=>
            at.error = "ok" /\ x \in KeysOf(Data(at.cell)) /\ isStructLike(AtKey(Data(at.cell), x))
      BY <2>1, <3>1, <3>5, FoundStep
    <3>7. at.error = "ok" <=> ~CutOff(q)
      BY <2>3, <3>1, <3>4
    <3>8. CASE at.error # "ok"
      <4>1. CutOff(q)
        BY <3>7, <3>8
      <4>2. CutOff(r)
        BY <3>2, <4>1, CutOffNext
      <4> QED  BY <3>1, <3>5, <3>6, <3>8, <4>2
    <3>9. CASE at.error = "ok"
      <4>1. Primary(at.cell, merged) /\ at.cell.path = q
        BY <3>1, <3>5, <3>9 DEF FoundAt
      <4>2. EntriesRight(Data(at.cell), q, merged) /\ EntriesAt(source.heap, Data(at.cell), q)
        BY <1>2, <4>1
      <4>3. x \in KeysOf(Data(at.cell)) /\ isStructLike(AtKey(Data(at.cell), x)) <=> ~CutOff(r)
        BY <1>1, <3>2, <3>3, <3>7, <3>9, <4>2, ChildRight
      <4> QED  BY <3>1, <3>5, <3>6, <3>9, <4>3
    <3> QED  BY <3>8, <3>9
  <2>4. Good(0)
    <3>1. SubSeq(path, 1, 0) = <<>> /\ Ok(Root).error = "ok"
      BY <2>1 DEF Ok
    <3> QED  BY <2>2, <3>1, NoneCutOff
  <2> HIDE DEF Good
  <2>5. ASSUME NEW k \in T, \A j \in T : k <= j PROVE FALSE
    <3>1. k # 0
      BY <2>4, <2>5
    <3>2. k - 1 \in Nat /\ k - 1 <= Len(path) /\ k - 1 \notin T /\ k \in 1 .. Len(path)
      BY <2>1, <2>5, <3>1
    <3>3. Good(k)
      BY <2>3, <3>2
    <3> QED  BY <2>5, <3>3
  <2>6. Good(Len(path))
    <3>1. T \in SUBSET Nat
      OBVIOUS
    <3>2. T = {}
      <4> HIDE DEF T
      <4> QED  BY <2>5, <3>1, LeastNumber
    <3> QED  BY <2>1, <3>2
  <2>7. Found(path).error = "ok" <=> ~CutOff(path)
    <3>1. SubSeq(path, 1, Len(path)) = path
      BY <2>1
    <3> QED  BY <2>2, <2>6, <3>1 DEF Good
  <2>8. ASSUME Found(path).error = "ok" PROVE EntriesRight(Data(Found(path).cell), path, source.maps)
    <3>1. Primary(Found(path).cell, merged) /\ Found(path).cell.path = path
      BY <2>1, <2>8, FoundIs
    <3> QED  BY <1>1, <1>2, <3>1
  <2> QED  BY <2>7, <2>8
<1> QED  BY <1>3 DEF TreeRight

(* For any maps and keys: when the maps have been merged and no override   *)
(* has been applied, the tree leads to a struct at every path at which one *)
(* of them has one, and the struct has the entries of all of them: every   *)
(* key that one of them has there and no other, with the value of the map  *)
(* that has it, in the order in which the maps first name them             *)
(* (config_parser.cpp:86-113, config_helpers.cpp:30-103).                  *)
THEOREM MergedIsRight == Spec => []MergedRight
<1>1. ASSUME Inv, Whole, Exact, Counts PROVE MergedRight
  BY <1>1, TreeIsRight DEF MergedRight
<1> QED  BY <1>1, AlwaysInv, AlwaysWhole, AlwaysExact, PTL

(* For any maps, keys and overrides: at the end the tree is that one with  *)
(* the value of the last override of every path that has one, without the  *)
(* protos, and without what stood below either; all overrides have been    *)
(* applied and no proto is left (config_parser.cpp:303-376).               *)
THEOREM ResultIsRight == Spec => []ResultRight
<1>1. ASSUME Inv, Whole, Exact, Counts PROVE ResultRight
  BY <1>1, TreeIsRight DEF ResultRight, Exact, Working
<1> QED  BY <1>1, AlwaysInv, AlwaysWhole, AlwaysExact, PTL

=============================================================================
