---------------------------- MODULE LookupsProofs ----------------------------
(***************************************************************************)
(* Theorems about Lookups, for any trees: what resolving, evaluating and    *)
(* cleaning up a tree leave, and what each exception means.  One invariant *)
(* describes each of the three walks, one relates the tree to its source.  *)
(***************************************************************************)
EXTENDS Lookups, SequenceLemmas, FiniteSetTheorems

-----------------------------------------------------------------------------
(* What is known of a source, cell by cell. *)

LEMMA SourceIs ==
  ASSUME NEW h \in Sources
  PROVE  /\ DOMAIN h \subseteq Nat \ {0} /\ IsFiniteSet(DOMAIN h)
         /\ h \in [DOMAIN h -> CellOf(h)]
         /\ Root \in DOMAIN h /\ h[Root].type = "kStruct"
BY SourcesAssumption, Zenon

LEMMA EntryIs ==
  ASSUME NEW h, NEW c \in DOMAIN h, NEW i \in DOMAIN h[c].data
  PROVE  <<c, i>> \in Entries(h) /\ h[c].data[i].val \in ValuesOf(h)
<1>1. <<c, i>> \in Entries(h)
  BY DEF Entries
<1>2. <<c, i>>[1] = c /\ <<c, i>>[2] = i
  OBVIOUS
<1>3. h[<<c, i>>[1]].data[<<c, i>>[2]].val = h[c].data[i].val
  BY <1>2
<1> QED  BY <1>1, <1>3, Zenon DEF ValuesOf

LEMMA EntryOfValue ==
  ASSUME NEW h, NEW v \in ValuesOf(h)
  PROVE  \E c \in DOMAIN h : \E i \in DOMAIN h[c].data : v = h[c].data[i].val
BY DEF Entries, ValuesOf

LEMMA PointerEntry ==
  ASSUME NEW h, NEW c \in DOMAIN h, NEW i \in DOMAIN h[c].data, h[c].data[i].val.type \in Container
  PROVE  <<c, i>> \in Pointers(h) /\ <<c, i>>[1] = c /\ <<c, i>>[2] = i
<1>1. <<c, i>> \in Entries(h)
  BY EntryIs
<1>2. <<c, i>>[1] = c /\ <<c, i>>[2] = i
  OBVIOUS
<1>3. h[<<c, i>>[1]].data[<<c, i>>[2]].val.type \in Container
  BY <1>2
<1> QED  BY <1>1, <1>2, <1>3, Zenon DEF Pointers

(* A pointer leads to a cell with a larger number that is of the type the  *)
(* pointer says.                                                           *)
LEMMA PointerIs ==
  ASSUME NEW h \in Sources, NEW c \in DOMAIN h, NEW i \in DOMAIN h[c].data,
         h[c].data[i].val.type \in Container
  PROVE  LET v == h[c].data[i].val
         IN  v.cell \in DOMAIN h /\ v.cell > c /\ v = Pointer(h, v.cell) /\ h[v.cell].type = v.type
<1> DEFINE e == <<c, i>>
           v == h[c].data[i].val
<1>1. \A d \in Pointers(h) :
        LET b == h[d[1]].data[d[2]].val.cell
        IN  b \in DOMAIN h /\ b > d[1] /\ h[d[1]].data[d[2]].val = Pointer(h, b)
  BY SourcesAssumption, Zenon
<1>2. e \in Pointers(h) /\ e[1] = c /\ e[2] = i
  BY PointerEntry
<1>3. v.cell \in DOMAIN h /\ v.cell > c /\ v = Pointer(h, v.cell)
  BY <1>1, <1>2
<1>4. Pointer(h, v.cell).type = h[v.cell].type
  BY DEF Pointer, Value
<1> HIDE DEF v
<1>5. v.cell \in DOMAIN h /\ v.cell > c /\ v = Pointer(h, v.cell) /\ h[v.cell].type = v.type
  BY <1>3, <1>4
<1> QED  BY <1>5 DEF v

(* Every cell but the root is held by exactly one entry.                   *)
LEMMA HolderExists ==
  ASSUME NEW h \in Sources, NEW d \in DOMAIN h, d # Root
  PROVE  \E c \in DOMAIN h : \E i \in DOMAIN h[c].data :
           h[c].data[i].val.type \in Container /\ h[c].data[i].val.cell = d
<1>1. \A c \in (DOMAIN h) \ {Root} : \E e \in Pointers(h) : h[e[1]].data[e[2]].val.cell = c
  BY SourcesAssumption, Zenon
<1>2. PICK e \in Pointers(h) : h[e[1]].data[e[2]].val.cell = d
  BY <1>1
<1>3. e \in Entries(h) /\ h[e[1]].data[e[2]].val.type \in Container
  BY DEF Pointers
<1>4. e[1] \in DOMAIN h /\ e[2] \in DOMAIN h[e[1]].data
  BY <1>3 DEF Entries
<1> QED  BY <1>2, <1>3, <1>4

LEMMA HolderUnique ==
  ASSUME NEW h \in Sources,
         NEW c \in DOMAIN h, NEW i \in DOMAIN h[c].data, h[c].data[i].val.type \in Container,
         NEW d \in DOMAIN h, NEW j \in DOMAIN h[d].data, h[d].data[j].val.type \in Container,
         h[c].data[i].val.cell = h[d].data[j].val.cell
  PROVE  c = d /\ i = j
<1>1. \A a, b \in Pointers(h) :
        h[a[1]].data[a[2]].val.cell = h[b[1]].data[b[2]].val.cell => a = b
  BY SourcesAssumption, Zenon
<1>2. /\ <<c, i>> \in Pointers(h) /\ <<c, i>>[1] = c /\ <<c, i>>[2] = i
      /\ <<d, j>> \in Pointers(h) /\ <<d, j>>[1] = d /\ <<d, j>>[2] = j
  BY PointerEntry
<1>3. <<c, i>> = <<d, j>>
  BY <1>1, <1>2
<1> QED  BY <1>3

LEMMA KeysOnce ==
  ASSUME NEW h \in Sources, NEW c \in DOMAIN h, h[c].type = "kStruct",
         NEW i \in DOMAIN h[c].data, NEW j \in DOMAIN h[c].data, h[c].data[i].key = h[c].data[j].key
  PROVE  i = j
<1>1. \A d \in Cells(h, "kStruct") : \A m, n \in DOMAIN h[d].data :
        h[d].data[m].key = h[d].data[n].key => m = n
  BY SourcesAssumption, Zenon
<1>2. c \in Cells(h, "kStruct")
  BY DEF Cells
<1> QED  BY <1>1, <1>2

LEMMA ElementIs ==
  ASSUME NEW h \in Sources, NEW c \in DOMAIN h, h[c].type = "kList", NEW i \in DOMAIN h[c].data
  PROVE  LET type == h[c].data[i].val.type
         IN  \/ type = "kValueLookup"
             \/ type \in Scalar \cup {"kList"} /\ h[c].elem = type
             \/ type = "kExpression" /\ h[c].elem = "kNumber"
<1>1. \A d \in Cells(h, "kList") : \A j \in DOMAIN h[d].data :
        LET type == h[d].data[j].val.type
        IN  \/ type = "kValueLookup"
            \/ type \in Scalar \cup {"kList"} /\ h[d].elem = type
            \/ type = "kExpression" /\ h[d].elem = "kNumber"
  BY SourcesAssumption, Zenon
<1>2. c \in Cells(h, "kList")
  BY DEF Cells
<1> QED  BY <1>1, <1>2, Zenon

LEMMA OperandIs ==
  ASSUME NEW h \in Sources, NEW c \in DOMAIN h, h[c].type = "kExpression", NEW i \in DOMAIN h[c].data
  PROVE  h[c].data[i].val.type = "kValueLookup"
<1>1. \A d \in Cells(h, "kExpression") : \A j \in DOMAIN h[d].data :
        /\ h[d].data[j].val.type = "kValueLookup"
        /\ \A k \in 1 .. (j - 1) : h[d].data[k].val # h[d].data[j].val
  BY SourcesAssumption, Zenon
<1>2. c \in Cells(h, "kExpression")
  BY DEF Cells
<1> QED  BY <1>1, <1>2, Zenon

LEMMA LookupIs ==
  ASSUME NEW h \in Sources, NEW c \in DOMAIN h, NEW i \in DOMAIN h[c].data,
         h[c].data[i].val.type = "kValueLookup"
  PROVE  h[c].data[i].val \in LookupsOf(h)
BY EntryIs DEF LookupsOf

LEMMA LookupHasKeys == ASSUME NEW h \in Sources, NEW v \in LookupsOf(h) PROVE v.keys # <<>>
BY SourcesAssumption, Zenon

-----------------------------------------------------------------------------
(* The types of all fields, as an invariant: what pointers lead to, that   *)
(* operands are lookups or numbers, and in resolveVarRefs that the cells   *)
(* keep their keys and that the calls are in structs, but for the last two *)
(* at most, which are in a list and an expression.                         *)
Leads(v) == v.type \in Container => v.cell \in DOMAIN source /\ v = Pointer(source, v.cell)

Tree ==
  /\ source \in Sources
  /\ heap \in [DOMAIN source -> CellOf(source)]
  /\ \A c \in DOMAIN source : heap[c].type = source[c].type
  /\ \A c \in DOMAIN source : \A i \in DOMAIN heap[c].data : Leads(heap[c].data[i].val)
  /\ \A c \in DOMAIN source : source[c].type = "kExpression" =>
       \A i \in DOMAIN heap[c].data : heap[c].data[i].val.type \in {"kValueLookup", "kNumber"}

Frame == [cell : DOMAIN source, at : Nat \ {0}]
Calls ==
  /\ walk \in Seq(Frame) /\ Len(walk) \in 1 .. MaxDepth
  /\ walk[1].cell = Root

Link == [refs : Seq(Seq(STRING)), val : ValueOf(source)]
Chained ==
  /\ chain \in Seq(Link) /\ Len(chain) <= 1
  /\ chain # <<>> => Leads(chain[1].val) /\ phase \in Exception \cup {"resolveVarRefs"}

SameKeys == phase = "resolveVarRefs" =>
  \A c \in DOMAIN source :
    /\ DOMAIN heap[c].data = DOMAIN source[c].data
    /\ \A i \in DOMAIN source[c].data : heap[c].data[i].key = source[c].data[i].key
Outwards == phase = "resolveVarRefs" =>
  \A n \in 1 .. (Len(walk) - 1) :
    /\ walk[n].at \in DOMAIN source[walk[n].cell].data
    /\ \/ source[walk[n].cell].type = "kStruct"
       \/ source[walk[n].cell].type = "kList" /\ source[walk[n + 1].cell].type = "kExpression"
ChainHere == phase = "resolveVarRefs" /\ chain # <<>> =>
  Here.at \in DOMAIN Cell.data /\ Current.type = "kValueLookup"

Typed ==
  /\ Tree /\ Calls /\ Chained
  /\ phase \in Walking \cup Exception \cup {"done"}
  /\ SameKeys /\ Outwards /\ ChainHere

LEMMA CellIs ==
  ASSUME Tree, NEW c \in DOMAIN source
  PROVE  /\ heap[c] \in CellOf(source) /\ heap[c].type = source[c].type /\ heap[c].type \in Container
         /\ heap[c].elem \in ListElementType
         /\ heap[c].data \in Seq(EntryOf(source)) /\ DOMAIN heap[c].data = 1 .. Len(heap[c].data)
         /\ Len(heap[c].data) \in Nat
         /\ \A i \in DOMAIN heap[c].data :
              /\ heap[c].data[i] \in EntryOf(source) /\ heap[c].data[i].key \in STRING
              /\ heap[c].data[i].val \in ValueOf(source)
<1>1. heap[c] \in CellOf(source) /\ heap[c].type = source[c].type
  BY DEF Tree
<1>2. /\ heap[c].type \in Container /\ heap[c].elem \in ListElementType
      /\ heap[c].data \in Seq(EntryOf(source))
  BY <1>1 DEF CellOf
<1>3. DOMAIN heap[c].data = 1 .. Len(heap[c].data) /\ Len(heap[c].data) \in Nat
      /\ \A i \in DOMAIN heap[c].data : heap[c].data[i] \in EntryOf(source)
  BY <1>2
<1>4. \A e \in EntryOf(source) : e.key \in STRING /\ e.val \in ValueOf(source)
  BY DEF EntryOf
<1> QED  BY <1>1, <1>2, <1>3, <1>4

LEMMA SourceCellIs ==
  ASSUME Tree, NEW c \in DOMAIN source
  PROVE  /\ source[c] \in CellOf(source) /\ source[c].type \in Container /\ c \in Nat \ {0}
         /\ source[c].data \in Seq(EntryOf(source)) /\ DOMAIN source[c].data = 1 .. Len(source[c].data)
         /\ Len(source[c].data) \in Nat
         /\ \A i \in DOMAIN source[c].data :
              /\ source[c].data[i] \in EntryOf(source) /\ source[c].data[i].key \in STRING
              /\ source[c].data[i].val \in ValueOf(source)
<1>1. source \in Sources
  BY DEF Tree
<1>2. source[c] \in CellOf(source) /\ c \in Nat \ {0}
  BY <1>1, SourceIs
<1>3. source[c].type \in Container /\ source[c].data \in Seq(EntryOf(source))
  BY <1>2 DEF CellOf
<1>4. DOMAIN source[c].data = 1 .. Len(source[c].data) /\ Len(source[c].data) \in Nat
      /\ \A i \in DOMAIN source[c].data : source[c].data[i] \in EntryOf(source)
  BY <1>3
<1>5. \A e \in EntryOf(source) : e.key \in STRING /\ e.val \in ValueOf(source)
  BY DEF EntryOf
<1> QED  BY <1>2, <1>3, <1>4, <1>5

LEMMA HereIs ==
  ASSUME Calls
  PROVE  /\ Len(walk) \in Nat \ {0} /\ Len(walk) <= MaxDepth /\ Here = walk[Len(walk)]
         /\ Here \in Frame /\ Here.cell \in DOMAIN source /\ Here.at \in Nat \ {0}
         /\ \A n \in 1 .. Len(walk) : walk[n] \in Frame /\ walk[n].cell \in DOMAIN source
                                      /\ walk[n].at \in Nat \ {0}
         /\ MaxDepth \in Nat
<1>1. Len(walk) \in Nat \ {0} /\ Len(walk) <= MaxDepth /\ walk \in Seq(Frame) /\ MaxDepth \in Nat
  BY DepthAssumption DEF Calls
<1>2. Here = walk[Len(walk)]
  BY DEF Here, Last
<1>3. \A n \in 1 .. Len(walk) : walk[n] \in Frame
  BY <1>1
<1>4. \A f \in Frame : f.cell \in DOMAIN source /\ f.at \in Nat \ {0}
  BY DEF Frame
<1>5. Len(walk) \in 1 .. Len(walk)
  BY <1>1
<1> QED  BY <1>1, <1>2, <1>3, <1>4, <1>5

-----------------------------------------------------------------------------
(* What a walk does to its calls. *)

LEMMA AdvanceIs ==
  ASSUME Calls
  PROVE  LET w == Advance(walk)
         IN  /\ w \in Seq(Frame) /\ Len(w) = Len(walk) /\ w # <<>>
             /\ \A n \in 1 .. (Len(walk) - 1) : w[n] = walk[n]
             /\ \A n \in 1 .. Len(walk) : w[n].cell = walk[n].cell
             /\ w[Len(walk)].at = Here.at + 1 /\ w[1].cell = Root
<1>1. /\ Len(walk) \in Nat \ {0} /\ Here = walk[Len(walk)] /\ Here \in Frame /\ walk \in Seq(Frame)
      /\ walk[1].cell = Root
  BY HereIs DEF Calls
<1> DEFINE n == Len(walk)
           f == [walk[n] EXCEPT !.at = @ + 1]
           w == [walk EXCEPT ![n] = f]
<1>2. f \in Frame /\ f.cell = Here.cell /\ f.at = Here.at + 1
  BY <1>1 DEF Frame
<1>3. Advance(walk) = w
  BY DEF Advance
<1> HIDE DEF f
<1>4. w \in Seq(Frame) /\ Len(w) = n /\ w # <<>> /\ w[n] = f /\ \A m \in 1 .. n : m # n => w[m] = walk[m]
  BY <1>1, <1>2
<1> HIDE DEF w
<1>5. \A m \in 1 .. (n - 1) : m \in 1 .. n /\ m # n
  BY <1>1
<1>6. \A m \in 1 .. n : w[m].cell = walk[m].cell
  BY <1>1, <1>2, <1>4
<1>7. 1 \in 1 .. n
  BY <1>1
<1> QED  BY <1>1, <1>2, <1>3, <1>4, <1>5, <1>6, <1>7

LEMMA PushIs ==
  ASSUME Calls, NEW f \in Frame
  PROVE  LET w == Append(walk, f)
         IN  /\ w \in Seq(Frame) /\ Len(w) = Len(walk) + 1 /\ w # <<>>
             /\ \A n \in 1 .. Len(walk) : w[n] = walk[n]
             /\ w[Len(walk) + 1] = f /\ w[1].cell = Root
<1>1. Len(walk) \in Nat \ {0} /\ walk \in Seq(Frame) /\ walk[1].cell = Root
  BY HereIs DEF Calls
<1>2. 1 \in 1 .. Len(walk)
  BY <1>1
<1> QED  BY <1>1, <1>2

LEMMA PopIs ==
  ASSUME Calls, Len(walk) > 1
  PROVE  LET w == Advance(Front(walk))
         IN  /\ w \in Seq(Frame) /\ Len(w) = Len(walk) - 1 /\ w # <<>>
             /\ \A n \in 1 .. (Len(walk) - 2) : w[n] = walk[n]
             /\ \A n \in 1 .. (Len(walk) - 1) : w[n].cell = walk[n].cell
             /\ w[Len(walk) - 1].at = walk[Len(walk) - 1].at + 1 /\ w[1].cell = Root
<1> DEFINE n == Len(walk) - 1
           s == Front(walk)
           f == [s[n] EXCEPT !.at = @ + 1]
           w == [s EXCEPT ![n] = f]
<1>1. /\ Len(walk) \in Nat \ {0} /\ walk \in Seq(Frame) /\ walk[1].cell = Root /\ walk # <<>>
      /\ \A m \in 1 .. Len(walk) : walk[m] \in Frame
  BY HereIs DEF Calls
<1>2. s \in Seq(Frame) /\ Len(s) = n /\ \A m \in 1 .. n : s[m] = walk[m]
  BY <1>1, FrontLast
<1>3. n \in Nat \ {0} /\ n \in 1 .. n /\ n \in 1 .. Len(walk) /\ 1 \in 1 .. n
  BY <1>1
<1>4. f \in Frame /\ f.cell = walk[n].cell /\ f.at = walk[n].at + 1
  <2>1. s[n] = walk[n] /\ walk[n] \in Frame
    BY <1>1, <1>2, <1>3
  <2> HIDE DEF s
  <2> QED  BY <2>1 DEF Frame
<1>5. Advance(Front(walk)) = w
  BY <1>2 DEF Advance
<1> HIDE DEF f, s
<1>6. w \in Seq(Frame) /\ Len(w) = n /\ w # <<>> /\ w[n] = f /\ \A m \in 1 .. n : m # n => w[m] = s[m]
  BY <1>2, <1>3, <1>4
<1> HIDE DEF w
<1>7. \A m \in 1 .. (Len(walk) - 2) : m \in 1 .. n /\ m # n
  BY <1>3
<1>8. \A m \in 1 .. n : w[m].cell = walk[m].cell
  BY <1>2, <1>4, <1>6
<1> QED  BY <1>1, <1>2, <1>3, <1>4, <1>5, <1>6, <1>7, <1>8

-----------------------------------------------------------------------------
(* What a walk writes. *)

Written(v) ==
  /\ heap' \in [DOMAIN source -> CellOf(source)]
  /\ \A c \in DOMAIN source :
       /\ heap'[c].type = heap[c].type /\ DOMAIN heap'[c].data = DOMAIN heap[c].data
       /\ c # Here.cell => heap'[c] = heap[c]
       /\ \A i \in DOMAIN heap[c].data :
            /\ heap'[c].data[i].key = heap[c].data[i].key
            /\ heap'[c].data[i].val = IF c = Here.cell /\ i = Here.at THEN v ELSE heap[c].data[i].val

LEMMA PutIs ==
  ASSUME Tree, Calls, Here.at \in DOMAIN Cell.data, NEW v \in ValueOf(source), Put(v)
  PROVE  Written(v) /\ heap'[Here.cell].elem = Cell.elem
<1> DEFINE c == Here.cell
           n == Here.at
           e == [heap[c].data[n] EXCEPT !.val = v]
           d == [heap[c].data EXCEPT ![n] = e]
           x == [heap[c] EXCEPT !.data = d]
<1>1. c \in DOMAIN source /\ heap \in [DOMAIN source -> CellOf(source)] /\ n \in DOMAIN heap[c].data
  BY HereIs DEF Tree, Cell
<1>2. /\ heap[c] \in CellOf(source) /\ heap[c].data \in Seq(EntryOf(source))
      /\ DOMAIN heap[c].data = 1 .. Len(heap[c].data) /\ Len(heap[c].data) \in Nat
      /\ heap[c].data[n] \in EntryOf(source)
  BY <1>1, CellIs
<1>3. heap' = [heap EXCEPT ![c] = x]
  BY DEF Put
<1> HIDE DEF c, n
<1>4. e \in EntryOf(source) /\ e.key = heap[c].data[n].key /\ e.val = v
  BY <1>2 DEF EntryOf
<1> HIDE DEF e
<1>5. /\ d \in Seq(EntryOf(source)) /\ DOMAIN d = DOMAIN heap[c].data
      /\ d[n] = e /\ \A i \in DOMAIN heap[c].data : i # n => d[i] = heap[c].data[i]
  BY <1>1, <1>2, <1>4
<1> HIDE DEF d
<1>6. x \in CellOf(source) /\ x.type = heap[c].type /\ x.elem = heap[c].elem /\ x.data = d
  BY <1>2, <1>5 DEF CellOf
<1> HIDE DEF x
<1>7. heap' \in [DOMAIN source -> CellOf(source)] /\ heap'[c] = x
      /\ \A b \in DOMAIN source : b # c => heap'[b] = heap[b]
  BY <1>1, <1>3, <1>6
<1>8. ASSUME NEW b \in DOMAIN source
      PROVE  /\ heap'[b].type = heap[b].type /\ DOMAIN heap'[b].data = DOMAIN heap[b].data
             /\ b # c => heap'[b] = heap[b]
             /\ \A i \in DOMAIN heap[b].data :
                  /\ heap'[b].data[i].key = heap[b].data[i].key
                  /\ heap'[b].data[i].val = IF b = c /\ i = n THEN v ELSE heap[b].data[i].val
  BY <1>4, <1>5, <1>6, <1>7
<1>9. heap'[c].elem = heap[c].elem
  BY <1>6, <1>7
<1> QED  BY <1>7, <1>8, <1>9 DEF Written, c, n, Cell

LEMMA ReplaceElementIs ==
  ASSUME Tree, Calls, Here.at \in DOMAIN Cell.data, NEW v \in ValueOf(source), ReplaceElement(v),
         ElementType(Cell.elem, v.type) \in ListElementType
  PROVE  Written(v) /\ heap'[Here.cell].elem = ElementType(Cell.elem, v.type)
<1> DEFINE c == Here.cell
           n == Here.at
           t == ElementType(heap[c].elem, v.type)
           e == [heap[c].data[n] EXCEPT !.val = v]
           d == [heap[c].data EXCEPT ![n] = e]
           x == [heap[c] EXCEPT !.data = d]
           y == [x EXCEPT !.elem = t]
           h == [heap EXCEPT ![c] = x]
<1>1. c \in DOMAIN source /\ heap \in [DOMAIN source -> CellOf(source)] /\ n \in DOMAIN heap[c].data
      /\ t \in ListElementType
  BY HereIs DEF Tree, Cell
<1>2. /\ heap[c] \in CellOf(source) /\ heap[c].data \in Seq(EntryOf(source))
      /\ DOMAIN heap[c].data = 1 .. Len(heap[c].data) /\ Len(heap[c].data) \in Nat
      /\ heap[c].data[n] \in EntryOf(source)
  BY <1>1, CellIs
<1>3. heap' = [h EXCEPT ![c].elem = ElementType(@, v.type)]
  BY DEF ReplaceElement
<1>4. h[c] = x /\ h \in [DOMAIN source -> {x} \cup CellOf(source)]
  BY <1>1
<1> HIDE DEF c, n
<1>5. e \in EntryOf(source) /\ e.key = heap[c].data[n].key /\ e.val = v
  BY <1>2 DEF EntryOf
<1> HIDE DEF e
<1>6. /\ d \in Seq(EntryOf(source)) /\ DOMAIN d = DOMAIN heap[c].data
      /\ d[n] = e /\ \A i \in DOMAIN heap[c].data : i # n => d[i] = heap[c].data[i]
  BY <1>1, <1>2, <1>5
<1> HIDE DEF d
<1>7. x \in CellOf(source) /\ x.type = heap[c].type /\ x.elem = heap[c].elem /\ x.data = d
  BY <1>2, <1>6 DEF CellOf
<1> HIDE DEF t
<1>8. y \in CellOf(source) /\ y.type = heap[c].type /\ y.elem = t /\ y.data = d
  <2> HIDE DEF x
  <2> QED  BY <1>1, <1>7 DEF CellOf
<1>9. heap' = [h EXCEPT ![c] = y]
  <2>1. ElementType(x.elem, v.type) = t
    BY <1>7 DEF t
  <2>2. heap' = [h EXCEPT ![c] = [h[c] EXCEPT !.elem = ElementType(h[c].elem, v.type)]]
    BY <1>3
  <2> HIDE DEF x, h
  <2> QED  BY <1>4, <2>1, <2>2
<1>10. h \in [DOMAIN source -> CellOf(source)] /\ \A b \in DOMAIN source : b # c => h[b] = heap[b]
  <2> HIDE DEF x
  <2> QED  BY <1>1, <1>7
<1> HIDE DEF x, y, h
<1>11. heap' \in [DOMAIN source -> CellOf(source)] /\ heap'[c] = y
      /\ \A b \in DOMAIN source : b # c => heap'[b] = heap[b]
  BY <1>1, <1>8, <1>9, <1>10
<1>12. ASSUME NEW b \in DOMAIN source
      PROVE  /\ heap'[b].type = heap[b].type /\ DOMAIN heap'[b].data = DOMAIN heap[b].data
             /\ b # c => heap'[b] = heap[b]
             /\ \A i \in DOMAIN heap[b].data :
                  /\ heap'[b].data[i].key = heap[b].data[i].key
                  /\ heap'[b].data[i].val = IF b = c /\ i = n THEN v ELSE heap[b].data[i].val
  BY <1>5, <1>6, <1>8, <1>11
<1>13. heap'[c].elem = t
  BY <1>8, <1>11
<1> QED  BY <1>11, <1>12, <1>13 DEF Written, c, n, t, Cell

-----------------------------------------------------------------------------
(* getConfigValue, key by key. *)

Outcome ==
  {o \in [exception : {"", "InvalidKeyException", "InvalidTypeException"}, val : ValueOf(source)] :
     Leads(o.val)}

LEMMA RootIs ==
  ASSUME Tree
  PROVE  /\ Pointer(heap, Root) = Pointer(source, Root) /\ Pointer(source, Root) \in ValueOf(source)
         /\ Leads(Pointer(source, Root)) /\ Pointer(source, Root).type = "kStruct"
         /\ Pointer(source, Root).cell = Root /\ Root \in DOMAIN source /\ heap[Root].type = "kStruct"
<1>1. Root \in DOMAIN source /\ source[Root].type = "kStruct"
  BY SourceIs DEF Tree
<1>2. heap[Root].type = source[Root].type
  BY <1>1 DEF Tree
<1>3. <<>> \in Seq(STRING)
  OBVIOUS
<1>4. Pointer(source, Root) = [type |-> "kStruct", cell |-> Root, from |-> {}, keys |-> <<>>]
  BY <1>1 DEF Pointer, Value
<1>5. Pointer(heap, Root) = Pointer(source, Root)
  BY <1>2 DEF Pointer, Value
<1>6. Pointer(source, Root) \in ValueOf(source)
  BY <1>1, <1>3, <1>4 DEF ValueOf, Container
<1> QED  BY <1>1, <1>2, <1>4, <1>5, <1>6 DEF Leads

IsFound(o) == o.exception = ""

LEMMA EnterIs ==
  ASSUME Tree, NEW at \in Outcome, NEW key
  PROVE  /\ Enter(at, key) \in Outcome
         /\ ~IsFound(at) => Enter(at, key) = at
         /\ IsFound(Enter(at, key)) =>
              /\ IsFound(at) /\ at.val.type = "kStruct" /\ at.val.cell \in DOMAIN source
              /\ \E i \in DOMAIN heap[at.val.cell].data :
                   /\ heap[at.val.cell].data[i].key = key
                   /\ Enter(at, key).val = heap[at.val.cell].data[i].val
         /\ IsFound(at) /\ Enter(at, key).exception = "InvalidKeyException" =>
              /\ at.val.type = "kStruct" /\ at.val.cell \in DOMAIN source
              /\ \A i \in DOMAIN heap[at.val.cell].data : heap[at.val.cell].data[i].key # key
<1> DEFINE s == at.val.cell
           out == Enter(at, key)
<1>1. at.exception \in {"", "InvalidKeyException", "InvalidTypeException"} /\ at.val \in ValueOf(source)
      /\ Leads(at.val)
  BY DEF Outcome
<1>2. at.val.type = "kStruct" => s \in DOMAIN source
  BY <1>1 DEF Leads, Container
<1>3. \A x \in {"InvalidKeyException", "InvalidTypeException"} :
        Broken(x) \in Outcome /\ Broken(x).exception = x
  BY RootIs DEF Broken, Outcome
<1>4. CASE at.exception # ""
  <2>1. out = at
    BY <1>4 DEF Enter
  <2> QED  BY <1>4, <2>1 DEF IsFound
<1>5. CASE at.exception = "" /\ at.val.type # "kStruct"
  <2>1. out = Broken("InvalidTypeException")
    BY <1>5 DEF Enter
  <2> QED  BY <1>3, <1>5, <2>1 DEF IsFound
<1>6. CASE at.exception = "" /\ at.val.type = "kStruct" /\ ~Holds(at.val, key)
  <2>1. out = Broken("InvalidKeyException")
    BY <1>6 DEF Enter
  <2>2. \A i \in DOMAIN heap[s].data : heap[s].data[i].key # key
    BY <1>6 DEF Holds
  <2> QED  BY <1>2, <1>3, <1>6, <2>1, <2>2 DEF IsFound
<1>7. CASE at.exception = "" /\ at.val.type = "kStruct" /\ Holds(at.val, key)
  <2>1. out = Found(MemberOf(at.val, key))
    BY <1>7 DEF Enter
  <2>2. PICK i \in DOMAIN heap[s].data : heap[s].data[i].key = key
                                        /\ MemberOf(at.val, key) = heap[s].data[i].val
    BY <1>7 DEF Holds, MemberOf
  <2>3. s \in DOMAIN source
    BY <1>2, <1>7
  <2>4. heap[s].data[i].val \in ValueOf(source) /\ Leads(heap[s].data[i].val)
    BY <2>2, <2>3, CellIs DEF Tree
  <2>5. \A w : Found(w).exception = "" /\ Found(w).val = w
    BY DEF Found
  <2>6. \A w \in ValueOf(source) : Leads(w) => Found(w) \in Outcome
    BY <2>5 DEF Found, Outcome
  <2>7. out = Found(heap[s].data[i].val)
    BY <2>1, <2>2, Zenon
  <2>8. out.exception = "" /\ out.val = heap[s].data[i].val
    BY <2>5, <2>7, Zenon
  <2>9. out \in Outcome
    BY <2>4, <2>6, <2>7, Zenon
  <2> QED  BY <1>7, <2>2, <2>3, <2>8, <2>9 DEF IsFound
<1> QED  BY <1>4, <1>5, <1>6, <1>7

EnterFold(g, keys, D) ==
  g = [s \in SUBSET D |-> IF s = {} THEN Found(Pointer(heap, Root))
                          ELSE Enter(g[s \ {Max(s)}], keys[Max(s)])]

LEMMA EnterIsFold ==
  ASSUME NEW keys
  PROVE  getConfigValue(keys) = (CHOOSE g : EnterFold(g, keys, DOMAIN keys))[DOMAIN keys]
BY Zenon DEF getConfigValue, EnterFold, FoldLeft, MapThenFoldSet

(* at[n] is what the first n keys lead to.                                 *)
EntersBy(at, keys) ==
  /\ at[0] = Found(Pointer(source, Root))
  /\ \A n \in 0 .. Len(keys) : at[n] \in Outcome
  /\ \A n \in 1 .. Len(keys) : at[n] = Enter(at[n - 1], keys[n])

LEMMA EnterSteps ==
  ASSUME Tree, NEW keys \in Seq(STRING)
  PROVE  \E at : EntersBy(at, keys) /\ getConfigValue(keys) = at[Len(keys)]
<1> DEFINE n == Len(keys)
           V == Outcome
           base == Found(Pointer(heap, Root))
           F == [i \in 1 .. n |-> [at \in V |-> Enter(at, keys[i])]]
<1>1. n \in Nat /\ DOMAIN keys = 1 .. n
  OBVIOUS
<1>2. base \in V /\ base = Found(Pointer(source, Root))
  BY RootIs DEF Found, Outcome
<1>3. F \in [1 .. n -> [V -> V]]
  <2>1. ASSUME NEW i \in 1 .. n, NEW at \in V PROVE Enter(at, keys[i]) \in V
    BY EnterIs
  <2> QED  BY <2>1
<1>4. PICK g0 : Steps(g0, V, base, n, F)
  <2> HIDE DEF F, V, n, base
  <2> QED  BY <1>1, <1>2, <1>3, StepsExist
<1> HIDE DEF base, V
<1>5. ASSUME NEW s \in SUBSET (1 .. n)
      PROVE  g0[s] = IF s = {} THEN base ELSE Enter(g0[s \ {Max(s)}], keys[Max(s)])
  <2>1. CASE s = {}
    BY <1>4, <2>1 DEF Steps
  <2>2. CASE s # {}
    <3>1. Max(s) \in s
      BY <1>1, <2>2, MaxIn
    <3>2. s \ {Max(s)} \in SUBSET (1 .. n) /\ Max(s) \in 1 .. n
      BY <3>1
    <3>3. g0[s \ {Max(s)}] \in V
      BY <1>4, <3>2 DEF Steps
    <3> QED  BY <1>4, <2>2, <3>2, <3>3 DEF Steps
  <2> QED  BY <2>1, <2>2
<1> DEFINE g == CHOOSE f : EnterFold(f, keys, 1 .. n)
<1>6. EnterFold(g0, keys, 1 .. n)
  BY <1>4, <1>5 DEF Steps, EnterFold, base
<1>7. EnterFold(g, keys, 1 .. n)
  BY <1>6
<1>8. getConfigValue(keys) = g[1 .. n]
  BY <1>1, EnterIsFold
<1> HIDE DEF g, n
<1>9. \A s \in SUBSET (1 .. n) : g[s] = IF s = {} THEN base ELSE Enter(g[s \ {Max(s)}], keys[Max(s)])
  BY <1>7 DEF EnterFold, base
<1> DEFINE at == [k \in 0 .. n |-> g[1 .. k]]
<1>10. at[0] = base
  <2>1. 1 .. 0 = {} /\ {} \in SUBSET (1 .. n) /\ 0 \in 0 .. n
    BY <1>1
  <2> QED  BY <1>9, <2>1
<1>11. ASSUME NEW k \in 1 .. n PROVE at[k] = Enter(at[k - 1], keys[k])
  <2>1. k \in Nat \ {0} /\ (1 .. k) \in SUBSET (1 .. n) /\ k \in 0 .. n /\ k - 1 \in 0 .. n
    BY <1>1
  <2>2. 1 .. k # {} /\ Max(1 .. k) = k /\ (1 .. k) \ {k} = 1 .. (k - 1)
    BY <2>1, InitialSegment
  <2> QED  BY <1>9, <2>1, <2>2
<1>12. at[n] = g[1 .. n]
  BY <1>1
<1> HIDE DEF at
<1>13. ASSUME NEW k \in 0 .. n PROVE at[k] \in V
  <2> DEFINE T == {m \in 0 .. n : at[m] \notin V}
  <2>1. ASSUME T # {} PROVE FALSE
    <3>1. T \in SUBSET Nat
      BY <1>1
    <3>2. PICK m \in T : \A l \in T : m <= l
      BY <2>1, <3>1, LeastNumber
    <3>3. m # 0
      BY <1>2, <1>10
    <3>4. m \in 1 .. n /\ m - 1 \in 0 .. n /\ m - 1 \notin T
      BY <1>1, <3>2, <3>3
    <3>5. at[m - 1] \in V
      BY <3>4
    <3>6. Enter(at[m - 1], keys[m]) \in V
      BY <3>5, EnterIs DEF V
    <3> QED  BY <1>11, <3>4, <3>6
  <2> QED  BY <2>1
<1>14. EntersBy(at, keys)
  BY <1>2, <1>10, <1>11, <1>13 DEF EntersBy, n, V
<1> QED  BY <1>8, <1>12, <1>14 DEF n

LEMMA ConfigValueIs ==
  ASSUME Tree, NEW keys \in Seq(STRING)
  PROVE  getConfigValue(keys) \in Outcome
<1>1. PICK at : EntersBy(at, keys) /\ getConfigValue(keys) = at[Len(keys)]
  BY EnterSteps
<1>2. Len(keys) \in 0 .. Len(keys)
  OBVIOUS
<1> QED  BY <1>1, <1>2 DEF EntersBy

-----------------------------------------------------------------------------
(* What cleanupConfig leaves of a struct: some of its entries. *)

KeptFold(g, data, D) ==
  g = [s \in SUBSET D |-> IF s = {} THEN <<>> ELSE Kept(g[s \ {Max(s)}], data[Max(s)])]

LEMMA KeptIsFold ==
  ASSUME NEW data
  PROVE  FoldLeft(Kept, <<>>, data) = (CHOOSE g : KeptFold(g, data, DOMAIN data))[DOMAIN data]
BY Zenon DEF KeptFold, FoldLeft, MapThenFoldSet

LEMMA KeptSteps ==
  ASSUME NEW S, NEW data \in Seq(S)
  PROVE  \E g : /\ g[0] = <<>> /\ \A n \in 0 .. Len(data) : g[n] \in Seq(S)
                /\ \A n \in 1 .. Len(data) : g[n] = Kept(g[n - 1], data[n])
                /\ FoldLeft(Kept, <<>>, data) = g[Len(data)]
<1> DEFINE n == Len(data)
           V == Seq(S)
           F == [i \in 1 .. n |-> [d \in V |-> Kept(d, data[i])]]
<1>1. n \in Nat /\ DOMAIN data = 1 .. n /\ <<>> \in V
  OBVIOUS
<1>2. \A i \in 1 .. n : \A d \in V : Kept(d, data[i]) \in V
  BY DEF Kept
<1>3. F \in [1 .. n -> [V -> V]]
  BY <1>2
<1>4. PICK g0 : Steps(g0, V, <<>>, n, F)
  <2> HIDE DEF F, V, n
  <2> QED  BY <1>1, <1>3, StepsExist
<1> HIDE DEF V
<1>5. ASSUME NEW s \in SUBSET (1 .. n)
      PROVE  g0[s] = IF s = {} THEN <<>> ELSE Kept(g0[s \ {Max(s)}], data[Max(s)])
  <2>1. CASE s = {}
    BY <1>4, <2>1 DEF Steps
  <2>2. CASE s # {}
    <3>1. Max(s) \in s
      BY <1>1, <2>2, MaxIn
    <3>2. s \ {Max(s)} \in SUBSET (1 .. n) /\ Max(s) \in 1 .. n
      BY <3>1
    <3>3. g0[s \ {Max(s)}] \in V
      BY <1>4, <3>2 DEF Steps
    <3> QED  BY <1>4, <2>2, <3>2, <3>3 DEF Steps
  <2> QED  BY <2>1, <2>2
<1> DEFINE g == CHOOSE f : KeptFold(f, data, 1 .. n)
<1>6. KeptFold(g0, data, 1 .. n)
  BY <1>4, <1>5 DEF Steps, KeptFold
<1>7. KeptFold(g, data, 1 .. n)
  BY <1>6
<1>8. FoldLeft(Kept, <<>>, data) = g[1 .. n]
  BY <1>1, KeptIsFold
<1> HIDE DEF g, n
<1>9. \A s \in SUBSET (1 .. n) : g[s] = IF s = {} THEN <<>> ELSE Kept(g[s \ {Max(s)}], data[Max(s)])
  BY <1>7 DEF KeptFold
<1> DEFINE at == [k \in 0 .. n |-> g[1 .. k]]
<1>10. at[0] = <<>>
  <2>1. 1 .. 0 = {} /\ {} \in SUBSET (1 .. n) /\ 0 \in 0 .. n
    BY <1>1
  <2> QED  BY <1>9, <2>1
<1>11. ASSUME NEW k \in 1 .. n PROVE at[k] = Kept(at[k - 1], data[k])
  <2>1. k \in Nat \ {0} /\ (1 .. k) \in SUBSET (1 .. n) /\ k \in 0 .. n /\ k - 1 \in 0 .. n
    BY <1>1
  <2>2. 1 .. k # {} /\ Max(1 .. k) = k /\ (1 .. k) \ {k} = 1 .. (k - 1)
    BY <2>1, InitialSegment
  <2> QED  BY <1>9, <2>1, <2>2
<1>12. at[n] = g[1 .. n]
  BY <1>1
<1> HIDE DEF at
<1>13. ASSUME NEW k \in 0 .. n PROVE at[k] \in V
  <2> DEFINE T == {m \in 0 .. n : at[m] \notin V}
  <2>1. ASSUME T # {} PROVE FALSE
    <3>1. T \in SUBSET Nat
      BY <1>1
    <3>2. PICK m \in T : \A l \in T : m <= l
      BY <2>1, <3>1, LeastNumber
    <3>3. m # 0
      BY <1>1, <1>10
    <3>4. m \in 1 .. n /\ m - 1 \in 0 .. n /\ m - 1 \notin T
      BY <1>1, <3>2, <3>3
    <3>5. at[m - 1] \in V
      BY <3>4
    <3> QED  BY <1>2, <1>11, <3>4, <3>5 DEF V
  <2> QED  BY <2>1
<1> QED  BY <1>8, <1>10, <1>11, <1>12, <1>13 DEF n, V

LEMMA KeptIs ==
  ASSUME NEW S, NEW data \in Seq(S)
  PROVE  /\ FoldLeft(Kept, <<>>, data) \in Seq(S)
         /\ \A i \in DOMAIN FoldLeft(Kept, <<>>, data) :
              \E j \in DOMAIN data : FoldLeft(Kept, <<>>, data)[i] = data[j]
<1> DEFINE R == {data[j] : j \in DOMAIN data}
           out == FoldLeft(Kept, <<>>, data)
<1>1. data \in Seq(R) /\ Len(data) \in 0 .. Len(data) /\ R \in SUBSET S
  OBVIOUS
<1>2. out \in Seq(R)
  <2> HIDE DEF R
  <2> QED  BY <1>1, KeptSteps
<1> HIDE DEF out
<1>3. \A i \in DOMAIN out : out[i] \in R
  <2> HIDE DEF R
  <2> QED  BY <1>2
<1>4. out \in Seq(S)
  <2> HIDE DEF R
  <2> QED  BY <1>1, <1>2
<1> QED  BY <1>3, <1>4 DEF out

-----------------------------------------------------------------------------
(* The calls in structs come first. *)

StructsFirst(k) ==
  /\ k \in 1 .. Len(walk)
  /\ \A n \in 1 .. Len(walk) : n <= k <=> source[walk[n].cell].type = "kStruct"
  /\ \/ k = Len(walk) \/ k = Len(walk) - 1
     \/ /\ k = Len(walk) - 2 /\ source[walk[k + 1].cell].type = "kList"
        /\ source[walk[k + 2].cell].type = "kExpression"

LEMMA StructsAreFirst ==
  ASSUME Typed, phase = "resolveVarRefs"
  PROVE  \E k : StructsFirst(k)
<1> DEFINE L == Len(walk)
           struct(n) == source[walk[n].cell].type = "kStruct"
<1>1. /\ L \in Nat \ {0} /\ walk[1].cell = Root /\ source[Root].type = "kStruct"
  BY HereIs, SourceIs DEF Typed, Calls, Tree
<1>2. \A n \in 1 .. (L - 1) :
        \/ struct(n)
        \/ source[walk[n].cell].type = "kList" /\ source[walk[n + 1].cell].type = "kExpression"
  BY DEF Typed, Outwards
<1>3. ASSUME NEW n \in 1 .. (L - 2) PROVE struct(n)
  <2>1. n \in 1 .. (L - 1) /\ n + 1 \in 1 .. (L - 1)
    BY <1>1
  <2> QED  BY <1>2, <2>1
<1>4. struct(1)
  BY <1>1
<1>5. CASE struct(L)
  <2>1. L > 1 => struct(L - 1)
    <3>1. L > 1 => L - 1 \in 1 .. (L - 1) /\ (L - 1) + 1 = L
      BY <1>1
    <3> QED  BY <1>2, <1>5, <3>1
  <2>2. \A n \in 1 .. L : n \in 1 .. (L - 2) \/ n = L \/ (L > 1 /\ n = L - 1)
    BY <1>1
  <2>3. \A n \in 1 .. L : struct(n)
    BY <1>3, <1>5, <2>1, <2>2
  <2> HIDE DEF struct
  <2>4. StructsFirst(L)
    BY <1>1, <2>3 DEF StructsFirst, struct
  <2> QED  BY <2>4
<1>6. CASE ~struct(L) /\ (L > 1 => struct(L - 1))
  <2>1. L > 1
    BY <1>1, <1>4, <1>6
  <2>2. \A n \in 1 .. L : n \in 1 .. (L - 2) \/ n = L \/ n = L - 1
    BY <1>1
  <2>3. \A n \in 1 .. L : n <= L - 1 <=> struct(n)
    <3> HIDE DEF struct
    <3> QED  BY <1>1, <1>3, <1>6, <2>1, <2>2
  <2>4. StructsFirst(L - 1)
    BY <1>1, <2>1, <2>3 DEF StructsFirst
  <2> QED  BY <2>4
<1>7. CASE L > 1 /\ ~struct(L - 1)
  <2>1. L > 2
    BY <1>1, <1>4, <1>7
  <2>2. L - 1 \in 1 .. (L - 1) /\ (L - 1) + 1 = L /\ L - 2 \in 1 .. L /\ (L - 2) + 1 = L - 1 /\ (L - 2) + 2 = L
    BY <1>1, <2>1
  <2>3. source[walk[L - 1].cell].type = "kList" /\ source[walk[L].cell].type = "kExpression"
    BY <1>2, <1>7, <2>2
  <2>4. ~struct(L)
    BY <2>3
  <2>5. \A n \in 1 .. L : n \in 1 .. (L - 2) \/ n = L \/ n = L - 1
    BY <1>1
  <2>6. \A n \in 1 .. L : n <= L - 2 <=> struct(n)
    <3> HIDE DEF struct
    <3> QED  BY <1>1, <1>3, <1>7, <2>4, <2>5
  <2>7. StructsFirst(L - 2)
    BY <2>2, <2>3, <2>6, ZenonT(30) DEF StructsFirst
  <2> QED  BY <2>7
<1> QED  BY <1>1, <1>5, <1>6, <1>7

LEMMA SrcKeyIs ==
  ASSUME Typed, phase = "resolveVarRefs", Here.at \in DOMAIN Cell.data, NEW k, StructsFirst(k)
  PROVE  /\ SrcKey \in Seq(STRING) /\ Len(SrcKey) = k
         /\ \A n \in 1 .. k : /\ walk[n].at \in DOMAIN source[walk[n].cell].data
                              /\ SrcKey[n] = source[walk[n].cell].data[walk[n].at].key
<1> DEFINE L == Len(walk)
<1>1. /\ L \in Nat \ {0} /\ DOMAIN walk = 1 .. L /\ Here = walk[L] /\ k \in 1 .. L
      /\ \A n \in 1 .. L : walk[n].cell \in DOMAIN source
  BY HereIs DEF Typed, Calls, StructsFirst
<1>2. \A n \in 1 .. L : heap[walk[n].cell].type = source[walk[n].cell].type
  BY <1>1 DEF Typed, Tree
<1>3. {m \in DOMAIN walk : heap[walk[m].cell].type = "kStruct"} = 1 .. k
  <2>1. \A m \in 1 .. L : m <= k <=> heap[walk[m].cell].type = "kStruct"
    BY <1>1, <1>2, ZenonT(30) DEF StructsFirst
  <2>2. \A m \in 1 .. L : m <= k <=> m \in 1 .. k
    BY <1>1
  <2>3. \A m : m \in 1 .. k => m \in 1 .. L
    <3> HIDE DEF L
    <3> QED  BY <1>1
  <2> QED  BY <1>1, <2>1, <2>2, <2>3
<1>4. SrcKey = [n \in 1 .. k |-> heap[walk[n].cell].data[walk[n].at].key]
  BY <1>3 DEF SrcKey
<1>5. ASSUME NEW n \in 1 .. k
      PROVE  /\ walk[n].at \in DOMAIN source[walk[n].cell].data
             /\ heap[walk[n].cell].data[walk[n].at].key = source[walk[n].cell].data[walk[n].at].key
             /\ source[walk[n].cell].data[walk[n].at].key \in STRING
  <2>1. n \in 1 .. L /\ (n = L \/ n \in 1 .. (L - 1))
    <3> HIDE DEF L
    <3> QED  BY <1>1
  <2>2. walk[n].at \in DOMAIN source[walk[n].cell].data
    <3>1. CASE n = L
      BY <1>1, <3>1 DEF Typed, SameKeys, Cell
    <3>2. CASE n \in 1 .. (L - 1)
      BY <3>2 DEF Typed, Outwards
    <3> QED  BY <2>1, <3>1, <3>2
  <2> QED  BY <1>1, <2>1, <2>2, SourceCellIs, ZenonT(30) DEF Typed, SameKeys
<1>6. k \in Nat
  BY <1>1
<1> HIDE DEF L
<1>7. SrcKey \in Seq(STRING) /\ Len(SrcKey) = k
  BY <1>4, <1>5, <1>6
<1> QED  BY <1>4, <1>5, <1>7, ZenonT(30)

-----------------------------------------------------------------------------
(* Typed is an invariant: one lemma per action. *)

LEMMA TypedInit == Init => Typed
<1> SUFFICES ASSUME Init PROVE Typed
  OBVIOUS
<1>1. /\ source \in Sources /\ heap = source /\ walk = <<[cell |-> Root, at |-> 1]>> /\ chain = <<>>
      /\ phase = "resolveVarRefs"
  BY DEF Init
<1>2. /\ source \in [DOMAIN source -> CellOf(source)] /\ Root \in DOMAIN source
      /\ IsFiniteSet(DOMAIN source)
  BY <1>1, SourceIs
<1>3. ASSUME NEW c \in DOMAIN source, NEW i \in DOMAIN source[c].data PROVE Leads(source[c].data[i].val)
  BY <1>1, <1>3, PointerIs DEF Leads
<1>4. Tree
  <2>1. \A c \in DOMAIN source : source[c].type = "kExpression" =>
          \A i \in DOMAIN heap[c].data : heap[c].data[i].val.type = "kValueLookup"
    BY <1>1, OperandIs
  <2> QED  BY <1>1, <1>2, <1>3, <2>1 DEF Tree
<1>5. 1 <= MaxDepth /\ MaxDepth \in Nat
  <2>1. Cardinality(DOMAIN source) <= MaxDepth /\ MaxDepth \in Nat
    BY <1>1, DepthAssumption
  <2>2. {Root} \in SUBSET DOMAIN source /\ Cardinality({Root}) = 1
    BY <1>2, FS_Singleton
  <2>3. 1 <= Cardinality(DOMAIN source) /\ Cardinality(DOMAIN source) \in Nat
    BY <1>2, <2>2, FS_Subset, FS_CardinalityType
  <2> QED  BY <2>1, <2>3
<1>6. Calls
  <2> DEFINE f == [cell |-> Root, at |-> 1]
  <2>1. f \in Frame /\ f.cell = Root
    BY <1>2 DEF Frame
  <2> HIDE DEF f
  <2>2. walk = <<f>>
    BY <1>1 DEF f
  <2> QED  BY <1>5, <2>1, <2>2, Singleton DEF Calls
<1>7. Chained
  BY <1>1 DEF Chained
<1>8. Outwards
  BY <1>1 DEF Outwards
<1> QED  BY <1>1, <1>4, <1>6, <1>7, <1>8 DEF Typed, Walking, SameKeys, ChainHere

LEMMA TreeSame == ASSUME Tree, UNCHANGED <<source, heap>> PROVE Tree'
BY DEF Tree, Leads, Pointer

LEMMA TreeWritten ==
  ASSUME Tree, UNCHANGED source, NEW v, Written(v), Leads(v), Here.cell \in DOMAIN source,
         source[Here.cell].type = "kExpression" => v.type \in {"kValueLookup", "kNumber"}
  PROVE  Tree'
<1>1. heap' \in [DOMAIN source -> CellOf(source)]
      /\ \A c \in DOMAIN source : heap'[c].type = source[c].type
  BY DEF Tree, Written
<1>2. \A c \in DOMAIN source : \A i \in DOMAIN heap'[c].data : Leads(heap'[c].data[i].val)
  BY DEF Tree, Written
<1>3. \A c \in DOMAIN source : source[c].type = "kExpression" =>
       \A i \in DOMAIN heap'[c].data : heap'[c].data[i].val.type \in {"kValueLookup", "kNumber"}
  BY DEF Tree, Written
<1> QED  BY <1>1, <1>2, <1>3 DEF Tree, Leads

LEMMA CurrentIs ==
  ASSUME Typed, AtEntry
  PROVE  /\ Here.at \in DOMAIN Cell.data /\ Cell = heap[Here.cell] /\ Here.cell \in DOMAIN source
         /\ Current = heap[Here.cell].data[Here.at].val /\ Current \in ValueOf(source) /\ Leads(Current)
         /\ phase \in Walking /\ chain = <<>>
<1>1. Here.cell \in DOMAIN source /\ Here.at \in Nat \ {0} /\ Tree
  BY HereIs DEF Typed
<1>2. DOMAIN heap[Here.cell].data = 1 .. Len(heap[Here.cell].data) /\ Len(heap[Here.cell].data) \in Nat
  BY <1>1, CellIs
<1>3. Here.at <= Len(Cell.data) /\ phase \in Walking /\ chain = <<>>
  BY DEF AtEntry
<1>4. Here.at \in DOMAIN Cell.data
  BY <1>1, <1>2, <1>3 DEF Cell
<1>5. Current \in ValueOf(source) /\ Leads(Current)
  BY <1>1, <1>4, CellIs DEF Current, Cell, Tree
<1> QED  BY <1>1, <1>3, <1>4, <1>5 DEF Cell, Current

(* What a call is made for.                                                *)
LEMMA EntersIs ==
  ASSUME Typed, AtEntry, Enters(Current)
  PROVE  /\ Current.type \in Container /\ Current.cell \in DOMAIN source
         /\ Current = Pointer(source, Current.cell) /\ source[Current.cell].type = Current.type
         /\ phase = "resolveVarRefs" =>
              \/ source[Here.cell].type = "kStruct"
              \/ source[Here.cell].type = "kList" /\ Current.type = "kExpression"
<1>1. /\ Here.at \in DOMAIN heap[Here.cell].data /\ Cell = heap[Here.cell] /\ Here.cell \in DOMAIN source
      /\ Current = heap[Here.cell].data[Here.at].val /\ Leads(Current) /\ phase \in Walking
  BY CurrentIs
<1>2. Current.type \in Container
  BY <1>1 DEF Enters, Walking, Container
<1>3. Current.cell \in DOMAIN source /\ Current = Pointer(source, Current.cell)
  BY <1>1, <1>2 DEF Leads
<1>4. Pointer(source, Current.cell).type = source[Current.cell].type
  BY DEF Pointer, Value
<1>5. source[Here.cell].type \in Container /\ Cell.type = source[Here.cell].type
  BY <1>1, SourceCellIs DEF Typed, Tree
<1>6. source[Here.cell].type = "kExpression" => Current.type \in {"kValueLookup", "kNumber"}
  BY <1>1 DEF Typed, Tree
<1>7. phase = "resolveVarRefs" => Cell.type = "kStruct" \/ Current.type = "kExpression"
  BY DEF Enters
<1> QED  BY <1>2, <1>3, <1>4, <1>5, <1>6, <1>7 DEF Container

LEMMA DescendIs ==
  ASSUME Descend
  PROVE  /\ AtEntry /\ Enters(Current)
         /\ Len(walk) = MaxDepth => Fail("stack overflow")
         /\ Len(walk) # MaxDepth => /\ walk' = Append(walk, [cell |-> Current.cell, at |-> 1])
                                    /\ UNCHANGED <<source, heap, chain, phase>>
BY DEF Descend

LEMMA TypedDescend == ASSUME Typed, Descend PROVE Typed'
<1>1. AtEntry /\ Enters(Current)
  BY DEF Descend
<1>2. CASE Len(walk) = MaxDepth
  <2>1. phase' = "stack overflow" /\ UNCHANGED <<source, heap, walk, chain>>
    BY <1>2 DEF Descend, Fail
  <2>2. Tree' /\ phase' \in Exception
    BY <2>1, TreeSame DEF Typed, Exception
  <2>3. Calls' /\ Chained'
    BY <2>1, <2>2 DEF Typed, Calls, Frame, Chained, Link, Leads, Pointer
  <2> QED  BY <2>1, <2>2, <2>3 DEF Typed, SameKeys, Outwards, ChainHere
<1>3. CASE Len(walk) # MaxDepth
  <2> DEFINE f == [cell |-> Current.cell, at |-> 1]
             L == Len(walk)
  <2>1. walk' = Append(walk, f) /\ UNCHANGED <<source, heap, chain, phase>>
    BY <1>3 DEF Descend
  <2>2. /\ Current.cell \in DOMAIN source /\ source[Current.cell].type = Current.type
        /\ phase = "resolveVarRefs" =>
              \/ source[Here.cell].type = "kStruct"
              \/ source[Here.cell].type = "kList" /\ Current.type = "kExpression"
    BY <1>1, EntersIs
  <2>3. /\ Here.at \in DOMAIN heap[Here.cell].data /\ Here.cell \in DOMAIN source /\ chain = <<>>
    BY <1>1, CurrentIs
  <2>4. f \in Frame /\ f.cell = Current.cell
    BY <2>2 DEF Frame
  <2> HIDE DEF f
  <2>5. /\ walk' \in Seq(Frame) /\ Len(walk') = L + 1 /\ walk' # <<>>
        /\ \A n \in 1 .. L : walk'[n] = walk[n]
        /\ walk'[L + 1] = f /\ walk'[1].cell = Root
    BY <2>1, <2>4, PushIs DEF Typed
  <2>6. /\ L \in Nat \ {0} /\ L <= MaxDepth /\ MaxDepth \in Nat /\ Here = walk[L]
    BY HereIs DEF Typed
  <2>7. Tree' /\ Calls'
    BY <1>3, <2>1, <2>5, <2>6, TreeSame DEF Typed, Calls, Frame
  <2>8. Outwards'
    <3> SUFFICES ASSUME phase = "resolveVarRefs", NEW n \in 1 .. L
                 PROVE  /\ walk'[n].at \in DOMAIN source[walk'[n].cell].data
                        /\ \/ source[walk'[n].cell].type = "kStruct"
                           \/ /\ source[walk'[n].cell].type = "kList"
                              /\ source[walk'[n + 1].cell].type = "kExpression"
      BY <2>1, <2>5, <2>6 DEF Outwards
    <3>1. CASE n = L
      BY <2>2, <2>3, <2>4, <2>5, <2>6, <3>1 DEF Typed, SameKeys
    <3>2. CASE n # L
      <4>1. n \in 1 .. (L - 1) /\ n + 1 \in 1 .. L
        BY <2>6, <3>2
      <4> QED  BY <2>5, <4>1 DEF Typed, Outwards
    <3> QED  BY <3>1, <3>2
  <2>9. Chained' /\ SameKeys' /\ ChainHere' /\ phase' \in Walking \cup Exception \cup {"done"}
    BY <2>1, <2>3 DEF Typed, Chained, Link, SameKeys, ChainHere
  <2> QED  BY <2>7, <2>8, <2>9 DEF Typed
<1> QED  BY <1>2, <1>3

LEMMA OutwardsAdvance ==
  ASSUME Typed, UNCHANGED <<source, phase>>, walk' = Advance(walk)
  PROVE  Calls' /\ Outwards'
<1> DEFINE L == Len(walk)
<1>1. /\ walk' \in Seq(Frame) /\ Len(walk') = L /\ walk' # <<>>
      /\ \A n \in 1 .. (L - 1) : walk'[n] = walk[n]
      /\ \A n \in 1 .. L : walk'[n].cell = walk[n].cell
      /\ walk'[1].cell = Root
  BY AdvanceIs DEF Typed
<1>2. L \in Nat \ {0}
  BY HereIs DEF Typed
<1>3. Calls'
  BY <1>1 DEF Typed, Calls, Frame
<1>4. Outwards'
  <2> SUFFICES ASSUME phase = "resolveVarRefs", NEW n \in 1 .. (L - 1)
               PROVE  /\ walk'[n].at \in DOMAIN source[walk'[n].cell].data
                      /\ \/ source[walk'[n].cell].type = "kStruct"
                         \/ /\ source[walk'[n].cell].type = "kList"
                            /\ source[walk'[n + 1].cell].type = "kExpression"
    BY <1>1 DEF Outwards
  <2>1. n + 1 \in 1 .. L /\ n \in 1 .. L
    BY <1>2
  <2> QED  BY <1>1, <2>1 DEF Typed, Outwards
<1> QED  BY <1>3, <1>4

LEMMA TypedSkip == ASSUME Typed, Skip PROVE Typed'
<1>1. walk' = Advance(walk) /\ UNCHANGED <<source, heap, chain, phase>> /\ AtEntry
  BY DEF Skip
<1>2. Calls' /\ Outwards' /\ Tree' /\ chain = <<>>
  BY <1>1, OutwardsAdvance, TreeSame, CurrentIs DEF Typed
<1> QED  BY <1>1, <1>2 DEF Typed, Chained, Link, SameKeys, ChainHere

(* What Return leaves of the heap.                                         *)
LEMMA ReturnIs ==
  ASSUME Typed, Return
  PROVE  /\ phase \in Walking /\ chain = <<>> /\ UNCHANGED <<source, chain>>
         /\ phase # "cleanupConfig" => heap' = heap
         /\ heap' \in [DOMAIN source -> CellOf(source)]
         /\ \A b \in DOMAIN source :
              /\ heap'[b].type = heap[b].type /\ heap'[b].elem = heap[b].elem
              /\ b # Here.cell => heap'[b] = heap[b]
              /\ phase = "cleanupConfig" /\ b = Here.cell =>
                   heap'[b].data = FoldLeft(Kept, <<>>, heap[b].data)
              /\ \A i \in DOMAIN heap'[b].data :
                   \E j \in DOMAIN heap[b].data : heap'[b].data[i] = heap[b].data[j]
         /\ IF Len(walk) > 1
              THEN walk' = Advance(Front(walk)) /\ phase' = phase
              ELSE /\ walk' = <<[cell |-> Root, at |-> 1]>>
                   /\ phase = "resolveVarRefs" => phase' = "evaluateExpressions"
                   /\ phase = "evaluateExpressions" => phase' = "cleanupConfig"
                   /\ phase = "cleanupConfig" => phase' = "done"
<1> DEFINE d == FoldLeft(Kept, <<>>, Cell.data)
           c == Here.cell
           x == [heap[c] EXCEPT !.data = d]
<1>1. /\ phase \in Walking /\ chain = <<>> /\ UNCHANGED <<source, chain>>
      /\ heap' = IF phase # "cleanupConfig" THEN heap
                 ELSE [heap EXCEPT ![Here.cell].data = FoldLeft(Kept, <<>>, @)]
      /\ IF Len(walk) > 1
              THEN walk' = Advance(Front(walk)) /\ phase' = phase
              ELSE /\ walk' = <<[cell |-> Root, at |-> 1]>>
                   /\ phase = "resolveVarRefs" => phase' = "evaluateExpressions"
                   /\ phase = "evaluateExpressions" => phase' = "cleanupConfig"
                   /\ phase = "cleanupConfig" => phase' = "done"
  BY DEF Return
<1>2. c \in DOMAIN source /\ heap \in [DOMAIN source -> CellOf(source)]
  BY HereIs DEF Typed, Tree
<1>3. CASE phase # "cleanupConfig"
  BY <1>1, <1>2, <1>3
<1>4. CASE phase = "cleanupConfig"
  <2>1. heap[c] \in CellOf(source) /\ heap[c].data \in Seq(EntryOf(source))
    BY <1>2, CellIs DEF Typed, Tree
  <2>2. /\ d \in Seq(EntryOf(source)) /\ \A i \in DOMAIN d : \E j \in DOMAIN heap[c].data : d[i] = heap[c].data[j]
    BY <2>1, KeptIs DEF Cell
  <2>3. heap' = [heap EXCEPT ![c] = x]
    BY <1>1, <1>4 DEF Cell
  <2>4. d = FoldLeft(Kept, <<>>, heap[c].data)
    BY DEF Cell
  <2> HIDE DEF d, c
  <2>5. x \in CellOf(source) /\ x.type = heap[c].type /\ x.data = d /\ x.elem = heap[c].elem
    BY <2>1, <2>2 DEF CellOf
  <2> HIDE DEF x
  <2>6. heap' \in [DOMAIN source -> CellOf(source)] /\ heap'[c] = x
        /\ \A b \in DOMAIN source : b # c => heap'[b] = heap[b]
    BY <1>2, <2>3, <2>5
  <2>7. ASSUME NEW b \in DOMAIN source
        PROVE  /\ heap'[b].type = heap[b].type /\ heap'[b].elem = heap[b].elem
               /\ b # c => heap'[b] = heap[b]
               /\ b = c => heap'[b].data = FoldLeft(Kept, <<>>, heap[b].data)
               /\ \A i \in DOMAIN heap'[b].data :
                    \E j \in DOMAIN heap[b].data : heap'[b].data[i] = heap[b].data[j]
    <3>1. CASE b # c
      BY <2>6, <3>1
    <3>2. CASE b = c
      BY <2>2, <2>4, <2>5, <2>6, <3>2
    <3> QED  BY <3>1, <3>2
  <2> QED  BY <1>1, <1>4, <2>6, <2>7 DEF c
<1> QED  BY <1>3, <1>4

LEMMA TypedReturn == ASSUME Typed, Return PROVE Typed'
<1> DEFINE L == Len(walk)
<1>1. /\ phase \in Walking /\ chain = <<>> /\ UNCHANGED <<source, chain>>
      /\ phase # "cleanupConfig" => heap' = heap
      /\ IF L > 1
           THEN walk' = Advance(Front(walk)) /\ phase' = phase
           ELSE walk' = <<[cell |-> Root, at |-> 1]>> /\ phase' \in {"evaluateExpressions", "cleanupConfig", "done"}
  BY ReturnIs DEF Walking
<1>2. /\ L \in Nat \ {0} /\ L <= MaxDepth /\ MaxDepth \in Nat /\ Here.cell \in DOMAIN source
  BY HereIs DEF Typed
<1>3. Tree'
  <2>1. heap' \in [DOMAIN source -> CellOf(source)]
    BY ReturnIs
  <2>2. ASSUME NEW b \in DOMAIN source
        PROVE  /\ heap'[b].type = source[b].type
               /\ \A i \in DOMAIN heap'[b].data :
                    /\ Leads(heap'[b].data[i].val)
                    /\ source[b].type = "kExpression" => heap'[b].data[i].val.type \in {"kValueLookup", "kNumber"}
    <3>1. heap'[b].type = heap[b].type
          /\ \A i \in DOMAIN heap'[b].data : \E j \in DOMAIN heap[b].data : heap'[b].data[i] = heap[b].data[j]
      BY ReturnIs
    <3> QED  BY <3>1 DEF Typed, Tree
  <2> QED  BY <1>1, <2>1, <2>2 DEF Typed, Tree, Leads
<1>4. CASE L > 1
  <2>1. /\ walk' \in Seq(Frame) /\ Len(walk') = L - 1 /\ walk' # <<>>
        /\ \A n \in 1 .. (L - 2) : walk'[n] = walk[n]
        /\ \A n \in 1 .. (L - 1) : walk'[n].cell = walk[n].cell
        /\ walk'[1].cell = Root
    BY <1>1, <1>4, PopIs DEF Typed
  <2>2. Calls'
    BY <1>1, <1>2, <1>4, <2>1 DEF Calls, Frame
  <2>3. Outwards'
    <3> SUFFICES ASSUME phase = "resolveVarRefs", NEW n \in 1 .. (L - 2)
                 PROVE  /\ walk'[n].at \in DOMAIN source[walk'[n].cell].data
                        /\ \/ source[walk'[n].cell].type = "kStruct"
                           \/ /\ source[walk'[n].cell].type = "kList"
                              /\ source[walk'[n + 1].cell].type = "kExpression"
      <4>1. (L - 1) - 1 = L - 2
        BY <1>2
      <4> QED  BY <1>1, <1>4, <2>1, <4>1 DEF Outwards
    <3>1. n + 1 \in 1 .. (L - 1) /\ n \in 1 .. (L - 1)
      BY <1>2
    <3> QED  BY <2>1, <3>1 DEF Typed, Outwards
  <2>4. SameKeys'
    BY <1>1, <1>4 DEF Typed, SameKeys
  <2> QED  BY <1>1, <1>3, <1>4, <2>2, <2>3, <2>4 DEF Typed, Chained, Link, ChainHere
<1>5. CASE L <= 1
  <2>1. phase' \in {"evaluateExpressions", "cleanupConfig", "done"} /\ walk' = <<[cell |-> Root, at |-> 1]>>
    BY <1>1, <1>2, <1>5
  <2>2. Calls'
    <3> DEFINE f == [cell |-> Root, at |-> 1]
    <3>1. f \in Frame /\ f.cell = Root
      BY RootIs DEF Frame, Typed
    <3> HIDE DEF f
    <3>2. walk' = <<f>> /\ Frame' = Frame
      BY <1>1, <2>1 DEF f, Frame
    <3>3. walk' \in Seq(Frame) /\ Len(walk') = 1 /\ walk'[1] = f
      BY <3>1, <3>2
    <3> QED  BY <1>2, <3>1, <3>2, <3>3 DEF Calls
  <2> QED  BY <1>1, <1>3, <2>1, <2>2 DEF Typed, Chained, Link, SameKeys, Outwards, ChainHere, Walking
<1> QED  BY <1>2, <1>4, <1>5

LEMMA TypedBeginChain == ASSUME Typed, BeginChain PROVE Typed'
<1> DEFINE l == [refs |-> <<SrcKey>>, val |-> Current]
<1>1. /\ AtEntry /\ phase = "resolveVarRefs" /\ Current.type = "kValueLookup"
      /\ chain' = <<l>> /\ UNCHANGED <<source, heap, walk, phase>>
  BY DEF BeginChain
<1>2. /\ Here.at \in DOMAIN Cell.data /\ Current \in ValueOf(source) /\ Leads(Current)
  BY <1>1, CurrentIs
<1>3. SrcKey \in Seq(STRING)
  BY <1>1, <1>2, StructsAreFirst, SrcKeyIs
<1>4. l \in Link /\ l.val = Current
  <2>1. <<SrcKey>> \in Seq(Seq(STRING))
    BY <1>3
  <2> QED  BY <1>2, <2>1 DEF Link
<1> HIDE DEF l
<1>5. chain' \in Seq(Link) /\ Len(chain') = 1 /\ chain'[1] = l
  BY <1>1, <1>4
<1>6. Tree' /\ Calls' /\ SameKeys' /\ Outwards'
  BY <1>1, TreeSame DEF Typed, Calls, Frame, SameKeys, Outwards
<1>7. Chained'
  BY <1>1, <1>2, <1>4, <1>5 DEF Chained, Link, Leads, Pointer
<1>8. ChainHere'
  BY <1>1, <1>2 DEF ChainHere, Here, Cell, Current
<1> QED  BY <1>1, <1>6, <1>7, <1>8 DEF Typed

LEMMA ChainIs ==
  ASSUME Typed, chain # <<>>
  PROVE  /\ chain[1] \in Link /\ chain[1].val \in ValueOf(source) /\ Leads(chain[1].val)
         /\ chain[1].val.keys \in Seq(STRING) /\ chain[1].refs \in Seq(Seq(STRING))
<1>1. chain \in Seq(Link) /\ Leads(chain[1].val)
  BY DEF Typed, Chained
<1>2. chain[1] \in Link
  BY <1>1
<1>3. \A l \in Link : l.val \in ValueOf(source) /\ l.refs \in Seq(Seq(STRING))
  BY DEF Link
<1>4. \A v \in ValueOf(source) : v.keys \in Seq(STRING)
  BY DEF ValueOf
<1> QED  BY <1>1, <1>2, <1>3, <1>4

LEMMA TypedFail ==
  ASSUME Typed, NEW exception \in Exception, Fail(exception)
  PROVE  Typed'
<1>1. phase' = exception /\ UNCHANGED <<source, heap, walk, chain>> /\ phase' # "resolveVarRefs"
  BY DEF Fail, Exception
<1>2. Tree' /\ Calls'
  BY <1>1, TreeSame DEF Typed, Calls, Frame
<1>3. Chained'
  BY <1>1 DEF Typed, Chained, Link, Leads, Pointer
<1> QED  BY <1>1, <1>2, <1>3 DEF Typed, SameKeys, Outwards, ChainHere

LEMMA TypedFollow == ASSUME Typed, Follow PROVE Typed'
<1> DEFINE var == chain[1].val.keys
           next == getConfigValue(var)
           l == [refs |-> Append(chain[1].refs, var), val |-> next.val]
<1>1. /\ phase = "resolveVarRefs" /\ chain # <<>>
      /\ \/ Fail("CyclicReferenceException")
         \/ next.exception # "" /\ Fail(next.exception)
         \/ chain' = <<l>> /\ UNCHANGED <<source, heap, walk, phase>>
  BY DEF Follow
<1>2. var \in Seq(STRING) /\ chain[1].refs \in Seq(Seq(STRING))
  BY <1>1, ChainIs
<1>3. next \in Outcome
  BY <1>2, ConfigValueIs DEF Typed
<1>4. CASE Fail("CyclicReferenceException")
  BY <1>4, TypedFail DEF Exception
<1>5. CASE next.exception # "" /\ Fail(next.exception)
  <2>1. next.exception \in Exception
    BY <1>3, <1>5 DEF Outcome, Exception
  <2> HIDE DEF next
  <2> QED  BY <1>5, <2>1, TypedFail
<1>6. CASE chain' = <<l>> /\ UNCHANGED <<source, heap, walk, phase>>
  <2>1. next.val \in ValueOf(source) /\ Leads(next.val)
    BY <1>3 DEF Outcome
  <2>2. Append(chain[1].refs, var) \in Seq(Seq(STRING))
    BY <1>2
  <2>3. l \in Link /\ l.val = next.val
    <3> HIDE DEF next, var
    <3> QED  BY <2>1, <2>2 DEF Link
  <2> HIDE DEF l
  <2>4. chain' \in Seq(Link) /\ Len(chain') = 1 /\ chain'[1] = l
    BY <1>6, <2>3
  <2>5. Tree' /\ Calls' /\ SameKeys' /\ Outwards'
    BY <1>6, TreeSame DEF Typed, Calls, Frame, SameKeys, Outwards
  <2>6. Chained'
    <3>1. Leads(chain'[1].val)
      BY <2>1, <2>3, <2>4
    <3> QED  BY <1>1, <1>6, <2>4, <3>1 DEF Chained, Link, Leads, Pointer
  <2>7. ChainHere'
    BY <1>1, <1>6 DEF Typed, ChainHere, Here, Cell, Current
  <2> QED  BY <1>6, <2>5, <2>6, <2>7 DEF Typed
<1> QED  BY <1>1, <1>4, <1>5, <1>6

(* What replaces a lookup or an expression.                                *)
LEMMA TypedWritten ==
  ASSUME Typed, NEW v \in ValueOf(source), Leads(v), Written(v),
         source[Here.cell].type = "kExpression" => v.type \in {"kValueLookup", "kNumber"},
         walk' = Advance(walk), chain' = <<>>, UNCHANGED <<source, phase>>
  PROVE  Typed'
<1>1. Tree'
  BY TreeWritten, HereIs DEF Typed
<1>2. Calls' /\ Outwards'
  BY OutwardsAdvance
<1>3. SameKeys'
  BY DEF Typed, SameKeys, Written
<1> QED  BY <1>1, <1>2, <1>3 DEF Typed, Chained, ChainHere

LEMMA EndOfChainIs ==
  ASSUME Typed, NEW type, AtEndOfChain(type)
  PROVE  /\ phase = "resolveVarRefs" /\ chain # <<>> /\ Here.at \in DOMAIN Cell.data
         /\ Here.cell \in DOMAIN source /\ source[Here.cell].type = type /\ Current.type = "kValueLookup"
         /\ chain[1].val \in ValueOf(source) /\ Leads(chain[1].val)
         /\ chain[1].val.type \in Container \cup Scalar
<1>1. phase = "resolveVarRefs" /\ chain # <<>> /\ chain[1].val.type # "kValueLookup" /\ Cell.type = type
  BY DEF AtEndOfChain
<1>2. Here.at \in DOMAIN Cell.data /\ Current.type = "kValueLookup"
  BY <1>1 DEF Typed, ChainHere
<1>3. Here.cell \in DOMAIN source
  BY HereIs DEF Typed
<1>4. source[Here.cell].type = type
  BY <1>1, <1>3 DEF Typed, Tree, Cell
<1>5. chain[1].val \in ValueOf(source) /\ Leads(chain[1].val)
  BY <1>1, ChainIs
<1>6. chain[1].val.type \in Container \cup Scalar
  BY <1>1, <1>5 DEF ValueOf
<1> QED  BY <1>1, <1>2, <1>3, <1>4, <1>5, <1>6

LEMMA EndInStructIs ==
  ASSUME Typed, EndInStruct
  PROVE  /\ Written(chain[1].val) /\ walk' = Advance(walk) /\ chain' = <<>> /\ UNCHANGED <<source, phase>>
         /\ source[Here.cell].type = "kStruct" /\ heap'[Here.cell].elem = Cell.elem
<1>1. AtEndOfChain("kStruct") /\ Replace(chain[1].val)
  BY DEF EndInStruct
<1> DEFINE v == chain[1].val
<1>2. Put(v) /\ walk' = Advance(walk) /\ chain' = <<>> /\ UNCHANGED <<source, phase>>
  BY <1>1 DEF Replace
<1>3. Here.at \in DOMAIN Cell.data /\ v \in ValueOf(source) /\ source[Here.cell].type = "kStruct"
  BY <1>1, EndOfChainIs
<1> HIDE DEF v
<1>4. Written(v) /\ heap'[Here.cell].elem = Cell.elem
  BY <1>2, <1>3, PutIs DEF Typed
<1> QED  BY <1>2, <1>3, <1>4 DEF v

LEMMA ElementTypeIs ==
  ASSUME NEW elem \in ListElementType, NEW type \in Container \cup Scalar
  PROVE  ElementType(elem, type) \in ListElementType
BY DEF ElementType, ListElementType, Container, Scalar

LEMMA EndInListIs ==
  ASSUME Typed, EndInList, phase' # "InvalidTypeException"
  PROVE  /\ Written(chain[1].val) /\ walk' = Advance(walk) /\ chain' = <<>> /\ UNCHANGED <<source, phase>>
         /\ source[Here.cell].type = "kList" /\ listElementValid(Cell.elem, chain[1].val.type)
         /\ heap'[Here.cell].elem = ElementType(Cell.elem, chain[1].val.type)
<1> DEFINE v == chain[1].val
<1>1. AtEndOfChain("kList") /\ listElementValid(Cell.elem, v.type) /\ ReplaceElement(v)
      /\ walk' = Advance(walk) /\ chain' = <<>> /\ UNCHANGED <<source, phase>>
  BY DEF EndInList, Fail
<1>2. /\ Here.at \in DOMAIN Cell.data /\ v \in ValueOf(source) /\ source[Here.cell].type = "kList"
      /\ v.type \in Container \cup Scalar /\ Here.cell \in DOMAIN source
  BY <1>1, EndOfChainIs
<1> HIDE DEF v
<1>3. Cell.elem \in ListElementType
  BY <1>2, CellIs DEF Typed, Cell
<1>4. Written(v) /\ heap'[Here.cell].elem = ElementType(Cell.elem, v.type)
  BY <1>1, <1>2, <1>3, ReplaceElementIs, ElementTypeIs DEF Typed
<1> QED  BY <1>1, <1>2, <1>4 DEF v

LEMMA EvaluatedIs ==
  ASSUME Tree, NEW c \in DOMAIN source
  PROVE  /\ evaluateExpression(c) \in ValueOf(source) /\ Leads(evaluateExpression(c))
         /\ evaluateExpression(c).type = "kNumber"
<1> DEFINE from == {c} \cup UNION {v.from : v \in Operands(c)}
<1>1. \A v \in Operands(c) : v \in ValueOf(source)
  BY CellIs DEF Operands
<1>2. \A v \in ValueOf(source) : v.from \in SUBSET Nat
  BY DEF ValueOf
<1>3. from \in SUBSET Nat
  BY <1>1, <1>2, SourceCellIs
<1>4. evaluateExpression(c) = [type |-> "kNumber", cell |-> 0, from |-> from, keys |-> <<>>]
  BY DEF evaluateExpression, Number, Value
<1> HIDE DEF from
<1>5. <<>> \in Seq(STRING)
  OBVIOUS
<1> QED  BY <1>3, <1>4, <1>5 DEF ValueOf, Scalar, Container, Leads

(* The number that takes the place of an operand.                          *)
OperandOf(v) == IF v.type = "kNumber" THEN v ELSE evaluateExpression(v.cell)

LEMMA EndInExpressionIs ==
  ASSUME Typed, EndInExpression, phase' # "InvalidTypeException"
  PROVE  LET v == chain[1].val
         IN  /\ v.type = "kNumber" \/ (v.type = "kExpression" /\ Evaluable(v.cell))
             /\ OperandOf(v) \in ValueOf(source) /\ OperandOf(v).type = "kNumber" /\ Leads(OperandOf(v))
             /\ Written(OperandOf(v)) /\ heap'[Here.cell].elem = Cell.elem
             /\ walk' = Advance(walk) /\ chain' = <<>> /\ UNCHANGED <<source, phase>>
             /\ source[Here.cell].type = "kExpression"
<1> DEFINE v == chain[1].val
           w == OperandOf(v)
<1>1. AtEndOfChain("kExpression") /\ (v.type = "kNumber" \/ (v.type = "kExpression" /\ Evaluable(v.cell)))
      /\ Replace(w)
  <2>1. CASE v.type = "kNumber"
    BY <2>1 DEF EndInExpression, OperandOf
  <2>2. CASE v.type # "kNumber"
    BY <2>2 DEF EndInExpression, OperandOf, Fail
  <2> QED  BY <2>1, <2>2
<1>2. Put(w) /\ walk' = Advance(walk) /\ chain' = <<>> /\ UNCHANGED <<source, phase>>
  BY <1>1 DEF Replace
<1>3. /\ Here.at \in DOMAIN Cell.data /\ v \in ValueOf(source) /\ Leads(v)
      /\ source[Here.cell].type = "kExpression"
  BY <1>1, EndOfChainIs
<1>4. w \in ValueOf(source) /\ w.type = "kNumber" /\ Leads(w)
  <2>1. CASE v.type = "kNumber"
    BY <1>3, <2>1 DEF OperandOf
  <2>2. CASE v.type # "kNumber"
    <3>1. v.cell \in DOMAIN source
      BY <1>1, <1>3, <2>2 DEF Leads, Container
    <3>2. w = evaluateExpression(v.cell)
      BY <2>2 DEF OperandOf
    <3> HIDE DEF w, v
    <3> QED  BY <3>1, <3>2, EvaluatedIs DEF Typed
  <2> QED  BY <2>1, <2>2
<1> HIDE DEF w
<1>5. Written(w) /\ heap'[Here.cell].elem = Cell.elem
  BY <1>2, <1>3, <1>4, PutIs DEF Typed
<1> QED  BY <1>1, <1>2, <1>3, <1>4, <1>5 DEF w

LEMMA EvaluateIs ==
  ASSUME Typed, Evaluate, phase' # "InvalidTypeException"
  PROVE  LET v == evaluateExpression(Current.cell)
         IN  /\ AtEntry /\ phase = "evaluateExpressions" /\ Current.type = "kExpression"
             /\ Current.cell \in DOMAIN source /\ Evaluable(Current.cell) /\ v.type = "kNumber"
             /\ Cell.type = "kList" => listElementValid(Cell.elem, "kNumber")
             /\ v \in ValueOf(source) /\ Leads(v) /\ Written(v) /\ walk' = Advance(walk)
             /\ chain' = <<>> /\ UNCHANGED <<source, phase>>
             /\ heap'[Here.cell].elem = IF Cell.type = "kList" THEN ElementType(Cell.elem, "kNumber")
                                        ELSE Cell.elem
<1> DEFINE v == evaluateExpression(Current.cell)
<1>1. /\ AtEntry /\ phase = "evaluateExpressions" /\ Current.type = "kExpression"
      /\ Evaluable(Current.cell) /\ (Cell.type = "kList" => listElementValid(Cell.elem, v.type))
      /\ IF Cell.type = "kList" THEN ReplaceElement(v) ELSE Put(v)
      /\ walk' = Advance(walk) /\ UNCHANGED <<source, chain, phase>>
  BY DEF Evaluate, Fail
<1>2. /\ Here.at \in DOMAIN Cell.data /\ Cell = heap[Here.cell] /\ Here.cell \in DOMAIN source
      /\ Leads(Current) /\ chain = <<>>
  BY <1>1, CurrentIs
<1>3. Current.cell \in DOMAIN source
  BY <1>1, <1>2 DEF Leads, Container
<1>4. v \in ValueOf(source) /\ Leads(v) /\ v.type = "kNumber"
  BY <1>3, EvaluatedIs DEF Typed
<1> HIDE DEF v
<1>5. Cell.elem \in ListElementType
  BY <1>2, CellIs DEF Typed
<1>6. ElementType(Cell.elem, v.type) \in ListElementType
  BY <1>4, <1>5, ElementTypeIs DEF Scalar
<1>7. CASE Cell.type = "kList"
  <2>1. Written(v) /\ heap'[Here.cell].elem = ElementType(Cell.elem, v.type)
    BY <1>1, <1>2, <1>4, <1>6, <1>7, ReplaceElementIs DEF Typed
  <2> QED  BY <1>1, <1>2, <1>3, <1>4, <1>7, <2>1 DEF v
<1>8. CASE Cell.type # "kList"
  <2>1. Written(v) /\ heap'[Here.cell].elem = Cell.elem
    BY <1>1, <1>2, <1>4, <1>8, PutIs DEF Typed
  <2> QED  BY <1>1, <1>2, <1>3, <1>4, <1>8, <2>1 DEF v
<1> QED  BY <1>7, <1>8

LEMMA FailIs ==
  ASSUME NEW type
  PROVE  /\ EndInList /\ phase' = "InvalidTypeException" => Fail("InvalidTypeException")
         /\ EndInExpression /\ phase' = "InvalidTypeException" => Fail("InvalidTypeException")
         /\ Evaluate /\ phase' = "InvalidTypeException" => Fail("InvalidTypeException")
<1>1. EndInList /\ phase' = "InvalidTypeException" => Fail("InvalidTypeException")
  BY DEF EndInList, AtEndOfChain, Fail
<1>2. EndInExpression /\ phase' = "InvalidTypeException" => Fail("InvalidTypeException")
  BY DEF EndInExpression, AtEndOfChain, Replace, Fail
<1>3. Evaluate /\ phase' = "InvalidTypeException" => Fail("InvalidTypeException")
  BY DEF Evaluate, Fail
<1> QED  BY <1>1, <1>2, <1>3

LEMMA TypedEnd ==
  ASSUME Typed, EndInStruct \/ EndInList \/ EndInExpression \/ Evaluate
  PROVE  Typed'
<1>1. CASE EndInStruct
  <2>1. AtEndOfChain("kStruct")
    BY <1>1 DEF EndInStruct
  <2>2. chain[1].val \in ValueOf(source) /\ Leads(chain[1].val)
    BY <2>1, EndOfChainIs
  <2> QED  BY <1>1, <2>2, EndInStructIs, TypedWritten
<1>2. CASE EndInList /\ phase' # "InvalidTypeException"
  <2>1. AtEndOfChain("kList")
    BY <1>2 DEF EndInList
  <2>2. chain[1].val \in ValueOf(source) /\ Leads(chain[1].val)
    BY <2>1, EndOfChainIs
  <2> QED  BY <1>2, <2>2, EndInListIs, TypedWritten
<1>3. CASE EndInExpression /\ phase' # "InvalidTypeException"
  <2> DEFINE w == OperandOf(chain[1].val)
  <2>1. /\ w \in ValueOf(source) /\ w.type = "kNumber" /\ Leads(w) /\ Written(w)
        /\ walk' = Advance(walk) /\ chain' = <<>> /\ UNCHANGED <<source, phase>>
    BY <1>3, EndInExpressionIs
  <2> HIDE DEF w
  <2> QED  BY <2>1, TypedWritten
<1>4. CASE Evaluate /\ phase' # "InvalidTypeException"
  <2> DEFINE w == evaluateExpression(Current.cell)
  <2>1. /\ w \in ValueOf(source) /\ w.type = "kNumber" /\ Leads(w) /\ Written(w)
        /\ walk' = Advance(walk) /\ chain' = <<>> /\ UNCHANGED <<source, phase>>
    BY <1>4, EvaluateIs
  <2> HIDE DEF w
  <2> QED  BY <2>1, TypedWritten
<1>5. CASE phase' = "InvalidTypeException" /\ ~EndInStruct
  <2>1. Fail("InvalidTypeException")
    BY <1>5, FailIs
  <2> QED  BY <2>1, TypedFail DEF Exception
<1> QED  BY <1>1, <1>2, <1>3, <1>4, <1>5

LEMMA TypedStutter == ASSUME Typed, UNCHANGED vars PROVE Typed'
<1>1. UNCHANGED <<source, heap, walk, chain, phase>>
  BY DEF vars
<1>2. Tree' /\ Calls' /\ Chained'
  BY <1>1, TreeSame DEF Typed, Calls, Frame, Chained, Link, Leads, Pointer
<1> QED  BY <1>1, <1>2 DEF Typed, SameKeys, Outwards, ChainHere, Here, Cell, Current

LEMMA TypedStep == ASSUME Typed, [Next]_vars PROVE Typed'
<1>1. CASE Descend
  BY <1>1, TypedDescend
<1>2. CASE Skip
  BY <1>2, TypedSkip
<1>3. CASE Return
  BY <1>3, TypedReturn
<1>4. CASE BeginChain
  BY <1>4, TypedBeginChain
<1>5. CASE Follow
  BY <1>5, TypedFollow
<1>6. CASE EndInStruct \/ EndInList \/ EndInExpression \/ Evaluate
  BY <1>6, TypedEnd
<1>7. CASE Finished \/ UNCHANGED vars
  BY <1>7, TypedStutter DEF Finished
<1> QED  BY <1>1, <1>2, <1>3, <1>4, <1>5, <1>6, <1>7 DEF Next

LEMMA TypedAlways == Spec => []Typed
BY TypedInit, TypedStep, PTL DEF Spec

LEMMA TypedImplies == Typed => TypeOK
<1> SUFFICES ASSUME Typed PROVE TypeOK
  OBVIOUS
<1>1. DOMAIN heap = DOMAIN source
  BY DEF Typed, Tree
<1>2. \A c \in DOMAIN source :
        /\ heap[c].type = source[c].type /\ heap[c].elem \in ListElementType
        /\ heap[c].data \in Seq(EntryOf(source))
  BY CellIs DEF Typed
<1>3. walk \in Seq([cell : DOMAIN source, at : Nat \ {0}]) /\ Len(walk) \in 1 .. MaxDepth
  BY DEF Typed, Calls, Frame
<1>4. ASSUME chain # <<>>
      PROVE  chain[1].refs \in Seq(Seq(STRING)) /\ chain[1].val.type \in Container \cup Scalar \cup {"kValueLookup"}
  BY <1>4, ChainIs DEF ValueOf
<1>5. phase \in Walking \cup Exception \cup {"done"}
  BY DEF Typed
<1> QED  BY <1>1, <1>2, <1>3, <1>4, <1>5 DEF TypeOK

(* The types of all fields: the cells of the tree stay those of the source *)
(* and keep their types (config_helpers.cpp:416-537).                      *)
THEOREM TypeCorrect == Spec => []TypeOK
BY TypedAlways, TypedImplies, PTL

-----------------------------------------------------------------------------
(* What the rewriting keeps.  Expressions and lists move from struct to    *)
(* struct, but none gets there that was not the value of a key, or an      *)
(* element of such a list, from the beginning; a list has the elements its *)
(* type says; only lookups and expressions are replaced.                   *)
ExpressionsOfKeys ==
  {c \in Cells(source, "kExpression") :
     \E b \in Cells(source, "kStruct") \cup ListsOfKeys : \E i \in DOMAIN source[b].data :
       source[b].data[i].val = Pointer(source, c)}

OfKeys(v) ==
  /\ v.type = "kExpression" => v.cell \in ExpressionsOfKeys
  /\ v.type = "kList" => v.cell \in ListsOfKeys

AllOfKeys ==
  /\ \A c \in Cells(source, "kStruct") : \A i \in DOMAIN heap[c].data : OfKeys(heap[c].data[i].val)
  /\ \A c \in ListsOfKeys : \A i \in DOMAIN heap[c].data :
       heap[c].data[i].val.type = "kExpression" => heap[c].data[i].val.cell \in ExpressionsOfKeys
  /\ chain # <<>> => OfKeys(chain[1].val)

ElementTypeOf(type) == IF type = "kExpression" THEN "kNumber" ELSE type
ElementsFit ==
  \A c \in Cells(source, "kList") : \A i \in DOMAIN heap[c].data :
    heap[c].data[i].val.type # "kValueLookup" => heap[c].elem = ElementTypeOf(heap[c].data[i].val.type)

LookupsLeft == phase = "resolveVarRefs" =>
  \A c \in DOMAIN source : \A i \in DOMAIN source[c].data :
    \/ heap[c].data[i].val = source[c].data[i].val
    \/ /\ source[c].data[i].val.type = "kValueLookup"
       /\ heap[c].data[i].val.type # "kValueLookup"

ContainersLeft == phase \in {"resolveVarRefs", "evaluateExpressions"} =>
  \A c \in DOMAIN source :
    /\ DOMAIN heap[c].data = DOMAIN source[c].data
    /\ \A i \in DOMAIN source[c].data :
         source[c].data[i].val.type \in {"kStruct", "kList"} => heap[c].data[i].val = source[c].data[i].val

Rewritten == AllOfKeys /\ ElementsFit /\ LookupsLeft /\ ContainersLeft

LEMMA CellsAre ==
  ASSUME NEW type, NEW c \in Cells(source, type)
  PROVE  c \in DOMAIN source /\ source[c].type = type
BY DEF Cells

LEMMA ListsOfKeysAre == ASSUME NEW c \in ListsOfKeys PROVE c \in Cells(source, "kList")
BY DEF ListsOfKeys

LEMMA ConfigValueFrom ==
  ASSUME Tree, NEW keys \in Seq(STRING), IsFound(getConfigValue(keys))
  PROVE  \/ getConfigValue(keys).val = Pointer(source, Root)
         \/ \E c \in Cells(source, "kStruct") : \E i \in DOMAIN heap[c].data :
              getConfigValue(keys).val = heap[c].data[i].val
<1>1. ASSUME NEW at, EntersBy(at, keys), IsFound(at[Len(keys)])
      PROVE  \/ at[Len(keys)].val = Pointer(source, Root)
             \/ \E c \in Cells(source, "kStruct") : \E i \in DOMAIN heap[c].data :
                  at[Len(keys)].val = heap[c].data[i].val
  <2> DEFINE n == Len(keys)
  <2>1. n \in Nat
    BY LenIs
  <2>2. CASE n = 0
    <3>1. at[0] = Found(Pointer(source, Root))
      BY <1>1 DEF EntersBy
    <3>2. Found(Pointer(source, Root)).val = Pointer(source, Root)
      BY DEF Found
    <3> QED  BY <2>2, <3>1, <3>2
  <2>3. CASE n # 0
    <3> DEFINE o == at[n - 1]
    <3>1. n \in 1 .. n /\ n - 1 \in 0 .. n
      <4> HIDE DEF n
      <4> QED  BY <2>1, <2>3
    <3>2. o \in Outcome /\ at[n] = Enter(o, keys[n])
      BY <1>1, <3>1 DEF EntersBy
    <3>3. IsFound(at[n])
      BY <1>1
    <3> HIDE DEF o, n
    <3>4. /\ o.val.type = "kStruct" /\ o.val.cell \in DOMAIN source
          /\ \E i \in DOMAIN heap[o.val.cell].data : at[n].val = heap[o.val.cell].data[i].val
      BY <3>2, <3>3, EnterIs
    <3>5. Leads(o.val)
      BY <3>2 DEF Outcome
    <3>6. source[o.val.cell].type = "kStruct"
      <4>1. o.val = Pointer(source, o.val.cell)
        BY <3>4, <3>5 DEF Leads, Container
      <4>2. \A c : Pointer(source, c).type = source[c].type
        BY DEF Pointer, Value
      <4> QED  BY <3>4, <4>1, <4>2
    <3>7. o.val.cell \in Cells(source, "kStruct")
      BY <3>4, <3>6 DEF Cells
    <3> QED  BY <3>4, <3>7 DEF n
  <2> QED  BY <2>2, <2>3
<1>2. PICK at : EntersBy(at, keys) /\ getConfigValue(keys) = at[Len(keys)]
  BY EnterSteps
<1>3. IsFound(at[Len(keys)]) /\ EntersBy(at, keys)
  BY <1>2
<1>4. \/ at[Len(keys)].val = Pointer(source, Root)
      \/ \E c \in Cells(source, "kStruct") : \E i \in DOMAIN heap[c].data :
           at[Len(keys)].val = heap[c].data[i].val
  BY <1>1, <1>3
<1> QED  BY <1>2, <1>4

LEMMA RewrittenInit == ASSUME Init PROVE Rewritten
<1>1. source \in Sources /\ heap = source /\ chain = <<>>
  BY DEF Init
<1>2. ASSUME NEW c \in DOMAIN source, NEW i \in DOMAIN source[c].data,
             source[c].data[i].val.type \in Container
      PROVE  LET d == source[c].data[i].val.cell
             IN  /\ d \in Cells(source, source[c].data[i].val.type)
                 /\ source[c].data[i].val = Pointer(source, d)
  BY <1>1, <1>2, PointerIs DEF Cells
<1>3. AllOfKeys
  <2>1. ASSUME NEW c \in Cells(source, "kStruct"), NEW i \in DOMAIN source[c].data
        PROVE  OfKeys(source[c].data[i].val)
    <3> DEFINE v == source[c].data[i].val
    <3>1. v.type \in Container => v.cell \in Cells(source, v.type) /\ v = Pointer(source, v.cell)
      BY <1>2, <2>1, CellsAre
    <3>2. CASE v.type = "kExpression"
      BY <2>1, <3>1, <3>2 DEF OfKeys, ExpressionsOfKeys, Container
    <3>3. CASE v.type = "kList"
      BY <2>1, <3>1, <3>3 DEF OfKeys, ListsOfKeys, Container
    <3> QED  BY <3>2, <3>3 DEF OfKeys
  <2>2. ASSUME NEW c \in ListsOfKeys, NEW i \in DOMAIN source[c].data,
               source[c].data[i].val.type = "kExpression"
        PROVE  source[c].data[i].val.cell \in ExpressionsOfKeys
    <3>1. c \in DOMAIN source
      BY ListsOfKeysAre, CellsAre
    <3> QED  BY <1>2, <2>2, <3>1 DEF ExpressionsOfKeys, Container
  <2> QED  BY <1>1, <2>1, <2>2 DEF AllOfKeys
<1>4. ElementsFit
  <2> SUFFICES ASSUME NEW c \in Cells(source, "kList"), NEW i \in DOMAIN source[c].data,
                      source[c].data[i].val.type # "kValueLookup"
               PROVE  source[c].elem = ElementTypeOf(source[c].data[i].val.type)
    BY <1>1 DEF ElementsFit
  <2>1. c \in DOMAIN source /\ source[c].type = "kList"
    BY CellsAre
  <2>2. LET type == source[c].data[i].val.type
        IN  \/ type = "kValueLookup"
            \/ type \in Scalar \cup {"kList"} /\ source[c].elem = type
            \/ type = "kExpression" /\ source[c].elem = "kNumber"
    BY <1>1, <2>1, ElementIs
  <2> QED  BY <2>2 DEF ElementTypeOf, Scalar
<1> QED  BY <1>1, <1>3, <1>4 DEF Rewritten, LookupsLeft, ContainersLeft

LEMMA KeysSame ==
  ASSUME UNCHANGED source
  PROVE  /\ ExpressionsOfKeys' = ExpressionsOfKeys /\ ListsOfKeys' = ListsOfKeys
         /\ \A type : Cells(source, type)' = Cells(source, type)
BY DEF ExpressionsOfKeys, ListsOfKeys, Cells, Pointer

(* A step that writes nothing; chain is new or gone or the same.           *)
LEMMA RewrittenSame ==
  ASSUME Rewritten, UNCHANGED <<source, heap>>, chain' # <<>> => OfKeys(chain'[1].val),
         \/ phase' = phase \/ phase' \in Exception
         \/ phase = "resolveVarRefs" /\ phase' = "evaluateExpressions"
         \/ phase' \notin {"resolveVarRefs", "evaluateExpressions"}
  PROVE  Rewritten'
<1>1. AllOfKeys'
  <2>1. /\ ExpressionsOfKeys' = ExpressionsOfKeys /\ ListsOfKeys' = ListsOfKeys
        /\ Cells(source, "kStruct")' = Cells(source, "kStruct")
    BY KeysSame
  <2>2. \A c \in Cells(source, "kStruct") : \A i \in DOMAIN heap'[c].data : OfKeys(heap'[c].data[i].val)
    BY DEF Rewritten, AllOfKeys
  <2>3. \A c \in ListsOfKeys : \A i \in DOMAIN heap'[c].data :
         heap'[c].data[i].val.type = "kExpression" => heap'[c].data[i].val.cell \in ExpressionsOfKeys
    BY DEF Rewritten, AllOfKeys
  <2> QED  BY <2>1, <2>2, <2>3 DEF AllOfKeys, OfKeys
<1>2. ElementsFit'
  BY DEF Rewritten, ElementsFit, Cells
<1>3. LookupsLeft'
  BY DEF Rewritten, LookupsLeft, Exception
<1>4. ContainersLeft'
  BY DEF Rewritten, ContainersLeft, Exception
<1> QED  BY <1>1, <1>2, <1>3, <1>4 DEF Rewritten

(* A lookup or an expression is replaced.                                  *)
LEMMA RewrittenWritten ==
  ASSUME Typed, Rewritten, NEW v, Written(v), UNCHANGED <<source, phase>>, chain' = <<>>,
         Here.at \in DOMAIN Cell.data, v.type # "kValueLookup", OfKeys(v),
         \/ phase = "resolveVarRefs" /\ Current.type = "kValueLookup"
         \/ phase = "evaluateExpressions" /\ Current.type = "kExpression",
         IF source[Here.cell].type = "kList"
           THEN /\ listElementValid(Cell.elem, v.type)
                /\ heap'[Here.cell].elem = ElementType(Cell.elem, v.type)
           ELSE heap'[Here.cell].elem = Cell.elem,
         v.type \in Container \cup Scalar
  PROVE  Rewritten'
<1> DEFINE c == Here.cell
           n == Here.at
<1>1. c \in DOMAIN source /\ Cell = heap[c] /\ Current = heap[c].data[n].val /\ n \in DOMAIN heap[c].data
  BY HereIs DEF Typed, Cell, Current
<1>2. \A b \in DOMAIN source : \A i \in DOMAIN heap'[b].data :
        /\ i \in DOMAIN heap[b].data
        /\ heap'[b].data[i].val = v \/ heap'[b].data[i].val = heap[b].data[i].val
        /\ b = c /\ i = n => heap'[b].data[i].val = v
        /\ ~(b = c /\ i = n) => heap'[b].data[i].val = heap[b].data[i].val
  BY DEF Written
<1>3. \A b \in DOMAIN source : /\ DOMAIN heap'[b].data = DOMAIN heap[b].data
                               /\ b # c => heap'[b].elem = heap[b].elem
  BY DEF Written
<1>4. /\ ExpressionsOfKeys' = ExpressionsOfKeys /\ ListsOfKeys' = ListsOfKeys
      /\ \A type : Cells(source, type)' = Cells(source, type)
  BY KeysSame
<1>5. AllOfKeys'
  <2>1. ASSUME NEW b \in Cells(source, "kStruct"), NEW i \in DOMAIN heap'[b].data
        PROVE  OfKeys(heap'[b].data[i].val)
    BY <1>2, CellsAre DEF Rewritten, AllOfKeys
  <2>2. ASSUME NEW b \in ListsOfKeys, NEW i \in DOMAIN heap'[b].data,
               heap'[b].data[i].val.type = "kExpression"
        PROVE  heap'[b].data[i].val.cell \in ExpressionsOfKeys
    <3>1. b \in DOMAIN source
      BY ListsOfKeysAre, CellsAre
    <3> QED  BY <1>2, <2>2, <3>1 DEF Rewritten, AllOfKeys, OfKeys
  <2> QED  BY <1>4, <2>1, <2>2 DEF AllOfKeys, OfKeys
<1>6. ElementsFit'
  <2> SUFFICES ASSUME NEW b \in Cells(source, "kList"), NEW i \in DOMAIN heap'[b].data,
                      heap'[b].data[i].val.type # "kValueLookup"
               PROVE  heap'[b].elem = ElementTypeOf(heap'[b].data[i].val.type)
    BY <1>4 DEF ElementsFit
  <2>1. b \in DOMAIN source /\ source[b].type = "kList"
    BY CellsAre
  <2>2. i \in DOMAIN heap[b].data
        /\ (heap[b].data[i].val.type # "kValueLookup" => heap[b].elem = ElementTypeOf(heap[b].data[i].val.type))
    BY <1>2, <2>1 DEF Rewritten, ElementsFit
  <2>3. CASE b # c
    BY <1>2, <1>3, <2>1, <2>2, <2>3
  <2>4. CASE b = c
    <3>1. listElementValid(heap[c].elem, v.type) /\ heap'[c].elem = ElementType(heap[c].elem, v.type)
      BY <1>1, <2>1, <2>4
    <3>2. v.type # "kVar"
      BY DEF Container, Scalar
    <3>3. CASE i = n
      <4>1. heap'[b].data[i].val = v
        BY <1>2, <2>1, <2>4, <3>3
      <4>2. heap'[c].elem = ElementTypeOf(v.type)
        BY <3>1, <3>2 DEF listElementValid, ElementType, ElementTypeOf
      <4> QED  BY <2>4, <4>1, <4>2
    <3>4. CASE i # n
      <4>1. heap'[b].data[i].val = heap[b].data[i].val
        BY <1>2, <2>1, <2>4, <3>4
      <4>2. heap[b].elem = ElementTypeOf(heap[b].data[i].val.type)
        BY <2>2, <4>1
      <4>3. heap[b].elem # "kUnknown"
        <5>1. heap[b].data[i].val.type \in Container \cup Scalar \cup {"kValueLookup"}
          BY <2>1, <2>2, CellIs DEF Typed, ValueOf
        <5> QED  BY <4>2, <5>1 DEF ElementTypeOf, Container, Scalar
      <4>4. heap'[c].elem = heap[c].elem
        BY <2>4, <3>1, <4>3 DEF ElementType
      <4> QED  BY <2>4, <4>1, <4>2, <4>4
    <3> QED  BY <3>3, <3>4
  <2> QED  BY <2>3, <2>4
<1>7. LookupsLeft'
  <2> SUFFICES ASSUME phase = "resolveVarRefs", NEW b \in DOMAIN source, NEW i \in DOMAIN source[b].data
               PROVE  \/ heap'[b].data[i].val = source[b].data[i].val
                      \/ /\ source[b].data[i].val.type = "kValueLookup"
                         /\ heap'[b].data[i].val.type # "kValueLookup"
    BY DEF LookupsLeft
  <2>1. i \in DOMAIN heap'[b].data
    BY <1>3 DEF Typed, SameKeys
  <2>2. \/ heap[b].data[i].val = source[b].data[i].val
        \/ /\ source[b].data[i].val.type = "kValueLookup"
           /\ heap[b].data[i].val.type # "kValueLookup"
    BY DEF Rewritten, LookupsLeft
  <2>3. CASE b = c /\ i = n
    BY <1>1, <1>2, <2>1, <2>2, <2>3
  <2>4. CASE ~(b = c /\ i = n)
    BY <1>2, <2>1, <2>2, <2>4
  <2> QED  BY <2>3, <2>4
<1>8. ContainersLeft'
  <2> SUFFICES ASSUME phase \in {"resolveVarRefs", "evaluateExpressions"}, NEW b \in DOMAIN source
               PROVE  /\ DOMAIN heap'[b].data = DOMAIN source[b].data
                      /\ \A i \in DOMAIN source[b].data :
                           source[b].data[i].val.type \in {"kStruct", "kList"}
                             => heap'[b].data[i].val = source[b].data[i].val
    BY DEF ContainersLeft
  <2>1. /\ DOMAIN heap'[b].data = DOMAIN source[b].data
        /\ \A i \in DOMAIN source[b].data :
             source[b].data[i].val.type \in {"kStruct", "kList"}
               => heap[b].data[i].val = source[b].data[i].val
    BY <1>3 DEF Rewritten, ContainersLeft
  <2>2. ASSUME NEW i \in DOMAIN source[b].data, source[b].data[i].val.type \in {"kStruct", "kList"}
        PROVE  heap'[b].data[i].val = source[b].data[i].val
    <3>1. heap[b].data[i].val = source[b].data[i].val /\ i \in DOMAIN heap'[b].data
      BY <2>1, <2>2
    <3>2. ~(b = c /\ i = n)
      BY <1>1, <2>2, <3>1
    <3> QED  BY <1>2, <3>1, <3>2
  <2> QED  BY <2>1, <2>2
<1> QED  BY <1>5, <1>6, <1>7, <1>8 DEF Rewritten

LEMMA RewrittenReturn == ASSUME Typed, Rewritten, Return PROVE Rewritten'
<1>1. /\ phase \in Walking /\ chain = <<>> /\ UNCHANGED <<source, chain>>
      /\ phase # "cleanupConfig" => heap' = heap
      /\ \/ phase' = phase
         \/ phase = "resolveVarRefs" /\ phase' = "evaluateExpressions"
         \/ phase' \in {"cleanupConfig", "done"}
  BY ReturnIs DEF Walking
<1>2. CASE phase # "cleanupConfig"
  BY <1>1, <1>2, RewrittenSame DEF Walking
<1>3. CASE phase = "cleanupConfig"
  <2>1. \A b \in DOMAIN source :
          /\ heap'[b].elem = heap[b].elem
          /\ \A i \in DOMAIN heap'[b].data : \E j \in DOMAIN heap[b].data : heap'[b].data[i] = heap[b].data[j]
    BY ReturnIs
  <2>2. /\ ExpressionsOfKeys' = ExpressionsOfKeys /\ ListsOfKeys' = ListsOfKeys
        /\ \A type : Cells(source, type)' = Cells(source, type)
    BY <1>1, KeysSame
  <2>3. AllOfKeys'
    <3>1. ASSUME NEW b \in Cells(source, "kStruct"), NEW i \in DOMAIN heap'[b].data
          PROVE  OfKeys(heap'[b].data[i].val)
      <4>1. PICK j \in DOMAIN heap[b].data : heap'[b].data[i] = heap[b].data[j]
        BY <2>1, CellsAre
      <4> QED  BY <4>1 DEF Rewritten, AllOfKeys
    <3>2. ASSUME NEW b \in ListsOfKeys, NEW i \in DOMAIN heap'[b].data,
                 heap'[b].data[i].val.type = "kExpression"
          PROVE  heap'[b].data[i].val.cell \in ExpressionsOfKeys
      <4>1. PICK j \in DOMAIN heap[b].data : heap'[b].data[i] = heap[b].data[j]
        BY <2>1, ListsOfKeysAre, CellsAre
      <4> QED  BY <3>2, <4>1 DEF Rewritten, AllOfKeys
    <3> QED  BY <1>1, <2>2, <3>1, <3>2 DEF AllOfKeys, OfKeys
  <2>4. ElementsFit'
    <3> SUFFICES ASSUME NEW b \in Cells(source, "kList"), NEW i \in DOMAIN heap'[b].data,
                        heap'[b].data[i].val.type # "kValueLookup"
                 PROVE  heap'[b].elem = ElementTypeOf(heap'[b].data[i].val.type)
      BY <2>2 DEF ElementsFit
    <3>1. PICK j \in DOMAIN heap[b].data : heap'[b].data[i] = heap[b].data[j]
      BY <2>1, CellsAre
    <3> QED  BY <2>1, <3>1, CellsAre DEF Rewritten, ElementsFit
  <2>5. LookupsLeft' /\ ContainersLeft'
    BY <1>1, <1>3 DEF LookupsLeft, ContainersLeft
  <2> QED  BY <2>3, <2>4, <2>5 DEF Rewritten
<1> QED  BY <1>2, <1>3

LEMMA RewrittenFail ==
  ASSUME Rewritten, NEW exception \in Exception, Fail(exception)
  PROVE  Rewritten'
<1>1. phase' \in Exception /\ UNCHANGED <<source, heap, chain>>
  BY DEF Fail
<1>2. chain' # <<>> => OfKeys(chain'[1].val)
  BY <1>1 DEF Rewritten, AllOfKeys
<1> QED  BY <1>1, <1>2, RewrittenSame

(* What Follow does, in its three cases.                                   *)
LEMMA FollowIs ==
  ASSUME Typed, Follow
  PROVE  LET var == chain[1].val.keys
             next == getConfigValue(var)
         IN  /\ phase = "resolveVarRefs" /\ chain # <<>> /\ chain[1].val.type = "kValueLookup"
             /\ var \in Seq(STRING) /\ next \in Outcome
             /\ \/ Contains(chain[1].refs, var) /\ Fail("CyclicReferenceException")
                \/ /\ ~IsFound(next) /\ next.exception \in {"InvalidKeyException", "InvalidTypeException"}
                   /\ Fail(next.exception)
                \/ /\ IsFound(next) /\ UNCHANGED <<source, heap, walk, phase>>
                   /\ chain' = <<[refs |-> Append(chain[1].refs, var), val |-> next.val]>>
<1> DEFINE var == chain[1].val.keys
           next == getConfigValue(var)
<1>1. /\ phase = "resolveVarRefs" /\ chain # <<>> /\ chain[1].val.type = "kValueLookup"
      /\ \/ Contains(chain[1].refs, var) /\ Fail("CyclicReferenceException")
         \/ ~IsFound(next) /\ Fail(next.exception)
         \/ /\ IsFound(next) /\ UNCHANGED <<source, heap, walk, phase>>
            /\ chain' = <<[refs |-> Append(chain[1].refs, var), val |-> next.val]>>
  BY DEF Follow, IsFound
<1>2. var \in Seq(STRING)
  BY <1>1, ChainIs
<1>3. next \in Outcome
  BY <1>2, ConfigValueIs DEF Typed
<1>4. ~IsFound(next) => next.exception \in {"InvalidKeyException", "InvalidTypeException"}
  BY <1>3 DEF IsFound, Outcome
<1> QED  BY <1>1, <1>2, <1>3, <1>4

LEMMA RewrittenStep == ASSUME Typed, Rewritten, [Next]_vars PROVE Rewritten'
<1>1. CASE Descend
  <2>1. CASE Fail("stack overflow")
    BY <2>1, RewrittenFail DEF Exception
  <2>2. CASE ~Fail("stack overflow")
    <3>1. UNCHANGED <<source, heap, chain, phase>>
      BY <1>1, <2>2 DEF Descend
    <3> QED  BY <3>1, RewrittenSame DEF Rewritten, AllOfKeys
  <2> QED  BY <2>1, <2>2
<1>2. CASE Skip
  <2>1. UNCHANGED <<source, heap, chain, phase>>
    BY <1>2 DEF Skip
  <2> QED  BY <2>1, RewrittenSame DEF Rewritten, AllOfKeys
<1>3. CASE Return
  BY <1>3, RewrittenReturn
<1>4. CASE BeginChain
  <2> DEFINE l == [refs |-> <<SrcKey>>, val |-> Current]
  <2>1. chain' = <<l>> /\ Current.type = "kValueLookup" /\ UNCHANGED <<source, heap, phase>>
    BY <1>4 DEF BeginChain
  <2>2. OfKeys(l.val)
    BY <2>1 DEF OfKeys
  <2> HIDE DEF l
  <2>3. chain'[1] = l
    BY <2>1
  <2> QED  BY <2>1, <2>2, <2>3, RewrittenSame
<1>5. CASE Follow
  <2> DEFINE var == chain[1].val.keys
             next == getConfigValue(var)
             l == [refs |-> Append(chain[1].refs, var), val |-> next.val]
  <2>1. /\ var \in Seq(STRING)
        /\ \/ Fail("CyclicReferenceException")
           \/ next.exception \in {"InvalidKeyException", "InvalidTypeException"} /\ Fail(next.exception)
           \/ IsFound(next) /\ UNCHANGED <<source, heap, walk, phase>> /\ chain' = <<l>>
    BY <1>5, FollowIs
  <2>2. CASE Fail("CyclicReferenceException")
    BY <2>2, RewrittenFail DEF Exception
  <2>3. CASE next.exception \in {"InvalidKeyException", "InvalidTypeException"} /\ Fail(next.exception)
    <3> HIDE DEF next
    <3> QED  BY <2>3, RewrittenFail DEF Exception
  <2>4. CASE IsFound(next) /\ UNCHANGED <<source, heap, walk, phase>> /\ chain' = <<l>>
    <3>1. \/ next.val = Pointer(source, Root)
          \/ \E c \in Cells(source, "kStruct") : \E i \in DOMAIN heap[c].data : next.val = heap[c].data[i].val
      BY <2>1, <2>4, ConfigValueFrom DEF Typed
    <3>2. l.val = next.val
      OBVIOUS
    <3> HIDE DEF l, next
    <3>3. OfKeys(next.val)
      <4>1. Pointer(source, Root).type = "kStruct"
        BY RootIs DEF Typed
      <4> QED  BY <3>1, <4>1 DEF Rewritten, AllOfKeys, OfKeys
    <3>4. chain'[1] = l
      BY <2>4
    <3> QED  BY <2>4, <3>2, <3>3, <3>4, RewrittenSame
  <2> QED  BY <2>1, <2>2, <2>3, <2>4
<1>6. CASE EndInStruct
  <2>1. AtEndOfChain("kStruct")
    BY <1>6 DEF EndInStruct
  <2>2. /\ Written(chain[1].val) /\ chain' = <<>> /\ UNCHANGED <<source, phase>>
        /\ source[Here.cell].type = "kStruct" /\ heap'[Here.cell].elem = Cell.elem
    BY <1>6, EndInStructIs
  <2>3. /\ phase = "resolveVarRefs" /\ chain # <<>> /\ Here.at \in DOMAIN Cell.data
        /\ Current.type = "kValueLookup" /\ chain[1].val.type \in Container \cup Scalar
    BY <2>1, EndOfChainIs
  <2>4. chain[1].val.type # "kValueLookup" /\ OfKeys(chain[1].val)
    BY <2>1, <2>3 DEF AtEndOfChain, Rewritten, AllOfKeys
  <2> QED  BY <2>2, <2>3, <2>4, RewrittenWritten
<1>7. CASE (EndInList \/ EndInExpression \/ Evaluate) /\ phase' = "InvalidTypeException"
  <2>1. Fail("InvalidTypeException")
    BY <1>7, FailIs
  <2> QED  BY <2>1, RewrittenFail DEF Exception
<1>8. CASE EndInList /\ phase' # "InvalidTypeException"
  <2>1. AtEndOfChain("kList")
    BY <1>8 DEF EndInList
  <2>2. /\ Written(chain[1].val) /\ chain' = <<>> /\ UNCHANGED <<source, phase>>
        /\ source[Here.cell].type = "kList" /\ listElementValid(Cell.elem, chain[1].val.type)
        /\ heap'[Here.cell].elem = ElementType(Cell.elem, chain[1].val.type)
    BY <1>8, EndInListIs
  <2>3. /\ phase = "resolveVarRefs" /\ chain # <<>> /\ Here.at \in DOMAIN Cell.data
        /\ Current.type = "kValueLookup" /\ chain[1].val.type \in Container \cup Scalar
    BY <2>1, EndOfChainIs
  <2>4. chain[1].val.type # "kValueLookup" /\ OfKeys(chain[1].val)
    BY <2>1, <2>3 DEF AtEndOfChain, Rewritten, AllOfKeys
  <2> QED  BY <2>2, <2>3, <2>4, RewrittenWritten
<1>9. CASE EndInExpression /\ phase' # "InvalidTypeException"
  <2> DEFINE w == OperandOf(chain[1].val)
  <2>1. AtEndOfChain("kExpression")
    BY <1>9 DEF EndInExpression
  <2>2. /\ Written(w) /\ chain' = <<>> /\ UNCHANGED <<source, phase>> /\ w.type = "kNumber"
        /\ source[Here.cell].type = "kExpression" /\ heap'[Here.cell].elem = Cell.elem
    BY <1>9, EndInExpressionIs
  <2>3. /\ phase = "resolveVarRefs" /\ Here.at \in DOMAIN Cell.data /\ Current.type = "kValueLookup"
    BY <2>1, EndOfChainIs
  <2> HIDE DEF w
  <2>4. w.type # "kValueLookup" /\ OfKeys(w) /\ w.type \in Container \cup Scalar
    BY <2>2 DEF OfKeys, Scalar
  <2> QED  BY <2>2, <2>3, <2>4, RewrittenWritten
<1>10. CASE Evaluate /\ phase' # "InvalidTypeException"
  <2> DEFINE w == evaluateExpression(Current.cell)
  <2>1. /\ Written(w) /\ chain' = <<>> /\ UNCHANGED <<source, phase>> /\ w.type = "kNumber"
        /\ AtEntry /\ phase = "evaluateExpressions" /\ Current.type = "kExpression"
        /\ Cell.type = "kList" => listElementValid(Cell.elem, "kNumber")
        /\ heap'[Here.cell].elem = IF Cell.type = "kList" THEN ElementType(Cell.elem, "kNumber") ELSE Cell.elem
    BY <1>10, EvaluateIs
  <2>2. Here.at \in DOMAIN Cell.data /\ Cell.type = source[Here.cell].type
    BY <2>1, CurrentIs DEF Typed, Tree
  <2> HIDE DEF w
  <2>3. w.type # "kValueLookup" /\ OfKeys(w) /\ w.type \in Container \cup Scalar
    BY <2>1 DEF OfKeys, Scalar
  <2> QED  BY <2>1, <2>2, <2>3, RewrittenWritten
<1>11. CASE Finished \/ UNCHANGED vars
  <2>1. UNCHANGED <<source, heap, chain, phase>>
    BY <1>11 DEF Finished, vars
  <2> QED  BY <2>1, RewrittenSame DEF Rewritten, AllOfKeys
<1> QED  BY <1>1, <1>2, <1>3, <1>4, <1>5, <1>6, <1>7, <1>8, <1>9, <1>10, <1>11 DEF Next

-----------------------------------------------------------------------------
(* resolveVarRefs walks the source: F are the cells it has finished, all   *)
(* entries of which it has passed.  What it has not passed is as it was    *)
(* parsed; what it has passed is no lookup any more, and the cells there,  *)
(* if it enters them, are finished.  So no cell is ever entered again.     *)
Passed(w, F, c, i) == c \in F \/ \E n \in 1 .. Len(w) : w[n].cell = c /\ i < w[n].at

Pointed(c, i, d) ==
  /\ c \in DOMAIN source /\ i \in DOMAIN source[c].data
  /\ source[c].data[i].val.type \in Container /\ source[c].data[i].val.cell = d
Entered(c, i) ==
  /\ source[c].data[i].val.type \in Container
  /\ source[c].type = "kStruct" \/ source[c].data[i].val.type = "kExpression"

Visits(w, h, F) ==
  /\ F \in SUBSET DOMAIN source /\ \A n \in 1 .. Len(w) : w[n].cell \notin F
  /\ \A n \in 1 .. (Len(w) - 1) : Pointed(w[n].cell, w[n].at, w[n + 1].cell) /\ Entered(w[n].cell, w[n].at)
  /\ \A m, n \in 1 .. Len(w) : m < n => w[m].cell < w[n].cell
  /\ \A d \in F : \E c, i : Pointed(c, i, d) /\ Passed(w, F, c, i)
  /\ \A c \in DOMAIN source : \A i \in DOMAIN source[c].data :
       /\ ~Passed(w, F, c, i) => h[c].data[i].val = source[c].data[i].val
       /\ Passed(w, F, c, i) =>
            /\ h[c].data[i].val.type # "kValueLookup"
            /\ Entered(c, i) => source[c].data[i].val.cell \in F

Visiting == phase = "resolveVarRefs" => \E F : Visits(walk, heap, F)

LEMMA VisitingInit == ASSUME Init PROVE Visiting
<1>1. heap = source /\ walk = <<[cell |-> Root, at |-> 1]>> /\ source \in Sources
  BY DEF Init
<1> DEFINE f == [cell |-> Root, at |-> 1]
<1>2. f.cell = Root /\ f.at = 1
  OBVIOUS
<1> HIDE DEF f
<1>3. Len(walk) = 1 /\ walk[1] = f
  BY <1>1 DEF f
<1>4. \A c \in DOMAIN source : \A i \in DOMAIN source[c].data : ~Passed(walk, {}, c, i)
  <2> SUFFICES ASSUME NEW c \in DOMAIN source, NEW i \in DOMAIN source[c].data, Passed(walk, {}, c, i)
               PROVE  FALSE
    OBVIOUS
  <2>1. i < 1
    BY <1>2, <1>3 DEF Passed
  <2>2. i \in Nat \ {0}
    <3>1. source[c] \in CellOf(source)
      BY <1>1, SourceIs
    <3>2. source[c].data \in Seq(EntryOf(source))
      BY <3>1 DEF CellOf
    <3> QED  BY <3>2
  <2> QED  BY <2>1, <2>2
<1>5. Visits(walk, heap, {})
  <2>1. \A m, n \in 1 .. Len(walk) : m < n => walk[m].cell < walk[n].cell
    BY <1>3
  <2>2. \A n \in 1 .. (Len(walk) - 1) : FALSE
    BY <1>3
  <2> QED  BY <1>1, <1>4, <2>1, <2>2 DEF Visits
<1> QED  BY <1>5 DEF Visiting

(* The entry the walk is at is not passed, hence as it was parsed.         *)
LEMMA HereNotPassed ==
  ASSUME Typed, NEW F, Visits(walk, heap, F)
  PROVE  /\ ~Passed(walk, F, Here.cell, Here.at)
         /\ Here.at \in DOMAIN source[Here.cell].data =>
              heap[Here.cell].data[Here.at].val = source[Here.cell].data[Here.at].val
<1> DEFINE L == Len(walk)
<1>1. /\ L \in Nat \ {0} /\ Here = walk[L] /\ Here.cell \in DOMAIN source /\ Here.at \in Nat
      /\ \A n \in 1 .. L : walk[n].cell \in DOMAIN source
  BY HereIs DEF Typed
<1>2. ~Passed(walk, F, Here.cell, Here.at)
  <2> SUFFICES ASSUME NEW n \in 1 .. L, walk[n].cell = Here.cell, Here.at < walk[n].at PROVE FALSE
    BY <1>1 DEF Passed, Visits
  <2>1. ~(n < L)
    <3> SUFFICES ASSUME n < L PROVE FALSE
      OBVIOUS
    <3>1. L \in 1 .. L
      BY <1>1
    <3>2. walk[n].cell < walk[L].cell
      BY <3>1 DEF Visits
    <3>3. Here.cell \in Nat
      BY <1>1, SourceCellIs DEF Typed
    <3> QED  BY <1>1, <3>2, <3>3
  <2>2. n = L
    BY <1>1, <2>1
  <2> QED  BY <1>1, <2>2
<1> QED  BY <1>1, <1>2 DEF Visits

(* Distinct cells fit into the stack.                                      *)
LEMMA DistinctFit ==
  ASSUME Tree, NEW w \in Seq(Frame), NEW d \in DOMAIN source,
         \A m, n \in 1 .. Len(w) : m < n => w[m].cell # w[n].cell,
         \A n \in 1 .. Len(w) : w[n].cell # d
  PROVE  Len(w) < MaxDepth
<1> DEFINE L == Len(w)
           S == 1 .. (L + 1)
           f == [n \in S |-> IF n = L + 1 THEN d ELSE w[n].cell]
<1>1. L \in Nat /\ \A n \in 1 .. L : w[n] \in Frame
  OBVIOUS
<1>2. \A n \in 1 .. L : w[n].cell \in DOMAIN source
  BY <1>1 DEF Frame
<1>3. source \in Sources /\ IsFiniteSet(DOMAIN source)
  BY SourceIs DEF Tree
<1>4. MaxDepth \in Nat /\ Cardinality(DOMAIN source) <= MaxDepth /\ Cardinality(DOMAIN source) \in Nat
  BY <1>3, DepthAssumption, FS_CardinalityType
<1> HIDE DEF L
<1>5. \A n \in S : n = L + 1 \/ n \in 1 .. L
  BY <1>1
<1>6. f \in [S -> DOMAIN source]
  BY <1>2, <1>5 DEF L
<1>7. \A m, n \in S : m # n => f[m] # f[n]
  <2> SUFFICES ASSUME NEW m \in S, NEW n \in S, m # n PROVE f[m] # f[n]
    OBVIOUS
  <2>1. \A k \in 1 .. L : k # L + 1
    BY <1>1
  <2>2. m \in 1 .. L /\ n \in 1 .. L => m < n \/ n < m
    BY <1>1
  <2> QED  BY <1>5, <2>1, <2>2 DEF L
<1>8. IsFiniteSet(S) /\ Cardinality(S) = L + 1
  BY <1>1, FS_Interval
<1> HIDE DEF f, S
<1>9. Cardinality(S) <= Cardinality(DOMAIN source)
  <2> SUFFICES ASSUME ~(Cardinality(S) <= Cardinality(DOMAIN source)) PROVE FALSE
    OBVIOUS
  <2>1. Cardinality(DOMAIN source) < Cardinality(S)
    BY <1>1, <1>4, <1>8
  <2>2. \E x, y \in S : x # y /\ f[x] = f[y]
    BY <1>3, <1>6, <1>8, <2>1, FS_PigeonHole
  <2> QED  BY <1>7, <2>2
<1> QED  BY <1>1, <1>4, <1>8, <1>9 DEF L

LEMMA VisitingDescend ==
  ASSUME Typed, Rewritten, Visiting, phase = "resolveVarRefs", Descend
  PROVE  Visiting' /\ phase' = phase /\ UNCHANGED <<source, heap, chain>>
<1> DEFINE L == Len(walk)
           f == [cell |-> Current.cell, at |-> 1]
           d == Current.cell
<1>1. PICK F : Visits(walk, heap, F)
  BY DEF Visiting
<1>2. AtEntry /\ Enters(Current)
  BY DescendIs
<1>3. /\ Here.at \in DOMAIN heap[Here.cell].data /\ Here.cell \in DOMAIN source /\ chain = <<>>
      /\ Current = heap[Here.cell].data[Here.at].val
  BY <1>2, CurrentIs
<1>4. /\ Current.type \in Container /\ d \in DOMAIN source
      /\ Current = Pointer(source, d) /\ source[d].type = Current.type
      /\ \/ source[Here.cell].type = "kStruct"
         \/ source[Here.cell].type = "kList" /\ Current.type = "kExpression"
  BY <1>2, EntersIs
<1>5. /\ L \in Nat \ {0} /\ Here = walk[L] /\ walk \in Seq(Frame)
      /\ \A n \in 1 .. L : walk[n].cell \in DOMAIN source
  BY HereIs DEF Typed, Calls
<1>6. Here.at \in DOMAIN source[Here.cell].data /\ source[Here.cell].data[Here.at].val = Current
  BY <1>1, <1>3, HereNotPassed DEF Typed, SameKeys
<1>7. Pointed(Here.cell, Here.at, d) /\ Entered(Here.cell, Here.at)
  BY <1>3, <1>4, <1>6 DEF Pointed, Entered
<1>8. d > Here.cell
  BY <1>3, <1>4, <1>6, PointerIs, ZenonT(30) DEF Typed, Tree
<1>9. \A n \in 1 .. L : walk[n].cell < d
  <2> SUFFICES ASSUME NEW n \in 1 .. L PROVE walk[n].cell < d
    OBVIOUS
  <2>1. (n = L \/ n < L) /\ L \in 1 .. L
    BY <1>5
  <2>2. walk[n].cell \in Nat /\ Here.cell \in Nat /\ d \in Nat
    BY <1>3, <1>4, <1>5, SourceCellIs, ZenonT(30) DEF Typed
  <2>3. n < L => walk[n].cell < walk[L].cell
    BY <1>1, <2>1 DEF Visits
  <2> QED  BY <1>5, <1>8, <2>1, <2>2, <2>3
<1>10. L < MaxDepth
  <2>1. \A n \in DOMAIN source : n \in Nat
    BY SourceCellIs DEF Typed
  <2>2. \A m, n \in 1 .. L : m < n => walk[m].cell # walk[n].cell
    BY <1>1, <1>5, <2>1 DEF Visits
  <2>3. \A n \in 1 .. L : walk[n].cell # d
    BY <1>4, <1>5, <1>9, <2>1
  <2> QED  BY <1>4, <1>5, <2>2, <2>3, DistinctFit DEF Typed
<1>11. walk' = Append(walk, f) /\ UNCHANGED <<source, heap, chain, phase>>
  <2>1. Len(walk) # MaxDepth
    BY <1>5, <1>10, DepthAssumption
  <2> QED  BY <2>1, DescendIs
<1>12. f \in Frame /\ f.cell = d /\ f.at = 1
  BY <1>4 DEF Frame
<1> HIDE DEF f
<1>13. /\ Len(walk') = L + 1 /\ \A n \in 1 .. L : walk'[n] = walk[n]
       /\ walk'[L + 1] = f
  BY <1>11, <1>12, PushIs DEF Typed
<1> DEFINE w == walk'
<1>14. Visits(w, heap, F)
  <2> HIDE DEF L, w, d
  <2>1. \A n \in 1 .. Len(w) : n \in 1 .. L \/ n = L + 1
    BY <1>5, <1>13 DEF w
  <2>2. \A n \in 1 .. L : n \in 1 .. Len(w) /\ w[n] = walk[n]
    BY <1>5, <1>13 DEF w
  <2>3. L + 1 \in 1 .. Len(w) /\ w[L + 1] = f
    BY <1>5, <1>13 DEF w
  <2>4. ASSUME NEW c \in DOMAIN source, NEW i \in DOMAIN source[c].data
        PROVE  Passed(w, F, c, i) <=> Passed(walk, F, c, i)
    <3>1. i \in Nat \ {0}
      BY SourceCellIs DEF Typed
    <3>2. ~(i < f.at)
      BY <1>12, <3>1
    <3> QED  BY <2>1, <2>2, <2>3, <3>2 DEF Passed, L
  <2>5. d \notin F
    <3> SUFFICES ASSUME d \in F PROVE FALSE
      OBVIOUS
    <3>1. PICK c, i : Pointed(c, i, d) /\ Passed(walk, F, c, i)
      BY <1>1 DEF Visits
    <3>2. c = Here.cell /\ i = Here.at
      BY <1>7, <3>1, HolderUnique DEF Pointed, Typed, Tree
    <3> QED  BY <1>1, <3>1, <3>2, HereNotPassed
  <2>6. F \in SUBSET DOMAIN source /\ \A n \in 1 .. Len(w) : w[n].cell \notin F
    BY <1>1, <1>12, <2>1, <2>2, <2>3, <2>5 DEF Visits, L
  <2>7. ASSUME NEW n \in 1 .. (Len(w) - 1)
        PROVE  Pointed(w[n].cell, w[n].at, w[n + 1].cell) /\ Entered(w[n].cell, w[n].at)
    <3>1. n \in 1 .. L /\ (n = L \/ (n \in 1 .. (L - 1) /\ n + 1 \in 1 .. L))
      BY <1>5, <1>13 DEF w
    <3>2. CASE n = L
      BY <1>5, <1>7, <1>12, <2>2, <2>3, <3>1, <3>2
    <3>3. CASE n \in 1 .. (L - 1) /\ n + 1 \in 1 .. L
      BY <1>1, <2>2, <3>1, <3>3 DEF Visits, L
    <3> QED  BY <3>1, <3>2, <3>3
  <2>8. ASSUME NEW m \in 1 .. Len(w), NEW n \in 1 .. Len(w), m < n PROVE w[m].cell < w[n].cell
    <3>1. m \in 1 .. L
      BY <1>5, <2>1, <2>8
    <3>2. CASE n \in 1 .. L
      BY <1>1, <2>2, <2>8, <3>1, <3>2 DEF Visits, L
    <3>3. CASE n = L + 1
      BY <1>9, <1>12, <2>2, <2>3, <3>1, <3>3
    <3> QED  BY <2>1, <3>2, <3>3
  <2>9. \A e \in F : \E c, i : Pointed(c, i, e) /\ Passed(w, F, c, i)
    <3> SUFFICES ASSUME NEW e \in F PROVE \E c, i : Pointed(c, i, e) /\ Passed(w, F, c, i)
      OBVIOUS
    <3>1. PICK c, i : Pointed(c, i, e) /\ Passed(walk, F, c, i)
      BY <1>1 DEF Visits
    <3> QED  BY <2>4, <3>1 DEF Pointed
  <2>10. \A c \in DOMAIN source : \A i \in DOMAIN source[c].data :
       /\ ~Passed(w, F, c, i) => heap[c].data[i].val = source[c].data[i].val
       /\ Passed(w, F, c, i) =>
            /\ heap[c].data[i].val.type # "kValueLookup"
            /\ Entered(c, i) => source[c].data[i].val.cell \in F
    BY <1>1, <2>4 DEF Visits
  <2> QED  BY <2>6, <2>7, <2>8, <2>9, <2>10 DEF Visits
<1>15. Visits(w, heap', F)
  BY <1>11, <1>14
<1>16. (\E G : Visits(walk, heap, G))'
  <2>1. \A G : Visits(w, heap', G) <=> Visits(walk, heap, G)'
    BY <1>11 DEF Visits, Pointed, Entered
  <2> QED  BY <1>15, <2>1
<1> QED  BY <1>11, <1>16 DEF Visiting

LEMMA VisitingPrimed ==
  ASSUME NEW F, Visits(walk', heap', F), source' = source PROVE Visiting'
<1>1. \A c, i, d : Pointed(c, i, d)' <=> Pointed(c, i, d)
  BY DEF Pointed
<1>2. \A c, i : Entered(c, i)' <=> Entered(c, i)
  BY DEF Entered
<1>3. Visits(walk, heap, F)'
  BY <1>1, <1>2, SMTT(30) DEF Visits, Passed
<1>4. (\E G : Visits(walk, heap, G))'
  BY <1>3
<1> QED  BY <1>4 DEF Visiting

(* One entry further, after a change of no other entry.                    *)
LEMMA VisitingAdvance ==
  ASSUME Typed, Visiting, phase = "resolveVarRefs",
         Here.at \in DOMAIN source[Here.cell].data, ~Entered(Here.cell, Here.at),
         heap'[Here.cell].data[Here.at].val.type # "kValueLookup",
         \A c \in DOMAIN source : \A i \in DOMAIN source[c].data :
           c # Here.cell \/ i # Here.at => heap'[c].data[i].val = heap[c].data[i].val,
         walk' = Advance(walk), source' = source
  PROVE  Visiting'
<1> DEFINE L == Len(walk)
           w == walk'
<1>1. PICK F : Visits(walk, heap, F)
  BY DEF Visiting
<1>2. /\ L \in Nat \ {0} /\ Here = walk[L] /\ Here.cell \in DOMAIN source /\ Here.at \in Nat
      /\ \A n \in 1 .. L : walk[n].at \in Nat
  BY HereIs DEF Typed
<1>3. /\ Len(w) = L /\ \A n \in 1 .. (L - 1) : w[n] = walk[n]
      /\ \A n \in 1 .. L : w[n].cell = walk[n].cell
      /\ w[L].at = Here.at + 1
  BY AdvanceIs DEF Typed
<1> HIDE DEF w
<1>4. ASSUME NEW c \in DOMAIN source, NEW i \in DOMAIN source[c].data
      PROVE  Passed(w, F, c, i) <=> Passed(walk, F, c, i) \/ (c = Here.cell /\ i = Here.at)
  <2> HIDE DEF L
  <2>1. i \in Nat
    BY SourceCellIs DEF Typed
  <2>2. L \in 1 .. L /\ \A n \in 1 .. L : n = L \/ n \in 1 .. (L - 1)
    BY <1>2
  <2>3. i < w[L].at <=> (i < walk[L].at \/ i = Here.at)
    BY <1>2, <1>3, <2>1
  <2> QED  BY <1>2, <1>3, <2>2, <2>3 DEF Passed, L
<1>5. F \in SUBSET DOMAIN source /\ \A n \in 1 .. Len(w) : w[n].cell \notin F
  BY <1>1, <1>3 DEF Visits
<1>6. \A n \in 1 .. (Len(w) - 1) : Pointed(w[n].cell, w[n].at, w[n + 1].cell) /\ Entered(w[n].cell, w[n].at)
  <2>1. \A n \in 1 .. (L - 1) : n + 1 \in 1 .. L
    BY <1>2
  <2> QED  BY <1>1, <1>3, <2>1 DEF Visits
<1>7. \A m, n \in 1 .. Len(w) : m < n => w[m].cell < w[n].cell
  BY <1>1, <1>3 DEF Visits
<1>8. \A d \in F : \E c, i : Pointed(c, i, d) /\ Passed(w, F, c, i)
  <2> SUFFICES ASSUME NEW d \in F PROVE \E c, i : Pointed(c, i, d) /\ Passed(w, F, c, i)
    OBVIOUS
  <2>1. PICK c, i : Pointed(c, i, d) /\ Passed(walk, F, c, i)
    BY <1>1 DEF Visits
  <2> QED  BY <1>4, <2>1 DEF Pointed
<1>9. \A c \in DOMAIN source : \A i \in DOMAIN source[c].data :
       /\ ~Passed(w, F, c, i) => heap'[c].data[i].val = source[c].data[i].val
       /\ Passed(w, F, c, i) =>
            /\ heap'[c].data[i].val.type # "kValueLookup"
            /\ Entered(c, i) => source[c].data[i].val.cell \in F
  BY <1>1, <1>4 DEF Visits
<1>10. Visits(w, heap', F)
  BY <1>5, <1>6, <1>7, <1>8, <1>9 DEF Visits
<1> QED  BY <1>10, VisitingPrimed DEF w

LEMMA VisitingSkip ==
  ASSUME Typed, Visiting, phase = "resolveVarRefs", Skip PROVE Visiting'
<1>1. AtEntry /\ ~Enters(Current) /\ Current.type # "kValueLookup"
      /\ walk' = Advance(walk) /\ UNCHANGED <<source, heap, chain, phase>>
  BY DEF Skip
<1>2. /\ Here.at \in DOMAIN heap[Here.cell].data /\ Here.cell \in DOMAIN source
      /\ Current = heap[Here.cell].data[Here.at].val /\ Cell.type = source[Here.cell].type
  BY <1>1, CurrentIs DEF Typed, Tree
<1>3. Here.at \in DOMAIN source[Here.cell].data /\ source[Here.cell].data[Here.at].val = Current
  <2>1. PICK F : Visits(walk, heap, F)
    BY DEF Visiting
  <2> QED  BY <1>2, <2>1, HereNotPassed DEF Typed, SameKeys
<1>4. ~Entered(Here.cell, Here.at)
  BY <1>1, <1>2, <1>3 DEF Entered, Enters
<1> QED  BY <1>1, <1>2, <1>3, <1>4, VisitingAdvance

LEMMA VisitingReplace ==
  ASSUME Typed, Visiting, phase = "resolveVarRefs", NEW v, Written(v), v.type # "kValueLookup",
         Here.at \in DOMAIN Cell.data, Current.type = "kValueLookup",
         walk' = Advance(walk), source' = source
  PROVE  Visiting'
<1>1. Here.cell \in DOMAIN source /\ Cell = heap[Here.cell] /\ Current = heap[Here.cell].data[Here.at].val
  BY HereIs DEF Cell, Current, Typed
<1>2. \A c \in DOMAIN source : DOMAIN heap[c].data = DOMAIN source[c].data
  BY DEF Typed, SameKeys
<1>3. Here.at \in DOMAIN source[Here.cell].data /\ source[Here.cell].data[Here.at].val = Current
  <2>1. PICK F : Visits(walk, heap, F)
    BY DEF Visiting
  <2> QED  BY <1>1, <1>2, <2>1, HereNotPassed
<1>4. ~Entered(Here.cell, Here.at)
  BY <1>3 DEF Entered, Container
<1>5. /\ heap'[Here.cell].data[Here.at].val = v
      /\ \A c \in DOMAIN source : \A i \in DOMAIN source[c].data :
           c # Here.cell \/ i # Here.at => heap'[c].data[i].val = heap[c].data[i].val
  BY <1>1, <1>2, <1>3 DEF Written
<1> QED  BY <1>3, <1>4, <1>5, VisitingAdvance

(* The struct, list or expression the walk was in is finished, and the     *)
(* entry it came from passed.                                              *)
LEMMA VisitingReturn ==
  ASSUME Typed, Visiting, phase = "resolveVarRefs", Return, Len(walk) > 1 PROVE Visiting'
<1> DEFINE L == Len(walk)
           w == walk'
           b == walk[L - 1].cell
           j == walk[L - 1].at
<1>1. PICK F : Visits(walk, heap, F)
  BY DEF Visiting
<1> DEFINE G == F \cup {Here.cell}
<1>2. heap' = heap /\ walk' = Advance(Front(walk)) /\ source' = source
  BY ReturnIs
<1>3. /\ L \in Nat \ {0} /\ L - 1 \in Nat \ {0} /\ Here = walk[L] /\ Here.cell \in DOMAIN source
      /\ \A n \in 1 .. L : walk[n].at \in Nat /\ walk[n].cell \in Nat
  BY HereIs, SourceCellIs DEF Typed
<1>4. /\ Len(w) = L - 1 /\ \A n \in 1 .. (L - 2) : w[n] = walk[n]
      /\ \A n \in 1 .. (L - 1) : w[n].cell = walk[n].cell
      /\ w[L - 1].at = j + 1
  BY <1>2, PopIs DEF Typed
<1> HIDE DEF w
<1>5. Here.at > Len(heap[Here.cell].data)
  BY DEF Return, Cell
<1>6. \A i \in DOMAIN source[Here.cell].data : i < Here.at
  <2>1. DOMAIN heap[Here.cell].data = DOMAIN source[Here.cell].data
    BY <1>3 DEF Typed, SameKeys
  <2>2. DOMAIN heap[Here.cell].data = 1 .. Len(heap[Here.cell].data)
        /\ Len(heap[Here.cell].data) \in Nat /\ Here.at \in Nat
    BY <1>3, CellIs, HereIs DEF Typed
  <2> QED  BY <1>5, <2>1, <2>2
<1>7. /\ 1 \in 1 .. L /\ L \in 1 .. L /\ L - 1 \in 1 .. (L - 1) /\ L - 1 \in 1 .. L
      /\ \A n \in 1 .. (L - 1) : n \in 1 .. L /\ n < L /\ (n = L - 1 \/ n \in 1 .. (L - 2))
      /\ \A n \in 1 .. L : n = L \/ n = L - 1 \/ n \in 1 .. (L - 2)
      /\ \A n \in 1 .. (L - 2) : n \in 1 .. (L - 1) /\ n + 1 \in 1 .. (L - 1)
      /\ (L - 1) + 1 = L
  BY <1>3
<1>8. ASSUME NEW c \in DOMAIN source, NEW i \in DOMAIN source[c].data
      PROVE  Passed(w, G, c, i) <=> Passed(walk, F, c, i) \/ (c = b /\ i = j)
  <2>1. i \in Nat /\ j \in Nat
    <3>1. i \in Nat
      BY SourceCellIs DEF Typed
    <3>2. j \in Nat
      BY <1>3, <1>7, ZenonT(30)
    <3> QED  BY <3>1, <3>2
  <2>2. i < w[L - 1].at <=> (i < j \/ i = j)
    BY <1>4, <2>1
  <2>3. c = Here.cell => i < walk[L].at
    BY <1>3, <1>6
  <2> HIDE DEF L, b, j
  <2>4. Passed(w, G, c, i) <=> \/ c \in F \/ c = Here.cell
                               \/ \E n \in 1 .. (L - 2) : walk[n].cell = c /\ i < walk[n].at
                               \/ (b = c /\ (i < j \/ i = j))
    BY <1>4, <1>7, <2>2, ZenonT(30) DEF Passed, b, j
  <2>5. Passed(walk, F, c, i) <=> \/ c \in F \/ (walk[L].cell = c /\ i < walk[L].at)
                                  \/ \E n \in 1 .. (L - 2) : walk[n].cell = c /\ i < walk[n].at
                                  \/ (b = c /\ i < j)
    BY <1>7, ZenonT(30) DEF Passed, b, j, L
  <2> QED  BY <1>3, <2>3, <2>4, <2>5
<1>9. Pointed(b, j, Here.cell) /\ Entered(b, j)
  BY <1>1, <1>3, <1>7, ZenonT(30) DEF Visits
<1>10. G \in SUBSET DOMAIN source /\ \A n \in 1 .. Len(w) : w[n].cell \notin G
  <2>1. \A n \in 1 .. (L - 1) : walk[n].cell < walk[L].cell /\ walk[n].cell \notin F
    BY <1>1, <1>7, ZenonT(30) DEF Visits
  <2>2. ASSUME NEW n \in 1 .. (L - 1) PROVE walk[n].cell # Here.cell
    <3>1. walk[n].cell \in Nat /\ walk[L].cell \in Nat
      BY <1>3, <1>7, ZenonT(30)
    <3>2. walk[n].cell < walk[L].cell
      BY <2>1
    <3> QED  BY <1>3, <3>1, <3>2
  <2> QED  BY <1>1, <1>3, <1>4, <2>1, <2>2, ZenonT(30) DEF Visits
<1>11. \A n \in 1 .. (Len(w) - 1) : Pointed(w[n].cell, w[n].at, w[n + 1].cell) /\ Entered(w[n].cell, w[n].at)
  <2>1. Len(w) - 1 = L - 2
    BY <1>3, <1>4
  <2> HIDE DEF L, b, j
  <2> SUFFICES ASSUME NEW n \in 1 .. (L - 2)
               PROVE  Pointed(w[n].cell, w[n].at, w[n + 1].cell) /\ Entered(w[n].cell, w[n].at)
    BY <2>1
  <2>2. w[n] = walk[n] /\ w[n + 1].cell = walk[n + 1].cell
    BY <1>4, <1>7
  <2> QED  BY <1>1, <1>7, <2>2, ZenonT(30) DEF Visits, L
<1>12. \A m, n \in 1 .. Len(w) : m < n => w[m].cell < w[n].cell
  BY <1>1, <1>4, <1>7 DEF Visits
<1>13. \A d \in G : \E c, i : Pointed(c, i, d) /\ Passed(w, G, c, i)
  <2> SUFFICES ASSUME NEW d \in G PROVE \E c, i : Pointed(c, i, d) /\ Passed(w, G, c, i)
    OBVIOUS
  <2>1. CASE d \in F
    <3>1. PICK c, i : Pointed(c, i, d) /\ Passed(walk, F, c, i)
      BY <1>1, <2>1 DEF Visits
    <3> QED  BY <1>8, <3>1 DEF Pointed
  <2>2. CASE d = Here.cell
    BY <1>8, <1>9, <2>2 DEF Pointed
  <2> QED  BY <2>1, <2>2
<1>14. ASSUME NEW c \in DOMAIN source, NEW i \in DOMAIN source[c].data
       PROVE  /\ ~Passed(w, G, c, i) => heap[c].data[i].val = source[c].data[i].val
              /\ Passed(w, G, c, i) =>
                   /\ heap[c].data[i].val.type # "kValueLookup"
                   /\ Entered(c, i) => source[c].data[i].val.cell \in G
  <2>1. CASE Passed(walk, F, c, i)
    BY <1>1, <1>8, <2>1 DEF Visits
  <2>2. CASE ~Passed(walk, F, c, i)
    <3>1. heap[c].data[i].val = source[c].data[i].val
      BY <1>1, <2>2 DEF Visits
    <3>2. c = b /\ i = j => heap[c].data[i].val.type # "kValueLookup" /\ source[c].data[i].val.cell \in G
      BY <1>9, <3>1 DEF Pointed, Container
    <3> QED  BY <1>8, <2>2, <3>1, <3>2
  <2> QED  BY <2>1, <2>2
<1>15. Visits(w, heap, G)
  BY <1>10, <1>11, <1>12, <1>13, <1>14 DEF Visits
<1>16. Visits(walk', heap', G)
  BY <1>2, <1>15 DEF w
<1> QED  BY <1>2, <1>16, VisitingPrimed

(* Whoever goes from the root to all that structs hold gets everywhere.    *)
LEMMA StructsReached ==
  ASSUME source \in Sources, NEW D, Root \in D,
         \A c \in Cells(source, "kStruct") \cap D : \A i \in DOMAIN source[c].data :
           source[c].data[i].val.type \in {"kStruct", "kList"} => source[c].data[i].val.cell \in D
  PROVE  Cells(source, "kStruct") \cup ListsOfKeys \subseteq D
<1> DEFINE T == {c \in Cells(source, "kStruct") : c \notin D}
<1>1. DOMAIN source \subseteq Nat
  BY SourceIs
<1>2. ASSUME T # {} PROVE FALSE
  <2>1. PICK c \in T : \A d \in T : c <= d
    BY <1>1, <1>2, LeastNumber DEF Cells
  <2>2. c \in DOMAIN source /\ source[c].type = "kStruct" /\ c # Root
    BY <2>1 DEF Cells
  <2> PICK b \in DOMAIN source : \E i \in DOMAIN source[b].data :
         source[b].data[i].val.type \in Container /\ source[b].data[i].val.cell = c
    BY <2>2, HolderExists
  <2>3. PICK i \in DOMAIN source[b].data :
          source[b].data[i].val.type \in Container /\ source[b].data[i].val.cell = c
    OBVIOUS
  <2>4. c > b /\ source[b].data[i].val.type = "kStruct"
    BY <2>2, <2>3, PointerIs
  <2>5. source[b].type = "kStruct"
    <3>1. source[b].type \in Container
      <4>1. source[b] \in CellOf(source)
        BY SourceIs
      <4> QED  BY <4>1 DEF CellOf
    <3>2. source[b].type # "kList"
      BY <2>4, ElementIs DEF Scalar
    <3>3. source[b].type # "kExpression"
      BY <2>4, OperandIs
    <3> QED  BY <3>1, <3>2, <3>3 DEF Container
  <2>6. b \in D
    BY <1>1, <2>1, <2>2, <2>4, <2>5 DEF Cells
  <2>7. c \in D
    BY <2>3, <2>4, <2>5, <2>6 DEF Cells
  <2> QED  BY <2>1, <2>7
<1>3. ASSUME NEW c \in ListsOfKeys PROVE c \in D
  <2>1. PICK s \in Cells(source, "kStruct") : \E i \in DOMAIN source[s].data : source[s].data[i].val = Pointer(source, c)
    BY DEF ListsOfKeys
  <2>2. PICK i \in DOMAIN source[s].data : source[s].data[i].val = Pointer(source, c)
    BY <2>1
  <2>3. source[c].type = "kList"
    BY DEF ListsOfKeys, Cells
  <2>4. source[s].data[i].val.type = "kList" /\ source[s].data[i].val.cell = c
    BY <2>2, <2>3 DEF Pointer, Value
  <2> QED  BY <1>2, <2>4
<1> QED  BY <1>2, <1>3

LEMMA VisitingStep == ASSUME Typed, Rewritten, Visiting, [Next]_vars PROVE Visiting'
<1> SUFFICES ASSUME phase' = "resolveVarRefs" PROVE Visiting'
  BY DEF Visiting
<1>1. phase = "resolveVarRefs"
  <2>1. CASE Descend
    BY <2>1, DescendIs DEF Fail
  <2>2. CASE Return
    BY <2>2, ReturnIs DEF Walking
  <2>3. CASE Skip \/ BeginChain \/ Finished \/ UNCHANGED vars
    BY <2>3 DEF Skip, BeginChain, Finished, vars
  <2>4. CASE Follow \/ EndInStruct \/ EndInList \/ EndInExpression
    BY <2>4 DEF Follow, EndInStruct, EndInList, EndInExpression, AtEndOfChain
  <2>5. CASE Evaluate
    BY <2>5, EvaluateIs, FailIs
  <2> QED  BY <2>1, <2>2, <2>3, <2>4, <2>5 DEF Next
<1>2. CASE Descend
  BY <1>1, <1>2, VisitingDescend
<1>3. CASE Skip
  BY <1>1, <1>3, VisitingSkip
<1>4. CASE Return
  <2>1. Len(walk) > 1
    BY <1>1, <1>4, ReturnIs
  <2> QED  BY <1>1, <1>4, <2>1, VisitingReturn
<1>5. CASE UNCHANGED <<source, heap, walk>>
  <2>1. PICK F : Visits(walk, heap, F)
    BY <1>1 DEF Visiting
  <2>2. Visits(walk', heap', F)
    BY <1>5, <2>1
  <2> QED  BY <1>5, <2>2, VisitingPrimed
<1>6. CASE BeginChain \/ Follow \/ Finished \/ UNCHANGED vars
  <2>1. Follow => UNCHANGED <<source, heap, walk>>
    BY <1>1, FollowIs DEF Fail
  <2> QED  BY <1>5, <1>6, <2>1 DEF BeginChain, Finished, vars
<1>7. CASE EndInStruct
  <2>1. AtEndOfChain("kStruct")
    BY <1>7 DEF EndInStruct
  <2>2. chain[1].val.type # "kValueLookup" /\ Here.at \in DOMAIN Cell.data /\ Current.type = "kValueLookup"
    BY <2>1, EndOfChainIs DEF AtEndOfChain
  <2> QED  BY <1>1, <1>7, <2>2, EndInStructIs, VisitingReplace
<1>8. CASE EndInList
  <2>1. AtEndOfChain("kList")
    BY <1>8 DEF EndInList
  <2>2. chain[1].val.type # "kValueLookup" /\ Here.at \in DOMAIN Cell.data /\ Current.type = "kValueLookup"
    BY <2>1, EndOfChainIs DEF AtEndOfChain
  <2> QED  BY <1>1, <1>8, <2>2, EndInListIs, VisitingReplace
<1>9. CASE EndInExpression
  <2>1. AtEndOfChain("kExpression")
    BY <1>9 DEF EndInExpression
  <2>2. Here.at \in DOMAIN Cell.data /\ Current.type = "kValueLookup"
    BY <2>1, EndOfChainIs
  <2> DEFINE v == OperandOf(chain[1].val)
  <2>3. /\ Written(v) /\ walk' = Advance(walk) /\ UNCHANGED <<source, phase>> /\ v.type = "kNumber"
    BY <1>9, EndInExpressionIs
  <2> HIDE DEF v
  <2> QED  BY <1>1, <2>2, <2>3, VisitingReplace
<1>10. ~Evaluate
  BY <1>1 DEF Evaluate
<1> QED  BY <1>2, <1>3, <1>4, <1>6, <1>7, <1>8, <1>9, <1>10 DEF Next

-----------------------------------------------------------------------------
(* resolveVarRefs leaves no lookup in what the walks of evaluateExpressions *)
(* look at: structs, the lists and expressions that are values of keys, and *)
(* the expressions in these lists.                                          *)
Holders == Cells(source, "kStruct") \cup ListsOfKeys
LookupsGone ==
  \A c \in Holders \cup ExpressionsOfKeys : \A i \in DOMAIN heap[c].data :
    heap[c].data[i].val.type # "kValueLookup"
Resolved == phase \in {"evaluateExpressions", "cleanupConfig", "done"} => LookupsGone

LEMMA HoldersAre ==
  /\ \A c \in Holders : c \in DOMAIN source /\ source[c].type \in {"kStruct", "kList"}
  /\ \A c \in ExpressionsOfKeys : c \in DOMAIN source /\ source[c].type = "kExpression"
BY DEF Holders, ListsOfKeys, ExpressionsOfKeys, Cells

LEMMA LookupsGoneAtEnd ==
  ASSUME Typed, Rewritten, Visiting, phase = "resolveVarRefs", Len(walk) = 1,
         Here.at > Len(Cell.data)
  PROVE  LookupsGone
<1>1. PICK F : Visits(walk, heap, F)
  BY DEF Visiting
<1> DEFINE D == F \cup {Root}
<1>2. Here = walk[1] /\ Here.cell = Root /\ source \in Sources /\ Root \in DOMAIN source
  BY HereIs, SourceIs DEF Typed, Calls, Tree
<1>3. \A c \in DOMAIN source : DOMAIN heap[c].data = DOMAIN source[c].data
  BY DEF Typed, SameKeys
<1>4. ASSUME NEW c \in DOMAIN source, c \in D, NEW i \in DOMAIN source[c].data
      PROVE  /\ heap[c].data[i].val.type # "kValueLookup"
             /\ Entered(c, i) => source[c].data[i].val.cell \in D
  <2>1. Passed(walk, F, c, i)
    <3>1. CASE c \in F
      BY <3>1 DEF Passed
    <3>2. CASE c = Root
      <4>1. DOMAIN heap[c].data = 1 .. Len(heap[c].data) /\ Len(heap[c].data) \in Nat
            /\ Here.at \in Nat
        BY CellIs, HereIs DEF Typed
      <4>2. i < Here.at
        BY <1>2, <1>3, <3>2, <4>1 DEF Cell
      <4>3. 1 \in 1 .. Len(walk)
        OBVIOUS
      <4> QED  BY <1>2, <3>2, <4>2, <4>3 DEF Passed
    <3> QED  BY <1>4, <3>1, <3>2
  <2> QED  BY <1>1, <2>1 DEF Visits
<1>5. Holders \subseteq D
  <2>1. \A c \in Cells(source, "kStruct") \cap D : \A i \in DOMAIN source[c].data :
          source[c].data[i].val.type \in {"kStruct", "kList"} => source[c].data[i].val.cell \in D
    BY <1>4 DEF Cells, Entered, Container
  <2> HIDE DEF D
  <2>2. Root \in D
    BY DEF D
  <2> QED  BY <1>2, <2>1, <2>2, StructsReached DEF Holders
<1>6. ExpressionsOfKeys \subseteq D
  <2> SUFFICES ASSUME NEW c \in ExpressionsOfKeys PROVE c \in D
    OBVIOUS
  <2>1. PICK b \in Holders : \E i \in DOMAIN source[b].data : source[b].data[i].val = Pointer(source, c)
    BY DEF ExpressionsOfKeys, Holders
  <2>2. PICK i \in DOMAIN source[b].data : source[b].data[i].val = Pointer(source, c)
    BY <2>1
  <2>3. source[c].type = "kExpression" /\ b \in DOMAIN source /\ b \in D
    BY <1>5, HoldersAre
  <2>4. source[b].data[i].val.type = "kExpression" /\ source[b].data[i].val.cell = c
    BY <2>2, <2>3 DEF Pointer, Value
  <2>5. Entered(b, i)
    BY <2>4 DEF Entered, Container
  <2> QED  BY <1>4, <2>3, <2>4, <2>5
<1> QED  BY <1>3, <1>4, <1>5, <1>6, HoldersAre DEF LookupsGone

-----------------------------------------------------------------------------
(* evaluateExpressions walks the tree that resolveVarRefs has left, in     *)
(* which a struct or list may have several holders, and enters it from     *)
(* each of them.  F are the cells it has been through: what it has passed  *)
(* is no expression any more.                                              *)
Computes(w, h, F) ==
  /\ \A n \in 1 .. Len(w) : w[n].cell \in Holders
  /\ \A n \in 1 .. (Len(w) - 1) :
       /\ source[w[n].cell].type = "kStruct" /\ w[n].at \in DOMAIN source[w[n].cell].data
       /\ h[w[n].cell].data[w[n].at].val = Pointer(source, w[n + 1].cell)
  /\ \A c \in Holders : \A i \in DOMAIN source[c].data : Passed(w, F, c, i) =>
       /\ h[c].data[i].val.type # "kExpression"
       /\ source[c].type = "kStruct" /\ h[c].data[i].val.type \in {"kStruct", "kList"} =>
            h[c].data[i].val.cell \in F

Computing == phase = "evaluateExpressions" => \E F : Computes(walk, heap, F)

LEMMA ComputingPrimed ==
  ASSUME NEW F, Computes(walk', heap', F), source' = source PROVE Computing'
<1>1. Holders' = Holders
  BY KeysSame DEF Holders
<1>2. Computes(walk', heap', F) <=> Computes(walk, heap, F)'
  BY <1>1 DEF Computes, Pointer, Passed
<1>3. (\E G : Computes(walk, heap, G))'
  BY <1>2
<1> QED  BY <1>3 DEF Computing

LEMMA RootHolds == ASSUME Tree PROVE Root \in Holders /\ Root \in Cells(source, "kStruct")
BY RootIs, SourceIs DEF Tree, Holders, Cells

LEMMA WalkStarts ==
  ASSUME walk' = <<[cell |-> Root, at |-> 1]>>
  PROVE  Len(walk') = 1 /\ walk'[1].cell = Root /\ walk'[1].at = 1
OBVIOUS

LEMMA ComputingBegins ==
  ASSUME Typed, walk' = <<[cell |-> Root, at |-> 1]>>, source' = source
  PROVE  Computing'
<1> DEFINE w == walk'
<1>1. Len(w) = 1 /\ w[1].cell = Root /\ w[1].at = 1
  BY WalkStarts
<1> HIDE DEF w
<1>2. ASSUME NEW c \in DOMAIN source, NEW i \in DOMAIN source[c].data PROVE ~Passed(w, {}, c, i)
  <2>1. i \in Nat \ {0}
    BY SourceCellIs DEF Typed
  <2> QED  BY <1>1, <2>1 DEF Passed
<1>3. Computes(w, heap', {})
  <2>1. \A n \in 1 .. Len(w) : w[n].cell \in Holders
    BY <1>1, RootHolds DEF Typed
  <2>2. \A n \in 1 .. (Len(w) - 1) : FALSE
    BY <1>1
  <2> QED  BY <1>2, <2>1, <2>2, HoldersAre DEF Computes
<1> QED  BY <1>3, ComputingPrimed DEF w

LEMMA HolderHeld ==
  ASSUME Typed, Rewritten, NEW c \in Holders, NEW i \in DOMAIN heap[c].data,
         heap[c].data[i].val.type \in {"kStruct", "kList"}, source[c].type = "kStruct"
  PROVE  LET d == heap[c].data[i].val.cell
         IN  d \in Holders /\ heap[c].data[i].val = Pointer(source, d)
<1> DEFINE v == heap[c].data[i].val
<1>1. c \in Cells(source, "kStruct")
  BY HoldersAre DEF Cells
<1>2. OfKeys(v)
  BY <1>1 DEF Rewritten, AllOfKeys
<1>3. Leads(v)
  BY HoldersAre DEF Typed, Tree
<1>4. v.cell \in DOMAIN source /\ v = Pointer(source, v.cell)
  BY <1>3 DEF Leads, Container
<1>5. Pointer(source, v.cell).type = source[v.cell].type
  BY DEF Pointer, Value
<1>6. v.cell \in Holders
  BY <1>2, <1>4, <1>5 DEF OfKeys, Holders, Cells
<1> QED  BY <1>4, <1>6

LEMMA ComputingDescend ==
  ASSUME Typed, Rewritten, Computing, phase = "evaluateExpressions", Descend, Len(walk) # MaxDepth
  PROVE  Computing'
<1> DEFINE L == Len(walk)
           f == [cell |-> Current.cell, at |-> 1]
           d == Current.cell
           w == walk'
<1>1. PICK F : Computes(walk, heap, F)
  BY DEF Computing
<1>2. AtEntry /\ Enters(Current) /\ walk' = Append(walk, f) /\ UNCHANGED <<source, heap, chain, phase>>
  BY DescendIs
<1>3. /\ Here.at \in DOMAIN heap[Here.cell].data /\ Here.cell \in DOMAIN source
      /\ Current = heap[Here.cell].data[Here.at].val /\ Cell.type = source[Here.cell].type
  BY <1>2, CurrentIs DEF Typed, Tree
<1>4. source[Here.cell].type = "kStruct" /\ Current.type \in {"kStruct", "kList"}
  BY <1>2, <1>3 DEF Enters
<1>5. L \in Nat \ {0} /\ Here = walk[L] /\ L \in 1 .. L
  BY HereIs DEF Typed
<1>6. Here.cell \in Holders
  BY <1>1, <1>5 DEF Computes
<1>7. d \in Holders /\ Current = Pointer(source, d)
  BY <1>3, <1>4, <1>6, HolderHeld
<1>8. f \in Frame /\ f.cell = d /\ f.at = 1
  BY <1>7, HoldersAre DEF Frame
<1> HIDE DEF f
<1>9. /\ Len(w) = L + 1 /\ \A n \in 1 .. L : w[n] = walk[n]
      /\ w[L + 1] = f
  BY <1>2, <1>8, PushIs DEF Typed
<1> HIDE DEF L, w, d
<1>10. /\ \A n \in 1 .. Len(w) : n \in 1 .. L \/ n = L + 1
       /\ \A n \in 1 .. L : n \in 1 .. Len(w) /\ w[n] = walk[n]
       /\ L + 1 \in 1 .. Len(w)
       /\ \A n \in 1 .. (Len(w) - 1) : n \in 1 .. L /\ (n = L \/ (n \in 1 .. (L - 1) /\ n + 1 \in 1 .. L))
  BY <1>5, <1>9
<1>11. \A n \in 1 .. Len(w) : w[n].cell \in Holders
  BY <1>1, <1>7, <1>8, <1>9, <1>10 DEF Computes, L
<1>12. ASSUME NEW n \in 1 .. (Len(w) - 1)
       PROVE  /\ source[w[n].cell].type = "kStruct" /\ w[n].at \in DOMAIN source[w[n].cell].data
              /\ heap[w[n].cell].data[w[n].at].val = Pointer(source, w[n + 1].cell)
  <2>1. CASE n = L
    <3>1. w[n] = Here /\ w[n + 1].cell = d
      BY <1>5, <1>8, <1>9, <1>10, <2>1
    <3>2. Here.at \in DOMAIN source[Here.cell].data
      BY <1>3 DEF Rewritten, ContainersLeft
    <3> QED  BY <1>3, <1>4, <1>7, <3>1, <3>2
  <2>2. CASE n \in 1 .. (L - 1) /\ n + 1 \in 1 .. L
    BY <1>1, <1>10, <2>2 DEF Computes, L
  <2> QED  BY <1>10, <2>1, <2>2
<1>13. ASSUME NEW c \in Holders, NEW i \in DOMAIN source[c].data
       PROVE  Passed(w, F, c, i) <=> Passed(walk, F, c, i)
  <2>1. i \in Nat \ {0}
    BY HoldersAre, SourceCellIs DEF Typed
  <2>2. ~(i < f.at)
    BY <1>8, <2>1
  <2> QED  BY <1>9, <1>10, <2>2 DEF Passed, L
<1>14. Computes(w, heap, F)
  BY <1>1, <1>11, <1>12, <1>13 DEF Computes
<1>15. Computes(walk', heap', F)
  BY <1>2, <1>14 DEF w
<1> QED  BY <1>2, <1>15, ComputingPrimed

(* One entry further, after the evaluation of it or of nothing.            *)
LEMMA ComputingAdvance ==
  ASSUME Typed, Rewritten, NEW F, Computes(walk, heap, F), phase = "evaluateExpressions",
         walk' = Advance(walk), source' = source, Here.at \in DOMAIN heap[Here.cell].data,
         heap'[Here.cell].data[Here.at].val.type # "kExpression",
         source[Here.cell].type = "kStruct" /\ heap'[Here.cell].data[Here.at].val.type \in {"kStruct", "kList"}
           => heap'[Here.cell].data[Here.at].val.cell \in F,
         \A c \in DOMAIN source : \A i \in DOMAIN source[c].data :
           \/ heap'[c].data[i].val = heap[c].data[i].val
           \/ c = Here.cell /\ i = Here.at /\ heap[c].data[i].val.type = "kExpression"
  PROVE  Computing'
<1> DEFINE L == Len(walk)
           w == walk'
<1>1. /\ L \in Nat \ {0} /\ Here = walk[L] /\ Here.cell \in DOMAIN source /\ Here.at \in Nat
      /\ \A n \in 1 .. L : walk[n].at \in Nat
  BY HereIs DEF Typed
<1>2. /\ Len(w) = L /\ \A n \in 1 .. (L - 1) : w[n] = walk[n]
      /\ \A n \in 1 .. L : w[n].cell = walk[n].cell
      /\ w[L].at = Here.at + 1
  BY AdvanceIs DEF Typed
<1> HIDE DEF w
<1>3. ASSUME NEW c \in DOMAIN source, NEW i \in DOMAIN source[c].data
      PROVE  Passed(w, F, c, i) <=> Passed(walk, F, c, i) \/ (c = Here.cell /\ i = Here.at)
  <2> HIDE DEF L
  <2>1. i \in Nat /\ L \in Nat \ {0} /\ Here.at \in Nat
    BY <1>1, SourceCellIs DEF Typed
  <2>2. L \in 1 .. L /\ \A n \in 1 .. L : n = L \/ n \in 1 .. (L - 1)
    BY <2>1
  <2>3. i < Here.at + 1 <=> (i < Here.at \/ i = Here.at)
    BY <2>1, LessThanNext
  <2>4. i < w[L].at <=> (i < walk[L].at \/ i = Here.at)
    BY <1>1, <1>2, <2>3
  <2> QED  BY <1>1, <1>2, <2>2, <2>4 DEF Passed, L
<1>4. \A n \in 1 .. Len(w) : w[n].cell \in Holders
  BY <1>2 DEF Computes
<1>5. ASSUME NEW n \in 1 .. (Len(w) - 1)
      PROVE  /\ source[w[n].cell].type = "kStruct" /\ w[n].at \in DOMAIN source[w[n].cell].data
             /\ heap'[w[n].cell].data[w[n].at].val = Pointer(source, w[n + 1].cell)
  <2>0. L \in Nat \ {0} /\ n \in 1 .. (L - 1)
    BY <1>1, <1>2
  <2>1. n \in 1 .. (L - 1) /\ n \in 1 .. L /\ n + 1 \in 1 .. L
    <3> HIDE DEF L
    <3> QED  BY <2>0
  <2>2. w[n] = walk[n] /\ w[n + 1].cell = walk[n + 1].cell
    BY <1>2, <2>1
  <2>3. /\ source[w[n].cell].type = "kStruct" /\ w[n].at \in DOMAIN source[w[n].cell].data
        /\ heap[w[n].cell].data[w[n].at].val = Pointer(source, w[n + 1].cell)
        /\ w[n].cell \in Holders /\ w[n + 1].cell \in Holders
    BY <2>1, <2>2 DEF Computes
  <2>4. Pointer(source, w[n + 1].cell).type # "kExpression"
    BY <2>3, HoldersAre DEF Pointer, Value
  <2>5. w[n].cell \in DOMAIN source
    BY <2>3, HoldersAre
  <2> QED  BY <2>3, <2>4, <2>5
<1>6. ASSUME NEW c \in Holders, NEW i \in DOMAIN source[c].data, Passed(w, F, c, i)
      PROVE  /\ heap'[c].data[i].val.type # "kExpression"
             /\ source[c].type = "kStruct" /\ heap'[c].data[i].val.type \in {"kStruct", "kList"} =>
                  heap'[c].data[i].val.cell \in F
  <2>1. c \in DOMAIN source
    BY HoldersAre
  <2>2. CASE c = Here.cell /\ i = Here.at
    BY <2>2
  <2>3. CASE ~(c = Here.cell /\ i = Here.at)
    <3>1. Passed(walk, F, c, i) /\ heap'[c].data[i].val = heap[c].data[i].val
      BY <1>3, <1>6, <2>1, <2>3
    <3> QED  BY <3>1 DEF Computes
  <2> QED  BY <2>2, <2>3
<1>7. Computes(w, heap', F)
  BY <1>4, <1>5, <1>6 DEF Computes
<1> QED  BY <1>7, ComputingPrimed DEF w

LEMMA ComputingSkip ==
  ASSUME Typed, Rewritten, Computing, phase = "evaluateExpressions", Skip PROVE Computing'
<1>1. AtEntry /\ ~Enters(Current) /\ Current.type # "kExpression"
      /\ walk' = Advance(walk) /\ UNCHANGED <<source, heap, chain, phase>>
  BY DEF Skip
<1>2. /\ Here.at \in DOMAIN heap[Here.cell].data /\ Here.cell \in DOMAIN source
      /\ Current = heap[Here.cell].data[Here.at].val /\ Cell.type = source[Here.cell].type
  BY <1>1, CurrentIs DEF Typed, Tree
<1>3. ~(source[Here.cell].type = "kStruct" /\ Current.type \in {"kStruct", "kList"})
  BY <1>1, <1>2 DEF Enters
<1>4. PICK F : Computes(walk, heap, F)
  BY DEF Computing
<1> QED  BY <1>1, <1>2, <1>3, <1>4, ComputingAdvance, ZenonT(30)

LEMMA ComputingEvaluate ==
  ASSUME Typed, Rewritten, Computing, Evaluate, phase' # "InvalidTypeException" PROVE Computing'
<1> DEFINE v == evaluateExpression(Current.cell)
<1>1. /\ AtEntry /\ phase = "evaluateExpressions" /\ Current.type = "kExpression"
      /\ v.type = "kNumber" /\ Written(v) /\ walk' = Advance(walk) /\ source' = source
  BY EvaluateIs
<1> HIDE DEF v
<1>2. /\ Here.at \in DOMAIN heap[Here.cell].data /\ Here.cell \in DOMAIN source
      /\ Current = heap[Here.cell].data[Here.at].val
  BY <1>1, CurrentIs
<1>3. PICK F : Computes(walk, heap, F)
  BY <1>1 DEF Computing
<1>4. \A c \in DOMAIN source : DOMAIN heap[c].data = DOMAIN source[c].data
  BY <1>1 DEF Rewritten, ContainersLeft
<1>5. heap'[Here.cell].data[Here.at].val = v
  BY <1>1, <1>2 DEF Written
<1>6. \A c \in DOMAIN source : \A i \in DOMAIN source[c].data :
           \/ heap'[c].data[i].val = heap[c].data[i].val
           \/ c = Here.cell /\ i = Here.at /\ heap[c].data[i].val.type = "kExpression"
  BY <1>1, <1>2, <1>4 DEF Written
<1> QED  BY <1>1, <1>2, <1>3, <1>5, <1>6, ComputingAdvance

LEMMA ComputingReturn ==
  ASSUME Typed, Rewritten, Computing, phase = "evaluateExpressions", Return, Len(walk) > 1
  PROVE  Computing'
<1> DEFINE L == Len(walk)
           w == walk'
           b == walk[L - 1].cell
           j == walk[L - 1].at
<1>1. PICK F : Computes(walk, heap, F)
  BY DEF Computing
<1> DEFINE G == F \cup {Here.cell}
<1>2. heap' = heap /\ walk' = Advance(Front(walk)) /\ source' = source
  BY ReturnIs
<1>3. /\ L \in Nat \ {0} /\ L - 1 \in Nat \ {0} /\ Here = walk[L] /\ Here.cell \in DOMAIN source
      /\ \A n \in 1 .. L : walk[n].at \in Nat
  BY HereIs DEF Typed
<1>4. /\ Len(w) = L - 1 /\ \A n \in 1 .. (L - 2) : w[n] = walk[n]
      /\ \A n \in 1 .. (L - 1) : w[n].cell = walk[n].cell
      /\ w[L - 1].at = j + 1
  BY <1>2, PopIs DEF Typed
<1> HIDE DEF w
<1>5. /\ L \in 1 .. L /\ L - 1 \in 1 .. (L - 1) /\ L - 1 \in 1 .. L
      /\ \A n \in 1 .. (L - 1) : n \in 1 .. L /\ (n = L - 1 \/ n \in 1 .. (L - 2))
      /\ \A n \in 1 .. L : n = L \/ n = L - 1 \/ n \in 1 .. (L - 2)
      /\ \A n \in 1 .. (L - 2) : n \in 1 .. (L - 1) /\ n + 1 \in 1 .. (L - 1)
      /\ (L - 1) + 1 = L
  BY <1>3
<1>6. heap[b].data[j].val = Pointer(source, Here.cell) /\ Here.cell \in Holders
  BY <1>1, <1>3, <1>5, ZenonT(30) DEF Computes
<1>7. ASSUME NEW c \in DOMAIN source, NEW i \in DOMAIN source[c].data, Passed(w, G, c, i)
      PROVE  Passed(walk, F, c, i) \/ c = Here.cell \/ (c = b /\ i = j)
  <2>1. i \in Nat
    BY SourceCellIs DEF Typed
  <2>2. j \in Nat
    BY <1>3, <1>5, ZenonT(30)
  <2>3. i < w[L - 1].at <=> (i < j \/ i = j)
    BY <1>4, <2>1, <2>2
  <2> HIDE DEF L, b, j
  <2>4. \/ c \in F \/ c = Here.cell
        \/ \E n \in 1 .. (L - 2) : walk[n].cell = c /\ i < walk[n].at
        \/ (b = c /\ (i < j \/ i = j))
    BY <1>4, <1>5, <1>7, <2>3 DEF Passed, b, j
  <2> QED  BY <1>5, <2>4, ZenonT(30) DEF Passed, b, j, L
<1>8. ASSUME NEW i \in DOMAIN source[Here.cell].data PROVE Passed(walk, F, Here.cell, i)
  <2>1. DOMAIN heap[Here.cell].data = DOMAIN source[Here.cell].data
    BY <1>3 DEF Rewritten, ContainersLeft
  <2>2. DOMAIN heap[Here.cell].data = 1 .. Len(heap[Here.cell].data)
        /\ Len(heap[Here.cell].data) \in Nat /\ Here.at \in Nat
    BY <1>3, CellIs, HereIs DEF Typed
  <2>3. Here.at > Len(heap[Here.cell].data)
    BY DEF Return, Cell
  <2>4. i < Here.at
    BY <2>1, <2>2, <2>3
  <2> QED  BY <1>3, <1>5, <2>4, ZenonT(30) DEF Passed
<1>9. \A n \in 1 .. Len(w) : w[n].cell \in Holders
  BY <1>1, <1>4, <1>5 DEF Computes
<1>10. ASSUME NEW n \in 1 .. (Len(w) - 1)
       PROVE  /\ source[w[n].cell].type = "kStruct" /\ w[n].at \in DOMAIN source[w[n].cell].data
              /\ heap[w[n].cell].data[w[n].at].val = Pointer(source, w[n + 1].cell)
  <2>1. n \in 1 .. (L - 2)
    BY <1>3, <1>4
  <2>2. w[n] = walk[n] /\ w[n + 1].cell = walk[n + 1].cell /\ n \in 1 .. (L - 1)
    BY <1>4, <1>5, <2>1
  <2> QED  BY <1>1, <2>2 DEF Computes
<1>11. ASSUME NEW c \in Holders, NEW i \in DOMAIN source[c].data, Passed(w, G, c, i)
       PROVE  /\ heap[c].data[i].val.type # "kExpression"
              /\ source[c].type = "kStruct" /\ heap[c].data[i].val.type \in {"kStruct", "kList"} =>
                   heap[c].data[i].val.cell \in G
  <2>1. CASE Passed(walk, F, c, i)
    BY <1>1, <2>1 DEF Computes
  <2>2. CASE c = b /\ i = j
    <3>1. /\ Pointer(source, Here.cell).type = source[Here.cell].type
          /\ Pointer(source, Here.cell).cell = Here.cell
      BY DEF Pointer, Value
    <3>2. source[Here.cell].type # "kExpression"
      BY <1>6, HoldersAre
    <3> QED  BY <1>6, <2>2, <3>1, <3>2
  <2> QED  BY <1>7, <1>8, <1>11, <2>1, <2>2, HoldersAre
<1>12. Computes(w, heap, G)
  BY <1>9, <1>10, <1>11 DEF Computes
<1>13. Computes(walk', heap', G)
  BY <1>2, <1>12 DEF w
<1> QED  BY <1>2, <1>13, ComputingPrimed

ExpressionsGone ==
  \A c \in Holders : \A i \in DOMAIN heap[c].data : heap[c].data[i].val.type # "kExpression"
Evaluated == phase \in {"cleanupConfig", "done"} => ExpressionsGone

LEMMA ExpressionsGoneAtEnd ==
  ASSUME Typed, Rewritten, Computing, phase = "evaluateExpressions", Len(walk) = 1,
         Here.at > Len(Cell.data)
  PROVE  ExpressionsGone
<1>1. PICK F : Computes(walk, heap, F)
  BY DEF Computing
<1> DEFINE D == F \cup {Root}
<1>2. Here = walk[1] /\ Here.cell = Root /\ source \in Sources /\ Root \in DOMAIN source
  BY HereIs, SourceIs DEF Typed, Calls, Tree
<1>3. \A c \in DOMAIN source :
        /\ DOMAIN heap[c].data = DOMAIN source[c].data
        /\ \A i \in DOMAIN source[c].data :
             source[c].data[i].val.type \in {"kStruct", "kList"} => heap[c].data[i].val = source[c].data[i].val
  BY DEF Rewritten, ContainersLeft
<1>4. \A i \in DOMAIN heap[Root].data : i < Here.at
  <2>1. DOMAIN heap[Root].data = 1 .. Len(heap[Root].data) /\ Len(heap[Root].data) \in Nat
        /\ Here.at \in Nat
    BY <1>2, CellIs, HereIs DEF Typed
  <2> QED  BY <1>2, <2>1 DEF Cell
<1>5. ASSUME NEW c \in Holders, NEW i \in DOMAIN source[c].data
      PROVE  Passed(walk, D, c, i) => Passed(walk, F, c, i)
  <2>1. 1 \in 1 .. Len(walk)
    OBVIOUS
  <2> QED  BY <1>2, <1>3, <1>4, <2>1 DEF Passed
<1>6. ASSUME NEW c \in Holders, c \in D, NEW i \in DOMAIN source[c].data
      PROVE  /\ heap[c].data[i].val.type # "kExpression"
             /\ source[c].type = "kStruct" /\ heap[c].data[i].val.type \in {"kStruct", "kList"} =>
                  heap[c].data[i].val.cell \in D
  <2>1. Passed(walk, F, c, i)
    BY <1>5, <1>6 DEF Passed
  <2> QED  BY <1>1, <2>1 DEF Computes
<1>7. Holders \subseteq D
  <2>1. \A c \in Cells(source, "kStruct") \cap D : \A i \in DOMAIN source[c].data :
          source[c].data[i].val.type \in {"kStruct", "kList"} => source[c].data[i].val.cell \in D
    BY <1>3, <1>6 DEF Cells, Holders
  <2> HIDE DEF D
  <2>2. Root \in D
    BY DEF D
  <2> QED  BY <1>2, <2>1, <2>2, StructsReached DEF Holders
<1> QED  BY <1>3, <1>6, <1>7, HoldersAre DEF ExpressionsGone

LEMMA CallsIn == ASSUME Typed PROVE Len(walk) = 1 \/ Len(walk) > 1
<1>1. Len(walk) \in Nat \ {0}
  BY HereIs DEF Typed
<1> QED  BY <1>1

LEMMA ComputingStep == ASSUME Typed, Rewritten, Computing, [Next]_vars PROVE Computing'
<1> SUFFICES ASSUME phase' = "evaluateExpressions" PROVE Computing'
  BY DEF Computing
<1>1. CASE Return /\ Len(walk) = 1
  BY <1>1, ReturnIs, ComputingBegins
<1>2. CASE Return /\ Len(walk) # 1
  <2>1. Len(walk) > 1
    BY <1>2, CallsIn
  <2>2. phase = "evaluateExpressions"
    BY <1>2, <2>1, ReturnIs
  <2> QED  BY <1>2, <2>1, <2>2, ComputingReturn
<1>3. CASE Descend
  <2>1. ~Fail("stack overflow")
    BY DEF Fail
  <2>2. Len(walk) # MaxDepth /\ phase = "evaluateExpressions"
    BY <1>3, <2>1, DescendIs
  <2> QED  BY <1>3, <2>2, ComputingDescend
<1>4. CASE Skip
  <2>1. phase = "evaluateExpressions"
    BY <1>4 DEF Skip
  <2> QED  BY <1>4, <2>1, ComputingSkip
<1>5. CASE Evaluate
  BY <1>5, ComputingEvaluate
<1>6. CASE Finished \/ UNCHANGED vars
  <2>1. phase = "evaluateExpressions" /\ UNCHANGED <<source, heap, walk>>
    BY <1>6 DEF Finished, vars
  <2>2. PICK F : Computes(walk, heap, F)
    BY <2>1 DEF Computing
  <2>3. Computes(walk', heap', F)
    BY <2>1, <2>2
  <2> QED  BY <2>1, <2>3, ComputingPrimed
<1>7. ~BeginChain /\ ~EndInStruct
  BY DEF BeginChain, EndInStruct, AtEndOfChain, Replace
<1>8. ~EndInList /\ ~EndInExpression
  <2>1. ASSUME EndInList \/ EndInExpression PROVE FALSE
    <3>1. phase = "resolveVarRefs"
      BY <2>1 DEF EndInList, EndInExpression, AtEndOfChain
    <3> QED  BY <2>1, <3>1, EndInListIs, EndInExpressionIs
  <2> QED  BY <2>1
<1>9. ~Follow
  BY FollowIs DEF Fail
<1> QED  BY <1>1, <1>2, <1>3, <1>4, <1>5, <1>6, <1>7, <1>8, <1>9 DEF Next

(* The phases follow one another, each when its walk is through.           *)
LEMMA PhaseEntered ==
  ASSUME Typed, [Next]_vars, phase' # phase
  PROVE  \/ phase' \in Exception
         \/ /\ Return /\ Len(walk) = 1 /\ Here.at > Len(Cell.data)
            /\ \/ phase = "resolveVarRefs" /\ phase' = "evaluateExpressions"
               \/ phase = "evaluateExpressions" /\ phase' = "cleanupConfig"
               \/ phase = "cleanupConfig" /\ phase' = "done"
<1>1. CASE Descend
  BY <1>1, DescendIs DEF Fail, Exception
<1>2. CASE Return
  <2>1. Len(walk) = 1
    <3>1. ~(Len(walk) > 1)
      BY <1>2, ReturnIs
    <3> QED  BY <3>1, CallsIn
  <2>2. Here.at > Len(Cell.data)
    BY <1>2 DEF Return
  <2> QED  BY <1>2, <2>1, <2>2, ReturnIs DEF Walking
<1>3. CASE Skip \/ BeginChain \/ EndInStruct \/ Finished \/ UNCHANGED vars
  BY <1>3 DEF Skip, BeginChain, EndInStruct, Replace, Finished, vars
<1>4. CASE Follow
  BY <1>4, FollowIs DEF Fail, Exception
<1>5. CASE EndInList \/ EndInExpression \/ Evaluate
  BY <1>5, EndInListIs, EndInExpressionIs, EvaluateIs DEF Exception
<1> QED  BY <1>1, <1>2, <1>3, <1>4, <1>5 DEF Next

(* After resolveVarRefs, entries are dropped or become numbers.            *)
LEMMA AfterResolving ==
  ASSUME Typed, [Next]_vars, phase \in {"evaluateExpressions", "cleanupConfig", "done"},
         phase' \notin Exception, NEW c \in DOMAIN source, NEW i \in DOMAIN heap'[c].data
  PROVE  \/ heap'[c].data[i].val.type = "kNumber"
         \/ \E j \in DOMAIN heap[c].data : heap'[c].data[i] = heap[c].data[j]
<1>1. CASE Return
  BY <1>1, ReturnIs
<1>2. CASE Evaluate
  <2>1. phase' # "InvalidTypeException"
    BY DEF Exception
  <2> DEFINE v == evaluateExpression(Current.cell)
  <2>2. Written(v) /\ v.type = "kNumber"
    BY <1>2, <2>1, EvaluateIs
  <2> HIDE DEF v
  <2>3. CASE c = Here.cell
    <3>1. i \in DOMAIN heap[c].data /\ (i = Here.at => heap'[c].data[i].val = v)
      BY <2>2, <2>3 DEF Written
    <3>2. heap'[c].data[i].key = heap[c].data[i].key
          /\ (i # Here.at => heap'[c].data[i].val = heap[c].data[i].val)
      BY <2>2, <3>1 DEF Written
    <3>3. heap'[c].data[i] \in EntryOf(source) /\ heap[c].data[i] \in EntryOf(source)
      <4>1. heap[c].data[i] \in EntryOf(source)
        BY <3>1, CellIs DEF Typed
      <4>2. heap'[c] \in CellOf(source)
        BY <2>2 DEF Written
      <4>3. heap'[c].data \in Seq(EntryOf(source))
        BY <4>2 DEF CellOf
      <4> QED  BY <4>1, <4>3
    <3>4. i # Here.at => heap'[c].data[i] = heap[c].data[i]
      BY <3>2, <3>3 DEF EntryOf
    <3> QED  BY <2>2, <3>1, <3>4
  <2>4. CASE c # Here.cell
    <3>1. heap'[c] = heap[c]
      BY <2>2, <2>4 DEF Written
    <3> QED  BY <3>1
  <2> QED  BY <2>3, <2>4
<1>3. CASE UNCHANGED heap
  BY <1>3
<1>4. CASE Descend \/ Skip \/ Finished \/ UNCHANGED vars
  BY <1>3, <1>4, DescendIs DEF Skip, Fail, Finished, vars
<1>5. ~BeginChain /\ ~Follow /\ ~EndInStruct /\ ~EndInList /\ ~EndInExpression
  BY DEF BeginChain, Follow, EndInStruct, EndInList, EndInExpression, AtEndOfChain
<1> QED  BY <1>1, <1>2, <1>3, <1>4, <1>5 DEF Next

LEMMA SourceKept == ASSUME Typed, [Next]_vars PROVE source' = source
<1>1. Return \/ Skip \/ BeginChain \/ Finished \/ UNCHANGED vars => source' = source
  BY DEF Return, Skip, BeginChain, Finished, vars
<1>2. Descend => source' = source
  BY DescendIs DEF Fail
<1>3. Follow => source' = source
  BY FollowIs DEF Fail
<1>4. EndInStruct \/ EndInList \/ EndInExpression \/ Evaluate => source' = source
  BY FailIs, EndInStructIs, EndInListIs, EndInExpressionIs, EvaluateIs DEF Fail
<1> QED  BY <1>1, <1>2, <1>3, <1>4 DEF Next

LEMMA ResolvedStep ==
  ASSUME Typed, Rewritten, Visiting, Computing, Resolved, Evaluated, [Next]_vars
  PROVE  Resolved' /\ Evaluated'
<1>1. source' = source
  BY SourceKept
<1>2. /\ Holders' = Holders /\ ExpressionsOfKeys' = ExpressionsOfKeys
  BY <1>1, KeysSame DEF Holders
<1>3. CASE phase' \in Exception \cup {"resolveVarRefs"}
  BY <1>3 DEF Resolved, Evaluated, Exception
<1>4. CASE phase' \notin Exception /\ phase \in {"evaluateExpressions", "cleanupConfig", "done"}
  <2>1. LookupsGone'
    <3> SUFFICES ASSUME NEW c \in Holders \cup ExpressionsOfKeys, NEW i \in DOMAIN heap'[c].data
                 PROVE  heap'[c].data[i].val.type # "kValueLookup"
      BY <1>2 DEF LookupsGone
    <3>1. c \in DOMAIN source
      BY HoldersAre
    <3>2. CASE \E j \in DOMAIN heap[c].data : heap'[c].data[i] = heap[c].data[j]
      BY <1>4, <3>2 DEF Resolved, LookupsGone
    <3> QED  BY <1>4, <3>1, <3>2, AfterResolving
  <2>2. phase' \in {"cleanupConfig", "done"} => ExpressionsGone'
    <3>1. CASE phase \in {"cleanupConfig", "done"}
      <4> SUFFICES ASSUME NEW c \in Holders, NEW i \in DOMAIN heap'[c].data
                   PROVE  heap'[c].data[i].val.type # "kExpression"
        BY <1>2 DEF ExpressionsGone
      <4>1. c \in DOMAIN source
        BY HoldersAre
      <4>2. CASE \E j \in DOMAIN heap[c].data : heap'[c].data[i] = heap[c].data[j]
        BY <3>1, <4>2 DEF Evaluated, ExpressionsGone
      <4> QED  BY <1>4, <4>1, <4>2, AfterResolving
    <3>2. CASE phase = "evaluateExpressions" /\ phase' # phase
      <4>1. Return /\ Len(walk) = 1 /\ Here.at > Len(Cell.data) /\ phase' = "cleanupConfig"
        BY <1>4, <3>2, PhaseEntered
      <4>2. ExpressionsGone
        BY <3>2, <4>1, ExpressionsGoneAtEnd
      <4>3. heap' = heap
        BY <3>2, <4>1, ReturnIs
      <4> QED  BY <1>2, <4>2, <4>3 DEF ExpressionsGone
    <3> QED  BY <1>4, <3>1, <3>2
  <2> QED  BY <2>1, <2>2 DEF Resolved, Evaluated
<1>5. CASE phase' \notin Exception \cup {"resolveVarRefs"}
           /\ phase \notin {"evaluateExpressions", "cleanupConfig", "done"}
  <2>1. phase' # phase => /\ Return /\ Len(walk) = 1 /\ Here.at > Len(Cell.data)
                          /\ phase = "resolveVarRefs" /\ phase' = "evaluateExpressions"
    BY <1>5, PhaseEntered
  <2>2. phase \in Walking \cup Exception \cup {"done"}
    BY DEF Typed
  <2>3. phase' # phase
    BY <1>5, <2>2 DEF Walking
  <2>4. LookupsGone
    BY <2>1, <2>3, LookupsGoneAtEnd
  <2>5. heap' = heap
    BY <2>1, <2>3, ReturnIs
  <2>6. LookupsGone'
    BY <1>2, <2>4, <2>5 DEF LookupsGone
  <2> QED  BY <2>1, <2>3, <2>6 DEF Resolved, Evaluated
<1> QED  BY <1>3, <1>4, <1>5

Resolving == Typed /\ Rewritten /\ Visiting /\ Computing /\ Resolved /\ Evaluated

LEMMA ResolvingInit == Init => Resolving
<1> SUFFICES ASSUME Init PROVE Resolving
  OBVIOUS
<1>1. phase = "resolveVarRefs"
  BY DEF Init
<1> QED  BY <1>1, TypedInit, RewrittenInit, VisitingInit DEF Resolving, Computing, Resolved, Evaluated

LEMMA ResolvingStep == Resolving /\ [Next]_vars => Resolving'
<1> SUFFICES ASSUME Resolving, [Next]_vars PROVE Resolving'
  OBVIOUS
<1>1. Typed /\ Rewritten /\ Visiting /\ Computing /\ Resolved /\ Evaluated
  BY DEF Resolving
<1>2. Typed' /\ Rewritten' /\ Visiting' /\ Computing'
  BY <1>1, TypedStep, RewrittenStep, VisitingStep, ComputingStep
<1>3. Resolved' /\ Evaluated'
  BY <1>1, ResolvedStep
<1> QED  BY <1>2, <1>3 DEF Resolving

LEMMA ResolvingAlways == Spec => []Resolving
BY ResolvingInit, ResolvingStep, PTL DEF Spec

(* The elements of a list have the one type list_element_type when         *)
(* everything in it is resolved (README.md:209): a lookup is replaced only *)
(* by what fits, and an expression counts as the number it becomes.        *)
THEOREM ListsAreHomogeneous == Spec => []ListsHomogeneous
<1>1. Resolving => ListsHomogeneous
  <2> SUFFICES ASSUME Resolving, phase = "done", NEW c \in ListsOfKeys, NEW i \in DOMAIN heap[c].data
               PROVE  heap[c].data[i].val.type = heap[c].elem
    BY DEF ListsHomogeneous
  <2>1. c \in Holders /\ c \in Cells(source, "kList")
    BY ListsOfKeysAre DEF Holders
  <2>2. heap[c].data[i].val.type # "kValueLookup" /\ heap[c].data[i].val.type # "kExpression"
    BY <2>1 DEF Resolving, Resolved, Evaluated, LookupsGone, ExpressionsGone
  <2>3. heap[c].elem = ElementTypeOf(heap[c].data[i].val.type)
    BY <2>1, <2>2 DEF Resolving, Rewritten, ElementsFit
  <2> QED  BY <2>2, <2>3 DEF ElementTypeOf
<1> QED  BY <1>1, ResolvingAlways, PTL

(* After resolveVarRefs nothing can go wrong with a type any more: the two *)
(* checks of evaluateExpressions (config_helpers.cpp:491, 523) never fail, *)
(* because every expression it meets is one whose operands resolveVarRefs  *)
(* has replaced by numbers, in a list only if it is a list of numbers.     *)
THEOREM EvaluationAlwaysSucceeds == Spec => EvaluationSucceeds
<1>1. Resolving /\ [Next]_vars => [phase = "evaluateExpressions" => phase' # "InvalidTypeException"]_vars
  <2> SUFFICES ASSUME Resolving, Next, phase = "evaluateExpressions", phase' = "InvalidTypeException"
               PROVE  FALSE
    OBVIOUS
  <2>1. Typed /\ Rewritten /\ Computing /\ Resolved
    BY DEF Resolving
  <2>2. Evaluate
    <3>1. ~Skip /\ ~BeginChain /\ ~EndInStruct /\ ~EndInList /\ ~EndInExpression /\ ~Finished
      BY DEF Skip, BeginChain, EndInStruct, EndInList, EndInExpression, AtEndOfChain, Finished, Walking
    <3>2. ~Descend
      BY DescendIs DEF Fail
    <3>3. ~Return
      BY <2>1, ReturnIs
    <3>4. ~Follow
      BY <2>1, FollowIs
    <3> QED  BY <3>1, <3>2, <3>3, <3>4 DEF Next
  <2> DEFINE c == Here.cell
             d == Current.cell
  <2>3. AtEntry /\ Current.type = "kExpression"
    BY <2>2 DEF Evaluate
  <2>4. /\ Here.at \in DOMAIN heap[c].data /\ c \in DOMAIN source /\ Cell = heap[c]
        /\ Current = heap[c].data[Here.at].val
    BY <2>1, <2>3, CurrentIs
  <2>5. c \in Holders
    <3>1. PICK F : Computes(walk, heap, F)
      BY <2>1 DEF Computing
    <3>2. Here = walk[Len(walk)] /\ Len(walk) \in 1 .. Len(walk)
      BY <2>1, HereIs DEF Typed
    <3> QED  BY <3>1, <3>2 DEF Computes
  <2>6. d \in ExpressionsOfKeys
    <3>1. c \in Cells(source, "kStruct") \/ c \in ListsOfKeys
      BY <2>5 DEF Holders
    <3> HIDE DEF c
    <3> QED  BY <2>1, <2>3, <2>4, <3>1 DEF Rewritten, AllOfKeys, OfKeys
  <2>7. Evaluable(d)
    <3> SUFFICES ASSUME NEW i \in DOMAIN heap[d].data PROVE heap[d].data[i].val.type = "kNumber"
      BY DEF Evaluable, Operands
    <3>1. heap[d].data[i].val.type # "kValueLookup"
      BY <2>1, <2>6 DEF Resolved, LookupsGone
    <3>2. d \in DOMAIN source /\ source[d].type = "kExpression"
      BY <2>6, HoldersAre
    <3>3. heap[d].data[i].val.type \in {"kValueLookup", "kNumber"}
      BY <2>1, <3>2 DEF Typed, Tree
    <3> QED  BY <3>1, <3>3
  <2>8. Cell.type = "kList" => Cell.elem = "kNumber"
    <3> SUFFICES ASSUME Cell.type = "kList" PROVE Cell.elem = "kNumber"
      OBVIOUS
    <3>1. c \in Cells(source, "kList")
      BY <2>1, <2>4 DEF Typed, Tree, Cells
    <3>2. Cell.elem = ElementTypeOf(Current.type)
      BY <2>1, <2>3, <2>4, <3>1 DEF Rewritten, ElementsFit
    <3> QED  BY <2>3, <3>2 DEF ElementTypeOf
  <2>9. evaluateExpression(d).type = "kNumber"
    BY <2>1, <2>6, HoldersAre, EvaluatedIs DEF Typed
  <2>10. Cell.type = "kList" => listElementValid(Cell.elem, evaluateExpression(d).type)
    BY <2>8, <2>9 DEF listElementValid
  <2>11. phase' = phase
    BY <2>2, <2>7, <2>10 DEF Evaluate
  <2> QED  BY <2>11
<1> QED  BY <1>1, ResolvingAlways, PTL DEF Spec, EvaluationSucceeds

-----------------------------------------------------------------------------
(* The meaning of a source: what the ends of the chains are. *)

LEMMA ImageFinite ==
  ASSUME NEW S, IsFiniteSet(S), NEW f
  PROVE  IsFiniteSet({f[x] : x \in S})
<1> DEFINE T == {f[x] : x \in S}
           g == [x \in S |-> f[x]]
<1>1. g \in Surjection(S, T)
  BY DEF Surjection
<1> QED  BY <1>1, FS_Surjection

LEMMA LookupsFinite ==
  ASSUME NEW h \in Sources
  PROVE  IsFiniteSet(LookupsOf(h)) /\ Turns(h) \in Nat
<1> DEFINE f == [c \in DOMAIN h |-> {c} \X DOMAIN h[c].data]
           U == {f[c] : c \in DOMAIN h}
<1>1. IsFiniteSet(U)
  <2>1. IsFiniteSet(DOMAIN h)
    BY SourceIs
  <2> HIDE DEF f
  <2> QED  BY <2>1, ImageFinite
<1>2. \A T \in U : IsFiniteSet(T)
  <2> SUFFICES ASSUME NEW c \in DOMAIN h PROVE IsFiniteSet({c} \X DOMAIN h[c].data)
    OBVIOUS
  <2>1. h[c].data \in Seq(EntryOf(h))
    <3>1. h[c] \in CellOf(h)
      BY SourceIs
    <3> QED  BY <3>1 DEF CellOf
  <2>2. DOMAIN h[c].data = 1 .. Len(h[c].data) /\ Len(h[c].data) \in Nat
    BY <2>1
  <2>3. IsFiniteSet(DOMAIN h[c].data)
    BY <2>2, FS_Interval
  <2>4. IsFiniteSet({c})
    BY FS_Singleton
  <2> QED  BY <2>3, <2>4, FS_Product
<1>3. IsFiniteSet(UNION U)
  BY <1>1, <1>2, FS_UNION
<1>4. Entries(h) = UNION U
  BY DEF Entries
<1> DEFINE g == [e \in Entries(h) |-> h[e[1]].data[e[2]].val]
<1>5. IsFiniteSet({g[e] : e \in Entries(h)})
  <2> HIDE DEF g, U
  <2> QED  BY <1>3, <1>4, ImageFinite
<1>6. ValuesOf(h) = {g[e] : e \in Entries(h)}
  BY DEF ValuesOf
<1>7. IsFiniteSet(LookupsOf(h))
  <2>1. LookupsOf(h) \in SUBSET ValuesOf(h)
    BY DEF LookupsOf
  <2> QED  BY <1>5, <1>6, <2>1, FS_Subset
<1> QED  BY <1>7, FS_CardinalityType DEF Turns

(* What a function of the ends of the values is: no end is a lookup, and   *)
(* what is no lookup is its own end.                                       *)
Finals(h) ==
  {f \in [Values(h) -> Values(h)] : \A v \in Values(h) :
     f[v].type # "kValueLookup" /\ (v.type # "kValueLookup" => f[v] = v)}

Without == {Endless, Missing, Astray}
LEMMA WithoutAre ==
  /\ \A v \in Without : v.type \notin Container \cup Scalar \cup {"kValueLookup"}
  /\ Endless # Missing /\ Endless.type = "endless" /\ Missing.type = "missing" /\ Astray.type = "astray"
BY DEF Without, Endless, Missing, Astray, Value, Container, Scalar

LEMMA ValuesAre ==
  ASSUME NEW h \in Sources
  PROVE  /\ Without \subseteq Values(h) /\ Pointer(h, Root) \in Values(h)
         /\ \A v \in Values(h) : v.type = "kValueLookup" <=> v \in LookupsOf(h)
         /\ \A v \in Values(h) : v.type \in Container =>
              v.cell \in DOMAIN h /\ v = Pointer(h, v.cell) /\ h[v.cell].type = v.type
         /\ \A c \in DOMAIN h : \A i \in DOMAIN h[c].data : h[c].data[i].val \in Values(h)
<1>1. Without \subseteq Values(h) /\ Pointer(h, Root) \in Values(h)
  BY DEF Without, Values
<1>2. Pointer(h, Root).type = "kStruct" /\ Pointer(h, Root).cell = Root /\ Root \in DOMAIN h
  BY SourceIs DEF Pointer, Value
<1>3. \A v \in Values(h) : v.type = "kValueLookup" <=> v \in LookupsOf(h)
  BY <1>2, WithoutAre DEF Values, LookupsOf, Without
<1>4. ASSUME NEW v \in Values(h), v.type \in Container
      PROVE  v.cell \in DOMAIN h /\ v = Pointer(h, v.cell) /\ h[v.cell].type = v.type
  <2>1. CASE v \in ValuesOf(h)
    <3>1. PICK c \in DOMAIN h : \E i \in DOMAIN h[c].data : v = h[c].data[i].val
      BY <2>1, EntryOfValue
    <3> QED  BY <1>4, <3>1, PointerIs
  <2>2. CASE v = Pointer(h, Root)
    BY <1>2, <2>2, SourceIs
  <2>3. CASE v \in Without
    BY <1>4, <2>3, WithoutAre
  <2> QED  BY <2>1, <2>2, <2>3 DEF Values, Without
<1>5. \A c \in DOMAIN h : \A i \in DOMAIN h[c].data : h[c].data[i].val \in Values(h)
  BY EntryIs DEF Values
<1> QED  BY <1>1, <1>3, <1>4, <1>5

LEMMA SourceMemberIs ==
  ASSUME NEW h \in Sources, NEW v \in Values(h), NEW key
  PROVE  /\ SourceMember(h, v, key) \in Values(h)
         /\ v \in Without => SourceMember(h, v, key) = v
         /\ v.type = "kStruct" /\ v.cell \in DOMAIN h =>
              /\ (\A i \in DOMAIN h[v.cell].data : h[v.cell].data[i].key # key)
                 => SourceMember(h, v, key) = Missing
              /\ \A i \in DOMAIN h[v.cell].data : h[v.cell].data[i].key = key
                   => SourceMember(h, v, key) = h[v.cell].data[i].val
<1> DEFINE data == h[v.cell].data
           at == {i \in DOMAIN data : data[i].key = key}
           m == SourceMember(h, v, key)
<1>1. v \in Without => m = v
  BY DEF SourceMember, Without
<1>2. CASE v.type # "kStruct"
  <2>1. m = v \/ m = Astray
    BY <1>2 DEF SourceMember
  <2> QED  BY <1>1, <1>2, <2>1, ValuesAre DEF Without
<1>3. CASE v.type = "kStruct"
  <2>1. v \notin Without /\ v.cell \in DOMAIN h /\ h[v.cell].type = "kStruct"
    BY <1>3, WithoutAre, ValuesAre DEF Container
  <2>2. m = IF at = {} THEN Missing ELSE data[CHOOSE i \in at : TRUE].val
    BY <1>3, <2>1 DEF SourceMember, Without
  <2>3. CASE at = {}
    BY <1>1, <2>1, <2>2, <2>3, ValuesAre DEF Without
  <2>4. CASE at # {}
    <3> DEFINE k == CHOOSE i \in at : TRUE
    <3>1. k \in at
      BY <2>4
    <3> HIDE DEF k
    <3>2. m = data[k].val
      BY <2>2, <2>4 DEF k
    <3>3. \A i \in DOMAIN data : data[i].key = key => i = k
      BY <2>1, <3>1, KeysOnce
    <3>4. m \in Values(h)
      BY <2>1, <3>1, <3>2, ValuesAre
    <3> QED  BY <1>1, <2>1, <2>4, <3>2, <3>3, <3>4
  <2> QED  BY <2>3, <2>4
<1> QED  BY <1>2, <1>3

NamedFold(g, h, end, keys, D) ==
  g = [s \in SUBSET D |-> IF s = {} THEN Pointer(h, Root)
                          ELSE end[SourceMember(h, g[s \ {Max(s)}], keys[Max(s)])]]

LEMMA NamedIsFold ==
  ASSUME NEW h, NEW end, NEW keys
  PROVE  Named(h, end, keys) = (CHOOSE g : NamedFold(g, h, end, keys, DOMAIN keys))[DOMAIN keys]
BY Zenon DEF Named, NamedFold, FoldLeft, MapThenFoldSet

(* at[n] is what the first n keys name.                                    *)
NamesBy(at, h, end, keys) ==
  /\ at[0] = Pointer(h, Root)
  /\ \A n \in 0 .. Len(keys) : at[n] \in Values(h)
  /\ \A n \in 1 .. Len(keys) : at[n] = end[SourceMember(h, at[n - 1], keys[n])]

LEMMA NamedSteps ==
  ASSUME NEW h \in Sources, NEW end \in Finals(h), NEW keys \in Seq(STRING)
  PROVE  \E at : NamesBy(at, h, end, keys) /\ Named(h, end, keys) = at[Len(keys)]
<1> DEFINE n == Len(keys)
           V == Values(h)
           base == Pointer(h, Root)
           F == [i \in 1 .. n |-> [v \in V |-> end[SourceMember(h, v, keys[i])]]]
<1>1. n \in Nat /\ DOMAIN keys = 1 .. n
  OBVIOUS
<1>2. base \in V
  BY ValuesAre
<1>3. F \in [1 .. n -> [V -> V]]
  <2>1. ASSUME NEW i \in 1 .. n, NEW v \in V PROVE end[SourceMember(h, v, keys[i])] \in V
    BY SourceMemberIs DEF Finals
  <2> QED  BY <2>1
<1>4. PICK g0 : Steps(g0, V, base, n, F)
  <2> HIDE DEF F, V, n, base
  <2> QED  BY <1>1, <1>2, <1>3, StepsExist
<1> HIDE DEF V, base
<1>5. ASSUME NEW s \in SUBSET (1 .. n)
      PROVE  g0[s] = IF s = {} THEN base ELSE end[SourceMember(h, g0[s \ {Max(s)}], keys[Max(s)])]
  <2>1. CASE s = {}
    BY <1>4, <2>1 DEF Steps
  <2>2. CASE s # {}
    <3>1. Max(s) \in s
      BY <1>1, <2>2, MaxIn
    <3>2. s \ {Max(s)} \in SUBSET (1 .. n) /\ Max(s) \in 1 .. n
      BY <3>1
    <3>3. g0[s \ {Max(s)}] \in V
      BY <1>4, <3>2 DEF Steps
    <3> QED  BY <1>4, <2>2, <3>2, <3>3 DEF Steps
  <2> QED  BY <2>1, <2>2
<1> DEFINE g == CHOOSE f : NamedFold(f, h, end, keys, 1 .. n)
<1>6. NamedFold(g0, h, end, keys, 1 .. n)
  BY <1>4, <1>5 DEF Steps, NamedFold, base
<1>7. NamedFold(g, h, end, keys, 1 .. n)
  BY <1>6
<1>8. Named(h, end, keys) = g[1 .. n]
  BY <1>1, NamedIsFold
<1> HIDE DEF g, n
<1>9. \A s \in SUBSET (1 .. n) :
        g[s] = IF s = {} THEN base ELSE end[SourceMember(h, g[s \ {Max(s)}], keys[Max(s)])]
  BY <1>7 DEF NamedFold, base
<1> DEFINE at == [k \in 0 .. n |-> g[1 .. k]]
<1>10. at[0] = base
  <2>1. 1 .. 0 = {} /\ {} \in SUBSET (1 .. n) /\ 0 \in 0 .. n
    BY <1>1
  <2> QED  BY <1>9, <2>1
<1>11. ASSUME NEW k \in 1 .. n PROVE at[k] = end[SourceMember(h, at[k - 1], keys[k])]
  <2>1. k \in Nat \ {0} /\ (1 .. k) \in SUBSET (1 .. n) /\ k \in 0 .. n /\ k - 1 \in 0 .. n
    BY <1>1
  <2>2. 1 .. k # {} /\ Max(1 .. k) = k /\ (1 .. k) \ {k} = 1 .. (k - 1)
    BY <2>1, InitialSegment
  <2> QED  BY <1>9, <2>1, <2>2
<1>12. at[n] = g[1 .. n]
  BY <1>1
<1> HIDE DEF at
<1>13. ASSUME NEW k \in 0 .. n PROVE at[k] \in V
  <2> DEFINE T == {m \in 0 .. n : at[m] \notin V}
  <2>1. ASSUME T # {} PROVE FALSE
    <3>1. T \in SUBSET Nat
      BY <1>1
    <3>2. PICK m \in T : \A l \in T : m <= l
      BY <2>1, <3>1, LeastNumber
    <3>3. m # 0
      BY <1>2, <1>10
    <3>4. m \in 1 .. n /\ m - 1 \in 0 .. n /\ m - 1 \notin T
      BY <1>1, <3>2, <3>3
    <3>5. at[m - 1] \in V
      BY <3>4
    <3>6. end[SourceMember(h, at[m - 1], keys[m])] \in V
      BY <3>5, SourceMemberIs DEF V, Finals
    <3> QED  BY <1>11, <3>4, <3>6
  <2> QED  BY <2>1
<1>14. NamesBy(at, h, end, keys)
  BY <1>10, <1>11, <1>13 DEF NamesBy, n, V, base
<1> QED  BY <1>8, <1>12, <1>14 DEF n

LEMMA NamedIs ==
  ASSUME NEW h \in Sources, NEW end \in Finals(h), NEW keys \in Seq(STRING)
  PROVE  Named(h, end, keys) \in Values(h) /\ Named(h, end, keys).type # "kValueLookup"
<1>1. PICK at : NamesBy(at, h, end, keys) /\ Named(h, end, keys) = at[Len(keys)]
  BY NamedSteps
<1>2. Len(keys) \in Nat /\ Len(keys) \in 0 .. Len(keys) /\ (Len(keys) = 0 \/ Len(keys) \in 1 .. Len(keys))
  OBVIOUS
<1>3. at[Len(keys)] \in Values(h)
  BY <1>1, <1>2 DEF NamesBy
<1>4. CASE Len(keys) = 0
  BY <1>1, <1>4, SourceIs DEF NamesBy, Pointer, Value
<1>5. CASE Len(keys) \in 1 .. Len(keys)
  <2>1. Len(keys) - 1 \in 0 .. Len(keys)
    BY <1>2, <1>5
  <2>2. SourceMember(h, at[Len(keys) - 1], keys[Len(keys)]) \in Values(h)
    BY <1>1, <2>1, SourceMemberIs DEF NamesBy
  <2> QED  BY <1>1, <1>3, <1>5, <2>2 DEF NamesBy, Finals
<1> QED  BY <1>1, <1>2, <1>3, <1>4, <1>5

LEMMA IterationExists ==
  ASSUME NEW V, NEW base \in V, NEW n \in Nat, NEW R \in [V -> V]
  PROVE  \E g \in [0 .. n -> V] : g[0] = base /\ \A k \in 1 .. n : g[k] = R[g[k - 1]]
<1> DEFINE F == [i \in 1 .. n |-> R]
<1>1. PICK s : Steps(s, V, base, n, F)
  <2>1. F \in [1 .. n -> [V -> V]]
    OBVIOUS
  <2> HIDE DEF F
  <2> QED  BY <2>1, StepsExist
<1> DEFINE g == [k \in 0 .. n |-> s[1 .. k]]
<1>2. g \in [0 .. n -> V]
  <2>1. \A k \in 0 .. n : 1 .. k \in SUBSET (1 .. n)
    OBVIOUS
  <2> QED  BY <1>1, <2>1 DEF Steps
<1>3. g[0] = base
  <2>1. 1 .. 0 = {} /\ {} \in SUBSET (1 .. n) /\ 0 \in 0 .. n
    OBVIOUS
  <2> QED  BY <1>1, <2>1 DEF Steps
<1>4. ASSUME NEW k \in 1 .. n PROVE g[k] = R[g[k - 1]]
  <2>1. k \in Nat \ {0} /\ (1 .. k) \in SUBSET (1 .. n) /\ k \in 0 .. n /\ k - 1 \in 0 .. n
    OBVIOUS
  <2>2. 1 .. k # {} /\ Max(1 .. k) = k /\ (1 .. k) \ {k} = 1 .. (k - 1)
    BY <2>1, InitialSegment
  <2>3. s[1 .. k] = F[Max(1 .. k)][s[(1 .. k) \ {Max(1 .. k)}]]
    BY <1>1, <2>1, <2>2 DEF Steps
  <2>4. F[k] = R /\ g[k] = s[1 .. k] /\ g[k - 1] = s[1 .. (k - 1)]
    BY <2>1
  <2> QED  BY <2>2, <2>3, <2>4
<1> QED  BY <1>2, <1>3, <1>4

(* One key of every lookup further; without any, every lookup is endless.  *)
Round(h, g) ==
  [v \in Values(h) |-> IF v.type # "kValueLookup" THEN v ELSE Named(h, g, v.keys)]
NoRound(h) == [v \in Values(h) |-> IF v.type # "kValueLookup" THEN v ELSE Endless]

EndsRec(h, after) == after =
  [n \in 0 .. Turns(h) |->
     [v \in Values(h) |-> IF v.type # "kValueLookup" THEN v
                          ELSE IF n = 0 THEN Endless
                          ELSE Named(h, after[n - 1], v.keys)]]

LEMMA EndsIsRec == ASSUME NEW h PROVE Ends(h) = (CHOOSE f : EndsRec(h, f))[Turns(h)]
BY DEF Ends, EndsRec

LEMMA LookupKeys ==
  ASSUME NEW h \in Sources, NEW v \in LookupsOf(h)
  PROVE  v.keys \in Seq(STRING) /\ v.keys # <<>> /\ v.type = "kValueLookup" /\ v \in Values(h)
<1>1. v \in ValuesOf(h) /\ v.type = "kValueLookup"
  BY DEF LookupsOf
<1>2. PICK c \in DOMAIN h : \E i \in DOMAIN h[c].data : v = h[c].data[i].val
  BY <1>1, EntryOfValue
<1>3. PICK i \in DOMAIN h[c].data : v = h[c].data[i].val
  BY <1>2
<1>4. h[c].data \in Seq(EntryOf(h))
  <2>1. h[c] \in CellOf(h)
    BY SourceIs
  <2> QED  BY <2>1 DEF CellOf
<1>5. h[c].data[i] \in EntryOf(h)
  BY <1>4
<1>6. v.keys \in Seq(STRING)
  BY <1>3, <1>5 DEF EntryOf, ValueOf
<1> QED  BY <1>1, <1>6, LookupHasKeys DEF Values

LEMMA RoundIs ==
  ASSUME NEW h \in Sources, NEW g \in Finals(h)
  PROVE  Round(h, g) \in Finals(h)
<1>1. \A v \in Values(h) : v.type = "kValueLookup" =>
        Named(h, g, v.keys) \in Values(h) /\ Named(h, g, v.keys).type # "kValueLookup"
  BY ValuesAre, LookupKeys, NamedIs
<1> QED  BY <1>1 DEF Round, Finals

LEMMA NoRoundIs == ASSUME NEW h \in Sources PROVE NoRound(h) \in Finals(h)
<1>1. Endless \in Values(h) /\ Endless.type # "kValueLookup"
  BY ValuesAre, WithoutAre DEF Without
<1> QED  BY <1>1 DEF NoRound, Finals

LEMMA EndsIs ==
  ASSUME NEW h \in Sources
  PROVE  \E after : /\ after \in [0 .. Turns(h) -> Finals(h)] /\ after[0] = NoRound(h)
                    /\ \A k \in 1 .. Turns(h) : after[k] = Round(h, after[k - 1])
                    /\ Ends(h) = after[Turns(h)]
<1> DEFINE n == Turns(h)
           V == Finals(h)
           R == [g \in V |-> Round(h, g)]
<1>1. n \in Nat
  BY LookupsFinite
<1>2. NoRound(h) \in V
  BY NoRoundIs
<1>3. R \in [V -> V]
  BY RoundIs
<1>4. PICK g \in [0 .. n -> V] : g[0] = NoRound(h) /\ \A k \in 1 .. n : g[k] = R[g[k - 1]]
  <2> DEFINE base == NoRound(h)
  <2>1. base \in V
    BY <1>2
  <2> HIDE DEF n, V, R, base
  <2>2. \E g \in [0 .. n -> V] : g[0] = base /\ \A k \in 1 .. n : g[k] = R[g[k - 1]]
    BY <1>1, <1>3, <2>1, IterationExists
  <2> QED  BY <2>2 DEF base
<1>5. EndsRec(h, g)
  <2> SUFFICES ASSUME NEW k \in 0 .. n
               PROVE  g[k] = [v \in Values(h) |-> IF v.type # "kValueLookup" THEN v
                                                  ELSE IF k = 0 THEN Endless
                                                  ELSE Named(h, g[k - 1], v.keys)]
    BY <1>4 DEF EndsRec
  <2>1. CASE k = 0
    BY <1>4, <2>1 DEF NoRound
  <2>2. CASE k # 0
    <3>1. k \in 1 .. n /\ k - 1 \in 0 .. n
      BY <1>1, <2>2
    <3>2. g[k] = Round(h, g[k - 1])
      BY <1>4, <3>1
    <3> QED  BY <2>2, <3>2 DEF Round
  <2> QED  BY <2>1, <2>2
<1> DEFINE f == CHOOSE f : EndsRec(h, f)
<1>6. EndsRec(h, f)
  BY <1>5
<1>7. Ends(h) = f[n]
  BY EndsIsRec
<1> HIDE DEF f
<1>8. f[0] = NoRound(h) /\ DOMAIN f = 0 .. n
  <2>1. 0 \in 0 .. n
    BY <1>1
  <2> QED  BY <1>6, <2>1 DEF EndsRec, NoRound
<1>9. ASSUME NEW k \in 1 .. n PROVE f[k] = Round(h, f[k - 1])
  <2>1. k \in 0 .. n /\ k # 0
    BY <1>1
  <2> QED  BY <1>6, <2>1 DEF EndsRec, Round
<1>10. ASSUME NEW k \in 0 .. n PROVE f[k] \in V
  <2> DEFINE T == {m \in 0 .. n : f[m] \notin V}
  <2>1. ASSUME T # {} PROVE FALSE
    <3>1. T \in SUBSET Nat
      BY <1>1
    <3>2. PICK m \in T : \A l \in T : m <= l
      BY <2>1, <3>1, LeastNumber
    <3>3. m # 0
      BY <1>2, <1>8
    <3>4. m \in 1 .. n /\ m - 1 \in 0 .. n /\ m - 1 \notin T
      BY <1>1, <3>2, <3>3
    <3>5. f[m - 1] \in V
      BY <3>4
    <3> QED  BY <1>9, <3>4, <3>5, RoundIs
  <2> QED  BY <2>1
<1>11. f \in [0 .. n -> V]
  <2>1. f = [k \in 0 .. n |-> f[k]]
    BY <1>6 DEF EndsRec
  <2> QED  BY <1>10, <2>1
<1> QED  BY <1>7, <1>8, <1>9, <1>11

(* g knows the ends that f knows.                                          *)
Extends(h, f, g) == \A v \in Values(h) : f[v] = Endless \/ g[v] = f[v]

LEMMA NamedExtends ==
  ASSUME NEW h \in Sources, NEW f \in Finals(h), NEW g \in Finals(h), Extends(h, f, g),
         NEW keys \in Seq(STRING)
  PROVE  Named(h, f, keys) = Endless \/ Named(h, g, keys) = Named(h, f, keys)
<1> DEFINE n == Len(keys)
<1>1. PICK at : NamesBy(at, h, f, keys) /\ Named(h, f, keys) = at[n]
  BY NamedSteps
<1>2. PICK bt : NamesBy(bt, h, g, keys) /\ Named(h, g, keys) = bt[n]
  BY NamedSteps
<1> DEFINE T == {m \in 0 .. n : ~(at[m] = Endless \/ bt[m] = at[m])}
<1>3. n \in Nat /\ n \in 0 .. n
  OBVIOUS
<1>4. ASSUME T # {} PROVE FALSE
  <2>1. T \in SUBSET Nat
    OBVIOUS
  <2>2. PICK m \in T : \A l \in T : m <= l
    BY <1>4, <2>1, LeastNumber
  <2>3. m # 0
    BY <1>1, <1>2, <2>2 DEF NamesBy
  <2>4. m \in 1 .. n /\ m - 1 \in 0 .. n /\ m - 1 \notin T
    BY <1>3, <2>2, <2>3
  <2> DEFINE v == SourceMember(h, at[m - 1], keys[m])
  <2>5. at[m] = f[v] /\ v \in Values(h) /\ at[m - 1] \in Values(h)
    BY <1>1, <2>4, SourceMemberIs DEF NamesBy
  <2>6. bt[m] = g[SourceMember(h, bt[m - 1], keys[m])]
    BY <1>2, <2>4 DEF NamesBy
  <2>7. CASE at[m - 1] = Endless
    <3>1. v = Endless
      BY <2>5, <2>7, SourceMemberIs DEF Without
    <3> HIDE DEF v
    <3>2. f[v] = Endless
      BY <2>5, <3>1, WithoutAre DEF Finals
    <3> QED  BY <2>2, <2>5, <3>2
  <2>8. CASE bt[m - 1] = at[m - 1]
    <3>1. bt[m] = g[v]
      BY <2>6, <2>8
    <3> HIDE DEF v
    <3> QED  BY <2>2, <2>5, <3>1 DEF Extends
  <2> QED  BY <2>4, <2>7, <2>8
<1> QED  BY <1>1, <1>2, <1>3, <1>4

LEMMA RoundExtends ==
  ASSUME NEW h \in Sources, NEW f \in Finals(h), NEW g \in Finals(h), Extends(h, f, g)
  PROVE  Extends(h, Round(h, f), Round(h, g))
<1> SUFFICES ASSUME NEW v \in Values(h)
             PROVE  Round(h, f)[v] = Endless \/ Round(h, g)[v] = Round(h, f)[v]
  BY DEF Extends
<1>1. CASE v.type # "kValueLookup"
  BY <1>1 DEF Round
<1>2. CASE v.type = "kValueLookup"
  <2>1. v.keys \in Seq(STRING)
    BY <1>2, ValuesAre, LookupKeys
  <2>2. Named(h, f, v.keys) = Endless \/ Named(h, g, v.keys) = Named(h, f, v.keys)
    BY <2>1, NamedExtends
  <2> QED  BY <1>2, <2>2 DEF Round
<1> QED  BY <1>1, <1>2

LEMMA NoRoundExtends ==
  ASSUME NEW h \in Sources, NEW g \in Finals(h) PROVE Extends(h, NoRound(h), g)
BY DEF Extends, NoRound, Finals

(* After as many rounds as there are lookups, one more changes nothing: a  *)
(* round that changes something finds the end of one more lookup.          *)
LEMMA EndsFixed ==
  ASSUME NEW h \in Sources
  PROVE  Ends(h) \in Finals(h) /\ Round(h, Ends(h)) = Ends(h)
<1> DEFINE n == Turns(h)
           S == LookupsOf(h)
<1>1. PICK after : /\ after \in [0 .. n -> Finals(h)] /\ after[0] = NoRound(h)
                   /\ \A k \in 1 .. n : after[k] = Round(h, after[k - 1])
                   /\ Ends(h) = after[n]
  BY EndsIs
<1>2. n \in Nat /\ IsFiniteSet(S) /\ n = Cardinality(S) /\ n \in 0 .. n
  BY LookupsFinite DEF Turns
<1> HIDE DEF n
<1>3. ASSUME NEW k \in 0 .. n PROVE after[k] \in Finals(h) /\ Round(h, after[k]) \in Finals(h)
  BY <1>1, RoundIs
<1> DEFINE N(k) == Round(h, after[k])
           D(f) == {v \in S : f[v] # Endless}
<1>4. ASSUME NEW k \in 0 .. n PROVE Extends(h, after[k], N(k))
  <2> DEFINE T == {m \in 0 .. n : ~Extends(h, after[m], N(m))}
  <2>1. ASSUME T # {} PROVE FALSE
    <3>1. T \in SUBSET Nat
      OBVIOUS
    <3>2. PICK m \in T : \A l \in T : m <= l
      BY <2>1, <3>1, LeastNumber
    <3>3. m # 0
      BY <1>1, <1>3, <3>2, NoRoundExtends
    <3>4. m \in 1 .. n /\ m - 1 \in 0 .. n /\ m - 1 \notin T
      BY <1>2, <3>2, <3>3
    <3>5. Extends(h, after[m - 1], after[m])
      BY <1>1, <3>4
    <3>6. Extends(h, Round(h, after[m - 1]), N(m))
      BY <1>3, <3>4, <3>5, RoundExtends
    <3> QED  BY <1>1, <3>2, <3>4, <3>6
  <2> QED  BY <2>1
<1>5. ASSUME NEW f \in Finals(h), NEW g \in Finals(h), Extends(h, f, g), f # g
      PROVE  /\ IsFiniteSet(D(f)) /\ IsFiniteSet(D(g)) /\ Cardinality(D(f)) \in Nat
             /\ Cardinality(D(g)) \in Nat /\ Cardinality(D(g)) >= Cardinality(D(f)) + 1
  <2>1. PICK v \in Values(h) : f[v] # g[v]
    BY <1>5 DEF Finals
  <2>2. f[v] = Endless /\ g[v] # Endless
    BY <1>5, <2>1 DEF Extends
  <2>3. v \in S
    <3>1. v.type = "kValueLookup"
      BY <2>1 DEF Finals
    <3> QED  BY <3>1, ValuesAre
  <2>4. \A w \in S : w \in Values(h)
    BY DEF LookupsOf, Values
  <2>5. D(f) \cup {v} \subseteq D(g) /\ v \notin D(f)
    BY <1>5, <2>2, <2>3, <2>4 DEF Extends
  <2>6. D(f) \in SUBSET S /\ D(g) \in SUBSET S /\ D(f) \cup {v} \in SUBSET D(g)
    BY <2>5
  <2> HIDE DEF D, S
  <2>7. IsFiniteSet(D(f)) /\ IsFiniteSet(D(g))
    BY <1>2, <2>6, FS_Subset
  <2>8. Cardinality(D(f) \cup {v}) = Cardinality(D(f)) + 1
    BY <2>5, <2>7, FS_AddElement
  <2>9. Cardinality(D(f) \cup {v}) <= Cardinality(D(g))
    BY <2>6, <2>7, FS_Subset
  <2>10. Cardinality(D(f)) \in Nat /\ Cardinality(D(g)) \in Nat
    BY <2>7, FS_CardinalityType
  <2> QED  BY <2>7, <2>8, <2>9, <2>10
<1>6. ASSUME NEW f PROVE IsFiniteSet(D(f)) /\ Cardinality(D(f)) \in Nat /\ Cardinality(D(f)) <= n
                         /\ (Cardinality(D(f)) = n => D(f) = S)
  <2>1. D(f) \in SUBSET S
    OBVIOUS
  <2> HIDE DEF D, S
  <2>2. /\ IsFiniteSet(D(f)) /\ Cardinality(D(f)) <= Cardinality(S)
        /\ Cardinality(S) = Cardinality(D(f)) => S = D(f)
    BY <1>2, <2>1, FS_Subset
  <2>3. Cardinality(D(f)) \in Nat
    BY <2>2, FS_CardinalityType
  <2> QED  BY <1>2, <2>2, <2>3
<1> DEFINE C(k) == Cardinality(D(after[k])) >= k \/ N(k) = after[k]
<1>7. ASSUME NEW k \in 0 .. n PROVE C(k)
  <2> DEFINE T == {m \in 0 .. n : ~C(m)}
  <2>1. ASSUME T # {} PROVE FALSE
    <3>1. T \in SUBSET Nat
      OBVIOUS
    <3>2. PICK m \in T : \A l \in T : m <= l
      BY <2>1, <3>1, LeastNumber
    <3> HIDE DEF D, N
    <3>3. m # 0
      BY <1>6, <3>2
    <3>4. m \in 1 .. n /\ m - 1 \in 0 .. n /\ m - 1 \notin T /\ m \in 0 .. n
      BY <1>2, <3>2, <3>3
    <3>5. after[m] = N(m - 1)
      BY <1>1, <3>4 DEF N
    <3>6. CASE N(m - 1) = after[m - 1]
      BY <3>2, <3>5, <3>6 DEF N
    <3>7. CASE N(m - 1) # after[m - 1]
      <4>1. Cardinality(D(after[m - 1])) >= m - 1
        BY <3>4, <3>7
      <4>2. after[m - 1] \in Finals(h) /\ after[m] \in Finals(h) /\ Extends(h, after[m - 1], after[m])
        BY <1>3, <1>4, <3>4, <3>5
      <4>3. /\ Cardinality(D(after[m])) >= Cardinality(D(after[m - 1])) + 1
            /\ Cardinality(D(after[m])) \in Nat /\ Cardinality(D(after[m - 1])) \in Nat
        BY <1>5, <3>5, <3>7, <4>2
      <4>4. Cardinality(D(after[m])) >= m
        BY <3>4, <4>1, <4>3
      <4> QED  BY <3>2, <4>4
    <3> QED  BY <3>6, <3>7
  <2> QED  BY <2>1
<1>8. N(n) = after[n]
  <2> SUFFICES ASSUME N(n) # after[n] PROVE FALSE
    OBVIOUS
  <2> HIDE DEF D, N
  <2>1. Cardinality(D(after[n])) >= n
    BY <1>2, <1>7
  <2>2. after[n] \in Finals(h) /\ N(n) \in Finals(h) /\ Extends(h, after[n], N(n))
    BY <1>2, <1>3, <1>4 DEF N
  <2>3. Cardinality(D(N(n))) >= Cardinality(D(after[n])) + 1
    BY <1>5, <2>2
  <2> QED  BY <1>2, <1>6, <2>1, <2>3
<1> QED  BY <1>1, <1>2, <1>3, <1>8

(* The end of a lookup is the value it names.                              *)
LEMMA EndOfIs ==
  ASSUME NEW h \in Sources
  PROVE  /\ Ends(h) \in Finals(h)
         /\ \A v \in Values(h) : Ends(h)[v] = IF v.type # "kValueLookup" THEN v
                                              ELSE Named(h, Ends(h), v.keys)
<1>1. Ends(h) \in Finals(h) /\ Round(h, Ends(h)) = Ends(h)
  BY EndsFixed
<1>2. \A v \in Values(h) : Round(h, Ends(h))[v] = IF v.type # "kValueLookup" THEN v
                                                  ELSE Named(h, Ends(h), v.keys)
  BY DEF Round
<1> QED  BY <1>1, <1>2

-----------------------------------------------------------------------------
(* Whatever resolveVarRefs has replaced, the end of every chain is the one *)
(* it has in the source.                                                   *)
StructsMeant ==
  \A c \in Cells(source, "kStruct") : \A i \in DOMAIN heap[c].data :
    /\ heap[c].data[i].val \in Values(source)
    /\ EndOf(heap[c].data[i].val) = EndOf(source[c].data[i].val)
Meant == phase = "resolveVarRefs" =>
  /\ StructsMeant
  /\ chain # <<>> => chain[1].val \in Values(source) /\ EndOf(chain[1].val) = EndOf(Current)

LEMMA EndsAre ==
  ASSUME source \in Sources
  PROVE  /\ Ends(source) \in Finals(source)
         /\ \A v \in Values(source) :
              /\ EndOf(v) \in Values(source) /\ EndOf(v).type # "kValueLookup"
              /\ v.type # "kValueLookup" => EndOf(v) = v
              /\ v.type = "kValueLookup" => EndOf(v) = Named(source, Ends(source), v.keys)
BY EndOfIs DEF EndOf, Finals

(* As far as getConfigValue gets, it finds what the keys name; if a key is *)
(* missing in the tree as it is, it is missing in the source.              *)
LEMMA NamedFollows ==
  ASSUME Typed, phase = "resolveVarRefs", StructsMeant, NEW keys \in Seq(STRING),
         NEW at, EntersBy(at, keys), NEW g, NamesBy(g, source, Ends(source), keys),
         NEW n \in 0 .. Len(keys)
  PROVE  /\ IsFound(at[n]) => at[n].val \in Values(source) /\ g[n] = EndOf(at[n].val)
         /\ ~IsFound(at[n]) /\ at[n].exception = "InvalidKeyException" => g[n] = Missing
<1> DEFINE L == Len(keys)
           Right(k) == /\ IsFound(at[k]) => at[k].val \in Values(source) /\ g[k] = EndOf(at[k].val)
                       /\ ~IsFound(at[k]) /\ at[k].exception = "InvalidKeyException" => g[k] = Missing
           T == {k \in 0 .. L : ~Right(k)}
<1>1. source \in Sources /\ L \in Nat
  BY LenIs DEF Typed, Tree
<1>2. Right(0)
  <2>1. at[0] = Found(Pointer(source, Root)) /\ g[0] = Pointer(source, Root)
    BY DEF EntersBy, NamesBy
  <2>2. Found(Pointer(source, Root)).val = Pointer(source, Root) /\ IsFound(Found(Pointer(source, Root)))
    BY DEF Found, IsFound
  <2>3. Pointer(source, Root) \in Values(source) /\ Pointer(source, Root).type = "kStruct"
    BY <1>1, ValuesAre, RootIs DEF Typed
  <2> QED  BY <1>1, <2>1, <2>2, <2>3, EndsAre
<1>3. ASSUME NEW k \in 1 .. L, Right(k - 1) PROVE Right(k)
  <2> DEFINE o == at[k - 1]
  <2>1. k - 1 \in 0 .. L /\ k \in 0 .. L
    BY <1>1
  <2>2. o \in Outcome /\ at[k] = Enter(o, keys[k]) /\ keys[k] \in STRING
    BY <2>1 DEF EntersBy
  <2>3. g[k - 1] \in Values(source) /\ g[k] = Ends(source)[SourceMember(source, g[k - 1], keys[k])]
    BY <2>1 DEF NamesBy
  <2>4. /\ IsFound(o) => o.val \in Values(source) /\ g[k - 1] = EndOf(o.val)
        /\ ~IsFound(o) /\ o.exception = "InvalidKeyException" => g[k - 1] = Missing
    BY <1>3
  <2>5. Missing \in Without /\ Missing \in Values(source) /\ EndOf(Missing) = Missing
    BY <1>1, ValuesAre, WithoutAre, EndsAre DEF Without
  <2> HIDE DEF o
  <2>6. ASSUME IsFound(o), o.val.type = "kStruct"
        PROVE  /\ g[k - 1] = o.val /\ o.val.cell \in DOMAIN source /\ o.val.cell \in Cells(source, "kStruct")
               /\ o.val \in Values(source)
    <3>1. g[k - 1] = o.val /\ o.val \in Values(source)
      BY <1>1, <2>4, <2>6, EndsAre
    <3>2. o.val.cell \in DOMAIN source /\ source[o.val.cell].type = "kStruct"
      BY <1>1, <2>6, <3>1, ValuesAre DEF Container
    <3> QED  BY <3>1, <3>2 DEF Cells
  <2>7. CASE IsFound(at[k])
    <3>1. /\ IsFound(o) /\ o.val.type = "kStruct" /\ o.val.cell \in DOMAIN source
          /\ \E i \in DOMAIN heap[o.val.cell].data :
               /\ heap[o.val.cell].data[i].key = keys[k]
               /\ at[k].val = heap[o.val.cell].data[i].val
      BY <2>2, <2>7, EnterIs DEF Typed
    <3> DEFINE c == o.val.cell
    <3>2. PICK i \in DOMAIN heap[c].data : heap[c].data[i].key = keys[k] /\ at[k].val = heap[c].data[i].val
      BY <3>1
    <3>3. c \in Cells(source, "kStruct") /\ g[k - 1] = o.val /\ o.val \in Values(source)
      BY <2>6, <3>1
    <3>4. i \in DOMAIN source[c].data /\ source[c].data[i].key = keys[k]
      BY <3>1, <3>2 DEF Typed, SameKeys
    <3>5. SourceMember(source, o.val, keys[k]) = source[c].data[i].val
      BY <1>1, <3>1, <3>3, <3>4, SourceMemberIs
    <3>6. g[k] = EndOf(source[c].data[i].val)
      BY <2>3, <3>3, <3>5 DEF EndOf
    <3>7. at[k].val \in Values(source) /\ EndOf(at[k].val) = EndOf(source[c].data[i].val)
      BY <3>2, <3>3 DEF StructsMeant
    <3> QED  BY <2>7, <3>6, <3>7
  <2>8. CASE ~IsFound(at[k]) /\ at[k].exception = "InvalidKeyException"
    <3>1. CASE ~IsFound(o)
      <4>1. at[k] = o
        BY <2>2, <3>1, EnterIs DEF Typed
      <4>2. g[k - 1] = Missing
        BY <2>4, <2>8, <4>1
      <4>3. SourceMember(source, Missing, keys[k]) = Missing
        BY <1>1, <2>5, SourceMemberIs
      <4> QED  BY <2>3, <2>5, <2>8, <4>2, <4>3 DEF EndOf
    <3>2. CASE IsFound(o)
      <4>1. /\ o.val.type = "kStruct" /\ o.val.cell \in DOMAIN source
            /\ \A i \in DOMAIN heap[o.val.cell].data : heap[o.val.cell].data[i].key # keys[k]
        BY <2>2, <2>8, <3>2, EnterIs DEF Typed
      <4>2. g[k - 1] = o.val /\ o.val \in Values(source)
        BY <2>6, <3>2, <4>1
      <4>3. \A i \in DOMAIN source[o.val.cell].data : source[o.val.cell].data[i].key # keys[k]
        BY <4>1 DEF Typed, SameKeys
      <4>4. SourceMember(source, o.val, keys[k]) = Missing
        BY <1>1, <4>1, <4>2, <4>3, SourceMemberIs
      <4> QED  BY <2>3, <2>5, <2>8, <4>2, <4>4 DEF EndOf
    <3> QED  BY <3>1, <3>2
  <2> QED  BY <2>7, <2>8
<1> HIDE DEF Right
<1>4. ASSUME T # {} PROVE FALSE
  <2>0. T \in SUBSET Nat
    <3> HIDE DEF L
    <3> QED  BY <1>1
  <2>1. PICK k \in T : \A j \in T : k <= j
    <3> HIDE DEF T
    <3> QED  BY <1>4, <2>0, LeastNumber
  <2>2. k \in 1 .. L /\ k - 1 \in 0 .. L /\ k - 1 \notin T
    <3>1. k # 0
      BY <1>2, <2>1
    <3>2. k \in 0 .. L /\ \A j \in T : j \in 0 .. L
      BY <2>1
    <3> HIDE DEF T, L
    <3> QED  BY <1>1, <2>1, <3>1, <3>2
  <2> QED  BY <1>3, <2>1, <2>2
<1> QED  BY <1>4 DEF Right

(* What the lookup that is followed leads to next.                         *)
LEMMA FollowMeant ==
  ASSUME Typed, Meant, phase = "resolveVarRefs", chain # <<>>, chain[1].val.type = "kValueLookup"
  PROVE  LET next == getConfigValue(chain[1].val.keys)
         IN  /\ chain[1].val \in LookupsOf(source)
             /\ IsFound(next) => next.val \in Values(source) /\ EndOf(next.val) = EndOf(chain[1].val)
             /\ ~IsFound(next) /\ next.exception = "InvalidKeyException" => EndOf(chain[1].val) = Missing
<1> DEFINE keys == chain[1].val.keys
<1>1. source \in Sources /\ chain[1].val \in Values(source) /\ StructsMeant
  BY DEF Typed, Tree, Meant
<1>2. chain[1].val \in LookupsOf(source) /\ keys \in Seq(STRING)
  BY <1>1, ValuesAre, LookupKeys
<1>3. EndOf(chain[1].val) = Named(source, Ends(source), keys) /\ Ends(source) \in Finals(source)
  BY <1>1, EndsAre
<1> HIDE DEF keys
<1>4. PICK at : EntersBy(at, keys) /\ getConfigValue(keys) = at[Len(keys)]
  BY <1>2, EnterSteps DEF Typed
<1>5. PICK g : NamesBy(g, source, Ends(source), keys) /\ Named(source, Ends(source), keys) = g[Len(keys)]
  BY <1>1, <1>2, <1>3, NamedSteps
<1>6. Len(keys) \in 0 .. Len(keys)
  BY <1>2
<1>7. LET o == at[Len(keys)]
      IN  /\ IsFound(o) => o.val \in Values(source) /\ g[Len(keys)] = EndOf(o.val)
          /\ ~IsFound(o) /\ o.exception = "InvalidKeyException" => g[Len(keys)] = Missing
  BY <1>1, <1>2, <1>4, <1>5, <1>6, NamedFollows
<1> QED  BY <1>2, <1>3, <1>4, <1>5, <1>7 DEF keys

LEMMA MeantInit == ASSUME Init PROVE Meant
<1>1. source \in Sources /\ heap = source /\ chain = <<>>
  BY DEF Init
<1>2. ASSUME NEW c \in Cells(source, "kStruct"), NEW i \in DOMAIN source[c].data
      PROVE  source[c].data[i].val \in Values(source)
  BY <1>1, CellsAre, ValuesAre
<1> QED  BY <1>1, <1>2 DEF Meant, StructsMeant

LEMMA StructsMeantPrimed ==
  ASSUME source' = source,
         \A c \in Cells(source, "kStruct") : \A i \in DOMAIN heap'[c].data :
           /\ heap'[c].data[i].val \in Values(source)
           /\ EndOf(heap'[c].data[i].val) = EndOf(source[c].data[i].val)
  PROVE  StructsMeant'
BY DEF StructsMeant, EndOf, Cells

LEMMA MeantPrimed ==
  ASSUME source' = source, StructsMeant',
         chain' # <<>> => chain'[1].val \in Values(source) /\ EndOf(chain'[1].val) = EndOf(Current')
  PROVE  Meant'
BY DEF Meant, EndOf

LEMMA MeantStep == ASSUME Typed, Rewritten, Visiting, Meant, [Next]_vars PROVE Meant'
<1> SUFFICES ASSUME phase' = "resolveVarRefs" PROVE Meant'
  BY DEF Meant
<1>1. phase = "resolveVarRefs" /\ StructsMeant
  BY PhaseEntered DEF Exception, Meant
<1>2. source' = source /\ source \in Sources
  BY SourceKept DEF Typed, Tree
<1>3. CASE heap' = heap /\ chain' = <<>>
  BY <1>1, <1>2, <1>3, StructsMeantPrimed DEF Meant, StructsMeant
<1>4. CASE BeginChain
  <2> DEFINE l == [refs |-> <<SrcKey>>, val |-> Current]
  <2>1. /\ AtEntry /\ Current.type = "kValueLookup" /\ chain' = <<l>> /\ UNCHANGED <<heap, walk>>
    BY <1>4 DEF BeginChain
  <2>2. l.val = Current
    OBVIOUS
  <2> HIDE DEF l
  <2>3. chain'[1] = l /\ Current' = Current
    BY <2>1 DEF Current, Cell, Here
  <2>4. Current \in Values(source)
    <3>1. /\ Here.at \in DOMAIN heap[Here.cell].data /\ Here.cell \in DOMAIN source
          /\ Current = heap[Here.cell].data[Here.at].val
      BY <2>1, CurrentIs
    <3>2. Here.at \in DOMAIN source[Here.cell].data /\ source[Here.cell].data[Here.at].val = Current
      BY <1>1, <2>1, <3>1 DEF Typed, SameKeys, Rewritten, LookupsLeft
    <3> QED  BY <1>2, <3>1, <3>2, ValuesAre
  <2>5. StructsMeant'
    BY <1>1, <1>2, <2>1, StructsMeantPrimed DEF StructsMeant
  <2>6. chain'[1].val \in Values(source) /\ EndOf(chain'[1].val) = EndOf(Current')
    BY <2>2, <2>3, <2>4
  <2> QED  BY <1>2, <2>5, <2>6, MeantPrimed
<1>5. CASE Follow
  <2> DEFINE var == chain[1].val.keys
             next == getConfigValue(var)
             l == [refs |-> Append(chain[1].refs, var), val |-> next.val]
  <2>1. /\ chain # <<>> /\ chain[1].val.type = "kValueLookup"
        /\ IsFound(next) /\ UNCHANGED <<source, heap, walk, phase>> /\ chain' = <<l>>
    BY <1>1, <1>5, FollowIs DEF Fail
  <2>2. next.val \in Values(source) /\ EndOf(next.val) = EndOf(chain[1].val)
    BY <1>1, <2>1, FollowMeant
  <2>3. l.val = next.val
    OBVIOUS
  <2> HIDE DEF l, next
  <2>4. chain'[1] = l /\ Current' = Current
    BY <2>1 DEF Current, Cell, Here
  <2>5. StructsMeant'
    BY <1>1, <1>2, <2>1, StructsMeantPrimed DEF StructsMeant
  <2>6. EndOf(chain[1].val) = EndOf(Current)
    BY <1>1, <2>1 DEF Meant
  <2>7. chain'[1].val \in Values(source) /\ EndOf(chain'[1].val) = EndOf(Current')
    BY <2>2, <2>3, <2>4, <2>6
  <2> QED  BY <1>2, <2>5, <2>7, MeantPrimed
<1>6. CASE EndInStruct
  <2> DEFINE v == chain[1].val
  <2>1. AtEndOfChain("kStruct")
    BY <1>6 DEF EndInStruct
  <2>2. Written(v) /\ chain' = <<>>
    BY <1>6, EndInStructIs
  <2>3. /\ chain # <<>> /\ Here.at \in DOMAIN Cell.data /\ Here.cell \in DOMAIN source
        /\ source[Here.cell].type = "kStruct"
    BY <2>1, EndOfChainIs
  <2>4. v \in Values(source) /\ EndOf(v) = EndOf(heap[Here.cell].data[Here.at].val)
    BY <1>1, <2>3 DEF Meant, Current, Cell
  <2> HIDE DEF v
  <2>5. ASSUME NEW c \in Cells(source, "kStruct"), NEW i \in DOMAIN heap'[c].data
        PROVE  /\ heap'[c].data[i].val \in Values(source)
               /\ EndOf(heap'[c].data[i].val) = EndOf(source[c].data[i].val)
    <3>1. i \in DOMAIN heap[c].data /\ c \in DOMAIN source
      BY <2>2, CellsAre DEF Written
    <3>2. heap'[c].data[i].val = IF c = Here.cell /\ i = Here.at THEN v ELSE heap[c].data[i].val
      BY <2>2, <3>1 DEF Written
    <3> QED  BY <1>1, <2>4, <3>1, <3>2 DEF StructsMeant
  <2>6. StructsMeant'
    BY <1>2, <2>5, StructsMeantPrimed
  <2> QED  BY <2>2, <2>6 DEF Meant
<1>7. ASSUME NEW v, Written(v), chain' = <<>>, source[Here.cell].type # "kStruct" PROVE Meant'
  <2>1. ASSUME NEW c \in Cells(source, "kStruct") PROVE heap'[c] = heap[c]
    BY <1>7, CellsAre DEF Written
  <2>2. StructsMeant'
    BY <1>1, <1>2, <2>1, StructsMeantPrimed DEF StructsMeant
  <2> QED  BY <1>7, <2>2 DEF Meant
<1>8. CASE EndInList
  BY <1>7, <1>8, EndInListIs
<1>9. CASE EndInExpression
  <2> DEFINE v == OperandOf(chain[1].val)
  <2>1. Written(v) /\ chain' = <<>> /\ source[Here.cell].type = "kExpression"
    BY <1>9, EndInExpressionIs
  <2> HIDE DEF v
  <2> QED  BY <1>7, <2>1
<1>10. CASE Descend \/ Skip \/ Return
  <2>1. heap' = heap /\ chain' = <<>>
    <3>1. Descend => heap' = heap /\ chain' = <<>>
      BY <1>1, DescendIs DEF Fail, AtEntry
    <3>2. Skip => heap' = heap /\ chain' = <<>>
      BY DEF Skip, AtEntry
    <3>3. Return => heap' = heap /\ chain' = <<>>
      BY <1>1, ReturnIs
    <3> QED  BY <1>10, <3>1, <3>2, <3>3
  <2> QED  BY <1>3, <2>1
<1>11. CASE Finished \/ UNCHANGED vars
  <2>1. UNCHANGED <<source, heap, walk, chain, phase>>
    BY <1>11 DEF Finished, vars
  <2>2. StructsMeant'
    BY <1>1, <1>2, <2>1, StructsMeantPrimed DEF StructsMeant
  <2>3. chain # <<>> => chain'[1].val \in Values(source) /\ EndOf(chain'[1].val) = EndOf(Current')
    <3>1. Current' = Current
      BY <2>1 DEF Current, Cell, Here
    <3> QED  BY <1>1, <2>1, <3>1 DEF Meant
  <2> QED  BY <1>2, <2>1, <2>2, <2>3, MeantPrimed
<1>12. ~Evaluate
  BY <1>1 DEF Evaluate
<1> QED  BY <1>4, <1>5, <1>6, <1>8, <1>9, <1>10, <1>11, <1>12 DEF Next

LEMMA MissingKeyStep ==
  ASSUME Typed, Meant, MissingKeyIsReal, [Next]_vars
  PROVE  MissingKeyIsReal'
<1> SUFFICES ASSUME phase' = "InvalidKeyException"
             PROVE  \E v \in LookupsOf(source) : EndOf(v) = Missing
  <2>1. source' = source
    BY SourceKept
  <2> QED  BY <2>1 DEF MissingKeyIsReal, EndOf
<1>1. CASE Finished \/ UNCHANGED vars
  BY <1>1 DEF Finished, vars, MissingKeyIsReal
<1>2. CASE Follow
  <2> DEFINE next == getConfigValue(chain[1].val.keys)
  <2>1. /\ phase = "resolveVarRefs" /\ chain # <<>> /\ chain[1].val.type = "kValueLookup"
        /\ ~IsFound(next) /\ next.exception = "InvalidKeyException"
    BY <1>2, FollowIs DEF Fail
  <2>2. chain[1].val \in LookupsOf(source) /\ EndOf(chain[1].val) = Missing
    BY <2>1, FollowMeant
  <2> QED  BY <2>2
<1>3. ~Skip /\ ~BeginChain /\ ~EndInStruct
  BY DEF Skip, AtEntry, BeginChain, EndInStruct, AtEndOfChain, Replace, Walking
<1>4. ~Descend
  BY DescendIs DEF Fail, AtEntry, Walking
<1>5. ~Return
  BY ReturnIs DEF Walking
<1>6. ~EndInList /\ ~EndInExpression /\ ~Evaluate
  <2>1. ASSUME EndInList \/ EndInExpression \/ Evaluate PROVE FALSE
    <3>1. phase' = phase
      BY <2>1, EndInListIs, EndInExpressionIs, EvaluateIs
    <3>2. phase \in {"resolveVarRefs", "evaluateExpressions"}
      BY <2>1 DEF EndInList, EndInExpression, Evaluate, AtEndOfChain
    <3> QED  BY <3>1, <3>2
  <2> QED  BY <2>1
<1> QED  BY <1>1, <1>2, <1>3, <1>4, <1>5, <1>6 DEF Next

LEMMA MeantAlways == Spec => [](Resolving /\ Meant)
<1>1. Resolving /\ Meant /\ [Next]_vars => Meant'
  BY MeantStep DEF Resolving
<1>2. Init => Meant
  BY MeantInit
<1> QED  BY <1>1, <1>2, ResolvingInit, ResolvingStep, PTL DEF Spec

(* InvalidKeyException means that some lookup names a key that is nowhere, *)
(* not one that is still to come or has been replaced already              *)
(* (config_helpers.cpp:366): what is replaced has the end it always had.   *)
THEOREM MissingKeysAreReal == Spec => []MissingKeyIsReal
<1>1. Init => MissingKeyIsReal
  BY DEF Init, MissingKeyIsReal
<1>2. Resolving /\ Meant /\ MissingKeyIsReal /\ [Next]_vars => MissingKeyIsReal'
  BY MissingKeyStep DEF Resolving
<1> QED  BY <1>1, <1>2, MeantAlways, PTL DEF Spec

-----------------------------------------------------------------------------
(* After resolveVarRefs the walks go along edges of Containment, but for   *)
(* the step into a list, so they meet a struct twice only on a cycle.      *)
Structs == Cells(source, "kStruct")
Within(c, d) == <<c, d>> \in Containment.edge
StructsWithin ==
  \A c \in Structs : \A i \in DOMAIN heap[c].data :
    heap[c].data[i].val.type = "kStruct" => Within(c, heap[c].data[i].val.cell)
WalkWithin(w, p) ==
  /\ \A n \in 1 .. Len(w) : n # Len(w) \/ p = "cleanupConfig" => w[n].cell \in Structs
  /\ \A n \in 1 .. (Len(w) - 1) : w[n + 1].cell \in Structs => Within(w[n].cell, w[n + 1].cell)
Contained == phase \in {"evaluateExpressions", "cleanupConfig"} => StructsWithin /\ WalkWithin(walk, phase)

LEMMA CyclicPath ==
  ASSUME NEW G, NEW p, NEW m \in Nat, NEW n \in Nat, m < n, p[m] = p[n],
         \A k \in m .. (n - 1) : p[k] \in G.node /\ <<p[k], p[k + 1]>> \in G.edge
  PROVE  Cyclic(G)
<1> DEFINE nodes == {p[k] : k \in m .. (n - 1)}
<1>1. m \in m .. (n - 1) /\ \A k \in m .. (n - 1) : k + 1 = n \/ k + 1 \in m .. (n - 1)
  OBVIOUS
<1>2. nodes \in (SUBSET G.node) \ {{}}
  BY <1>1
<1>3. ASSUME NEW a \in nodes PROVE \E b \in nodes : <<a, b>> \in G.edge
  <2>1. PICK k \in m .. (n - 1) : a = p[k]
    OBVIOUS
  <2>2. p[k + 1] \in nodes
    BY <1>1
  <2> QED  BY <2>1, <2>2
<1> QED  BY <1>2, <1>3 DEF Cyclic

LEMMA WithinIs ==
  ASSUME NEW c \in Structs, NEW d \in Structs, NEW i \in DOMAIN source[c].data,
         EndOf(source[c].data[i].val) = Pointer(source, d)
  PROVE  Within(c, d)
<1>1. source[c].data[i].val \in ValuesIn(c)
  BY DEF ValuesIn
<1>2. Containment.edge = {e \in Structs \X Structs : \E v \in ValuesIn(e[1]) : EndOf(v) = Pointer(source, e[2])}
  BY DEF Containment, Structs
<1>3. <<c, d>> \in Structs \X Structs /\ <<c, d>>[1] = c /\ <<c, d>>[2] = d
  OBVIOUS
<1> QED  BY <1>1, <1>2, <1>3 DEF Within

LEMMA StructsWithinBegins ==
  ASSUME Typed, phase = "resolveVarRefs", StructsMeant
  PROVE  StructsWithin
<1> SUFFICES ASSUME NEW c \in Structs, NEW i \in DOMAIN heap[c].data, heap[c].data[i].val.type = "kStruct"
             PROVE  Within(c, heap[c].data[i].val.cell)
  BY DEF StructsWithin
<1> DEFINE v == heap[c].data[i].val
           d == v.cell
<1>1. source \in Sources /\ c \in DOMAIN source /\ c \in Cells(source, "kStruct")
  BY CellsAre DEF Typed, Tree, Structs
<1>2. v \in Values(source) /\ EndOf(v) = EndOf(source[c].data[i].val)
  BY <1>1 DEF StructsMeant
<1>3. i \in DOMAIN source[c].data
  BY <1>1 DEF Typed, SameKeys
<1>4. EndOf(v) = v /\ d \in DOMAIN source /\ v = Pointer(source, d) /\ source[d].type = "kStruct"
  BY <1>1, <1>2, EndsAre, ValuesAre DEF Container
<1>5. d \in Structs
  BY <1>4 DEF Structs, Cells
<1> HIDE DEF v, d
<1> QED  BY <1>2, <1>3, <1>4, <1>5, WithinIs DEF v, d

LEMMA ContainmentSame == ASSUME source' = source PROVE Structs' = Structs /\ Containment' = Containment
BY KeysSame DEF Structs, Containment, EndOf, Cells, ValuesIn, Pointer

LEMMA ContainedPrimed ==
  ASSUME source' = source, StructsWithin', WalkWithin(walk', phase')
  PROVE  Contained'
<1>1. Structs' = Structs /\ Containment' = Containment
  BY ContainmentSame
<1>2. WalkWithin(walk, phase)'
  BY <1>1 DEF WalkWithin, Within
<1> QED  BY <1>2 DEF Contained

LEMMA StructsWithinPrimed ==
  ASSUME source' = source,
         \A c \in Structs : \A i \in DOMAIN heap'[c].data :
           heap'[c].data[i].val.type = "kStruct" => Within(c, heap'[c].data[i].val.cell)
  PROVE  StructsWithin'
<1>1. Structs' = Structs /\ Containment' = Containment
  BY ContainmentSame
<1> QED  BY <1>1 DEF StructsWithin, Within

LEMMA StructsWithinStep ==
  ASSUME Typed, StructsWithin, [Next]_vars, phase \in {"evaluateExpressions", "cleanupConfig"},
         phase' \notin Exception
  PROVE  StructsWithin'
<1>1. source' = source
  BY SourceKept
<1>2. ASSUME NEW c \in Structs, NEW i \in DOMAIN heap'[c].data, heap'[c].data[i].val.type = "kStruct"
      PROVE  Within(c, heap'[c].data[i].val.cell)
  <2>1. c \in DOMAIN source
    BY CellsAre DEF Structs
  <2>2. PICK j \in DOMAIN heap[c].data : heap'[c].data[i] = heap[c].data[j]
    BY <1>2, <2>1, AfterResolving
  <2> QED  BY <1>2, <2>2 DEF StructsWithin
<1> QED  BY <1>1, <1>2, StructsWithinPrimed

LEMMA WalkWithinCells ==
  ASSUME NEW w, NEW u, NEW p, WalkWithin(w, p), Len(w) \in Nat, Len(u) \in Nat, Len(u) <= Len(w),
         \A n \in 1 .. Len(u) : u[n].cell = w[n].cell
  PROVE  WalkWithin(u, p)
<1>1. /\ \A n \in 1 .. Len(u) : n \in 1 .. Len(w) /\ (n # Len(u) => n # Len(w))
      /\ \A n \in 1 .. (Len(u) - 1) : n \in 1 .. (Len(w) - 1) /\ n \in 1 .. Len(u) /\ n + 1 \in 1 .. Len(u)
  OBVIOUS
<1>2. \A n \in 1 .. Len(u) : n # Len(u) \/ p = "cleanupConfig" => u[n].cell \in Structs
  BY <1>1 DEF WalkWithin
<1>3. \A n \in 1 .. (Len(u) - 1) : u[n + 1].cell \in Structs => Within(u[n].cell, u[n + 1].cell)
  BY <1>1 DEF WalkWithin
<1> QED  BY <1>2, <1>3 DEF WalkWithin

(* What is entered after resolveVarRefs: a struct within the one the walk  *)
(* is in, or a list.                                                       *)
LEMMA EntersWithin ==
  ASSUME Typed, Contained, phase \in {"evaluateExpressions", "cleanupConfig"}, Descend
  PROVE  LET d == Current.cell
         IN  /\ \A n \in 1 .. Len(walk) : walk[n].cell \in Structs
             /\ d \in DOMAIN source
             /\ \/ d \in Structs /\ Within(Here.cell, d)
                \/ d \notin Structs /\ phase = "evaluateExpressions"
<1> DEFINE d == Current.cell
<1>1. AtEntry /\ Enters(Current) /\ WalkWithin(walk, phase) /\ StructsWithin
  BY DescendIs DEF Contained
<1>2. /\ Here.at \in DOMAIN heap[Here.cell].data /\ Here.cell \in DOMAIN source
      /\ Current = heap[Here.cell].data[Here.at].val /\ Cell.type = source[Here.cell].type
  BY <1>1, CurrentIs DEF Typed, Tree
<1>3. Current.type \in Container /\ d \in DOMAIN source /\ source[d].type = Current.type
  BY <1>1, EntersIs
<1>4. Here = walk[Len(walk)] /\ Len(walk) \in 1 .. Len(walk)
  BY HereIs DEF Typed
<1>5. Here.cell \in Structs
  <2>1. CASE phase = "evaluateExpressions"
    <3>1. Cell.type = "kStruct"
      BY <1>1, <2>1 DEF Enters
    <3> QED  BY <1>2, <3>1 DEF Structs, Cells
  <2>2. CASE phase = "cleanupConfig"
    BY <1>1, <1>4, <2>2 DEF WalkWithin
  <2> QED  BY <2>1, <2>2
<1>6. \A n \in 1 .. Len(walk) : walk[n].cell \in Structs
  BY <1>1, <1>4, <1>5 DEF WalkWithin
<1>7. d \in Structs <=> Current.type = "kStruct"
  BY <1>3 DEF Structs, Cells
<1>8. phase = "cleanupConfig" => Current.type = "kStruct"
  BY <1>1 DEF Enters
<1>9. Current.type = "kStruct" => Within(Here.cell, d)
  BY <1>1, <1>2, <1>5 DEF StructsWithin
<1> QED  BY <1>3, <1>6, <1>7, <1>8, <1>9

LEMMA ContainedStep ==
  ASSUME Typed, Meant, Contained, [Next]_vars
  PROVE  Contained'
<1> SUFFICES ASSUME phase' \in {"evaluateExpressions", "cleanupConfig"} PROVE Contained'
  BY DEF Contained
<1>1. source' = source /\ phase' \notin Exception
  BY SourceKept DEF Exception
<1>2. CASE phase' # phase
  <2>1. /\ Return /\ Len(walk) = 1
        /\ \/ phase = "resolveVarRefs" /\ phase' = "evaluateExpressions"
           \/ phase = "evaluateExpressions" /\ phase' = "cleanupConfig"
    BY <1>1, <1>2, PhaseEntered
  <2>2. StructsWithin'
    <3>1. CASE phase = "resolveVarRefs"
      <4>1. StructsWithin /\ heap' = heap
        BY <2>1, <3>1, StructsWithinBegins, ReturnIs DEF Meant
      <4> QED  BY <1>1, <4>1, StructsWithinPrimed DEF StructsWithin
    <3>2. CASE phase = "evaluateExpressions"
      BY <1>1, <3>2, StructsWithinStep DEF Contained
    <3> QED  BY <2>1, <3>1, <3>2
  <2>3. Len(walk') = 1 /\ walk'[1].cell = Root
    BY <2>1, ReturnIs, WalkStarts
  <2>4. WalkWithin(walk', phase')
    <3>1. Root \in Structs
      BY RootHolds DEF Typed, Structs
    <3>2. \A n \in 1 .. (Len(walk') - 1) : FALSE
      BY <2>3
    <3>3. \A n \in 1 .. Len(walk') : n = 1
      BY <2>3
    <3> QED  BY <2>3, <3>1, <3>2, <3>3 DEF WalkWithin
  <2> QED  BY <1>1, <2>2, <2>4, ContainedPrimed
<1>3. CASE phase' = phase
  <2> DEFINE L == Len(walk)
             w == walk'
  <2>1. StructsWithin /\ WalkWithin(walk, phase) /\ StructsWithin'
    BY <1>1, <1>3, StructsWithinStep DEF Contained
  <2>2. L \in Nat \ {0} /\ Here = walk[L]
    BY HereIs DEF Typed
  <2>3. CASE Descend
    <3> DEFINE f == [cell |-> Current.cell, at |-> 1]
    <3>1. L # MaxDepth /\ w = Append(walk, f)
      BY <1>1, <1>3, <2>3, DescendIs DEF Fail
    <3>2. /\ \A n \in 1 .. L : walk[n].cell \in Structs
          /\ f.cell \in DOMAIN source
          /\ \/ f.cell \in Structs /\ Within(Here.cell, f.cell)
             \/ f.cell \notin Structs /\ phase = "evaluateExpressions"
      BY <1>3, <2>3, EntersWithin
    <3>3. f \in Frame
      BY <3>2 DEF Frame
    <3> HIDE DEF f, w
    <3>4. Len(w) = L + 1 /\ (\A n \in 1 .. L : w[n] = walk[n]) /\ w[L + 1] = f
      BY <3>1, <3>3, PushIs DEF Typed
    <3> HIDE DEF L
    <3>5. /\ \A n \in 1 .. Len(w) : n \in 1 .. L \/ n = L + 1
          /\ \A n \in 1 .. (Len(w) - 1) : n \in 1 .. L /\ (n = L \/ (n \in 1 .. (L - 1) /\ n + 1 \in 1 .. L))
      BY <2>2, <3>4
    <3>6. ASSUME NEW n \in 1 .. Len(w), n # Len(w) \/ phase = "cleanupConfig" PROVE w[n].cell \in Structs
      BY <3>2, <3>4, <3>5, <3>6 DEF L
    <3>7. ASSUME NEW n \in 1 .. (Len(w) - 1), w[n + 1].cell \in Structs
          PROVE  Within(w[n].cell, w[n + 1].cell)
      BY <2>1, <2>2, <3>2, <3>4, <3>5, <3>7 DEF WalkWithin, L
    <3>8. WalkWithin(w, phase)
      BY <3>6, <3>7 DEF WalkWithin
    <3> QED  BY <1>1, <1>3, <2>1, <3>8, ContainedPrimed DEF w
  <2>4. ASSUME Len(w) \in Nat, Len(w) <= L, \A n \in 1 .. Len(w) : w[n].cell = walk[n].cell
        PROVE  Contained'
    <3> HIDE DEF w
    <3>1. WalkWithin(w, phase)
      BY <2>1, <2>2, <2>4, WalkWithinCells
    <3> QED  BY <1>1, <1>3, <2>1, <3>1, ContainedPrimed DEF w
  <2>5. CASE walk' = Advance(walk)
    <3>1. Len(w) = L /\ \A n \in 1 .. L : w[n].cell = walk[n].cell
      BY <2>5, AdvanceIs DEF Typed
    <3> QED  BY <2>2, <2>4, <3>1
  <2>6. CASE Return
    <3>1. Len(walk) > 1
      BY <1>3, <2>6, ReturnIs DEF Walking
    <3>2. w = Advance(Front(walk))
      BY <2>6, <3>1, ReturnIs
    <3>3. Len(w) = L - 1 /\ \A n \in 1 .. (L - 1) : w[n].cell = walk[n].cell
      BY <3>1, <3>2, PopIs DEF Typed
    <3>4. Len(w) \in Nat /\ Len(w) <= L
      <4> HIDE DEF w, L
      <4> QED  BY <2>2, <3>3
    <3> QED  BY <2>4, <3>3, <3>4
  <2>7. CASE UNCHANGED walk
    BY <2>2, <2>4, <2>7
  <2>8. Skip => walk' = Advance(walk)
    BY DEF Skip
  <2>9. Evaluate => walk' = Advance(walk)
    BY <1>1, EvaluateIs DEF Exception
  <2>10. Finished \/ UNCHANGED vars => UNCHANGED walk
    BY DEF Finished, vars
  <2>11. ~BeginChain /\ ~Follow /\ ~EndInStruct /\ ~EndInList /\ ~EndInExpression
    BY <1>3 DEF BeginChain, Follow, EndInStruct, EndInList, EndInExpression, AtEndOfChain
  <2> QED  BY <2>3, <2>5, <2>6, <2>7, <2>8, <2>9, <2>10, <2>11 DEF Next
<1> QED  BY <1>2, <1>3

LEMMA OverflowIsReal ==
  ASSUME Typed, Contained, phase \in {"evaluateExpressions", "cleanupConfig"}, Descend,
         Len(walk) = MaxDepth
  PROVE  Cyclic(Containment)
<1> SUFFICES ASSUME ~Cyclic(Containment) PROVE FALSE
  OBVIOUS
<1> DEFINE L == Len(walk)
           d == Current.cell
           p == [k \in 1 .. (L + 1) |-> IF k = L + 1 THEN d ELSE walk[k].cell]
<1>1. /\ \A n \in 1 .. Len(walk) : walk[n].cell \in Structs
      /\ d \in DOMAIN source
      /\ \/ d \in Structs /\ Within(Here.cell, d)
         \/ d \notin Structs
  BY EntersWithin
<1>2. L \in Nat \ {0} /\ Here = walk[L] /\ MaxDepth \in Nat /\ walk \in Seq(Frame) /\ Tree
  BY HereIs DEF Typed, Calls
<1>3. Containment.node = Structs
  BY DEF Containment, Structs
<1> HIDE DEF d, L
<1>4. /\ \A k \in 1 .. L : p[k] = walk[k].cell
      /\ p[L + 1] = d
  BY <1>2
<1>5. ASSUME NEW k \in 1 .. (L - 1) PROVE <<p[k], p[k + 1]>> \in Containment.edge
  <2>1. k \in 1 .. L /\ k + 1 \in 1 .. L
    BY <1>2
  <2>2. Within(walk[k].cell, walk[k + 1].cell)
    BY <1>1, <2>1 DEF Contained, WalkWithin, L
  <2> HIDE DEF p
  <2> QED  BY <1>4, <2>1, <2>2 DEF Within
<1>6. d \in Structs => <<p[L], p[L + 1]>> \in Containment.edge
  <2>1. L \in 1 .. L
    BY <1>2
  <2> HIDE DEF p
  <2> QED  BY <1>1, <1>2, <1>4, <2>1 DEF Within
<1> HIDE DEF p
<1>7. ASSUME NEW m \in 1 .. L, NEW n \in 1 .. L, m < n PROVE walk[m].cell # walk[n].cell
  <2> SUFFICES ASSUME walk[m].cell = walk[n].cell PROVE FALSE
    OBVIOUS
  <2>1. \A k \in m .. (n - 1) : k \in 1 .. L /\ k \in 1 .. (L - 1)
    BY <1>2
  <2>2. \A k \in m .. (n - 1) : p[k] \in Containment.node /\ <<p[k], p[k + 1]>> \in Containment.edge
    BY <1>1, <1>3, <1>4, <1>5, <2>1 DEF L
  <2>3. m \in Nat /\ n \in Nat /\ p[m] = p[n]
    BY <1>2, <1>4
  <2> QED  BY <1>7, <2>2, <2>3, CyclicPath
<1>8. ASSUME NEW m \in 1 .. L PROVE walk[m].cell # d
  <2>1. CASE d \notin Structs
    BY <1>1, <2>1 DEF L
  <2>2. CASE d \in Structs
    <3> SUFFICES ASSUME walk[m].cell = d PROVE FALSE
      OBVIOUS
    <3>1. \A k \in m .. ((L + 1) - 1) : k \in 1 .. L /\ (k = L \/ k \in 1 .. (L - 1))
      BY <1>2
    <3>2. \A k \in m .. ((L + 1) - 1) : p[k] \in Containment.node /\ <<p[k], p[k + 1]>> \in Containment.edge
      BY <1>1, <1>3, <1>4, <1>5, <1>6, <2>2, <3>1 DEF L
    <3>3. m \in Nat /\ L + 1 \in Nat /\ m < L + 1 /\ p[m] = p[L + 1]
      BY <1>2, <1>4
    <3> QED  BY <3>2, <3>3, CyclicPath
  <2> QED  BY <2>1, <2>2
<1>9. L < MaxDepth
  BY <1>1, <1>2, <1>7, <1>8, DistinctFit DEF L
<1> QED  BY <1>2, <1>9 DEF L

LEMMA RecursionStep ==
  ASSUME Typed, Rewritten, Visiting, Contained, RecursionEnds, [Next]_vars
  PROVE  RecursionEnds'
<1> SUFFICES ASSUME phase' = "stack overflow" PROVE Cyclic(Containment)
  <2>1. source' = source
    BY SourceKept
  <2>2. Containment' = Containment
    BY <2>1, ContainmentSame
  <2> QED  BY <2>2 DEF RecursionEnds, Cyclic
<1>1. CASE Finished \/ UNCHANGED vars
  BY <1>1 DEF Finished, vars, RecursionEnds
<1>2. CASE Descend
  <2>1. phase \in Walking
    BY <1>2, DescendIs DEF AtEntry
  <2>2. Len(walk) = MaxDepth /\ phase # "resolveVarRefs"
    BY <1>2, <2>1, DescendIs, VisitingDescend DEF Walking
  <2>3. phase \in {"evaluateExpressions", "cleanupConfig"}
    BY <2>1, <2>2 DEF Walking
  <2> QED  BY <1>2, <2>2, <2>3, OverflowIsReal
<1>3. ~Skip /\ ~BeginChain /\ ~EndInStruct
  BY DEF Skip, AtEntry, BeginChain, EndInStruct, AtEndOfChain, Replace, Walking
<1>4. ~Follow
  BY FollowIs DEF Fail
<1>5. ~Return
  BY ReturnIs DEF Walking
<1>6. ~EndInList /\ ~EndInExpression /\ ~Evaluate
  <2>1. ASSUME EndInList \/ EndInExpression \/ Evaluate PROVE FALSE
    <3>1. phase' = phase
      BY <2>1, EndInListIs, EndInExpressionIs, EvaluateIs
    <3>2. phase \in {"resolveVarRefs", "evaluateExpressions"}
      BY <2>1 DEF EndInList, EndInExpression, Evaluate, AtEndOfChain
    <3> QED  BY <3>1, <3>2
  <2> QED  BY <2>1
<1> QED  BY <1>1, <1>2, <1>3, <1>4, <1>5, <1>6 DEF Next

(* The recursion of the walks ends unless lookups make a struct part of    *)
(* itself (config_helpers.cpp:481, 534 and cleanupConfig): resolveVarRefs  *)
(* enters no cell twice, and the calls of the later walks are on a path of *)
(* structs each within the one before.                                     *)
THEOREM RecursionEndsUnlessCyclic == Spec => []RecursionEnds
<1>1. Init => Contained /\ RecursionEnds
  BY DEF Init, Contained, RecursionEnds
<1>2. Resolving /\ Meant /\ Contained /\ RecursionEnds /\ [Next]_vars => Contained' /\ RecursionEnds'
  BY ContainedStep, RecursionStep DEF Resolving
<1> QED  BY <1>1, <1>2, MeantAlways, PTL DEF Spec

-----------------------------------------------------------------------------
(* The chain that is followed is a path in Dependence: refs names entries  *)
(* that each depend on the next one, and the lookup at its end is one of   *)
(* the last entry.                                                         *)
Naming(keys) ==
  {e \in EntriesOfStructs : /\ Named(source, Ends(source), Front(keys)) = Pointer(source, e[1])
                            /\ source[e[1]].data[e[2]].key = Last(keys)}
SourceValue(e) == source[e[1]].data[e[2]].val
Links(es, l) ==
  /\ l.refs \in Seq(Seq(STRING)) /\ l.refs # <<>>
  /\ \A j \in 1 .. Len(l.refs) : es[j] \in Naming(l.refs[j])
  /\ \A j \in 1 .. (Len(l.refs) - 1) : <<es[j], es[j + 1]>> \in Dependence.edge
  /\ l.val.type = "kValueLookup" => l.val \in LookupsIn(SourceValue(es[Len(l.refs)]))
Linked == phase = "resolveVarRefs" /\ chain # <<>> => \E es, l : l = chain[1] /\ Links(es, l)

LEMMA EntryOfStruct ==
  ASSUME NEW c \in Structs, NEW i \in DOMAIN source[c].data
  PROVE  <<c, i>> \in EntriesOfStructs /\ <<c, i>>[1] = c /\ <<c, i>>[2] = i
BY DEF EntriesOfStructs, Structs

LEMMA DependenceIs ==
  ASSUME NEW d \in EntriesOfStructs, NEW v \in LookupsIn(SourceValue(d)), NEW e \in Naming(v.keys)
  PROVE  <<d, e>> \in Dependence.edge
<1>1. NamedBy(v) = Naming(v.keys)
  BY DEF NamedBy, Naming
<1>2. e \in EntriesOfStructs /\ <<d, e>>[1] = d /\ <<d, e>>[2] = e
  BY DEF Naming
<1> DEFINE To(a) == UNION {NamedBy(w) : w \in LookupsIn(source[a[1]].data[a[2]].val)}
<1>3. Dependence.edge = {a \in EntriesOfStructs \X EntriesOfStructs : a[2] \in To(a[1])}
  BY DEF Dependence
<1>4. e \in To(d)
  BY <1>1 DEF SourceValue
<1> HIDE DEF To
<1> QED  BY <1>2, <1>3, <1>4

LEMMA LookupsInAre ==
  ASSUME NEW v
  PROVE  /\ v.type = "kValueLookup" => v \in LookupsIn(v)
         /\ v.type = "kExpression" => \A u \in ValuesIn(v.cell) : u \in LookupsIn(v)
         /\ v.type = "kList" => \A w \in ValuesIn(v.cell) :
              /\ w.type = "kValueLookup" => w \in LookupsIn(v)
              /\ w.type = "kExpression" => \A u \in ValuesIn(w.cell) : u \in LookupsIn(v)
BY DEF LookupsIn

LEMMA DependenceSame == ASSUME source' = source PROVE Dependence' = Dependence
BY KeysSame DEF Dependence, NamedBy, LookupsIn, EntriesOfStructs, Cells, ValuesIn, Pointer

LEMMA LinkedPrimed ==
  ASSUME source' = source, chain' # <<>> => \E es : Links(es, chain'[1])
  PROVE  Linked'
<1>1. Dependence' = Dependence
  BY DependenceSame
<1>2. EntriesOfStructs' = EntriesOfStructs
  BY KeysSame DEF EntriesOfStructs, Cells
<1>3. /\ \A keys : Naming(keys)' = Naming(keys)
      /\ \A e : SourceValue(e)' = SourceValue(e)
      /\ \A v : LookupsIn(v)' = LookupsIn(v)
  BY <1>2 DEF Naming, SourceValue, LookupsIn, ValuesIn, Pointer
<1>4. \A es, l : Links(es, l)' <=> Links(es, l)
  BY <1>1, <1>3 DEF Links
<1>5. chain' # <<>> => (\E es, l : l = chain[1] /\ Links(es, l))'
  BY <1>4
<1> QED  BY <1>5 DEF Linked

(* The keys of the entry the walk is at lead to that entry.                *)
LEMMA SrcKeyNames ==
  ASSUME Typed, Visiting, phase = "resolveVarRefs", Here.at \in DOMAIN Cell.data, NEW k, StructsFirst(k)
  PROVE  /\ SrcKey \in Seq(STRING) /\ walk[k].cell \in Structs
         /\ walk[k].at \in DOMAIN source[walk[k].cell].data
         /\ <<walk[k].cell, walk[k].at>> \in Naming(SrcKey)
<1>1. /\ SrcKey \in Seq(STRING) /\ Len(SrcKey) = k
      /\ \A n \in 1 .. k : /\ walk[n].at \in DOMAIN source[walk[n].cell].data
                           /\ SrcKey[n] = source[walk[n].cell].data[walk[n].at].key
  BY SrcKeyIs
<1>2. /\ source \in Sources /\ k \in Nat \ {0} /\ k <= Len(walk) /\ Len(walk) \in Nat
      /\ walk[1].cell = Root /\ \A n \in 1 .. Len(walk) : walk[n].cell \in DOMAIN source
  BY HereIs DEF Typed, Calls, Tree, StructsFirst
<1>3. \A n \in 1 .. k : n \in 1 .. Len(walk) /\ walk[n].cell \in Structs
  BY <1>2 DEF StructsFirst, Structs, Cells
<1> DEFINE f == Front(SrcKey)
<1>4. /\ f \in Seq(STRING) /\ Len(f) = k - 1 /\ Last(SrcKey) = SrcKey[k]
      /\ \A n \in 1 .. (k - 1) : f[n] = SrcKey[n]
  <2>1. SrcKey # <<>>
    BY <1>1, <1>2
  <2> QED  BY <1>1, <2>1, FrontLast
<1> HIDE DEF f
<1>5. PICK g : NamesBy(g, source, Ends(source), f) /\ Named(source, Ends(source), f) = g[k - 1]
  BY <1>2, <1>4, EndsAre, NamedSteps
<1>6. PICK F : Visits(walk, heap, F)
  BY DEF Visiting
<1> DEFINE T == {n \in 0 .. (k - 1) : g[n] # Pointer(source, walk[n + 1].cell)}
<1>7. ASSUME T # {} PROVE FALSE
  <2>1. T \in SUBSET Nat
    BY <1>2
  <2>2. PICK n \in T : \A j \in T : n <= j
    <3> HIDE DEF T
    <3> QED  BY <1>7, <2>1, LeastNumber
  <2>3. n # 0
    BY <1>2, <1>5, <2>2 DEF NamesBy
  <2>4. n \in 1 .. (k - 1) /\ n - 1 \in 0 .. (k - 1) /\ n - 1 \notin T /\ n \in 1 .. k /\ n + 1 \in 1 .. k
        /\ (n - 1) + 1 = n /\ n \in 1 .. (Len(walk) - 1)
    BY <1>2, <2>2, <2>3
  <2>5. g[n - 1] = Pointer(source, walk[n].cell)
    BY <2>4
  <2> HIDE DEF T
  <2> DEFINE c == walk[n].cell
             i == walk[n].at
  <2>6. c \in DOMAIN source /\ source[c].type = "kStruct" /\ i \in DOMAIN source[c].data
        /\ f[n] = source[c].data[i].key
    BY <1>1, <1>3, <1>4, <2>4 DEF Structs, Cells
  <2>7. source[c].data[i].val.type \in Container /\ source[c].data[i].val.cell = walk[n + 1].cell
    BY <1>6, <2>4 DEF Visits, Pointed
  <2>8. source[c].data[i].val = Pointer(source, walk[n + 1].cell) /\ source[c].data[i].val \in Values(source)
    <3>1. source[c].data[i].val \in Values(source)
      BY <1>2, <2>6, ValuesAre
    <3> HIDE DEF c, i
    <3>2. source[c].data[i].val = Pointer(source, source[c].data[i].val.cell)
      BY <1>2, <2>6, <2>7, PointerIs
    <3> QED  BY <2>7, <3>1, <3>2
  <2>9. /\ Pointer(source, c) \in Values(source) /\ Pointer(source, c).type = "kStruct"
        /\ Pointer(source, c).cell = c
    <3>1. n - 1 \in 0 .. Len(f)
      BY <1>4, <2>4
    <3>2. g[n - 1] \in Values(source)
      BY <1>5, <3>1 DEF NamesBy
    <3> QED  BY <2>5, <2>6, <3>2 DEF Pointer, Value
  <2> HIDE DEF c, i
  <2>10. SourceMember(source, Pointer(source, c), f[n]) = source[c].data[i].val
    BY <1>2, <2>6, <2>9, SourceMemberIs
  <2>11. g[n] = Ends(source)[SourceMember(source, g[n - 1], f[n])]
    BY <1>4, <1>5, <2>4 DEF NamesBy
  <2>12. EndOf(source[c].data[i].val) = source[c].data[i].val
    BY <1>2, <2>7, <2>8, EndsAre DEF Container, c, i
  <2>13. g[n] = Pointer(source, walk[n + 1].cell)
    BY <2>5, <2>8, <2>10, <2>11, <2>12 DEF EndOf, c, i
  <2> QED  BY <2>2, <2>13 DEF T
<1>8. g[k - 1] = Pointer(source, walk[k].cell)
  <2>1. k - 1 \in 0 .. (k - 1) /\ (k - 1) + 1 = k
    BY <1>2
  <2>2. k - 1 \notin T
    BY <1>7
  <2> QED  BY <2>1, <2>2
<1>9. k \in 1 .. k
  BY <1>2
<1>10. <<walk[k].cell, walk[k].at>> \in EntriesOfStructs
  BY <1>1, <1>3, <1>9, EntryOfStruct
<1> QED  BY <1>1, <1>3, <1>4, <1>5, <1>8, <1>9, <1>10, EntryOfStruct DEF Naming, f

(* The lookup the walk is at is one of that entry.                         *)
LEMMA CurrentLooked ==
  ASSUME Typed, Rewritten, Visiting, phase = "resolveVarRefs", Here.at \in DOMAIN Cell.data,
         Current.type = "kValueLookup", NEW k, StructsFirst(k)
  PROVE  Current \in LookupsIn(source[walk[k].cell].data[walk[k].at].val)
<1> DEFINE L == Len(walk)
           v == source[walk[k].cell].data[walk[k].at].val
<1>1. /\ source \in Sources /\ L \in Nat \ {0} /\ Here = walk[L] /\ k \in Nat \ {0} /\ k <= L
      /\ \A n \in 1 .. L : walk[n].cell \in DOMAIN source
  BY HereIs DEF Typed, Tree, StructsFirst
<1>2. Here.cell \in DOMAIN source /\ Here.at \in DOMAIN source[Here.cell].data
      /\ source[Here.cell].data[Here.at].val = Current
  <2>1. L \in 1 .. L
    BY <1>1
  <2>2. Here.cell \in DOMAIN source /\ Here.at \in DOMAIN source[Here.cell].data
    BY <1>1, <2>1 DEF Typed, SameKeys, Cell
  <2> QED  BY <2>2 DEF Rewritten, LookupsLeft, Current, Cell
<1>3. Current \in ValuesIn(Here.cell)
  BY <1>2 DEF ValuesIn
<1>4. PICK F : Visits(walk, heap, F)
  BY DEF Visiting
<1>5. ASSUME NEW n \in 1 .. (L - 1)
      PROVE  LET w == source[walk[n].cell].data[walk[n].at].val
             IN  /\ w.cell = walk[n + 1].cell /\ w.type = source[walk[n + 1].cell].type
                 /\ w \in ValuesIn(walk[n].cell)
  <2>1. Pointed(walk[n].cell, walk[n].at, walk[n + 1].cell)
    BY <1>4 DEF Visits
  <2> DEFINE c == walk[n].cell
             i == walk[n].at
             w == source[c].data[i].val
  <2>2. c \in DOMAIN source /\ i \in DOMAIN source[c].data /\ w.type \in Container
        /\ w.cell = walk[n + 1].cell
    BY <2>1 DEF Pointed
  <2> HIDE DEF c, i
  <2>3. source[w.cell].type = w.type /\ w \in ValuesIn(c)
    BY <1>1, <2>2, PointerIs DEF ValuesIn
  <2> QED  BY <2>2, <2>3 DEF c, i
<1>6. CASE k = L
  BY <1>1, <1>2, <1>6, LookupsInAre
<1>7. CASE k = L - 1
  <2>1. k \in 1 .. (L - 1) /\ k + 1 = L /\ L \in 1 .. L /\ ~(L <= k)
    BY <1>1, <1>7
  <2>2. v.cell = Here.cell /\ v.type = source[Here.cell].type
    BY <1>1, <1>5, <2>1
  <2>3. source[Here.cell].type \in {"kList", "kExpression"}
    <3>1. source[Here.cell].type \in Container
      BY <1>2, SourceCellIs DEF Typed
    <3>2. source[Here.cell].type # "kStruct"
      BY <1>1, <2>1 DEF StructsFirst
    <3> QED  BY <3>1, <3>2 DEF Container
  <2> HIDE DEF v
  <2>4. Current \in LookupsIn(v)
    BY <1>3, <2>2, <2>3, LookupsInAre
  <2> QED  BY <2>4 DEF v
<1>8. CASE k = L - 2
  <2> DEFINE w == source[walk[k + 1].cell].data[walk[k + 1].at].val
  <2>1. k \in 1 .. (L - 1) /\ k + 1 \in 1 .. (L - 1) /\ (k + 1) + 1 = L /\ k # L /\ k # L - 1 /\ k + 2 = L
    BY <1>1, <1>8
  <2>2. source[walk[k + 1].cell].type = "kList" /\ source[walk[k + 2].cell].type = "kExpression"
    BY <2>1 DEF StructsFirst
  <2>3. /\ v.cell = walk[k + 1].cell /\ v.type = "kList"
        /\ w.cell = Here.cell /\ w.type = "kExpression" /\ w \in ValuesIn(walk[k + 1].cell)
    BY <1>1, <1>5, <2>1, <2>2, ZenonT(30)
  <2> HIDE DEF v, w
  <2>4. Current \in LookupsIn(v)
    BY <1>3, <2>3, LookupsInAre
  <2> QED  BY <2>4 DEF v
<1> QED  BY <1>6, <1>7, <1>8 DEF StructsFirst

(* What getConfigValue finds is the value of the entry the keys name.      *)
LEMMA FoundIsNamed ==
  ASSUME Typed, phase = "resolveVarRefs", StructsMeant, NEW keys \in Seq(STRING), keys # <<>>,
         IsFound(getConfigValue(keys))
  PROVE  \E c \in Structs : \E i \in DOMAIN source[c].data :
           /\ <<c, i>> \in Naming(keys)
           /\ getConfigValue(keys).val = heap[c].data[i].val
<1> DEFINE f == Front(keys)
           L == Len(keys)
<1>1. /\ f \in Seq(STRING) /\ Len(f) = L - 1 /\ Last(keys) = keys[L] /\ L \in Nat \ {0}
      /\ \A n \in 1 .. (L - 1) : f[n] = keys[n]
  BY FrontLast
<1>2. source \in Sources
  BY DEF Typed, Tree
<1>3. PICK at : EntersBy(at, keys) /\ getConfigValue(keys) = at[L]
  BY EnterSteps DEF Typed
<1> HIDE DEF f, L
<1>4. /\ L - 1 \in 0 .. Len(f) /\ L \in 1 .. L /\ L - 1 \in 0 .. L
      /\ \A n \in 0 .. (L - 1) : n \in 0 .. L
      /\ \A n \in 1 .. (L - 1) : n \in 1 .. L
  BY <1>1
<1>5. EntersBy(at, f)
  BY <1>1, <1>3, <1>4 DEF EntersBy, L
<1>6. PICK g : NamesBy(g, source, Ends(source), f) /\ Named(source, Ends(source), f) = g[L - 1]
  BY <1>1, <1>2, EndsAre, NamedSteps
<1> DEFINE o == at[L - 1]
<1>7. IsFound(o) => o.val \in Values(source) /\ g[L - 1] = EndOf(o.val)
  BY <1>1, <1>4, <1>5, <1>6, NamedFollows
<1>8. o \in Outcome /\ at[L] = Enter(o, keys[L]) /\ IsFound(at[L])
  BY <1>3, <1>4 DEF EntersBy, L
<1> HIDE DEF o
<1>9. /\ IsFound(o) /\ o.val.type = "kStruct" /\ o.val.cell \in DOMAIN source
      /\ \E i \in DOMAIN heap[o.val.cell].data :
           /\ heap[o.val.cell].data[i].key = keys[L]
           /\ at[L].val = heap[o.val.cell].data[i].val
  BY <1>8, EnterIs DEF Typed
<1> DEFINE c == o.val.cell
<1>10. PICK i \in DOMAIN heap[c].data : heap[c].data[i].key = keys[L] /\ at[L].val = heap[c].data[i].val
  BY <1>9
<1>11. o.val \in Values(source) /\ o.val = Pointer(source, c) /\ source[c].type = "kStruct"
       /\ g[L - 1] = o.val
  BY <1>2, <1>7, <1>9, ValuesAre, EndsAre DEF Container
<1>12. c \in Structs /\ i \in DOMAIN source[c].data /\ source[c].data[i].key = keys[L]
  BY <1>9, <1>10, <1>11 DEF Typed, SameKeys, Structs, Cells
<1>13. <<c, i>> \in Naming(keys)
  <2> HIDE DEF c
  <2>1. <<c, i>> \in EntriesOfStructs /\ <<c, i>>[1] = c /\ <<c, i>>[2] = i
    BY <1>12, EntryOfStruct
  <2>2. Named(source, Ends(source), Front(keys)) = Pointer(source, c) /\ source[c].data[i].key = Last(keys)
    BY <1>1, <1>6, <1>11, <1>12 DEF f
  <2> QED  BY <2>1, <2>2 DEF Naming
<1> QED  BY <1>3, <1>10, <1>12, <1>13

LEMMA LinkedBegins ==
  ASSUME Typed, Rewritten, Visiting, BeginChain
  PROVE  \E es, l : l = chain'[1] /\ Links(es, l)
<1> DEFINE l == [refs |-> <<SrcKey>>, val |-> Current]
<1>1. /\ AtEntry /\ phase = "resolveVarRefs" /\ Current.type = "kValueLookup" /\ chain' = <<l>>
  BY DEF BeginChain
<1>2. Here.at \in DOMAIN Cell.data
  BY <1>1, CurrentIs
<1>3. PICK k : StructsFirst(k)
  BY <1>1, StructsAreFirst
<1> DEFINE e == <<walk[k].cell, walk[k].at>>
           es == [j \in {1} |-> e]
<1>4. SrcKey \in Seq(STRING) /\ e \in Naming(SrcKey)
  BY <1>1, <1>2, <1>3, SrcKeyNames
<1>5. Current \in LookupsIn(SourceValue(e))
  <2>1. e[1] = walk[k].cell /\ e[2] = walk[k].at
    OBVIOUS
  <2> QED  BY <1>1, <1>2, <1>3, <2>1, CurrentLooked DEF SourceValue
<1>6. l.refs = <<SrcKey>> /\ l.val = Current
  OBVIOUS
<1> HIDE DEF l, e
<1>7. es[1] = e
  OBVIOUS
<1>8. l.refs \in Seq(Seq(STRING)) /\ l.refs # <<>> /\ Len(l.refs) = 1 /\ l.refs[1] = SrcKey
  BY <1>4, <1>6, Singleton
<1> HIDE DEF es
<1>9. Links(es, l)
  <2>1. /\ \A j \in 1 .. Len(l.refs) : j = 1
        /\ \A j \in 1 .. (Len(l.refs) - 1) : FALSE
    BY <1>8
  <2> QED  BY <1>4, <1>5, <1>6, <1>7, <1>8, <2>1 DEF Links
<1>10. chain'[1] = l
  BY <1>1
<1> QED  BY <1>9, <1>10

LEMMA AppendIs ==
  ASSUME NEW S, NEW s \in Seq(S), NEW e \in S
  PROVE  LET t == Append(s, e)
         IN  /\ t \in Seq(S) /\ t # <<>> /\ Len(t) = Len(s) + 1
             /\ \A j \in 1 .. Len(s) : t[j] = s[j]
             /\ t[Len(s) + 1] = e
OBVIOUS

LEMMA LinkedFollow ==
  ASSUME Typed, Rewritten, Meant, Linked, phase = "resolveVarRefs", chain # <<>>,
         chain[1].val.type = "kValueLookup", IsFound(getConfigValue(chain[1].val.keys)),
         chain' = <<[refs |-> Append(chain[1].refs, chain[1].val.keys),
                     val |-> getConfigValue(chain[1].val.keys).val]>>
  PROVE  \E es, l : l = chain'[1] /\ Links(es, l)
<1> DEFINE keys == chain[1].val.keys
           refs == chain[1].refs
           found == getConfigValue(keys).val
           m == [refs |-> Append(refs, keys), val |-> found]
           L == Len(refs)
<1>1. PICK es : Links(es, chain[1])
  BY DEF Linked
<1>2. keys \in Seq(STRING) /\ keys # <<>> /\ refs \in Seq(Seq(STRING)) /\ refs # <<>>
      /\ source \in Sources /\ StructsMeant
  <2>1. chain[1].val \in LookupsOf(source) /\ source \in Sources
    BY FollowMeant DEF Typed, Tree
  <2> QED  BY <1>1, <2>1, LookupKeys DEF Links, Meant
<1>3. PICK c \in Structs : \E i \in DOMAIN source[c].data :
        <<c, i>> \in Naming(keys) /\ found = heap[c].data[i].val
  BY <1>2, FoundIsNamed
<1>4. PICK i \in DOMAIN source[c].data : <<c, i>> \in Naming(keys) /\ found = heap[c].data[i].val
  BY <1>3
<1> DEFINE e == <<c, i>>
<1>5. found.type = "kValueLookup" => found \in LookupsIn(SourceValue(e))
  <2> SUFFICES ASSUME found.type = "kValueLookup" PROVE found \in LookupsIn(SourceValue(e))
    OBVIOUS
  <2>1. c \in DOMAIN source
    BY CellsAre DEF Structs
  <2>2. found = source[c].data[i].val
    BY <1>4, <2>1 DEF Rewritten, LookupsLeft
  <2>3. e[1] = c /\ e[2] = i
    OBVIOUS
  <2>4. SourceValue(e) = found
    BY <2>2, <2>3 DEF SourceValue
  <2> HIDE DEF found, e
  <2> QED  BY <2>4, LookupsInAre
<1>6. e \in Naming(keys)
  BY <1>4
<1>7. m.refs = Append(refs, keys) /\ m.val = found
  OBVIOUS
<1>8. chain'[1] = m
  OBVIOUS
<1>9. /\ \A j \in 1 .. L : es[j] \in Naming(refs[j])
      /\ \A j \in 1 .. (L - 1) : <<es[j], es[j + 1]>> \in Dependence.edge
      /\ chain[1].val \in LookupsIn(SourceValue(es[L]))
  BY <1>1 DEF Links
<1>10. L \in Nat \ {0} /\ L \in 1 .. L
  BY <1>2
<1>11. <<es[L], e>> \in Dependence.edge
  <2>1. es[L] \in EntriesOfStructs
    BY <1>9, <1>10 DEF Naming
  <2> HIDE DEF e, L
  <2> QED  BY <1>6, <1>9, <2>1, DependenceIs
<1> DEFINE fs == [j \in 1 .. (L + 1) |-> IF j = L + 1 THEN e ELSE es[j]]
<1>12. /\ m.refs \in Seq(Seq(STRING)) /\ m.refs # <<>> /\ Len(m.refs) = L + 1
       /\ \A j \in 1 .. L : m.refs[j] = refs[j]
       /\ m.refs[L + 1] = keys
  <2> HIDE DEF keys, refs, m, found
  <2> QED  BY <1>2, <1>7, AppendIs
<1> HIDE DEF m, e, keys, refs, found, L
<1>13. fs[L + 1] = e /\ \A j \in 1 .. L : fs[j] = es[j]
  BY <1>10
<1> HIDE DEF fs
<1>14. /\ \A j \in 1 .. (L + 1) : j = L + 1 \/ j \in 1 .. L
       /\ \A j \in 1 .. ((L + 1) - 1) : j \in 1 .. L /\ (j = L \/ (j \in 1 .. (L - 1) /\ j + 1 \in 1 .. L))
  BY <1>10
<1>15. ASSUME NEW j \in 1 .. (L + 1) PROVE fs[j] \in Naming(m.refs[j])
  BY <1>6, <1>9, <1>12, <1>13, <1>14
<1>16. ASSUME NEW j \in 1 .. ((L + 1) - 1) PROVE <<fs[j], fs[j + 1]>> \in Dependence.edge
  <2>1. CASE j = L
    <3>1. fs[j] = es[L] /\ fs[j + 1] = e
      BY <1>10, <1>13, <2>1
    <3> QED  BY <1>11, <3>1
  <2>2. CASE j \in 1 .. (L - 1) /\ j + 1 \in 1 .. L
    <3>1. fs[j] = es[j] /\ fs[j + 1] = es[j + 1]
      BY <1>13, <1>14, <2>2
    <3> QED  BY <1>9, <2>2, <3>1
  <2> QED  BY <1>14, <2>1, <2>2
<1>17. Links(fs, m)
  BY <1>5, <1>7, <1>12, <1>13, <1>15, <1>16 DEF Links
<1> QED  BY <1>8, <1>17

LEMMA LinkedStep ==
  ASSUME Typed, Rewritten, Visiting, Meant, Linked, [Next]_vars
  PROVE  Linked'
<1> SUFFICES ASSUME phase' = "resolveVarRefs", chain' # <<>> PROVE Linked'
  BY DEF Linked
<1>1. source' = source
  BY SourceKept
<1>2. phase = "resolveVarRefs"
  BY PhaseEntered DEF Exception
<1>3. CASE BeginChain
  BY <1>1, <1>3, LinkedBegins, LinkedPrimed
<1>4. CASE Follow
  <2>1. /\ chain # <<>> /\ chain[1].val.type = "kValueLookup"
        /\ IsFound(getConfigValue(chain[1].val.keys))
        /\ chain' = <<[refs |-> Append(chain[1].refs, chain[1].val.keys),
                       val |-> getConfigValue(chain[1].val.keys).val]>>
    BY <1>2, <1>4, FollowIs DEF Fail
  <2> QED  BY <1>1, <1>2, <2>1, LinkedFollow, LinkedPrimed
<1>5. CASE Finished \/ UNCHANGED vars
  <2>1. chain' = chain
    BY <1>5 DEF Finished, vars
  <2>2. \E es, l : l = chain'[1] /\ Links(es, l)
    BY <1>2, <2>1 DEF Linked
  <2> QED  BY <1>1, <2>2, LinkedPrimed
<1>6. ~Skip /\ ~EndInStruct
  BY DEF Skip, AtEntry, EndInStruct, Replace
<1>7. ~Descend
  BY DescendIs DEF AtEntry, Fail
<1>8. ~Return
  BY ReturnIs
<1>9. ~EndInList /\ ~EndInExpression
  BY EndInListIs, EndInExpressionIs
<1>10. ~Evaluate
  BY <1>2 DEF Evaluate
<1> QED  BY <1>3, <1>4, <1>5, <1>6, <1>7, <1>8, <1>9, <1>10 DEF Next

(* A lookup that names again what was named before closes a cycle.         *)
LEMMA RepeatIsCycle ==
  ASSUME Linked, phase = "resolveVarRefs", chain # <<>>, chain[1].val.type = "kValueLookup",
         Contains(chain[1].refs, chain[1].val.keys)
  PROVE  Cyclic(Dependence)
<1> DEFINE keys == chain[1].val.keys
           refs == chain[1].refs
           L == Len(refs)
<1>1. PICK es : Links(es, chain[1])
  BY DEF Linked
<1>2. /\ refs \in Seq(Seq(STRING)) /\ L \in Nat \ {0} /\ L \in 1 .. L
      /\ \A j \in 1 .. L : es[j] \in Naming(refs[j])
      /\ \A j \in 1 .. (L - 1) : <<es[j], es[j + 1]>> \in Dependence.edge
      /\ chain[1].val \in LookupsIn(SourceValue(es[L]))
  BY <1>1 DEF Links
<1>3. PICK m \in 1 .. L : refs[m] = keys
  BY <1>2 DEF Contains
<1>4. <<es[L], es[m]>> \in Dependence.edge
  <2>1. es[L] \in EntriesOfStructs /\ es[m] \in Naming(keys)
    BY <1>2, <1>3 DEF Naming
  <2> HIDE DEF L
  <2> QED  BY <1>2, <2>1, DependenceIs
<1> DEFINE p == [j \in 1 .. (L + 1) |-> IF j = L + 1 THEN es[m] ELSE es[j]]
<1> HIDE DEF L, keys, refs
<1>5. /\ \A j \in 1 .. L : p[j] = es[j]
      /\ p[L + 1] = es[m]
  BY <1>2
<1> HIDE DEF p
<1>6. ASSUME NEW j \in m .. ((L + 1) - 1)
      PROVE  p[j] \in Dependence.node /\ <<p[j], p[j + 1]>> \in Dependence.edge
  <2>1. j \in 1 .. L /\ (j = L \/ (j \in 1 .. (L - 1) /\ j + 1 \in 1 .. L))
    BY <1>2
  <2>2. Dependence.node = EntriesOfStructs
    BY DEF Dependence
  <2>3. p[j] \in EntriesOfStructs
    BY <1>2, <1>5, <2>1 DEF Naming
  <2> QED  BY <1>2, <1>4, <1>5, <2>1, <2>2, <2>3
<1>7. m \in Nat /\ L + 1 \in Nat /\ m < L + 1 /\ p[m] = p[L + 1]
  BY <1>2, <1>5
<1> QED  BY <1>6, <1>7, CyclicPath

LEMMA CycleStep ==
  ASSUME Typed, Linked, CycleIsReal, [Next]_vars
  PROVE  CycleIsReal'
<1> SUFFICES ASSUME phase' = "CyclicReferenceException" PROVE Cyclic(Dependence)
  <2>1. source' = source
    BY SourceKept
  <2>2. Dependence' = Dependence
    BY <2>1, DependenceSame
  <2> QED  BY <2>2 DEF CycleIsReal, Cyclic
<1>1. CASE Finished \/ UNCHANGED vars
  BY <1>1 DEF Finished, vars, CycleIsReal
<1>2. CASE Follow
  <2>1. /\ phase = "resolveVarRefs" /\ chain # <<>> /\ chain[1].val.type = "kValueLookup"
        /\ Contains(chain[1].refs, chain[1].val.keys)
    BY <1>2, FollowIs DEF Fail
  <2> QED  BY <2>1, RepeatIsCycle
<1>3. ~Skip /\ ~BeginChain /\ ~EndInStruct
  BY DEF Skip, AtEntry, BeginChain, EndInStruct, AtEndOfChain, Replace, Walking
<1>4. ~Descend
  BY DescendIs DEF Fail, AtEntry, Walking
<1>5. ~Return
  BY ReturnIs DEF Walking
<1>6. ~EndInList /\ ~EndInExpression /\ ~Evaluate
  <2>1. ASSUME EndInList \/ EndInExpression \/ Evaluate PROVE FALSE
    <3>1. phase' = phase
      BY <2>1, EndInListIs, EndInExpressionIs, EvaluateIs
    <3>2. phase \in {"resolveVarRefs", "evaluateExpressions"}
      BY <2>1 DEF EndInList, EndInExpression, Evaluate, AtEndOfChain
    <3> QED  BY <3>1, <3>2
  <2> QED  BY <2>1
<1> QED  BY <1>1, <1>2, <1>3, <1>4, <1>5, <1>6 DEF Next

(* CyclicReferenceException is thrown for cycles only                      *)
(* (config_helpers.cpp:397): the keys in refs are those of entries each of *)
(* which depends on the next one, through lookups alone, on whatever keys  *)
(* and structs the chain has led and in whatever order they were replaced. *)
THEOREM CyclesAreReal == Spec => []CycleIsReal
<1>1. Init => Linked /\ CycleIsReal
  BY DEF Init, Linked, CycleIsReal
<1>2. Resolving /\ Meant /\ Linked /\ CycleIsReal /\ [Next]_vars => Linked' /\ CycleIsReal'
  BY LinkedStep, CycleStep DEF Resolving
<1> QED  BY <1>1, <1>2, MeantAlways, PTL DEF Spec

-----------------------------------------------------------------------------
(* What an expression is computed from: itself and what the ends of its    *)
(* operands are computed from.                                             *)
LEMMA NeededIs ==
  ASSUME NEW c \in Cells(source, "kExpression")
  PROVE  /\ c \in Needed(c) /\ Needed(c) \in SUBSET Cells(source, "kExpression") /\ Closed(Needed(c))
         /\ \A es \in SUBSET Cells(source, "kExpression") : c \in es /\ Closed(es) => Needed(c) \subseteq es
<1>1. c \in Needed(c) /\ Needed(c) \in SUBSET Cells(source, "kExpression")
  BY DEF Needed
<1>2. \A es \in SUBSET Cells(source, "kExpression") : c \in es /\ Closed(es) => Needed(c) \subseteq es
  BY DEF Needed
<1>3. ASSUME NEW d \in Needed(c), NEW e \in Cells(source, "kExpression"),
             Pointer(source, e) \in SourceOperands(d)
      PROVE  e \in Needed(c)
  <2> SUFFICES ASSUME NEW es \in SUBSET Cells(source, "kExpression"), c \in es, Closed(es)
               PROVE  e \in es
    BY DEF Needed
  <2>1. d \in es
    BY <1>2
  <2> QED  BY <1>3, <2>1 DEF Closed
<1> QED  BY <1>1, <1>2, <1>3 DEF Closed

LEMMA NeededSplits ==
  ASSUME NEW c \in Cells(source, "kExpression"), NEW d \in Needed(c), d # c
  PROVE  \E e \in Cells(source, "kExpression") :
           Pointer(source, e) \in SourceOperands(c) /\ d \in Needed(e)
<1> DEFINE Next1(e) == Pointer(source, e) \in SourceOperands(c)
           N == {c} \cup {b \in Cells(source, "kExpression") :
                            \E e \in Cells(source, "kExpression") : Next1(e) /\ b \in Needed(e)}
<1>1. N \in SUBSET Cells(source, "kExpression") /\ c \in N
  OBVIOUS
<1>2. ASSUME NEW b \in N, NEW a \in Cells(source, "kExpression"), Pointer(source, a) \in SourceOperands(b)
      PROVE  a \in N
  <2>1. CASE b = c
    BY <1>2, <2>1, NeededIs
  <2>2. CASE b # c
    <3>1. PICK e \in Cells(source, "kExpression") : Next1(e) /\ b \in Needed(e)
      BY <2>2
    <3>2. a \in Needed(e)
      BY <1>2, <3>1, NeededIs DEF Closed
    <3> QED  BY <3>1, <3>2
  <2> QED  BY <2>1, <2>2
<1>3. Closed(N)
  <2> HIDE DEF N
  <2> QED  BY <1>2 DEF Closed
<1>4. d \in N
  <2> HIDE DEF N
  <2> QED  BY <1>1, <1>3, NeededIs
<1> QED  BY <1>4

LEMMA ComputedFromOperand ==
  ASSUME NEW c \in Cells(source, "kExpression"), NEW e \in Cells(source, "kExpression"),
         Pointer(source, e) \in SourceOperands(c)
  PROVE  ComputedFrom(e) \subseteq ComputedFrom(c)
<1>1. e \in Needed(c)
  BY NeededIs DEF Closed
<1>2. Needed(e) \subseteq Needed(c)
  BY <1>1, NeededIs
<1> QED  BY <1>2 DEF ComputedFrom

(* The meaning of a value of the source, by its end.                       *)
LEMMA MeaningIs ==
  ASSUME source \in Sources, NEW v \in Values(source)
  PROVE  /\ EndOf(v).type = "kExpression" =>
              /\ EndOf(v).cell \in Cells(source, "kExpression") /\ EndOf(v) = Pointer(source, EndOf(v).cell)
              /\ EndOf(v).from = {} /\ Meaning(v) = Number(ComputedFrom(EndOf(v).cell))
              /\ Meaning(v).type = "kNumber" /\ Meaning(v).from = ComputedFrom(EndOf(v).cell)
         /\ EndOf(v).type # "kExpression" => Meaning(v) = EndOf(v)
         /\ Meaning(v).type \notin {"kExpression", "kValueLookup"}
<1> DEFINE end == EndOf(v)
<1>1. end \in Values(source) /\ end.type # "kValueLookup"
  BY EndsAre
<1>2. Meaning(v) = IF end.type = "kExpression" THEN Number(ComputedFrom(end.cell)) ELSE end
  BY DEF Meaning
<1> HIDE DEF end
<1>3. CASE end.type = "kExpression"
  <2>1. end.cell \in DOMAIN source /\ end = Pointer(source, end.cell) /\ source[end.cell].type = "kExpression"
    BY <1>1, <1>3, ValuesAre DEF Container
  <2>2. end.from = {}
    BY <2>1 DEF Pointer, Value
  <2>3. \A S : Number(S).type = "kNumber" /\ Number(S).from = S
    BY DEF Number, Value
  <2> QED  BY <1>2, <1>3, <2>1, <2>2, <2>3 DEF Cells, end
<1> QED  BY <1>1, <1>2, <1>3 DEF end

LEMMA ComputedFromIs ==
  ASSUME source \in Sources, NEW c \in Cells(source, "kExpression")
  PROVE  ComputedFrom(c) =
           {c} \cup UNION {Meaning(source[c].data[i].val).from : i \in DOMAIN source[c].data}
<1> DEFINE W(i) == source[c].data[i].val
           R == {c} \cup UNION {Meaning(W(i)).from : i \in DOMAIN source[c].data}
<1>1. c \in DOMAIN source
  BY DEF Cells
<1>2. \A i \in DOMAIN source[c].data : W(i) \in Values(source)
  BY <1>1, ValuesAre
<1>3. SourceOperands(c) = {EndOf(W(i)) : i \in DOMAIN source[c].data}
  BY DEF SourceOperands
<1>4. c \in Needed(c)
  BY NeededIs
<1> HIDE DEF W
<1>5. ASSUME NEW i \in DOMAIN source[c].data PROVE Meaning(W(i)).from \subseteq ComputedFrom(c)
  <2>1. W(i) \in Values(source) /\ EndOf(W(i)) \in SourceOperands(c)
    BY <1>2, <1>3
  <2>2. CASE EndOf(W(i)).type = "kExpression"
    BY <2>1, <2>2, MeaningIs, ComputedFromOperand
  <2>3. CASE EndOf(W(i)).type # "kExpression"
    <3>1. Meaning(W(i)) = EndOf(W(i))
      BY <2>1, <2>3, MeaningIs
    <3> QED  BY <1>4, <2>1, <3>1 DEF ComputedFrom
  <2> QED  BY <2>2, <2>3
<1>6. ASSUME NEW e \in Cells(source, "kExpression"), Pointer(source, e) \in SourceOperands(c)
      PROVE  ComputedFrom(e) \subseteq R
  <2>1. PICK i \in DOMAIN source[c].data : EndOf(W(i)) = Pointer(source, e)
    BY <1>3, <1>6
  <2>2. EndOf(W(i)).type = "kExpression" /\ EndOf(W(i)).cell = e
    BY <2>1 DEF Pointer, Value, Cells
  <2>3. Meaning(W(i)).from = ComputedFrom(e)
    BY <1>2, <2>2, MeaningIs
  <2> QED  BY <2>3
<1>7. ASSUME NEW d \in Needed(c)
      PROVE  d \in R /\ \A v \in SourceOperands(d) : v.from \subseteq R
  <2>1. CASE d = c
    <3>1. ASSUME NEW v \in SourceOperands(c) PROVE v.from \subseteq R
      <4>1. PICK i \in DOMAIN source[c].data : v = EndOf(W(i))
        BY <1>3
      <4>2. v.from = {} \/ Meaning(W(i)) = v
        BY <1>2, <4>1, MeaningIs
      <4> QED  BY <4>2
    <3> QED  BY <2>1, <3>1
  <2>2. CASE d # c
    <3>1. PICK e \in Cells(source, "kExpression") : Pointer(source, e) \in SourceOperands(c) /\ d \in Needed(e)
      BY <2>2, NeededSplits
    <3>2. d \in ComputedFrom(e) /\ \A v \in SourceOperands(d) : v.from \subseteq ComputedFrom(e)
      BY <3>1 DEF ComputedFrom
    <3> QED  BY <1>6, <3>1, <3>2
  <2> QED  BY <2>1, <2>2
<1>8. ComputedFrom(c) \subseteq R
  <2> HIDE DEF R
  <2> QED  BY <1>7 DEF ComputedFrom
<1>9. R \subseteq ComputedFrom(c)
  <2>1. c \in ComputedFrom(c)
    BY <1>4 DEF ComputedFrom
  <2> QED  BY <1>5, <2>1
<1>10. ComputedFrom(c) = R
  <2> HIDE DEF R
  <2> QED  BY <1>8, <1>9
<1> QED  BY <1>10 DEF W

-----------------------------------------------------------------------------
(* What resolveVarRefs puts in the place of a lookup: the value at the end *)
(* of its chain, and for an operand that is an expression its number.      *)
Replacement(c, v) == IF source[c].type = "kExpression" THEN Meaning(v) ELSE EndOf(v)
Settled == phase = "resolveVarRefs" =>
  \A c \in DOMAIN source : \A i \in DOMAIN source[c].data :
    \/ heap[c].data[i].val = source[c].data[i].val
    \/ heap[c].data[i].val = Replacement(c, source[c].data[i].val)

LEMMA MeaningSame ==
  ASSUME source' = source
  PROVE  \A v : EndOf(v)' = EndOf(v) /\ Meaning(v)' = Meaning(v)
BY DEF EndOf, Meaning, ComputedFrom, Needed, Closed, SourceOperands

LEMMA SettledPrimed ==
  ASSUME source' = source,
         phase' = "resolveVarRefs" =>
           \A c \in DOMAIN source : \A i \in DOMAIN source[c].data :
             \/ heap'[c].data[i].val = source[c].data[i].val
             \/ heap'[c].data[i].val = Replacement(c, source[c].data[i].val)
  PROVE  Settled'
<1>1. \A c, v : Replacement(c, v)' = Replacement(c, v)
  BY MeaningSame DEF Replacement
<1> QED  BY <1>1 DEF Settled

LEMMA EvaluatedRight ==
  ASSUME source \in Sources, NEW e \in Cells(source, "kExpression"),
         DOMAIN heap[e].data = DOMAIN source[e].data,
         \A i \in DOMAIN source[e].data : heap[e].data[i].val = Meaning(source[e].data[i].val)
  PROVE  evaluateExpression(e) = Number(ComputedFrom(e))
<1>1. UNION {v.from : v \in Operands(e)}
        = UNION {Meaning(source[e].data[i].val).from : i \in DOMAIN source[e].data}
  BY DEF Operands
<1> QED  BY <1>1, ComputedFromIs DEF evaluateExpression

LEMMA ChainEnds ==
  ASSUME Typed, Rewritten, Meant, NEW type, AtEndOfChain(type)
  PROVE  /\ Here.cell \in DOMAIN source /\ Here.at \in DOMAIN source[Here.cell].data
         /\ source[Here.cell].data[Here.at].val \in Values(source)
         /\ chain[1].val = EndOf(source[Here.cell].data[Here.at].val)
<1>1. /\ phase = "resolveVarRefs" /\ chain # <<>> /\ Here.at \in DOMAIN Cell.data
      /\ Here.cell \in DOMAIN source /\ Current.type = "kValueLookup"
      /\ chain[1].val.type # "kValueLookup"
  BY EndOfChainIs DEF AtEndOfChain
<1>2. Here.at \in DOMAIN source[Here.cell].data
  BY <1>1 DEF Typed, SameKeys, Cell
<1>3. Current = source[Here.cell].data[Here.at].val
  BY <1>1, <1>2 DEF Rewritten, LookupsLeft, Current, Cell
<1>4. chain[1].val \in Values(source) /\ EndOf(chain[1].val) = EndOf(Current)
  BY <1>1 DEF Meant
<1>5. source \in Sources
  BY DEF Typed, Tree
<1>6. EndOf(chain[1].val) = chain[1].val
  BY <1>1, <1>4, <1>5, EndsAre
<1> QED  BY <1>1, <1>2, <1>3, <1>4, <1>5, <1>6, ValuesAre

(* An operand that leads to an expression is its number, because all the   *)
(* operands of that one have been replaced when it can be evaluated.       *)
LEMMA OperandSettled ==
  ASSUME Typed, Rewritten, Meant, Settled, EndInExpression, phase' # "InvalidTypeException"
  PROVE  OperandOf(chain[1].val) = Meaning(source[Here.cell].data[Here.at].val)
<1> DEFINE v == chain[1].val
           s == source[Here.cell].data[Here.at].val
<1>1. AtEndOfChain("kExpression") /\ phase = "resolveVarRefs" /\ source \in Sources
  BY DEF EndInExpression, AtEndOfChain, Typed, Tree
<1>2. v = EndOf(s) /\ s \in Values(source)
  BY <1>1, ChainEnds
<1>3. v.type = "kNumber" \/ (v.type = "kExpression" /\ Evaluable(v.cell))
  BY EndInExpressionIs
<1> HIDE DEF v, s
<1>4. CASE v.type = "kNumber"
  BY <1>1, <1>2, <1>4, MeaningIs DEF OperandOf, v, s
<1>5. CASE v.type = "kExpression" /\ Evaluable(v.cell)
  <2> DEFINE e == v.cell
  <2>1. e \in Cells(source, "kExpression") /\ Meaning(s) = Number(ComputedFrom(e))
    BY <1>1, <1>2, <1>5, MeaningIs
  <2>2. e \in DOMAIN source /\ source[e].type = "kExpression"
    BY <2>1, CellsAre
  <2>3. DOMAIN heap[e].data = DOMAIN source[e].data
    BY <1>1, <2>2 DEF Typed, SameKeys
  <2>4. ASSUME NEW i \in DOMAIN source[e].data
        PROVE  heap[e].data[i].val = Meaning(source[e].data[i].val)
    <3>1. heap[e].data[i].val.type = "kNumber"
      BY <1>5, <2>3 DEF Evaluable, Operands
    <3>2. source[e].data[i].val.type = "kValueLookup"
      BY <1>1, <2>2, OperandIs
    <3>3. heap[e].data[i].val # source[e].data[i].val
      BY <3>1, <3>2
    <3> QED  BY <1>1, <2>2, <3>3 DEF Settled, Replacement
  <2>5. evaluateExpression(e) = Number(ComputedFrom(e))
    BY <1>1, <2>1, <2>3, <2>4, EvaluatedRight
  <2> QED  BY <1>5, <2>1, <2>5 DEF OperandOf, v, s
<1> QED  BY <1>3, <1>4, <1>5 DEF v, s

LEMMA SettledWritten ==
  ASSUME Typed, Settled, phase = "resolveVarRefs", source' = source, NEW v, Written(v),
         v = Replacement(Here.cell, source[Here.cell].data[Here.at].val)
  PROVE  Settled'
<1>1. ASSUME NEW c \in DOMAIN source, NEW i \in DOMAIN source[c].data
      PROVE  \/ heap'[c].data[i].val = source[c].data[i].val
             \/ heap'[c].data[i].val = Replacement(c, source[c].data[i].val)
  <2>1. i \in DOMAIN heap[c].data
    BY DEF Typed, SameKeys
  <2>2. heap'[c].data[i].val = IF c = Here.cell /\ i = Here.at THEN v ELSE heap[c].data[i].val
    BY <2>1 DEF Written
  <2>3. CASE c = Here.cell /\ i = Here.at
    BY <2>2, <2>3
  <2>4. CASE ~(c = Here.cell /\ i = Here.at)
    BY <2>2, <2>4 DEF Settled
  <2> QED  BY <2>3, <2>4
<1> QED  BY <1>1, SettledPrimed

LEMMA SettledInit == ASSUME Init PROVE Settled
BY DEF Init, Settled

LEMMA SettledStep ==
  ASSUME Typed, Rewritten, Meant, Settled, [Next]_vars PROVE Settled'
<1> SUFFICES ASSUME phase' = "resolveVarRefs" PROVE Settled'
  BY DEF Settled
<1>1. phase = "resolveVarRefs" /\ phase' # "InvalidTypeException"
  BY PhaseEntered DEF Exception
<1>2. source' = source
  BY SourceKept
<1>3. CASE heap' = heap
  BY <1>1, <1>2, <1>3, SettledPrimed DEF Settled
<1>4. CASE EndInStruct
  <2>1. AtEndOfChain("kStruct") /\ Written(chain[1].val) /\ source[Here.cell].type = "kStruct"
    BY <1>4, EndInStructIs DEF EndInStruct
  <2>2. chain[1].val = Replacement(Here.cell, source[Here.cell].data[Here.at].val)
    BY <2>1, ChainEnds DEF Replacement
  <2> QED  BY <1>1, <1>2, <2>1, <2>2, SettledWritten
<1>5. CASE EndInList
  <2>1. AtEndOfChain("kList") /\ Written(chain[1].val) /\ source[Here.cell].type = "kList"
    BY <1>1, <1>5, EndInListIs DEF EndInList
  <2>2. chain[1].val = Replacement(Here.cell, source[Here.cell].data[Here.at].val)
    BY <2>1, ChainEnds DEF Replacement
  <2> QED  BY <1>1, <1>2, <2>1, <2>2, SettledWritten
<1>6. CASE EndInExpression
  <2> DEFINE v == OperandOf(chain[1].val)
  <2>1. Written(v) /\ source[Here.cell].type = "kExpression"
    BY <1>1, <1>6, EndInExpressionIs
  <2>2. v = Replacement(Here.cell, source[Here.cell].data[Here.at].val)
    BY <1>1, <1>6, <2>1, OperandSettled DEF Replacement
  <2> HIDE DEF v
  <2> QED  BY <1>1, <1>2, <2>1, <2>2, SettledWritten
<1>7. CASE Descend \/ Skip \/ Return \/ BeginChain \/ Follow \/ Finished \/ UNCHANGED vars
  <2>1. Descend => heap' = heap
    BY DescendIs DEF Fail
  <2>2. Skip \/ BeginChain \/ Finished \/ UNCHANGED vars => heap' = heap
    BY DEF Skip, BeginChain, Finished, vars
  <2>3. Return => heap' = heap
    BY <1>1, ReturnIs
  <2>4. Follow => heap' = heap
    BY FollowIs DEF Fail
  <2> QED  BY <1>3, <1>7, <2>1, <2>2, <2>3, <2>4
<1>8. ~Evaluate
  BY <1>1 DEF Evaluate
<1> QED  BY <1>4, <1>5, <1>6, <1>7, <1>8 DEF Next

-----------------------------------------------------------------------------
(* While expressions are evaluated, a value of a struct or list is the end *)
(* of its chain, or already its meaning, and all operands are their        *)
(* numbers.                                                                *)
Numbers(h) ==
  /\ \A c \in Holders :
       /\ DOMAIN h[c].data = DOMAIN source[c].data
       /\ \A i \in DOMAIN source[c].data :
            /\ h[c].data[i].key = source[c].data[i].key
            /\ h[c].data[i].val \in {EndOf(source[c].data[i].val), Meaning(source[c].data[i].val)}
  /\ \A c \in ExpressionsOfKeys :
       /\ DOMAIN h[c].data = DOMAIN source[c].data
       /\ \A i \in DOMAIN source[c].data : h[c].data[i].val = Meaning(source[c].data[i].val)
Numbered == phase = "evaluateExpressions" => Numbers(heap)

LEMMA NumberedPrimed ==
  ASSUME source' = source, phase' = "evaluateExpressions" => Numbers(heap')
  PROVE  Numbered'
<1>1. \A v : EndOf(v)' = EndOf(v) /\ Meaning(v)' = Meaning(v)
  BY MeaningSame
<1>2. Holders' = Holders /\ ExpressionsOfKeys' = ExpressionsOfKeys
  BY KeysSame DEF Holders
<1>3. Numbers(heap') => Numbers(heap)'
  BY <1>1, <1>2 DEF Numbers
<1> QED  BY <1>3 DEF Numbered

LEMMA NumbersBegin ==
  ASSUME Typed, Rewritten, Settled, phase = "resolveVarRefs", LookupsGone
  PROVE  Numbers(heap)
<1>1. source \in Sources
  BY DEF Typed, Tree
<1>2. ASSUME NEW c \in Holders \cup ExpressionsOfKeys
      PROVE  /\ c \in DOMAIN source /\ DOMAIN heap[c].data = DOMAIN source[c].data
             /\ \A i \in DOMAIN source[c].data : heap[c].data[i].key = source[c].data[i].key
  BY HoldersAre DEF Typed, SameKeys
<1>3. ASSUME NEW c \in Holders \cup ExpressionsOfKeys, NEW i \in DOMAIN source[c].data
      PROVE  heap[c].data[i].val = Replacement(c, source[c].data[i].val)
  <2>1. heap[c].data[i].val.type # "kValueLookup"
    BY <1>2 DEF LookupsGone
  <2>2. CASE heap[c].data[i].val = source[c].data[i].val
    <3> DEFINE v == source[c].data[i].val
    <3>1. v.type # "kValueLookup" /\ v \in Values(source)
      BY <1>1, <1>2, <2>1, <2>2, ValuesAre
    <3>2. EndOf(v) = v
      BY <1>1, <3>1, EndsAre
    <3>3. source[c].type # "kExpression"
      BY <1>1, <1>2, <3>1, OperandIs
    <3> QED  BY <2>2, <3>2, <3>3 DEF Replacement
  <2> QED  BY <1>2, <2>2 DEF Settled
<1>4. \A c \in Holders : source[c].type # "kExpression"
  BY HoldersAre
<1>5. \A c \in ExpressionsOfKeys : source[c].type = "kExpression"
  BY HoldersAre
<1> QED  BY <1>2, <1>3, <1>4, <1>5 DEF Numbers, Replacement

LEMMA NumbersEvaluate ==
  ASSUME Typed, Rewritten, Numbered, Computing, Evaluate, phase' # "InvalidTypeException"
  PROVE  Numbers(heap')
<1> DEFINE v == evaluateExpression(Current.cell)
           s == source[Here.cell].data[Here.at].val
<1>1. /\ AtEntry /\ phase = "evaluateExpressions" /\ Current.type = "kExpression"
      /\ Written(v) /\ v.type = "kNumber"
  BY EvaluateIs
<1>2. /\ Here.at \in DOMAIN heap[Here.cell].data /\ Here.cell \in DOMAIN source
      /\ Current = heap[Here.cell].data[Here.at].val
  BY <1>1, CurrentIs
<1>3. Here.cell \in Holders
  <2>1. PICK F : Computes(walk, heap, F)
    BY <1>1 DEF Computing
  <2>2. Here = walk[Len(walk)] /\ Len(walk) \in 1 .. Len(walk)
    BY HereIs DEF Typed
  <2> QED  BY <2>1, <2>2 DEF Computes
<1>4. source \in Sources /\ Numbers(heap)
  BY <1>1 DEF Typed, Tree, Numbered
<1>5. Here.at \in DOMAIN source[Here.cell].data /\ Current \in {EndOf(s), Meaning(s)} /\ s \in Values(source)
  BY <1>2, <1>3, <1>4, ValuesAre DEF Numbers
<1>6. v = Meaning(s)
  <2> HIDE DEF s
  <2> DEFINE e == Current.cell
  <2>1. EndOf(s) = Current /\ EndOf(s).type = "kExpression"
    BY <1>1, <1>4, <1>5, MeaningIs
  <2>2. e \in Cells(source, "kExpression") /\ Meaning(s) = Number(ComputedFrom(e))
    BY <1>4, <1>5, <2>1, MeaningIs
  <2>3. e \in ExpressionsOfKeys
    BY <1>1, <1>2, <1>3, ZenonT(30) DEF Rewritten, AllOfKeys, Holders, OfKeys
  <2>4. evaluateExpression(e) = Number(ComputedFrom(e))
    BY <1>4, <2>2, <2>3, EvaluatedRight DEF Numbers
  <2> QED  BY <2>2, <2>4
<1> HIDE DEF v
<1>7. ASSUME NEW c \in Holders, NEW i \in DOMAIN source[c].data
      PROVE  /\ heap'[c].data[i].key = source[c].data[i].key
             /\ heap'[c].data[i].val \in {EndOf(source[c].data[i].val), Meaning(source[c].data[i].val)}
  <2>1. c \in DOMAIN source /\ i \in DOMAIN heap[c].data
    BY <1>4, HoldersAre DEF Numbers
  <2>2. /\ heap'[c].data[i].key = heap[c].data[i].key
        /\ heap'[c].data[i].val = IF c = Here.cell /\ i = Here.at THEN v ELSE heap[c].data[i].val
    BY <1>1, <2>1 DEF Written
  <2>3. CASE c = Here.cell /\ i = Here.at
    BY <1>4, <1>6, <2>2, <2>3, ZenonT(30) DEF Numbers
  <2>4. CASE ~(c = Here.cell /\ i = Here.at)
    BY <1>4, <2>2, <2>4 DEF Numbers
  <2> QED  BY <2>3, <2>4
<1>8. ASSUME NEW c \in Holders PROVE DOMAIN heap'[c].data = DOMAIN source[c].data
  BY <1>1, <1>4, HoldersAre DEF Written, Numbers
<1>9. ASSUME NEW c \in ExpressionsOfKeys PROVE heap'[c] = heap[c]
  BY <1>1, <1>3, HoldersAre DEF Written
<1> QED  BY <1>4, <1>7, <1>8, <1>9 DEF Numbers

LEMMA NumberedStep ==
  ASSUME Typed, Rewritten, Visiting, Computing, Settled, Numbered, [Next]_vars PROVE Numbered'
<1> SUFFICES ASSUME phase' = "evaluateExpressions" PROVE Numbered'
  BY DEF Numbered
<1>1. source' = source /\ phase' # "InvalidTypeException"
  BY SourceKept
<1>2. CASE phase # "evaluateExpressions"
  <2>1. Return /\ Len(walk) = 1 /\ Here.at > Len(Cell.data) /\ phase = "resolveVarRefs"
    BY <1>2, PhaseEntered DEF Exception
  <2>2. heap' = heap
    BY <2>1, ReturnIs
  <2>3. LookupsGone
    BY <2>1, LookupsGoneAtEnd
  <2> QED  BY <1>1, <2>1, <2>2, <2>3, NumbersBegin, NumberedPrimed
<1>3. CASE phase = "evaluateExpressions" /\ heap' = heap
  BY <1>1, <1>3, NumberedPrimed DEF Numbered
<1>4. CASE phase = "evaluateExpressions" /\ Evaluate
  BY <1>1, <1>4, NumbersEvaluate, NumberedPrimed
<1>5. ASSUME phase = "evaluateExpressions" PROVE Evaluate \/ heap' = heap
  <2>1. Descend => heap' = heap
    BY DescendIs DEF Fail
  <2>2. Skip \/ Finished \/ UNCHANGED vars => heap' = heap
    BY DEF Skip, Finished, vars
  <2>3. Return => heap' = heap
    BY <1>5, ReturnIs
  <2>4. ~BeginChain /\ ~Follow /\ ~EndInStruct /\ ~EndInList /\ ~EndInExpression
    BY <1>5 DEF BeginChain, Follow, EndInStruct, EndInList, EndInExpression, AtEndOfChain
  <2> QED  BY <2>1, <2>2, <2>3, <2>4 DEF Next
<1> QED  BY <1>2, <1>3, <1>4, <1>5

-----------------------------------------------------------------------------
(* What is left of a struct when the empty structs in it are dropped. *)

LEMMA KeptSelects ==
  ASSUME NEW S, NEW data \in Seq(S)
  PROVE  Selection(FoldLeft(Kept, <<>>, data), data, {i \in DOMAIN data : ~EmptyStruct(data[i])})
<1> DEFINE L == Len(data)
           Left(n) == {i \in 1 .. n : ~EmptyStruct(data[i])}
<1>1. L \in Nat /\ DOMAIN data = 1 .. L
  OBVIOUS
<1>2. PICK g : /\ g[0] = <<>> /\ \A n \in 0 .. L : g[n] \in Seq(S)
               /\ \A n \in 1 .. L : g[n] = Kept(g[n - 1], data[n])
               /\ FoldLeft(Kept, <<>>, data) = g[L]
  BY KeptSteps
<1> HIDE DEF L
<1> DEFINE T == {n \in 0 .. L : ~Selection(g[n], data, Left(n))}
<1>3. Selection(g[0], data, Left(0))
  <2> DEFINE at == [j \in {} |-> j]
  <2>1. g[0] = <<>> /\ DOMAIN g[0] = {} /\ Left(0) = {}
    BY <1>2
  <2>2. at \in [DOMAIN g[0] -> Left(0)]
    BY <2>1
  <2> HIDE DEF at, Left
  <2> QED  BY <2>1, <2>2 DEF Selection
<1>4. ASSUME NEW n \in 1 .. L, Selection(g[n - 1], data, Left(n - 1)) PROVE Selection(g[n], data, Left(n))
  <2> DEFINE part == g[n - 1]
             m == Len(part)
  <2>1. n - 1 \in 0 .. L /\ n \in Nat /\ n \in 0 .. L
    BY <1>1
  <2>2. part \in Seq(S) /\ m \in Nat /\ DOMAIN part = 1 .. m
    BY <1>2, <2>1
  <2>3. PICK at \in [DOMAIN part -> Left(n - 1)] :
          /\ \A j \in DOMAIN part : part[j] = data[at[j]] /\ \A i \in 1 .. (j - 1) : at[i] < at[j]
          /\ \A k \in Left(n - 1) : \E j \in DOMAIN part : at[j] = k
    BY <1>4 DEF Selection
  <2>4. g[n] = Kept(part, data[n])
    BY <1>2
  <2>5. Left(n) = Left(n - 1) \cup (IF EmptyStruct(data[n]) THEN {} ELSE {n})
    BY <2>1
  <2>6. \A k \in Left(n - 1) : k \in Nat /\ k < n
    BY <2>1
  <2> HIDE DEF part, m, Left
  <2>7. CASE EmptyStruct(data[n])
    <3>1. g[n] = part /\ Left(n) = Left(n - 1)
      BY <2>4, <2>5, <2>7 DEF Kept
    <3> QED  BY <1>4, <3>1 DEF part
  <2>8. CASE ~EmptyStruct(data[n])
    <3> DEFINE new == g[n]
               to == [j \in 1 .. (m + 1) |-> IF j = m + 1 THEN n ELSE at[j]]
    <3>1. Left(n) = Left(n - 1) \cup {n}
      BY <2>5, <2>8
    <3>2. new = Append(part, data[n])
      BY <2>4, <2>8 DEF Kept
    <3>3. data[n] \in S
      BY <1>1
    <3>4. /\ DOMAIN new = 1 .. (m + 1) /\ new[m + 1] = data[n]
          /\ \A j \in 1 .. m : new[j] = part[j]
      BY <2>2, <3>2, <3>3 DEF m
    <3> HIDE DEF new
    <3>5. \A j \in 1 .. m : j \in 1 .. (m + 1) /\ to[j] = at[j] /\ to[j] \in Left(n - 1)
      BY <2>2, <2>3
    <3>6. m + 1 \in 1 .. (m + 1) /\ to[m + 1] = n
      BY <2>2
    <3>7. \A j \in 1 .. (m + 1) : j = m + 1 \/ j \in 1 .. m
      BY <2>2
    <3>8. to \in [DOMAIN new -> Left(n)]
      BY <2>2, <2>3, <3>1, <3>4, <3>7
    <3> HIDE DEF to
    <3>9. ASSUME NEW j \in DOMAIN new
          PROVE  new[j] = data[to[j]] /\ \A i \in 1 .. (j - 1) : to[i] < to[j]
      <4>1. CASE j = m + 1
        <5>1. \A i \in 1 .. (j - 1) : i \in 1 .. m
          BY <2>2, <4>1
        <5> QED  BY <2>6, <3>4, <3>5, <3>6, <4>1, <5>1
      <4>2. CASE j \in 1 .. m
        <5>1. \A i \in 1 .. (j - 1) : i \in 1 .. m
          BY <2>2, <4>2
        <5> QED  BY <2>2, <2>3, <3>4, <3>5, <4>2, <5>1
      <4> QED  BY <3>4, <3>7, <4>1, <4>2
    <3>10. ASSUME NEW k \in Left(n) PROVE \E j \in DOMAIN new : to[j] = k
      <4>1. CASE k = n
        BY <3>4, <3>6, <4>1
      <4>2. CASE k \in Left(n - 1)
        BY <2>2, <2>3, <3>4, <3>5, <4>2
      <4> QED  BY <3>1, <4>1, <4>2
    <3>11. Selection(new, data, Left(n))
      BY <3>8, <3>9, <3>10 DEF Selection
    <3> QED  BY <3>11 DEF new
  <2> QED  BY <2>7, <2>8
<1> HIDE DEF Left
<1>5. ASSUME T # {} PROVE FALSE
  <2>1. T \in SUBSET Nat
    BY <1>1
  <2>2. PICK n \in T : \A k \in T : n <= k
    BY <1>5, <2>1, LeastNumber
  <2>3. n # 0
    BY <1>3
  <2>4. n \in 1 .. L /\ n - 1 \in 0 .. L /\ n - 1 \notin T
    BY <1>1, <2>2, <2>3
  <2> QED  BY <1>4, <2>2, <2>4
<1>6. L \in 0 .. L
  BY <1>1
<1>7. Selection(g[L], data, Left(L))
  BY <1>5, <1>6
<1>8. Left(L) = {i \in DOMAIN data : ~EmptyStruct(data[i])}
  BY <1>1 DEF Left
<1> QED  BY <1>2, <1>7, <1>8

LEMMA KeptAll ==
  ASSUME NEW S, NEW data \in Seq(S), \A i \in DOMAIN data : ~EmptyStruct(data[i])
  PROVE  FoldLeft(Kept, <<>>, data) = data
<1> DEFINE L == Len(data)
<1>1. L \in Nat /\ DOMAIN data = 1 .. L
  OBVIOUS
<1>2. PICK g : /\ g[0] = <<>> /\ \A n \in 0 .. L : g[n] \in Seq(S)
               /\ \A n \in 1 .. L : g[n] = Kept(g[n - 1], data[n])
               /\ FoldLeft(Kept, <<>>, data) = g[L]
  BY KeptSteps
<1> HIDE DEF L
<1> DEFINE Same(n) == Len(g[n]) = n /\ \A i \in 1 .. n : g[n][i] = data[i]
           T == {n \in 0 .. L : ~Same(n)}
<1>3. Same(0)
  BY <1>2
<1>4. ASSUME NEW n \in 1 .. L, Same(n - 1) PROVE Same(n)
  <2>1. n - 1 \in 0 .. L /\ n \in Nat /\ data[n] \in S
    BY <1>1
  <2>2. g[n] = Append(g[n - 1], data[n]) /\ g[n - 1] \in Seq(S)
    BY <1>1, <1>2, <2>1 DEF Kept
  <2> QED  BY <1>4, <2>1, <2>2
<1> HIDE DEF Same
<1>5. ASSUME T # {} PROVE FALSE
  <2>1. T \in SUBSET Nat
    BY <1>1
  <2>2. PICK n \in T : \A k \in T : n <= k
    BY <1>5, <2>1, LeastNumber
  <2>3. n # 0
    BY <1>3
  <2>4. n \in 1 .. L /\ n - 1 \in 0 .. L /\ n - 1 \notin T
    BY <1>1, <2>2, <2>3
  <2> QED  BY <1>4, <2>2, <2>4
<1>6. L \in 0 .. L
  BY <1>1
<1>7. Same(L) /\ g[L] \in Seq(S)
  BY <1>2, <1>5, <1>6
<1>8. g[L] = data
  BY <1>1, <1>7 DEF Same, L
<1> QED  BY <1>2, <1>8

-----------------------------------------------------------------------------
(* cleanupConfig walks a tree in which every struct is what it means, and  *)
(* may walk a struct several times.  F are the structs it has been through *)
(* at least once: nothing is left in them but what they mean, without the  *)
(* structs that are empty, and all structs in them are in F as well.       *)
Cleaned(h, F) ==
  /\ F \in SUBSET Structs
  /\ \A c \in Structs \ F : h[c].data = Resolution(c)
  /\ \A c \in F :
       /\ Selection(h[c].data, Resolution(c), Content(h, Resolution(c)))
       /\ \A i \in DOMAIN Resolution(c) :
            Resolution(c)[i].val.type = "kStruct" => Resolution(c)[i].val.cell \in F
OnWalk(w, h, F) ==
  /\ \A n \in 1 .. Len(w) : w[n].cell \in Structs
  /\ \A n \in 1 .. (Len(w) - 1) :
       /\ w[n].at \in DOMAIN h[w[n].cell].data
       /\ h[w[n].cell].data[w[n].at].val = Pointer(source, w[n + 1].cell)
  /\ \A n \in 1 .. Len(w) : w[n].cell \notin F =>
       \A i \in DOMAIN Resolution(w[n].cell) :
         i < w[n].at /\ Resolution(w[n].cell)[i].val.type = "kStruct"
           => Resolution(w[n].cell)[i].val.cell \in F
ListsRight(h) == \A c \in ListsOfKeys : h[c].data = Resolution(c)
Cleaning == phase = "cleanupConfig" =>
  ListsRight(heap) /\ \E F : Cleaned(heap, F) /\ OnWalk(walk, heap, F)

LEMMA ResolutionSame == ASSUME source' = source PROVE \A c : Resolution(c)' = Resolution(c)
BY MeaningSame DEF Resolution

LEMMA CleaningPrimed ==
  ASSUME source' = source, ListsRight(heap'), NEW F, Cleaned(heap', F), OnWalk(walk', heap', F)
  PROVE  Cleaning'
<1>1. \A c : Resolution(c)' = Resolution(c)
  BY ResolutionSame
<1>2. Structs' = Structs /\ ListsOfKeys' = ListsOfKeys
  BY KeysSame DEF Structs
<1>3. ListsRight(heap)'
  BY <1>1, <1>2 DEF ListsRight
<1>4. Cleaned(heap, F)'
  BY <1>1, <1>2 DEF Cleaned
<1>5. OnWalk(walk, heap, F)'
  BY <1>1, <1>2 DEF OnWalk, Pointer
<1> QED  BY <1>3, <1>4, <1>5 DEF Cleaning

LEMMA ResolutionIs ==
  ASSUME Tree, NEW c \in DOMAIN source
  PROVE  /\ DOMAIN Resolution(c) = DOMAIN source[c].data
         /\ \A i \in DOMAIN source[c].data :
              /\ Resolution(c)[i] = [key |-> source[c].data[i].key, val |-> Meaning(source[c].data[i].val)]
              /\ Resolution(c)[i].val = Meaning(source[c].data[i].val)
              /\ Resolution(c)[i].val.type = "kStruct" =>
                   /\ Resolution(c)[i].val.cell \in Structs
                   /\ Resolution(c)[i].val = Pointer(source, Resolution(c)[i].val.cell)
<1>1. DOMAIN Resolution(c) = DOMAIN source[c].data
  BY DEF Resolution
<1>2. ASSUME NEW i \in DOMAIN source[c].data
      PROVE  /\ Resolution(c)[i] = [key |-> source[c].data[i].key, val |-> Meaning(source[c].data[i].val)]
             /\ Resolution(c)[i].val = Meaning(source[c].data[i].val)
  <2>1. source[c].data[i] \in EntryOf(source)
    BY SourceCellIs
  <2>2. Resolution(c)[i] = [source[c].data[i] EXCEPT !.val = Meaning(source[c].data[i].val)]
    BY DEF Resolution
  <2> QED  BY <2>1, <2>2 DEF EntryOf
<1>3. ASSUME NEW i \in DOMAIN source[c].data, Meaning(source[c].data[i].val).type = "kStruct"
      PROVE  LET v == Meaning(source[c].data[i].val) IN v.cell \in Structs /\ v = Pointer(source, v.cell)
  <2> DEFINE s == source[c].data[i].val
  <2>1. source \in Sources /\ s \in Values(source)
    BY ValuesAre DEF Tree
  <2> HIDE DEF s
  <2>2. Meaning(s) = EndOf(s) /\ EndOf(s) \in Values(source)
    BY <1>3, <2>1, MeaningIs, EndsAre DEF s
  <2> QED  BY <1>3, <2>1, <2>2, ValuesAre DEF s, Structs, Cells, Container
<1> QED  BY <1>1, <1>2, <1>3

LEMMA CleaningBegins ==
  ASSUME Typed, Numbers(heap), ExpressionsGone, Return, Len(walk) = 1, phase = "evaluateExpressions"
  PROVE  Cleaning'
<1>1. /\ heap' = heap /\ source' = source /\ Len(walk') = 1 /\ walk'[1].cell = Root /\ walk'[1].at = 1
  BY ReturnIs, WalkStarts
<1>2. source \in Sources /\ Root \in Structs
  BY RootHolds DEF Typed, Tree, Structs
<1>3. ASSUME NEW c \in Holders PROVE heap[c].data = Resolution(c)
  <2>1. c \in DOMAIN source
    BY HoldersAre
  <2>2. DOMAIN heap[c].data = DOMAIN source[c].data /\ DOMAIN Resolution(c) = DOMAIN source[c].data
    BY <2>1, ResolutionIs DEF Numbers, Typed
  <2>3. ASSUME NEW i \in DOMAIN source[c].data PROVE heap[c].data[i] = Resolution(c)[i]
    <3> DEFINE s == source[c].data[i].val
    <3>1. s \in Values(source)
      BY <1>2, <2>1, ValuesAre
    <3>2. heap[c].data[i].key = source[c].data[i].key /\ heap[c].data[i].val \in {EndOf(s), Meaning(s)}
      BY DEF Numbers
    <3>3. heap[c].data[i].val.type # "kExpression"
      BY <2>2 DEF ExpressionsGone
    <3>4. Resolution(c)[i] = [key |-> source[c].data[i].key, val |-> Meaning(s)]
      BY <2>1, ResolutionIs DEF Typed
    <3>5. heap[c].data[i] \in EntryOf(source)
      BY <2>1, <2>2, CellIs DEF Typed
    <3> HIDE DEF s
    <3>6. heap[c].data[i].val = Meaning(s)
      BY <1>2, <3>1, <3>2, <3>3, MeaningIs
    <3> QED  BY <3>2, <3>4, <3>5, <3>6 DEF EntryOf
  <2>4. heap[c].data = [i \in DOMAIN heap[c].data |-> heap[c].data[i]]
    BY <2>1, CellIs DEF Typed
  <2>5. Resolution(c) = [i \in DOMAIN Resolution(c) |-> Resolution(c)[i]]
    BY DEF Resolution
  <2> QED  BY <2>2, <2>3, <2>4, <2>5
<1>4. ListsRight(heap') /\ Cleaned(heap', {})
  BY <1>1, <1>3 DEF ListsRight, Cleaned, Holders, Structs
<1>5. OnWalk(walk', heap', {})
  <2>1. \A i \in DOMAIN Resolution(Root) : ~(i < 1)
    <3>1. Root \in DOMAIN source
      BY <1>2 DEF Structs, Cells
    <3>2. DOMAIN Resolution(Root) = 1 .. Len(source[Root].data) /\ Len(source[Root].data) \in Nat
      BY <3>1, ResolutionIs, SourceCellIs DEF Typed
    <3> QED  BY <3>2
  <2>2. \A n \in 1 .. Len(walk') : n = 1
    BY <1>1
  <2>3. \A n \in 1 .. (Len(walk') - 1) : FALSE
    BY <1>1
  <2> QED  BY <1>1, <1>2, <2>1, <2>2, <2>3 DEF OnWalk
<1> QED  BY <1>1, <1>4, <1>5, CleaningPrimed

(* What a struct that has been walked through still holds.                 *)
LEMMA CleanedHolds ==
  ASSUME Tree, NEW F, Cleaned(heap, F), NEW c \in F, NEW j \in DOMAIN heap[c].data
  PROVE  /\ ~EmptyStruct(heap[c].data[j])
         /\ heap[c].data[j].val.type = "kStruct" => heap[c].data[j].val.cell \in F
<1>1. PICK at \in [DOMAIN heap[c].data -> Content(heap, Resolution(c))] :
        \A k \in DOMAIN heap[c].data : heap[c].data[k] = Resolution(c)[at[k]]
  BY DEF Cleaned, Selection
<1> DEFINE k == at[j]
<1>2. k \in Content(heap, Resolution(c)) /\ heap[c].data[j] = Resolution(c)[k]
  BY <1>1
<1>3. k \in DOMAIN Resolution(c)
      /\ (Resolution(c)[k].val.type = "kStruct" => heap[Resolution(c)[k].val.cell].data # <<>>)
  BY <1>2 DEF Content
<1> QED  BY <1>2, <1>3 DEF EmptyStruct, Cleaned

(* The struct that the walk is about to leave for the first time is        *)
(* nowhere else in it: between two calls in it, all would have been left.  *)
LEMMA NotTwice ==
  ASSUME Typed, NEW F, Cleaned(heap, F), OnWalk(walk, heap, F),
         Here.at > Len(Cell.data), Here.cell \notin F, NEW m \in 1 .. (Len(walk) - 1)
  PROVE  walk[m].cell # Here.cell
<1> SUFFICES ASSUME walk[m].cell = Here.cell PROVE FALSE
  OBVIOUS
<1> DEFINE L == Len(walk)
           x == Here.cell
           T == {n \in (m + 1) .. L : walk[n].cell \notin F}
<1>1. L \in Nat \ {0} /\ Here = walk[L] /\ x \in DOMAIN source /\ Here.at \in Nat
  BY HereIs DEF Typed
<1>2. m \in 1 .. L /\ m \in Nat /\ L \in T /\ T \in SUBSET Nat
  BY <1>1
<1>3. PICK n \in T : \A k \in T : n <= k
  BY <1>2, LeastNumber
<1>4. n - 1 \in 1 .. (L - 1) /\ n - 1 \notin T /\ n - 1 + 1 = n
  BY <1>1, <1>2, <1>3
<1> HIDE DEF L
<1> DEFINE c == walk[n - 1].cell
           i == walk[n - 1].at
<1>5. i \in DOMAIN heap[c].data /\ heap[c].data[i].val = Pointer(source, walk[n].cell)
  BY <1>4 DEF OnWalk, L
<1>6. walk[n].cell \in Structs /\ c \in Structs
  <2>1. n \in 1 .. L /\ n - 1 \in 1 .. L
    BY <1>1, <1>2, <1>3, <1>4
  <2> QED  BY <2>1 DEF OnWalk, L
<1>7. heap[c].data[i].val.type = "kStruct" /\ heap[c].data[i].val.cell = walk[n].cell
  BY <1>5, <1>6 DEF Pointer, Value, Structs, Cells
<1>8. CASE n - 1 = m
  <2>1. c = x /\ heap[x].data = Resolution(x)
    BY <1>6, <1>8 DEF Cleaned
  <2>2. i < Here.at
    <3>1. DOMAIN heap[x].data = 1 .. Len(heap[x].data) /\ Len(heap[x].data) \in Nat
      BY <1>1, CellIs DEF Typed
    <3> HIDE DEF i, c
    <3>2. i \in 1 .. Len(heap[x].data)
      BY <1>5, <2>1, <3>1
    <3> QED  BY <1>1, <3>1, <3>2 DEF Cell
  <2>3. L \in 1 .. L
    BY <1>1
  <2>4. walk[L].cell = x /\ walk[L].at = Here.at
    BY <1>1
  <2>5. Resolution(x)[i].val.cell \in F
    <3> HIDE DEF i, c
    <3> QED  BY <1>5, <1>7, <2>1, <2>2, <2>3, <2>4 DEF OnWalk, L
  <2> QED  BY <1>3, <1>7, <2>1, <2>5
<1>9. CASE n - 1 # m
  <2>1. n - 1 \in (m + 1) .. L
    BY <1>1, <1>2, <1>3, <1>4, <1>9
  <2>2. c \in F
    BY <1>4, <2>1
  <2>3. heap[c].data[i].val.cell \in F
    BY <1>5, <1>7, <2>2, CleanedHolds DEF Typed
  <2> QED  BY <1>3, <1>7, <2>3
<1> QED  BY <1>8, <1>9

LEMMA CleanedReturn ==
  ASSUME Typed, NEW F, Cleaned(heap, F), OnWalk(walk, heap, F), phase = "cleanupConfig", Return
  PROVE  /\ Cleaned(heap', F \cup {Here.cell})
         /\ \A c \in DOMAIN source : c # Here.cell \/ c \in F => heap'[c].data = heap[c].data
<1> DEFINE x == Here.cell
           L == Len(walk)
<1>1. x \in DOMAIN source /\ L \in 1 .. L /\ Here = walk[L] /\ Here.at \in Nat
  BY HereIs DEF Typed
<1>2. /\ \A c \in DOMAIN source : c # x => heap'[c] = heap[c]
      /\ heap'[x].data = FoldLeft(Kept, <<>>, heap[x].data)
  BY <1>1, ReturnIs
<1>3. x \in Structs /\ F \in SUBSET Structs /\ Structs \in SUBSET DOMAIN source
  BY <1>1 DEF OnWalk, Cleaned, Structs, Cells
<1>4. heap[x].data \in Seq(EntryOf(source))
  BY <1>1, CellIs DEF Typed
<1>5. CASE x \in F
  <2>1. \A j \in DOMAIN heap[x].data : ~EmptyStruct(heap[x].data[j])
    BY <1>5, CleanedHolds DEF Typed
  <2>2. heap'[x].data = heap[x].data
    BY <1>2, <1>4, <2>1, KeptAll
  <2>3. \A c \in DOMAIN source : heap'[c].data = heap[c].data
    BY <1>2, <2>2
  <2>4. \A c \in F : Content(heap', Resolution(c)) = Content(heap, Resolution(c))
    <3> SUFFICES ASSUME NEW c \in F
                 PROVE  \A i \in DOMAIN Resolution(c) : Resolution(c)[i].val.type = "kStruct" =>
                          heap'[Resolution(c)[i].val.cell].data = heap[Resolution(c)[i].val.cell].data
      BY DEF Content
    <3> QED  BY <1>3, <2>3 DEF Cleaned
  <2>5. F \cup {x} = F
    BY <1>5
  <2>6. Cleaned(heap', F)
    BY <1>3, <2>3, <2>4 DEF Cleaned
  <2> QED  BY <2>3, <2>5, <2>6
<1>6. CASE x \notin F
  <2> DEFINE G == F \cup {x}
             R == Resolution(x)
  <2>1. heap[x].data = R
    BY <1>3, <1>6 DEF Cleaned
  <2>2. \A i \in DOMAIN R : R[i].val.type = "kStruct" => R[i].val.cell \in F
    <3>1. DOMAIN heap[x].data = 1 .. Len(heap[x].data) /\ Len(heap[x].data) \in Nat
      BY <1>1, CellIs DEF Typed
    <3>2. Here.at > Len(heap[x].data)
      BY DEF Return, Cell
    <3>3. \A i \in DOMAIN R : i < walk[L].at
      BY <1>1, <2>1, <3>1, <3>2
    <3>4. walk[L].cell = x
      BY <1>1
    <3> HIDE DEF x, L
    <3> QED  BY <1>1, <1>6, <3>3, <3>4 DEF OnWalk, L
  <2>3. \A c \in F : c # x /\ heap'[c] = heap[c]
    BY <1>2, <1>3, <1>6
  <2>4. \A c \in G : \A i \in DOMAIN Resolution(c) :
          Resolution(c)[i].val.type = "kStruct" => Resolution(c)[i].val.cell \in F
    BY <2>2 DEF Cleaned
  <2>5. \A c \in G : Content(heap', Resolution(c)) = Content(heap, Resolution(c))
    BY <2>3, <2>4 DEF Content
  <2>6. Selection(heap'[x].data, R, Content(heap', R))
    <3>1. {i \in DOMAIN R : ~EmptyStruct(R[i])} = Content(heap, R)
      BY DEF EmptyStruct, Content
    <3>2. Selection(FoldLeft(Kept, <<>>, R), R, {i \in DOMAIN R : ~EmptyStruct(R[i])})
      BY <1>4, <2>1, KeptSelects
    <3> QED  BY <1>2, <2>1, <2>5, <3>1, <3>2
  <2>7. \A c \in G : Selection(heap'[c].data, Resolution(c), Content(heap', Resolution(c)))
    BY <2>3, <2>5, <2>6 DEF Cleaned
  <2>8. \A c \in Structs \ G : heap'[c].data = Resolution(c)
    BY <1>2, <1>3 DEF Cleaned
  <2>9. Cleaned(heap', G)
    BY <1>3, <2>4, <2>7, <2>8 DEF Cleaned
  <2> QED  BY <1>2, <1>6, <2>9
<1> QED  BY <1>5, <1>6

LEMMA CleaningDescend ==
  ASSUME Typed, Cleaning, phase = "cleanupConfig", Descend, Len(walk) # MaxDepth PROVE Cleaning'
<1> DEFINE L == Len(walk)
           d == Current.cell
           f == [cell |-> d, at |-> 1]
           w == walk'
<1>1. AtEntry /\ Enters(Current) /\ w = Append(walk, f) /\ UNCHANGED <<source, heap, chain, phase>>
  BY DescendIs
<1>2. PICK F : Cleaned(heap, F) /\ OnWalk(walk, heap, F)
  BY DEF Cleaning
<1>3. d \in Structs /\ Current = Pointer(source, d)
  <2>1. Current.type = "kStruct"
    BY <1>1 DEF Enters
  <2> QED  BY <1>1, <2>1, EntersIs DEF Structs, Cells
<1>4. /\ Here.at \in DOMAIN heap[Here.cell].data /\ Here.cell \in DOMAIN source
      /\ Current = heap[Here.cell].data[Here.at].val
  BY <1>1, CurrentIs
<1>5. f \in Frame /\ f.cell = d /\ f.at = 1
  BY <1>3 DEF Frame, Structs, Cells
<1> HIDE DEF f
<1>6. /\ Len(w) = L + 1 /\ w[L + 1] = f /\ \A n \in 1 .. L : w[n] = walk[n]
      /\ L \in Nat \ {0} /\ Here = walk[L]
  BY <1>1, <1>5, PushIs, HereIs DEF Typed
<1> HIDE DEF w, L
<1>7. /\ \A n \in 1 .. (L + 1) : n = L + 1 \/ n \in 1 .. L
      /\ \A n \in 1 .. L : n = L \/ (n \in 1 .. (L - 1) /\ n + 1 \in 1 .. L)
      /\ L \in 1 .. L
  BY <1>6
<1>8. \A n \in 1 .. (L + 1) : w[n].cell \in Structs
  BY <1>2, <1>3, <1>5, <1>6, <1>7 DEF OnWalk, L
<1>9. ASSUME NEW n \in 1 .. L
      PROVE  /\ w[n].at \in DOMAIN heap[w[n].cell].data
             /\ heap[w[n].cell].data[w[n].at].val = Pointer(source, w[n + 1].cell)
  <2>1. CASE n = L
    BY <1>3, <1>4, <1>5, <1>6, <1>7, <2>1
  <2>2. CASE n \in 1 .. (L - 1) /\ n + 1 \in 1 .. L
    BY <1>2, <1>6, <2>2 DEF OnWalk, L
  <2> QED  BY <1>7, <2>1, <2>2
<1>10. ASSUME NEW n \in 1 .. (L + 1), w[n].cell \notin F, NEW i \in DOMAIN Resolution(w[n].cell),
              i < w[n].at, Resolution(w[n].cell)[i].val.type = "kStruct"
       PROVE  Resolution(w[n].cell)[i].val.cell \in F
  <2>1. CASE n = L + 1
    <3>1. d \in DOMAIN source
      BY <1>3 DEF Structs, Cells
    <3>2. DOMAIN Resolution(d) = 1 .. Len(source[d].data) /\ Len(source[d].data) \in Nat
      BY <3>1, ResolutionIs, SourceCellIs DEF Typed
    <3>3. i \in DOMAIN Resolution(d) /\ i < 1
      BY <1>5, <1>6, <1>10, <2>1
    <3> QED  BY <3>2, <3>3
  <2>2. CASE n \in 1 .. L
    BY <1>2, <1>6, <1>10, <2>2 DEF OnWalk, L
  <2> QED  BY <1>7, <2>1, <2>2
<1>11. OnWalk(w, heap, F)
  <2>1. Len(w) - 1 = L
    BY <1>6
  <2> QED  BY <1>6, <1>8, <1>9, <1>10, <2>1 DEF OnWalk
<1>12. OnWalk(walk', heap', F) /\ Cleaned(heap', F) /\ ListsRight(heap')
  BY <1>1, <1>2, <1>11 DEF Cleaning, w
<1> QED  BY <1>1, <1>12, CleaningPrimed

LEMMA CleaningSkip ==
  ASSUME Typed, Cleaning, phase = "cleanupConfig", Skip PROVE Cleaning'
<1> DEFINE L == Len(walk)
           w == walk'
<1>1. AtEntry /\ ~Enters(Current) /\ w = Advance(walk) /\ UNCHANGED <<source, heap, chain, phase>>
  BY DEF Skip
<1>2. PICK F : Cleaned(heap, F) /\ OnWalk(walk, heap, F)
  BY DEF Cleaning
<1>3. Current = heap[Here.cell].data[Here.at].val /\ Current.type # "kStruct"
  <2>1. Current.type # "kStruct"
    BY <1>1 DEF Enters
  <2> QED  BY <1>1, <2>1, CurrentIs
<1>4. /\ Len(w) = L /\ L \in Nat \ {0} /\ Here = walk[L] /\ w[L].at = Here.at + 1
      /\ \A n \in 1 .. (L - 1) : w[n] = walk[n]
      /\ \A n \in 1 .. L : w[n].cell = walk[n].cell
      /\ Here.at \in Nat /\ Here.cell \in DOMAIN source
  BY <1>1, AdvanceIs, HereIs DEF Typed
<1> HIDE DEF w, L
<1>5. /\ \A n \in 1 .. L : n = L \/ n \in 1 .. (L - 1)
      /\ \A n \in 1 .. (L - 1) : n \in 1 .. L /\ n + 1 \in 1 .. L
      /\ L \in 1 .. L
  BY <1>4
<1>6. \A n \in 1 .. L : w[n].cell \in Structs
  BY <1>2, <1>4 DEF OnWalk, L
<1>7. \A n \in 1 .. (L - 1) : /\ w[n].at \in DOMAIN heap[w[n].cell].data
                              /\ heap[w[n].cell].data[w[n].at].val = Pointer(source, w[n + 1].cell)
  BY <1>2, <1>4, <1>5 DEF OnWalk, L
<1>8. ASSUME NEW n \in 1 .. L, w[n].cell \notin F, NEW i \in DOMAIN Resolution(w[n].cell),
             i < w[n].at, Resolution(w[n].cell)[i].val.type = "kStruct"
      PROVE  Resolution(w[n].cell)[i].val.cell \in F
  <2>1. CASE n = L
    <3> DEFINE x == Here.cell
    <3>1. w[n].cell = x /\ walk[L].cell = x /\ walk[L].at = Here.at /\ x \in Structs /\ x \notin F
      BY <1>4, <1>5, <1>6, <1>8, <2>1
    <3>2. i \in DOMAIN Resolution(x) /\ Resolution(x)[i].val.type = "kStruct" /\ i < Here.at + 1
      BY <1>4, <1>8, <2>1, <3>1
    <3>3. heap[x].data = Resolution(x)
      BY <1>2, <3>1 DEF Cleaned
    <3>4. i # Here.at
      BY <1>3, <3>2, <3>3
    <3>5. i \in Nat
      <4>1. DOMAIN Resolution(x) = 1 .. Len(source[x].data)
        BY <1>4, ResolutionIs, SourceCellIs DEF Typed
      <4> QED  BY <3>2, <4>1
    <3>6. i < Here.at
      BY <1>4, <3>2, <3>4, <3>5
    <3> HIDE DEF x
    <3> QED  BY <1>2, <1>5, <3>1, <3>2, <3>6 DEF OnWalk, L
  <2>2. CASE n \in 1 .. (L - 1)
    BY <1>2, <1>4, <1>5, <1>8, <2>2 DEF OnWalk, L
  <2> QED  BY <1>5, <2>1, <2>2
<1>9. OnWalk(w, heap, F)
  BY <1>4, <1>6, <1>7, <1>8 DEF OnWalk
<1>10. OnWalk(walk', heap', F) /\ Cleaned(heap', F) /\ ListsRight(heap')
  BY <1>1, <1>2, <1>9 DEF Cleaning, w
<1> QED  BY <1>1, <1>10, CleaningPrimed

LEMMA ListsRightReturn ==
  ASSUME Typed, ListsRight(heap), Here.cell \in Structs, Return PROVE ListsRight(heap')
<1>1. \A c \in ListsOfKeys : c \in DOMAIN source /\ c # Here.cell
  BY ListsOfKeysAre DEF Structs, Cells
<1> QED  BY <1>1, ReturnIs DEF ListsRight

LEMMA CleaningReturn ==
  ASSUME Typed, Cleaning, phase = "cleanupConfig", Return, Len(walk) > 1 PROVE Cleaning'
<1> DEFINE L == Len(walk)
           w == walk'
           x == Here.cell
           b == walk[L - 1].cell
           j == walk[L - 1].at
<1>1. PICK F : Cleaned(heap, F) /\ OnWalk(walk, heap, F)
  BY DEF Cleaning
<1> DEFINE G == F \cup {x}
<1>2. source' = source /\ w = Advance(Front(walk))
  BY ReturnIs
<1>3. /\ L \in Nat \ {0} /\ L - 1 \in Nat \ {0} /\ Here = walk[L] /\ x \in DOMAIN source
      /\ \A n \in 1 .. L : walk[n].at \in Nat
  BY HereIs DEF Typed
<1>4. /\ Len(w) = L - 1 /\ \A n \in 1 .. (L - 2) : w[n] = walk[n]
      /\ \A n \in 1 .. (L - 1) : w[n].cell = walk[n].cell
      /\ w[L - 1].at = j + 1
  BY <1>2, PopIs DEF Typed
<1>5. /\ Cleaned(heap', G)
      /\ \A c \in DOMAIN source : c # x \/ c \in F => heap'[c].data = heap[c].data
  BY <1>1, CleanedReturn
<1>6. ASSUME NEW n \in 1 .. (L - 1) PROVE heap'[walk[n].cell].data = heap[walk[n].cell].data
  <2>1. walk[n].cell \in DOMAIN source
    <3>1. n \in 1 .. L
      BY <1>3
    <3> QED  BY <3>1, HereIs DEF Typed
  <2>2. x \notin F => walk[n].cell # x
    BY <1>1, NotTwice DEF Return
  <2> QED  BY <1>5, <2>1, <2>2
<1> HIDE DEF w, L
<1>7. /\ L - 1 \in 1 .. (L - 1) /\ L \in 1 .. L /\ (L - 1) + 1 = L
      /\ \A n \in 1 .. (L - 1) : n \in 1 .. L /\ (n = L - 1 \/ n \in 1 .. (L - 2))
      /\ \A n \in 1 .. (L - 2) : n \in 1 .. (L - 1) /\ n + 1 \in 1 .. (L - 1)
  BY <1>3
<1>8. x \in Structs /\ \A n \in 1 .. L : walk[n].cell \in Structs
  BY <1>1, <1>3, <1>7, ZenonT(30) DEF OnWalk, L
<1>9. \A n \in 1 .. (L - 1) : w[n].cell \in Structs
  BY <1>4, <1>7, <1>8
<1>10. ASSUME NEW n \in 1 .. (L - 2)
       PROVE  /\ w[n].at \in DOMAIN heap'[w[n].cell].data
              /\ heap'[w[n].cell].data[w[n].at].val = Pointer(source, w[n + 1].cell)
  <2>1. w[n] = walk[n] /\ w[n + 1].cell = walk[n + 1].cell /\ n \in 1 .. (L - 1)
    BY <1>4, <1>7
  <2> QED  BY <1>1, <1>6, <2>1 DEF OnWalk, L
<1>11. ASSUME NEW n \in 1 .. (L - 1), w[n].cell \notin G, NEW i \in DOMAIN Resolution(w[n].cell),
              i < w[n].at, Resolution(w[n].cell)[i].val.type = "kStruct"
       PROVE  Resolution(w[n].cell)[i].val.cell \in G
  <2>1. CASE n = L - 1
    <3>1. w[n].cell = b /\ b \in Structs /\ b \notin F /\ j \in Nat
      BY <1>3, <1>4, <1>7, <1>8, <1>11, <2>1
    <3>2. i \in DOMAIN Resolution(b) /\ Resolution(b)[i].val.type = "kStruct" /\ i < j + 1
      BY <1>4, <1>11, <2>1, <3>1
    <3>3. i \in Nat
      <4>1. b \in DOMAIN source
        BY <3>1 DEF Structs, Cells
      <4> HIDE DEF b
      <4>2. DOMAIN Resolution(b) = 1 .. Len(source[b].data)
        BY <4>1, ResolutionIs, SourceCellIs DEF Typed
      <4> QED  BY <3>2, <4>2
    <3>4. CASE i = j
      <4>1. heap[b].data = Resolution(b)
        BY <1>1, <3>1 DEF Cleaned
      <4>2. heap[b].data[j].val = Pointer(source, x)
        BY <1>1, <1>3, <1>7, ZenonT(30) DEF OnWalk, L
      <4>3. Pointer(source, x).cell = x
        BY DEF Pointer, Value
      <4> QED  BY <3>1, <3>4, <4>1, <4>2, <4>3
    <3>5. CASE i < j
      <4>1. L - 1 \in 1 .. L
        BY <1>7
      <4>2. walk[L - 1].cell = b /\ walk[L - 1].at = j
        OBVIOUS
      <4> HIDE DEF b, j
      <4>3. Resolution(b)[i].val.cell \in F
        BY <1>1, <3>1, <3>2, <3>5, <4>1, <4>2 DEF OnWalk, L
      <4> QED  BY <3>1, <4>3
    <3> HIDE DEF b, j
    <3> QED  BY <3>1, <3>2, <3>3, <3>4, <3>5
  <2>2. CASE n \in 1 .. (L - 2)
    <3>1. w[n] = walk[n] /\ n \in 1 .. L /\ walk[n].cell \notin F
      BY <1>4, <1>7, <1>11, <2>2
    <3> HIDE DEF x
    <3>2. Resolution(walk[n].cell)[i].val.cell \in F
      BY <1>1, <1>11, <3>1 DEF OnWalk, L
    <3> QED  BY <3>1, <3>2
  <2> QED  BY <1>7, <2>1, <2>2
<1>12. OnWalk(w, heap', G)
  <2>1. Len(w) - 1 = L - 2
    BY <1>3, <1>4
  <2> HIDE DEF G
  <2> QED  BY <1>4, <1>9, <1>10, <1>11, <2>1 DEF OnWalk
<1>13. ListsRight(heap')
  BY <1>8, ListsRightReturn DEF Cleaning
<1> QED  BY <1>2, <1>5, <1>12, <1>13, CleaningPrimed DEF w

LEMMA CleaningStep ==
  ASSUME Typed, Rewritten, Computing, Numbered, Cleaning, [Next]_vars PROVE Cleaning'
<1> SUFFICES ASSUME phase' = "cleanupConfig" PROVE Cleaning'
  BY DEF Cleaning
<1>1. CASE phase # "cleanupConfig"
  <2>1. Return /\ Len(walk) = 1 /\ Here.at > Len(Cell.data) /\ phase = "evaluateExpressions"
    BY <1>1, PhaseEntered DEF Exception
  <2> QED  BY <2>1, ExpressionsGoneAtEnd, CleaningBegins DEF Numbered
<1>2. CASE phase = "cleanupConfig" /\ Descend
  <2>1. Len(walk) # MaxDepth
    BY <1>2, DescendIs DEF Fail
  <2> QED  BY <1>2, <2>1, CleaningDescend
<1>3. CASE phase = "cleanupConfig" /\ Skip
  BY <1>3, CleaningSkip
<1>4. CASE phase = "cleanupConfig" /\ Return
  <2>1. CASE Len(walk) = 1
    <3>1. ~(Len(walk) > 1)
      BY <2>1
    <3> QED  BY <1>4, <3>1, ReturnIs
  <2>2. CASE Len(walk) > 1
    BY <1>4, <2>2, CleaningReturn
  <2> QED  BY <2>1, <2>2, CallsIn
<1>5. CASE phase = "cleanupConfig" /\ (Finished \/ UNCHANGED vars)
  <2>1. UNCHANGED <<source, heap, walk>>
    BY <1>5 DEF Finished, vars
  <2>2. PICK F : Cleaned(heap, F) /\ OnWalk(walk, heap, F)
    BY <1>5 DEF Cleaning
  <2>3. Cleaned(heap', F) /\ OnWalk(walk', heap', F) /\ ListsRight(heap')
    BY <1>5, <2>1, <2>2 DEF Cleaning
  <2> QED  BY <2>1, <2>3, CleaningPrimed
<1>6. phase = "cleanupConfig" => ~BeginChain /\ ~Follow /\ ~EndInStruct /\ ~EndInList /\ ~EndInExpression /\ ~Evaluate
  BY DEF BeginChain, Follow, EndInStruct, EndInList, EndInExpression, Evaluate, AtEndOfChain
<1> QED  BY <1>1, <1>2, <1>3, <1>4, <1>5, <1>6 DEF Next

(* When the walk leaves the root it has been through every struct of the   *)
(* source: a struct that is there is also what its entry means.            *)
LEMMA CleanedAtEnd ==
  ASSUME Typed, Cleaning, phase = "cleanupConfig", Return, Len(walk) = 1
  PROVE  /\ \A c \in Structs : Selection(heap'[c].data, Resolution(c), Content(heap', Resolution(c)))
         /\ ListsRight(heap')
<1>1. PICK F : Cleaned(heap, F) /\ OnWalk(walk, heap, F)
  BY DEF Cleaning
<1> DEFINE G == F \cup {Here.cell}
           D == G \cup Cells(source, "kList")
<1>2. Cleaned(heap', G)
  BY <1>1, CleanedReturn
<1>3. source \in Sources /\ Here.cell = Root /\ Root \in Structs
  BY HereIs, RootHolds DEF Typed, Calls, Tree, Structs
<1>4. ASSUME NEW c \in Structs \cap D, NEW i \in DOMAIN source[c].data,
             source[c].data[i].val.type \in {"kStruct", "kList"}
      PROVE  source[c].data[i].val.cell \in D
  <2> DEFINE v == source[c].data[i].val
  <2>1. c \in DOMAIN source /\ c \in G
    BY <1>4 DEF Structs, Cells
  <2>2. v \in Values(source) /\ v.cell \in DOMAIN source /\ source[v.cell].type = v.type
    BY <1>3, <1>4, <2>1, ValuesAre, PointerIs DEF Container
  <2>3. CASE v.type = "kList"
    BY <2>2, <2>3 DEF Cells
  <2>4. CASE v.type = "kStruct"
    <3>1. EndOf(v) = v
      BY <1>3, <2>2, <2>4, EndsAre
    <3>2. Meaning(v) = v
      BY <1>3, <2>2, <2>4, <3>1, MeaningIs
    <3>3. i \in DOMAIN Resolution(c) /\ Resolution(c)[i].val = v
      BY <2>1, <3>2, ResolutionIs DEF Typed
    <3> HIDE DEF v, G
    <3>4. v.cell \in G
      BY <1>2, <2>1, <2>4, <3>3 DEF Cleaned
    <3> QED  BY <3>4 DEF v
  <2> QED  BY <1>4, <2>3, <2>4
<1>5. Structs \subseteq G
  <2>1. Root \in D
    BY <1>3
  <2> HIDE DEF D
  <2>2. Structs \subseteq D
    BY <1>3, <1>4, <2>1, StructsReached DEF Structs
  <2> QED  BY <2>2 DEF D, Structs, Cells
<1>6. ListsRight(heap')
  BY <1>3, ListsRightReturn DEF Cleaning
<1> QED  BY <1>2, <1>5, <1>6 DEF Cleaned

LEMMA DoneStays ==
  ASSUME Typed, [Next]_vars, phase = "done" PROVE Finished \/ UNCHANGED vars
<1>1. ~Skip /\ ~BeginChain /\ ~Follow /\ ~EndInStruct /\ ~EndInList /\ ~EndInExpression /\ ~Evaluate
  BY DEF Skip, AtEntry, BeginChain, Follow, EndInStruct, EndInList, EndInExpression, Evaluate,
         AtEndOfChain, Walking
<1>2. ~Descend
  BY DescendIs DEF AtEntry, Walking
<1>3. ~Return
  BY ReturnIs DEF Walking
<1> QED  BY <1>1, <1>2, <1>3 DEF Next

LEMMA ResolvedRightStep ==
  ASSUME Typed, Cleaning, ResolvedRight, [Next]_vars PROVE ResolvedRight'
<1>1. source' = source
  BY SourceKept
<1>2. (\A c : Resolution(c)' = Resolution(c)) /\ ListsOfKeys' = ListsOfKeys
  BY <1>1, ResolutionSame, KeysSame
<1>3. SUFFICES ASSUME phase' = "done"
               PROVE  /\ \A c \in Structs :
                           Selection(heap'[c].data, Resolution(c), Content(heap', Resolution(c)))
                      /\ ListsRight(heap')
  <2>1. ListsRight(heap)' = ListsRight(heap')
    BY <1>2 DEF ListsRight
  <2>2. \A c : Selection(heap[c].data, Resolution(c), Content(heap, Resolution(c)))'
                 = Selection(heap'[c].data, Resolution(c), Content(heap', Resolution(c)))
    BY <1>2
  <2> QED  BY <1>1, <1>2, <2>2 DEF ResolvedRight, Structs, ListsRight
<1>4. CASE phase = "done"
  <2>1. Finished \/ UNCHANGED vars
    BY <1>4, DoneStays
  <2>2. heap' = heap
    BY <2>1 DEF Finished, vars
  <2> QED  BY <1>4, <2>2 DEF ResolvedRight, Structs, ListsRight
<1>5. CASE phase # "done"
  <2>1. Return /\ Len(walk) = 1 /\ phase = "cleanupConfig"
    BY <1>3, <1>5, PhaseEntered DEF Exception
  <2> QED  BY <2>1, CleanedAtEnd
<1> QED  BY <1>4, <1>5

(* A tree that is resolved without an exception says what its source means *)
(* (config_parser.cpp:194-199): every key and every element of the lists   *)
(* of keys has the value at the end of its chain, every expression the     *)
(* number computed from the ends of its operands, whatever was replaced    *)
(* first and however many keys share a struct; only structs without        *)
(* content are gone.                                                       *)
THEOREM ResolvedIsRight == Spec => []ResolvedRight
<1>1. Init => Settled /\ Numbered /\ Cleaning /\ ResolvedRight
  <2> SUFFICES ASSUME Init PROVE Settled /\ Numbered /\ Cleaning /\ ResolvedRight
    OBVIOUS
  <2>1. phase = "resolveVarRefs"
    BY DEF Init
  <2> QED  BY <2>1, SettledInit DEF Numbered, Cleaning, ResolvedRight
<1>2. Resolving /\ Meant /\ Settled /\ [Next]_vars => Settled'
  BY SettledStep DEF Resolving
<1>3. Resolving /\ Settled /\ Numbered /\ [Next]_vars => Numbered'
  BY NumberedStep DEF Resolving
<1>4. Resolving /\ Numbered /\ Cleaning /\ [Next]_vars => Cleaning'
  BY CleaningStep DEF Resolving
<1>5. Resolving /\ Cleaning /\ ResolvedRight /\ [Next]_vars => ResolvedRight'
  BY ResolvedRightStep DEF Resolving
<1> QED  BY <1>1, <1>2, <1>3, <1>4, <1>5, MeantAlways, PTL DEF Spec
=============================================================================
