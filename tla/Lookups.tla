------------------------------- MODULE Lookups -------------------------------
(***************************************************************************)
(* The end of Parser::resolveConfig: resolveVarRefs replaces every $(...)  *)
(* by the value it leads to, evaluateExpressions every {{...}} by its      *)
(* number, cleanupConfig drops the structs left empty (config_helpers.cpp).*)
(* Each walks the tree in the order of the keys and rewrites it in place,  *)
(* so what a lookup finds depends on what has been replaced before, and a  *)
(* list or struct that is looked up is shared from then on, not copied.    *)
(*                                                                         *)
(* The objects a shared pointer can reach twice and that change, structs,  *)
(* lists and expressions, are the cells of heap; all others are values.    *)
(* The number of an expression is abstracted to the cells and literals it  *)
(* is computed from, which tells apart any two ways to compute it.  The    *)
(* recursion of the walks is a stack of positions.                         *)
(***************************************************************************)
EXTENDS Naturals, Sequences, SequencesExt, FiniteSets

CONSTANTS
  Sources,   \* the trees to resolve, each a heap; cell 1 is the root
  MaxDepth   \* bound: the calls the C++ stack has room for

Root == 1
Container == {"kStruct", "kList", "kExpression"}
Scalar == {"kNumber", "kString"}
ListElementType == Scalar \cup {"kUnknown", "kList", "kStruct"}

Cells(h, type) == {c \in DOMAIN h : h[c].type = type}
Entries(h) == UNION {{c} \X DOMAIN h[c].data : c \in DOMAIN h}
ValuesOf(h) == {h[e[1]].data[e[2]].val : e \in Entries(h)}
LookupsOf(h) == {v \in ValuesOf(h) : v.type = "kValueLookup"}
Pointers(h) == {e \in Entries(h) : h[e[1]].data[e[2]].val.type \in Container}

Value(type, cell, from, keys) == [type |-> type, cell |-> cell, from |-> from, keys |-> keys]
Number(from) == Value("kNumber", 0, from, <<>>)
Pointer(h, c) == Value(h[c].type, c, {}, <<>>)

(* What a cell holds, in the order of its keys, elements or value_lookups. *)
ValueOf(h) == [type : Container \cup Scalar \cup {"kValueLookup"}, cell : {0} \cup DOMAIN h,
               from : SUBSET Nat, keys : Seq(STRING)]
EntryOf(h) == [key : STRING, val : ValueOf(h)]
CellOf(h) == [type : Container, elem : ListElementType, data : Seq(EntryOf(h))]

(* A source is what a parse leaves (grammar.h:82-182): a tree, each cell   *)
(* but the root the value of one entry, the cells numbered from the        *)
(* outside in.  A struct has each key once; the elements of a list are no  *)
(* structs and fit the element type of the list; the operands of an        *)
(* expression are lookups, each listed once; a lookup has a key.           *)
ASSUME SourcesAssumption == \A h \in Sources :
  /\ DOMAIN h \subseteq Nat \ {0} /\ IsFiniteSet(DOMAIN h)
  /\ h \in [DOMAIN h -> CellOf(h)]
  /\ Root \in DOMAIN h /\ h[Root].type = "kStruct"
  /\ \A e \in Pointers(h) :
       LET c == h[e[1]].data[e[2]].val.cell
       IN  c \in DOMAIN h /\ c > e[1] /\ h[e[1]].data[e[2]].val = Pointer(h, c)
  /\ \A c \in (DOMAIN h) \ {Root} : \E e \in Pointers(h) : h[e[1]].data[e[2]].val.cell = c
  /\ \A d, e \in Pointers(h) :
       h[d[1]].data[d[2]].val.cell = h[e[1]].data[e[2]].val.cell => d = e
  /\ \A c \in Cells(h, "kStruct") : \A i, j \in DOMAIN h[c].data :
       h[c].data[i].key = h[c].data[j].key => i = j
  /\ \A c \in Cells(h, "kList") : \A i \in DOMAIN h[c].data :
       LET type == h[c].data[i].val.type
       IN  \/ type = "kValueLookup"
           \/ type \in Scalar \cup {"kList"} /\ h[c].elem = type
           \/ type = "kExpression" /\ h[c].elem = "kNumber"
  /\ \A c \in Cells(h, "kExpression") : \A i \in DOMAIN h[c].data :
       /\ h[c].data[i].val.type = "kValueLookup"
       /\ \A j \in 1 .. (i - 1) : h[c].data[j].val # h[c].data[i].val
  /\ \A v \in LookupsOf(h) : v.keys # <<>>

(* A walk that enters no cell twice fits.                                  *)
ASSUME DepthAssumption == MaxDepth \in Nat /\ \A h \in Sources : Cardinality(DOMAIN h) <= MaxDepth

VARIABLES
  source,  \* the tree as it was parsed
  heap,    \* the tree as it is
  walk,    \* the calls in progress: per call the cell and the entry it is at
  chain,   \* the lookup being followed, a sequence of none or one
  phase    \* the function at work, "done" or the exception

vars == <<source, heap, walk, chain, phase>>

Walking == {"resolveVarRefs", "evaluateExpressions", "cleanupConfig"}
Exception == {"CyclicReferenceException", "InvalidKeyException", "InvalidTypeException",
              "stack overflow"}

-----------------------------------------------------------------------------
(* Where the walk is. *)

Here == Last(walk)
Cell == heap[Here.cell]
AtEntry == phase \in Walking /\ chain = <<>> /\ Here.at <= Len(Cell.data)
Current == Cell.data[Here.at].val

(* The key of the struct entry the walk is at, with those of its parents;  *)
(* list elements and operands have the key of their list or expression.    *)
(* Structs are in structs only, so these are the first calls of the walk.  *)
SrcKey ==
  [n \in {m \in DOMAIN walk : heap[walk[m].cell].type = "kStruct"} |->
     heap[walk[n].cell].data[walk[n].at].key]

Advance(w) == [w EXCEPT ![Len(w)].at = @ + 1]
Put(v) == heap' = [heap EXCEPT ![Here.cell].data[Here.at].val = v]

Fail(exception) == phase' = exception /\ UNCHANGED <<source, heap, walk, chain>>

-----------------------------------------------------------------------------
(* getConfigValue and its helpers. *)

Holds(v, key) == \E i \in DOMAIN heap[v.cell].data : heap[v.cell].data[i].key = key
MemberOf(v, key) ==
  LET data == heap[v.cell].data
  IN  data[CHOOSE i \in DOMAIN data : data[i].key = key].val

Found(v) == [exception |-> "", val |-> v]
Broken(exception) == [exception |-> exception, val |-> Pointer(heap, Root)]

(* Mutant: something that is no struct has no such key.                    *)
EnterUntyped(at, key) ==
  IF at.exception # "" THEN at
  ELSE IF at.val.type # "kStruct" \/ ~Holds(at.val, key) THEN Broken("InvalidKeyException")
  ELSE Found(MemberOf(at.val, key))

(* One key further from what the keys before it have led to: all but the   *)
(* last have to lead to a struct.                                          *)
Enter(at, key) ==
  IF at.exception # "" THEN at
  ELSE IF at.val.type # "kStruct" THEN Broken("InvalidTypeException")
  ELSE IF ~Holds(at.val, key) THEN Broken("InvalidKeyException")
  ELSE Found(MemberOf(at.val, key))

(* Mutant: the struct that holds the value.                                *)
NestedConfig(keys) == FoldLeft(Enter, Found(Pointer(heap, Root)), Front(keys))

getConfigValue(keys) == FoldLeft(Enter, Found(Pointer(heap, Root)), keys)

(* The element type of the list after an element of this type, if it fits. *)
listElementValid(elem, type) ==
  type \in {"kVar", "kValueLookup"} \/ elem = "kUnknown"
    \/ elem = (IF type = "kExpression" THEN "kNumber" ELSE type)

(* Mutant: an expression makes a list of expressions.                      *)
ElementTypeTaken(elem, type) ==
  IF elem # "kUnknown" \/ type \in {"kVar", "kValueLookup"} THEN elem ELSE type

ElementType(elem, type) ==
  IF elem # "kUnknown" \/ type \in {"kVar", "kValueLookup"} THEN elem
  ELSE IF type = "kExpression" THEN "kNumber" ELSE type

(* Mutant: the operands are not looked at.                                 *)
AlwaysEvaluable(c) == TRUE

(* evaluateExpression: only numbers may be left in value_lookups.          *)
Operands(c) == {heap[c].data[i].val : i \in DOMAIN heap[c].data}
Evaluable(c) == \A v \in Operands(c) : v.type = "kNumber"
evaluateExpression(c) == Number({c} \cup UNION {v.from : v \in Operands(c)})

-----------------------------------------------------------------------------
(* A call for every struct, list and expression on the way. *)

(* Mutant: the lookups of an expression in a list are not resolved.        *)
EntersKeysOnly(v) ==
  CASE phase = "resolveVarRefs" -> v.type \in Container /\ Cell.type = "kStruct"
    [] phase = "evaluateExpressions" -> v.type \in {"kStruct", "kList"} /\ Cell.type = "kStruct"
    [] phase = "cleanupConfig" -> v.type = "kStruct"

(* Lists are entered from structs only: the elements of a list that are    *)
(* lists are passed over.  So are, when they are elements, structs.        *)
Enters(v) ==
  CASE phase = "resolveVarRefs" -> \/ v.type \in Container /\ Cell.type = "kStruct"
                                   \/ v.type = "kExpression"
    [] phase = "evaluateExpressions" -> v.type \in {"kStruct", "kList"} /\ Cell.type = "kStruct"
    [] phase = "cleanupConfig" -> v.type = "kStruct"

Descend ==
  /\ AtEntry /\ Enters(Current)
  /\ IF Len(walk) = MaxDepth
       THEN Fail("stack overflow")
       ELSE /\ walk' = Append(walk, [cell |-> Current.cell, at |-> 1])
            /\ UNCHANGED <<source, heap, chain, phase>>

Skip ==
  /\ AtEntry /\ ~Enters(Current)
  /\ ~(phase = "resolveVarRefs" /\ Current.type = "kValueLookup")
  /\ ~(phase = "evaluateExpressions" /\ Current.type = "kExpression")
  /\ walk' = Advance(walk)
  /\ UNCHANGED <<source, heap, chain, phase>>

(* cleanupConfig erases at the end of each struct the structs in it that   *)
(* are empty.                                                              *)
EmptyStruct(e) == e.val.type = "kStruct" /\ heap[e.val.cell].data = <<>>
Kept(data, e) == IF EmptyStruct(e) THEN data ELSE Append(data, e)

Return ==
  /\ phase \in Walking /\ chain = <<>> /\ Here.at > Len(Cell.data)
  /\ heap' = IF phase # "cleanupConfig" THEN heap
             ELSE [heap EXCEPT ![Here.cell].data = FoldLeft(Kept, <<>>, @)]
  /\ IF Len(walk) > 1
       THEN walk' = Advance(Front(walk)) /\ phase' = phase
       ELSE /\ walk' = <<[cell |-> Root, at |-> 1]>>
            /\ phase' = CASE phase = "resolveVarRefs" -> "evaluateExpressions"
                          [] phase = "evaluateExpressions" -> "cleanupConfig"
                          [] phase = "cleanupConfig" -> "done"
  /\ UNCHANGED <<source, chain>>

-----------------------------------------------------------------------------
(* resolveVarRefs of one lookup. *)

BeginChain ==
  /\ AtEntry /\ phase = "resolveVarRefs" /\ Current.type = "kValueLookup"
  /\ chain' = <<[refs |-> <<SrcKey>>, val |-> Current]>>
  /\ UNCHANGED <<source, heap, walk, phase>>

(* Mutant: the lookups followed are not added to refs.                     *)
FollowBlindly ==
  /\ phase = "resolveVarRefs" /\ chain # <<>> /\ chain[1].val.type = "kValueLookup"
  /\ LET var == chain[1].val.keys
         next == getConfigValue(var)
     IN  IF Contains(chain[1].refs, var) THEN Fail("CyclicReferenceException")
         ELSE IF next.exception # "" THEN Fail(next.exception)
         ELSE chain' = <<[chain[1] EXCEPT !.val = next.val]>> /\ UNCHANGED <<source, heap, walk, phase>>

(* Mutant: a lookup of an enclosing struct counts as a cycle.              *)
FollowOutwards ==
  /\ phase = "resolveVarRefs" /\ chain # <<>> /\ chain[1].val.type = "kValueLookup"
  /\ LET var == chain[1].val.keys
         next == getConfigValue(var)
     IN  IF \E r \in ToSet(chain[1].refs) : IsPrefix(var, r) THEN Fail("CyclicReferenceException")
         ELSE IF next.exception # "" THEN Fail(next.exception)
         ELSE /\ chain' = <<[refs |-> Append(chain[1].refs, var), val |-> next.val]>>
              /\ UNCHANGED <<source, heap, walk, phase>>

(* One turn of the loop.                                                   *)
Follow ==
  /\ phase = "resolveVarRefs" /\ chain # <<>> /\ chain[1].val.type = "kValueLookup"
  /\ LET var == chain[1].val.keys
         next == getConfigValue(var)
     IN  IF Contains(chain[1].refs, var) THEN Fail("CyclicReferenceException")
         ELSE IF next.exception # "" THEN Fail(next.exception)
         ELSE /\ chain' = <<[refs |-> Append(chain[1].refs, var), val |-> next.val]>>
              /\ UNCHANGED <<source, heap, walk, phase>>

Replace(v) == Put(v) /\ walk' = Advance(walk) /\ chain' = <<>> /\ UNCHANGED <<source, phase>>

AtEndOfChain(type) ==
  /\ phase = "resolveVarRefs" /\ chain # <<>> /\ chain[1].val.type # "kValueLookup"
  /\ Cell.type = type

(* The value of a key.                                                     *)
EndInStruct == AtEndOfChain("kStruct") /\ Replace(chain[1].val)

(* Mutant: the list does not learn the type of its element.                *)
ReplaceElementOnly(v) == Put(v)

(* An element of a list, whose type has to fit.                            *)
ReplaceElement(v) ==
  heap' = [heap EXCEPT ![Here.cell].data[Here.at].val = v,
                       ![Here.cell].elem = ElementType(@, v.type)]

EndInList ==
  /\ AtEndOfChain("kList")
  /\ IF ~listElementValid(Cell.elem, chain[1].val.type)
       THEN Fail("InvalidTypeException")
       ELSE /\ ReplaceElement(chain[1].val)
            /\ walk' = Advance(walk) /\ chain' = <<>>
            /\ UNCHANGED <<source, phase>>

(* An operand of an expression, which has to be a number; if it is an      *)
(* expression in turn, that is evaluated on the spot.                      *)
EndInExpression ==
  /\ AtEndOfChain("kExpression")
  /\ LET v == chain[1].val
     IN  IF v.type = "kNumber" THEN Replace(v)
         ELSE IF v.type = "kExpression" /\ Evaluable(v.cell)
           THEN Replace(evaluateExpression(v.cell))
         ELSE Fail("InvalidTypeException")

-----------------------------------------------------------------------------
(* evaluateExpressions of one expression. *)

Evaluate ==
  /\ AtEntry /\ phase = "evaluateExpressions" /\ Current.type = "kExpression"
  /\ LET v == evaluateExpression(Current.cell)
         fits == Cell.type = "kList" => listElementValid(Cell.elem, v.type)
     IN  IF ~(Evaluable(Current.cell) /\ fits)
           THEN Fail("InvalidTypeException")
           ELSE /\ IF Cell.type = "kList" THEN ReplaceElement(v) ELSE Put(v)
                /\ walk' = Advance(walk)
                /\ UNCHANGED <<source, chain, phase>>

-----------------------------------------------------------------------------
Init ==
  /\ source \in Sources
  /\ heap = source
  /\ walk = <<[cell |-> Root, at |-> 1]>>
  /\ chain = <<>>
  /\ phase = "resolveVarRefs"

Finished == phase \notin Walking /\ UNCHANGED vars

Next ==
  \/ Descend \/ Skip \/ Return
  \/ BeginChain \/ Follow \/ EndInStruct \/ EndInList \/ EndInExpression
  \/ Evaluate
  \/ Finished

Spec == Init /\ [][Next]_vars
FairSpec == Spec /\ WF_vars(Next)

-----------------------------------------------------------------------------
(* What the source means, whatever the order of its keys. *)

Endless == Value("endless", 0, {}, <<>>)        \* a chain without end
Missing == Value("missing", 0, {}, <<>>)        \* a key its struct does not have
Astray == Value("astray", 0, {}, <<>>)          \* a key of something that is no struct

SourceMember(h, v, key) ==
  IF v \in {Endless, Missing, Astray} THEN v
  ELSE IF v.type # "kStruct" THEN Astray
  ELSE LET data == h[v.cell].data
           at == {i \in DOMAIN data : data[i].key = key}
       IN  IF at = {} THEN Missing ELSE data[CHOOSE i \in at : TRUE].val

(* What keys lead to, where end is the end of each value on the way: the   *)
(* structs on the way may be named by lookups as well.                     *)
Named(h, end, keys) ==
  LET Onwards(at, key) == end[SourceMember(h, at, key)]
  IN  FoldLeft(Onwards, Pointer(h, Root), keys)

(* The value at the end of the chain that begins with each.  A chain       *)
(* longer than the number of lookups has no end.                           *)
Values(h) == ValuesOf(h) \cup {Pointer(h, Root), Endless, Missing, Astray}
Turns(h) == Cardinality(LookupsOf(h))
Ends(h) ==
  LET after[n \in 0 .. Turns(h)] ==
        [v \in Values(h) |-> IF v.type # "kValueLookup" THEN v
                             ELSE IF n = 0 THEN Endless
                             ELSE Named(h, after[n - 1], v.keys)]
  IN  after[Turns(h)]
EndOf(v) == Ends(source)[v]

(* What an expression is computed from: the expressions that its operands  *)
(* lead to, again and again, and the literals among the operands of these. *)
SourceOperands(c) == {EndOf(source[c].data[i].val) : i \in DOMAIN source[c].data}
Closed(es) ==
  \A d \in es : \A e \in Cells(source, "kExpression") :
    Pointer(source, e) \in SourceOperands(d) => e \in es
Needed(c) ==
  {d \in Cells(source, "kExpression") :
     \A es \in SUBSET Cells(source, "kExpression") : c \in es /\ Closed(es) => d \in es}
ComputedFrom(c) ==
  Needed(c) \cup UNION {UNION {v.from : v \in SourceOperands(d)} : d \in Needed(c)}

Meaning(v) ==
  LET end == EndOf(v)
  IN  IF end.type = "kExpression" THEN Number(ComputedFrom(end.cell)) ELSE end

(* What depends on what: an entry of a struct on the entries that the      *)
(* lookups in its value name.                                              *)
ListsOfKeys ==
  {c \in Cells(source, "kList") : \E s \in Cells(source, "kStruct") :
     \E i \in DOMAIN source[s].data : source[s].data[i].val = Pointer(source, c)}
EntriesOfStructs == UNION {{s} \X DOMAIN source[s].data : s \in Cells(source, "kStruct")}
ValuesIn(c) == {source[c].data[i].val : i \in DOMAIN source[c].data}
LookupsIn(v) ==
  LET direct(w) == IF w.type = "kValueLookup" THEN {w}
                   ELSE IF w.type = "kExpression" THEN ValuesIn(w.cell) ELSE {}
  IN  IF v.type # "kList" THEN direct(v) ELSE UNION {direct(w) : w \in ValuesIn(v.cell)}
NamedBy(v) ==
  {e \in EntriesOfStructs : /\ Named(source, Ends(source), Front(v.keys)) = Pointer(source, e[1])
                            /\ source[e[1]].data[e[2]].key = Last(v.keys)}
Dependence ==
  [node |-> EntriesOfStructs,
   edge |-> {d \in EntriesOfStructs \X EntriesOfStructs :
               d[2] \in UNION {NamedBy(v) : v \in LookupsIn(source[d[1][1]].data[d[1][2]].val)}}]

(* Which struct holds which.                                               *)
Containment ==
  LET structs == Cells(source, "kStruct")
  IN  [node |-> structs,
       edge |-> {e \in structs \X structs :
                   \E v \in ValuesIn(e[1]) : EndOf(v) = Pointer(source, e[2])}]

(* A finite graph has a cycle if some nodes have all an edge to one of     *)
(* them.                                                                   *)
Cyclic(G) ==
  \E nodes \in (SUBSET G.node) \ {{}} :
    \A n \in nodes : \E m \in nodes : <<n, m>> \in G.edge

-----------------------------------------------------------------------------
(* Properties. *)

(* The types of all fields: the cells of the tree stay those of the source *)
(* and keep their types, and no expression, list or struct is ever made by *)
(* the walks (config_helpers.cpp:416-537).                                 *)
TypeOK ==
  /\ DOMAIN heap = DOMAIN source
  /\ \A c \in DOMAIN heap :
       /\ heap[c].type = source[c].type
       /\ heap[c].elem \in ListElementType
       /\ heap[c].data \in Seq(EntryOf(source))
  /\ walk \in Seq([cell : DOMAIN source, at : Nat \ {0}]) /\ Len(walk) \in 1 .. MaxDepth
  /\ chain # <<>> => chain[1].refs \in Seq(Seq(STRING)) /\ chain[1].val.type \in Container \cup Scalar \cup {"kValueLookup"}
  /\ phase \in Walking \cup Exception \cup {"done"}

(* part is what data has at the places in left, in their order.            *)
Selection(part, data, left) ==
  \E at \in [DOMAIN part -> left] :
    /\ \A j \in DOMAIN part : part[j] = data[at[j]] /\ \A i \in 1 .. (j - 1) : at[i] < at[j]
    /\ \A k \in left : \E j \in DOMAIN part : at[j] = k

(* A tree that is resolved without an exception says what its source       *)
(* means: every key and every element of the lists of keys has the value   *)
(* at the end of its chain, every expression the number computed from the  *)
(* ends of its operands, whatever was replaced first; only structs without *)
(* content are gone (config_parser.cpp:194-199).                           *)
Resolution(c) ==
  [i \in DOMAIN source[c].data |-> [source[c].data[i] EXCEPT !.val = Meaning(@)]]
Content(h, data) ==
  {i \in DOMAIN data : data[i].val.type = "kStruct" => h[data[i].val.cell].data # <<>>}
ResolvedRight == phase = "done" =>
  /\ \A c \in Cells(source, "kStruct") :
       Selection(heap[c].data, Resolution(c), Content(heap, Resolution(c)))
  /\ \A c \in ListsOfKeys : heap[c].data = Resolution(c)

(* CyclicReferenceException is thrown for cycles only: some key depends on *)
(* itself through lookups (config_helpers.cpp:397).                        *)
CycleIsReal == phase = "CyclicReferenceException" => Cyclic(Dependence)

(* InvalidKeyException means that some lookup names a key that is nowhere, *)
(* not one that is still to come (config_helpers.cpp:366).                 *)
MissingKeyIsReal ==
  phase = "InvalidKeyException" => \E v \in LookupsOf(source) : EndOf(v) = Missing

(* The recursion of the walks ends unless lookups make a struct part of    *)
(* itself (config_helpers.cpp:481, 534 and cleanupConfig).                 *)
RecursionEnds == phase = "stack overflow" => Cyclic(Containment)

(* The elements of a list have the one type list_element_type when         *)
(* everything in it is resolved (README.md:209).                           *)
ListsHomogeneous == phase = "done" =>
  \A c \in ListsOfKeys : \A i \in DOMAIN heap[c].data : heap[c].data[i].val.type = heap[c].elem

(* After resolveVarRefs nothing can go wrong with a type any more: the two *)
(* checks of evaluateExpressions (config_helpers.cpp:491, 523) never fail. *)
EvaluationSucceeds == [][phase = "evaluateExpressions" => phase' # "InvalidTypeException"]_vars

(* Resolving ends, with a tree or an exception.                            *)
Terminates == <>(phase \notin Walking)

(* README.md:213: an expression may refer to a chain of references as long *)
(* as the end of the chain is numeric.                                     *)
ChainsOfExpressions ==
  phase = "InvalidTypeException" =>
    \/ Cyclic(Dependence)
    \/ \E c \in Cells(source, "kExpression") : \E v \in SourceOperands(c) :
         v.type \notin {"kNumber", "kExpression"}
=============================================================================
