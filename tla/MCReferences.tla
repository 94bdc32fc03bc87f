----------------------------- MODULE MCReferences -----------------------------
(***************************************************************************)
(* Small files for References, and what they mean: every reference is the  *)
(* struct of its proto with each variable replaced, wherever it stands.    *)
(***************************************************************************)
EXTENDS References, TLC

-----------------------------------------------------------------------------
(* Files as they are written, and their heap. *)

Num(n) == Atom("num", n)
Word(w) == Atom("word", w)
Text(type, text) == Value(type, text, NoCell)
Number(n) == Text("kNumber", <<Num(n)>>)
String(text) == Text("kString", text)
Var(form, x) == Text("kVar", <<Atom(form, x)>>)
Expression(text) == Text("kExpression", <<Atom("{{", "")>> \o text \o <<Atom("}}", "")>>)
Lookup(text) == Text("kValueLookup", text)

Leaf(v) == [type |-> "leaf", val |-> v]
Node(type, proto, defs, keys, nodes) ==
  [type |-> type, proto |-> proto, defs |-> defs, keys |-> keys, nodes |-> nodes]
None == [x \in {} |-> Leaf(Number("0"))]
Struct(type, keys, nodes) == Node(type, <<>>, None, keys, nodes)
List(vs) == Node("kList", <<>>, None, [i \in DOMAIN vs |-> ""], [i \in DOMAIN vs |-> Leaf(vs[i])])
Ref(proto, defs, keys, nodes) == Node("kReference", proto, defs, keys, nodes)

ValOf(node, path) ==
  IF node.type = "leaf" THEN node.val ELSE Value(node.type, <<>>, Parsed(path))

(* list_element_type as the actions of LIST leave it.                      *)
ElemOf(node) ==
  LET types == {IF n.val.type = "kExpression" THEN "kNumber" ELSE n.val.type : n \in ToSet(node.nodes)}
                 \ {"kVar", "kValueLookup"}
  IN  IF node.type # "kList" \/ types = {} THEN "kUnknown" ELSE CHOOSE t \in types : TRUE

RECURSIVE HeapOf(_, _)
HeapOf(node, path) ==
  LET sub(k) == Append(path, k)
      cell == [type |-> node.type, proto |-> node.proto, elem |-> ElemOf(node),
               data |-> [i \in DOMAIN node.keys |->
                           [key |-> node.keys[i], val |-> ValOf(node.nodes[i], sub(node.keys[i]))]],
               ref_vars |-> [x \in DOMAIN node.defs \cup
                               (IF node.type = "kReference" THEN {"PARENT_NAME"} ELSE {}) |->
                               IF x \in DOMAIN node.defs THEN ValOf(node.defs[x], sub(x))
                               ELSE String(<<Word(Last(path))>>)]]
      inData == [i \in DOMAIN node.keys |-> HeapOf(node.nodes[i], sub(node.keys[i]))]
      inDefs == [x \in DOMAIN node.defs |-> HeapOf(node.defs[x], sub(x))]
      under == ToSet(inData) \cup {inDefs[x] : x \in DOMAIN inDefs}
  IN  IF node.type = "leaf" THEN <<>>
      ELSE FoldSet(LAMBDA h, f : h @@ f, Parsed(path) :> cell, under)

File(keys, nodes) == Struct("kStruct", keys, nodes)
Tree(files) == FoldLeft(LAMBDA h, i : h @@ HeapOf(files[i], <<Files[i]>>), <<>>,
                        [i \in DOMAIN files |-> i])

-----------------------------------------------------------------------------
(* What the files mean. *)

Item(key, type, text, sub) == [key |-> key, type |-> type, text |-> text, sub |-> sub]

(* A text with the variables of env in their places.  "$A2" is $A and "2"  *)
(* when there is an A: the tests call that ambiguous.                      *)
InText(text, env) ==
  LET has(x) == x \in DOMAIN env /\ IsText(env[x])
      begin(a) == {x \in DOMAIN env : <<x, a.name>> \in Prefix /\ a.form = "$" /\ has(x)}
      of(a) == IF ~IsVar(a) THEN <<a>>
               ELSE IF begin(a) # {} THEN env[CHOOSE x \in begin(a) : TRUE].text \o <<Atom("rest", a.name)>>
               ELSE IF has(a.name) THEN env[a.name].text ELSE <<a>>
  IN  FlattenSeq([i \in DOMAIN text |-> of(text[i])])

RECURSIVE ItemOf(_, _, _)
ItemOf(key, v, env) ==
  LET text == InText(v.text, env)
      x == v.text[1].name
      cell == source[v.cell]
      items == [i \in DOMAIN cell.data |-> ItemOf("", cell.data[i].val, env)]
      types == {IF t = "kExpression" THEN "kNumber" ELSE t : t \in
                  {items[i].type : i \in DOMAIN items} \ {"kVar", "kValueLookup"}}
  IN  CASE v.type = "kVar" /\ DOMAIN env # {} ->
             IF x \in DOMAIN env THEN ItemOf(key, env[x], <<>>)
             ELSE Item(key, "UndefinedReferenceVarException", <<>>, <<>>)
        [] v.type = "kExpression" /\ DOMAIN env # {} /\ HasVar(text) ->
             Item(key, "InvalidConfigException", <<>>, <<>>)
        [] v.type = "kList" ->
             Item(key, IF Cardinality(types) > 1 THEN "InvalidTypeException" ELSE "kList", <<>>, items)
        [] OTHER -> Item(key, v.type, text, <<>>)

(* The proto of this name in the last file that has one.                   *)
ProtoCells(name) ==
  {c \in DOMAIN source : source[c].type = "kProto" /\ Tail(c.path) = name}
LastProto(name) ==
  LET n == CHOOSE n \in DOMAIN Files :
             /\ Parsed(<<Files[n]>> \o name) \in ProtoCells(name)
             /\ \A m \in (n + 1) .. Len(Files) : Parsed(<<Files[m]>> \o name) \notin ProtoCells(name)
  IN  Parsed(<<Files[n]>> \o name)

Both(outer, inner) == outer @@ inner
KeysIn(c) == {source[c].data[i].key : i \in DOMAIN source[c].data}
Repeated(r, p) ==
  IF \E i \in DOMAIN source[p].data : source[p].data[i].key \in KeysIn(r) /\ source[p].data[i].val.type \in StructLike
  THEN "MismatchKeyException" ELSE "DuplicateKeyException"

(* The items of the entries of a cell, each with the struct it stands for. *)
RECURSIVE Meaning(_, _, _)
Meaning(c, env, above) ==
  LET data == source[c].data
      of(key, v) ==
        LET r == source[v.cell]
            both == Both(env, r.ref_vars)
        IN  CASE v.type \in {"kStruct", "kStructInProto"} -> Item(key, v.type, <<>>, Meaning(v.cell, env, above))
              [] v.type = "kReference" ->
                   IF ProtoCells(r.proto) = {} THEN Item(key, "UndefinedProtoException", <<>>, <<>>)
                   ELSE IF r.proto \in above THEN Item(key, "CyclicReferenceException", <<>>, <<>>)
                   ELSE IF KeysIn(v.cell) \cap KeysIn(LastProto(r.proto)) # {}
                     THEN Item(key, Repeated(v.cell, LastProto(r.proto)), <<>>, <<>>)
                   ELSE Item(key, "kStruct", <<>>, Meaning(LastProto(r.proto), both, above \cup {r.proto})
                                                     \o Meaning(v.cell, both, above))
              [] v.type = "kProto" -> Item(key, v.type, <<>>, <<>>)
              [] OTHER -> ItemOf(key, v, env)
  IN  [i \in DOMAIN data |-> of(data[i].key, data[i].val)]

Meant(f) == Meaning(Parsed(<<f>>), <<>>, {})

(* The tree as it is.                                                      *)
RECURSIVE Items(_)
Items(c) ==
  [i \in DOMAIN heap[c].data |->
     LET e == heap[c].data[i]
     IN  Item(e.key, e.val.type, e.val.text,
              IF e.val.type \in {"kStruct", "kStructInProto", "kReference", "kList"}
                THEN Items(e.val.cell) ELSE <<>>)]

RECURSIVE TypesIn(_)
TypesIn(items) == UNION {{item.type} \cup TypesIn(item.sub) : item \in ToSet(items)}

-----------------------------------------------------------------------------
(* Properties. *)

EXCEPTIONS == {"UndefinedProtoException", "CyclicReferenceException", "DuplicateKeyException",
               "MismatchKeyException", "UndefinedReferenceVarException", "InvalidConfigException",
               "InvalidTypeException", "std::out_of_range"}
VALUES == {"kNumber", "kString", "kExpression", "kValueLookup", "kVar", "kList"}

(* What a pointer leads to exists and has the type the pointer says; the   *)
(* elements of a list have its element type (config_helpers.cpp:246-262).  *)
TypeOK ==
  /\ phase \in {"references", "done"} \cup EXCEPTIONS
  /\ \A c \in DOMAIN heap : \A i \in DOMAIN heap[c].data :
       LET v == heap[c].data[i].val
       IN  /\ v.type \in VALUES \cup StructLike
           /\ v.type \in StructLike \cup {"kList"} =>
                /\ v.cell \in DOMAIN heap
                /\ heap[v.cell].type = v.type
           /\ heap[c].type = "kList" /\ v.type \notin {"kVar", "kValueLookup"} =>
                heap[c].elem = (IF v.type = "kExpression" THEN "kNumber" ELSE v.type)
  /\ \A n \in DOMAIN walk : walk[n].cell \in DOMAIN heap

(* Resolving references leaves every proto as it was parsed, as it may be  *)
(* used again (config_parser.cpp:249-253): variables and references are    *)
(* replaced only in the clones.                                            *)
ProtosKept ==
  \A c \in DOMAIN source :
    (\E n \in 1 .. Len(c.path) : /\ Parsed(SubSeq(c.path, 1, n)) \in DOMAIN source
                                 /\ source[Parsed(SubSeq(c.path, 1, n))].type = "kProto")
      => c \in DOMAIN heap /\ heap[c] = source[c]

(* No two entries of the trees lead to the same struct or list, so what is *)
(* written through one does not show through another; only the value of a  *)
(* variable may be in several places (config_helpers.cpp:125-132, 206-213).*)
VarCells == UNION {{source[c].ref_vars[x].cell : x \in DOMAIN source[c].ref_vars} : c \in DOMAIN source}
InstancesApart ==
  LET ways(c) == {<<d, i>> \in UNION {{d} \X DOMAIN heap[d].data : d \in DOMAIN heap} :
                    heap[d].data[i].val.cell = c}
  IN  \A c \in (DOMAIN heap) \ (VarCells \cup {NoCell}) : Cardinality(ways(c)) <= 1

(* Every reference has become the struct its proto and its variables       *)
(* describe, at every depth and in every file, in whatever order the       *)
(* references are resolved and however often a part is walked for          *)
(* variables; nothing outside of references has changed (config_parser.cpp *)
(* :221-301).  What an outer reference defines counts before what an inner *)
(* one defines (279-282).                                                  *)
InstancesRight ==
  phase = "done" => \A i \in DOMAIN Files : Items(Parsed(<<Files[i]>>)) = Meant(Files[i])

(* An exception has its reason in the files: a proto that does not exist   *)
(* or leads back to itself, a variable without a value, a list that would  *)
(* mix types, a key that is added and there already.  In particular a      *)
(* cycle does not exhaust the stack, and two uses of a proto, side by side *)
(* or one in an entry of the other, are no cycle (config_parser.cpp:246-   *)
(* 263).  A variable left over in an expression shows as std::out_of_range when no  *)
(* variable is named PARENT (config_helpers.cpp:290).                      *)
Reasons == UNION {TypesIn(Meant(Files[i])) : i \in DOMAIN Files} \cap EXCEPTIONS
ExceptionsReal ==
  phase \notin {"references", "done"} =>
    (IF phase = "std::out_of_range" THEN "InvalidConfigException" ELSE phase) \in Reasons

-----------------------------------------------------------------------------
(* The files of the runs. *)

Defs(a, b, n) ==
  LET def(x, v) == IF v = <<>> THEN <<>> ELSE x :> Leaf(v[1])
  IN  def("A", a) @@ def("B", b) @@ def("N", n)

NUM == Expression(<<Num("2"), Atom("$", "N")>>)
STR == String(<<Atom("$", "A"), Word("w"), Atom("${}", "B")>>)
LONG == String(<<Atom("$", "A2"), Word("w")>>)
NAME == String(<<Word("n"), Atom("$", "PARENT_NAME")>>)
SEE == Lookup(<<Word("s"), Atom("$", "A")>>)
InK(v) == Struct("kStructInProto", <<"k">>, <<v>>)
Q(v) == Struct("kProto", <<"q">>, <<v>>)
P(vs) == Struct("kProto", [i \in DOMAIN vs |-> <<"m", "n">>[i]], vs)
RefTo(p, defs) == Ref(<<p>>, defs, <<>>, <<>>)
Added(p, defs, v) == Ref(<<p>>, defs, <<"z">>, <<v>>)

MCFiles == <<"f", "g">>
MCVarOrder == <<"A", "A2", "B", "N", "PARENT_NAME">>
MCPrefix == {<<"A", "A2">>}

One == <<Number("1")>>
Two == <<Number("2")>>
Y == <<String(<<Word("y")>>)>>

(* A proto p that has a value and a reference to q, used at the top, in a  *)
(* struct and in the other file.                                           *)
Nested ==
  {Tree(<<File(<<"p", "x", "q">>, <<P(<<v, r>>), RefTo("p", Defs(a, One, n)), Q(w)>>),
          File(<<"s", "y">>, <<Struct("kStruct", <<"r">>, <<Added("q", Defs(Two, One, n), Leaf(Number("8")))>>),
                               RefTo("p", Defs(One, Two, Two))>>)>>)
     : v \in {Leaf(STR), Leaf(LONG), List(<<Var("$", "A"), Number("1")>>), InK(Leaf(SEE)), List(<<NAME>>)},
       r \in {RefTo("q", <<>>), RefTo("q", Defs(Two, <<>>, <<>>)), Added("q", Defs(<<>>, Y, Two), Leaf(STR)),
              InK(RefTo("q", Defs(Y, <<>>, <<>>))), InK(Added("q", <<>>, Leaf(Var("$", "B"))))},
       w \in {Leaf(Var("$", "A")), Leaf(NUM), InK(Leaf(STR)), InK(List(<<Number("1"), Var("$", "B")>>))},
       a \in {<<>>, One, Y}, n \in {<<>>, One}}

(* Two protos that may lead to each other or to themselves, a proto there  *)
(* is in both files, a key that is added and there.                        *)
Cycles ==
  LET to == {RefTo("p", <<>>), RefTo("q", <<>>), RefTo("u", <<>>), Leaf(Var("$", "A"))}
  IN  {Tree(<<File(<<"x", "p", "q">>, <<Ref(<<"p">>, Defs(One, One, One), <<key>>, <<Leaf(Number("8"))>>),
                                         P(<<InK(v), w>>), Q(w)>>),
              File(<<"p", "y">>, <<Struct("kProto", <<"m">>, <<u>>), RefTo("q", Defs(Y, <<>>, <<>>))>>)>>)
         : v \in to, w \in to, u \in {Leaf(Var("$", "A")), InK(RefTo("q", <<>>)), RefTo("p", <<>>)},
           key \in {"m", "z"}}

MCSources == Nested \cup Cycles

(* A reference in a proto that adds a list with a variable.                *)
SharedList ==
  {Tree(<<File(<<"p", "x", "q">>, <<P(<<Added("q", <<>>, List(<<STR>>))>>), RefTo("p", Defs(a, One, One)),
                                     Q(Leaf(NUM))>>),
          File(<<"y">>, <<RefTo("p", Defs(Two, One, One))>>)>>) : a \in {One, Y}}

(* A variable with brackets as a value or as an element of a list.         *)
BracedVariable ==
  {Tree(<<File(<<"p", "x">>, <<P(<<v>>), RefTo("p", Defs(One, <<>>, <<>>))>>), File(<<>>, <<>>)>>)
     : v \in {Leaf(Var("${}", "A")), List(<<Number("0"), Var("${}", "A")>>)}}
=============================================================================
