------------------------------ MODULE MCMerging ------------------------------
(***************************************************************************)
(* Small maps for Merging, and which of them must be refused: two maps     *)
(* have what cannot be merged, or an override does not fit what its key    *)
(* has in all maps together.                                               *)
(***************************************************************************)
EXTENDS Merging, TLC

(* A map as it is written, and its cells.                                  *)
Leaf(type) == [type |-> type, keys |-> <<>>, nodes |-> <<>>]
Node(type, keys, nodes) == [type |-> type, keys |-> keys, nodes |-> nodes]
ValOf(node, cell) == Value(node.type, "default", IF isStructLike(node) THEN cell ELSE Root)

RECURSIVE HeapOf(_, _)
HeapOf(node, cell) ==
  IF ~isStructLike(node) THEN <<>>
  ELSE LET below(i) == Cell(cell.map, Append(cell.path, node.keys[i]))
           entry(i) == [key |-> node.keys[i], val |-> ValOf(node.nodes[i], below(i))]
       IN  FoldLeft(LAMBDA h, i : h @@ HeapOf(node.nodes[i], below(i)),
                    cell :> [type |-> node.type, data |-> [i \in DOMAIN node.keys |-> entry(i)]],
                    [i \in DOMAIN node.keys |-> i])

HeapOfMaps(maps) ==
  FoldLeft(LAMBDA h, n : h @@ HeapOf(maps[n], Cell(n, <<>>)), <<>>, [n \in DOMAIN maps |-> n])
Source(maps, overrides) == [heap |-> HeapOfMaps(maps), maps |-> Len(maps), overrides |-> overrides]

-----------------------------------------------------------------------------
(* What the maps mean: nodes with their paths. *)

ANode(path, type, text) == [path |-> path, type |-> type, text |-> text]

(* The nodes below the data of cell c of heap h.                           *)
RECURSIVE NodesBelow(_, _, _)
NodesBelow(h, data, path) ==
  UNION {LET p == Append(path, e.key)
         IN  {ANode(p, e.val.type, e.val.text)}
               \cup (IF isStructLike(e.val) THEN NodesBelow(h, h[e.val.cell].data, p) ELSE {})
           : e \in ToSet(data)}

NodesOfMap(n) == NodesBelow(source.heap, source.heap[Cell(n, <<>>)].data, <<>>)
AllNodes == UNION {NodesOfMap(n) : n \in 1 .. source.maps}

(* What two maps have at one path that cannot be merged.                   *)
Pairs(n) == UNION {{<<v, w>> \in NodesOfMap(m) \X NodesOfMap(n) : v.path = w.path} : m \in 1 .. (n - 1)}
Conflicts ==
  LET pairs == UNION {Pairs(n) : n \in 1 .. source.maps}
      structs(p) == {x \in ToSet(p) : x.type \in {"kStruct", "kStructInProto", "kProto", "kReference"}}
  IN  {"DuplicateKeyException" : p \in {p \in pairs : structs(p) = {}}}
        \cup {"MismatchKeyException" : p \in {p \in pairs : structs(p) \notin {{}, ToSet(p)}}}
        \cup {"MismatchTypeException" : p \in {p \in pairs : structs(p) = ToSet(p) /\ p[1].type # p[2].type}}

(* The nodes after the first n overrides.                                  *)
Overridden(n) ==
  FoldLeft(LAMBDA nodes, o : {x \in nodes : ~IsPrefix(o.key, x.path)} \cup {ANode(o.key, o.val.type, o.val.text)},
           AllNodes, SubSeq(source.overrides, 1, n))

(* Why an override cannot be applied.  An expression is a number, and what *)
(* is no value yet may become any.                                         *)
Kind(type) ==
  CASE type \in {"kNumber", "kExpression"} -> "number"
    [] type = "kString" -> "string"
    [] OTHER -> "any"
Refused(n) ==
  LET o == source.overrides[n]
      at == {x \in Overridden(n - 1) : x.path = o.key}
      through == {x \in Overridden(n - 1) : IsStrictPrefix(x.path, o.key) /\ ~isStructLike(x)}
  IN  IF through # {} THEN {"InvalidTypeException"}
      ELSE IF at = {} \/ \E x \in at : Kind(x.type) \notin {"any", Kind(o.val.type)} THEN {"InvalidOverrideException"}
      ELSE {}
Hidden == {p \in ProtoKeys : \E n \in DOMAIN source.overrides : IsStrictPrefix(source.overrides[n].key, p)}

Reasons ==
  IF Conflicts # {} THEN Conflicts
  ELSE LET refused == UNION {Refused(n) : n \in DOMAIN source.overrides}
       IN  refused \cup (IF Hidden # {} THEN {"InvalidTypeException"} ELSE {})

-----------------------------------------------------------------------------

(* What cannot be merged, applied or removed is refused, with a reason in  *)
(* the files, and nothing else is: a key bound twice, a key that is a      *)
(* struct in one map only, structs of different types, an override         *)
(* without a default, of another type or with a value on its path, a proto *)
(* an override has cut off (config_helpers.cpp:38-62, config_parser.cpp:   *)
(* 303-376).                                                               *)
RefusedRight ==
  /\ phase = "done" => Reasons = {}
  /\ phase \notin {"merge", "overrides", "strip", "done"} => phase \in Reasons

-----------------------------------------------------------------------------

Num == Leaf("kNumber")
Top(keys, nodes) == Node("kStruct", keys, nodes)
S(keys, nodes) == Node("kStruct", keys, nodes)
MCKeyOrder == <<"a", "b", "c", "p", "s", "t">>

InStruct == {S(<<"b">>, <<Num>>), S(<<"c", "b">>, <<Num, Num>>), S(<<"t">>, <<Num>>),
             S(<<"t", "c">>, <<S(<<"b">>, <<Num>>), Num>>), S(<<"t">>, <<S(<<"c", "a">>, <<Num, Num>>)>>),
             S(<<"t">>, <<Node("kStructInProto", <<"a">>, <<Num>>)>>),
             S(<<"p">>, <<Node("kProto", <<"b">>, <<Num>>)>>)}
Protos == {Node("kProto", <<"b">>, <<Leaf("kVar")>>), Node("kProto", <<"t">>, <<Node("kStructInProto", <<"a">>, <<Num>>)>>),
           Node("kProto", <<"t">>, <<Node("kReference", <<"c">>, <<Num>>)>>)}
SomeMaps == {Top(<<"a">>, <<Num>>), Top(<<"s">>, <<Num>>)}
              \cup {Top(<<"s">>, <<x>>) : x \in InStruct} \cup {Top(<<"p">>, <<x>>) : x \in Protos}
              \cup {Top(<<"a", "s">>, <<Num, x>>) : x \in {S(<<"b">>, <<Num>>), S(<<"t">>, <<S(<<"b">>, <<Num>>)>>)}}
Merged == {Source(ms, <<>>) : ms \in [1 .. 3 -> SomeMaps]}

An(key, type) == [key |-> key, val |-> Value(type, "override", Root)]
SomeOverrides ==
  {An(k, t) : k \in {<<"a">>, <<"s">>, <<"s", "b">>, <<"s", "t", "b">>, <<"p", "b">>, <<"s", "c">>}, t \in {"kNumber", "kString", "kExpression"}}
WithDefaults ==
  {<<Top(<<"a", "s">>, <<a, S(<<"b", "t">>, <<b, S(<<"b">>, <<Num>>)>>)>>),
     Top(<<"p">>, <<Node("kProto", <<"b">>, <<Num>>)>>), Top(<<"s">>, <<x>>)>>
     : a \in {Num, Leaf("kValueLookup")}, b \in {Num, Leaf("kExpression"), Leaf("kString")},
       x \in {S(<<"p">>, <<Node("kProto", <<"b">>, <<Num>>)>>), S(<<"c">>, <<Num>>)}}
Overriding ==
  {Source(ms, os) : ms \in WithDefaults,
     os \in {<<o>> : o \in SomeOverrides} \cup {<<o, u>> \in SomeOverrides \X SomeOverrides : o.key # u.key}}

MCSources == Merged \cup Overriding
=============================================================================
