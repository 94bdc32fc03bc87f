------------------------------ MODULE MCLookups ------------------------------
(***************************************************************************)
(* Small trees for Lookups: two keys a and b and a struct s, with at most  *)
(* one key c, in three orders.  Their values are all the ways to say a     *)
(* number, a string, a lookup, an expression and (for a) a list within     *)
(* the bounds below.                                                       *)
(***************************************************************************)
EXTENDS Lookups, TLC

CONSTANT Paths   \* what lookups name

(* A value as it is written, with the cells it takes: a cell of its own,   *)
(* numbered n, and those of its elements, numbered 10 n + i.               *)
Plain(v) == [val |-> v, cells |-> <<>>]
Entry(v) == [key |-> "", val |-> v]
Compound(type, elem, n, parts) ==
  [val |-> Value(type, n, {}, <<>>),
   cells |-> FoldLeft(LAMBDA f, p : f @@ p.cells,
                      n :> [type |-> type, elem |-> elem,
                            data |-> [i \in DOMAIN parts |-> Entry(parts[i].val)]],
                      parts)]

ANumber(n) == Plain(Number({n}))
AString(n) == Plain(Value("kString", 0, {n}, <<>>))
ALookup(p) == Plain(Value("kValueLookup", 0, {}, p))
AnExpression(n, ps) ==
  Compound("kExpression", "kUnknown", n, [i \in DOMAIN ps |-> ALookup(ps[i])])

(* list_element_type as the actions of LIST leave it.                      *)
AList(n, parts) ==
  LET types == {p.val.type : p \in {parts[i] : i \in DOMAIN parts}} \ {"kValueLookup"}
      elem == IF types = {} THEN "kUnknown"
              ELSE IF types \subseteq {"kNumber", "kExpression"} THEN "kNumber"
              ELSE CHOOSE t \in types : TRUE
  IN  Compound("kList", elem, n, parts)

Scalars(n) == {ANumber(n), AString(n)}
Lookups == {ALookup(p) : p \in Paths}
Expressions(n) == {AnExpression(n, ps) : ps \in {<<>>} \cup {<<p>> : p \in Paths}}
Pairs == {ps \in Paths \X Paths : ps[1] # ps[2]}
Sums(n) == {AnExpression(n, ps) : ps \in Pairs}
Elements(n) == Scalars(n) \cup Lookups \cup Expressions(n)
Lists(n) ==
  {AList(n, <<p>>) : p \in Elements(10 * n + 1)}
    \cup {AList(n, <<p, q>>) : p \in Scalars(10 * n + 1) \cup Lookups, q \in Lookups}
    \cup {AList(n, <<AList(10 * n + 1, <<p>>)>>) : p \in Lookups}

(* The trees: cell 1 is the root, 2 is s, 3 belongs to a, 4 to b, 5 to c.  *)
Tree(order, a, b, c) ==
  LET val == "a" :> a.val @@ "b" :> b.val @@ "s" :> Value("kStruct", 2, {}, <<>>)
      struct(keys, v(_)) == [type |-> "kStruct", elem |-> "kUnknown",
                             data |-> [i \in DOMAIN keys |-> [key |-> keys[i], val |-> v(keys[i])]]]
      inS(k) == c[1].val
  IN  1 :> struct(order, LAMBDA k : val[k]) @@ 2 :> struct(IF c = <<>> THEN <<>> ELSE <<"c">>, inS)
        @@ a.cells @@ b.cells @@ (IF c = <<>> THEN <<>> ELSE c[1].cells)

Orders == {<<"a", "s", "b">>, <<"s", "b", "a">>, <<"b", "a", "s">>}
MCPaths == {<<"a">>, <<"b">>, <<"s">>, <<"s", "c">>, <<"a", "c">>}

MCSources ==
  {Tree(o, a, b, c) : o \in Orders,
     a \in Elements(3) \cup Lists(3), b \in Elements(4) \cup Sums(4),
     c \in {<<>>} \cup {<<e>> : e \in Elements(5)}}

(* Only numbers, and expressions of them.                                  *)
MCNumericPaths == {<<"a">>, <<"b">>, <<"s", "c">>}
MCNumericSources ==
  LET numeric(n) == {ANumber(n)} \cup Expressions(n)
  IN  {Tree(o, a, b, <<c>>) : o \in Orders, a \in numeric(3), b \in numeric(4), c \in numeric(5)}
=============================================================================
