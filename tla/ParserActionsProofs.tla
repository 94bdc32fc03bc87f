------------------------- MODULE ParserActionsProofs -------------------------
(***************************************************************************)
(* Theorems about ParserActions, for any keys, variables and scalar types, *)
(* and documents of any length and nesting.                                *)
(***************************************************************************)
EXTENDS ParserActions, SequenceLemmas

-----------------------------------------------------------------------------
(* What the symbols of the grammar do.  A summary tells what is known of   *)
(* text and out between two symbols: the types of the open blocks, whether *)
(* a key, a flat key or a part of a lookup has been read, what obj_res can *)
(* be ("none": null; "some": a value; "any": null or a value, but no       *)
(* expression), whether an expression is open, and whether the brace of    *)
(* the innermost block has been closed.                                    *)

BlockType == {"kStruct", "kStructInProto", "kProto", "kReference"}
Summary == [blocks : Seq(BlockType), key : {"none", "one", "some"}, flat : BOOLEAN,
            lookup : BOOLEAN, value : {"none", "any", "some"}, expression : BOOLEAN,
            closing : BOOLEAN]

(* Within a statement, between statements, and behind the brace of a block.*)
Within(blocks, key, flat, value) ==
  [blocks |-> blocks, key |-> key, flat |-> flat, lookup |-> FALSE, value |-> value,
   expression |-> FALSE, closing |-> FALSE]
At(blocks) == Within(blocks, "none", FALSE, "none")
Closing(blocks) == [At(blocks) EXCEPT !.closing = TRUE]

InProto(blocks) == \E i \in DOMAIN blocks : blocks[i] = "kProto"
InReference(blocks) == blocks # <<>> /\ Last(blocks) = "kReference"
StructIn(blocks) == IF InProto(blocks) THEN "kStructInProto" ELSE "kStruct"

(* The statements that may stand in a block, and their repetitions.        *)
Content(blocks) ==
  {x \in {"config_fields", "FULLPAIRs", "FULLPAIR1", "FULLPAIR"} : blocks = <<>>}
  \cup {x \in {"REFc", "REF_VARDEF", "REF_ADDKVP"} : InReference(blocks)}
  \cup {x \in {"REFERENCE"} : ~InReference(blocks)}
  \cup {x \in {"STRUCTc", "PAIR", "STRUCT", "PROTO"} : ~InReference(blocks) /\ ~InProto(blocks)}
  \cup {x \in {"PROTOc", "PROTO_PAIR", "STRUCT_IN_PROTO"} : ~InReference(blocks) /\ InProto(blocks)}

(* The summaries before and after a symbol and all that it expands to.     *)
With(a, lookup, value, expression) ==
  [blocks |-> a.blocks, key |-> a.key, flat |-> a.flat, lookup |-> lookup, value |-> value,
   expression |-> expression, closing |-> a.closing]
ReadMoves(a, x, c) ==
  \/ x = "SCALAR" /\ a.value # "some" /\ c = With(a, a.lookup, "some", a.expression)
  \/ x \in {"VAR", "VARDEF", "PARENTNAMEk", "SBo"} /\ a.value # "some"
     /\ c = With(a, a.lookup, "any", a.expression)
  \/ x = "VALUE" /\ a.value # "some" /\ ~a.lookup /\ ~a.expression
     /\ c = With(a, FALSE, "some", FALSE)
  \/ x = "/VALUE" /\ a.value = "some" /\ c = a
  \/ x = "VALUE_LOOKUP" /\ a.value # "some" /\ ~a.lookup
     /\ \E v \in {"any", "some"} : c = With(a, FALSE, v, a.expression)
  \/ x = "PART" /\ a.value # "some" /\ c = With(a, TRUE, "any", a.expression)
  \/ x = "PARTs" /\ a.value = "any" /\ a.lookup /\ c = a
  \/ x = "/VALUE_LOOKUP" /\ a.value = "any" /\ a.lookup
     /\ \E v \in {"any", "some"} : c = With(a, FALSE, v, a.expression)
  \/ x = "Eo" /\ a.value # "some" /\ ~a.expression /\ c = With(a, a.lookup, "any", TRUE)
  \/ x = "OPERANDs" /\ a.value = "any" /\ a.expression /\ ~a.lookup /\ c = a
  \/ x = "/EXPRESSION" /\ a.value = "any" /\ a.expression /\ c = With(a, a.lookup, "some", FALSE)
  \/ x \in {"ELEMENTs", "PROTO_ELEMENTs"} /\ a.value = "any" /\ ~a.lookup /\ ~a.expression /\ c = a
  \/ x = "/element" /\ c = With(a, a.lookup, "any", a.expression)
  \/ x = "SBc" /\ a.value = "any" /\ c = With(a, a.lookup, "some", a.expression)
ValueMoves(a, x, c) == ~a.closing /\ ReadMoves(a, x, c)

StatementMoves(a, x, c) ==
  LET b == a.blocks
  IN  \/ x \in Content(b) /\ a = At(b) /\ c = a
      \/ x = "KEY" /\ \E flat \in BOOLEAN : a = Within(b, "none", flat, "none")
         /\ \E key \in {"one", "some"} : c = Within(b, key, flat, "none")
      \/ x \in {"KEY", "KEYs"} /\ a = Within(b, "some", FALSE, "none") /\ c = a
      \/ x = "/FLAT_KEY" /\ a = Within(b, "some", FALSE, "none")
         /\ c = Within(b, "none", TRUE, "none")
      \/ x \in {"OVERRIDE", "OVERRIDEk"} /\ a.value = "none" /\ ~a.closing /\ c = a
      \/ x = "/PAIR" /\ a = Within(b, "one", FALSE, "some") /\ c = At(b)
      \/ x = "/FULLPAIR" /\ b = <<>> /\ a = Within(b, "none", TRUE, "some") /\ c = At(b)
      \/ x = "/PROTO_PAIR" /\ InProto(b) /\ ~InReference(b)
         /\ (\E v \in {"any", "some"} : a = Within(b, "one", FALSE, v)) /\ c = At(b)
      \/ x = "/REF_ADDKVP" /\ InReference(b) /\ a = Within(b, "one", FALSE, "some") /\ c = At(b)
      \/ x = "/REF_VARDEF" /\ InReference(b)
         /\ (\E v \in {"any", "some"} : a = Within(b, "none", FALSE, v)) /\ c = At(b)

BlockMoves(a, x, c) ==
  LET b == a.blocks
  IN  \/ x = "/STRUCTs" /\ ~InReference(b) /\ a = Within(b, "one", FALSE, "none")
         /\ c = At(Append(b, StructIn(b)))
      \/ x = "/PROTOs" /\ ~InReference(b) /\ ~InProto(b) /\ a = Within(b, "one", FALSE, "none")
         /\ c = At(Append(b, "kProto"))
      \/ x = "/REFs" /\ ~InReference(b) /\ a = Within(b, "one", TRUE, "none")
         /\ c = At(Append(b, "kReference"))
      \/ x = "CBo" /\ a = At(b) /\ c = a
      \/ x = "CBc" /\ b # <<>> /\ a = At(b) /\ c = Closing(b)
      \/ x = "/STRUCT" /\ b # <<>> /\ Last(b) \in {"kStruct", "kStructInProto"}
         /\ a = Closing(b) /\ c = At(Front(b))
      \/ x = "/PROTO" /\ b # <<>> /\ Last(b) = "kProto" /\ a = Closing(b) /\ c = At(Front(b))
      \/ x = "/REFERENCE" /\ InReference(b) /\ a = Closing(b) /\ c = At(Front(b))

Moves(a, x, c) == ValueMoves(a, x, c) \/ StatementMoves(a, x, c) \/ BlockMoves(a, x, c)

(* The symbols lead from a summary to the end of a file.                   *)
Runs(run, symbols) ==
  /\ run \in Seq(Summary) /\ Len(run) = Len(symbols) + 1
  /\ \A i \in 1 .. Len(symbols) : Moves(run[i], symbols[i], run[i + 1])
  /\ run[Len(run)] = At(<<>>)
Symbols(s) == s \in Seq(Range(s))
Leads(a, symbols) == Symbols(symbols) /\ \E run : Runs(run, symbols) /\ run[1] = a

-----------------------------------------------------------------------------
(* The inductive invariant.                                                *)

(* What a summary says of the state: of text, of obj_res, of the blocks.   *)
ReadsAs(a) ==
  /\ Len(src.scope) = Len(a.blocks)
  /\ a.key = "none" => text.key = <<>>
  /\ a.key = "one" => Len(text.key) = 1
  /\ a.key = "some" => Len(text.key) >= 1
  /\ a.flat <=> text.flat # <<>>
  /\ ~a.lookup => text.lookup = <<>>
HoldsAs(a) ==
  /\ out.obj_res.type = "kExpression" => a.value = "some"
  /\ a.expression => out.value_lookups = src.lookups
  /\ src.cut = "no" => /\ a.value = "none" => out.obj_res = NullPtr
                       /\ a.value = "some" => out.obj_res.type # "nullptr"
OpenAs(a) ==
  src.cut = "no" =>
    /\ DOMAIN out.objects = DOMAIN a.blocks
    /\ \A i \in DOMAIN out.objects :
         out.objects[i].type = a.blocks[i] /\ out.objects[i].depth = i - 1
    /\ out.depth = Len(out.objects) - (IF a.closing THEN 1 ELSE 0)
Describes(a) == a \in Summary /\ ReadsAs(a) /\ HoldsAs(a) /\ OpenAs(a)

(* The fields of the records, and the sequences among them.                *)
Records ==
  /\ DOMAIN out = DOMAIN NewActionData
  /\ DOMAIN text = DOMAIN NewText
  /\ DOMAIN src = DOMAIN NewSource
  /\ DOMAIN out.obj_res = DOMAIN NullPtr
  /\ text.key \in Seq(Key) /\ text.flat \in Seq(Key) /\ text.lookup \in Seq(Key \cup Var)
  /\ src.scope \in Seq(Key)
  /\ src.cut = "no" =>
       /\ out.objects \in Seq(Range(out.objects))
       /\ \A i \in DOMAIN out.objects :
            DOMAIN out.objects[i] = {"type", "name", "depth", "proto", "data", "ref_vars"}

(* ProtoScope, with the path of the source for the keys.                   *)
Protos ==
  LET protos == {i \in DOMAIN out.objects : out.objects[i].type = "kProto"}
      inside(i) == \E p \in protos : p < i
  IN  src.cut = "no" =>
        /\ out.in_proto <=> protos # {}
        /\ \A p, q \in protos : p = q
        /\ \A p \in protos : out.proto_key = SubSeq(src.scope, 1, p)
        /\ protos = {} => out.proto_key = <<>>
        /\ \A i \in DOMAIN out.objects :
             /\ out.objects[i].type = "kStructInProto" => inside(i)
             /\ out.objects[i].type = "kStruct" => ~inside(i)

NoErrorYet ==
  src.cut = "no" => status \notin {"InvalidStateException", "InvalidConfigException",
                                   "logic_error", "GrammarError"}

Described == \E a : Describes(a) /\ Leads(a, todo)
Inv == Records /\ Described /\ KeysArePath /\ Protos /\ ExpressionOwnsLookups /\ NoErrorYet

-----------------------------------------------------------------------------
(* Sequences of symbols. *)

LEMMA SymbolsType == ASSUME NEW S, NEW s \in Seq(S) PROVE Symbols(s)
<1>1. Len(s) \in Nat /\ DOMAIN s = 1 .. Len(s) /\ s = [i \in 1 .. Len(s) |-> s[i]]
  OBVIOUS
<1>2. \A i \in 1 .. Len(s) : s[i] \in Range(s)
  BY <1>1 DEF Range
<1> QED  BY <1>1, <1>2 DEF Symbols

LEMMA HeadTail ==
  ASSUME NEW s, Symbols(s), s # <<>>
  PROVE  /\ Symbols(Tail(s)) /\ Len(Tail(s)) = Len(s) - 1 /\ Len(s) \in Nat \ {0}
         /\ Head(s) = s[1] /\ \A i \in 1 .. (Len(s) - 1) : Tail(s)[i] = s[i + 1]
<1>1. s \in Seq(Range(s))
  BY DEF Symbols
<1>2. Tail(s) \in Seq(Range(s)) /\ Len(s) \in Nat \ {0}
  BY <1>1
<1>3. Symbols(Tail(s))
  BY <1>2, SymbolsType
<1> QED  BY <1>1, <1>2, <1>3

LEMMA PushSymbol ==
  ASSUME NEW x, NEW s, Symbols(s)
  PROVE  /\ Symbols(<<x>> \o s) /\ Len(<<x>> \o s) = Len(s) + 1 /\ Len(s) \in Nat
         /\ (<<x>> \o s)[1] = x /\ \A i \in 1 .. Len(s) : (<<x>> \o s)[i + 1] = s[i]
<1> DEFINE S == Range(s) \cup {x}
<1>1. s \in Seq(S) /\ <<x>> \in Seq(S)
  <2>1. s \in Seq(Range(s))
    BY DEF Symbols
  <2>2. Range(s) \subseteq S
    OBVIOUS
  <2> QED  BY <2>1, <2>2
<1>2. Len(s) \in Nat /\ Len(<<x>>) = 1 /\ <<x>>[1] = x
  BY <1>1
<1>3. <<x>> \o s \in Seq(S)
  BY <1>1
<1>4. Symbols(<<x>> \o s)
  BY <1>3, SymbolsType
<1>5. Len(<<x>> \o s) = Len(s) + 1 /\ (<<x>> \o s)[1] = x
      /\ \A i \in 1 .. Len(s) : (<<x>> \o s)[i + 1] = s[i]
  BY <1>1, <1>2
<1> QED  BY <1>2, <1>4, <1>5

LEMMA UnrollSymbols ==
  ASSUME NEW u, Symbols(u), u # <<>>, NEW s, Symbols(s)
  PROVE  u \o s = <<Head(u)>> \o (Tail(u) \o s)
<1> DEFINE S == Range(u) \cup Range(s)
<1>1. u \in Seq(S) /\ s \in Seq(S) /\ Tail(u) \in Seq(S) /\ <<Head(u)>> \in Seq(S)
  <2>1. u \in Seq(Range(u)) /\ s \in Seq(Range(s))
    BY DEF Symbols
  <2>2. Range(u) \subseteq S /\ Range(s) \subseteq S
    OBVIOUS
  <2>3. u \in Seq(S) /\ s \in Seq(S)
    BY <2>1, <2>2
  <2> QED  BY <2>3
<1> DEFINE rest == Tail(u) \o s
           all == u \o s
<1>2. rest \in Seq(S) /\ all \in Seq(S) /\ Len(rest) = Len(u) - 1 + Len(s)
      /\ Len(all) = Len(u) + Len(s) /\ Len(u) \in Nat \ {0} /\ Len(s) \in Nat
      /\ Len(<<Head(u)>>) = 1 /\ <<Head(u)>>[1] = u[1] /\ all[1] = u[1]
  BY <1>1
<1>3. ASSUME NEW i \in 1 .. Len(rest) PROVE all[1 + i] = rest[i]
  <2>1. CASE i <= Len(u) - 1
    BY <1>1, <1>2, <2>1
  <2>2. CASE i > Len(u) - 1
    BY <1>1, <1>2, <2>2
  <2> QED  BY <1>2, <2>1, <2>2
<1> HIDE DEF rest, all
<1>4. \A i \in 1 .. Len(<<Head(u)>>) : all[i] = <<Head(u)>>[i]
  <2>1. \A i \in 1 .. 1 : i = 1
    OBVIOUS
  <2> QED  BY <1>2, <2>1
<1>5. <<Head(u)>> \o rest = all
  <2>1. Len(all) = Len(<<Head(u)>>) + Len(rest)
    BY <1>2
  <2>2. \A i \in 1 .. Len(rest) : all[Len(<<Head(u)>>) + i] = rest[i]
    BY <1>2, <1>3
  <2> QED  BY <1>1, <1>2, <1>4, <2>1, <2>2, ConcatIs
<1> QED  BY <1>5 DEF rest, all

-----------------------------------------------------------------------------
(* Runs over the symbols. *)

LEMMA AtEnd ==
  ASSUME NEW a
  PROVE  Leads(a, <<>>) <=> a = At(<<>>)
<1>1. At(<<>>) \in Summary
  BY DEF At, Within, Summary
<1>2. ASSUME NEW run, Runs(run, <<>>), run[1] = a PROVE a = At(<<>>)
  BY <1>2 DEF Runs
<1>3. Runs(<<At(<<>>)>>, <<>>) /\ <<At(<<>>)>>[1] = At(<<>>)
  BY <1>1 DEF Runs
<1>4. Symbols(<<>>)
  BY DEF Symbols
<1> QED  BY <1>2, <1>3, <1>4 DEF Leads

LEMMA LeadsType == ASSUME NEW a, NEW s, Leads(a, s) PROVE a \in Summary /\ Symbols(s)
<1>1. PICK run : Runs(run, s) /\ run[1] = a
  BY DEF Leads
<1>2. Symbols(s) /\ Len(s) \in Nat
  BY DEF Leads, Symbols
<1> QED  BY <1>1, <1>2 DEF Runs

LEMMA OneStep ==
  ASSUME NEW a, NEW s, Leads(a, s), s # <<>>
  PROVE  \E c : Moves(a, Head(s), c) /\ Leads(c, Tail(s))
<1>1. PICK run : Runs(run, s) /\ run[1] = a
  BY DEF Leads
<1>2. Symbols(s)
  BY DEF Leads
<1>3. Symbols(Tail(s)) /\ Len(Tail(s)) = Len(s) - 1 /\ Len(s) \in Nat \ {0} /\ Head(s) = s[1]
      /\ \A i \in 1 .. (Len(s) - 1) : Tail(s)[i] = s[i + 1]
  BY <1>2, HeadTail
<1>4. run \in Seq(Summary) /\ Len(run) = Len(s) + 1 /\ run # <<>>
  BY <1>1, <1>3 DEF Runs
<1>5. Tail(run) \in Seq(Summary) /\ Len(Tail(run)) = Len(s)
      /\ \A i \in 1 .. Len(s) : Tail(run)[i] = run[i + 1]
  BY <1>4
<1>6. Runs(Tail(run), Tail(s))
  <2>1. ASSUME NEW i \in 1 .. Len(Tail(s))
        PROVE  Moves(Tail(run)[i], Tail(s)[i], Tail(run)[i + 1])
    <3>1. i + 1 \in 1 .. Len(s) /\ i \in 1 .. (Len(s) - 1) /\ i \in 1 .. Len(s)
      BY <1>3
    <3>2. Moves(run[i + 1], s[i + 1], run[(i + 1) + 1])
      BY <1>1, <3>1 DEF Runs
    <3>3. Tail(run)[i] = run[i + 1] /\ Tail(run)[i + 1] = run[(i + 1) + 1]
      BY <1>5, <3>1
    <3> QED  BY <1>3, <3>1, <3>2, <3>3
  <2>2. Len(s) \in 1 .. Len(s)
    BY <1>3
  <2>3. Tail(run)[Len(s)] = run[Len(run)]
    BY <1>4, <1>5, <2>2
  <2>4. run[Len(run)] = At(<<>>)
    BY <1>1 DEF Runs
  <2> QED  BY <1>3, <1>5, <2>1, <2>3, <2>4 DEF Runs
<1>7. Moves(run[1], s[1], run[2]) /\ Tail(run)[1] = run[2]
  <2>1. 1 \in 1 .. Len(s)
    BY <1>3
  <2> QED  BY <1>1, <1>5, <2>1 DEF Runs
<1>8. Leads(Tail(run)[1], Tail(s))
  BY <1>3, <1>6 DEF Leads
<1> QED  BY <1>1, <1>3, <1>7, <1>8

LEMMA Before ==
  ASSUME NEW a \in Summary, NEW x, NEW c, NEW s, Moves(a, x, c), Leads(c, s)
  PROVE  Leads(a, <<x>> \o s)
<1>1. PICK run : Runs(run, s) /\ run[1] = c
  BY DEF Leads
<1>2. Symbols(s)
  BY DEF Leads
<1>3. Symbols(<<x>> \o s) /\ Len(<<x>> \o s) = Len(s) + 1 /\ (<<x>> \o s)[1] = x
      /\ Len(s) \in Nat /\ \A i \in 1 .. Len(s) : (<<x>> \o s)[i + 1] = s[i]
  BY <1>2, PushSymbol
<1>4. run \in Seq(Summary) /\ Len(run) = Len(s) + 1
  BY <1>1 DEF Runs
<1> DEFINE all == <<a>> \o run
<1>5. all \in Seq(Summary) /\ Len(all) = Len(s) + 2 /\ all[1] = a
      /\ \A i \in 1 .. (Len(s) + 1) : all[i + 1] = run[i]
  BY <1>3, <1>4
<1> HIDE DEF all
<1>6. ASSUME NEW i \in 1 .. (Len(s) + 1) PROVE Moves(all[i], (<<x>> \o s)[i], all[i + 1])
  <2>1. CASE i = 1
    <3>1. all[1 + 1] = run[1]
      BY <1>3, <1>5
    <3> QED  BY <1>1, <1>3, <1>5, <2>1, <3>1
  <2>2. CASE i # 1
    <3> DEFINE j == i - 1
    <3>1. j \in 1 .. Len(s) /\ j \in 1 .. (Len(s) + 1) /\ j + 1 \in 1 .. (Len(s) + 1) /\ i = j + 1
      BY <1>3, <2>2
    <3>2. Moves(run[j], s[j], run[j + 1])
      BY <1>1, <3>1 DEF Runs
    <3> HIDE DEF j
    <3>3. all[i] = run[j] /\ all[i + 1] = run[j + 1] /\ (<<x>> \o s)[i] = s[j]
      BY <1>3, <1>5, <3>1
    <3> QED  BY <3>2, <3>3
  <2> QED  BY <2>1, <2>2
<1>7. all[Len(all)] = At(<<>>)
  <2>1. Len(s) + 1 \in 1 .. (Len(s) + 1) /\ Len(all) = (Len(s) + 1) + 1
    BY <1>3, <1>5
  <2>2. all[Len(all)] = run[Len(run)]
    BY <1>4, <1>5, <2>1
  <2> QED  BY <1>1, <2>2 DEF Runs
<1>8. Runs(all, <<x>> \o s)
  BY <1>3, <1>5, <1>6, <1>7 DEF Runs
<1> QED  BY <1>3, <1>5, <1>8 DEF Leads

LEMMA BeforeAll ==
  ASSUME NEW a \in Summary, NEW u, Symbols(u), u # <<>>, NEW c, NEW s,
         Moves(a, Head(u), c), Leads(c, Tail(u) \o s), Symbols(s)
  PROVE  Leads(a, u \o s)
<1>1. u \o s = <<Head(u)>> \o (Tail(u) \o s)
  BY UnrollSymbols
<1> QED  BY <1>1, Before

-----------------------------------------------------------------------------
(* Expanding a rule. *)

LEMMA Before2 ==
  ASSUME NEW a \in Summary, NEW x, NEW y, NEW c, NEW s,
         Symbols(s), Moves(a, x, c), Leads(c, <<y>> \o s)
  PROVE  Leads(a, <<x, y>> \o s)
<1>1. <<x, y>> \in Seq({x, y})
  OBVIOUS
<1>2. Symbols(<<x, y>>)
  BY <1>1, SymbolsType
<1>3. <<x, y>> # <<>> /\ Head(<<x, y>>) = x /\ Tail(<<x, y>>) = <<y>>
  OBVIOUS
<1> QED  BY <1>2, <1>3, BeforeAll

LEMMA Before3 ==
  ASSUME NEW a \in Summary, NEW x, NEW y, NEW z, NEW c, NEW s,
         Symbols(s), Moves(a, x, c), Leads(c, <<y, z>> \o s)
  PROVE  Leads(a, <<x, y, z>> \o s)
<1>1. <<x, y, z>> \in Seq({x, y, z})
  OBVIOUS
<1>2. Symbols(<<x, y, z>>)
  BY <1>1, SymbolsType
<1>3. <<x, y, z>> # <<>> /\ Head(<<x, y, z>>) = x /\ Tail(<<x, y, z>>) = <<y, z>>
  OBVIOUS
<1> QED  BY <1>2, <1>3, BeforeAll

LEMMA Before4 ==
  ASSUME NEW a \in Summary, NEW x, NEW y, NEW z, NEW u, NEW c, NEW s,
         Symbols(s), Moves(a, x, c), Leads(c, <<y, z, u>> \o s)
  PROVE  Leads(a, <<x, y, z, u>> \o s)
<1>1. <<x, y, z, u>> \in Seq({x, y, z, u})
  OBVIOUS
<1>2. Symbols(<<x, y, z, u>>)
  BY <1>1, SymbolsType
<1>3. <<x, y, z, u>> # <<>> /\ Head(<<x, y, z, u>>) = x /\ Tail(<<x, y, z, u>>) = <<y, z, u>>
  OBVIOUS
<1> QED  BY <1>2, <1>3, BeforeAll

LEMMA Before5 ==
  ASSUME NEW a \in Summary, NEW x, NEW y, NEW z, NEW u, NEW v, NEW c, NEW s,
         Symbols(s), Moves(a, x, c), Leads(c, <<y, z, u, v>> \o s)
  PROVE  Leads(a, <<x, y, z, u, v>> \o s)
<1>1. <<x, y, z, u, v>> \in Seq({x, y, z, u, v})
  OBVIOUS
<1>2. Symbols(<<x, y, z, u, v>>)
  BY <1>1, SymbolsType
<1>3. <<x, y, z, u, v>> # <<>> /\ Head(<<x, y, z, u, v>>) = x /\ Tail(<<x, y, z, u, v>>) = <<y, z, u, v>>
  OBVIOUS
<1> QED  BY <1>2, <1>3, BeforeAll

LEMMA Before6 ==
  ASSUME NEW a \in Summary, NEW x, NEW y, NEW z, NEW u, NEW v, NEW w, NEW c, NEW s,
         Symbols(s), Moves(a, x, c), Leads(c, <<y, z, u, v, w>> \o s)
  PROVE  Leads(a, <<x, y, z, u, v, w>> \o s)
<1>1. <<x, y, z, u, v, w>> \in Seq({x, y, z, u, v, w})
  OBVIOUS
<1>2. Symbols(<<x, y, z, u, v, w>>)
  BY <1>1, SymbolsType
<1>3. <<x, y, z, u, v, w>> # <<>> /\ Head(<<x, y, z, u, v, w>>) = x /\ Tail(<<x, y, z, u, v, w>>) = <<y, z, u, v, w>>
  OBVIOUS
<1> QED  BY <1>2, <1>3, BeforeAll

LEMMA Before7 ==
  ASSUME NEW a \in Summary, NEW x, NEW y, NEW z, NEW u, NEW v, NEW w, NEW p, NEW c, NEW s,
         Symbols(s), Moves(a, x, c), Leads(c, <<y, z, u, v, w, p>> \o s)
  PROVE  Leads(a, <<x, y, z, u, v, w, p>> \o s)
<1>1. <<x, y, z, u, v, w, p>> \in Seq({x, y, z, u, v, w, p})
  OBVIOUS
<1>2. Symbols(<<x, y, z, u, v, w, p>>)
  BY <1>1, SymbolsType
<1>3. <<x, y, z, u, v, w, p>> # <<>> /\ Head(<<x, y, z, u, v, w, p>>) = x /\ Tail(<<x, y, z, u, v, w, p>>) = <<y, z, u, v, w, p>>
  OBVIOUS
<1> QED  BY <1>2, <1>3, BeforeAll

LEMMA Before8 ==
  ASSUME NEW a \in Summary, NEW x, NEW y, NEW z, NEW u, NEW v, NEW w, NEW p, NEW q, NEW c, NEW s,
         Symbols(s), Moves(a, x, c), Leads(c, <<y, z, u, v, w, p, q>> \o s)
  PROVE  Leads(a, <<x, y, z, u, v, w, p, q>> \o s)
<1>1. <<x, y, z, u, v, w, p, q>> \in Seq({x, y, z, u, v, w, p, q})
  OBVIOUS
<1>2. Symbols(<<x, y, z, u, v, w, p, q>>)
  BY <1>1, SymbolsType
<1>3. <<x, y, z, u, v, w, p, q>> # <<>> /\ Head(<<x, y, z, u, v, w, p, q>>) = x /\ Tail(<<x, y, z, u, v, w, p, q>>) = <<y, z, u, v, w, p, q>>
  OBVIOUS
<1> QED  BY <1>2, <1>3, BeforeAll

LEMMA Before9 ==
  ASSUME NEW a \in Summary, NEW x, NEW y, NEW z, NEW u, NEW v, NEW w, NEW p, NEW q, NEW r, NEW c, NEW s,
         Symbols(s), Moves(a, x, c), Leads(c, <<y, z, u, v, w, p, q, r>> \o s)
  PROVE  Leads(a, <<x, y, z, u, v, w, p, q, r>> \o s)
<1>1. <<x, y, z, u, v, w, p, q, r>> \in Seq({x, y, z, u, v, w, p, q, r})
  OBVIOUS
<1>2. Symbols(<<x, y, z, u, v, w, p, q, r>>)
  BY <1>1, SymbolsType
<1>3. <<x, y, z, u, v, w, p, q, r>> # <<>> /\ Head(<<x, y, z, u, v, w, p, q, r>>) = x /\ Tail(<<x, y, z, u, v, w, p, q, r>>) = <<y, z, u, v, w, p, q, r>>
  OBVIOUS
<1> QED  BY <1>2, <1>3, BeforeAll

-----------------------------------------------------------------------------
(* The statements of a block. *)

LEMMA WithinType ==
  ASSUME NEW b \in Seq(BlockType), NEW key \in {"none", "one", "some"}, NEW flat \in BOOLEAN,
         NEW value \in {"none", "any", "some"}
  PROVE  Within(b, key, flat, value) \in Summary /\ At(b) \in Summary /\ Closing(b) \in Summary
BY DEF Within, At, Closing, Summary

LEMMA WithType ==
  ASSUME NEW a \in Summary, NEW lookup \in BOOLEAN, NEW value \in {"none", "any", "some"},
         NEW expression \in BOOLEAN
  PROVE  /\ With(a, lookup, value, expression) \in Summary
         /\ With(a, a.lookup, a.value, a.expression) = a
         /\ \A l, v, e : With(With(a, lookup, value, expression), l, v, e) = With(a, l, v, e)
BY DEF With, Summary

LEMMA WithinWith ==
  ASSUME NEW b, NEW key, NEW flat, NEW value, NEW after
  PROVE  With(Within(b, key, flat, value), FALSE, after, FALSE) = Within(b, key, flat, after)
BY DEF With, Within

LEMMA Opened ==
  ASSUME NEW b \in Seq(BlockType), NEW t \in BlockType
  PROVE  LET d == Append(b, t)
         IN  /\ d \in Seq(BlockType) /\ d # <<>> /\ Last(d) = t /\ Front(d) = b
             /\ InProto(d) <=> InProto(b) \/ t = "kProto"
             /\ InReference(d) <=> t = "kReference"
<1> DEFINE d == Append(b, t)
<1>1. Len(b) \in Nat /\ d \in Seq(BlockType) /\ d # <<>> /\ Len(d) = Len(b) + 1
      /\ d[Len(b) + 1] = t /\ (\A i \in 1 .. Len(b) : d[i] = b[i])
      /\ DOMAIN b = 1 .. Len(b) /\ DOMAIN d = 1 .. (Len(b) + 1)
  OBVIOUS
<1>2. Front(d) = b
  BY DEF Front
<1> HIDE DEF d
<1>3. Last(d) = t
  BY <1>1 DEF Last
<1>4. InProto(d) <=> InProto(b) \/ t = "kProto"
  <2>1. \A i \in DOMAIN d : i \in DOMAIN b \/ i = Len(b) + 1
    BY <1>1
  <2>2. DOMAIN b \subseteq DOMAIN d /\ Len(b) + 1 \in DOMAIN d
    BY <1>1
  <2> QED  BY <1>1, <2>1, <2>2 DEF InProto
<1>5. InReference(d) <=> t = "kReference"
  BY <1>1, <1>3 DEF InReference
<1> QED  BY <1>1, <1>2, <1>3, <1>4, <1>5 DEF d

LEMMA AtContent ==
  ASSUME NEW a, NEW x, NEW c, Moves(a, x, c),
         x \in {"config_fields", "FULLPAIRs", "STRUCTc", "PROTOc", "REFc", "FULLPAIR1", "FULLPAIR",
                "PAIR", "STRUCT", "STRUCT_IN_PROTO", "PROTO", "REFERENCE", "PROTO_PAIR",
                "REF_ADDKVP", "REF_VARDEF"}
  PROVE  x \in Content(a.blocks) /\ a = At(a.blocks) /\ c = a
BY DEF Moves, ValueMoves, ReadMoves, StatementMoves, BlockMoves

LEMMA ContentMoves ==
  ASSUME NEW b, NEW x \in Content(b)
  PROVE  Moves(At(b), x, At(b))
BY DEF Moves, StatementMoves, At, Within

LEMMA ContentSequence ==
  ASSUME NEW b \in Seq(BlockType), NEW x \in Content(b), NEW y \in Content(b), NEW s,
         Leads(At(b), s)
  PROVE  Leads(At(b), <<x>> \o s) /\ Leads(At(b), <<x, y>> \o s)
<1>1. Moves(At(b), x, At(b)) /\ Moves(At(b), y, At(b)) /\ At(b) \in Summary /\ Symbols(s)
  BY ContentMoves, LeadsType
<1>2. Leads(At(b), <<x>> \o s) /\ Leads(At(b), <<y>> \o s)
  BY <1>1, Before
<1> QED  BY <1>1, <1>2, Before2

LEMMA EmptyAlternative == ASSUME NEW s, Symbols(s) PROVE <<>> \o s = s
BY DEF Symbols

LEMMA ContentExpands ==
  ASSUME NEW a \in Summary, NEW x, NEW c, NEW s, Moves(a, x, c), Leads(c, s),
         x \in {"config_fields", "FULLPAIRs", "STRUCTc", "PROTOc", "REFc"},
         NEW alternative \in Grammar[x]
  PROVE  Leads(a, alternative \o s)
<1> DEFINE b == a.blocks
<1>1. x \in Content(b) /\ a = At(b) /\ c = a /\ b \in Seq(BlockType)
  BY AtContent DEF Summary
<1>2. Leads(At(b), s) /\ Symbols(s) /\ <<>> \o s = s
  BY <1>1, LeadsType, EmptyAlternative
<1> HIDE DEF b
<1>3. CASE alternative = <<>>
  BY <1>1, <1>2, <1>3
<1>4. ASSUME NEW y \in Content(b), alternative = <<y>> PROVE Leads(a, alternative \o s)
  BY <1>1, <1>2, <1>4, ContentSequence
<1>5. ASSUME NEW y \in Content(b), NEW z \in Content(b), alternative = <<y, z>>
      PROVE  Leads(a, alternative \o s)
  BY <1>1, <1>2, <1>5, ContentSequence
<1>6. CASE x = "config_fields"
  <2>1. alternative \in {<<>>, <<"STRUCTc">>, <<"FULLPAIR1", "FULLPAIRs">>}
    BY <1>6 DEF Grammar
  <2>2. b = <<>>
    BY <1>1, <1>6 DEF Content
  <2>3. "STRUCTc" \in Content(b) /\ "FULLPAIR1" \in Content(b) /\ "FULLPAIRs" \in Content(b)
    BY <2>2 DEF Content, InProto, InReference
  <2> QED  BY <1>3, <1>4, <1>5, <2>1, <2>3
<1>7. CASE x = "FULLPAIRs"
  <2>1. alternative \in {<<>>, <<"FULLPAIR", "FULLPAIRs">>}
    BY <1>7 DEF Grammar, Star
  <2>2. "FULLPAIR" \in Content(b) /\ "FULLPAIRs" \in Content(b)
    BY <1>1, <1>7 DEF Content
  <2> QED  BY <1>3, <1>5, <2>1, <2>2
<1>8. CASE x = "STRUCTc"
  <2>1. \E r \in {"PAIR", "STRUCT", "REFERENCE", "PROTO"} :
          alternative = <<r>> \/ alternative = <<r, "STRUCTc">>
    BY <1>8 DEF Grammar, Plus
  <2>2. {"PAIR", "STRUCT", "REFERENCE", "PROTO", "STRUCTc"} \subseteq Content(b)
    BY <1>1, <1>8 DEF Content
  <2> QED  BY <1>4, <1>5, <2>1, <2>2
<1>9. CASE x = "PROTOc"
  <2>1. \E r \in {"PROTO_PAIR", "STRUCT_IN_PROTO", "REFERENCE"} :
          alternative = <<r>> \/ alternative = <<r, "PROTOc">>
    BY <1>9 DEF Grammar, Plus
  <2>2. {"PROTO_PAIR", "STRUCT_IN_PROTO", "REFERENCE", "PROTOc"} \subseteq Content(b)
    BY <1>1, <1>9 DEF Content
  <2> QED  BY <1>4, <1>5, <2>1, <2>2
<1>10. CASE x = "REFc"
  <2>1. alternative = <<>> \/ \E r \in {"REF_VARDEF", "REF_ADDKVP"} : alternative = <<r, "REFc">>
    BY <1>10 DEF Grammar, Star
  <2>2. {"REF_VARDEF", "REF_ADDKVP", "REFc"} \subseteq Content(b)
    BY <1>1, <1>10 DEF Content
  <2> QED  BY <1>3, <1>5, <2>1, <2>2
<1> QED  BY <1>6, <1>7, <1>8, <1>9, <1>10

(* The symbols of a pair, from the last to the first.                      *)
LEMMA StatementSteps ==
  ASSUME NEW b
  PROVE  /\ \A flat \in BOOLEAN : \A key \in {"one", "some"} :
              Moves(Within(b, "none", flat, "none"), "KEY", Within(b, key, flat, "none"))
         /\ \A x \in {"KEY", "KEYs"} :
              Moves(Within(b, "some", FALSE, "none"), x, Within(b, "some", FALSE, "none"))
         /\ Moves(Within(b, "some", FALSE, "none"), "/FLAT_KEY", Within(b, "none", TRUE, "none"))
         /\ \A key, flat : Moves(Within(b, key, flat, "none"), "OVERRIDE", Within(b, key, flat, "none"))
         /\ \A key, flat : \A v \in {"none", "any"} :
              /\ Moves(Within(b, key, flat, v), "VALUE", Within(b, key, flat, "some"))
              /\ \A x \in {"VAR", "VARDEF", "PARENTNAMEk", "SBo"} :
                   Moves(Within(b, key, flat, v), x, Within(b, key, flat, "any"))
         /\ \A key, flat :
              /\ \A x \in {"ELEMENTs", "PROTO_ELEMENTs"} :
                   Moves(Within(b, key, flat, "any"), x, Within(b, key, flat, "any"))
              /\ Moves(Within(b, key, flat, "any"), "SBc", Within(b, key, flat, "some"))
<1>1. ASSUME NEW flat \in BOOLEAN, NEW key \in {"one", "some"}
      PROVE  Moves(Within(b, "none", flat, "none"), "KEY", Within(b, key, flat, "none"))
  <2>1. Within(b, "none", flat, "none").blocks = b
    BY DEF Within
  <2> QED  BY <2>1 DEF Moves, StatementMoves
<1>2. ASSUME NEW x \in {"KEY", "KEYs"}
      PROVE  Moves(Within(b, "some", FALSE, "none"), x, Within(b, "some", FALSE, "none"))
  <2>1. Within(b, "some", FALSE, "none").blocks = b
    BY DEF Within
  <2> QED  BY <2>1 DEF Moves, StatementMoves
<1>3. Moves(Within(b, "some", FALSE, "none"), "/FLAT_KEY", Within(b, "none", TRUE, "none"))
  <2>1. Within(b, "some", FALSE, "none").blocks = b
    BY DEF Within
  <2> QED  BY <2>1 DEF Moves, StatementMoves
<1>4. ASSUME NEW key, NEW flat
      PROVE  Moves(Within(b, key, flat, "none"), "OVERRIDE", Within(b, key, flat, "none"))
  <2>1. Within(b, key, flat, "none").value = "none" /\ ~Within(b, key, flat, "none").closing
    BY DEF Within
  <2> QED  BY <2>1 DEF Moves, StatementMoves
<1>5. \A key, flat, v : /\ Within(b, key, flat, v).value = v
                        /\ ~Within(b, key, flat, v).lookup /\ ~Within(b, key, flat, v).expression
                        /\ ~Within(b, key, flat, v).closing
                        /\ Within(b, key, flat, v).lookup = FALSE
                        /\ Within(b, key, flat, v).expression = FALSE
  BY DEF Within
<1>6. ASSUME NEW key, NEW flat, NEW v \in {"none", "any"}
      PROVE  Moves(Within(b, key, flat, v), "VALUE", Within(b, key, flat, "some"))
  <2> DEFINE w == Within(b, key, flat, v)
  <2>1. w.value = v /\ w.lookup = FALSE /\ w.expression = FALSE /\ ~w.closing
    BY DEF Within
  <2>2. With(w, FALSE, "some", FALSE) = Within(b, key, flat, "some")
    BY WithinWith
  <2> HIDE DEF w
  <2>3. ValueMoves(w, "VALUE", With(w, FALSE, "some", FALSE))
    BY <2>1 DEF ValueMoves, ReadMoves
  <2> QED  BY <2>2, <2>3 DEF Moves, w
<1>7. ASSUME NEW key, NEW flat, NEW v \in {"none", "any"},
             NEW x \in {"VAR", "VARDEF", "PARENTNAMEk", "SBo"}
      PROVE  Moves(Within(b, key, flat, v), x, Within(b, key, flat, "any"))
  <2> DEFINE w == Within(b, key, flat, v)
  <2>1. w.value = v /\ w.lookup = FALSE /\ w.expression = FALSE /\ ~w.closing
    BY DEF Within
  <2>2. With(w, FALSE, "any", FALSE) = Within(b, key, flat, "any")
    BY DEF With, Within
  <2> HIDE DEF w
  <2>3. ValueMoves(w, x, With(w, FALSE, "any", FALSE))
    BY <2>1 DEF ValueMoves, ReadMoves
  <2> QED  BY <2>2, <2>3 DEF Moves, w
<1>8. ASSUME NEW key, NEW flat, NEW x \in {"ELEMENTs", "PROTO_ELEMENTs"}
      PROVE  Moves(Within(b, key, flat, "any"), x, Within(b, key, flat, "any"))
  BY <1>5, WithinWith DEF Moves, ValueMoves, ReadMoves
<1>9. ASSUME NEW key, NEW flat
      PROVE  Moves(Within(b, key, flat, "any"), "SBc", Within(b, key, flat, "some"))
  <2> DEFINE w == Within(b, key, flat, "any")
  <2>1. w.value = "any" /\ w.lookup = FALSE /\ w.expression = FALSE /\ ~w.closing
    BY DEF Within
  <2>2. With(w, FALSE, "some", FALSE) = Within(b, key, flat, "some")
    BY WithinWith
  <2> HIDE DEF w
  <2>3. ValueMoves(w, "SBc", With(w, FALSE, "some", FALSE))
    BY <2>1 DEF ValueMoves, ReadMoves
  <2> QED  BY <2>2, <2>3 DEF Moves, w
<1> QED  BY <1>1, <1>2, <1>3, <1>4, <1>6, <1>7, <1>8, <1>9

LEMMA FULLPAIRExpands ==
  ASSUME NEW s, Leads(At(<<>>), s)
  PROVE  /\ Leads(At(<<>>), <<"KEY", "KEYs", "/FLAT_KEY", "OVERRIDE", "VALUE", "/FULLPAIR">> \o s)
         /\ Leads(At(<<>>), <<"KEY", "KEY", "KEYs", "/FLAT_KEY", "OVERRIDE", "VALUE", "/FULLPAIR">> \o s)
<1> DEFINE b == <<>>
           k == Within(b, "some", FALSE, "none")
           f == Within(b, "none", TRUE, "none")
           v == Within(b, "none", TRUE, "some")
<1>1. b \in Seq(BlockType) /\ Symbols(s)
  BY LeadsType
<1>2. k \in Summary /\ f \in Summary /\ v \in Summary /\ At(b) \in Summary
  BY <1>1, WithinType
<1>3. Moves(At(b), "KEY", k) /\ Moves(k, "KEY", k) /\ Moves(k, "KEYs", k)
      /\ Moves(k, "/FLAT_KEY", f) /\ Moves(f, "OVERRIDE", f) /\ Moves(f, "VALUE", v)
  BY StatementSteps DEF At
<1>4. Moves(v, "/FULLPAIR", At(b))
  <2>1. v.blocks = <<>>
    BY DEF Within
  <2> QED  BY <2>1 DEF Moves, StatementMoves
<1> HIDE DEF b, k, f, v
<1>5. Leads(At(b), s)
  BY DEF b
<1>6. Leads(v, <<"/FULLPAIR">> \o s)
  BY <1>2, <1>4, <1>5, Before
<1>7. Leads(f, <<"VALUE", "/FULLPAIR">> \o s)
  BY <1>1, <1>2, <1>3, <1>6, Before2
<1>8. Leads(f, <<"OVERRIDE", "VALUE", "/FULLPAIR">> \o s)
  BY <1>1, <1>2, <1>3, <1>7, Before3
<1>9. Leads(k, <<"/FLAT_KEY", "OVERRIDE", "VALUE", "/FULLPAIR">> \o s)
  BY <1>1, <1>2, <1>3, <1>8, Before4
<1>10. Leads(k, <<"KEYs", "/FLAT_KEY", "OVERRIDE", "VALUE", "/FULLPAIR">> \o s)
  BY <1>1, <1>2, <1>3, <1>9, Before5
<1>11. Leads(At(b), <<"KEY", "KEYs", "/FLAT_KEY", "OVERRIDE", "VALUE", "/FULLPAIR">> \o s)
  BY <1>1, <1>2, <1>3, <1>10, Before6
<1>12. Leads(k, <<"KEY", "KEYs", "/FLAT_KEY", "OVERRIDE", "VALUE", "/FULLPAIR">> \o s)
  BY <1>1, <1>2, <1>3, <1>10, Before6
<1>13. Leads(At(b), <<"KEY", "KEY", "KEYs", "/FLAT_KEY", "OVERRIDE", "VALUE", "/FULLPAIR">> \o s)
  BY <1>1, <1>2, <1>3, <1>12, Before7
<1> QED  BY <1>11, <1>13 DEF b

LEMMA PAIRExpands ==
  ASSUME NEW b \in Seq(BlockType), NEW s, Leads(At(b), s)
  PROVE  Leads(At(b), <<"KEY", "OVERRIDE", "VALUE", "/PAIR">> \o s)
<1> DEFINE k == Within(b, "one", FALSE, "none")
           v == Within(b, "one", FALSE, "some")
<1>1. k \in Summary /\ v \in Summary /\ At(b) \in Summary /\ Symbols(s)
  BY WithinType, LeadsType
<1>2. Moves(At(b), "KEY", k) /\ Moves(k, "OVERRIDE", k) /\ Moves(k, "VALUE", v)
  BY StatementSteps DEF At
<1>3. Moves(v, "/PAIR", At(b))
  <2>1. v.blocks = b
    BY DEF Within
  <2> QED  BY <2>1 DEF Moves, StatementMoves
<1> HIDE DEF k, v
<1>4. Leads(v, <<"/PAIR">> \o s)
  BY <1>1, <1>3, Before
<1>5. Leads(k, <<"VALUE", "/PAIR">> \o s)
  BY <1>1, <1>2, <1>4, Before2
<1>6. Leads(k, <<"OVERRIDE", "VALUE", "/PAIR">> \o s)
  BY <1>1, <1>2, <1>5, Before3
<1> QED  BY <1>1, <1>2, <1>6, Before4

LEMMA REF_ADDKVPExpands ==
  ASSUME NEW b \in Seq(BlockType), InReference(b), NEW s, Leads(At(b), s)
  PROVE  Leads(At(b), <<"KEY", "VALUE", "/REF_ADDKVP">> \o s)
<1> DEFINE k == Within(b, "one", FALSE, "none")
           v == Within(b, "one", FALSE, "some")
<1>1. k \in Summary /\ v \in Summary /\ At(b) \in Summary /\ Symbols(s)
  BY WithinType, LeadsType
<1>2. Moves(At(b), "KEY", k) /\ Moves(k, "VALUE", v)
  BY StatementSteps DEF At
<1>3. Moves(v, "/REF_ADDKVP", At(b))
  <2>1. v.blocks = b
    BY DEF Within
  <2> QED  BY <2>1 DEF Moves, StatementMoves
<1> HIDE DEF k, v
<1>4. Leads(v, <<"/REF_ADDKVP">> \o s)
  BY <1>1, <1>3, Before
<1>5. Leads(k, <<"VALUE", "/REF_ADDKVP">> \o s)
  BY <1>1, <1>2, <1>4, Before2
<1> QED  BY <1>1, <1>2, <1>5, Before3

LEMMA REF_VARDEFExpands ==
  ASSUME NEW b \in Seq(BlockType), InReference(b), NEW s, Leads(At(b), s)
  PROVE  /\ Leads(At(b), <<"VARDEF", "VALUE", "/REF_VARDEF">> \o s)
         /\ Leads(At(b), <<"VARDEF", "PARENTNAMEk", "/REF_VARDEF">> \o s)
<1> DEFINE d == Within(b, "none", FALSE, "any")
           v == Within(b, "none", FALSE, "some")
<1>1. d \in Summary /\ v \in Summary /\ At(b) \in Summary /\ Symbols(s)
  BY WithinType, LeadsType
<1>2. Moves(At(b), "VARDEF", d) /\ Moves(d, "VALUE", v) /\ Moves(d, "PARENTNAMEk", d)
  BY StatementSteps DEF At
<1>3. Moves(v, "/REF_VARDEF", At(b)) /\ Moves(d, "/REF_VARDEF", At(b))
  <2>1. v.blocks = b /\ d.blocks = b
    BY DEF Within
  <2> QED  BY <2>1 DEF Moves, StatementMoves
<1> HIDE DEF d, v
<1>4. Leads(v, <<"/REF_VARDEF">> \o s) /\ Leads(d, <<"/REF_VARDEF">> \o s)
  BY <1>1, <1>3, Before
<1>5. Leads(d, <<"VALUE", "/REF_VARDEF">> \o s) /\ Leads(d, <<"PARENTNAMEk", "/REF_VARDEF">> \o s)
  BY <1>1, <1>2, <1>4, Before2
<1> QED  BY <1>1, <1>2, <1>5, Before3

LEMMA PROTO_PAIRExpands ==
  ASSUME NEW b \in Seq(BlockType), InProto(b), ~InReference(b), NEW s, Leads(At(b), s)
  PROVE  /\ Leads(At(b), <<"KEY", "VALUE", "/PROTO_PAIR">> \o s)
         /\ Leads(At(b), <<"KEY", "VAR", "/PROTO_PAIR">> \o s)
         /\ Leads(At(b), <<"KEY", "SBo", "ELEMENTs", "SBo", "PROTO_ELEMENTs", "SBc", "/PROTO_PAIR">> \o s)
<1> DEFINE k == Within(b, "one", FALSE, "none")
           l == Within(b, "one", FALSE, "any")
           v == Within(b, "one", FALSE, "some")
<1>1. k \in Summary /\ l \in Summary /\ v \in Summary /\ At(b) \in Summary /\ Symbols(s)
  BY WithinType, LeadsType
<1>2. Moves(At(b), "KEY", k) /\ Moves(k, "VALUE", v) /\ Moves(k, "VAR", l) /\ Moves(k, "SBo", l)
      /\ Moves(l, "SBo", l) /\ Moves(l, "ELEMENTs", l) /\ Moves(l, "PROTO_ELEMENTs", l)
      /\ Moves(l, "SBc", v)
  BY StatementSteps DEF At
<1>3. Moves(v, "/PROTO_PAIR", At(b)) /\ Moves(l, "/PROTO_PAIR", At(b))
  <2>1. v.blocks = b /\ l.blocks = b
    BY DEF Within
  <2> QED  BY <2>1 DEF Moves, StatementMoves
<1> HIDE DEF k, l, v
<1>4. Leads(v, <<"/PROTO_PAIR">> \o s) /\ Leads(l, <<"/PROTO_PAIR">> \o s)
  BY <1>1, <1>3, Before
<1>5. Leads(k, <<"VALUE", "/PROTO_PAIR">> \o s) /\ Leads(k, <<"VAR", "/PROTO_PAIR">> \o s)
      /\ Leads(l, <<"SBc", "/PROTO_PAIR">> \o s)
  BY <1>1, <1>2, <1>4, Before2
<1>6. Leads(At(b), <<"KEY", "VALUE", "/PROTO_PAIR">> \o s)
      /\ Leads(At(b), <<"KEY", "VAR", "/PROTO_PAIR">> \o s)
      /\ Leads(l, <<"PROTO_ELEMENTs", "SBc", "/PROTO_PAIR">> \o s)
  BY <1>1, <1>2, <1>5, Before3
<1>7. Leads(l, <<"SBo", "PROTO_ELEMENTs", "SBc", "/PROTO_PAIR">> \o s)
  BY <1>1, <1>2, <1>6, Before4
<1>8. Leads(l, <<"ELEMENTs", "SBo", "PROTO_ELEMENTs", "SBc", "/PROTO_PAIR">> \o s)
  BY <1>1, <1>2, <1>7, Before5
<1>9. Leads(k, <<"SBo", "ELEMENTs", "SBo", "PROTO_ELEMENTs", "SBc", "/PROTO_PAIR">> \o s)
  BY <1>1, <1>2, <1>8, Before6
<1>10. Leads(At(b), <<"KEY", "SBo", "ELEMENTs", "SBo", "PROTO_ELEMENTs", "SBc", "/PROTO_PAIR">> \o s)
  BY <1>1, <1>2, <1>9, Before7
<1> QED  BY <1>6, <1>10

(* A block: its braces hold content, and its end leads back outside.       *)
LEMMA BlockExpands ==
  ASSUME NEW b \in Seq(BlockType), NEW t \in BlockType, NEW content, NEW opens, NEW closes,
         NEW flat \in BOOLEAN,
         content \in Content(Append(b, t)),
         Moves(Within(b, "one", flat, "none"), opens, At(Append(b, t))),
         Moves(Closing(Append(b, t)), closes, At(b)),
         NEW s, Leads(At(b), s)
  PROVE  Leads(Within(b, "none", flat, "none"), <<"KEY", opens, "CBo", content, "CBc", closes>> \o s)
<1> DEFINE d == Append(b, t)
           n == Within(b, "none", flat, "none")
           k == Within(b, "one", flat, "none")
<1>1. d \in Seq(BlockType) /\ d # <<>>
  BY Opened
<1>2. n \in Summary /\ k \in Summary /\ At(b) \in Summary /\ Symbols(s)
  BY WithinType, LeadsType
<1>3. At(d) \in Summary /\ Closing(d) \in Summary
  BY <1>1, WithinType
<1>4. Moves(n, "KEY", k) /\ Moves(At(d), content, At(d))
  BY StatementSteps, ContentMoves
<1>5. Moves(At(d), "CBo", At(d)) /\ Moves(At(d), "CBc", Closing(d))
  <2>1. At(d).blocks = d
    BY DEF At, Within
  <2> QED  BY <1>1, <2>1 DEF Moves, BlockMoves
<1> HIDE DEF d, n, k
<1>6. Leads(Closing(d), <<closes>> \o s)
  BY <1>3, Before DEF d
<1>7. Leads(At(d), <<"CBc", closes>> \o s)
  BY <1>2, <1>3, <1>5, <1>6, Before2
<1>8. Leads(At(d), <<content, "CBc", closes>> \o s)
  BY <1>2, <1>3, <1>4, <1>7, Before3
<1>9. Leads(At(d), <<"CBo", content, "CBc", closes>> \o s)
  BY <1>2, <1>3, <1>5, <1>8, Before4
<1>10. Leads(k, <<opens, "CBo", content, "CBc", closes>> \o s)
  BY <1>2, <1>9, Before5 DEF d, k
<1>11. Leads(n, <<"KEY", opens, "CBo", content, "CBc", closes>> \o s)
  BY <1>2, <1>4, <1>10, Before6
<1> QED  BY <1>11 DEF n

LEMMA ClosingMoves ==
  ASSUME NEW b \in Seq(BlockType), NEW t \in BlockType
  PROVE  /\ t \in {"kStruct", "kStructInProto"} => Moves(Closing(Append(b, t)), "/STRUCT", At(b))
         /\ t = "kProto" => Moves(Closing(Append(b, t)), "/PROTO", At(b))
         /\ t = "kReference" => Moves(Closing(Append(b, t)), "/REFERENCE", At(b))
<1> DEFINE d == Append(b, t)
<1>1. d # <<>> /\ Last(d) = t /\ Front(d) = b /\ (InReference(d) <=> t = "kReference")
  BY Opened
<1>2. Closing(d).blocks = d
  BY DEF Closing, At, Within
<1> HIDE DEF d
<1>3. /\ t \in {"kStruct", "kStructInProto"} => Moves(Closing(d), "/STRUCT", At(b))
      /\ t = "kProto" => Moves(Closing(d), "/PROTO", At(b))
      /\ t = "kReference" => Moves(Closing(d), "/REFERENCE", At(b))
  BY <1>1, <1>2 DEF Moves, BlockMoves
<1> QED  BY <1>3 DEF d

LEMMA STRUCTExpands ==
  ASSUME NEW b \in Seq(BlockType), ~InReference(b), NEW s, Leads(At(b), s)
  PROVE  /\ ~InProto(b) =>
              Leads(At(b), <<"KEY", "/STRUCTs", "CBo", "STRUCTc", "CBc", "/STRUCT">> \o s)
         /\ InProto(b) =>
              Leads(At(b), <<"KEY", "/STRUCTs", "CBo", "PROTOc", "CBc", "/STRUCT">> \o s)
         /\ ~InProto(b) =>
              Leads(At(b), <<"KEY", "/PROTOs", "CBo", "PROTOc", "CBc", "/PROTO">> \o s)
<1> DEFINE k == Within(b, "one", FALSE, "none")
<1>1. k.blocks = b /\ At(b) = Within(b, "none", FALSE, "none")
  BY DEF Within, At
<1>2. Moves(k, "/STRUCTs", At(Append(b, StructIn(b))))
  BY <1>1 DEF Moves, BlockMoves
<1>3. ~InProto(b) => Moves(k, "/PROTOs", At(Append(b, "kProto")))
  BY <1>1 DEF Moves, BlockMoves
<1> HIDE DEF k
<1>4. "kStruct" \in BlockType /\ "kStructInProto" \in BlockType /\ "kProto" \in BlockType
  BY DEF BlockType
<1>5. CASE ~InProto(b)
  <2>1. "STRUCTc" \in Content(Append(b, "kStruct")) /\ "PROTOc" \in Content(Append(b, "kProto"))
    BY <1>4, <1>5, Opened DEF Content
  <2>2. Moves(Closing(Append(b, "kStruct")), "/STRUCT", At(b))
        /\ Moves(Closing(Append(b, "kProto")), "/PROTO", At(b))
    BY <1>4, ClosingMoves
  <2>3. Moves(k, "/STRUCTs", At(Append(b, "kStruct"))) /\ Moves(k, "/PROTOs", At(Append(b, "kProto")))
    BY <1>2, <1>3, <1>5 DEF StructIn
  <2>4. Leads(At(b), <<"KEY", "/STRUCTs", "CBo", "STRUCTc", "CBc", "/STRUCT">> \o s)
    BY <1>1, <1>4, <2>1, <2>2, <2>3, BlockExpands DEF k
  <2>5. Leads(At(b), <<"KEY", "/PROTOs", "CBo", "PROTOc", "CBc", "/PROTO">> \o s)
    BY <1>1, <1>4, <2>1, <2>2, <2>3, BlockExpands DEF k
  <2> QED  BY <1>5, <2>4, <2>5
<1>6. CASE InProto(b)
  <2>1. "PROTOc" \in Content(Append(b, "kStructInProto"))
    BY <1>4, <1>6, Opened DEF Content
  <2>2. Moves(Closing(Append(b, "kStructInProto")), "/STRUCT", At(b))
    BY <1>4, ClosingMoves
  <2>3. Moves(k, "/STRUCTs", At(Append(b, "kStructInProto")))
    BY <1>2, <1>6 DEF StructIn
  <2>4. Leads(At(b), <<"KEY", "/STRUCTs", "CBo", "PROTOc", "CBc", "/STRUCT">> \o s)
    BY <1>1, <1>4, <2>1, <2>2, <2>3, BlockExpands DEF k
  <2> QED  BY <1>6, <2>4
<1> QED  BY <1>5, <1>6

LEMMA REFERENCEExpands ==
  ASSUME NEW b \in Seq(BlockType), ~InReference(b), NEW s, Leads(At(b), s)
  PROVE  Leads(At(b), <<"KEY", "KEYs", "/FLAT_KEY", "KEY", "/REFs", "CBo", "REFc", "CBc", "/REFERENCE">> \o s)
<1> DEFINE k == Within(b, "some", FALSE, "none")
           f == Within(b, "none", TRUE, "none")
           d == Append(b, "kReference")
<1>1. k \in Summary /\ f \in Summary /\ At(b) \in Summary /\ Symbols(s)
  BY WithinType, LeadsType
<1>2. Moves(At(b), "KEY", k) /\ Moves(k, "KEYs", k) /\ Moves(k, "/FLAT_KEY", f)
  BY StatementSteps DEF At
<1>3. "REFc" \in Content(d) /\ Moves(Closing(d), "/REFERENCE", At(b)) /\ "kReference" \in BlockType
  BY Opened, ClosingMoves DEF Content, BlockType
<1>4. Moves(Within(b, "one", TRUE, "none"), "/REFs", At(d))
  <2>1. Within(b, "one", TRUE, "none").blocks = b
    BY DEF Within
  <2> QED  BY <2>1 DEF Moves, BlockMoves
<1> HIDE DEF k, f
<1>5. Leads(f, <<"KEY", "/REFs", "CBo", "REFc", "CBc", "/REFERENCE">> \o s)
  BY <1>3, <1>4, BlockExpands DEF f
<1>6. Leads(k, <<"/FLAT_KEY", "KEY", "/REFs", "CBo", "REFc", "CBc", "/REFERENCE">> \o s)
  BY <1>1, <1>2, <1>5, Before7
<1>7. Leads(k, <<"KEYs", "/FLAT_KEY", "KEY", "/REFs", "CBo", "REFc", "CBc", "/REFERENCE">> \o s)
  BY <1>1, <1>2, <1>6, Before8
<1> QED  BY <1>1, <1>2, <1>7, Before9

LEMMA StatementExpands ==
  ASSUME NEW a \in Summary, NEW x, NEW c, NEW s, Moves(a, x, c), Leads(c, s),
         x \in {"FULLPAIR1", "FULLPAIR", "PAIR", "STRUCT", "STRUCT_IN_PROTO", "PROTO", "REFERENCE",
                "PROTO_PAIR", "REF_ADDKVP", "REF_VARDEF"},
         NEW alternative \in Grammar[x]
  PROVE  Leads(a, alternative \o s)
<1> DEFINE b == a.blocks
<1>1. x \in Content(b) /\ a = At(b) /\ c = a /\ b \in Seq(BlockType)
  BY AtContent DEF Summary
<1>2. Leads(At(b), s)
  BY <1>1
<1> HIDE DEF b
<1>3. CASE x = "FULLPAIR1"
  <2>1. alternative = <<"KEY", "KEY", "KEYs", "/FLAT_KEY", "OVERRIDE", "VALUE", "/FULLPAIR">>
    BY <1>3 DEF Grammar
  <2>2. b = <<>>
    BY <1>1, <1>3 DEF Content
  <2> QED  BY <1>1, <1>2, <2>1, <2>2, FULLPAIRExpands
<1>4. CASE x = "FULLPAIR"
  <2>1. alternative = <<"KEY", "KEYs", "/FLAT_KEY", "OVERRIDE", "VALUE", "/FULLPAIR">>
    BY <1>4 DEF Grammar
  <2>2. b = <<>>
    BY <1>1, <1>4 DEF Content
  <2> QED  BY <1>1, <1>2, <2>1, <2>2, FULLPAIRExpands
<1>5. CASE x = "PAIR"
  <2>1. alternative = <<"KEY", "OVERRIDE", "VALUE", "/PAIR">>
    BY <1>5 DEF Grammar
  <2> QED  BY <1>1, <1>2, <2>1, PAIRExpands
<1>6. CASE x = "STRUCT"
  <2>1. alternative = <<"KEY", "/STRUCTs", "CBo", "STRUCTc", "CBc", "/STRUCT">>
    BY <1>6 DEF Grammar
  <2>2. ~InReference(b) /\ ~InProto(b)
    BY <1>1, <1>6 DEF Content
  <2> QED  BY <1>1, <1>2, <2>1, <2>2, STRUCTExpands
<1>7. CASE x = "STRUCT_IN_PROTO"
  <2>1. alternative = <<"KEY", "/STRUCTs", "CBo", "PROTOc", "CBc", "/STRUCT">>
    BY <1>7 DEF Grammar
  <2>2. ~InReference(b) /\ InProto(b)
    BY <1>1, <1>7 DEF Content
  <2> QED  BY <1>1, <1>2, <2>1, <2>2, STRUCTExpands
<1>8. CASE x = "PROTO"
  <2>1. alternative = <<"KEY", "/PROTOs", "CBo", "PROTOc", "CBc", "/PROTO">>
    BY <1>8 DEF Grammar
  <2>2. ~InReference(b) /\ ~InProto(b)
    BY <1>1, <1>8 DEF Content
  <2> QED  BY <1>1, <1>2, <2>1, <2>2, STRUCTExpands
<1>9. CASE x = "REFERENCE"
  <2>1. alternative = <<"KEY", "KEYs", "/FLAT_KEY", "KEY", "/REFs", "CBo", "REFc", "CBc", "/REFERENCE">>
    BY <1>9 DEF Grammar
  <2>2. ~InReference(b)
    BY <1>1, <1>9 DEF Content
  <2> QED  BY <1>1, <1>2, <2>1, <2>2, REFERENCEExpands
<1>10. CASE x = "PROTO_PAIR"
  <2>1. alternative \in {<<"KEY", "VALUE", "/PROTO_PAIR">>, <<"KEY", "VAR", "/PROTO_PAIR">>,
                         <<"KEY", "SBo", "ELEMENTs", "SBo", "PROTO_ELEMENTs", "SBc", "/PROTO_PAIR">>}
    BY <1>10 DEF Grammar
  <2>2. ~InReference(b) /\ InProto(b)
    BY <1>1, <1>10 DEF Content
  <2> QED  BY <1>1, <1>2, <2>1, <2>2, PROTO_PAIRExpands
<1>11. CASE x = "REF_ADDKVP"
  <2>1. alternative = <<"KEY", "VALUE", "/REF_ADDKVP">>
    BY <1>11 DEF Grammar
  <2>2. InReference(b)
    BY <1>1, <1>11 DEF Content
  <2> QED  BY <1>1, <1>2, <2>1, <2>2, REF_ADDKVPExpands
<1>12. CASE x = "REF_VARDEF"
  <2>1. alternative \in {<<"VARDEF", "VALUE", "/REF_VARDEF">>, <<"VARDEF", "PARENTNAMEk", "/REF_VARDEF">>}
    BY <1>12 DEF Grammar
  <2>2. InReference(b)
    BY <1>1, <1>12 DEF Content
  <2> QED  BY <1>1, <1>2, <2>1, <2>2, REF_VARDEFExpands
<1> QED  BY <1>3, <1>4, <1>5, <1>6, <1>7, <1>8, <1>9, <1>10, <1>11, <1>12

(* Values, lookups, expressions and lists.                                 *)
LEMMA ValueMovesOnly ==
  ASSUME NEW a, NEW x, NEW c, Moves(a, x, c),
         x \in {"SCALAR", "VAR", "VARDEF", "PARENTNAMEk", "SBo", "VALUE", "/VALUE", "VALUE_LOOKUP",
                "PART", "PARTs", "/VALUE_LOOKUP", "Eo", "OPERANDs", "/EXPRESSION", "ELEMENTs",
                "PROTO_ELEMENTs", "/element", "SBc"}
  PROVE  ValueMoves(a, x, c)
<1>1. ~StatementMoves(a, x, c)
  BY DEF StatementMoves, Content
<1>2. ~BlockMoves(a, x, c)
  BY DEF BlockMoves
<1> QED  BY <1>1, <1>2 DEF Moves

LEMMA VALUEExpands ==
  ASSUME NEW a \in Summary, NEW c, NEW s, Moves(a, "VALUE", c), Leads(c, s),
         NEW alternative \in Grammar["VALUE"]
  PROVE  Leads(a, alternative \o s)
<1> DEFINE l == With(a, FALSE, "any", FALSE)
           e == With(a, FALSE, "any", TRUE)
<1>1. a.value # "some" /\ a.lookup = FALSE /\ a.expression = FALSE /\ ~a.closing
      /\ c = With(a, FALSE, "some", FALSE)
  <2>1. ValueMoves(a, "VALUE", c)
    BY ValueMovesOnly
  <2>2. a.lookup \in BOOLEAN /\ a.expression \in BOOLEAN
    BY DEF Summary
  <2> QED  BY <2>1, <2>2 DEF ValueMoves, ReadMoves
<1>2. c \in Summary /\ l \in Summary /\ e \in Summary /\ Symbols(s)
  BY <1>1, WithType, LeadsType
<1>3. /\ c.value = "some" /\ l.value = "any" /\ l.lookup = FALSE /\ l.expression = FALSE
      /\ e.value = "any" /\ e.lookup = FALSE /\ e.expression = TRUE
      /\ ~c.closing /\ ~l.closing /\ ~e.closing
  BY <1>1 DEF With
<1>4. With(l, FALSE, "some", FALSE) = c /\ With(e, FALSE, "some", FALSE) = c
  BY <1>1 DEF With
<1>5. Moves(a, "SCALAR", c) /\ Moves(a, "SBo", l)
  BY <1>1 DEF Moves, ValueMoves, ReadMoves
<1>6. Moves(a, "VALUE_LOOKUP", c) /\ Moves(a, "Eo", e)
  BY <1>1 DEF Moves, ValueMoves, ReadMoves
<1> HIDE DEF l, e
<1>7. Moves(c, "/VALUE", c) /\ Moves(l, "ELEMENTs", l) /\ Moves(e, "OPERANDs", e)
  BY <1>3 DEF Moves, ValueMoves, ReadMoves
<1>8. Moves(l, "SBc", c) /\ Moves(e, "/EXPRESSION", c)
  BY <1>3, <1>4 DEF Moves, ValueMoves, ReadMoves
<1>9. Leads(c, <<"/VALUE">> \o s)
  BY <1>2, <1>7, Before
<1>10. Leads(a, <<"SCALAR", "/VALUE">> \o s) /\ Leads(a, <<"VALUE_LOOKUP", "/VALUE">> \o s)
       /\ Leads(e, <<"/EXPRESSION", "/VALUE">> \o s) /\ Leads(l, <<"SBc", "/VALUE">> \o s)
  BY <1>2, <1>5, <1>6, <1>8, <1>9, Before2
<1>11. Leads(e, <<"OPERANDs", "/EXPRESSION", "/VALUE">> \o s)
       /\ Leads(l, <<"ELEMENTs", "SBc", "/VALUE">> \o s)
  BY <1>2, <1>7, <1>10, Before3
<1>12. Leads(a, <<"Eo", "OPERANDs", "/EXPRESSION", "/VALUE">> \o s)
       /\ Leads(a, <<"SBo", "ELEMENTs", "SBc", "/VALUE">> \o s)
  BY <1>2, <1>5, <1>6, <1>11, Before4
<1>13. alternative \in {<<"SCALAR", "/VALUE">>, <<"VALUE_LOOKUP", "/VALUE">>,
                        <<"Eo", "OPERANDs", "/EXPRESSION", "/VALUE">>,
                        <<"SBo", "ELEMENTs", "SBc", "/VALUE">>}
  BY DEF Grammar
<1> QED  BY <1>10, <1>12, <1>13

LEMMA ELEMENTsExpands ==
  ASSUME NEW a \in Summary, NEW x \in {"ELEMENTs", "PROTO_ELEMENTs"}, NEW c, NEW s,
         Moves(a, x, c), Leads(c, s), NEW alternative \in Grammar[x]
  PROVE  Leads(a, alternative \o s)
<1> DEFINE w == With(a, FALSE, "some", FALSE)
<1>1. a.value = "any" /\ a.lookup = FALSE /\ a.expression = FALSE /\ ~a.closing /\ c = a
  <2>1. ValueMoves(a, x, c)
    BY ValueMovesOnly
  <2>2. a.lookup \in BOOLEAN /\ a.expression \in BOOLEAN
    BY DEF Summary
  <2> QED  BY <2>1, <2>2 DEF ValueMoves, ReadMoves
<1>2. With(a, FALSE, "any", FALSE) = a /\ w \in Summary /\ Symbols(s) /\ <<>> \o s = s
  BY <1>1, WithType, LeadsType, EmptyAlternative
<1>3. w.lookup = FALSE /\ w.expression = FALSE /\ ~w.closing /\ With(w, FALSE, "any", FALSE) = a
  BY <1>1, <1>2 DEF With
<1>4. Moves(a, "VALUE", w) /\ Moves(a, "VAR", a) /\ Moves(a, x, a)
  BY <1>1, <1>2 DEF Moves, ValueMoves, ReadMoves
<1> HIDE DEF w
<1>5. Moves(w, "/element", a) /\ Moves(a, "/element", a)
  BY <1>1, <1>2, <1>3 DEF Moves, ValueMoves, ReadMoves
<1>6. Leads(a, <<x>> \o s)
  BY <1>1, <1>4, Before
<1>7. Leads(w, <<"/element", x>> \o s) /\ Leads(a, <<"/element", x>> \o s)
  BY <1>2, <1>5, <1>6, Before2
<1>8. Leads(a, <<"VALUE", "/element", x>> \o s) /\ Leads(a, <<"VAR", "/element", x>> \o s)
  BY <1>2, <1>4, <1>7, Before3
<1>9. CASE x = "ELEMENTs"
  <2>1. alternative \in {<<>>, <<"VALUE", "/element", x>>}
    BY <1>9 DEF Grammar
  <2> QED  BY <1>1, <1>2, <1>8, <2>1
<1>10. CASE x = "PROTO_ELEMENTs"
  <2>1. alternative \in {<<>>, <<"VALUE", "/element", x>>, <<"VAR", "/element", x>>}
    BY <1>10 DEF Grammar
  <2> QED  BY <1>1, <1>2, <1>8, <2>1
<1> QED  BY <1>9, <1>10

LEMMA OPERANDsExpands ==
  ASSUME NEW a \in Summary, NEW c, NEW s, Moves(a, "OPERANDs", c), Leads(c, s),
         NEW alternative \in Grammar["OPERANDs"]
  PROVE  Leads(a, alternative \o s)
<1>1. a.value = "any" /\ a.lookup = FALSE /\ a.expression = TRUE /\ ~a.closing /\ c = a
  <2>1. ValueMoves(a, "OPERANDs", c)
    BY ValueMovesOnly
  <2>2. a.lookup \in BOOLEAN /\ a.expression \in BOOLEAN
    BY DEF Summary
  <2> QED  BY <2>1, <2>2 DEF ValueMoves, ReadMoves
<1>2. With(a, FALSE, "any", TRUE) = a /\ Symbols(s) /\ <<>> \o s = s
  BY <1>1, WithType, LeadsType, EmptyAlternative
<1>3. Moves(a, "VAR", a) /\ Moves(a, "VALUE_LOOKUP", a)
  BY <1>1, <1>2 DEF Moves, ValueMoves, ReadMoves
<1>4. Leads(a, <<"OPERANDs">> \o s)
  BY <1>1, Before
<1>5. Leads(a, <<"VAR", "OPERANDs">> \o s) /\ Leads(a, <<"VALUE_LOOKUP", "OPERANDs">> \o s)
  BY <1>2, <1>3, <1>4, Before2
<1>6. alternative \in {<<>>, <<"VAR", "OPERANDs">>, <<"VALUE_LOOKUP", "OPERANDs">>}
  BY DEF Grammar, Star
<1> QED  BY <1>1, <1>2, <1>5, <1>6

LEMMA VALUE_LOOKUPExpands ==
  ASSUME NEW a \in Summary, NEW c, NEW s, Moves(a, "VALUE_LOOKUP", c), Leads(c, s),
         NEW alternative \in Grammar["VALUE_LOOKUP"]
  PROVE  Leads(a, alternative \o s)
<1> DEFINE p == With(a, TRUE, "any", a.expression)
<1>1. a.value # "some" /\ a.lookup = FALSE /\ ~a.closing
      /\ \E v \in {"any", "some"} : c = With(a, FALSE, v, a.expression)
  <2>1. ValueMoves(a, "VALUE_LOOKUP", c)
    BY ValueMovesOnly
  <2>2. a.lookup \in BOOLEAN /\ a.expression \in BOOLEAN
    BY DEF Summary
  <2> QED  BY <2>1, <2>2 DEF ValueMoves, ReadMoves
<1>2. PICK v \in {"any", "some"} : c = With(a, FALSE, v, a.expression)
  BY <1>1
<1>3. a.expression \in BOOLEAN /\ Symbols(s)
  BY LeadsType DEF Summary
<1>4. p \in Summary
  BY <1>3, WithType
<1>5. p.value = "any" /\ p.lookup = TRUE /\ ~p.closing /\ p.expression = a.expression
      /\ With(p, FALSE, v, a.expression) = c
  BY <1>1, <1>2 DEF With
<1>6. Moves(a, "PART", p)
  BY <1>1 DEF Moves, ValueMoves, ReadMoves
<1> HIDE DEF p
<1>7. Moves(p, "PARTs", p)
  BY <1>5 DEF Moves, ValueMoves, ReadMoves
<1>8. Moves(p, "/VALUE_LOOKUP", c)
  BY <1>5 DEF Moves, ValueMoves, ReadMoves
<1>9. Leads(p, <<"/VALUE_LOOKUP">> \o s)
  BY <1>4, <1>8, Before
<1>10. Leads(p, <<"PARTs", "/VALUE_LOOKUP">> \o s)
  BY <1>3, <1>4, <1>7, <1>9, Before2
<1>11. Leads(a, <<"PART", "PARTs", "/VALUE_LOOKUP">> \o s)
  BY <1>3, <1>6, <1>10, Before3
<1>12. alternative = <<"PART", "PARTs", "/VALUE_LOOKUP">>
  BY DEF Grammar
<1> QED  BY <1>11, <1>12

LEMMA PARTsExpands ==
  ASSUME NEW a \in Summary, NEW c, NEW s, Moves(a, "PARTs", c), Leads(c, s),
         NEW alternative \in Grammar["PARTs"]
  PROVE  Leads(a, alternative \o s)
<1>1. a.value = "any" /\ a.lookup = TRUE /\ ~a.closing /\ c = a /\ a.expression \in BOOLEAN
  <2>1. ValueMoves(a, "PARTs", c)
    BY ValueMovesOnly
  <2>2. a.lookup \in BOOLEAN /\ a.expression \in BOOLEAN
    BY DEF Summary
  <2> QED  BY <2>1, <2>2 DEF ValueMoves, ReadMoves
<1>2. With(a, TRUE, "any", a.expression) = a /\ Symbols(s) /\ <<>> \o s = s
  BY <1>1, WithType, LeadsType, EmptyAlternative
<1>3. Moves(a, "PART", a)
  BY <1>1, <1>2 DEF Moves, ValueMoves, ReadMoves
<1>4. Leads(a, <<"PARTs">> \o s)
  BY <1>1, Before
<1>5. Leads(a, <<"PART", "PARTs">> \o s)
  BY <1>2, <1>3, <1>4, Before2
<1>6. alternative \in {<<>>, <<"PART", "PARTs">>}
  BY DEF Grammar, Star
<1> QED  BY <1>1, <1>2, <1>5, <1>6

LEMMA KEYsExpands ==
  ASSUME NEW a \in Summary, NEW c, NEW s, Moves(a, "KEYs", c), Leads(c, s),
         NEW alternative \in Grammar["KEYs"]
  PROVE  Leads(a, alternative \o s)
<1>1. a = Within(a.blocks, "some", FALSE, "none") /\ c = a
  BY DEF Moves, ValueMoves, ReadMoves, StatementMoves, BlockMoves, Content
<1>2. Moves(a, "KEY", a) /\ Symbols(s) /\ <<>> \o s = s
  BY <1>1, StatementSteps, LeadsType, EmptyAlternative
<1>3. Leads(a, <<"KEYs">> \o s)
  BY <1>1, Before
<1>4. Leads(a, <<"KEY", "KEYs">> \o s)
  BY <1>2, <1>3, Before2
<1>5. alternative \in {<<>>, <<"KEY", "KEYs">>}
  BY DEF Grammar, Star
<1> QED  BY <1>1, <1>2, <1>4, <1>5

LEMMA OVERRIDEExpands ==
  ASSUME NEW a \in Summary, NEW c, NEW s, Moves(a, "OVERRIDE", c), Leads(c, s),
         NEW alternative \in Grammar["OVERRIDE"]
  PROVE  Leads(a, alternative \o s)
<1>1. a.value = "none" /\ ~a.closing /\ c = a
  BY DEF Moves, ValueMoves, ReadMoves, StatementMoves, BlockMoves, Content
<1>2. Moves(a, "OVERRIDEk", a)
  BY <1>1 DEF Moves, StatementMoves
<1>3. Symbols(s) /\ <<>> \o s = s
  BY LeadsType, EmptyAlternative
<1>4. Leads(a, <<"OVERRIDEk">> \o s)
  BY <1>1, <1>2, Before
<1>5. alternative \in {<<>>, <<"OVERRIDEk">>}
  BY DEF Grammar
<1> QED  BY <1>1, <1>3, <1>4, <1>5

LEMMA RuleExpands ==
  ASSUME NEW a, NEW x \in DOMAIN Grammar, NEW c, NEW s, Moves(a, x, c), Leads(c, s),
         a \in Summary, NEW alternative \in Grammar[x]
  PROVE  Leads(a, alternative \o s)
<1>1. DOMAIN Grammar =
        {"config_fields", "FULLPAIRs", "FULLPAIR1", "FULLPAIR", "KEYs", "OVERRIDE", "STRUCTc",
         "PROTOc", "REFc", "STRUCT", "STRUCT_IN_PROTO", "PROTO", "REFERENCE", "PAIR", "PROTO_PAIR",
         "REF_ADDKVP", "REF_VARDEF", "VALUE", "ELEMENTs", "PROTO_ELEMENTs", "OPERANDs",
         "VALUE_LOOKUP", "PARTs"}
  BY DEF Grammar
<1>2. CASE x \in {"config_fields", "FULLPAIRs", "STRUCTc", "PROTOc", "REFc"}
  BY <1>2, ContentExpands
<1>3. CASE x \in {"FULLPAIR1", "FULLPAIR", "PAIR", "STRUCT", "STRUCT_IN_PROTO", "PROTO", "REFERENCE",
                  "PROTO_PAIR", "REF_ADDKVP", "REF_VARDEF"}
  BY <1>3, StatementExpands
<1>4. CASE x = "VALUE"
  BY <1>4, VALUEExpands
<1>5. CASE x \in {"ELEMENTs", "PROTO_ELEMENTs"}
  BY <1>5, ELEMENTsExpands
<1>6. CASE x = "OPERANDs"
  BY <1>6, OPERANDsExpands
<1>7. CASE x = "VALUE_LOOKUP"
  BY <1>7, VALUE_LOOKUPExpands
<1>8. CASE x = "PARTs"
  BY <1>8, PARTsExpands
<1>9. CASE x = "KEYs"
  BY <1>9, KEYsExpands
<1>10. CASE x = "OVERRIDE"
  BY <1>10, OVERRIDEExpands
<1> QED  BY <1>1, <1>2, <1>3, <1>4, <1>5, <1>6, <1>7, <1>8, <1>9, <1>10

-----------------------------------------------------------------------------
(* The keys of a lookup: KeysOf and WithoutLookup are folds.               *)

Take(ks, part) == IF part \in Key THEN Append(ks, part) ELSE ks
Pop(ks, part) == IF ks # <<>> /\ Last(ks) = part THEN Front(ks) ELSE ks
TakeFold(g, parts, D) ==
  g = [s \in SUBSET D |-> IF s = {} THEN <<>> ELSE Take(g[s \ {Max(s)}], parts[Max(s)])]
PopFold(g, keys, parts, D) ==
  g = [s \in SUBSET D |-> IF s = {} THEN keys ELSE Pop(g[s \ {Max(s)}], parts[Max(s)])]

LEMMA KeysOfIsFold ==
  ASSUME NEW parts
  PROVE  KeysOf(parts) = (CHOOSE g : TakeFold(g, parts, DOMAIN parts))[DOMAIN parts]
BY Zenon DEF KeysOf, TakeFold, Take, FoldLeft, MapThenFoldSet

LEMMA WithoutLookupIsFold ==
  ASSUME NEW keys, NEW parts
  PROVE  WithoutLookup(keys, parts) =
           (CHOOSE g : PopFold(g, keys, Reverse(parts), DOMAIN Reverse(parts)))[DOMAIN Reverse(parts)]
BY Zenon DEF WithoutLookup, PopFold, Pop, FoldLeft, MapThenFoldSet

LEMMA KeysOfSteps ==
  ASSUME NEW parts \in Seq(Key \cup Var)
  PROVE  \E g : /\ g[1 .. 0] = <<>>
                /\ \A k \in 1 .. Len(parts) : g[1 .. k] = Take(g[1 .. (k - 1)], parts[k])
                /\ KeysOf(parts) = g[1 .. Len(parts)]
<1> DEFINE n == Len(parts)
           V == Seq(Key)
           F == [i \in 1 .. n |-> [ks \in V |-> Take(ks, parts[i])]]
<1>1. n \in Nat /\ DOMAIN parts = 1 .. n /\ <<>> \in V
  OBVIOUS
<1>2. F \in [1 .. n -> [V -> V]]
  BY DEF Take
<1>3. PICK g0 : Steps(g0, V, <<>>, n, F)
  <2> HIDE DEF F, V, n
  <2> QED  BY <1>1, <1>2, StepsExist
<1>4. ASSUME NEW s \in SUBSET (1 .. n)
      PROVE  g0[s] = IF s = {} THEN <<>> ELSE Take(g0[s \ {Max(s)}], parts[Max(s)])
  <2>1. CASE s = {}
    BY <1>3, <2>1 DEF Steps
  <2>2. CASE s # {}
    <3>1. Max(s) \in s
      BY <1>1, <2>2, MaxIn
    <3>2. s \ {Max(s)} \in SUBSET (1 .. n) /\ Max(s) \in 1 .. n
      BY <3>1
    <3>3. g0[s \ {Max(s)}] \in V
      BY <1>3, <3>2 DEF Steps
    <3> QED  BY <1>3, <2>2, <3>2, <3>3 DEF Steps
  <2> QED  BY <2>1, <2>2
<1> DEFINE g == CHOOSE f : TakeFold(f, parts, 1 .. n)
<1>5. TakeFold(g0, parts, 1 .. n)
  BY <1>3, <1>4 DEF Steps, TakeFold
<1>6. TakeFold(g, parts, 1 .. n)
  BY <1>5
<1>7. KeysOf(parts) = g[1 .. n]
  BY <1>1, KeysOfIsFold
<1> HIDE DEF g, n
<1>8. \A s \in SUBSET (1 .. n) : g[s] = IF s = {} THEN <<>> ELSE Take(g[s \ {Max(s)}], parts[Max(s)])
  BY <1>6 DEF TakeFold
<1>9. g[1 .. 0] = <<>>
  <2>1. 1 .. 0 = {} /\ {} \in SUBSET (1 .. n)
    OBVIOUS
  <2> QED  BY <1>8, <2>1
<1>10. ASSUME NEW k \in 1 .. n PROVE g[1 .. k] = Take(g[1 .. (k - 1)], parts[k])
  <2>1. k \in Nat \ {0} /\ (1 .. k) \in SUBSET (1 .. n)
    BY <1>1
  <2>2. 1 .. k # {} /\ Max(1 .. k) = k /\ (1 .. k) \ {k} = 1 .. (k - 1)
    BY <2>1, InitialSegment
  <2> QED  BY <1>8, <2>1, <2>2
<1> QED  BY <1>7, <1>9, <1>10 DEF n

LEMMA KeysOfType ==
  ASSUME NEW parts \in Seq(Key \cup Var) PROVE KeysOf(parts) \in Seq(Key)
<1>1. PICK g : /\ g[1 .. 0] = <<>>
               /\ \A k \in 1 .. Len(parts) : g[1 .. k] = Take(g[1 .. (k - 1)], parts[k])
               /\ KeysOf(parts) = g[1 .. Len(parts)]
  BY KeysOfSteps
<1> DEFINE T == {k \in Nat : k <= Len(parts) /\ g[1 .. k] \notin Seq(Key)}
<1>2. Len(parts) \in Nat
  OBVIOUS
<1>3. ASSUME NEW k \in T, \A j \in T : k <= j PROVE FALSE
  <2>1. CASE k = 0
    <3>1. g[1 .. k] = <<>> /\ <<>> \in Seq(Key)
      BY <1>1, <2>1
    <3> QED  BY <3>1
  <2>2. CASE k # 0
    <3>1. k - 1 \in Nat /\ k - 1 <= Len(parts) /\ k - 1 \notin T /\ k \in 1 .. Len(parts)
      BY <1>2, <1>3, <2>2
    <3>2. g[1 .. (k - 1)] \in Seq(Key)
      BY <3>1
    <3>3. g[1 .. k] = Take(g[1 .. (k - 1)], parts[k])
      BY <1>1, <3>1
    <3>4. g[1 .. k] \in Seq(Key)
      BY <3>2, <3>3 DEF Take
    <3> QED  BY <3>4
  <2> QED  BY <2>1, <2>2
<1>4. T = {}
  BY <1>3, LeastNumber
<1> QED  BY <1>1, <1>2, <1>4

LEMMA KeysOfAppend ==
  ASSUME NEW parts \in Seq(Key \cup Var), NEW part \in Key \cup Var
  PROVE  KeysOf(Append(parts, part)) = Take(KeysOf(parts), part)
<1> DEFINE all == Append(parts, part)
           n == Len(parts)
<1>1. n \in Nat /\ all \in Seq(Key \cup Var) /\ Len(all) = n + 1 /\ all[n + 1] = part
      /\ \A k \in 1 .. n : all[k] = parts[k]
  OBVIOUS
<1> HIDE DEF all
<1>2. PICK g : /\ g[1 .. 0] = <<>>
               /\ \A k \in 1 .. n : g[1 .. k] = Take(g[1 .. (k - 1)], parts[k])
               /\ KeysOf(parts) = g[1 .. n]
  BY KeysOfSteps
<1>3. PICK h : /\ h[1 .. 0] = <<>>
               /\ \A k \in 1 .. Len(all) : h[1 .. k] = Take(h[1 .. (k - 1)], all[k])
               /\ KeysOf(all) = h[1 .. Len(all)]
  BY <1>1, KeysOfSteps
<1> DEFINE T == {k \in Nat : k <= n /\ g[1 .. k] # h[1 .. k]}
<1> HIDE DEF n
<1>4. ASSUME NEW k \in T, \A j \in T : k <= j PROVE FALSE
  <2>1. CASE k = 0
    BY <1>2, <1>3, <2>1
  <2>2. CASE k # 0
    <3>1. k - 1 \in Nat /\ k - 1 <= n /\ k - 1 \notin T /\ k \in 1 .. n /\ k \in 1 .. Len(all)
      BY <1>1, <1>4, <2>2
    <3>2. g[1 .. (k - 1)] = h[1 .. (k - 1)]
      BY <3>1
    <3>3. g[1 .. k] = Take(g[1 .. (k - 1)], parts[k]) /\ h[1 .. k] = Take(h[1 .. (k - 1)], all[k])
      BY <1>2, <1>3, <3>1
    <3> QED  BY <1>1, <3>1, <3>2, <3>3
  <2> QED  BY <2>1, <2>2
<1>5. T = {}
  BY <1>4, LeastNumber
<1>6. g[1 .. n] = h[1 .. n]
  BY <1>1, <1>5
<1>7. n + 1 \in 1 .. Len(all) /\ (n + 1) - 1 = n
  BY <1>1
<1>8. h[1 .. (n + 1)] = Take(h[1 .. n], all[n + 1])
  BY <1>3, <1>7
<1> QED  BY <1>1, <1>2, <1>3, <1>6, <1>8 DEF all

LEMMA KeysOfEmpty == KeysOf(<<>>) = <<>>
<1>1. <<>> \in Seq(Key \cup Var) /\ Len(<<>>) = 0
  OBVIOUS
<1> QED  BY <1>1, KeysOfSteps

(* Every part that is a key is the last of the keys when its turn comes.   *)
LEMMA WithoutLookupIs ==
  ASSUME NEW base \in Seq(Key), NEW parts \in Seq(Key \cup Var)
  PROVE  WithoutLookup(base \o KeysOf(parts), parts) = base
<1> DEFINE n == Len(parts)
           back == Reverse(parts)
           keys == base \o KeysOf(parts)
           V == Seq(Key)
           F == [i \in 1 .. n |-> [ks \in V |-> Pop(ks, back[i])]]
<1>1. n \in Nat /\ DOMAIN back = 1 .. n /\ \A k \in 1 .. n : back[k] = parts[n + 1 - k]
  BY DEF Reverse
<1>2. KeysOf(parts) \in V /\ keys \in V
  BY KeysOfType
<1> HIDE DEF back, keys
<1>3. F \in [1 .. n -> [V -> V]]
  BY DEF Pop, Front
<1>4. PICK g0 : Steps(g0, V, keys, n, F)
  <2> HIDE DEF F, V, n
  <2> QED  BY <1>1, <1>2, <1>3, StepsExist
<1>5. ASSUME NEW s \in SUBSET (1 .. n)
      PROVE  g0[s] = IF s = {} THEN keys ELSE Pop(g0[s \ {Max(s)}], back[Max(s)])
  <2>1. CASE s = {}
    BY <1>4, <2>1 DEF Steps
  <2>2. CASE s # {}
    <3>1. Max(s) \in s
      BY <1>1, <2>2, MaxIn
    <3>2. s \ {Max(s)} \in SUBSET (1 .. n) /\ Max(s) \in 1 .. n
      BY <3>1
    <3>3. g0[s \ {Max(s)}] \in V
      BY <1>4, <3>2 DEF Steps
    <3> QED  BY <1>4, <2>2, <3>2, <3>3 DEF Steps
  <2> QED  BY <2>1, <2>2
<1> DEFINE g == CHOOSE f : PopFold(f, keys, back, 1 .. n)
<1>6. PopFold(g0, keys, back, 1 .. n)
  BY <1>4, <1>5 DEF Steps, PopFold
<1>7. PopFold(g, keys, back, 1 .. n)
  BY <1>6
<1>8. WithoutLookup(keys, parts) = g[1 .. n]
  BY <1>1, WithoutLookupIsFold DEF back
<1> HIDE DEF g, n, F
<1>9. \A s \in SUBSET (1 .. n) : g[s] = IF s = {} THEN keys ELSE Pop(g[s \ {Max(s)}], back[Max(s)])
  BY <1>7 DEF PopFold
<1> DEFINE T == {k \in Nat : k <= n /\ g[1 .. k] # base \o KeysOf(SubSeq(parts, 1, n - k))}
<1>10. ASSUME NEW k \in T, \A j \in T : k <= j PROVE FALSE
  <2>1. CASE k = 0
    <3>1. 1 .. k = {} /\ {} \in SUBSET (1 .. n) /\ n - k = n
      BY <1>1, <2>1
    <3>2. SubSeq(parts, 1, n) = parts
      BY DEF n
    <3>3. g[1 .. k] = keys
      BY <1>9, <3>1
    <3>4. g[1 .. k] = base \o KeysOf(SubSeq(parts, 1, n - k))
      BY <3>1, <3>2, <3>3 DEF keys
    <3> QED  BY <3>4
  <2>2. CASE k # 0
    <3> DEFINE m == n - k
               rest == SubSeq(parts, 1, m)
               part == parts[m + 1]
    <3>1. k - 1 \in Nat /\ k - 1 <= n /\ k - 1 \notin T /\ k \in 1 .. n /\ k \in Nat \ {0}
          /\ n - (k - 1) = m + 1 /\ n + 1 - k = m + 1 /\ m \in Nat /\ m + 1 \in 1 .. n
      BY <1>1, <1>10, <2>2
    <3>2. rest \in Seq(Key \cup Var) /\ part \in Key \cup Var
          /\ SubSeq(parts, 1, m + 1) = Append(rest, part)
      <4>1. m \in Nat /\ m + 1 \in 1 .. Len(parts)
        BY <3>1 DEF n
      <4> HIDE DEF m
      <4>2. rest \in Seq(Key \cup Var) /\ part \in Key \cup Var
        BY <4>1
      <4>3. SubSeq(parts, 1, m + 1) = Append(rest, part)
        BY <4>1
      <4> QED  BY <4>2, <4>3
    <3>3. g[1 .. (k - 1)] = base \o KeysOf(SubSeq(parts, 1, n - (k - 1)))
      BY <3>1
    <3>4. g[1 .. (k - 1)] = base \o KeysOf(Append(rest, part))
      BY <3>1, <3>2, <3>3
    <3>5. (1 .. k) \in SUBSET (1 .. n)
      BY <1>1, <3>1
    <3>6. g[1 .. k] = Pop(g[1 .. (k - 1)], back[k])
      <4>1. 1 .. k # {} /\ Max(1 .. k) = k /\ (1 .. k) \ {k} = 1 .. (k - 1)
        BY <3>1, InitialSegment
      <4> QED  BY <1>9, <3>5, <4>1
    <3>7. back[k] = part
      BY <1>1, <3>1
    <3> HIDE DEF m, rest, part
    <3> DEFINE ks == KeysOf(rest)
    <3>8. ks \in Seq(Key) /\ KeysOf(Append(rest, part)) = Take(ks, part)
      BY <3>2, KeysOfType, KeysOfAppend
    <3> HIDE DEF ks
    <3>9. Pop(base \o Take(ks, part), part) = base \o ks
      <4>1. CASE part \in Key
        <5> DEFINE all == base \o Append(ks, part)
        <5>1. all = Append(base \o ks, part) /\ base \o ks \in Seq(Key)
          BY <3>8, <4>1
        <5>2. all # <<>> /\ Last(all) = part /\ Front(all) = base \o ks
          BY <4>1, <5>1 DEF Last, Front
        <5> QED  BY <4>1, <5>2 DEF Pop, Take
      <4>2. CASE part \notin Key
        <5>1. part \in Var /\ base \o ks \in Seq(Key)
          BY <3>2, <3>8, <4>2
        <5>2. base \o ks # <<>> => Last(base \o ks) \in Key
          BY <5>1 DEF Last
        <5> QED  BY <4>2, <5>2 DEF Pop, Take
      <4> QED  BY <4>1, <4>2
    <3>10. g[1 .. k] = base \o KeysOf(SubSeq(parts, 1, n - k))
      BY <3>4, <3>6, <3>7, <3>8, <3>9 DEF ks, rest, m
    <3> QED  BY <3>10
  <2> QED  BY <2>1, <2>2
<1>11. T = {}
  BY <1>10, LeastNumber
<1>12. g[1 .. n] = base \o KeysOf(SubSeq(parts, 1, n - n))
  <2>1. n \in Nat /\ n <= n
    BY <1>1
  <2>2. n \notin T
    <3> HIDE DEF T
    <3> QED  BY <1>11
  <2> QED  BY <2>1, <2>2
<1>13. SubSeq(parts, 1, n - n) = <<>> /\ base \o <<>> = base
  BY <1>1
<1> QED  BY <1>8, <1>12, <1>13, KeysOfEmpty DEF keys

-----------------------------------------------------------------------------
(* Initial states, and what ends the parse.                                *)

LEMMA AtFacts ==
  ASSUME NEW b \in Seq(BlockType)
  PROVE  /\ At(b) \in Summary /\ At(b).blocks = b /\ At(b).key = "none" /\ At(b).flat = FALSE
         /\ At(b).lookup = FALSE /\ At(b).value = "none" /\ At(b).expression = FALSE
         /\ At(b).closing = FALSE
BY WithinType DEF At, Within

LEMMA NewActionDataIs ==
  /\ NewActionData.depth = 0 /\ NewActionData.keys = <<>> /\ NewActionData.flat_keys = <<>>
  /\ NewActionData.in_proto = FALSE /\ NewActionData.proto_key = <<>>
  /\ NewActionData.obj_res = NullPtr /\ NewActionData.objects = <<>>
BY DEF NewActionData

LEMMA NullPtrIs == NullPtr.type = "nullptr" /\ DOMAIN NullPtr = {"type", "line", "holds"}
BY DEF NullPtr, Value

(* Nothing is open, nothing has been read.                                 *)
FreshState ==
  out = NewActionData /\ text = NewText /\ DOMAIN src = DOMAIN NewSource /\ src.scope = <<>>

LEMMA Fresh ==
  FreshState => Records /\ Describes(At(<<>>)) /\ KeysArePath /\ Protos /\ ExpressionOwnsLookups
<1> SUFFICES ASSUME FreshState
             PROVE  Records /\ Describes(At(<<>>)) /\ KeysArePath /\ Protos /\ ExpressionOwnsLookups
  OBVIOUS
<1> USE DEF FreshState
<1>1. text.key = <<>> /\ text.flat = <<>> /\ text.lookup = <<>>
  BY DEF NewText
<1>2. <<>> \in Seq(BlockType) /\ <<>> \in Seq(Key) /\ <<>> \in Seq(Key \cup Var)
      /\ <<>> \in Seq(Range(<<>>)) /\ DOMAIN <<>> = {} /\ Len(<<>>) = 0
  OBVIOUS
<1>3. Records
  BY <1>1, <1>2, NewActionDataIs DEF Records
<1>4. Describes(At(<<>>))
  <2>1. out.obj_res.type # "kExpression" /\ out.obj_res = NullPtr
    BY NewActionDataIs, NullPtrIs
  <2>2. out.objects = <<>> /\ out.depth = 0
    BY NewActionDataIs
  <2> DEFINE a == At(<<>>)
  <2>3. /\ a \in Summary /\ a.blocks = <<>> /\ a.key = "none" /\ ~a.flat /\ a.value = "none"
        /\ ~a.expression /\ ~a.closing
    BY <1>2, AtFacts
  <2> HIDE DEF a
  <2>4. Describes(a)
    BY <1>1, <1>2, <2>1, <2>2, <2>3 DEF Describes, ReadsAs, HoldsAs, OpenAs
  <2> QED  BY <2>4 DEF a
<1>5. KeysArePath
  <2>1. [i \in DOMAIN <<>> |-> (<<>>)[i].name] = <<>>
    OBVIOUS
  <2>2. OpenProto(<<>>) = <<>>
    BY DEF OpenProto
  <2>3. <<>> \o <<>> \o <<>> = <<>> /\ <<>> \o <<>> = <<>>
    OBVIOUS
  <2> QED  BY <1>1, <1>2, <2>1, <2>2, <2>3, NewActionDataIs, KeysOfEmpty DEF KeysArePath
<1>6. Protos
  BY <1>2, NewActionDataIs DEF Protos
<1>7. ExpressionOwnsLookups
  BY NewActionDataIs, NullPtrIs DEF ExpressionOwnsLookups
<1> QED  BY <1>3, <1>4, <1>5, <1>6, <1>7

LEMMA NewFile == Leads(At(<<>>), <<"config_fields">>)
<1>1. <<>> \in Seq(BlockType) /\ Symbols(<<>>) /\ <<"config_fields">> \o <<>> = <<"config_fields">>
  BY DEF Symbols
<1>2. Leads(At(<<>>), <<>>)
  BY AtEnd
<1>3. "config_fields" \in Content(<<>>)
  BY DEF Content
<1>4. Leads(At(<<>>), <<"config_fields">> \o <<>>)
  BY <1>1, <1>2, <1>3, ContentSequence
<1> QED  BY <1>1, <1>4

LEMMA InitInv == Init => Inv
<1> SUFFICES ASSUME Init PROVE Inv
  OBVIOUS
<1>1. Records /\ Describes(At(<<>>)) /\ KeysArePath /\ Protos /\ ExpressionOwnsLookups
  BY Fresh DEF Init, NewSource, FreshState
<1>2. Leads(At(<<>>), todo)
  BY NewFile DEF Init
<1>3. NoErrorYet
  BY DEF Init, NoErrorYet
<1> QED  BY <1>1, <1>2, <1>3 DEF Inv, Described

LEMMA ThrowInv ==
  ASSUME Inv, NEW exception, Throw(exception),
         src.cut = "no" => exception \notin {"InvalidStateException", "InvalidConfigException",
                                             "logic_error", "GrammarError"}
  PROVE  Inv'
<1>1. out' = NewActionData /\ text' = NewText /\ DOMAIN src' = DOMAIN NewSource
      /\ src'.scope = <<>> /\ src'.cut = src.cut /\ todo' = <<>> /\ status' = exception
  BY DEF Throw, NewSource
<1>2. Records' /\ Describes(At(<<>>))' /\ KeysArePath' /\ Protos' /\ ExpressionOwnsLookups'
  <2>1. FreshState'
    BY <1>1 DEF FreshState
  <2> QED  BY <2>1, Fresh, PTL
<1>3. Leads(At(<<>>), todo')
  BY <1>1, AtEnd
<1>4. NoErrorYet'
  BY <1>1 DEF NoErrorYet
<1> QED  BY <1>2, <1>3, <1>4 DEF Inv, Described

LEMMA NextSymbol ==
  ASSUME Inv, todo # <<>>
  PROVE  \E a, c : Describes(a) /\ Moves(a, Head(todo), c) /\ Leads(c, Tail(todo))
                   /\ a \in Summary /\ c \in Summary
<1>1. PICK a : Describes(a) /\ Leads(a, todo)
  BY DEF Inv, Described
<1>2. PICK c : Moves(a, Head(todo), c) /\ Leads(c, Tail(todo))
  BY <1>1, OneStep
<1>3. a \in Summary /\ c \in Summary
  BY <1>1, <1>2, LeadsType
<1> QED  BY <1>1, <1>2, <1>3

LEMMA OnlyTodo ==
  ASSUME Inv, UNCHANGED <<text, out, src, status>>, Described'
  PROVE  Inv'
<1>1. Records'
  BY DEF Inv, Records
<1>2. KeysArePath'
  BY DEF Inv, KeysArePath
<1>3. Protos'
  BY DEF Inv, Protos
<1>4. ExpressionOwnsLookups' /\ NoErrorYet'
  BY DEF Inv, ExpressionOwnsLookups, NoErrorYet
<1> QED  BY <1>1, <1>2, <1>3, <1>4 DEF Inv

LEMMA ExpandInv == ASSUME Inv, Expand PROVE Inv'
<1>1. todo # <<>> /\ Head(todo) \in DOMAIN Grammar /\ UNCHANGED <<text, out, src, status>>
  BY DEF Expand
<1>2. PICK alternative \in Grammar[Head(todo)] : todo' = alternative \o Tail(todo)
  BY DEF Expand
<1>3. PICK a, c : Describes(a) /\ Moves(a, Head(todo), c) /\ Leads(c, Tail(todo)) /\ a \in Summary
  BY <1>1, NextSymbol
<1>4. Leads(a, alternative \o Tail(todo))
  BY <1>1, <1>3, RuleExpands
<1>5. Describes(a)'
  BY <1>1, <1>3 DEF Describes, ReadsAs, HoldsAs, OpenAs
<1>6. Described'
  BY <1>2, <1>4, <1>5 DEF Described
<1> QED  BY <1>1, <1>6, OnlyTodo

LEMMA AtEndOfFile ==
  ASSUME Inv, todo = <<>>
  PROVE  Describes(At(<<>>))
BY AtEnd DEF Inv, Described

LEMMA NextFileInv == ASSUME Inv, NextFile PROVE Inv'
<1>1. UNCHANGED <<text, out, src, status>> /\ todo = <<>> /\ todo' = <<"config_fields">>
  BY DEF NextFile
<1>2. Describes(At(<<>>))'
  BY <1>1, AtEndOfFile DEF Describes, ReadsAs, HoldsAs, OpenAs
<1>3. Leads(At(<<>>), <<"config_fields">>)
  BY NewFile
<1>4. Described'
  BY <1>1, <1>2, <1>3 DEF Described
<1> QED  BY <1>1, <1>4, OnlyTodo

(* Between files all that a statement or a block uses has been given back. *)
LEMMA NothingOpen ==
  ASSUME Inv, todo = <<>>, src.cut = "no"
  PROVE  /\ out.keys = <<>> /\ out.flat_keys = <<>> /\ out.objects = <<>>
         /\ out.obj_res = NullPtr /\ out.depth = 0 /\ ~out.in_proto
<1> DEFINE a == At(<<>>)
<1>1. /\ a \in Summary /\ a.blocks = <<>> /\ a.key = "none" /\ ~a.flat /\ ~a.lookup
      /\ a.value = "none" /\ ~a.expression /\ ~a.closing
  <2>1. <<>> \in Seq(BlockType)
    OBVIOUS
  <2> QED  BY <2>1, AtFacts
<1>2. Describes(a)
  BY AtEndOfFile
<1> HIDE DEF a
<1>3. Records
  BY DEF Inv
<1>4. out.objects \in Seq(Range(out.objects)) /\ src.scope \in Seq(Key)
  BY <1>3 DEF Records
<1>5. DOMAIN out.objects = {} /\ Len(src.scope) = 0 /\ text.key = <<>> /\ text.flat = <<>>
      /\ text.lookup = <<>> /\ out.obj_res = NullPtr /\ out.depth = Len(out.objects) - 0
  BY <1>1, <1>2 DEF Describes, ReadsAs, HoldsAs, OpenAs
<1>6. out.objects = <<>> /\ src.scope = <<>> /\ Len(out.objects) = 0
  BY <1>4, <1>5
<1>7. out.keys = <<>> /\ out.flat_keys = <<>>
  <2>1. out.keys = src.scope \o text.key \o KeysOf(text.lookup)
        /\ out.flat_keys = OpenProto(out.objects) \o (IF text.flat = <<>> THEN <<>> ELSE <<text.flat>>)
    BY DEF Inv, KeysArePath
  <2>2. OpenProto(<<>>) = <<>>
    BY DEF OpenProto
  <2>3. <<>> \o <<>> \o <<>> = <<>> /\ <<>> \o <<>> = <<>>
    OBVIOUS
  <2> QED  BY <1>5, <1>6, <2>1, <2>2, <2>3, KeysOfEmpty
<1>8. ~out.in_proto
  BY <1>5 DEF Inv, Protos
<1> QED  BY <1>5, <1>6, <1>7, <1>8

LEMMA AcceptInv == ASSUME Inv, Accept PROVE Inv'
<1>1. todo = <<>>
  BY DEF Accept
<1>2. CASE out.keys = <<>> /\ out.flat_keys = <<>> /\ out.objects = <<>> /\ out.obj_res = NullPtr
  <2> DEFINE kept == SelectSeq(out.cfg_res, LAMBDA map : map # EmptyMap)
  <2>1. out' = [out EXCEPT !.cfg_res = kept]
        /\ status' = "accepted" /\ UNCHANGED <<todo, text, src>>
    BY <1>2 DEF Accept
  <2> HIDE DEF kept
  <2>2. DOMAIN out = DOMAIN NewActionData
    BY DEF Inv, Records
  <2>3. DOMAIN out' = DOMAIN out /\ \A x \in DOMAIN out : x # "cfg_res" => out'[x] = out[x]
    BY <2>1
  <2>4. /\ out'.keys = out.keys /\ out'.flat_keys = out.flat_keys /\ out'.objects = out.objects
        /\ out'.obj_res = out.obj_res /\ out'.depth = out.depth /\ out'.in_proto = out.in_proto
        /\ out'.proto_key = out.proto_key /\ out'.value_lookups = out.value_lookups
    BY <2>2, <2>3 DEF NewActionData
  <2>5. Records'
    BY <2>1, <2>3, <2>4 DEF Inv, Records
  <2>6. PICK a : Describes(a) /\ Leads(a, todo)
    BY DEF Inv, Described
  <2>7. text' = text /\ src' = src
    BY <2>1
  <2>8. Described'
    <3>1. ReadsAs(a)' /\ HoldsAs(a)'
      BY <2>4, <2>6, <2>7 DEF Describes, ReadsAs, HoldsAs
    <3>2. OpenAs(a)'
      BY <2>4, <2>6, <2>7 DEF Describes, OpenAs
    <3>3. Describes(a)'
      BY <2>6, <3>1, <3>2 DEF Describes
    <3> QED  BY <2>1, <2>6, <3>3 DEF Described
  <2>9. KeysArePath'
    BY <2>4, <2>7 DEF Inv, KeysArePath
  <2>10. Protos'
    BY <2>4, <2>7 DEF Inv, Protos
  <2>11. ExpressionOwnsLookups' /\ NoErrorYet'
    BY <2>1, <2>4 DEF Inv, ExpressionOwnsLookups, NoErrorYet
  <2> QED  BY <2>5, <2>8, <2>9, <2>10, <2>11 DEF Inv
<1>3. CASE ~(out.keys = <<>> /\ out.flat_keys = <<>> /\ out.objects = <<>> /\ out.obj_res = NullPtr)
  <2>1. src.cut # "no"
    BY <1>1, <1>3, NothingOpen
  <2>2. Throw("InvalidConfigException")
    BY <1>3 DEF Accept
  <2> QED  BY <2>1, <2>2, ThrowInv
<1> QED  BY <1>2, <1>3

(* An expression is in obj_res only until the statement or the element it  *)
(* belongs to takes it, before anything more is read.                      *)
LEMMA ReadsIsPlain ==
  ASSUME NEW a, NEW x, NEW c, Moves(a, x, c),
         x \in DOMAIN Grammar \cup {"KEY", "PART", "VAR", "VARDEF", "PARENTNAMEk", "OVERRIDEk",
           "SCALAR", "SBo", "SBc", "Eo", "/EXPRESSION", "/VALUE_LOOKUP", "CBo", "CBc"}
  PROVE  a.value # "some"
<1>1. x \in {"KEY", "PART", "VAR", "VARDEF", "PARENTNAMEk", "OVERRIDEk",
             "SCALAR", "SBo", "SBc", "Eo", "/EXPRESSION", "/VALUE_LOOKUP", "CBo", "CBc",
             "config_fields", "FULLPAIRs", "FULLPAIR1", "FULLPAIR", "KEYs", "OVERRIDE", "STRUCTc",
             "PROTOc", "REFc", "STRUCT", "STRUCT_IN_PROTO", "PROTO", "REFERENCE", "PAIR",
             "PROTO_PAIR", "REF_ADDKVP", "REF_VARDEF", "VALUE", "ELEMENTs", "PROTO_ELEMENTs",
             "OPERANDs", "VALUE_LOOKUP", "PARTs"}
  BY DEF Grammar
<1>2. CASE ValueMoves(a, x, c)
  BY <1>1, <1>2 DEF ValueMoves, ReadMoves
<1>3. CASE StatementMoves(a, x, c)
  BY <1>1, <1>3 DEF StatementMoves, At, Within
<1>4. CASE BlockMoves(a, x, c)
  BY <1>1, <1>4 DEF BlockMoves, At, Within
<1> QED  BY <1>2, <1>3, <1>4 DEF Moves

LEMMA CutShortInv == ASSUME Inv, CutShort PROVE Inv'
<1>1. Reads /\ todo' = <<"config_fields">> /\ text' = NewText /\ out' = out /\ status' = status
  BY DEF CutShort
<1>2. DOMAIN src = DOMAIN NewSource
  BY DEF Inv, Records
<1>3. DOMAIN src' = DOMAIN src /\ src'.scope = <<>> /\ src'.cut # "no" /\ src'.lookups = src.lookups
  BY <1>2 DEF CutShort, NewSource
<1>4. out.obj_res.type # "kExpression"
  <2>1. CASE todo = <<>>
    <3>1. At(<<>>).value = "none"
      BY DEF At, Within
    <3> QED  BY <2>1, <3>1, AtEndOfFile DEF Describes, ReadsAs, HoldsAs, OpenAs
  <2>2. CASE todo # <<>>
    <3>1. PICK a, c : Describes(a) /\ Moves(a, Head(todo), c)
      BY <2>2, NextSymbol
    <3>2. a.value # "some"
      BY <1>1, <2>2, <3>1, ReadsIsPlain DEF Reads
    <3> QED  BY <3>1, <3>2 DEF Describes, ReadsAs, HoldsAs, OpenAs
  <2> QED  BY <2>1, <2>2
<1>5. text'.key = <<>> /\ text'.flat = <<>> /\ text'.lookup = <<>>
  BY <1>1 DEF NewText
<1>6. Records'
  BY <1>1, <1>3, <1>5 DEF Inv, Records
<1>7. Described'
  <2> DEFINE a == At(<<>>)
  <2>1. /\ a \in Summary /\ a.blocks = <<>> /\ a.key = "none" /\ ~a.flat /\ a.value = "none"
        /\ ~a.expression /\ ~a.closing
    <3>1. <<>> \in Seq(BlockType)
      OBVIOUS
    <3> QED  BY <3>1, AtFacts
  <2>2. Leads(a, <<"config_fields">>)
    BY NewFile
  <2> HIDE DEF a
  <2>3. Describes(a)'
    BY <1>1, <1>3, <1>4, <1>5, <2>1 DEF Describes, ReadsAs, HoldsAs, OpenAs
  <2> QED  BY <1>1, <2>2, <2>3 DEF Described
<1>8. KeysArePath' /\ Protos' /\ ExpressionOwnsLookups' /\ NoErrorYet'
  BY <1>1, <1>3, <1>4 DEF KeysArePath, Protos, ExpressionOwnsLookups, NoErrorYet
<1> QED  BY <1>6, <1>7, <1>8 DEF Inv

LEMMA SyntaxErrorInv == ASSUME Inv, SyntaxError PROVE Inv'
BY ThrowInv DEF SyntaxError

-----------------------------------------------------------------------------
(* Steps that read a value. *)

LEMMA ValueIs ==
  ASSUME NEW type, NEW line, NEW holds
  PROVE  /\ Value(type, line, holds).type = type /\ Value(type, line, holds).holds = holds
         /\ DOMAIN Value(type, line, holds) = DOMAIN NullPtr
BY DEF Value, NullPtr

(* What the keys, the lists and the blocks depend on is left alone.        *)
KeepsPath ==
  /\ out'.keys = out.keys /\ out'.flat_keys = out.flat_keys /\ out'.objects = out.objects
  /\ out'.depth = out.depth /\ out'.in_proto = out.in_proto /\ out'.proto_key = out.proto_key
KeepsSource ==
  DOMAIN src' = DOMAIN src /\ src'.scope = src.scope /\ src'.cut = src.cut

LEMMA OutFields ==
  ASSUME Inv
  PROVE  DOMAIN out = {"depth", "result", "keys", "flat_keys", "in_proto", "proto_key",
           "value_lookups", "cfg_res", "obj_res", "lists", "objects", "is_override",
           "override_values"}
         /\ DOMAIN text = {"key", "flat", "over", "lookup"}
         /\ DOMAIN src = {"scope", "bound", "lookups", "cut"}
         /\ DOMAIN out.obj_res = {"type", "line", "holds"}
BY NullPtrIs DEF Inv, Records, NewActionData, NewText, NewSource

LEMMA ValueInv ==
  ASSUME Inv, NEW a \in Summary, NEW c \in Summary, Describes(a), Leads(c, todo'),
         c = With(a, a.lookup, c.value, c.expression), text' = text, status' = status,
         KeepsSource, KeepsPath, DOMAIN out' = DOMAIN out,
         DOMAIN out'.obj_res = DOMAIN NullPtr, HoldsAs(c)', ExpressionOwnsLookups'
  PROVE  Inv'
<1>1. c.blocks = a.blocks /\ c.key = a.key /\ c.flat = a.flat /\ c.lookup = a.lookup
      /\ c.closing = a.closing
  BY DEF With
<1>2. Records'
  <2>1. Records
    BY DEF Inv
  <2> QED  BY <2>1 DEF Records, KeepsSource, KeepsPath
<1>3. ReadsAs(c)'
  <2>1. ReadsAs(a)
    BY DEF Describes
  <2> QED  BY <1>1, <2>1 DEF ReadsAs, KeepsSource
<1>4. OpenAs(c)'
  <2>1. OpenAs(a)
    BY DEF Describes
  <2> QED  BY <1>1, <2>1 DEF OpenAs, KeepsSource, KeepsPath
<1>5. Described'
  <2>1. Describes(c)'
    BY <1>3, <1>4 DEF Describes
  <2> QED  BY <2>1 DEF Described
<1>6. KeysArePath'
  <2>1. KeysArePath
    BY DEF Inv
  <2> QED  BY <2>1 DEF KeysArePath, KeepsSource, KeepsPath
<1>7. Protos'
  <2>1. Protos
    BY DEF Inv
  <2> QED  BY <2>1 DEF Protos, KeepsSource, KeepsPath
<1>8. NoErrorYet'
  BY DEF Inv, NoErrorYet, KeepsSource
<1> QED  BY <1>2, <1>5, <1>6, <1>7, <1>8 DEF Inv

(* obj_res gets a value that is no expression.                             *)
LEMMA SetValueInv ==
  ASSUME Inv, NEW a \in Summary, NEW c \in Summary, Describes(a), Leads(c, todo'),
         c = With(a, a.lookup, c.value, a.expression), c.value # "none", text' = text,
         status' = status, src' = src, KeepsPath, DOMAIN out' = DOMAIN out,
         DOMAIN out'.obj_res = DOMAIN NullPtr, out'.obj_res.type # "kExpression",
         c.value = "some" => out'.obj_res.type # "nullptr",
         out'.value_lookups = out.value_lookups
  PROVE  Inv'
<1>1. KeepsSource
  BY DEF KeepsSource
<1>2. HoldsAs(c)'
  <2>1. c.expression = a.expression
    BY DEF With
  <2>2. HoldsAs(a)
    BY DEF Describes
  <2> QED  BY <2>1, <2>2 DEF HoldsAs
<1>3. ExpressionOwnsLookups'
  BY DEF ExpressionOwnsLookups
<1>4. c = With(a, a.lookup, c.value, c.expression)
  BY DEF With
<1> QED  BY <1>1, <1>2, <1>3, <1>4, ValueInv

LEMMA ObjResOnly ==
  ASSUME Inv, NEW v, out' = [out EXCEPT !.obj_res = v]
  PROVE  /\ DOMAIN out' = DOMAIN out /\ out'.obj_res = v /\ KeepsPath
         /\ out'.value_lookups = out.value_lookups
BY OutFields DEF KeepsPath

LEMMA SCALARInv == ASSUME Inv, SCALAR PROVE Inv'
<1>1. /\ todo # <<>> /\ Head(todo) = "SCALAR" /\ todo' = Tail(todo) /\ text' = text /\ src' = src
      /\ status' = status
  BY DEF SCALAR, Match, Token, Matched
<1>2. PICK type \in Scalar : out' = [out EXCEPT !.obj_res = Value(type, 0, <<>>)]
  BY DEF SCALAR, SetValue
<1>3. PICK a, c : /\ Describes(a) /\ Moves(a, "SCALAR", c) /\ Leads(c, todo')
                  /\ a \in Summary /\ c \in Summary
  BY <1>1, NextSymbol
<1>4. c = With(a, a.lookup, "some", a.expression)
  <2>1. ValueMoves(a, "SCALAR", c)
    BY <1>3, ValueMovesOnly
  <2> QED  BY <2>1 DEF ValueMoves, ReadMoves
<1>5. c.value = "some"
  BY <1>4 DEF With
<1>6. DOMAIN out' = DOMAIN out /\ out'.obj_res = Value(type, 0, <<>>) /\ KeepsPath
      /\ out'.value_lookups = out.value_lookups
  BY <1>2, ObjResOnly
<1>7. out'.obj_res.type = type /\ DOMAIN out'.obj_res = DOMAIN NullPtr
  BY <1>6, ValueIs
<1>8. type # "kExpression" /\ type # "nullptr"
  BY ScalarAssumption
<1> QED  BY <1>1, <1>3, <1>4, <1>5, <1>6, <1>7, <1>8, SetValueInv

LEMMA PARENTNAMEkInv == ASSUME Inv, PARENTNAMEk PROVE Inv'
<1>1. /\ todo # <<>> /\ Head(todo) = "PARENTNAMEk" /\ todo' = Tail(todo) /\ text' = text
      /\ src' = src /\ status' = status
  BY DEF PARENTNAMEk, Match, Token, Matched
<1> DEFINE name == <<Last(out.objects).name>>
<1>2. out' = [out EXCEPT !.obj_res = Value("kString", 0, name)]
  BY DEF PARENTNAMEk, SetValue
<1> HIDE DEF name
<1>3. PICK a, c : /\ Describes(a) /\ Moves(a, "PARENTNAMEk", c) /\ Leads(c, todo')
                  /\ a \in Summary /\ c \in Summary
  BY <1>1, NextSymbol
<1>4. c = With(a, a.lookup, "any", a.expression)
  <2>1. ValueMoves(a, "PARENTNAMEk", c)
    BY <1>3, ValueMovesOnly
  <2> QED  BY <2>1 DEF ValueMoves, ReadMoves
<1>5. c.value = "any"
  BY <1>4 DEF With
<1>6. DOMAIN out' = DOMAIN out /\ out'.obj_res = Value("kString", 0, name) /\ KeepsPath
      /\ out'.value_lookups = out.value_lookups
  BY <1>2, ObjResOnly
<1>7. out'.obj_res.type = "kString" /\ DOMAIN out'.obj_res = DOMAIN NullPtr
  BY <1>6, ValueIs
<1> QED  BY <1>1, <1>3, <1>4, <1>5, <1>6, <1>7, SetValueInv

LEMMA VARInv == ASSUME Inv, VAR PROVE Inv'
<1>1. /\ todo # <<>> /\ Head(todo) \in {"VAR", "VARDEF"} /\ todo' = Tail(todo) /\ text' = text
      /\ src' = src /\ status' = status
  BY DEF VAR, Match, Token, Matched
<1>2. PICK v \in Var : out' = [out EXCEPT !.result = v, !.obj_res = Value("kVar", tokens, <<v>>)]
  BY DEF VAR, ReadVar
<1>3. PICK a, c : /\ Describes(a) /\ Moves(a, Head(todo), c) /\ Leads(c, todo')
                  /\ a \in Summary /\ c \in Summary
  BY <1>1, NextSymbol
<1>4. c = With(a, a.lookup, "any", a.expression)
  BY <1>1, <1>3, ValueMovesOnly DEF ValueMoves, ReadMoves
<1>5. c.value = "any"
  BY <1>4 DEF With
<1>6. DOMAIN out' = DOMAIN out /\ out'.obj_res = Value("kVar", tokens, <<v>>) /\ KeepsPath
      /\ out'.value_lookups = out.value_lookups
  BY <1>2, OutFields DEF KeepsPath
<1>7. out'.obj_res.type = "kVar" /\ DOMAIN out'.obj_res = DOMAIN NullPtr
  BY <1>6, ValueIs
<1> QED  BY <1>1, <1>3, <1>4, <1>5, <1>6, <1>7, SetValueInv

LEMMA VALUEInv == ASSUME Inv, VALUE PROVE Inv'
<1>1. todo # <<>> /\ Head(todo) = "/VALUE"
  BY DEF VALUE, Match
<1>2. PICK a, c : /\ Describes(a) /\ Moves(a, "/VALUE", c) /\ Leads(c, Tail(todo))
                  /\ a \in Summary /\ c \in Summary
  BY <1>1, NextSymbol
<1>3. ValueMoves(a, "/VALUE", c)
  BY <1>2, ValueMovesOnly
<1>4. c = a /\ a.value = "some"
  BY <1>3 DEF ValueMoves, ReadMoves
<1>5. src.cut = "no" => out.obj_res.type # "nullptr"
  BY <1>2, <1>4 DEF Describes, HoldsAs
<1>6. CASE out.obj_res = NullPtr
  <2>1. Throw("logic_error")
    BY <1>6 DEF VALUE
  <2>2. src.cut # "no"
    BY <1>5, <1>6, NullPtrIs
  <2> QED  BY <2>1, <2>2, ThrowInv
<1>7. CASE out.obj_res # NullPtr
  <2>1. /\ out' = [out EXCEPT !.obj_res.line = tokens] /\ todo' = Tail(todo) /\ text' = text
        /\ src' = src /\ status' = status
    BY <1>7 DEF VALUE, NoToken, Matched
  <2>2. DOMAIN out' = DOMAIN out /\ out'.obj_res = [out.obj_res EXCEPT !.line = tokens] /\ KeepsPath
        /\ out'.value_lookups = out.value_lookups
    BY <2>1, OutFields DEF KeepsPath
  <2>3. out'.obj_res.type = out.obj_res.type /\ out'.obj_res.holds = out.obj_res.holds
        /\ DOMAIN out'.obj_res = DOMAIN NullPtr
    BY <2>2, OutFields, NullPtrIs
  <2>4. HoldsAs(c)'
    <3>1. HoldsAs(a)
      BY <1>2 DEF Describes
    <3> QED  BY <1>4, <2>1, <2>2, <2>3, <3>1 DEF HoldsAs
  <2>5. ExpressionOwnsLookups'
    BY <2>1, <2>3 DEF Inv, ExpressionOwnsLookups
  <2>6. c = With(a, a.lookup, c.value, c.expression)
    <3>1. a.lookup \in BOOLEAN /\ a.value \in {"none", "any", "some"} /\ a.expression \in BOOLEAN
      BY <1>2 DEF Summary
    <3> QED  BY <1>2, <1>4, <3>1, WithType
  <2>7. KeepsSource /\ Leads(c, todo')
    BY <1>2, <2>1 DEF KeepsSource
  <2> QED  BY <1>2, <2>1, <2>2, <2>3, <2>4, <2>5, <2>6, <2>7, ValueInv
<1> QED  BY <1>6, <1>7

LEMMA EoInv == ASSUME Inv, Eo PROVE Inv'
<1>1. /\ todo # <<>> /\ Head(todo) = "Eo" /\ todo' = Tail(todo) /\ text' = text
      /\ src' = [src EXCEPT !.lookups = {}] /\ status' = status
      /\ out' = [out EXCEPT !.value_lookups = {}]
  BY DEF Eo, Match, Token, Matched
<1>2. PICK a, c : /\ Describes(a) /\ Moves(a, "Eo", c) /\ Leads(c, todo')
                  /\ a \in Summary /\ c \in Summary
  BY <1>1, NextSymbol
<1>3. ValueMoves(a, "Eo", c)
  BY <1>2, ValueMovesOnly
<1>4. c = With(a, a.lookup, "any", TRUE) /\ a.value # "some"
  BY <1>3 DEF ValueMoves, ReadMoves
<1>5. c.value = "any" /\ c.expression = TRUE
  BY <1>4 DEF With
<1>6. /\ DOMAIN out' = DOMAIN out /\ out'.obj_res = out.obj_res /\ KeepsPath
      /\ out'.value_lookups = {}
  BY <1>1, OutFields DEF KeepsPath
<1>7. KeepsSource /\ src'.lookups = {}
  BY <1>1, OutFields DEF KeepsSource
<1>8. out.obj_res.type # "kExpression"
  BY <1>2, <1>4 DEF Describes, HoldsAs
<1>9. HoldsAs(c)' /\ ExpressionOwnsLookups'
  BY <1>5, <1>6, <1>7, <1>8 DEF HoldsAs, ExpressionOwnsLookups
<1>10. DOMAIN out'.obj_res = DOMAIN NullPtr
  BY <1>6, OutFields, NullPtrIs
<1>11. c = With(a, a.lookup, c.value, c.expression)
  BY <1>4, <1>5
<1> QED  BY <1>1, <1>2, <1>6, <1>7, <1>9, <1>10, <1>11, ValueInv

LEMMA EXPRESSIONInv == ASSUME Inv, EXPRESSION PROVE Inv'
<1>1. /\ todo # <<>> /\ Head(todo) = "/EXPRESSION" /\ todo' = Tail(todo) /\ text' = text
      /\ src' = src /\ status' = status
      /\ out' = [out EXCEPT !.obj_res = Value("kExpression", tokens, out.value_lookups),
                            !.value_lookups = {}]
  BY DEF EXPRESSION, Match, NoToken, Matched
<1>2. PICK a, c : /\ Describes(a) /\ Moves(a, "/EXPRESSION", c) /\ Leads(c, todo')
                  /\ a \in Summary /\ c \in Summary
  BY <1>1, NextSymbol
<1>3. ValueMoves(a, "/EXPRESSION", c)
  BY <1>2, ValueMovesOnly
<1>4. c = With(a, a.lookup, "some", FALSE) /\ a.expression
  BY <1>3 DEF ValueMoves, ReadMoves
<1>5. c.value = "some" /\ c.expression = FALSE
  BY <1>4 DEF With
<1>6. /\ DOMAIN out' = DOMAIN out /\ out'.obj_res = Value("kExpression", tokens, out.value_lookups)
      /\ KeepsPath
  BY <1>1, OutFields DEF KeepsPath
<1>7. /\ out'.obj_res.type = "kExpression" /\ out'.obj_res.holds = out.value_lookups
      /\ DOMAIN out'.obj_res = DOMAIN NullPtr
  BY <1>6, ValueIs
<1>8. out.value_lookups = src.lookups
  BY <1>2, <1>4 DEF Describes, HoldsAs
<1>9. HoldsAs(c)' /\ ExpressionOwnsLookups'
  BY <1>1, <1>5, <1>7, <1>8 DEF HoldsAs, ExpressionOwnsLookups
<1>10. KeepsSource
  BY <1>1 DEF KeepsSource
<1>11. c = With(a, a.lookup, c.value, c.expression)
  BY <1>4, <1>5
<1> QED  BY <1>1, <1>2, <1>6, <1>7, <1>9, <1>10, <1>11, ValueInv

LEMMA SBoInv == ASSUME Inv, SBo PROVE Inv'
<1>1. /\ todo # <<>> /\ Head(todo) = "SBo" /\ todo' = Tail(todo) /\ text' = text
      /\ src' = src /\ status' = status
  BY DEF SBo, Match, Token, Matched
<1> DEFINE lists == Append(out.lists, [elem |-> "kUnknown", data |-> <<>>])
<1>2. out' = [out EXCEPT !.lists = lists]
  BY DEF SBo
<1> HIDE DEF lists
<1>3. PICK a, c : /\ Describes(a) /\ Moves(a, "SBo", c) /\ Leads(c, todo')
                  /\ a \in Summary /\ c \in Summary
  BY <1>1, NextSymbol
<1>4. ValueMoves(a, "SBo", c)
  BY <1>3, ValueMovesOnly
<1>5. c = With(a, a.lookup, "any", a.expression) /\ a.value # "some"
  BY <1>4 DEF ValueMoves, ReadMoves
<1>6. c.value = "any"
  BY <1>5 DEF With
<1>7. /\ DOMAIN out' = DOMAIN out /\ out'.obj_res = out.obj_res /\ KeepsPath
      /\ out'.value_lookups = out.value_lookups
  BY <1>2, OutFields DEF KeepsPath
<1>8. out.obj_res.type # "kExpression"
  BY <1>3, <1>5 DEF Describes, HoldsAs
<1>9. DOMAIN out'.obj_res = DOMAIN NullPtr
  BY <1>7, OutFields, NullPtrIs
<1> QED  BY <1>1, <1>3, <1>5, <1>6, <1>7, <1>8, <1>9, SetValueInv

LEMMA SBcInv == ASSUME Inv, SBc PROVE Inv'
<1>1. /\ todo # <<>> /\ Head(todo) = "SBc" /\ todo' = Tail(todo) /\ text' = text
      /\ src' = src /\ status' = status
  BY DEF SBc, Match, NoToken, Matched
<1> DEFINE data == Last(out.lists).data
           lists == Front(out.lists)
<1>2. out' = [out EXCEPT !.obj_res = Value("kList", 0, data), !.lists = lists]
  BY DEF SBc
<1> HIDE DEF data, lists
<1>3. PICK a, c : /\ Describes(a) /\ Moves(a, "SBc", c) /\ Leads(c, todo')
                  /\ a \in Summary /\ c \in Summary
  BY <1>1, NextSymbol
<1>4. ValueMoves(a, "SBc", c)
  BY <1>3, ValueMovesOnly
<1>5. c = With(a, a.lookup, "some", a.expression)
  BY <1>4 DEF ValueMoves, ReadMoves
<1>6. c.value = "some"
  BY <1>5 DEF With
<1>7. /\ DOMAIN out' = DOMAIN out /\ out'.obj_res = Value("kList", 0, data) /\ KeepsPath
      /\ out'.value_lookups = out.value_lookups
  BY <1>2, OutFields DEF KeepsPath
<1>8. out'.obj_res.type = "kList" /\ DOMAIN out'.obj_res = DOMAIN NullPtr
  BY <1>7, ValueIs
<1> QED  BY <1>1, <1>3, <1>5, <1>6, <1>7, <1>8, SetValueInv

LEMMA ElementInv == ASSUME Inv, Element PROVE Inv'
<1> DEFINE list == Last(out.lists)
           elem == ListWith(list.elem, out.obj_res.type)
<1>1. todo # <<>> /\ Head(todo) = "/element"
  BY DEF Element, Match
<1>2. CASE elem = "invalid"
  <2>1. Throw("InvalidTypeException")
    BY <1>2 DEF Element
  <2> QED  BY <2>1, ThrowInv
<1>3. CASE elem # "invalid"
  <2>1. /\ todo' = Tail(todo) /\ text' = text /\ src' = src /\ status' = status
        /\ out' = [out EXCEPT !.lists[Len(out.lists)] =
                       [elem |-> elem, data |-> Append(list.data, out.obj_res)],
                       !.obj_res = NullPtr]
    BY <1>3 DEF Element, NoToken, Matched
  <2>2. PICK a, c : /\ Describes(a) /\ Moves(a, "/element", c) /\ Leads(c, todo')
                    /\ a \in Summary /\ c \in Summary
    BY <1>1, <2>1, NextSymbol
  <2>3. ValueMoves(a, "/element", c)
    BY <2>2, ValueMovesOnly
  <2>4. c = With(a, a.lookup, "any", a.expression)
    BY <2>3 DEF ValueMoves, ReadMoves
  <2>5. c.value = "any"
    BY <2>4 DEF With
  <2> HIDE DEF elem, list
  <2>6. /\ DOMAIN out' = DOMAIN out /\ out'.obj_res = NullPtr /\ KeepsPath
        /\ out'.value_lookups = out.value_lookups
    BY <2>1, OutFields DEF KeepsPath
  <2>7. out'.obj_res.type = "nullptr" /\ DOMAIN out'.obj_res = DOMAIN NullPtr
    BY <2>6, NullPtrIs
  <2> QED  BY <2>1, <2>2, <2>4, <2>5, <2>6, <2>7, SetValueInv
<1> QED  BY <1>2, <1>3

-----------------------------------------------------------------------------
(* Steps within one block. *)

KeysFollow == out.keys = src.scope \o text.key \o KeysOf(text.lookup)
FlatKeysFollow ==
  out.flat_keys = OpenProto(out.objects) \o (IF text.flat = <<>> THEN <<>> ELSE <<text.flat>>)
TextType ==
  /\ DOMAIN text = DOMAIN NewText
  /\ text.key \in Seq(Key) /\ text.flat \in Seq(Key) /\ text.lookup \in Seq(Key \cup Var)

(* The open blocks stay the ones they are: only what they hold may change. *)
SameBlocks ==
  src.cut = "no" =>
    /\ DOMAIN out'.objects = DOMAIN out.objects /\ out'.objects \in Seq(Range(out'.objects))
    /\ \A i \in DOMAIN out.objects :
         /\ DOMAIN out'.objects[i] = DOMAIN out.objects[i]
         /\ out'.objects[i].type = out.objects[i].type /\ out'.objects[i].name = out.objects[i].name
         /\ out'.objects[i].depth = out.objects[i].depth
         /\ out'.objects[i].proto = out.objects[i].proto
KeepsBlocks ==
  /\ DOMAIN out' = DOMAIN out /\ DOMAIN out'.obj_res = DOMAIN NullPtr
  /\ SameBlocks
  /\ out'.depth = out.depth /\ out'.in_proto = out.in_proto /\ out'.proto_key = out.proto_key

LEMMA SameLength ==
  ASSUME NEW s, NEW t, s \in Seq(Range(s)), t \in Seq(Range(t)), DOMAIN s = DOMAIN t
  PROVE  Len(s) = Len(t) /\ (s = <<>> <=> t = <<>>)
         /\ (s # <<>> => Len(s) \in DOMAIN s /\ Last(s) = s[Len(s)] /\ Last(t) = t[Len(s)])
<1>1. Len(s) \in Nat /\ Len(t) \in Nat /\ 1 .. Len(s) = 1 .. Len(t)
  OBVIOUS
<1>2. Len(s) = Len(t)
  BY <1>1
<1> QED  BY <1>1, <1>2 DEF Last

LEMMA SameOpenProto ==
  ASSUME Inv, SameBlocks, src.cut = "no"
  PROVE  OpenProto(out'.objects) = OpenProto(out.objects)
<1>1. out.objects \in Seq(Range(out.objects))
  BY DEF Inv, Records
<1>2. out'.objects \in Seq(Range(out'.objects)) /\ DOMAIN out'.objects = DOMAIN out.objects
  BY DEF SameBlocks
<1> DEFINE s == out.objects
           t == out'.objects
<1>3. Len(s) = Len(t) /\ (s = <<>> <=> t = <<>>)
      /\ (s # <<>> => Len(s) \in DOMAIN s /\ Last(s) = s[Len(s)] /\ Last(t) = t[Len(s)])
  <2> HIDE DEF s, t
  <2>1. s \in Seq(Range(s)) /\ t \in Seq(Range(t)) /\ DOMAIN s = DOMAIN t
    BY <1>1, <1>2 DEF s, t
  <2> QED  BY <2>1, SameLength
<1>4. CASE s = <<>>
  BY <1>3, <1>4 DEF OpenProto
<1>5. CASE s # <<>>
  <2>1. Last(t).type = Last(s).type /\ Last(t).proto = Last(s).proto
    BY <1>3, <1>5 DEF SameBlocks
  <2> QED  BY <1>3, <1>5, <2>1 DEF OpenProto
<1> QED  BY <1>4, <1>5

LEMMA StatementInv ==
  ASSUME Inv, NEW a \in Summary, NEW c \in Summary, Describes(a), Leads(c, todo'),
         c.blocks = a.blocks, c.closing = a.closing, KeepsSource, KeepsBlocks, TextType',
         ReadsAs(c)', HoldsAs(c)', ExpressionOwnsLookups', status' = status,
         src.cut = "no" => KeysFollow' /\ FlatKeysFollow'
  PROVE  Inv'
<1>1. Records /\ OpenAs(a) /\ KeysArePath /\ Protos /\ NoErrorYet
  BY DEF Inv, Describes
<1>2. src.cut = "no" => Len(out'.objects) = Len(out.objects)
  <2>1. src.cut = "no" => /\ out.objects \in Seq(Range(out.objects))
                          /\ out'.objects \in Seq(Range(out'.objects))
                          /\ DOMAIN out'.objects = DOMAIN out.objects
    BY <1>1 DEF Records, KeepsBlocks, SameBlocks
  <2> QED  BY <2>1
<1>3. Records'
  <2>1. DOMAIN out' = DOMAIN NewActionData /\ DOMAIN src' = DOMAIN NewSource /\ src'.scope \in Seq(Key)
        /\ DOMAIN out'.obj_res = DOMAIN NullPtr
    BY <1>1 DEF Records, KeepsSource, KeepsBlocks
  <2>2. src'.cut = "no" =>
          /\ out'.objects \in Seq(Range(out'.objects))
          /\ \A i \in DOMAIN out'.objects :
               DOMAIN out'.objects[i] = {"type", "name", "depth", "proto", "data", "ref_vars"}
    BY <1>1 DEF Records, KeepsSource, KeepsBlocks, SameBlocks
  <2>3. DOMAIN text' = DOMAIN NewText
        /\ text'.key \in Seq(Key) /\ text'.flat \in Seq(Key) /\ text'.lookup \in Seq(Key \cup Var)
    BY DEF TextType
  <2> QED  BY <2>1, <2>2, <2>3 DEF Records
<1>4. OpenAs(c)'
  BY <1>1, <1>2 DEF OpenAs, KeepsSource, KeepsBlocks, SameBlocks
<1>5. Described'
  <2>1. Describes(c)'
    BY <1>4 DEF Describes
  <2> QED  BY <2>1 DEF Described
<1>6. KeysArePath'
  <2>1. ASSUME src'.cut = "no" PROVE src.cut = "no" /\ src'.scope = src.scope
    BY <2>1 DEF KeepsSource
  <2>2. ASSUME src'.cut = "no"
        PROVE  [i \in DOMAIN out'.objects |-> out'.objects[i].name] = src'.scope
    BY <1>1, <2>1, <2>2 DEF KeysArePath, KeepsBlocks, SameBlocks
  <2>3. ASSUME src'.cut = "no"
        PROVE  \A i \in DOMAIN out'.objects :
                 out'.objects[i].type = "kReference" => i = Len(out'.objects)
    BY <1>1, <1>2, <2>1, <2>3 DEF KeysArePath, KeepsBlocks, SameBlocks
  <2> QED  BY <2>1, <2>2, <2>3 DEF KeysArePath, KeysFollow, FlatKeysFollow
<1>7. Protos'
  <2>1. ASSUME src'.cut = "no" PROVE src.cut = "no" /\ src'.scope = src.scope
    BY <2>1 DEF KeepsSource
  <2>2. ASSUME src'.cut = "no"
        PROVE  {i \in DOMAIN out'.objects : out'.objects[i].type = "kProto"}
               = {i \in DOMAIN out.objects : out.objects[i].type = "kProto"}
    BY <2>1, <2>2 DEF KeepsBlocks, SameBlocks
  <2>3. out'.in_proto = out.in_proto /\ out'.proto_key = out.proto_key
    BY DEF KeepsBlocks
  <2>4. ASSUME src'.cut = "no"
        PROVE  DOMAIN out'.objects = DOMAIN out.objects
               /\ \A i \in DOMAIN out.objects : out'.objects[i].type = out.objects[i].type
    BY <2>1, <2>4 DEF KeepsBlocks, SameBlocks
  <2> QED  BY <1>1, <2>1, <2>2, <2>3, <2>4 DEF Protos
<1>8. NoErrorYet'
  BY <1>1 DEF NoErrorYet, KeepsSource
<1> QED  BY <1>3, <1>5, <1>6, <1>7, <1>8 DEF Inv

(* Steps that leave the blocks alone altogether.                           *)
LEMMA BlocksAlone ==
  ASSUME Inv, DOMAIN out' = DOMAIN out, DOMAIN out'.obj_res = DOMAIN NullPtr,
         out'.objects = out.objects, out'.depth = out.depth, out'.in_proto = out.in_proto,
         out'.proto_key = out.proto_key
  PROVE  KeepsBlocks
<1>1. SameBlocks
  BY DEF SameBlocks, Inv, Records
<1> QED  BY <1>1 DEF KeepsBlocks

LEMMA SourceAlone == src' = src => KeepsSource
BY DEF KeepsSource

LEMMA TextIs == ASSUME Inv PROVE TextType
BY DEF Inv, Records, TextType

LEMMA PathIs == ASSUME Inv, src.cut = "no" PROVE KeysFollow /\ FlatKeysFollow
BY DEF Inv, KeysArePath, KeysFollow, FlatKeysFollow

(* Nothing that obj_res holds changes.                                     *)
LEMMA SameValue ==
  ASSUME Inv, NEW a, NEW c, HoldsAs(a), c.value = a.value, c.expression = a.expression,
         out'.obj_res = out.obj_res, out'.value_lookups = out.value_lookups,
         src'.lookups = src.lookups, src'.cut = src.cut
  PROVE  HoldsAs(c)' /\ ExpressionOwnsLookups'
<1>1. HoldsAs(c)'
  BY DEF HoldsAs
<1>2. ExpressionOwnsLookups'
  BY DEF Inv, ExpressionOwnsLookups
<1> QED  BY <1>1, <1>2

LEMMA StatementMovesOnly ==
  ASSUME NEW a, NEW x, NEW c, Moves(a, x, c),
         x \in {"KEY", "/FLAT_KEY", "OVERRIDEk", "/PAIR", "/FULLPAIR", "/PROTO_PAIR",
                "/REF_ADDKVP", "/REF_VARDEF"}
  PROVE  StatementMoves(a, x, c)
BY DEF Moves, ValueMoves, ReadMoves, BlockMoves

LEMMA KEYMoves ==
  ASSUME NEW a, NEW c, Moves(a, "KEY", c)
  PROVE  /\ a.value = "none" /\ c.value = "none" /\ ~a.lookup /\ ~c.lookup /\ c.blocks = a.blocks
         /\ c.flat = a.flat /\ c.expression = a.expression /\ c.closing = a.closing
         /\ (a.key = "none" /\ c.key \in {"one", "some"}) \/ (a.key = "some" /\ c.key = "some")
<1>1. StatementMoves(a, "KEY", c)
  BY StatementMovesOnly
<1> DEFINE b == a.blocks
<1>3. CASE a = Within(b, "some", FALSE, "none") /\ c = a
  BY <1>3 DEF Within
<1>4. CASE \E flat \in BOOLEAN : a = Within(b, "none", flat, "none")
             /\ \E key \in {"one", "some"} : c = Within(b, key, flat, "none")
  <2>1. PICK flat \in BOOLEAN : a = Within(b, "none", flat, "none")
             /\ \E key \in {"one", "some"} : c = Within(b, key, flat, "none")
    BY <1>4
  <2>2. PICK key \in {"one", "some"} : c = Within(b, key, flat, "none")
    BY <2>1
  <2>3. /\ a.value = "none" /\ a.lookup = FALSE /\ a.flat = flat /\ a.expression = FALSE
        /\ a.closing = FALSE /\ a.key = "none"
    BY <2>1 DEF Within
  <2>4. /\ c.value = "none" /\ c.lookup = FALSE /\ c.flat = flat /\ c.expression = FALSE
        /\ c.closing = FALSE /\ c.key = key /\ c.blocks = b
    BY <2>2 DEF Within
  <2> QED  BY <2>3, <2>4
<1>5. "KEY" \notin Content(b)
  BY DEF Content
<1> QED  BY <1>1, <1>3, <1>4, <1>5 DEF StatementMoves

LEMMA KEYInv == ASSUME Inv, KEY PROVE Inv'
<1>1. /\ todo # <<>> /\ Head(todo) = "KEY" /\ todo' = Tail(todo) /\ src' = src
      /\ status' = status
  BY DEF KEY, Match, Token, Matched
<1>2. PICK k \in Key : /\ out' = [out EXCEPT !.keys = Append(@, k), !.is_override = FALSE]
                       /\ text' = [text EXCEPT !.key = Append(@, k)]
  BY DEF KEY, PushKey
<1>3. PICK a, c : /\ Describes(a) /\ Moves(a, "KEY", c) /\ Leads(c, todo')
                  /\ a \in Summary /\ c \in Summary
  BY <1>1, NextSymbol
<1>4. /\ a.value = "none" /\ c.value = a.value /\ ~a.lookup /\ ~c.lookup /\ c.blocks = a.blocks
      /\ c.flat = a.flat /\ c.expression = a.expression /\ c.closing = a.closing
      /\ (a.key = "none" /\ c.key \in {"one", "some"}) \/ (a.key = "some" /\ c.key = "some")
  BY <1>3, KEYMoves
<1>5. /\ DOMAIN out' = DOMAIN out /\ out'.obj_res = out.obj_res /\ out'.objects = out.objects
      /\ out'.depth = out.depth /\ out'.in_proto = out.in_proto /\ out'.proto_key = out.proto_key
      /\ out'.value_lookups = out.value_lookups /\ out'.flat_keys = out.flat_keys
      /\ out'.keys = Append(out.keys, k)
  BY <1>2, OutFields
<1>6. DOMAIN text' = DOMAIN text /\ text'.key = Append(text.key, k) /\ text'.flat = text.flat
      /\ text'.lookup = text.lookup
  BY <1>2, OutFields
<1>7. ReadsAs(a) /\ HoldsAs(a) /\ TextType
  BY <1>3, TextIs DEF Describes
<1>8. KeepsBlocks /\ KeepsSource
  <2>1. DOMAIN out'.obj_res = DOMAIN NullPtr
    BY <1>5, OutFields, NullPtrIs
  <2> QED  BY <1>1, <1>5, <2>1, BlocksAlone, SourceAlone
<1>9. TextType'
  BY <1>6, <1>7 DEF TextType
<1>10. ReadsAs(c)'
  <2>1. text.key \in Seq(Key) /\ Len(Append(text.key, k)) = Len(text.key) + 1 /\ Len(text.key) \in Nat
    BY <1>7 DEF TextType
  <2>2. text.key = <<>> => Len(text'.key) = 1
    BY <1>6
  <2>3. Len(text'.key) >= 1
    BY <1>6, <2>1
  <2> QED  BY <1>1, <1>4, <1>6, <1>7, <2>2, <2>3 DEF ReadsAs
<1>11. HoldsAs(c)' /\ ExpressionOwnsLookups'
  BY <1>1, <1>4, <1>5, <1>7, SameValue
<1>12. ASSUME src.cut = "no" PROVE KeysFollow' /\ FlatKeysFollow'
  <2>1. KeysFollow /\ FlatKeysFollow
    BY <1>12, PathIs
  <2>2. FlatKeysFollow'
    BY <1>5, <1>6, <2>1 DEF FlatKeysFollow
  <2>3. text.lookup = <<>>
    BY <1>4, <1>7 DEF ReadsAs
  <2> DEFINE path == src.scope
             key == text.key
  <2>4. path \in Seq(Key) /\ key \in Seq(Key)
    BY <1>7 DEF Inv, Records, TextType
  <2>5. out.keys = path \o key \o <<>>
    BY <2>1, <2>3, KeysOfEmpty DEF KeysFollow
  <2>6. out'.keys = path \o Append(key, k) \o <<>>
    <3> HIDE DEF path, key
    <3>1. path \o key \in Seq(Key) /\ path \o Append(key, k) \in Seq(Key)
          /\ path \o Append(key, k) = Append(path \o key, k)
      BY <2>4
    <3>2. path \o key \o <<>> = path \o key
          /\ path \o Append(key, k) \o <<>> = path \o Append(key, k)
      BY <3>1
    <3> QED  BY <1>5, <2>5, <3>1, <3>2
  <2>7. KeysFollow'
    BY <1>1, <1>6, <2>3, <2>6, KeysOfEmpty DEF KeysFollow
  <2> QED  BY <2>2, <2>7
<1> QED  BY <1>1, <1>3, <1>4, <1>8, <1>9, <1>10, <1>11, <1>12, StatementInv

LEMMA OVERRIDEkInv == ASSUME Inv, OVERRIDEk PROVE Inv'
<1>1. /\ todo # <<>> /\ Head(todo) = "OVERRIDEk" /\ todo' = Tail(todo) /\ src' = src
      /\ status' = status /\ out' = [out EXCEPT !.is_override = TRUE]
      /\ text' = [text EXCEPT !.over = TRUE]
  BY DEF OVERRIDEk, Match, NoToken, Matched
<1>2. PICK a, c : /\ Describes(a) /\ Moves(a, "OVERRIDEk", c) /\ Leads(c, todo')
                  /\ a \in Summary /\ c \in Summary
  BY <1>1, NextSymbol
<1>3. c = a
  <2>1. StatementMoves(a, "OVERRIDEk", c)
    BY <1>2, StatementMovesOnly
  <2> QED  BY <2>1 DEF StatementMoves, Content
<1>4. /\ DOMAIN out' = DOMAIN out /\ out'.obj_res = out.obj_res /\ out'.objects = out.objects
      /\ out'.depth = out.depth /\ out'.in_proto = out.in_proto /\ out'.proto_key = out.proto_key
      /\ out'.value_lookups = out.value_lookups /\ out'.flat_keys = out.flat_keys
      /\ out'.keys = out.keys
  BY <1>1, OutFields
<1>5. DOMAIN text' = DOMAIN text /\ text'.key = text.key /\ text'.flat = text.flat
      /\ text'.lookup = text.lookup
  BY <1>1, OutFields
<1>6. ReadsAs(a) /\ HoldsAs(a) /\ TextType
  BY <1>2, TextIs DEF Describes
<1>7. KeepsBlocks /\ KeepsSource
  <2>1. DOMAIN out'.obj_res = DOMAIN NullPtr
    BY <1>4, OutFields, NullPtrIs
  <2> QED  BY <1>1, <1>4, <2>1, BlocksAlone, SourceAlone
<1>8. TextType' /\ ReadsAs(c)'
  BY <1>1, <1>3, <1>5, <1>6 DEF TextType, ReadsAs
<1>9. HoldsAs(c)' /\ ExpressionOwnsLookups'
  BY <1>1, <1>3, <1>4, <1>6, SameValue
<1>10. ASSUME src.cut = "no" PROVE KeysFollow' /\ FlatKeysFollow'
  <2>1. KeysFollow /\ FlatKeysFollow
    BY <1>10, PathIs
  <2> QED  BY <1>1, <1>4, <1>5, <2>1 DEF KeysFollow, FlatKeysFollow
<1> QED  BY <1>1, <1>2, <1>3, <1>7, <1>8, <1>9, <1>10, StatementInv

LEMMA AppendToOne ==
  ASSUME NEW s, NEW e, s = <<>> \/ \E p : s = <<p>>
  PROVE  Append(s, e) = s \o <<e>>
<1>1. CASE s = <<>>
  <2>1. <<e>> \in Seq({e})
    OBVIOUS
  <2> QED  BY <1>1, <2>1
<1>2. ASSUME NEW p, s = <<p>> PROVE Append(s, e) = s \o <<e>>
  <2>1. s \in Seq({p, e})
    BY <1>2
  <2> QED  BY <2>1
<1> QED  BY <1>1, <1>2

LEMMA FLAT_KEYInv == ASSUME Inv, FLAT_KEY PROVE Inv'
<1>1. /\ todo # <<>> /\ Head(todo) = "/FLAT_KEY" /\ todo' = Tail(todo) /\ src' = src
      /\ status' = status /\ text' = [text EXCEPT !.flat = text.key, !.key = <<>>]
      /\ out' = IF Len(out.keys) < Len(text.key) THEN out
                ELSE [out EXCEPT !.keys = SubSeq(@, 1, Len(@) - Len(text.key)),
                                 !.flat_keys = Append(@, text.key)]
  BY DEF FLAT_KEY, Match, NoToken, Matched
<1>2. PICK a, c : /\ Describes(a) /\ Moves(a, "/FLAT_KEY", c) /\ Leads(c, todo')
                  /\ a \in Summary /\ c \in Summary
  BY <1>1, NextSymbol
<1>3. /\ a.value = "none" /\ c.value = a.value /\ ~a.lookup /\ ~c.lookup /\ c.blocks = a.blocks
      /\ ~a.flat /\ c.flat /\ c.expression = a.expression /\ c.closing = a.closing
      /\ a.key = "some" /\ c.key = "none"
  <2>1. StatementMoves(a, "/FLAT_KEY", c)
    BY <1>2, StatementMovesOnly
  <2>2. a = Within(a.blocks, "some", FALSE, "none") /\ c = Within(a.blocks, "none", TRUE, "none")
    BY <2>1 DEF StatementMoves, Content
  <2>3. /\ a.value = "none" /\ a.lookup = FALSE /\ a.flat = FALSE /\ a.expression = FALSE
        /\ a.closing = FALSE /\ a.key = "some"
    BY <2>2 DEF Within
  <2>4. /\ c.value = "none" /\ c.lookup = FALSE /\ c.flat = TRUE /\ c.expression = FALSE
        /\ c.closing = FALSE /\ c.key = "none" /\ c.blocks = a.blocks
    BY <2>2 DEF Within
  <2> QED  BY <2>3, <2>4
<1>4. /\ DOMAIN out' = DOMAIN out /\ out'.obj_res = out.obj_res /\ out'.objects = out.objects
      /\ out'.depth = out.depth /\ out'.in_proto = out.in_proto /\ out'.proto_key = out.proto_key
      /\ out'.value_lookups = out.value_lookups
      /\ ~(Len(out.keys) < Len(text.key)) =>
           /\ out'.keys = SubSeq(out.keys, 1, Len(out.keys) - Len(text.key))
           /\ out'.flat_keys = Append(out.flat_keys, text.key)
  BY <1>1, OutFields
<1>5. DOMAIN text' = DOMAIN text /\ text'.key = <<>> /\ text'.flat = text.key
      /\ text'.lookup = text.lookup
  BY <1>1, OutFields
<1>6. ReadsAs(a) /\ HoldsAs(a) /\ TextType
  BY <1>2, TextIs DEF Describes
<1>7. KeepsBlocks /\ KeepsSource
  <2>1. DOMAIN out'.obj_res = DOMAIN NullPtr
    BY <1>4, OutFields, NullPtrIs
  <2> QED  BY <1>1, <1>4, <2>1, BlocksAlone, SourceAlone
<1>8. text.lookup = <<>> /\ text.flat = <<>> /\ text.key # <<>> /\ text.key \in Seq(Key)
  BY <1>3, <1>6 DEF ReadsAs, TextType
<1>9. TextType'
  BY <1>5, <1>6 DEF TextType
<1>10. ReadsAs(c)'
  BY <1>1, <1>3, <1>5, <1>6, <1>8 DEF ReadsAs
<1>11. HoldsAs(c)' /\ ExpressionOwnsLookups'
  BY <1>1, <1>3, <1>4, <1>6, SameValue
<1>12. ASSUME src.cut = "no" PROVE KeysFollow' /\ FlatKeysFollow'
  <2>1. KeysFollow /\ FlatKeysFollow
    BY <1>12, PathIs
  <2> DEFINE path == src.scope
             key == text.key
             proto == OpenProto(out.objects)
  <2>2. path \in Seq(Key) /\ key \in Seq(Key)
    BY <1>6 DEF Inv, Records, TextType
  <2>3. out.keys = path \o key \o <<>>
    BY <1>8, <2>1, KeysOfEmpty DEF KeysFollow
  <2>4. Len(out.keys) = Len(path) + Len(key) /\ SubSeq(out.keys, 1, Len(path)) = path
    <3> HIDE DEF path, key
    <3>1. path \o key \o <<>> = path \o key /\ Len(path \o key) = Len(path) + Len(key)
          /\ SubSeq(path \o key, 1, Len(path)) = path
      BY <2>2
    <3> QED  BY <2>3, <3>1
  <2>5. ~(Len(out.keys) < Len(key)) /\ Len(out.keys) - Len(key) = Len(path)
    <3> HIDE DEF path, key
    <3>1. Len(path) \in Nat /\ Len(key) \in Nat
      BY <2>2
    <3> QED  BY <2>4, <3>1
  <2>6. out'.keys = path
    BY <1>4, <2>4, <2>5
  <2>7. path \o <<>> \o <<>> = path
    <3> HIDE DEF path
    <3> QED  BY <2>2
  <2>8. KeysFollow'
    BY <1>1, <1>5, <1>8, <2>6, <2>7, KeysOfEmpty DEF KeysFollow
  <2>9. proto = <<>> \/ \E p : proto = <<p>>
    BY DEF OpenProto
  <2>10. out.flat_keys = proto
    <3>1. proto \o <<>> = proto
      BY <2>9
    <3> QED  BY <1>8, <2>1, <3>1 DEF FlatKeysFollow
  <2>11. out'.flat_keys = proto \o <<key>>
    <3>1. out'.flat_keys = Append(proto, key)
      BY <1>4, <2>5, <2>10
    <3> HIDE DEF proto, key
    <3> QED  BY <2>9, <3>1, AppendToOne
  <2>12. FlatKeysFollow'
    BY <1>4, <1>5, <1>8, <2>11 DEF FlatKeysFollow
  <2> QED  BY <2>8, <2>12
<1> QED  BY <1>1, <1>2, <1>3, <1>7, <1>9, <1>10, <1>11, <1>12, StatementInv

LEMMA PARTInv == ASSUME Inv, PART PROVE Inv'
<1>1. /\ todo # <<>> /\ Head(todo) = "PART" /\ todo' = Tail(todo) /\ src' = src
      /\ status' = status
  BY DEF PART, Match, Token, Matched
<1>2. PICK a, c : /\ Describes(a) /\ Moves(a, "PART", c) /\ Leads(c, todo')
                  /\ a \in Summary /\ c \in Summary
  BY <1>1, NextSymbol
<1>3. c = With(a, TRUE, "any", a.expression) /\ a.value # "some"
  <2>1. ValueMoves(a, "PART", c)
    BY <1>2, ValueMovesOnly
  <2> QED  BY <2>1 DEF ValueMoves, ReadMoves
<1>4. /\ c.value = "any" /\ c.lookup = TRUE /\ c.blocks = a.blocks /\ c.flat = a.flat
      /\ c.key = a.key /\ c.expression = a.expression /\ c.closing = a.closing
  BY <1>3 DEF With
<1>5. ReadsAs(a) /\ HoldsAs(a) /\ TextType
  BY <1>2, TextIs DEF Describes
<1>6. PICK part \in Key \cup Var :
        /\ text' = [text EXCEPT !.lookup = Append(@, part)]
        /\ (part \in Key /\ out' = [out EXCEPT !.keys = Append(@, part), !.is_override = FALSE])
           \/ (part \in Var
               /\ out' = [out EXCEPT !.result = part, !.obj_res = Value("kVar", tokens, <<part>>)])
  BY DEF PART, PushKey, ReadVar
<1>7. DOMAIN text' = DOMAIN text /\ text'.key = text.key /\ text'.flat = text.flat
      /\ text'.lookup = Append(text.lookup, part)
  BY <1>6, OutFields
<1>8. /\ DOMAIN out' = DOMAIN out /\ out'.objects = out.objects
      /\ out'.depth = out.depth /\ out'.in_proto = out.in_proto /\ out'.proto_key = out.proto_key
      /\ out'.value_lookups = out.value_lookups /\ out'.flat_keys = out.flat_keys
      /\ (part \in Key /\ out'.keys = Append(out.keys, part) /\ out'.obj_res = out.obj_res)
         \/ (part \in Var /\ out'.keys = out.keys /\ out'.obj_res = Value("kVar", tokens, <<part>>))
  <2>1. CASE part \in Key /\ out' = [out EXCEPT !.keys = Append(@, part), !.is_override = FALSE]
    BY <2>1, OutFields
  <2>2. CASE part \in Var
               /\ out' = [out EXCEPT !.result = part, !.obj_res = Value("kVar", tokens, <<part>>)]
    BY <2>2, OutFields
  <2> QED  BY <1>6, <2>1, <2>2
<1>9. DOMAIN out'.obj_res = DOMAIN NullPtr /\ out'.obj_res.type # "kExpression"
  <2>1. out.obj_res.type # "kExpression" /\ DOMAIN out.obj_res = DOMAIN NullPtr
    BY <1>3, <1>5, OutFields, NullPtrIs DEF HoldsAs
  <2>2. DOMAIN Value("kVar", tokens, <<part>>) = DOMAIN NullPtr
        /\ Value("kVar", tokens, <<part>>).type = "kVar"
    BY ValueIs
  <2> QED  BY <1>8, <2>1, <2>2
<1>10. KeepsBlocks /\ KeepsSource
  BY <1>1, <1>8, <1>9, BlocksAlone, SourceAlone
<1>11. TextType'
  BY <1>5, <1>7 DEF TextType
<1>12. ReadsAs(c)'
  BY <1>1, <1>4, <1>5, <1>7 DEF ReadsAs
<1>13. HoldsAs(c)' /\ ExpressionOwnsLookups'
  BY <1>1, <1>4, <1>5, <1>8, <1>9 DEF HoldsAs, ExpressionOwnsLookups
<1>14. ASSUME src.cut = "no" PROVE KeysFollow' /\ FlatKeysFollow'
  <2>1. KeysFollow /\ FlatKeysFollow
    BY <1>14, PathIs
  <2>2. FlatKeysFollow'
    BY <1>7, <1>8, <2>1 DEF FlatKeysFollow
  <2> DEFINE path == src.scope
             key == text.key
             ks == KeysOf(text.lookup)
  <2>3. path \in Seq(Key) /\ key \in Seq(Key) /\ text.lookup \in Seq(Key \cup Var)
    BY <1>5 DEF Inv, Records, TextType
  <2>4. ks \in Seq(Key) /\ KeysOf(text'.lookup) = Take(ks, part)
    BY <1>7, <2>3, KeysOfType, KeysOfAppend
  <2>5. out.keys = path \o key \o ks
    BY <2>1 DEF KeysFollow
  <2>6. out'.keys = path \o key \o Take(ks, part)
    <3> HIDE DEF path, key, ks
    <3>1. CASE part \in Key
      <4>1. out'.keys = Append(path \o key \o ks, part)
        BY <1>8, <2>5, <3>1, NamesAssumption
      <4>2. Append(path \o key \o ks, part) = path \o key \o Append(ks, part)
        <5> DEFINE base == path \o key
        <5>1. base \in Seq(Key)
          BY <2>3
        <5> HIDE DEF base
        <5>2. Append(base \o ks, part) = base \o Append(ks, part)
          BY <2>4, <3>1, <5>1
        <5> QED  BY <5>2 DEF base
      <4> QED  BY <3>1, <4>1, <4>2 DEF Take
    <3>2. CASE part \notin Key
      BY <1>8, <2>5, <3>2 DEF Take
    <3> QED  BY <3>1, <3>2
  <2>7. KeysFollow'
    BY <1>1, <1>7, <2>4, <2>6 DEF KeysFollow
  <2> QED  BY <2>2, <2>7
<1> QED  BY <1>1, <1>2, <1>4, <1>10, <1>11, <1>12, <1>13, <1>14, StatementInv

LEMMA VALUE_LOOKUPInv == ASSUME Inv, VALUE_LOOKUP PROVE Inv'
<1>1. /\ todo # <<>> /\ Head(todo) = "/VALUE_LOOKUP" /\ todo' = Tail(todo)
      /\ status' = status /\ text' = [text EXCEPT !.lookup = <<>>]
      /\ src' = [src EXCEPT !.lookups = @ \cup {text.lookup}]
      /\ out' = [out EXCEPT !.keys = WithoutLookup(@, text.lookup),
                            !.obj_res = Value("kValueLookup", tokens, text.lookup),
                            !.value_lookups = @ \cup {text.lookup}]
  BY DEF VALUE_LOOKUP, Match, NoToken, Matched
<1>2. PICK a, c : /\ Describes(a) /\ Moves(a, "/VALUE_LOOKUP", c) /\ Leads(c, todo')
                  /\ a \in Summary /\ c \in Summary
  BY <1>1, NextSymbol
<1>3. PICK v \in {"any", "some"} : c = With(a, FALSE, v, a.expression)
  <2>1. ValueMoves(a, "/VALUE_LOOKUP", c)
    BY <1>2, ValueMovesOnly
  <2> QED  BY <2>1 DEF ValueMoves, ReadMoves
<1>4. /\ c.value = v /\ c.lookup = FALSE /\ c.blocks = a.blocks /\ c.flat = a.flat
      /\ c.key = a.key /\ c.expression = a.expression /\ c.closing = a.closing
  BY <1>3 DEF With
<1>5. ReadsAs(a) /\ HoldsAs(a) /\ TextType
  BY <1>2, TextIs DEF Describes
<1>6. DOMAIN text' = DOMAIN text /\ text'.key = text.key /\ text'.flat = text.flat
      /\ text'.lookup = <<>>
  BY <1>1, OutFields
<1>7. KeepsSource /\ src'.lookups = src.lookups \cup {text.lookup}
  BY <1>1, OutFields DEF KeepsSource
<1>8. /\ DOMAIN out' = DOMAIN out /\ out'.objects = out.objects
      /\ out'.depth = out.depth /\ out'.in_proto = out.in_proto /\ out'.proto_key = out.proto_key
      /\ out'.value_lookups = out.value_lookups \cup {text.lookup}
      /\ out'.flat_keys = out.flat_keys /\ out'.keys = WithoutLookup(out.keys, text.lookup)
      /\ out'.obj_res = Value("kValueLookup", tokens, text.lookup)
  BY <1>1, OutFields
<1>9. DOMAIN out'.obj_res = DOMAIN NullPtr /\ out'.obj_res.type = "kValueLookup"
  BY <1>8, ValueIs
<1>10. KeepsBlocks
  BY <1>8, <1>9, BlocksAlone
<1>11. TextType'
  BY <1>5, <1>6 DEF TextType
<1>12. ReadsAs(c)'
  BY <1>4, <1>5, <1>6, <1>7 DEF ReadsAs, KeepsSource
<1>13. HoldsAs(c)' /\ ExpressionOwnsLookups'
  BY <1>4, <1>5, <1>7, <1>8, <1>9 DEF HoldsAs, ExpressionOwnsLookups
<1>14. ASSUME src.cut = "no" PROVE KeysFollow' /\ FlatKeysFollow'
  <2>1. KeysFollow /\ FlatKeysFollow
    BY <1>14, PathIs
  <2>2. FlatKeysFollow'
    BY <1>6, <1>8, <2>1 DEF FlatKeysFollow
  <2> DEFINE base == src.scope \o text.key
  <2>3. base \in Seq(Key) /\ text.lookup \in Seq(Key \cup Var)
    BY <1>5 DEF Inv, Records, TextType
  <2>4. out.keys = base \o KeysOf(text.lookup)
    BY <2>1 DEF KeysFollow
  <2>5. out'.keys = base
    <3> HIDE DEF base
    <3> QED  BY <1>8, <2>3, <2>4, WithoutLookupIs
  <2>6. base \o <<>> = base
    <3> HIDE DEF base
    <3> QED  BY <2>3
  <2>7. KeysFollow'
    BY <1>6, <1>7, <2>5, <2>6, KeysOfEmpty DEF KeysFollow, KeepsSource
  <2> QED  BY <2>2, <2>7
<1> QED  BY <1>1, <1>2, <1>4, <1>7, <1>10, <1>11, <1>12, <1>13, <1>14, StatementInv

-----------------------------------------------------------------------------
(* Statements: a value is bound, and the keys and the value given back.    *)

ObjectsType(objects) ==
  /\ objects \in Seq(Range(objects))
  /\ \A i \in DOMAIN objects :
       DOMAIN objects[i] = {"type", "name", "depth", "proto", "data", "ref_vars"}
(* The blocks of t are those of s, whatever they hold.                     *)
Alike(s, t) ==
  /\ DOMAIN t = DOMAIN s /\ ObjectsType(t)
  /\ \A i \in DOMAIN s : /\ t[i].type = s[i].type /\ t[i].name = s[i].name
                         /\ t[i].depth = s[i].depth /\ t[i].proto = s[i].proto
OutNames == {"depth", "result", "keys", "flat_keys", "in_proto", "proto_key", "value_lookups",
             "cfg_res", "obj_res", "lists", "objects", "is_override", "override_values"}

LEMMA ObjectsIs == ASSUME Inv, src.cut = "no" PROVE ObjectsType(out.objects)
BY DEF Inv, Records, ObjectsType

LEMMA AlikeIsSame ==
  ASSUME Inv, src.cut = "no" => Alike(out.objects, out'.objects)
  PROVE  SameBlocks
<1>1. ASSUME src.cut = "no" PROVE ObjectsType(out.objects) /\ Alike(out.objects, out'.objects)
  BY <1>1, ObjectsIs
<1> QED  BY <1>1 DEF SameBlocks, Alike, ObjectsType

(* A field of the last block is assigned to.                               *)
LEMMA AssignLast ==
  ASSUME NEW s, ObjectsType(s), s # <<>>, NEW t, NEW f \in {"data", "ref_vars"},
         t = [i \in DOMAIN s |-> t[i]], \A i \in DOMAIN s : i # Len(s) => t[i] = s[i],
         DOMAIN t[Len(s)] = DOMAIN s[Len(s)],
         \A x \in DOMAIN s[Len(s)] : x # f => t[Len(s)][x] = s[Len(s)][x]
  PROVE  Alike(s, t)
<1>1. s \in Seq(Range(s)) /\ Len(s) \in Nat \ {0} /\ DOMAIN s = 1 .. Len(s)
  BY DEF ObjectsType
<1>2. DOMAIN t = DOMAIN s
  OBVIOUS
<1>3. ASSUME NEW i \in DOMAIN s
      PROVE  /\ DOMAIN t[i] = DOMAIN s[i]
             /\ t[i].type = s[i].type /\ t[i].name = s[i].name
             /\ t[i].depth = s[i].depth /\ t[i].proto = s[i].proto
  <2>1. CASE i # Len(s)
    BY <2>1
  <2>2. CASE i = Len(s)
    BY <1>1, <2>2 DEF ObjectsType
  <2> QED  BY <2>1, <2>2
<1>4. t \in Seq(Range(t))
  <2> DEFINE n == Len(s)
             R == Range(t)
  <2>1. n \in Nat /\ t = [i \in 1 .. n |-> t[i]] /\ \A i \in 1 .. n : t[i] \in R
    BY <1>1, <1>2 DEF Range
  <2> HIDE DEF n, R
  <2>2. t \in Seq(R)
    BY <2>1
  <2> QED  BY <2>2 DEF R
<1>5. ObjectsType(t)
  BY <1>2, <1>3, <1>4 DEF ObjectsType
<1> QED  BY <1>2, <1>3, <1>5 DEF Alike

LEMMA AlikeItself == ASSUME NEW s, ObjectsType(s) PROVE Alike(s, s)
BY DEF Alike

LEMMA BindDataKeeps ==
  ASSUME NEW o, DOMAIN o = OutNames, NEW k, NEW v
  PROVE  /\ DOMAIN BindData(o, k, v) = OutNames
         /\ \A x \in OutNames \ {"objects", "cfg_res"} : BindData(o, k, v)[x] = o[x]
         /\ ObjectsType(o.objects) => Alike(o.objects, BindData(o, k, v).objects)
<1> DEFINE s == o.objects
           n == Len(o.objects)
           map == Bind(o.cfg_res[Len(o.cfg_res)], k, v)
           held == Bind(o.objects[n].data, k, v)
           p == BindData(o, k, v)
<1>1. CASE o.objects = <<>>
  <2>1. p = [o EXCEPT !.cfg_res[Len(o.cfg_res)] = map]
    BY <1>1 DEF BindData
  <2> HIDE DEF map, p
  <2>2. DOMAIN p = DOMAIN o /\ \A x \in DOMAIN o : x # "cfg_res" => p[x] = o[x]
    BY <2>1
  <2>3. p.objects = o.objects
    BY <2>2 DEF OutNames
  <2>4. ObjectsType(o.objects) => Alike(o.objects, p.objects)
    BY <2>3, AlikeItself
  <2>5. \A x \in OutNames \ {"objects", "cfg_res"} : p[x] = o[x]
    BY <2>2
  <2> QED  BY <2>2, <2>4, <2>5 DEF p
<1>2. CASE o.objects # <<>>
  <2> DEFINE t == [s EXCEPT ![n] = [@ EXCEPT !["data"] = held]]
  <2>1. p = [o EXCEPT !.objects[n].data = held]
    BY <1>2 DEF BindData
  <2>2. p = [o EXCEPT !.objects = t]
    BY <2>1
  <2> HIDE DEF t, p
  <2>3. DOMAIN p = DOMAIN o /\ p.objects = t /\ \A x \in DOMAIN o : x # "objects" => p[x] = o[x]
    BY <2>2 DEF OutNames
  <2>4. ASSUME ObjectsType(s) PROVE Alike(s, t)
    <3> HIDE DEF s, held
    <3>1. s # <<>> /\ n = Len(s) /\ n \in DOMAIN s
      <4>1. s # <<>> /\ n = Len(s)
        BY <1>2 DEF s
      <4> QED  BY <2>4, <4>1 DEF ObjectsType
    <3>2. t = [i \in DOMAIN s |-> t[i]] /\ \A i \in DOMAIN s : i # n => t[i] = s[i]
      BY DEF t
    <3>3. t[n] = [s[n] EXCEPT !["data"] = held]
      BY <3>1 DEF t
    <3>4. DOMAIN t[n] = DOMAIN s[n] /\ \A x \in DOMAIN s[n] : x # "data" => t[n][x] = s[n][x]
      BY <3>3
    <3> HIDE DEF n
    <3> QED  BY <2>4, <3>1, <3>2, <3>4, AssignLast
  <2>5. ObjectsType(o.objects) => Alike(o.objects, p.objects)
    BY <2>3, <2>4
  <2> QED  BY <2>3, <2>5 DEF p
<1> QED  BY <1>1, <1>2

LEMMA SameTypes ==
  ASSUME Inv, NEW a \in Summary, OpenAs(a), src.cut = "no"
  PROVE  /\ Len(out.objects) = Len(a.blocks) /\ (out.objects = <<>> <=> a.blocks = <<>>)
         /\ a.blocks # <<>> => /\ Len(a.blocks) \in DOMAIN out.objects
                               /\ Last(out.objects) = out.objects[Len(a.blocks)]
                               /\ Last(out.objects).type = Last(a.blocks)
<1> DEFINE s == out.objects
           b == a.blocks
<1>1. s \in Seq(Range(s)) /\ b \in Seq(BlockType) /\ DOMAIN s = DOMAIN b
      /\ \A i \in DOMAIN s : s[i].type = b[i]
  <2>1. ObjectsType(out.objects)
    BY ObjectsIs
  <2> QED  BY <2>1 DEF OpenAs, ObjectsType, Summary
<1> HIDE DEF s, b
<1>2. Symbols(b)
  BY <1>1, SymbolsType
<1>3. Len(s) = Len(b) /\ (s = <<>> <=> b = <<>>)
      /\ (s # <<>> => Len(s) \in DOMAIN s /\ Last(s) = s[Len(s)] /\ Last(b) = b[Len(s)])
  BY <1>1, <1>2, SameLength DEF Symbols
<1> QED  BY <1>1, <1>3 DEF s, b

(* The key of the statement is the last of the keys.                       *)
LEMMA OwnKey ==
  ASSUME Inv, NEW a \in Summary, ReadsAs(a), a.key = "one", ~a.lookup, src.cut = "no"
  PROVE  out.keys # <<>> /\ Front(out.keys) = src.scope /\ Last(out.keys) = Last(text.key)
         /\ Last(text.key) \in Key /\ out.keys = Append(src.scope, Last(text.key))
<1> DEFINE path == src.scope
           key == text.key
<1>1. path \in Seq(Key) /\ key \in Seq(Key)
  BY DEF Inv, Records
<1>2. Len(key) = 1 /\ text.lookup = <<>>
  BY DEF ReadsAs
<1>3. out.keys = path \o key \o <<>>
  BY <1>2, PathIs, KeysOfEmpty DEF KeysFollow
<1> HIDE DEF path, key
<1>4. Last(key) \in Key /\ path \o key \o <<>> = Append(path, Last(key))
  <2>1. key[1] \in Key /\ Last(key) = key[1]
    BY <1>1, <1>2 DEF Last
  <2>2. path \o key = Append(path, key[1]) /\ path \o key \in Seq(Key)
    <3>4. key = <<key[1]>>
      BY <1>1, <1>2
    <3>1. PICK e : key = <<e>> /\ e \in Key /\ e = key[1]
      BY <2>1, <3>4
    <3>2. path \o <<e>> = Append(path, e) /\ path \o <<e>> \in Seq(Key)
      BY <1>1, <3>1
    <3>3. path \o key = Append(path, e) /\ path \o key \in Seq(Key)
      BY <3>1, <3>2
    <3> QED  BY <3>1, <3>3
  <2>3. path \o key \o <<>> = path \o key
    BY <2>2
  <2> QED  BY <2>1, <2>2, <2>3
<1> DEFINE keys == Append(path, Last(key))
<1>5. keys # <<>> /\ Front(keys) = path /\ Last(keys) = Last(key)
  BY <1>1, <1>4 DEF Front, Last
<1> QED  BY <1>3, <1>4, <1>5 DEF path, key

LEMMA NoFlatKey ==
  ASSUME Inv, NEW a \in Summary, ReadsAs(a), ~a.flat, src.cut = "no"
  PROVE  out.flat_keys = OpenProto(out.objects)
<1>1. text.flat = <<>>
  BY DEF ReadsAs
<1>2. OpenProto(out.objects) \o <<>> = OpenProto(out.objects)
  BY DEF OpenProto
<1> QED  BY <1>1, <1>2, PathIs DEF FlatKeysFollow

(* What every statement does when its value has been bound.                *)
LEMMA BoundInv ==
  ASSUME Inv, NEW a \in Summary, Describes(a), ~a.closing, Leads(At(a.blocks), todo'),
         KeepsSource, src'.lookups = src.lookups, text' = NewText, status' = status,
         DOMAIN out' = OutNames, out'.obj_res = NullPtr,
         src.cut = "no" => Alike(out.objects, out'.objects),
         out'.depth = out.depth, out'.in_proto = out.in_proto, out'.proto_key = out.proto_key,
         src.cut = "no" => out'.keys = src.scope /\ out'.flat_keys = OpenProto(out.objects)
  PROVE  Inv'
<1>1. PICK c : c = At(a.blocks)
  OBVIOUS
<1>2. c \in Summary /\ c.blocks = a.blocks /\ c.key = "none" /\ c.flat = FALSE
      /\ c.lookup = FALSE /\ c.value = "none" /\ c.expression = FALSE /\ c.closing = FALSE
  <2>1. a.blocks \in Seq(BlockType)
    BY DEF Summary
  <2> QED  BY <1>1, <2>1, AtFacts
<1>3. c.closing = a.closing
  <2>1. a.closing \in BOOLEAN
    BY DEF Summary
  <2> QED  BY <1>2, <2>1
<1>4. KeepsBlocks
  <2>1. SameBlocks
    BY AlikeIsSame
  <2>2. DOMAIN out' = DOMAIN out /\ DOMAIN out'.obj_res = DOMAIN NullPtr
    BY OutFields DEF OutNames
  <2> QED  BY <2>1, <2>2 DEF KeepsBlocks
<1>5. text'.key = <<>> /\ text'.flat = <<>> /\ text'.lookup = <<>> /\ DOMAIN text' = DOMAIN NewText
  BY DEF NewText
<1>6. TextType'
  BY <1>5 DEF TextType
<1>7. ReadsAs(c)'
  BY <1>2, <1>5 DEF Describes, ReadsAs, KeepsSource
<1>8. HoldsAs(c)' /\ ExpressionOwnsLookups'
  BY <1>2, NullPtrIs DEF HoldsAs, ExpressionOwnsLookups
<1>9. ASSUME src.cut = "no" PROVE KeysFollow' /\ FlatKeysFollow'
  <2>1. SameBlocks
    BY AlikeIsSame
  <2>2. OpenProto(out'.objects) = OpenProto(out.objects)
    BY <1>9, <2>1, SameOpenProto
  <2>3. OpenProto(out.objects) \o <<>> = OpenProto(out.objects)
    BY DEF OpenProto
  <2>4. src.scope \in Seq(Key)
    BY DEF Inv, Records
  <2>5. src.scope \o <<>> \o <<>> = src.scope
    BY <2>4
  <2>6. src'.scope = src.scope
    BY DEF KeepsSource
  <2>7. KeysFollow'
    BY <1>5, <1>9, <2>5, <2>6, KeysOfEmpty DEF KeysFollow
  <2>8. FlatKeysFollow'
    BY <1>5, <1>9, <2>2, <2>3 DEF FlatKeysFollow
  <2> QED  BY <2>7, <2>8
<1>10. Leads(c, todo')
  BY <1>1
<1> QED  BY <1>2, <1>3, <1>4, <1>6, <1>7, <1>8, <1>9, <1>10, StatementInv

(* The source as State leaves it.                                          *)
LEMMA StateKeeps ==
  ASSUME Inv, NEW key, State(key)
  PROVE  KeepsSource /\ src'.lookups = src.lookups /\ text' = NewText
BY OutFields DEF State, KeepsSource

LEMMA BoundLastKeeps ==
  ASSUME NEW o, DOMAIN o = OutNames
  PROVE  /\ DOMAIN BoundLast(o) = OutNames
         /\ \A x \in OutNames \ {"objects", "cfg_res", "keys", "obj_res"} : BoundLast(o)[x] = o[x]
         /\ BoundLast(o).obj_res = NullPtr /\ BoundLast(o).keys = Front(o.keys)
         /\ ObjectsType(o.objects) => Alike(o.objects, BoundLast(o).objects)
<1> DEFINE k == Last(o.keys)
           v == o.obj_res
           p == BindData(o, k, v)
           q == [p EXCEPT !.keys = Front(@), !.obj_res = NullPtr]
<1>1. DOMAIN p = OutNames /\ (\A x \in OutNames \ {"objects", "cfg_res"} : p[x] = o[x])
      /\ (ObjectsType(o.objects) => Alike(o.objects, p.objects))
  <2> HIDE DEF k, v
  <2> QED  BY BindDataKeeps
<1>2. BoundLast(o) = q
  BY DEF BoundLast
<1> HIDE DEF p
<1>3. DOMAIN q = OutNames /\ (\A x \in OutNames \ {"keys", "obj_res"} : q[x] = p[x])
      /\ q.obj_res = NullPtr /\ q.keys = Front(p.keys)
  BY <1>1 DEF OutNames
<1>4. p.keys = o.keys /\ q.objects = p.objects
  BY <1>1, <1>3 DEF OutNames
<1> HIDE DEF q
<1> QED  BY <1>1, <1>2, <1>3, <1>4

(* What the moves of the statements say.                                   *)
LEMMA PairMoves ==
  ASSUME NEW a, NEW x, NEW c, Moves(a, x, c),
         x \in {"/PAIR", "/PROTO_PAIR", "/REF_ADDKVP", "/REF_VARDEF", "/FULLPAIR"}
  PROVE  /\ ~a.closing /\ ~a.lookup /\ c = At(a.blocks)
         /\ a.flat <=> x = "/FULLPAIR"
         /\ x \in {"/PAIR", "/PROTO_PAIR", "/REF_ADDKVP"} => a.key = "one"
         /\ x \in {"/FULLPAIR", "/REF_VARDEF"} => a.key = "none"
         /\ x = "/FULLPAIR" => a.blocks = <<>>
         /\ x = "/PROTO_PAIR" => InProto(a.blocks) /\ ~InReference(a.blocks)
         /\ x \in {"/REF_ADDKVP", "/REF_VARDEF"} => InReference(a.blocks)
<1> DEFINE b == a.blocks
<1>1. StatementMoves(a, x, c)
  BY StatementMovesOnly
<1>2. x \notin Content(b)
  BY DEF Content
<1>3. CASE x = "/PAIR" /\ a = Within(b, "one", FALSE, "some") /\ c = At(b)
  BY <1>3 DEF Within
<1>4. CASE x = "/FULLPAIR" /\ b = <<>> /\ a = Within(b, "none", TRUE, "some") /\ c = At(b)
  BY <1>4 DEF Within
<1>5. ASSUME NEW v, x = "/PROTO_PAIR", InProto(b), ~InReference(b),
             a = Within(b, "one", FALSE, v), c = At(b)
      PROVE  /\ ~a.closing /\ ~a.lookup /\ c = At(b) /\ ~a.flat /\ a.key = "one"
             /\ InProto(b) /\ ~InReference(b)
  BY <1>5 DEF Within
<1>6. CASE x = "/REF_ADDKVP" /\ InReference(b) /\ a = Within(b, "one", FALSE, "some") /\ c = At(b)
  BY <1>6 DEF Within
<1>7. ASSUME NEW v, x = "/REF_VARDEF", InReference(b), a = Within(b, "none", FALSE, v), c = At(b)
      PROVE  /\ ~a.closing /\ ~a.lookup /\ c = At(b) /\ ~a.flat /\ a.key = "none" /\ InReference(b)
  BY <1>7 DEF Within
<1>8. CASE x = "/PROTO_PAIR"
  <2>1. InProto(b) /\ ~InReference(b) /\ c = At(b)
        /\ \E v \in {"any", "some"} : a = Within(b, "one", FALSE, v)
    BY <1>1, <1>2, <1>8 DEF StatementMoves
  <2> QED  BY <1>5, <1>8, <2>1
<1>9. CASE x = "/REF_VARDEF"
  <2>1. InReference(b) /\ c = At(b) /\ \E v \in {"any", "some"} : a = Within(b, "none", FALSE, v)
    BY <1>1, <1>2, <1>9 DEF StatementMoves
  <2> QED  BY <1>7, <1>9, <2>1
<1>10. CASE x \in {"/PAIR", "/REF_ADDKVP", "/FULLPAIR"}
  <2>1. \/ x = "/PAIR" /\ a = Within(b, "one", FALSE, "some") /\ c = At(b)
        \/ x = "/FULLPAIR" /\ b = <<>> /\ a = Within(b, "none", TRUE, "some") /\ c = At(b)
        \/ x = "/REF_ADDKVP" /\ InReference(b) /\ a = Within(b, "one", FALSE, "some") /\ c = At(b)
    BY <1>1, <1>2, <1>10 DEF StatementMoves
  <2> QED  BY <1>3, <1>4, <1>6, <2>1
<1> QED  BY <1>8, <1>9, <1>10

LEMMA PAIRInv == ASSUME Inv, PAIR PROVE Inv'
<1>1. todo # <<>> /\ Head(todo) = "/PAIR"
  BY DEF PAIR, Match
<1>2. PICK a, c : /\ Describes(a) /\ Moves(a, "/PAIR", c) /\ Leads(c, Tail(todo))
                  /\ a \in Summary /\ c \in Summary
  BY <1>1, NextSymbol
<1>3. ~a.closing /\ ~a.lookup /\ c = At(a.blocks) /\ ~a.flat /\ a.key = "one" /\ ReadsAs(a)
  BY <1>2, PairMoves DEF Describes
<1>4. src.cut = "no" => out.keys # <<>> /\ Front(out.keys) = src.scope
  BY <1>2, <1>3, OwnKey
<1>5. src.cut = "no" => out.flat_keys = OpenProto(out.objects)
  BY <1>2, <1>3, NoFlatKey
<1>6. CASE out.keys = <<>>
  <2>1. Throw("InvalidStateException")
    BY <1>6 DEF PAIR
  <2> QED  BY <1>4, <1>6, <2>1, ThrowInv
<1>7. CASE Throw("DuplicateKeyException")
  BY <1>7, ThrowInv
<1>8. CASE Throw("DuplicateOverrideException")
  BY <1>8, ThrowInv
<1>9. CASE /\ out.keys # <<>>
           /\ NoToken /\ State(text.key)
           /\ out' = IF out.is_override
                     THEN [Override(out, out.keys) EXCEPT !.keys = Front(@)]
                     ELSE BoundLast(out)
  <2>1. KeepsSource /\ src'.lookups = src.lookups /\ text' = NewText
    BY <1>9, StateKeeps
  <2>2. todo' = Tail(todo) /\ status' = status
    BY <1>9 DEF NoToken, Matched
  <2>3. DOMAIN out = OutNames
    BY OutFields DEF OutNames
  <2>4. /\ DOMAIN out' = OutNames /\ out'.obj_res = NullPtr /\ out'.keys = Front(out.keys)
        /\ out'.depth = out.depth /\ out'.in_proto = out.in_proto /\ out'.proto_key = out.proto_key
        /\ out'.flat_keys = out.flat_keys
        /\ src.cut = "no" => Alike(out.objects, out'.objects)
    <3>1. CASE out.is_override
      <4> DEFINE values == Bind(out.override_values, out.keys, out.obj_res)
                 o == [out EXCEPT !.override_values = values, !.obj_res = NullPtr]
      <4>1. out' = [o EXCEPT !.keys = Front(@)]
        BY <1>9, <3>1 DEF Override
      <4>2. /\ DOMAIN out' = OutNames /\ out'.obj_res = NullPtr /\ out'.keys = Front(out.keys)
            /\ out'.depth = out.depth /\ out'.in_proto = out.in_proto
            /\ out'.proto_key = out.proto_key /\ out'.flat_keys = out.flat_keys
            /\ out'.objects = out.objects
        <5> HIDE DEF values
        <5> QED  BY <2>3, <4>1 DEF OutNames
      <4>3. src.cut = "no" => Alike(out.objects, out'.objects)
        BY <4>2, ObjectsIs, AlikeItself
      <4> QED  BY <4>2, <4>3
    <3>2. CASE ~out.is_override
      <4>1. out' = BoundLast(out)
        BY <1>9, <3>2
      <4>2. /\ DOMAIN out' = OutNames /\ out'.obj_res = NullPtr /\ out'.keys = Front(out.keys)
            /\ \A x \in OutNames \ {"objects", "cfg_res", "keys", "obj_res"} : out'[x] = out[x]
            /\ ObjectsType(out.objects) => Alike(out.objects, out'.objects)
        BY <2>3, <4>1, BoundLastKeeps
      <4>3. /\ out'.depth = out.depth /\ out'.in_proto = out.in_proto
            /\ out'.proto_key = out.proto_key /\ out'.flat_keys = out.flat_keys
        BY <4>2 DEF OutNames
      <4> QED  BY <4>2, <4>3, ObjectsIs
    <3> QED  BY <3>1, <3>2
  <2> QED  BY <1>2, <1>3, <1>4, <1>5, <2>1, <2>2, <2>4, BoundInv
<1> QED  BY <1>6, <1>7, <1>8, <1>9 DEF PAIR

LEMMA NoKey ==
  ASSUME Inv, NEW a \in Summary, ReadsAs(a), a.key = "none", ~a.lookup, src.cut = "no"
  PROVE  out.keys = src.scope
<1>1. text.key = <<>> /\ text.lookup = <<>>
  BY DEF ReadsAs
<1>2. src.scope \in Seq(Key)
  BY DEF Inv, Records
<1>3. src.scope \o <<>> \o <<>> = src.scope
  BY <1>2
<1> QED  BY <1>1, <1>3, PathIs, KeysOfEmpty DEF KeysFollow

LEMMA FrontOfOne == ASSUME NEW e PROVE Front(<<e>>) = <<>> /\ <<e>> # <<>> /\ Last(<<e>>) = e
<1>1. PICK s : s = <<e>>
  OBVIOUS
<1>2. s \in Seq({e}) /\ Len(s) = 1 /\ s[1] = e
  BY <1>1
<1>3. SubSeq(s, 1, 0) = <<>>
  BY <1>2
<1> QED  BY <1>1, <1>2, <1>3 DEF Front, Last

LEMMA FULLPAIRInv == ASSUME Inv, FULLPAIR PROVE Inv'
<1>1. todo # <<>> /\ Head(todo) = "/FULLPAIR"
  BY DEF FULLPAIR, Match
<1>2. PICK a, c : /\ Describes(a) /\ Moves(a, "/FULLPAIR", c) /\ Leads(c, Tail(todo))
                  /\ a \in Summary /\ c \in Summary
  BY <1>1, NextSymbol
<1>3. /\ ~a.closing /\ ~a.lookup /\ c = At(a.blocks) /\ a.flat /\ a.key = "none" /\ a.blocks = <<>>
      /\ ReadsAs(a) /\ OpenAs(a)
  BY <1>2, PairMoves DEF Describes
<1>4. src.cut = "no" => out.keys = src.scope
  BY <1>2, <1>3, NoKey
<1>5. ASSUME src.cut = "no"
      PROVE  out.objects = <<>> /\ OpenProto(out.objects) = <<>> /\ out.flat_keys = <<text.flat>>
  <2>1. out.objects = <<>>
    BY <1>2, <1>3, <1>5, SameTypes
  <2>2. OpenProto(out.objects) = <<>>
    BY <2>1 DEF OpenProto
  <2>3. text.flat # <<>>
    BY <1>3 DEF ReadsAs
  <2>4. out.flat_keys = <<>> \o <<text.flat>>
    BY <1>5, <2>2, <2>3, PathIs DEF FlatKeysFollow
  <2>5. <<>> \o <<text.flat>> = <<text.flat>>
    <3>1. <<text.flat>> \in Seq({text.flat})
      OBVIOUS
    <3> QED  BY <3>1
  <2> QED  BY <2>1, <2>2, <2>4, <2>5
<1>6. CASE out.flat_keys = <<>> \/ out.objects # <<>>
  <2>1. Throw("InvalidStateException")
    BY <1>6 DEF FULLPAIR
  <2>2. src.cut # "no"
    BY <1>5, <1>6, FrontOfOne
  <2> QED  BY <2>1, <2>2, ThrowInv
<1>7. CASE Throw("DuplicateOverrideException")
  BY <1>7, ThrowInv
<1> DEFINE values == Bind(out.override_values, Last(out.flat_keys), out.obj_res)
           maps == Append(out.cfg_res, Unflatten(Last(out.flat_keys), out.obj_res))
           flat == Front(out.flat_keys)
<1>8. CASE /\ NoToken /\ State(text.flat)
           /\ out' = IF out.is_override
                     THEN [Override(out, Last(out.flat_keys)) EXCEPT !.flat_keys = Front(@)]
                     ELSE [out EXCEPT !.cfg_res = maps, !.obj_res = NullPtr, !.flat_keys = flat]
  <2>1. KeepsSource /\ src'.lookups = src.lookups /\ text' = NewText
    BY <1>8, StateKeeps
  <2>2. todo' = Tail(todo) /\ status' = status
    BY <1>8 DEF NoToken, Matched
  <2>3. DOMAIN out = OutNames
    BY OutFields DEF OutNames
  <2>4. /\ DOMAIN out' = OutNames /\ out'.obj_res = NullPtr /\ out'.keys = out.keys
        /\ out'.depth = out.depth /\ out'.in_proto = out.in_proto /\ out'.proto_key = out.proto_key
        /\ out'.flat_keys = flat /\ out'.objects = out.objects
    <3>1. CASE out.is_override
      <4> DEFINE o == [out EXCEPT !.override_values = values, !.obj_res = NullPtr]
      <4>1. out' = [o EXCEPT !.flat_keys = Front(@)]
        BY <1>8, <3>1 DEF Override
      <4> HIDE DEF values
      <4> QED  BY <2>3, <4>1 DEF OutNames
    <3>2. CASE ~out.is_override
      <4>1. out' = [out EXCEPT !.cfg_res = maps, !.obj_res = NullPtr, !.flat_keys = flat]
        BY <1>8, <3>2
      <4> HIDE DEF maps, flat
      <4> QED  BY <2>3, <4>1 DEF OutNames
    <3> QED  BY <3>1, <3>2
  <2>5. src.cut = "no" => Alike(out.objects, out'.objects)
    BY <2>4, ObjectsIs, AlikeItself
  <2>6. src.cut = "no" => out'.flat_keys = OpenProto(out.objects)
    BY <1>5, <2>4, FrontOfOne
  <2> HIDE DEF flat
  <2> QED  BY <1>2, <1>3, <1>4, <2>1, <2>2, <2>4, <2>5, <2>6, BoundInv
<1> QED  BY <1>6, <1>7, <1>8 DEF FULLPAIR

(* Inside a proto the innermost block is the proto or a struct of it.      *)
LEMMA ProtoIsOpen ==
  ASSUME Inv, NEW a \in Summary, OpenAs(a), InProto(a.blocks), ~InReference(a.blocks),
         src.cut = "no"
  PROVE  Last(out.objects).type \in {"kProto", "kStructInProto"}
<1> DEFINE b == a.blocks
           n == Len(b)
<1>1. b \in Seq(BlockType) /\ DOMAIN out.objects = DOMAIN b
      /\ \A i \in DOMAIN out.objects : out.objects[i].type = b[i]
  BY DEF OpenAs, Summary
<1>2. PICK i \in DOMAIN b : b[i] = "kProto"
  BY DEF InProto
<1>3. b # <<>> /\ n \in DOMAIN b /\ Last(b) = b[n] /\ i \in 1 .. n /\ b[n] \in BlockType
  BY <1>1 DEF Last
<1>4. Last(out.objects).type = b[n] /\ b[n] # "kReference"
  BY <1>3, SameTypes DEF InReference
<1>5. b[n] # "kStruct"
  <2>1. SUFFICES ASSUME b[n] = "kStruct" PROVE FALSE
    OBVIOUS
  <2>2. i < n /\ out.objects[i].type = "kProto" /\ out.objects[n].type = "kStruct"
    BY <1>1, <1>2, <1>3, <2>1
  <2> QED  BY <1>1, <1>3, <2>2 DEF Inv, Protos
<1> QED  BY <1>3, <1>4, <1>5 DEF BlockType

LEMMA PROTO_PAIRInv == ASSUME Inv, PROTO_PAIR PROVE Inv'
<1>1. todo # <<>> /\ Head(todo) = "/PROTO_PAIR"
  BY DEF PROTO_PAIR, Match
<1>2. PICK a, c : /\ Describes(a) /\ Moves(a, "/PROTO_PAIR", c) /\ Leads(c, Tail(todo))
                  /\ a \in Summary /\ c \in Summary
  BY <1>1, NextSymbol
<1>3. /\ ~a.closing /\ ~a.lookup /\ c = At(a.blocks) /\ ~a.flat /\ a.key = "one"
      /\ InProto(a.blocks) /\ ~InReference(a.blocks) /\ ReadsAs(a) /\ OpenAs(a)
  BY <1>2, PairMoves DEF Describes
<1>4. src.cut = "no" => Front(out.keys) = src.scope
  BY <1>2, <1>3, OwnKey
<1>5. src.cut = "no" => out.flat_keys = OpenProto(out.objects)
  BY <1>2, <1>3, NoFlatKey
<1>6. CASE Last(out.objects).type \notin {"kProto", "kStructInProto"}
  <2>1. Throw("GrammarError")
    BY <1>6 DEF PROTO_PAIR
  <2> QED  BY <1>2, <1>3, <1>6, <2>1, ProtoIsOpen, ThrowInv
<1>7. CASE Throw("DuplicateKeyException")
  BY <1>7, ThrowInv
<1>8. CASE NoToken /\ State(text.key) /\ out' = [BoundLast(out) EXCEPT !.result = DEFAULT_RES]
  <2>1. KeepsSource /\ src'.lookups = src.lookups /\ text' = NewText
    BY <1>8, StateKeeps
  <2>2. todo' = Tail(todo) /\ status' = status
    BY <1>8 DEF NoToken, Matched
  <2>3. DOMAIN out = OutNames
    BY OutFields DEF OutNames
  <2> DEFINE p == BoundLast(out)
  <2>4. /\ DOMAIN p = OutNames /\ p.obj_res = NullPtr /\ p.keys = Front(out.keys)
        /\ \A x \in OutNames \ {"objects", "cfg_res", "keys", "obj_res"} : p[x] = out[x]
        /\ ObjectsType(out.objects) => Alike(out.objects, p.objects)
    BY <2>3, BoundLastKeeps
  <2> HIDE DEF p
  <2>5. out' = [p EXCEPT !.result = DEFAULT_RES]
    BY <1>8 DEF p
  <2>6. DOMAIN out' = OutNames /\ \A x \in OutNames : x # "result" => out'[x] = p[x]
    BY <2>4, <2>5
  <2>7. /\ out'.obj_res = NullPtr /\ out'.keys = Front(out.keys) /\ out'.objects = p.objects
        /\ out'.depth = out.depth /\ out'.in_proto = out.in_proto /\ out'.proto_key = out.proto_key
        /\ out'.flat_keys = out.flat_keys
    BY <2>4, <2>6 DEF OutNames
  <2>8. src.cut = "no" => Alike(out.objects, out'.objects)
    BY <2>4, <2>7, ObjectsIs
  <2> QED  BY <1>2, <1>3, <1>4, <1>5, <2>1, <2>2, <2>6, <2>7, <2>8, BoundInv
<1> QED  BY <1>6, <1>7, <1>8 DEF PROTO_PAIR

LEMMA ReferenceIsOpen ==
  ASSUME Inv, NEW a \in Summary, OpenAs(a), InReference(a.blocks), src.cut = "no"
  PROVE  Last(out.objects).type = "kReference" /\ out.objects # <<>>
BY SameTypes DEF InReference

LEMMA REF_ADDKVPInv == ASSUME Inv, REF_ADDKVP PROVE Inv'
<1>1. todo # <<>> /\ Head(todo) = "/REF_ADDKVP"
  BY DEF REF_ADDKVP, Match
<1>2. PICK a, c : /\ Describes(a) /\ Moves(a, "/REF_ADDKVP", c) /\ Leads(c, Tail(todo))
                  /\ a \in Summary /\ c \in Summary
  BY <1>1, NextSymbol
<1>3. /\ ~a.closing /\ ~a.lookup /\ c = At(a.blocks) /\ ~a.flat /\ a.key = "one"
      /\ InReference(a.blocks) /\ ReadsAs(a) /\ OpenAs(a)
  BY <1>2, PairMoves DEF Describes
<1>4. src.cut = "no" => Front(out.keys) = src.scope
  BY <1>2, <1>3, OwnKey
<1>5. src.cut = "no" => out.flat_keys = OpenProto(out.objects)
  BY <1>2, <1>3, NoFlatKey
<1>6. CASE Last(out.objects).type # "kReference"
  <2>1. Throw("GrammarError")
    BY <1>6 DEF REF_ADDKVP
  <2> QED  BY <1>2, <1>3, <1>6, <2>1, ReferenceIsOpen, ThrowInv
<1>7. CASE Throw("DuplicateKeyException")
  BY <1>7, ThrowInv
<1>8. CASE NoToken /\ State(text.key) /\ out' = BoundLast(out)
  <2>1. KeepsSource /\ src'.lookups = src.lookups /\ text' = NewText
    BY <1>8, StateKeeps
  <2>2. todo' = Tail(todo) /\ status' = status
    BY <1>8 DEF NoToken, Matched
  <2>3. DOMAIN out = OutNames
    BY OutFields DEF OutNames
  <2>4. /\ DOMAIN out' = OutNames /\ out'.obj_res = NullPtr /\ out'.keys = Front(out.keys)
        /\ \A x \in OutNames \ {"objects", "cfg_res", "keys", "obj_res"} : out'[x] = out[x]
        /\ ObjectsType(out.objects) => Alike(out.objects, out'.objects)
    BY <1>8, <2>3, BoundLastKeeps
  <2>5. /\ out'.depth = out.depth /\ out'.in_proto = out.in_proto /\ out'.proto_key = out.proto_key
        /\ out'.flat_keys = out.flat_keys
    BY <2>4 DEF OutNames
  <2>6. src.cut = "no" => Alike(out.objects, out'.objects)
    BY <2>4, ObjectsIs
  <2> QED  BY <1>2, <1>3, <1>4, <1>5, <2>1, <2>2, <2>4, <2>5, <2>6, BoundInv
<1> QED  BY <1>6, <1>7, <1>8 DEF REF_ADDKVP

LEMMA REF_VARDEFInv == ASSUME Inv, REF_VARDEF PROVE Inv'
<1>1. todo # <<>> /\ Head(todo) = "/REF_VARDEF"
  BY DEF REF_VARDEF, Match
<1>2. PICK a, c : /\ Describes(a) /\ Moves(a, "/REF_VARDEF", c) /\ Leads(c, Tail(todo))
                  /\ a \in Summary /\ c \in Summary
  BY <1>1, NextSymbol
<1>3. /\ ~a.closing /\ ~a.lookup /\ c = At(a.blocks) /\ ~a.flat /\ a.key = "none"
      /\ InReference(a.blocks) /\ ReadsAs(a) /\ OpenAs(a)
  BY <1>2, PairMoves DEF Describes
<1>4. src.cut = "no" => out.keys = src.scope
  BY <1>2, <1>3, NoKey
<1>5. src.cut = "no" => out.flat_keys = OpenProto(out.objects)
  BY <1>2, <1>3, NoFlatKey
<1>6. CASE Last(out.objects).type # "kReference"
  <2>1. Throw("GrammarError")
    BY <1>6 DEF REF_VARDEF
  <2> QED  BY <1>2, <1>3, <1>6, <2>1, ReferenceIsOpen, ThrowInv
<1> DEFINE s == out.objects
           n == Len(out.objects)
           vars_ == Bind(out.objects[n].ref_vars, out.result, out.obj_res)
           t == [s EXCEPT ![n] = [@ EXCEPT !["ref_vars"] = vars_]]
<1>7. CASE /\ NoToken
           /\ out' = [out EXCEPT !.objects[n].ref_vars = vars_, !.obj_res = NullPtr,
                                 !.result = DEFAULT_RES]
           /\ text' = NewText /\ UNCHANGED src
  <2>1. KeepsSource /\ src'.lookups = src.lookups /\ text' = NewText
    BY <1>7 DEF KeepsSource
  <2>2. todo' = Tail(todo) /\ status' = status
    BY <1>7 DEF NoToken, Matched
  <2>3. DOMAIN out = OutNames
    BY OutFields DEF OutNames
  <2>4. out' = [out EXCEPT !.objects = t, !.obj_res = NullPtr, !.result = DEFAULT_RES]
    BY <1>7
  <2> HIDE DEF t
  <2>5. /\ DOMAIN out' = OutNames /\ out'.obj_res = NullPtr /\ out'.keys = out.keys
        /\ out'.depth = out.depth /\ out'.in_proto = out.in_proto /\ out'.proto_key = out.proto_key
        /\ out'.flat_keys = out.flat_keys /\ out'.objects = t
    BY <2>3, <2>4 DEF OutNames
  <2>6. ASSUME src.cut = "no" PROVE Alike(s, t)
    <3>1. ObjectsType(s) /\ s # <<>>
      BY <1>2, <1>3, <2>6, ObjectsIs, ReferenceIsOpen
    <3>2. n = Len(s)
      OBVIOUS
    <3> HIDE DEF s, vars_
    <3>3. n \in DOMAIN s
      BY <3>1, <3>2 DEF ObjectsType
    <3>4. t = [i \in DOMAIN s |-> t[i]] /\ \A i \in DOMAIN s : i # n => t[i] = s[i]
      BY DEF t
    <3>5. t[n] = [s[n] EXCEPT !["ref_vars"] = vars_]
      BY <3>3 DEF t
    <3>6. DOMAIN t[n] = DOMAIN s[n] /\ \A x \in DOMAIN s[n] : x # "ref_vars" => t[n][x] = s[n][x]
      BY <3>5
    <3> HIDE DEF n
    <3> QED  BY <3>1, <3>2, <3>4, <3>6, AssignLast
  <2>7. src.cut = "no" => Alike(out.objects, out'.objects)
    BY <2>5, <2>6
  <2> QED  BY <1>2, <1>3, <1>4, <1>5, <2>1, <2>2, <2>5, <2>7, BoundInv
<1> QED  BY <1>6, <1>7 DEF REF_VARDEF

-----------------------------------------------------------------------------
(* Blocks are opened and closed. *)

LEMMA BlockMovesOnly ==
  ASSUME NEW a, NEW x, NEW c, Moves(a, x, c),
         x \in {"/STRUCTs", "/PROTOs", "/REFs", "CBo", "CBc", "/STRUCT", "/PROTO", "/REFERENCE"}
  PROVE  BlockMoves(a, x, c)
<1>1. ~ValueMoves(a, x, c)
  BY DEF ValueMoves, ReadMoves
<1>2. ~StatementMoves(a, x, c)
  BY DEF StatementMoves, Content
<1> QED  BY <1>1, <1>2 DEF Moves

LEMMA OpenMoves ==
  ASSUME NEW a, NEW x, NEW c, Moves(a, x, c), x \in {"/STRUCTs", "/PROTOs", "/REFs"}
  PROVE  /\ ~InReference(a.blocks) /\ a.key = "one" /\ ~a.lookup /\ a.value = "none" /\ ~a.closing
         /\ a.flat <=> x = "/REFs"
         /\ x = "/STRUCTs" => c = At(Append(a.blocks, StructIn(a.blocks)))
         /\ x = "/PROTOs" => c = At(Append(a.blocks, "kProto")) /\ ~InProto(a.blocks)
         /\ x = "/REFs" => c = At(Append(a.blocks, "kReference"))
<1> DEFINE b == a.blocks
<1>1. BlockMoves(a, x, c)
  BY BlockMovesOnly
<1>2. \/ x = "/STRUCTs" /\ ~InReference(b) /\ a = Within(b, "one", FALSE, "none")
           /\ c = At(Append(b, StructIn(b)))
      \/ x = "/PROTOs" /\ ~InReference(b) /\ ~InProto(b) /\ a = Within(b, "one", FALSE, "none")
           /\ c = At(Append(b, "kProto"))
      \/ x = "/REFs" /\ ~InReference(b) /\ a = Within(b, "one", TRUE, "none")
           /\ c = At(Append(b, "kReference"))
  BY <1>1 DEF BlockMoves
<1>3. CASE x = "/STRUCTs" /\ ~InReference(b) /\ a = Within(b, "one", FALSE, "none")
           /\ c = At(Append(b, StructIn(b)))
  <2>1. a.key = "one" /\ a.lookup = FALSE /\ a.value = "none" /\ a.closing = FALSE /\ a.flat = FALSE
    BY <1>3 DEF Within
  <2> QED  BY <1>3, <2>1
<1>4. CASE x = "/PROTOs" /\ ~InReference(b) /\ ~InProto(b) /\ a = Within(b, "one", FALSE, "none")
           /\ c = At(Append(b, "kProto"))
  <2>1. a.key = "one" /\ a.lookup = FALSE /\ a.value = "none" /\ a.closing = FALSE /\ a.flat = FALSE
    BY <1>4 DEF Within
  <2> QED  BY <1>4, <2>1
<1>5. CASE x = "/REFs" /\ ~InReference(b) /\ a = Within(b, "one", TRUE, "none")
           /\ c = At(Append(b, "kReference"))
  <2>1. a.key = "one" /\ a.lookup = FALSE /\ a.value = "none" /\ a.closing = FALSE /\ a.flat = TRUE
    BY <1>5 DEF Within
  <2> QED  BY <1>5, <2>1
<1> QED  BY <1>2, <1>3, <1>4, <1>5

(* A reference is open only as the innermost block.                        *)
LEMMA NoReference ==
  ASSUME Inv, NEW a \in Summary, OpenAs(a), ~InReference(a.blocks), src.cut = "no"
  PROVE  /\ \A i \in DOMAIN out.objects : out.objects[i].type # "kReference"
         /\ OpenProto(out.objects) = <<>>
<1>1. \A i \in DOMAIN out.objects : out.objects[i].type = "kReference" => i = Len(out.objects)
  BY DEF Inv, KeysArePath
<1>2. CASE a.blocks = <<>>
  <2>1. out.objects = <<>> /\ DOMAIN out.objects = {}
    BY <1>2, SameTypes
  <2> QED  BY <2>1 DEF OpenProto
<1>3. CASE a.blocks # <<>>
  <2>1. Last(out.objects).type # "kReference"
    BY <1>3, SameTypes DEF InReference
  <2>2. Last(out.objects) = out.objects[Len(out.objects)]
    BY DEF Last
  <2> QED  BY <1>1, <2>1, <2>2 DEF OpenProto
<1> QED  BY <1>2, <1>3

LEMMA AppendObject ==
  ASSUME NEW s, ObjectsType(s), NEW e, DOMAIN e = {"type", "name", "depth", "proto", "data", "ref_vars"}
  PROVE  /\ ObjectsType(Append(s, e)) /\ Len(s) \in Nat /\ DOMAIN s = 1 .. Len(s)
         /\ DOMAIN Append(s, e) = 1 .. (Len(s) + 1) /\ Len(Append(s, e)) = Len(s) + 1
         /\ Append(s, e)[Len(s) + 1] = e /\ \A i \in 1 .. Len(s) : Append(s, e)[i] = s[i]
         /\ Append(s, e) # <<>> /\ Last(Append(s, e)) = e
<1> DEFINE S == Range(s) \cup {e}
           t == Append(s, e)
<1>1. s \in Seq(Range(s))
  BY DEF ObjectsType
<1>2. s \in Seq(S)
  <2>1. Range(s) \subseteq S
    OBVIOUS
  <2> QED  BY <1>1, <2>1
<1>3. e \in S
  OBVIOUS
<1> HIDE DEF S
<1>4. /\ t \in Seq(S) /\ Len(s) \in Nat /\ DOMAIN s = 1 .. Len(s) /\ Len(t) = Len(s) + 1
      /\ DOMAIN t = 1 .. (Len(s) + 1) /\ t[Len(s) + 1] = e /\ t # <<>>
      /\ \A i \in 1 .. Len(s) : t[i] = s[i]
  BY <1>2, <1>3
<1> HIDE DEF t
<1>5. t \in Seq(Range(t))
  BY <1>4, SymbolsType DEF Symbols
<1>6. ObjectsType(t)
  BY <1>4, <1>5 DEF ObjectsType
<1> QED  BY <1>4, <1>6 DEF Last, t

(* The block that Open pushes is one of the type the summary tells.        *)
LEMMA OpenInv ==
  ASSUME Inv, NEW a \in Summary, Describes(a), NEW type, NEW proto, Open(type, proto),
         a.key = "one", ~a.lookup, a.value = "none", ~a.closing, ~InReference(a.blocks),
         NEW opened \in BlockType, Leads(At(Append(a.blocks, opened)), Tail(todo)),
         src.cut = "no" =>
           /\ opened = type
           /\ type = "kProto" => ~InProto(a.blocks)
           /\ type = "kStructInProto" => InProto(a.blocks)
           /\ type = "kStruct" => ~InProto(a.blocks)
           /\ out.flat_keys = IF type = "kReference" THEN <<proto>> ELSE <<>>
  PROVE  Inv'
<1> DEFINE b == a.blocks
           s == out.objects
           n == Len(out.objects)
           e == Block(type, Last(out.keys), out.depth, proto, EmptyMap)
           t == Append(s, e)
           in_proto == out.in_proto \/ type = "kProto"
           proto_key == IF type = "kProto" THEN out.keys ELSE out.proto_key
           key == Last(text.key)
<1>1. /\ todo' = Tail(todo) /\ status' = status /\ text' = NewText
      /\ src' = [src EXCEPT !.scope = Append(@, key)]
      /\ out' = [out EXCEPT !.objects = t, !.depth = @ + 1, !.in_proto = in_proto,
                            !.proto_key = proto_key]
  BY DEF Open, NoToken, Matched
<1> HIDE DEF t, in_proto, proto_key, key
<1>2. /\ DOMAIN src' = DOMAIN src /\ src'.scope = Append(src.scope, key) /\ src'.cut = src.cut
      /\ src'.lookups = src.lookups
  BY <1>1, OutFields
<1>3. /\ DOMAIN out' = DOMAIN out /\ out'.objects = t /\ out'.depth = out.depth + 1
      /\ out'.in_proto = in_proto /\ out'.proto_key = proto_key /\ out'.keys = out.keys
      /\ out'.flat_keys = out.flat_keys /\ out'.obj_res = out.obj_res
      /\ out'.value_lookups = out.value_lookups
  BY <1>1, OutFields
<1>4. text'.key = <<>> /\ text'.flat = <<>> /\ text'.lookup = <<>> /\ DOMAIN text' = DOMAIN NewText
  BY <1>1 DEF NewText
<1>5. ReadsAs(a) /\ HoldsAs(a) /\ OpenAs(a) /\ Records /\ KeysArePath /\ Protos
  BY DEF Describes, Inv
<1>6. src.scope \in Seq(Key) /\ Len(src.scope) = Len(b) /\ key \in Key /\ b \in Seq(BlockType)
  <2>1. text.key \in Seq(Key) /\ Len(text.key) = 1
    BY <1>5 DEF ReadsAs, Records
  <2>2. key \in Key
    BY <2>1 DEF key, Last
  <2> QED  BY <1>5, <2>2 DEF ReadsAs, Records, Summary
<1>7. PICK d : d = Append(b, opened)
  OBVIOUS
<1>8. d \in Seq(BlockType) /\ Len(d) = Len(b) + 1 /\ Len(b) \in Nat /\ d[Len(b) + 1] = opened
      /\ (\A i \in 1 .. Len(b) : d[i] = b[i]) /\ DOMAIN d = 1 .. (Len(b) + 1)
      /\ DOMAIN b = 1 .. Len(b)
  BY <1>6, <1>7
<1>9. PICK c : c = At(d)
  OBVIOUS
<1>10. c \in Summary /\ c.blocks = d /\ c.key = "none" /\ c.flat = FALSE
       /\ c.lookup = FALSE /\ c.value = "none" /\ c.expression = FALSE /\ c.closing = FALSE
  BY <1>8, <1>9, AtFacts
<1>11. Leads(c, todo')
  BY <1>1, <1>7, <1>9
<1>12. PICK scope : scope = src.scope
  OBVIOUS
<1>13. src'.scope \in Seq(Key) /\ Len(src'.scope) = Len(b) + 1 /\ DOMAIN src'.scope = 1 .. (Len(b) + 1)
       /\ src'.scope[Len(b) + 1] = key /\ (\A i \in 1 .. Len(b) : src'.scope[i] = scope[i])
       /\ \A p \in 0 .. Len(b) : SubSeq(src'.scope, 1, p) = SubSeq(scope, 1, p)
  <2>1. scope \in Seq(Key) /\ Len(scope) = Len(b) /\ src'.scope = Append(scope, key)
    BY <1>2, <1>6, <1>12
  <2> QED  BY <1>6, <2>1, PrefixOfAppend
<1>14. ASSUME src.cut = "no"
       PROVE  /\ ObjectsType(t) /\ n = Len(b) /\ n \in Nat /\ DOMAIN s = 1 .. n
              /\ DOMAIN t = 1 .. (n + 1) /\ Len(t) = n + 1 /\ t[n + 1] = e
              /\ (\A i \in 1 .. n : t[i] = s[i]) /\ t # <<>> /\ Last(t) = e
  <2>1. ObjectsType(s) /\ n = Len(b)
    BY <1>5, <1>14, ObjectsIs, SameTypes
  <2>2. DOMAIN e = {"type", "name", "depth", "proto", "data", "ref_vars"}
    BY DEF Block
  <2> HIDE DEF e, s
  <2>3. /\ ObjectsType(t) /\ Len(s) \in Nat /\ DOMAIN s = 1 .. Len(s)
        /\ DOMAIN t = 1 .. (Len(s) + 1) /\ Len(t) = Len(s) + 1 /\ t[Len(s) + 1] = e
        /\ (\A i \in 1 .. Len(s) : t[i] = s[i]) /\ t # <<>> /\ Last(t) = e
    BY <2>1, <2>2, AppendObject DEF t
  <2>4. n = Len(s)
    BY DEF s
  <2> QED  BY <2>1, <2>3, <2>4
<1>15. e.type = type /\ e.name = Last(out.keys) /\ e.depth = out.depth /\ e.proto = proto
  BY DEF Block
<1>16. src.cut = "no" => out.keys = src'.scope /\ Last(out.keys) = key
  BY <1>2, <1>5, OwnKey DEF key
<1> HIDE DEF e, n, s
<1>17. Records'
  <2>1. src'.cut = "no" => ObjectsType(t)
    BY <1>2, <1>14
  <2> QED  BY <1>2, <1>3, <1>4, <1>5, <1>13, <2>1 DEF Records, ObjectsType
<1>18. ReadsAs(c)'
  BY <1>4, <1>8, <1>10, <1>13 DEF ReadsAs
<1>19. HoldsAs(c)' /\ ExpressionOwnsLookups'
  <2>1. HoldsAs(c)'
    BY <1>2, <1>3, <1>5, <1>10 DEF HoldsAs
  <2>2. ExpressionOwnsLookups'
    BY <1>2, <1>3 DEF Inv, ExpressionOwnsLookups
  <2> QED  BY <2>1, <2>2
<1>20. OpenAs(c)'
  <2> SUFFICES ASSUME src.cut = "no" PROVE OpenAs(c)'
    BY <1>2 DEF OpenAs
  <2>1. /\ DOMAIN s = DOMAIN b /\ \A i \in DOMAIN s : s[i].type = b[i] /\ s[i].depth = i - 1
    BY <1>5 DEF OpenAs, s
  <2>2. out.depth = n
    <3>1. out.depth = n - (IF a.closing THEN 1 ELSE 0)
      BY <1>5 DEF OpenAs, n
    <3> QED  BY <1>14, <3>1
  <2>3. DOMAIN t = DOMAIN d
    BY <1>8, <1>14
  <2>4. ASSUME NEW i \in DOMAIN t PROVE t[i].type = d[i] /\ t[i].depth = i - 1
    <3>1. CASE i = n + 1
      BY <1>8, <1>14, <1>15, <2>2, <3>1
    <3>2. CASE i # n + 1
      <4>1. i \in 1 .. n
        BY <1>14, <3>2
      <4> QED  BY <1>8, <1>14, <2>1, <4>1
    <3> QED  BY <3>1, <3>2
  <2>5. out'.depth = Len(t) - 0
    BY <1>3, <1>14, <2>2
  <2> QED  BY <1>3, <1>10, <2>3, <2>4, <2>5 DEF OpenAs
<1>21. KeysArePath'
  <2> SUFFICES ASSUME src.cut = "no" PROVE KeysArePath'
    BY <1>2 DEF KeysArePath
  <2>1. [i \in DOMAIN t |-> t[i].name] = src'.scope
    <3>1. [i \in DOMAIN s |-> s[i].name] = scope
      BY <1>5, <1>12 DEF KeysArePath, s
    <3>2. \A i \in 1 .. n : s[i].name = scope[i]
      BY <1>14, <3>1
    <3>3. ASSUME NEW i \in 1 .. (n + 1) PROVE t[i].name = src'.scope[i]
      <4>1. CASE i = n + 1
        BY <1>13, <1>14, <1>15, <1>16, <4>1
      <4>2. CASE i # n + 1
        <5>1. i \in 1 .. n
          BY <1>14, <4>2
        <5> QED  BY <1>13, <1>14, <3>2, <5>1
      <4> QED  BY <4>1, <4>2
    <3>4. src'.scope = [i \in 1 .. (n + 1) |-> src'.scope[i]]
      BY <1>13, <1>14
    <3> QED  BY <1>14, <3>3, <3>4
  <2>2. \A i \in DOMAIN t : t[i].type = "kReference" => i = Len(t)
    <3>1. \A i \in DOMAIN s : s[i].type # "kReference"
      BY <1>5, NoReference DEF s
    <3> QED  BY <1>14, <3>1
  <2>3. out'.keys = src'.scope \o <<>> \o <<>>
    <3>1. src'.scope \o <<>> \o <<>> = src'.scope
      BY <1>13
    <3> QED  BY <1>3, <1>16, <3>1
  <2>4. out'.flat_keys = OpenProto(t) \o <<>>
    <3>1. OpenProto(t) = IF type = "kReference" THEN <<proto>> ELSE <<>>
      BY <1>14, <1>15 DEF OpenProto
    <3>2. OpenProto(t) \o <<>> = OpenProto(t)
      BY DEF OpenProto
    <3> QED  BY <1>3, <3>1, <3>2
  <2> QED  BY <1>3, <1>4, <2>1, <2>2, <2>3, <2>4, KeysOfEmpty DEF KeysArePath
<1>22. Protos'
  <2> SUFFICES ASSUME src.cut = "no" PROVE Protos'
    BY <1>2 DEF Protos
  <2> DEFINE protos == {i \in DOMAIN s : s[i].type = "kProto"}
             after == {i \in DOMAIN t : t[i].type = "kProto"}
  <2>1. /\ out.in_proto <=> protos # {}
        /\ \A p, q \in protos : p = q
        /\ \A p \in protos : out.proto_key = SubSeq(scope, 1, p)
        /\ protos = {} => out.proto_key = <<>>
        /\ \A i \in DOMAIN s :
             /\ s[i].type = "kStructInProto" => \E p \in protos : p < i
             /\ s[i].type = "kStruct" => ~ \E p \in protos : p < i
    BY <1>5, <1>12 DEF Protos, s
  <2>2. InProto(b) <=> protos # {}
    BY <1>5 DEF OpenAs, InProto, s
  <2>3. CASE type = "kProto"
    <3>1. protos = {}
      BY <2>2, <2>3
    <3>2. after = {n + 1}
      BY <1>14, <1>15, <2>3, <3>1
    <3>3. out'.in_proto /\ out'.proto_key = src'.scope
      BY <1>3, <1>16, <2>3 DEF in_proto, proto_key
    <3>4. src'.scope = SubSeq(src'.scope, 1, n + 1)
      BY <1>13, <1>14
    <3>5. \A i \in DOMAIN t :
             /\ t[i].type = "kStructInProto" => \E p \in after : p < i
             /\ t[i].type = "kStruct" => ~ \E p \in after : p < i
      <4>1. \A i \in 1 .. n : t[i] = s[i] /\ i \in DOMAIN s /\ ~(n + 1 < i)
        BY <1>14
      <4>2. \A i \in 1 .. n : s[i].type # "kStructInProto"
        BY <1>14, <2>1, <3>1
      <4>3. \A i \in DOMAIN t : i \in 1 .. n \/ i = n + 1
        BY <1>14
      <4>4. t[n + 1].type = "kProto"
        BY <1>14, <1>15, <2>3
      <4> HIDE DEF after, protos
      <4> QED  BY <3>2, <4>1, <4>2, <4>3, <4>4
    <3> HIDE DEF after
    <3>6. \A p \in after : out'.proto_key = SubSeq(src'.scope, 1, p)
      BY <3>2, <3>3, <3>4
    <3>7. (out'.in_proto <=> after # {}) /\ (\A p, q \in after : p = q)
          /\ (after = {} => out'.proto_key = <<>>)
      BY <3>2, <3>3
    <3> QED  BY <1>3, <3>5, <3>6, <3>7 DEF Protos, after
  <2>4. CASE type # "kProto"
    <3>1. after = protos
      BY <1>14, <1>15, <2>4
    <3>2. (out'.in_proto <=> out.in_proto) /\ out'.proto_key = out.proto_key
      BY <1>3, <2>4 DEF in_proto, proto_key
    <3>3. \A p \in protos : SubSeq(src'.scope, 1, p) = SubSeq(scope, 1, p)
      BY <1>13, <1>14
    <3>4. \A i \in DOMAIN t :
             /\ t[i].type = "kStructInProto" => \E p \in after : p < i
             /\ t[i].type = "kStruct" => ~ \E p \in after : p < i
      <4>1. \A i \in 1 .. n : t[i] = s[i] /\ i \in DOMAIN s
        BY <1>14
      <4>2. \A i \in DOMAIN t : i \in 1 .. n \/ i = n + 1
        BY <1>14
      <4>3. t[n + 1].type = type
        BY <1>14, <1>15
      <4>4. \A p \in protos : p < n + 1
        BY <1>14
      <4> HIDE DEF after, protos
      <4>5. type = "kStructInProto" => \E p \in protos : p < n + 1
        BY <2>2, <4>4
      <4>6. type = "kStruct" => protos = {}
        BY <2>2
      <4> QED  BY <2>1, <3>1, <4>1, <4>2, <4>3, <4>5, <4>6
    <3> HIDE DEF after, protos
    <3>5. (out'.in_proto <=> after # {}) /\ (\A p, q \in after : p = q)
          /\ (after = {} => out'.proto_key = <<>>)
          /\ (\A p \in after : out'.proto_key = SubSeq(src'.scope, 1, p))
      BY <2>1, <3>1, <3>2, <3>3
    <3> QED  BY <1>3, <3>4, <3>5 DEF Protos, after
  <2> QED  BY <2>3, <2>4
<1>23. Described'
  <2>1. Describes(c)'
    BY <1>10, <1>18, <1>19, <1>20 DEF Describes
  <2> QED  BY <1>11, <2>1 DEF Described
<1>24. NoErrorYet'
  BY <1>1, <1>2 DEF Inv, NoErrorYet
<1> QED  BY <1>17, <1>19, <1>21, <1>22, <1>23, <1>24 DEF Inv

LEMMA STRUCTsInv == ASSUME Inv, STRUCTs PROVE Inv'
<1> DEFINE type == IF out.in_proto THEN "kStructInProto" ELSE "kStruct"
<1>1. todo # <<>> /\ Head(todo) = "/STRUCTs" /\ Open(type, <<>>)
  BY DEF STRUCTs, Match
<1>2. PICK a, c : /\ Describes(a) /\ Moves(a, "/STRUCTs", c) /\ Leads(c, Tail(todo))
                  /\ a \in Summary /\ c \in Summary
  BY <1>1, NextSymbol
<1>3. /\ ~InReference(a.blocks) /\ a.key = "one" /\ ~a.lookup /\ a.value = "none" /\ ~a.closing
      /\ ~a.flat /\ c = At(Append(a.blocks, StructIn(a.blocks))) /\ ReadsAs(a) /\ OpenAs(a)
  BY <1>2, OpenMoves DEF Describes
<1>4. StructIn(a.blocks) \in BlockType
  BY DEF StructIn, BlockType
<1>5. ASSUME src.cut = "no"
      PROVE  /\ StructIn(a.blocks) = type
             /\ type # "kProto" /\ type # "kReference"
             /\ type = "kStructInProto" => InProto(a.blocks)
             /\ type = "kStruct" => ~InProto(a.blocks)
             /\ out.flat_keys = <<>>
  <2>1. out.in_proto <=> {i \in DOMAIN out.objects : out.objects[i].type = "kProto"} # {}
    BY <1>5 DEF Inv, Protos
  <2>2. out.in_proto <=> InProto(a.blocks)
    BY <1>3, <1>5, <2>1 DEF OpenAs, InProto
  <2>3. out.flat_keys = <<>>
    BY <1>2, <1>3, <1>5, NoFlatKey, NoReference
  <2> QED  BY <2>2, <2>3 DEF StructIn
<1> HIDE DEF type
<1> QED  BY <1>1, <1>2, <1>3, <1>4, <1>5, OpenInv

LEMMA PROTOsInv == ASSUME Inv, PROTOs PROVE Inv'
<1>1. todo # <<>> /\ Head(todo) = "/PROTOs" /\ Open("kProto", <<>>)
  BY DEF PROTOs, Match
<1>2. PICK a, c : /\ Describes(a) /\ Moves(a, "/PROTOs", c) /\ Leads(c, Tail(todo))
                  /\ a \in Summary /\ c \in Summary
  BY <1>1, NextSymbol
<1>3. /\ ~InReference(a.blocks) /\ a.key = "one" /\ ~a.lookup /\ a.value = "none" /\ ~a.closing
      /\ ~a.flat /\ c = At(Append(a.blocks, "kProto")) /\ ~InProto(a.blocks)
      /\ ReadsAs(a) /\ OpenAs(a)
  BY <1>2, OpenMoves DEF Describes
<1>4. "kProto" \in BlockType
  BY DEF BlockType
<1>5. src.cut = "no" => out.flat_keys = <<>>
  BY <1>2, <1>3, NoFlatKey, NoReference
<1> QED  BY <1>1, <1>2, <1>3, <1>4, <1>5, OpenInv

LEMMA REFsInv == ASSUME Inv, REFs PROVE Inv'
<1> DEFINE proto == Last(out.flat_keys)
<1>1. todo # <<>> /\ Head(todo) = "/REFs" /\ Open("kReference", proto)
  BY DEF REFs, Match
<1>2. PICK a, c : /\ Describes(a) /\ Moves(a, "/REFs", c) /\ Leads(c, Tail(todo))
                  /\ a \in Summary /\ c \in Summary
  BY <1>1, NextSymbol
<1>3. /\ ~InReference(a.blocks) /\ a.key = "one" /\ ~a.lookup /\ a.value = "none" /\ ~a.closing
      /\ a.flat /\ c = At(Append(a.blocks, "kReference")) /\ ReadsAs(a) /\ OpenAs(a)
  BY <1>2, OpenMoves DEF Describes
<1>4. "kReference" \in BlockType
  BY DEF BlockType
<1>5. ASSUME src.cut = "no" PROVE out.flat_keys = <<proto>>
  <2>1. text.flat # <<>> /\ OpenProto(out.objects) = <<>>
    BY <1>2, <1>3, <1>5, NoReference DEF ReadsAs
  <2>2. out.flat_keys = <<>> \o <<text.flat>>
    BY <1>5, <2>1, PathIs DEF FlatKeysFollow
  <2>3. <<>> \o <<text.flat>> = <<text.flat>>
    <3>1. <<text.flat>> \in Seq({text.flat})
      OBVIOUS
    <3> QED  BY <3>1
  <2>4. out.flat_keys = <<text.flat>>
    BY <2>2, <2>3
  <2> QED  BY <2>4, FrontOfOne
<1> HIDE DEF proto
<1> QED  BY <1>1, <1>2, <1>3, <1>4, <1>5, OpenInv

LEMMA CBoInv == ASSUME Inv, CBo PROVE Inv'
<1>1. /\ todo # <<>> /\ Head(todo) = "CBo" /\ todo' = Tail(todo)
      /\ UNCHANGED <<text, out, src, status>>
  BY DEF CBo, Match, NoToken, Matched
<1>2. PICK a, c : Describes(a) /\ Moves(a, "CBo", c) /\ Leads(c, Tail(todo))
  BY <1>1, NextSymbol
<1>3. c = a
  <2>1. BlockMoves(a, "CBo", c)
    BY <1>2, BlockMovesOnly
  <2> QED  BY <2>1 DEF BlockMoves
<1>4. Describes(a)'
  BY <1>1, <1>2 DEF Describes, ReadsAs, HoldsAs, OpenAs
<1>5. Described'
  BY <1>1, <1>2, <1>3, <1>4 DEF Described
<1> QED  BY <1>1, <1>5, OnlyTodo

LEMMA ClosingIs ==
  ASSUME NEW b
  PROVE  /\ Closing(b).blocks = b /\ Closing(b).key = "none" /\ Closing(b).flat = FALSE
         /\ Closing(b).lookup = FALSE /\ Closing(b).value = "none"
         /\ Closing(b).expression = FALSE /\ Closing(b).closing = TRUE
         /\ At(b).blocks = b /\ At(b).key = "none" /\ At(b).flat = FALSE /\ At(b).lookup = FALSE
         /\ At(b).value = "none" /\ At(b).expression = FALSE /\ At(b).closing = FALSE
BY DEF Closing, At, Within

LEMMA CBcInv == ASSUME Inv, CBc PROVE Inv'
<1>1. /\ todo # <<>> /\ Head(todo) = "CBc" /\ todo' = Tail(todo) /\ text' = text /\ src' = src
      /\ status' = status /\ out' = [out EXCEPT !.depth = @ - 1]
  BY DEF CBc, Match, NoToken, Matched
<1>2. PICK a, c : /\ Describes(a) /\ Moves(a, "CBc", c) /\ Leads(c, todo')
                  /\ a \in Summary /\ c \in Summary
  BY <1>1, NextSymbol
<1>3. a = At(a.blocks) /\ c = Closing(a.blocks)
  <2>1. BlockMoves(a, "CBc", c)
    BY <1>2, BlockMovesOnly
  <2> QED  BY <2>1 DEF BlockMoves
<1>4. /\ c.blocks = a.blocks /\ c.key = a.key /\ c.flat = a.flat /\ c.lookup = a.lookup
      /\ c.value = a.value /\ c.expression = a.expression /\ a.closing = FALSE /\ c.closing = TRUE
  <2>1. PICK b : a = At(b) /\ c = Closing(b)
    BY <1>3
  <2> QED  BY <2>1, ClosingIs
<1>5. /\ DOMAIN out' = DOMAIN out /\ out'.objects = out.objects /\ out'.obj_res = out.obj_res
      /\ out'.depth = out.depth - 1 /\ out'.in_proto = out.in_proto
      /\ out'.proto_key = out.proto_key /\ out'.keys = out.keys /\ out'.flat_keys = out.flat_keys
      /\ out'.value_lookups = out.value_lookups
  BY <1>1, OutFields
<1>6. ReadsAs(a) /\ HoldsAs(a) /\ OpenAs(a) /\ Records /\ KeysArePath /\ Protos
  BY <1>2 DEF Describes, Inv
<1>7. Records'
  BY <1>1, <1>5, <1>6 DEF Records
<1>8. ReadsAs(c)'
  BY <1>1, <1>4, <1>6 DEF ReadsAs
<1>9. HoldsAs(c)' /\ ExpressionOwnsLookups'
  BY <1>1, <1>4, <1>5, <1>6, SameValue
<1>10. OpenAs(c)'
  <2> SUFFICES ASSUME src.cut = "no" PROVE OpenAs(c)'
    BY <1>1 DEF OpenAs
  <2>1. /\ DOMAIN out.objects = DOMAIN a.blocks
        /\ \A i \in DOMAIN out.objects :
             out.objects[i].type = a.blocks[i] /\ out.objects[i].depth = i - 1
        /\ out.depth = Len(out.objects) - 0
    BY <1>4, <1>6 DEF OpenAs
  <2>2. Len(out.objects) \in Nat
    BY <1>2, <1>6, ObjectsIs DEF ObjectsType
  <2>3. out'.depth = Len(out.objects) - 1
    BY <1>5, <2>1, <2>2
  <2> QED  BY <1>4, <1>5, <2>1, <2>3, ZenonT(40) DEF OpenAs
<1>11. Described'
  <2>1. Describes(c)'
    BY <1>2, <1>8, <1>9, <1>10 DEF Describes
  <2> QED  BY <1>2, <2>1 DEF Described
<1>12. KeysArePath'
  BY <1>1, <1>5, <1>6, ZenonT(40) DEF KeysArePath
<1>13. Protos'
  BY <1>1, <1>5, <1>6 DEF Protos
<1>14. NoErrorYet'
  BY <1>1 DEF Inv, NoErrorYet
<1> QED  BY <1>7, <1>9, <1>11, <1>12, <1>13, <1>14 DEF Inv

(* The innermost block, closed, moves into the one around it.              *)
LEMMA CloseInv ==
  ASSUME Inv, NEW a \in Summary, Describes(a), a = Closing(a.blocks), a.blocks # <<>>,
         Leads(At(Front(a.blocks)), todo'), status' = status, text' = text,
         DOMAIN src' = DOMAIN src, src'.scope = Front(src.scope), src'.cut = src.cut,
         src'.lookups = src.lookups, DOMAIN out' = OutNames, out'.obj_res = out.obj_res,
         out'.value_lookups = out.value_lookups, out'.depth = out.depth,
         out'.keys = Front(out.keys),
         src.cut = "no" =>
           /\ Alike(Front(out.objects), out'.objects)
           /\ out'.flat_keys = <<>>
           /\ out'.in_proto = IF Last(a.blocks) = "kProto" THEN FALSE ELSE out.in_proto
           /\ out'.proto_key = IF Last(a.blocks) = "kProto" THEN <<>> ELSE out.proto_key
  PROVE  Inv'
<1> DEFINE b == a.blocks
           s == out.objects
           n == Len(out.objects)
           t == out'.objects
<1>1. ReadsAs(a) /\ HoldsAs(a) /\ OpenAs(a) /\ Records /\ KeysArePath /\ Protos
  BY DEF Describes, Inv
<1>2. a.key = "none" /\ a.flat = FALSE /\ a.lookup = FALSE /\ a.value = "none"
      /\ a.expression = FALSE /\ a.closing = TRUE
  <2>1. PICK bb : a = Closing(bb)
    OBVIOUS
  <2> QED  BY <2>1, ClosingIs
<1>3. text.key = <<>> /\ text.flat = <<>> /\ text.lookup = <<>>
  BY <1>1, <1>2 DEF ReadsAs
<1>4. b \in Seq(BlockType) /\ Len(b) \in Nat \ {0}
  <2>1. b \in Seq(BlockType)
    BY DEF Summary
  <2> QED  BY <2>1
<1>5. PICK d : d = Front(b)
  OBVIOUS
<1>6. /\ d \in Seq(BlockType) /\ Len(d) = Len(b) - 1 /\ DOMAIN d = 1 .. (Len(b) - 1)
      /\ \A i \in 1 .. (Len(b) - 1) : d[i] = b[i]
  BY <1>4, <1>5, FrontLast
<1>7. PICK c : c = At(d)
  OBVIOUS
<1>8. c \in Summary /\ c.blocks = d /\ c.key = "none" /\ c.flat = FALSE
      /\ c.lookup = FALSE /\ c.value = "none" /\ c.expression = FALSE /\ c.closing = FALSE
  BY <1>6, <1>7, AtFacts
<1>9. Leads(c, todo')
  BY <1>5, <1>7
<1>10. src.scope \in Seq(Key) /\ Len(src.scope) = Len(b) /\ src.scope # <<>>
  <2>1. src.scope \in Seq(Key) /\ Len(src.scope) = Len(b)
    BY <1>1 DEF Records, ReadsAs
  <2> QED  BY <1>4, <2>1
<1>11. PICK scope : scope = src.scope
  OBVIOUS
<1>12. /\ src'.scope \in Seq(Key) /\ Len(src'.scope) = Len(b) - 1
       /\ DOMAIN src'.scope = 1 .. (Len(b) - 1)
       /\ (\A i \in 1 .. (Len(b) - 1) : src'.scope[i] = scope[i])
       /\ \A p \in 0 .. (Len(b) - 1) : SubSeq(src'.scope, 1, p) = SubSeq(scope, 1, p)
  <2>1. scope \in Seq(Key) /\ Len(scope) = Len(b) /\ scope # <<>> /\ src'.scope = Front(scope)
    BY <1>10, <1>11
  <2>2. \A p \in 0 .. (Len(b) - 1) : SubSeq(Front(scope), 1, p) = SubSeq(scope, 1, p)
    BY <2>1, PrefixOfFront
  <2>3. Front(scope) \in Seq(Key) /\ Len(Front(scope)) = Len(b) - 1
        /\ \A i \in 1 .. (Len(b) - 1) : Front(scope)[i] = scope[i]
    BY <2>1, FrontLast, SMTT(30)
  <2> QED  BY <2>1, <2>2, <2>3
<1>13. ASSUME src.cut = "no"
       PROVE  /\ ObjectsType(t) /\ n = Len(b) /\ DOMAIN s = 1 .. n
              /\ DOMAIN t = 1 .. (n - 1) /\ Len(t) = n - 1
              /\ \A i \in 1 .. (n - 1) : /\ t[i].type = s[i].type /\ t[i].name = s[i].name
                                         /\ t[i].depth = s[i].depth /\ t[i].proto = s[i].proto
  <2>1. ObjectsType(s) /\ n = Len(b) /\ s # <<>>
    BY <1>1, <1>13, ObjectsIs, SameTypes
  <2>2. s \in Seq(Range(s))
    BY <2>1 DEF ObjectsType
  <2> DEFINE f == Front(s)
  <2>3. f \in Seq(Range(s)) /\ Len(f) = n - 1 /\ \A i \in 1 .. (n - 1) : f[i] = s[i]
    BY <2>1, <2>2, FrontLast
  <2>4. Alike(f, t)
    BY <1>13
  <2>5. n \in Nat \ {0} /\ DOMAIN s = 1 .. n
    BY <1>4, <2>1, <2>2
  <2> HIDE DEF f, n, t, s
  <2>6. DOMAIN f = 1 .. (n - 1)
    BY <2>3, <2>5
  <2>7. ObjectsType(t) /\ DOMAIN t = 1 .. (n - 1)
    BY <2>4, <2>6 DEF Alike
  <2>8. Len(t) = n - 1
    BY <2>5, <2>7 DEF ObjectsType
  <2>9. \A i \in 1 .. (n - 1) : /\ t[i].type = s[i].type /\ t[i].name = s[i].name
                                /\ t[i].depth = s[i].depth /\ t[i].proto = s[i].proto
    BY <2>3, <2>4, <2>6 DEF Alike
  <2> QED  BY <2>1, <2>5, <2>7, <2>8, <2>9
<1>14. Records'
  <2>1. src'.cut = "no" => ObjectsType(t)
    BY <1>13
  <2>2. DOMAIN out' = DOMAIN NewActionData
    BY DEF OutNames, NewActionData
  <2> QED  BY <1>1, <1>12, <2>1, <2>2 DEF Records, ObjectsType
<1>15. ReadsAs(c)'
  BY <1>3, <1>6, <1>8, <1>12 DEF ReadsAs
<1>16. HoldsAs(c)' /\ ExpressionOwnsLookups'
  BY <1>1, <1>2, <1>8, SameValue
<1> HIDE DEF s, t, n
<1>17. OpenAs(c)'
  <2> SUFFICES ASSUME src.cut = "no" PROVE OpenAs(c)'
    BY DEF OpenAs
  <2>1. DOMAIN s = DOMAIN b /\ \A i \in DOMAIN s : s[i].type = b[i] /\ s[i].depth = i - 1
    BY <1>1 DEF OpenAs, s
  <2>2. out.depth = n - 1
    BY <1>1, <1>2 DEF OpenAs, n
  <2>3. DOMAIN t = DOMAIN d
    BY <1>6, <1>13
  <2>4. \A i \in DOMAIN t : t[i].type = d[i] /\ t[i].depth = i - 1
    <3>1. \A i \in 1 .. (n - 1) : i \in 1 .. n
      BY <1>4, <1>13
    <3> QED  BY <1>6, <1>13, <2>1, <3>1
  <2>5. out'.depth = Len(t) - 0
    BY <1>4, <1>13, <2>2
  <2> QED  BY <1>8, <2>3, <2>4, <2>5 DEF OpenAs, t
<1>18. KeysArePath'
  <2> SUFFICES ASSUME src.cut = "no" PROVE KeysArePath'
    BY DEF KeysArePath
  <2>1. [i \in DOMAIN t |-> t[i].name] = src'.scope
    <3>1. [i \in DOMAIN s |-> s[i].name] = scope
      BY <1>1, <1>11 DEF KeysArePath, s
    <3>2. \A i \in 1 .. (n - 1) : i \in 1 .. n
      BY <1>4, <1>13
    <3>3. \A i \in 1 .. (n - 1) : t[i].name = src'.scope[i]
      BY <1>12, <1>13, <3>1, <3>2
    <3>4. src'.scope = [i \in 1 .. (n - 1) |-> src'.scope[i]]
      BY <1>12, <1>13
    <3> QED  BY <1>13, <3>3, <3>4
  <2>2. \A i \in DOMAIN t : t[i].type # "kReference"
    <3>1. \A i \in DOMAIN s : s[i].type = "kReference" => i = n
      BY <1>1 DEF KeysArePath, s, n
    <3>2. \A i \in 1 .. (n - 1) : i \in 1 .. n /\ i # n
      BY <1>4, <1>13
    <3> QED  BY <1>13, <3>1, <3>2
  <2>3. out'.keys = src'.scope \o <<>> \o <<>>
    <3>1. src'.scope \o <<>> \o <<>> = src'.scope
      BY <1>12
    <3>2. out.keys = src.scope
      BY <1>1, <1>2, NoKey
    <3> QED  BY <3>1, <3>2
  <2>4. out'.flat_keys = OpenProto(t) \o <<>>
    <3>1. OpenProto(t) = <<>>
      <4>1. t # <<>> => Last(t) = t[Len(t)] /\ Len(t) \in DOMAIN t
        BY <1>13 DEF Last, ObjectsType
      <4> QED  BY <2>2, <4>1 DEF OpenProto
    <3>2. <<>> \o <<>> = <<>>
      OBVIOUS
    <3> QED  BY <3>1, <3>2
  <2> QED  BY <1>3, <2>1, <2>2, <2>3, <2>4, KeysOfEmpty DEF KeysArePath, t
<1>19. Protos'
  <2> SUFFICES ASSUME src.cut = "no" PROVE Protos'
    BY DEF Protos
  <2> DEFINE protos == {i \in DOMAIN s : s[i].type = "kProto"}
             after == {i \in DOMAIN t : t[i].type = "kProto"}
  <2>1. /\ out.in_proto <=> protos # {}
        /\ \A p, q \in protos : p = q
        /\ \A p \in protos : out.proto_key = SubSeq(scope, 1, p)
        /\ protos = {} => out.proto_key = <<>>
        /\ \A i \in DOMAIN s :
             /\ s[i].type = "kStructInProto" => \E p \in protos : p < i
             /\ s[i].type = "kStruct" => ~ \E p \in protos : p < i
    BY <1>1, <1>11 DEF Protos, s
  <2>2. n \in Nat \ {0} /\ n \in DOMAIN s /\ s[n].type = Last(b)
    <3>1. s[n].type = Last(b)
      BY <1>1, <1>13, SameTypes DEF s
    <3> QED  BY <1>4, <1>13, <3>1
  <2>3. after = protos \ {n}
    <3>1. \A i \in DOMAIN t : i \in DOMAIN s /\ i # n /\ t[i].type = s[i].type
      BY <1>13, <2>2
    <3>2. \A i \in DOMAIN s : i # n => i \in DOMAIN t
      BY <1>13, <2>2
    <3> QED  BY <3>1, <3>2
  <2>4. \A i \in DOMAIN t : i \in DOMAIN s /\ t[i].type = s[i].type /\ ~(n < i)
    BY <1>13, <2>2
  <2>5. CASE Last(b) = "kProto"
    <3>1. n \in protos
      BY <2>2, <2>5
    <3> HIDE DEF after
    <3>2. after = {} /\ protos = {n}
      BY <2>1, <2>3, <3>1
    <3>3. \A i \in DOMAIN t : t[i].type # "kStructInProto"
      <4> HIDE DEF protos
      <4>1. SUFFICES ASSUME NEW i \in DOMAIN t, t[i].type = "kStructInProto" PROVE FALSE
        OBVIOUS
      <4>2. PICK p \in protos : p < i
        BY <2>1, <2>4, <4>1
      <4> QED  BY <2>4, <3>2, <4>2
    <3>4. ~out'.in_proto /\ out'.proto_key = <<>>
      BY <2>5
    <3> QED  BY <3>2, <3>3, <3>4 DEF Protos, after, t
  <2>6. CASE Last(b) # "kProto"
    <3>1. n \notin protos
      BY <2>2, <2>6
    <3> HIDE DEF after
    <3>2. after = protos
      BY <2>3, <3>1
    <3>3. out'.in_proto = out.in_proto /\ out'.proto_key = out.proto_key
      BY <2>6
    <3>4. \A p \in protos : SubSeq(src'.scope, 1, p) = SubSeq(scope, 1, p)
      <4>1. \A p \in protos : p \in 0 .. (n - 1)
        BY <1>13, <2>2, <3>1
      <4> QED  BY <1>12, <1>13, <4>1
    <3> HIDE DEF protos
    <3>5. \A i \in DOMAIN t :
             /\ t[i].type = "kStructInProto" => \E p \in after : p < i
             /\ t[i].type = "kStruct" => ~ \E p \in after : p < i
      BY <2>1, <2>4, <3>2
    <3>6. (out'.in_proto <=> after # {}) /\ (\A p, q \in after : p = q)
          /\ (after = {} => out'.proto_key = <<>>)
          /\ (\A p \in after : out'.proto_key = SubSeq(src'.scope, 1, p))
      BY <2>1, <3>2, <3>3, <3>4
    <3> QED  BY <3>5, <3>6 DEF Protos, after, t
  <2> QED  BY <2>5, <2>6
<1>20. Described'
  <2>1. Describes(c)'
    BY <1>8, <1>15, <1>16, <1>17 DEF Describes
  <2> QED  BY <1>9, <2>1 DEF Described
<1>21. NoErrorYet'
  BY DEF Inv, NoErrorYet
<1> QED  BY <1>14, <1>16, <1>18, <1>19, <1>20, <1>21 DEF Inv

LEMMA FrontObjects == ASSUME NEW s, ObjectsType(s), s # <<>> PROVE ObjectsType(Front(s))
<1>1. s \in Seq(Range(s))
  BY DEF ObjectsType
<1> DEFINE f == Front(s)
<1>2. f \in Seq(Range(s)) /\ Len(f) = Len(s) - 1 /\ Len(s) \in Nat \ {0}
      /\ \A i \in 1 .. (Len(s) - 1) : f[i] = s[i]
  BY <1>1, FrontLast
<1> HIDE DEF f
<1>3. f \in Seq(Range(f))
  BY <1>2, SymbolsType DEF Symbols
<1>4. \A i \in DOMAIN f : i \in DOMAIN s /\ f[i] = s[i]
  BY <1>1, <1>2
<1> QED  BY <1>3, <1>4 DEF ObjectsType, f

LEMMA EncloseKeeps ==
  ASSUME NEW o, DOMAIN o = OutNames
  PROVE  /\ DOMAIN Enclose(o) = OutNames
         /\ \A x \in OutNames \ {"objects", "cfg_res", "keys"} : Enclose(o)[x] = o[x]
         /\ Enclose(o).keys = Front(o.keys)
         /\ ObjectsType(o.objects) /\ o.objects # <<>> => Alike(Front(o.objects), Enclose(o).objects)
<1> DEFINE f == Front(o.objects)
           o1 == [o EXCEPT !.objects = f]
           k == Last(o.keys)
           v == Last(o.objects)
           p == BindData(o1, k, v)
           maps == IF p.objects = <<>> THEN Append(p.cfg_res, EmptyMap) ELSE p.cfg_res
           q == [p EXCEPT !.cfg_res = maps, !.keys = Front(@)]
<1>1. Enclose(o) = q
  BY DEF Enclose
<1> HIDE DEF f, k, v, p, maps
<1>2. DOMAIN o1 = OutNames /\ (\A x \in OutNames \ {"objects"} : o1[x] = o[x]) /\ o1.objects = f
  BY DEF OutNames
<1> HIDE DEF o1
<1>3. DOMAIN p = OutNames /\ (\A x \in OutNames \ {"objects", "cfg_res"} : p[x] = o1[x])
      /\ (ObjectsType(o1.objects) => Alike(o1.objects, p.objects))
  BY <1>2, BindDataKeeps DEF p
<1>4. DOMAIN q = OutNames /\ (\A x \in OutNames \ {"cfg_res", "keys"} : q[x] = p[x])
      /\ q.keys = Front(p.keys)
  BY <1>3 DEF OutNames
<1> HIDE DEF q
<1>5. p.keys = o.keys /\ q.objects = p.objects
  BY <1>2, <1>3, <1>4 DEF OutNames
<1>6. ObjectsType(o.objects) /\ o.objects # <<>> => ObjectsType(f)
  BY FrontObjects DEF f
<1>7. \A x \in OutNames \ {"objects", "cfg_res", "keys"} : q[x] = o[x]
  BY <1>2, <1>3, <1>4
<1>8. ObjectsType(o.objects) /\ o.objects # <<>> => Alike(f, q.objects)
  BY <1>2, <1>3, <1>5, <1>6
<1> QED  BY <1>1, <1>4, <1>5, <1>7, <1>8 DEF f

LEMMA CloseMoves ==
  ASSUME NEW a, NEW x, NEW c, Moves(a, x, c), x \in {"/STRUCT", "/PROTO", "/REFERENCE"}
  PROVE  /\ a = Closing(a.blocks) /\ a.blocks # <<>> /\ c = At(Front(a.blocks))
         /\ x = "/PROTO" <=> Last(a.blocks) = "kProto"
         /\ x = "/REFERENCE" <=> InReference(a.blocks)
<1>1. BlockMoves(a, x, c)
  BY BlockMovesOnly
<1> QED  BY <1>1 DEF BlockMoves, InReference

(* Behind the brace of a block only the action of that block can follow.   *)
LEMMA ClosingMovesOnly ==
  ASSUME NEW a, NEW x, NEW c, Moves(a, x, c), a.closing
  PROVE  x \in {"/STRUCT", "/PROTO", "/REFERENCE"}
<1>1. ~ValueMoves(a, x, c)
  BY DEF ValueMoves
<1>2. \A b, key, flat, v : ~Within(b, key, flat, v).closing
  BY DEF Within
<1>3. \A b : a # At(b)
  BY <1>2 DEF At
<1>4. ~StatementMoves(a, x, c)
  BY <1>2, <1>3 DEF StatementMoves
<1>5. BlockMoves(a, x, c)
  BY <1>1, <1>4 DEF Moves
<1> QED  BY <1>2, <1>3, <1>5 DEF BlockMoves

(* What the three have in common; after is the ActionData they leave.      *)
LEMMA ClosesInv ==
  ASSUME Inv, NEW x \in {"/STRUCT", "/PROTO", "/REFERENCE"}, todo # <<>>, Head(todo) = x,
         NEW a \in Summary, NEW c \in Summary, Describes(a), Moves(a, x, c), Leads(c, Tail(todo)),
         NEW after, Close(after), DOMAIN after = OutNames,
         \A y \in OutNames \ {"objects", "cfg_res", "keys", "flat_keys", "in_proto", "proto_key"} :
           after[y] = out[y],
         after.keys = Front(out.keys),
         src.cut = "no" =>
           /\ Alike(Front(out.objects), after.objects)
           /\ after.flat_keys = <<>>
           /\ after.in_proto = IF Last(a.blocks) = "kProto" THEN FALSE ELSE out.in_proto
           /\ after.proto_key = IF Last(a.blocks) = "kProto" THEN <<>> ELSE out.proto_key
  PROVE  Inv'
<1>1. CASE Throw("DuplicateKeyException")
  BY <1>1, ThrowInv
<1>2. CASE NoToken /\ out' = after /\ src' = [src EXCEPT !.scope = Front(@)] /\ UNCHANGED text
  <2>1. todo' = Tail(todo) /\ status' = status /\ text' = text
    BY <1>2 DEF NoToken, Matched
  <2>2. /\ DOMAIN src' = DOMAIN src /\ src'.scope = Front(src.scope) /\ src'.cut = src.cut
        /\ src'.lookups = src.lookups
    BY <1>2, OutFields
  <2>3. a = Closing(a.blocks) /\ a.blocks # <<>> /\ c = At(Front(a.blocks))
    BY CloseMoves
  <2>4. out'.obj_res = out.obj_res /\ out'.value_lookups = out.value_lookups
        /\ out'.depth = out.depth
    BY <1>2 DEF OutNames
  <2> QED  BY <1>2, <2>1, <2>2, <2>3, <2>4, CloseInv
<1> QED  BY <1>1, <1>2 DEF Close

LEMMA EncloseIs ==
  ASSUME Inv, NEW a \in Summary, OpenAs(a), a.blocks # <<>>
  PROVE  /\ DOMAIN Enclose(out) = OutNames
         /\ \A x \in OutNames \ {"objects", "cfg_res", "keys"} : Enclose(out)[x] = out[x]
         /\ Enclose(out).keys = Front(out.keys)
         /\ src.cut = "no" => Alike(Front(out.objects), Enclose(out).objects)
<1>1. DOMAIN out = OutNames
  BY OutFields DEF OutNames
<1>2. src.cut = "no" => ObjectsType(out.objects) /\ out.objects # <<>>
  BY ObjectsIs, SameTypes
<1> QED  BY <1>1, <1>2, EncloseKeeps

LEMMA ClosingIsPlain ==
  ASSUME Inv, NEW a \in Summary, Describes(a), NEW x, NEW c, Moves(a, x, c),
         x \in {"/STRUCT", "/PROTO", "/REFERENCE"}, src.cut = "no"
  PROVE  /\ out.keys = src.scope /\ out.flat_keys = OpenProto(out.objects)
         /\ ReadsAs(a) /\ OpenAs(a) /\ a.blocks # <<>>
<1>1. a = Closing(a.blocks) /\ a.blocks # <<>>
  BY CloseMoves
<1>2. a.key = "none" /\ a.flat = FALSE /\ a.lookup = FALSE
  <2>1. PICK b : a = Closing(b)
    BY <1>1
  <2> QED  BY <2>1, ClosingIs
<1>3. ReadsAs(a) /\ OpenAs(a)
  BY DEF Describes
<1> QED  BY <1>1, <1>2, <1>3, NoKey, NoFlatKey

LEMMA STRUCTInv == ASSUME Inv, STRUCT PROVE Inv'
<1>1. todo # <<>> /\ Head(todo) = "/STRUCT" /\ Close(Enclose(out))
  BY DEF STRUCT, Match
<1>2. PICK a, c : /\ Describes(a) /\ Moves(a, "/STRUCT", c) /\ Leads(c, Tail(todo))
                  /\ a \in Summary /\ c \in Summary
  BY <1>1, NextSymbol
<1>3. a.blocks # <<>> /\ ~InReference(a.blocks) /\ Last(a.blocks) # "kProto" /\ OpenAs(a)
  BY <1>2, CloseMoves DEF Describes
<1> DEFINE after == Enclose(out)
<1>4. /\ DOMAIN after = OutNames
      /\ \A x \in OutNames \ {"objects", "cfg_res", "keys"} : after[x] = out[x]
      /\ after.keys = Front(out.keys)
      /\ src.cut = "no" => Alike(Front(out.objects), after.objects)
  BY <1>2, <1>3, EncloseIs
<1>5. src.cut = "no" => out.flat_keys = <<>>
  BY <1>2, <1>3, ClosingIsPlain, NoReference
<1> HIDE DEF after
<1>6. after.in_proto = out.in_proto /\ after.proto_key = out.proto_key
      /\ after.flat_keys = out.flat_keys
  BY <1>4 DEF OutNames
<1>7. Close(after)
  BY <1>1 DEF after
<1> QED  BY <1>1, <1>2, <1>3, <1>4, <1>5, <1>6, <1>7, ClosesInv

LEMMA PROTOInv == ASSUME Inv, PROTO PROVE Inv'
<1> DEFINE ends == out.in_proto /\ out.proto_key = out.keys
           p == Enclose(out)
           in_proto == p.in_proto /\ ~ends
           proto_key == IF ends THEN <<>> ELSE p.proto_key
           after == [p EXCEPT !.in_proto = in_proto, !.proto_key = proto_key]
<1>1. todo # <<>> /\ Head(todo) = "/PROTO" /\ Close(after)
  BY DEF PROTO, Match
<1>2. PICK a, c : /\ Describes(a) /\ Moves(a, "/PROTO", c) /\ Leads(c, Tail(todo))
                  /\ a \in Summary /\ c \in Summary
  BY <1>1, NextSymbol
<1>3. a.blocks # <<>> /\ Last(a.blocks) = "kProto" /\ OpenAs(a) /\ ReadsAs(a)
  BY <1>2, CloseMoves DEF Describes
<1>4. /\ DOMAIN p = OutNames
      /\ \A x \in OutNames \ {"objects", "cfg_res", "keys"} : p[x] = out[x]
      /\ p.keys = Front(out.keys)
      /\ src.cut = "no" => Alike(Front(out.objects), p.objects)
  BY <1>2, <1>3, EncloseIs
<1>5. src.cut = "no" => out.flat_keys = <<>>
  <2>1. ~InReference(a.blocks)
    BY <1>3 DEF InReference
  <2> QED  BY <1>2, <1>3, <2>1, ClosingIsPlain, NoReference
<1>6. ASSUME src.cut = "no" PROVE ends
  <2> DEFINE s == out.objects
             n == Len(a.blocks)
             protos == {i \in DOMAIN out.objects : out.objects[i].type = "kProto"}
  <2>1. n \in DOMAIN s /\ s[n].type = "kProto"
    BY <1>2, <1>3, <1>6, SameTypes
  <2>2. n \in protos
    BY <2>1
  <2>3. out.in_proto /\ out.proto_key = SubSeq(src.scope, 1, n)
    BY <1>6, <2>2 DEF Inv, Protos
  <2>4. SubSeq(src.scope, 1, n) = src.scope
    <3>1. src.scope \in Seq(Key) /\ Len(src.scope) = n
      BY <1>3 DEF Inv, Records, ReadsAs
    <3> QED  BY <3>1
  <2>5. out.keys = src.scope
    BY <1>2, <1>6, ClosingIsPlain
  <2> QED  BY <2>3, <2>4, <2>5
<1> HIDE DEF p, ends
<1>7. DOMAIN after = OutNames
      /\ (\A x \in OutNames \ {"in_proto", "proto_key"} : after[x] = p[x])
      /\ after.in_proto = in_proto /\ after.proto_key = proto_key
  <2> HIDE DEF in_proto, proto_key
  <2> QED  BY <1>4 DEF OutNames
<1>8. src.cut = "no" => after.in_proto = FALSE /\ after.proto_key = <<>>
  BY <1>6, <1>7
<1> HIDE DEF after
<1>9. \A y \in OutNames \ {"objects", "cfg_res", "keys", "flat_keys", "in_proto", "proto_key"} :
        after[y] = out[y]
  BY <1>4, <1>7
<1>10. after.keys = Front(out.keys) /\ after.objects = p.objects /\ after.flat_keys = out.flat_keys
  BY <1>4, <1>7 DEF OutNames
<1>11. src.cut = "no" => Alike(Front(out.objects), after.objects)
  BY <1>4, <1>10
<1> QED  BY <1>1, <1>2, <1>3, <1>5, <1>7, <1>8, <1>9, <1>10, <1>11, ClosesInv

LEMMA REFERENCEInv == ASSUME Inv, REFERENCE PROVE Inv'
<1> DEFINE p == Enclose(out)
           after == [p EXCEPT !.flat_keys = Front(@)]
<1>1. todo # <<>> /\ Head(todo) = "/REFERENCE" /\ Close(after)
  BY DEF REFERENCE, Match
<1>2. PICK a, c : /\ Describes(a) /\ Moves(a, "/REFERENCE", c) /\ Leads(c, Tail(todo))
                  /\ a \in Summary /\ c \in Summary
  BY <1>1, NextSymbol
<1>3. a.blocks # <<>> /\ InReference(a.blocks) /\ Last(a.blocks) # "kProto" /\ OpenAs(a)
  BY <1>2, CloseMoves DEF Describes
<1>4. /\ DOMAIN p = OutNames
      /\ \A x \in OutNames \ {"objects", "cfg_res", "keys"} : p[x] = out[x]
      /\ p.keys = Front(out.keys)
      /\ src.cut = "no" => Alike(Front(out.objects), p.objects)
  BY <1>2, <1>3, EncloseIs
<1>5. src.cut = "no" => Front(out.flat_keys) = <<>>
  <2>1. src.cut = "no" => out.flat_keys = <<Last(out.objects).proto>>
    BY <1>2, <1>3, ClosingIsPlain, ReferenceIsOpen DEF OpenProto
  <2> QED  BY <2>1, FrontOfOne
<1> HIDE DEF p
<1>6. DOMAIN after = OutNames /\ (\A x \in OutNames \ {"flat_keys"} : after[x] = p[x])
      /\ after.flat_keys = Front(p.flat_keys)
  BY <1>4 DEF OutNames
<1> HIDE DEF after
<1>7. \A y \in OutNames \ {"objects", "cfg_res", "keys", "flat_keys", "in_proto", "proto_key"} :
        after[y] = out[y]
  BY <1>4, <1>6
<1>8. after.keys = Front(out.keys) /\ after.objects = p.objects
      /\ after.flat_keys = Front(out.flat_keys)
      /\ after.in_proto = out.in_proto /\ after.proto_key = out.proto_key
  BY <1>4, <1>6 DEF OutNames
<1>9. src.cut = "no" => Alike(Front(out.objects), after.objects)
  BY <1>4, <1>8
<1> QED  BY <1>1, <1>2, <1>3, <1>5, <1>6, <1>7, <1>8, <1>9, ClosesInv

-----------------------------------------------------------------------------
(* The theorems. *)

LEMMA NextInv == ASSUME Inv, [Next]_vars PROVE Inv'
<1>1. CASE Expand
  BY <1>1, ExpandInv
<1>2. CASE Keys
  BY <1>2, KEYInv, OVERRIDEkInv, FLAT_KEYInv DEF Keys
<1>3. CASE Values
  BY <1>3, SCALARInv, VALUEInv, VARInv, PARENTNAMEkInv, PARTInv, VALUE_LOOKUPInv, EoInv,
     EXPRESSIONInv, SBoInv, ElementInv, SBcInv DEF Values
<1>4. CASE Pairs
  BY <1>4, PAIRInv, FULLPAIRInv, PROTO_PAIRInv, REF_ADDKVPInv, REF_VARDEFInv DEF Pairs
<1>5. CASE BlockSteps
  BY <1>5, STRUCTsInv, PROTOsInv, REFsInv, CBoInv, CBcInv, STRUCTInv, PROTOInv, REFERENCEInv
  DEF BlockSteps
<1>6. CASE NextFile \/ Accept \/ SyntaxError \/ CutShort
  BY <1>6, NextFileInv, AcceptInv, SyntaxErrorInv, CutShortInv
<1>7. CASE UNCHANGED vars
  <2>1. todo' = todo /\ text' = text /\ out' = out /\ src' = src /\ status' = status
    BY <1>7 DEF vars
  <2>2. PICK a : Describes(a) /\ Leads(a, todo)
    BY DEF Inv, Described
  <2>3. Describes(a)'
    BY <2>1, <2>2 DEF Describes, ReadsAs, HoldsAs, OpenAs
  <2>4. Described'
    BY <2>1, <2>2, <2>3 DEF Described
  <2> QED  BY <2>1, <2>4, OnlyTodo
<1> QED  BY <1>1, <1>2, <1>3, <1>4, <1>5, <1>6, <1>7 DEF Next, Parse, Ended

LEMMA AlwaysInv == Spec => []Inv
<1>1. Inv /\ [Next]_vars => Inv'
  BY NextInv
<1> QED  BY <1>1, InitInv, PTL DEF Spec

(* keys is the path of the source and flat_keys the proto and the flat key *)
(* being read, whatever was parsed before (actions.h:153-164, 552-610).    *)
THEOREM KeysFollowPath == Spec => []KeysArePath
<1>1. Inv => KeysArePath
  BY DEF Inv
<1> QED  BY <1>1, AlwaysInv, PTL

(* An expression holds the lookups between its own braces                  *)
(* (actions.h:356-380).                                                    *)
THEOREM LookupsOwned == Spec => []ExpressionOwnsLookups
<1>1. Inv => ExpressionOwnsLookups
  BY DEF Inv
<1> QED  BY <1>1, AlwaysInv, PTL

(* in_proto, proto_key and the types of the structs agree with the protos  *)
(* that are open (actions.h:796-818, 880-889).                             *)
LEMMA InvProtoScope == Inv => ProtoScope
<1> SUFFICES ASSUME Inv, src.cut = "no" PROVE ProtoScope
  BY DEF ProtoScope
<1> DEFINE protos == {i \in DOMAIN out.objects : out.objects[i].type = "kProto"}
           read == src.scope \o text.key
           looked == KeysOf(text.lookup)
<1>1. /\ out.in_proto <=> protos # {}
      /\ \A p, q \in protos : p = q
      /\ \A p \in protos : out.proto_key = SubSeq(src.scope, 1, p)
      /\ protos = {} => out.proto_key = <<>>
      /\ \A i \in DOMAIN out.objects :
           /\ out.objects[i].type = "kStructInProto" => \E p \in protos : p < i
           /\ out.objects[i].type = "kStruct" => ~\E p \in protos : p < i
  BY DEF Inv, Protos
<1>2. src.scope \in Seq(Key) /\ text.key \in Seq(Key) /\ looked \in Seq(Key)
  BY KeysOfType DEF Inv, Records
<1>3. out.keys = read \o looked
  BY DEF Inv, KeysArePath
<1>4. DOMAIN out.objects = DOMAIN src.scope
  <2>1. [i \in DOMAIN out.objects |-> out.objects[i].name] = src.scope
    BY DEF Inv, KeysArePath
  <2> QED  BY <2>1
<1> HIDE DEF looked
<1>5. ASSUME NEW p \in protos PROVE SubSeq(out.keys, 1, p) = SubSeq(src.scope, 1, p)
  <2>1. p \in 1 .. Len(src.scope)
    BY <1>2, <1>4
  <2>2. read \in Seq(Key) /\ p \in 1 .. Len(read) /\ SubSeq(read, 1, p) = SubSeq(src.scope, 1, p)
    BY <1>2, <2>1, PrefixOfConcat, ZenonT(40)
  <2> HIDE DEF read
  <2>3. SubSeq(read \o looked, 1, p) = SubSeq(read, 1, p)
    BY <1>2, <2>2, PrefixOfConcat
  <2> QED  BY <1>3, <2>2, <2>3
<1> QED  BY <1>1, <1>5 DEF ProtoScope

THEOREM ProtosMarked == Spec => []ProtoScope
BY InvProtoScope, AlwaysInv, PTL

(* No file in the grammar reaches a state that the code reports as its own *)
(* error (actions.h:180-203, 614-617, 658-669, 709-716;                    *)
(* config_parser.cpp:35-38).                                               *)
LEMMA InvNoInternalError == Inv => NoInternalError
BY NothingOpen DEF Inv, NoErrorYet, NoInternalError

THEOREM NoErrorOfItsOwn == Spec => []NoInternalError
BY InvNoInternalError, AlwaysInv, PTL

(* The depth of a block is its nesting in the source, whatever was opened  *)
(* and closed before it (actions.h:796-829, 923-929).                      *)
LEMMA InvDepthIsNesting == Inv => DepthIsNesting
<1> SUFFICES ASSUME Inv, src.cut = "no" PROVE DepthIsNesting
  BY DEF DepthIsNesting
<1> DEFINE closing == todo # <<>> /\ Head(todo) \in {"/STRUCT", "/PROTO", "/REFERENCE"}
<1>1. PICK a : Describes(a) /\ (a.closing <=> closing)
  <2>1. CASE todo = <<>>
    <3>1. Describes(At(<<>>))
      BY <2>1, AtEndOfFile
    <3> QED  BY <2>1, <3>1, ClosingIs
  <2>2. CASE todo # <<>>
    <3>1. PICK a, c : Describes(a) /\ Moves(a, Head(todo), c)
      BY <2>2, NextSymbol
    <3>2. ASSUME closing PROVE a.closing
      <4>1. a = Closing(a.blocks)
        BY <3>1, <3>2, CloseMoves
      <4>2. Closing(a.blocks).closing
        BY ClosingIs
      <4> QED  BY <4>1, <4>2
    <3>3. a.closing => closing
      BY <2>2, <3>1, ClosingMovesOnly
    <3> QED  BY <3>1, <3>2, <3>3
  <2> QED  BY <2>1, <2>2
<1> HIDE DEF closing
<1>2. /\ \A i \in DOMAIN out.objects : out.objects[i].depth = i - 1
      /\ out.depth = Len(out.objects) - (IF closing THEN 1 ELSE 0)
  BY <1>1 DEF Describes, OpenAs
<1> QED  BY <1>2 DEF DepthIsNesting, closing

THEOREM DepthsAreNesting == Spec => []DepthIsNesting
BY InvDepthIsNesting, AlwaysInv, PTL
=============================================================================
