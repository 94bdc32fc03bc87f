---------------------------- MODULE ParserActions ----------------------------
(***************************************************************************)
(* config/grammar.h and config/actions.h: how the text of a config becomes *)
(* the tree of ActionData.  PEGTL matches the rules of the grammar and     *)
(* calls the action of a rule when it has matched; the actions communicate *)
(* only through the fields of one ActionData: the stack of keys, the flat  *)
(* key, the last value read, the open blocks, the lists, the override flag.*)
(*                                                                         *)
(* todo is the grammar's side: the symbols still to be matched, first one  *)
(* first.  A rule name is replaced by one of its alternatives (Expand); a  *)
(* terminal or "/RULE" (the rule has matched) is an action of actions.h.   *)
(* text is what in.string() gives the actions, and src records what the    *)
(* source states, whatever the actions make of it.  A file that includes   *)
(* others is parsed after them into the same ActionData, so a document is  *)
(* the sequence of the bodies of its files.                                *)
(***************************************************************************)
EXTENDS Naturals, Sequences, SequencesExt

CONSTANTS
  Key,        \* the texts a KEY can have
  Var,        \* the texts a VAR can have
  Scalar,     \* the types of the literal values: kNumber, kString, kBoolean
  Bounds      \* bounds: each [unused |-> the symbols of the grammar a document
              \* does not use, tokens |-> the keys, literals, variables,
              \* expressions and lists and files |-> the files it has at most]

ASSUME BoundsAssumption == \A b \in Bounds : b.tokens \in Nat /\ b.files \in Nat \ {0}
ASSUME NamesAssumption == Key \cap Var = {}
ASSUME ScalarAssumption == Scalar \subseteq {"kNumber", "kString", "kBoolean"}

VARIABLES
  bound,   \* the bounds of this document
  todo,    \* the symbols the grammar has yet to match
  text,    \* what the statement being matched has read: its key or flat key,
           \* its [override], the lookup in its value
  out,     \* the ActionData
  src,     \* history: what the source states.  The blocks open, the values
           \* bound, the lookups read since an expression began, where a file
           \* was cut short
  tokens,  \* the tokens read so far; also the position of a value
  files,   \* the files begun
  status   \* "parsing", "accepted" or the exception parsing ended with

vars == <<bound, todo, text, out, src, tokens, files, status>>

-----------------------------------------------------------------------------
(* The grammar. Content of a block, and lists of elements, are one rule.   *)

Plus(rules, again) == {<<r>> : r \in rules} \cup {<<r, again>> : r \in rules}
Star(rules, again) == {<<>>} \cup {<<r, again>> : r \in rules}

Grammar == [
  \* FULLPAIRs, the first of which is no PAIR (not_at<PAIR>), or a block's content
  config_fields |-> {<<>>, <<"STRUCTc">>, <<"FULLPAIR1", "FULLPAIRs">>},
  FULLPAIRs  |-> Star({"FULLPAIR"}, "FULLPAIRs"),
  FULLPAIR1  |-> {<<"KEY", "KEY", "KEYs", "/FLAT_KEY", "OVERRIDE", "VALUE", "/FULLPAIR">>},
  FULLPAIR   |-> {<<"KEY", "KEYs", "/FLAT_KEY", "OVERRIDE", "VALUE", "/FULLPAIR">>},
  KEYs       |-> Star({"KEY"}, "KEYs"),
  OVERRIDE   |-> {<<>>, <<"OVERRIDEk">>},
  STRUCTc    |-> Plus({"PAIR", "STRUCT", "REFERENCE", "PROTO"}, "STRUCTc"),
  PROTOc     |-> Plus({"PROTO_PAIR", "STRUCT_IN_PROTO", "REFERENCE"}, "PROTOc"),
  REFc       |-> Star({"REF_VARDEF", "REF_ADDKVP"}, "REFc"),
  STRUCT     |-> {<<"KEY", "/STRUCTs", "CBo", "STRUCTc", "CBc", "/STRUCT">>},
  STRUCT_IN_PROTO |-> {<<"KEY", "/STRUCTs", "CBo", "PROTOc", "CBc", "/STRUCT">>},
  PROTO      |-> {<<"KEY", "/PROTOs", "CBo", "PROTOc", "CBc", "/PROTO">>},
  REFERENCE  |-> {<<"KEY", "KEYs", "/FLAT_KEY", "KEY", "/REFs",
                  "CBo", "REFc", "CBc", "/REFERENCE">>},
  PAIR       |-> {<<"KEY", "OVERRIDE", "VALUE", "/PAIR">>},
  \* a list with variables is first tried as a LIST, which fails after SBo and
  \* some elements, and then matched as a PROTO_LIST
  PROTO_PAIR |-> {<<"KEY", "VALUE", "/PROTO_PAIR">>, <<"KEY", "VAR", "/PROTO_PAIR">>,
                  <<"KEY", "SBo", "ELEMENTs", "SBo", "PROTO_ELEMENTs", "SBc", "/PROTO_PAIR">>},
  REF_ADDKVP |-> {<<"KEY", "VALUE", "/REF_ADDKVP">>},
  REF_VARDEF |-> {<<"VARDEF", "VALUE", "/REF_VARDEF">>, <<"VARDEF", "PARENTNAMEk", "/REF_VARDEF">>},
  VALUE      |-> {<<"SCALAR", "/VALUE">>, <<"VALUE_LOOKUP", "/VALUE">>,
                  <<"Eo", "OPERANDs", "/EXPRESSION", "/VALUE">>,
                  <<"SBo", "ELEMENTs", "SBc", "/VALUE">>},
  ELEMENTs   |-> {<<>>, <<"VALUE", "/element", "ELEMENTs">>},
  PROTO_ELEMENTs |-> {<<>>, <<"VALUE", "/element", "PROTO_ELEMENTs">>,
                      <<"VAR", "/element", "PROTO_ELEMENTs">>},
  OPERANDs   |-> Star({"VAR", "VALUE_LOOKUP"}, "OPERANDs"),
  VALUE_LOOKUP |-> {<<"PART", "PARTs", "/VALUE_LOOKUP">>},
  PARTs      |-> Star({"PART"}, "PARTs")]

Count(symbol) == Len(SelectSeq(todo, LAMBDA s : s = symbol))
(* Past the CBo of a block the rest must match (if_must).                  *)
InBlock == Count("CBc") > Count("CBo")
(* The next symbol is still to be found in the text, and may be missing.   *)
Reads ==
  IF todo = <<>> THEN TRUE
  ELSE Head(todo) \in DOMAIN Grammar \cup
    {"KEY", "PART", "VAR", "VARDEF", "PARENTNAMEk", "OVERRIDEk", "SCALAR", "SBo", "SBc",
     "Eo", "/EXPRESSION", "/VALUE_LOOKUP", "CBo", "CBc"}

-----------------------------------------------------------------------------
(* ActionData and the objects of the tree. *)

EmptyMap == [k \in {} |-> {}]
Bind(map, k, v) == [x \in DOMAIN map \cup {k} |-> IF x = k THEN v ELSE map[x]]

(* ConfigValue, ConfigVar, ConfigValueLookup, ConfigExpression, ConfigList *)
Value(type, line, holds) == [type |-> type, line |-> line, holds |-> holds]
NullPtr == Value("nullptr", 0, <<>>)

(* ConfigStruct, ConfigProto and ConfigReference.                          *)
Block(type, name, depth, proto, data) ==
  [type |-> type, name |-> name, depth |-> depth, proto |-> proto,
   data |-> data, ref_vars |-> EmptyMap]

DEFAULT_RES == "***"

NewActionData == [
  depth |-> 0, result |-> DEFAULT_RES, keys |-> <<>>, flat_keys |-> <<>>,
  in_proto |-> FALSE, proto_key |-> <<>>, value_lookups |-> {},
  cfg_res |-> <<EmptyMap>>, obj_res |-> NullPtr, lists |-> <<>>, objects |-> <<>>,
  is_override |-> FALSE, override_values |-> EmptyMap]

(* out.objects.empty() ? out.cfg_res.back() : out.objects.back()->data     *)
Data(o) == IF o.objects = <<>> THEN Last(o.cfg_res) ELSE Last(o.objects).data
BindData(o, k, v) ==
  IF o.objects = <<>>
  THEN [o EXCEPT !.cfg_res[Len(o.cfg_res)] = Bind(@, k, v)]
  ELSE [o EXCEPT !.objects[Len(o.objects)].data = Bind(@, k, v)]

(* helpers::unflatten(keys but the last, {{last key, value}})              *)
Unflatten(flat, value) ==
  LET n == Len(flat)
      inner(i, map) == Bind(EmptyMap, flat[i], Block("kStruct", flat[i], i - 1, <<>>, map))
  IN  FoldRight(inner, [i \in 1 .. (n - 1) |-> i], Bind(EmptyMap, flat[n], value))

(* helpers::listElementValid: the element type the list has with one more  *)
(* element of a type, "invalid" when the types do not mix.                 *)
ListWith(elem, type) ==
  CASE type \in {"kVar", "kValueLookup"} -> elem
    [] type = "kExpression" /\ elem \in {"kUnknown", "kNumber"} -> "kNumber"
    [] type \notin {"kVar", "kValueLookup", "kExpression"}
         /\ elem \in {"kUnknown", type} -> type
    [] OTHER -> "invalid"

-----------------------------------------------------------------------------
NewText == [key |-> <<>>, flat |-> <<>>, over |-> FALSE, lookup |-> <<>>]
NewSource == [scope |-> <<>>, bound |-> {}, lookups |-> {}, cut |-> "no"]

Init ==
  /\ bound \in Bounds
  /\ todo = <<"config_fields">>
  /\ text = NewText
  /\ out = NewActionData
  /\ src = NewSource
  /\ tokens = 0
  /\ files = 1
  /\ status = "parsing"

(* An exception leaves parse(): the ActionData is destroyed with it.       *)
Throw(exception) ==
  /\ status' = exception
  /\ todo' = <<>> /\ text' = NewText /\ out' = NewActionData
  /\ src' = [NewSource EXCEPT !.cut = src.cut] /\ tokens' = 0 /\ files' = 0

(* The next symbol is matched, and its action runs.                        *)
Match(symbol) ==
  /\ todo # <<>> /\ Head(todo) = symbol
Matched ==
  /\ todo' = Tail(todo)
  /\ UNCHANGED <<files, status>>
(* A symbol that reads a token, and one that reads none.                   *)
Token == Matched /\ tokens < bound.tokens /\ tokens' = tokens + 1
NoToken == Matched /\ UNCHANGED tokens

Expand ==
  /\ todo # <<>> /\ Head(todo) \in DOMAIN Grammar
  /\ \E alternative \in Grammar[Head(todo)] :
       /\ Range(alternative) \cap bound.unused = {}
       /\ todo' = alternative \o Tail(todo)
  /\ UNCHANGED <<text, out, src, tokens, files, status>>

-----------------------------------------------------------------------------
(* Keys. *)

PushKey(k) == out' = [out EXCEPT !.keys = Append(@, k), !.is_override = FALSE]

KEY ==
  /\ Match("KEY") /\ Token
  /\ \E k \in Key : PushKey(k) /\ text' = [text EXCEPT !.key = Append(@, k)]
  /\ UNCHANGED src

OVERRIDEk ==
  /\ Match("OVERRIDEk") /\ NoToken
  /\ out' = [out EXCEPT !.is_override = TRUE]
  /\ text' = [text EXCEPT !.over = TRUE]
  /\ UNCHANGED src

(* FLAT_KEY consumes the keys it is made of.                               *)
FLAT_KEY ==
  /\ Match("/FLAT_KEY") /\ NoToken
  /\ out' = IF Len(out.keys) < Len(text.key) THEN out
            ELSE [out EXCEPT !.keys = SubSeq(@, 1, Len(@) - Len(text.key)),
                             !.flat_keys = Append(@, text.key)]
  /\ text' = [text EXCEPT !.flat = text.key, !.key = <<>>]
  /\ UNCHANGED src

-----------------------------------------------------------------------------
(* Values. *)

SetValue(value) == out' = [out EXCEPT !.obj_res = value]

(* HEX, STRING, FLOAT, INTEGER, TRUE and FALSE.                            *)
SCALAR ==
  /\ Match("SCALAR") /\ Token
  /\ \E type \in Scalar : SetValue(Value(type, 0, <<>>))
  /\ UNCHANGED <<text, src>>

(* The position of the value; a null obj_res is a logic_error.             *)
VALUE ==
  /\ Match("/VALUE")
  /\ IF out.obj_res = NullPtr THEN Throw("logic_error")
     ELSE NoToken /\ out' = [out EXCEPT !.obj_res.line = tokens] /\ UNCHANGED <<text, src>>

ReadVar(v) == out' = [out EXCEPT !.result = v, !.obj_res = Value("kVar", tokens, <<v>>)]
(* VARDEF is the VAR that a REF_VARDEF defines.                            *)
VAR ==
  /\ Match("VAR") \/ Match("VARDEF")
  /\ Token
  /\ \E v \in Var : ReadVar(v)
  /\ UNCHANGED <<text, src>>

PARENTNAMEk ==
  /\ Match("PARENTNAMEk") /\ Token
  /\ SetValue(Value("kString", 0, <<Last(out.objects).name>>))
  /\ UNCHANGED <<text, src>>

(* A KEY or a VAR between the parentheses of a VALUE_LOOKUP.               *)
PART ==
  /\ Match("PART") /\ Token
  /\ \/ \E k \in Key : PushKey(k) /\ text' = [text EXCEPT !.lookup = Append(@, k)]
     \/ \E v \in Var : ReadVar(v) /\ text' = [text EXCEPT !.lookup = Append(@, v)]
  /\ UNCHANGED src

(* VALUE_LOOKUP takes its own keys off the stack, last one first.          *)
(* Mutant: a key for every part, the variables included.                   *)
WithoutLookupLength(keys, parts) ==
  IF Len(keys) < Len(parts) THEN <<>> ELSE SubSeq(keys, 1, Len(keys) - Len(parts))
WithoutLookup(keys, parts) ==
  LET pop(ks, part) == IF ks # <<>> /\ Last(ks) = part THEN Front(ks) ELSE ks
  IN  FoldLeft(pop, keys, Reverse(parts))
VALUE_LOOKUP ==
  /\ Match("/VALUE_LOOKUP") /\ NoToken
  /\ out' = [out EXCEPT !.keys = WithoutLookup(@, text.lookup),
                        !.obj_res = Value("kValueLookup", tokens, text.lookup),
                        !.value_lookups = @ \cup {text.lookup}]
  /\ src' = [src EXCEPT !.lookups = @ \cup {text.lookup}]
  /\ text' = [text EXCEPT !.lookup = <<>>]

(* Mutant: earlier lookups stay.                                           *)
EoKeepsLookups ==
  /\ Match("Eo") /\ Token
  /\ src' = [src EXCEPT !.lookups = {}]
  /\ UNCHANGED <<text, out>>
Eo ==
  /\ Match("Eo") /\ Token
  /\ out' = [out EXCEPT !.value_lookups = {}]
  /\ src' = [src EXCEPT !.lookups = {}]
  /\ UNCHANGED text

EXPRESSION ==
  /\ Match("/EXPRESSION") /\ NoToken
  /\ out' = [out EXCEPT !.obj_res = Value("kExpression", tokens, out.value_lookups),
                        !.value_lookups = {}]
  /\ UNCHANGED <<text, src>>

(* LIST::begin, LIST::element, PROTO_LIST::element and LIST::end.          *)
SBo ==
  /\ Match("SBo") /\ Token
  /\ out' = [out EXCEPT !.lists = Append(@, [elem |-> "kUnknown", data |-> <<>>])]
  /\ UNCHANGED <<text, src>>

Element ==
  /\ Match("/element")
  /\ LET list == Last(out.lists)
         elem == ListWith(list.elem, out.obj_res.type)
     IN  IF elem = "invalid" THEN Throw("InvalidTypeException")
         ELSE /\ NoToken
              /\ out' = [out EXCEPT
                   !.lists[Len(out.lists)] =
                       [elem |-> elem, data |-> Append(list.data, out.obj_res)],
                   !.obj_res = NullPtr]
              /\ UNCHANGED <<text, src>>

SBc ==
  /\ Match("SBc") /\ NoToken
  /\ out' = [out EXCEPT !.obj_res = Value("kList", 0, Last(out.lists).data),
                        !.lists = Front(@)]
  /\ UNCHANGED <<text, src>>

-----------------------------------------------------------------------------
(* Key/value statements.  GrammarError is the InvalidTypeException that "the *)
(* only way to get here is if there is an error in the grammar" announces. *)

(* What the source states: value number line under path, as an override.   *)
State(key) ==
  /\ src' = [src EXCEPT !.bound = @ \cup
       {[path |-> src.scope \o key, line |-> out.obj_res.line, over |-> text.over]}]
  /\ text' = NewText

(* The value in obj_res is bound and the last key consumed.                *)
(* Mutant: the value is not taken out of obj_res.                          *)
BoundLastKeepsValue(o) == [BindData(o, Last(o.keys), o.obj_res) EXCEPT !.keys = Front(@)]
BoundLast(o) == [BindData(o, Last(o.keys), o.obj_res) EXCEPT
                   !.keys = Front(@), !.obj_res = NullPtr]
Override(o, flatKey) == [o EXCEPT
  !.override_values = Bind(@, flatKey, o.obj_res), !.obj_res = NullPtr]

PAIR ==
  /\ Match("/PAIR")
  /\ IF out.keys = <<>> THEN Throw("InvalidStateException")
     ELSE IF ~out.is_override /\ Last(out.keys) \in DOMAIN Data(out)
     THEN Throw("DuplicateKeyException")
     ELSE IF out.is_override /\ out.keys \in DOMAIN out.override_values
     THEN Throw("DuplicateOverrideException")
     ELSE /\ NoToken /\ State(text.key)
          /\ out' = IF out.is_override
                    THEN [Override(out, out.keys) EXCEPT !.keys = Front(@)]
                    ELSE BoundLast(out)

(* Mutant: the value replaces the last map of cfg_res.                     *)
FULLPAIRReplaces ==
  /\ Match("/FULLPAIR")
  /\ NoToken /\ State(text.flat)
  /\ out' = [out EXCEPT !.obj_res = NullPtr, !.flat_keys = Front(@),
                        !.cfg_res[Len(out.cfg_res)] = Unflatten(Last(out.flat_keys), out.obj_res)]
FULLPAIR ==
  /\ Match("/FULLPAIR")
  /\ IF out.flat_keys = <<>> \/ out.objects # <<>> THEN Throw("InvalidStateException")
     ELSE IF out.is_override /\ Last(out.flat_keys) \in DOMAIN out.override_values
     THEN Throw("DuplicateOverrideException")
     ELSE /\ NoToken /\ State(text.flat)
          /\ out' = IF out.is_override
                    THEN [Override(out, Last(out.flat_keys)) EXCEPT !.flat_keys = Front(@)]
                    ELSE [out EXCEPT
                            !.cfg_res = Append(@, Unflatten(Last(out.flat_keys), out.obj_res)),
                            !.obj_res = NullPtr,
                            !.flat_keys = Front(@)]

PROTO_PAIR ==
  /\ Match("/PROTO_PAIR")
  /\ IF Last(out.objects).type \notin {"kProto", "kStructInProto"}
     THEN Throw("GrammarError")
     ELSE IF Last(out.keys) \in DOMAIN Data(out) THEN Throw("DuplicateKeyException")
     ELSE /\ NoToken /\ State(text.key)
          /\ out' = [BoundLast(out) EXCEPT !.result = DEFAULT_RES]

REF_ADDKVP ==
  /\ Match("/REF_ADDKVP")
  /\ IF Last(out.objects).type # "kReference" THEN Throw("GrammarError")
     ELSE IF Last(out.keys) \in DOMAIN Data(out) THEN Throw("DuplicateKeyException")
     ELSE NoToken /\ State(text.key) /\ out' = BoundLast(out)

REF_VARDEF ==
  /\ Match("/REF_VARDEF")
  /\ IF Last(out.objects).type # "kReference" THEN Throw("GrammarError")
     ELSE /\ NoToken
          /\ out' = [out EXCEPT
               !.objects[Len(out.objects)].ref_vars = Bind(@, out.result, out.obj_res),
               !.obj_res = NullPtr, !.result = DEFAULT_RES]
          /\ text' = NewText
          /\ UNCHANGED src

-----------------------------------------------------------------------------
(* Blocks. *)

Open(type, proto) ==
  /\ NoToken
  /\ src' = [src EXCEPT !.scope = Append(@, Last(text.key))]
  /\ text' = NewText
  /\ out' = [out EXCEPT
       !.objects = Append(@, Block(type, Last(out.keys), out.depth, proto, EmptyMap)),
       !.depth = @ + 1,
       !.in_proto = @ \/ type = "kProto",
       !.proto_key = IF type = "kProto" THEN out.keys ELSE @]

STRUCTs ==
  Match("/STRUCTs") /\ Open(IF out.in_proto THEN "kStructInProto" ELSE "kStruct", <<>>)
PROTOs == Match("/PROTOs") /\ Open("kProto", <<>>)
REFs == Match("/REFs") /\ Open("kReference", Last(out.flat_keys))

CBo == Match("CBo") /\ NoToken /\ UNCHANGED <<text, out, src>>

(* Mutant: the depth is not given back.                                    *)
CBcKeepsDepth == Match("CBc") /\ NoToken /\ UNCHANGED <<text, out, src>>
CBc ==
  /\ Match("CBc") /\ NoToken
  /\ out' = [out EXCEPT !.depth = @ - 1]
  /\ UNCHANGED <<text, src>>

(* The block just closed moves into what encloses it; a new cfg_res entry  *)
(* follows a block at the top level.                                       *)
(* Mutant: the depth is given back once more.                              *)
EncloseDepth(o) ==
  LET moved == BindData([o EXCEPT !.objects = Front(@)], Last(o.keys), Last(o.objects))
  IN  [moved EXCEPT !.cfg_res = IF moved.objects = <<>> THEN Append(@, EmptyMap) ELSE @,
                    !.keys = Front(@), !.depth = @ - 1]
Enclose(o) ==
  LET moved == BindData([o EXCEPT !.objects = Front(@)], Last(o.keys), Last(o.objects))
  IN  [moved EXCEPT !.cfg_res = IF moved.objects = <<>> THEN Append(@, EmptyMap) ELSE @,
                    !.keys = Front(@)]
Close(after) ==
  IF Last(out.keys) \in DOMAIN Data([out EXCEPT !.objects = Front(@)])
  THEN Throw("DuplicateKeyException")
  ELSE /\ NoToken /\ out' = after
       /\ src' = [src EXCEPT !.scope = Front(@)] /\ UNCHANGED text

STRUCT == Match("/STRUCT") /\ Close(Enclose(out))
(* Mutant: in_proto and proto_key are not reset.                           *)
PROTOStays == Match("/PROTO") /\ Close(Enclose(out))
PROTO ==
  LET ends == out.in_proto /\ out.proto_key = out.keys
  IN  Match("/PROTO") /\ Close([Enclose(out) EXCEPT
        !.in_proto = @ /\ ~ends, !.proto_key = IF ends THEN <<>> ELSE @])
REFERENCE ==
  Match("/REFERENCE") /\ Close([Enclose(out) EXCEPT !.flat_keys = Front(@)])

-----------------------------------------------------------------------------
(* The end of a file, of the document, and of a text the grammar rejects.  *)

NextFile ==
  /\ todo = <<>> /\ files < bound.files
  /\ todo' = <<"config_fields">>
  /\ files' = files + 1
  /\ UNCHANGED <<text, out, src, tokens, status>>

Accept ==
  /\ todo = <<>>
  /\ IF out.keys = <<>> /\ out.flat_keys = <<>> /\ out.objects = <<>> /\ out.obj_res = NullPtr
     THEN /\ status' = "accepted"
          /\ out' = [out EXCEPT !.cfg_res = SelectSeq(@, LAMBDA map : map # EmptyMap)]
          /\ UNCHANGED <<todo, text, src, tokens, files>>
     ELSE Throw("InvalidConfigException")

(* A text that is not in the grammar raises, in the file that was opened   *)
(* first (must<grammar>) or inside a block (if_must).  Elsewhere the nested *)
(* parse of an included file returns false, which its caller ignores: the  *)
(* rest of that file is skipped, and what its actions did stays.           *)
SyntaxError == Reads /\ Throw("parse_error")
CutShort ==
  /\ Reads /\ ~InBlock /\ files < bound.files
  /\ todo' = <<"config_fields">>
  /\ files' = files + 1
  /\ text' = NewText
  /\ src' = [src EXCEPT !.scope = <<>>, !.cut =
                IF todo # <<>> /\ Head(todo) = "FULLPAIRs" THEN "after flat keys" ELSE "elsewhere"]
  /\ UNCHANGED <<out, tokens, status>>

Keys == KEY \/ OVERRIDEk \/ FLAT_KEY
Values == SCALAR \/ VALUE \/ VAR \/ PARENTNAMEk \/ PART \/ VALUE_LOOKUP \/ Eo
          \/ EXPRESSION \/ SBo \/ Element \/ SBc
Pairs == PAIR \/ FULLPAIR \/ PROTO_PAIR \/ REF_ADDKVP \/ REF_VARDEF
BlockSteps == STRUCTs \/ PROTOs \/ REFs \/ CBo \/ CBc \/ STRUCT \/ PROTO \/ REFERENCE

Parse ==
  /\ status = "parsing"
  /\ Expand \/ Keys \/ Values \/ Pairs \/ BlockSteps
       \/ NextFile \/ Accept \/ SyntaxError \/ CutShort
  /\ UNCHANGED bound
Ended == status # "parsing" /\ UNCHANGED vars
Next == Parse \/ Ended
Spec == Init /\ [][Next]_vars

-----------------------------------------------------------------------------
(* Properties. *)

(* Every variable has its type.                                            *)
ValueType == [type : Scalar \cup {"nullptr", "kString", "kVar", "kValueLookup",
                                  "kExpression", "kList"},
              line : 0 .. bound.tokens]
IsValue(v) == [type |-> v.type, line |-> v.line] \in ValueType
IsBlock(b) ==
  /\ b.type \in {"kStruct", "kStructInProto", "kProto", "kReference"}
  /\ b.name \in Key /\ b.depth \in 0 .. bound.tokens /\ b.proto \in Seq(Key)
  /\ DOMAIN b.data \subseteq Key
  /\ \A v \in DOMAIN b.ref_vars : v \in Var /\ IsValue(b.ref_vars[v])
TypeOK ==
  /\ bound \in Bounds
  /\ todo \in Seq(STRING)
  /\ text.key \in Seq(Key) /\ text.flat \in Seq(Key) /\ text.over \in BOOLEAN
  /\ text.lookup \in Seq(Key \cup Var)
  /\ out.depth \in 0 .. bound.tokens /\ out.result \in Var \cup {DEFAULT_RES}
  /\ out.keys \in Seq(Key) /\ out.flat_keys \in Seq(Seq(Key)) /\ out.proto_key \in Seq(Key)
  /\ out.in_proto \in BOOLEAN /\ out.is_override \in BOOLEAN
  /\ \A ref \in out.value_lookups : ref \in Seq(Key \cup Var)
  /\ \A i \in DOMAIN out.cfg_res : DOMAIN out.cfg_res[i] \subseteq Key
  /\ IsValue(out.obj_res)
  /\ \A i \in DOMAIN out.lists : \A j \in DOMAIN out.lists[i].data : IsValue(out.lists[i].data[j])
  /\ \A i \in DOMAIN out.objects : IsBlock(out.objects[i])
  /\ \A path \in DOMAIN out.override_values : path \in Seq(Key)
  /\ tokens \in 0 .. bound.tokens /\ files \in 0 .. bound.files
  /\ status \in STRING

(* keys is the path of the source at every step: the names of the open     *)
(* blocks, the key of the statement being matched, the keys of the lookup  *)
(* in its value; flat_keys is the proto of the open reference, which holds *)
(* no further blocks, and then the flat key being matched.  The actions    *)
(* bind values under keys.back(), under join(keys) or under                *)
(* flat_keys.back(), so this decides where every value goes                *)
(* (actions.h:153-164, 552-610).                                           *)
KeysOf(parts) ==
  LET take(ks, part) == IF part \in Key THEN Append(ks, part) ELSE ks
  IN  FoldLeft(take, <<>>, parts)
OpenProto(objects) ==
  IF objects # <<>> /\ Last(objects).type = "kReference" THEN <<Last(objects).proto>> ELSE <<>>
KeysArePath ==
  src.cut = "no" =>
    /\ [i \in DOMAIN out.objects |-> out.objects[i].name] = src.scope
    /\ out.keys = src.scope \o text.key \o KeysOf(text.lookup)
    /\ \A i \in DOMAIN out.objects :
         out.objects[i].type = "kReference" => i = Len(out.objects)
    /\ out.flat_keys = OpenProto(out.objects) \o (IF text.flat = <<>> THEN <<>> ELSE <<text.flat>>)

(* in_proto holds exactly inside a proto, proto_key is then the path of    *)
(* that proto, no proto is nested in another, and a struct is marked       *)
(* kStructInProto exactly when a proto encloses it: replaceProtoVar and    *)
(* stripProtos later go by these types (actions.h:796-818, 880-889).       *)
ProtoScope ==
  LET protos == {i \in DOMAIN out.objects : out.objects[i].type = "kProto"}
      inside(i) == \E p \in protos : p < i
  IN  src.cut = "no" =>
        /\ out.in_proto <=> protos # {}
        /\ \A p, q \in protos : p = q
        /\ \A p \in protos : out.proto_key = SubSeq(out.keys, 1, p)
        /\ protos = {} => out.proto_key = <<>>
        /\ \A i \in DOMAIN out.objects :
             /\ out.objects[i].type = "kStructInProto" => inside(i)
             /\ out.objects[i].type = "kStruct" => ~inside(i)

(* The depth given to a block is its nesting in the source, whatever was   *)
(* opened and closed before it: depth-- belongs to CBc, objects to the     *)
(* action of the whole block (actions.h:796-829, 923-929).                 *)
DepthIsNesting ==
  LET closing == todo # <<>> /\ Head(todo) \in {"/STRUCT", "/PROTO", "/REFERENCE"}
  IN  src.cut = "no" => /\ \A i \in DOMAIN out.objects : out.objects[i].depth = i - 1
                  /\ out.depth = Len(out.objects) - (IF closing THEN 1 ELSE 0)

(* As long as every file is in the grammar, the states that the code       *)
(* reports as its own error are never reached: no key for a PAIR, no flat  *)
(* key for a FULLPAIR, a value action without a value, a statement in a    *)
(* block of another kind, a parse that ends with a field still in use      *)
(* (actions.h:180-203, 614-617, 658-669, 709-716; config_parser.cpp:35-38).*)
NoInternalError ==
  src.cut = "no" =>
    /\ status \notin {"InvalidStateException", "InvalidConfigException",
                      "logic_error", "GrammarError"}
    /\ todo = <<>> /\ status = "parsing" =>
         /\ out.keys = <<>> /\ out.flat_keys = <<>> /\ out.objects = <<>>
         /\ out.obj_res = NullPtr /\ out.depth = 0 /\ ~out.in_proto

(* An expression owns the lookups between its own braces and no others:    *)
(* value_lookups also collects the lookups of plain values and of earlier  *)
(* statements, and must not leak from one to the next (actions.h:356-380). *)
ExpressionOwnsLookups ==
  out.obj_res.type = "kExpression" => out.obj_res.holds = src.lookups
=============================================================================
