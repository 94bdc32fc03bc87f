------------------------------ MODULE References ------------------------------
(***************************************************************************)
(* Protos and references (config_parser.cpp:204-301, config_helpers.cpp:   *)
(* 105-318).  Every reference is replaced by a struct made of clones of    *)
(* the entries of its proto and of its own entries, in which the variables *)
(* of the proto are replaced.  The references of a proto are resolved only *)
(* in the clones.                                                          *)
(*                                                                         *)
(* The objects that shared pointers reach and that change, struct-likes    *)
(* and lists, are the cells of heap.  A cell is named by where and how it  *)
(* was made: parsed at a path, cloned to a path, or made from the          *)
(* reference at a path; each happens at most once per path.                *)
(*                                                                         *)
(* Text is a sequence of atoms: numbers, words, variables.  What the code  *)
(* does to text, one variable after the other in the order of a std::map,  *)
(* is done to the atoms.                                                   *)
(***************************************************************************)
EXTENDS Naturals, Sequences, SequencesExt, FiniteSets

CONSTANTS
  Sources,   \* parse results: each a heap whose files are the cells at <<file>>
  Files,     \* the files in the order of cfg_res
  VarOrder,  \* the names of the variables in the order of a std::map
  Prefix,    \* pairs of names, the first a proper prefix of the second
  MaxDepth   \* bound: the calls the C++ stack has room for

(* A prefix comes first in the order of strings.                           *)
ASSUME OrderAssumption == \A p \in Prefix :
  \E i, j \in DOMAIN VarOrder : i < j /\ p = <<VarOrder[i], VarOrder[j]>>

ASSUME DepthAssumption == MaxDepth \in Nat

VARIABLES
  source,  \* the trees as they were parsed
  heap,    \* the trees as they are
  protos,  \* protos_: the cell of each proto under its path in the file
  walk,    \* the calls in progress
  file,    \* the position of the map of cfg_res being resolved
  phase    \* "references", "done" or the exception

vars == <<source, heap, protos, walk, file, phase>>

StructLike == {"kStruct", "kStructInProto", "kProto", "kReference"}

Id(made, path) == [made |-> made, path |-> path]
Parsed(path) == Id("parsed", path)
NoCell == Id("none", <<>>)

(* Atoms: a number, a word, "$X", "${X}", what a name was followed by in   *)
(* the text of a longer name, and the brackets of an expression.           *)
Atom(form, name) == [form |-> form, name |-> name]
IsVar(a) == a.form \in {"$", "${}"}
HasVar(text) == \E i \in DOMAIN text : IsVar(text[i])

Value(type, text, cell) == [type |-> type, text |-> text, cell |-> cell]
Pointer(h, c) == Value(h[c].type, <<>>, c)

-----------------------------------------------------------------------------
(* flattenAndFindProtos: the last map that has a proto at a path provides it. *)

FoundProtos(h) ==
  LET found == {c \in DOMAIN h : h[c].type = "kProto"}
      at(c) == SelectInSeq(Files, LAMBDA f : f = Head(c.path))
  IN  [p \in {Tail(c.path) : c \in found} |->
         CHOOSE c \in found : /\ Tail(c.path) = p
                              /\ \A d \in found : Tail(d.path) = p => at(d) <= at(c)]

Frame(fn, cell, ref_vars, refd) ==
  [fn |-> fn, cell |-> cell, at |-> 1, ref_vars |-> ref_vars, refd |-> refd]
NoVars == [x \in {} |-> Value("kNumber", <<>>, NoCell)]
ResolveMap(i) == <<Frame("resolve", Parsed(<<Files[i]>>), NoVars, <<>>)>>

Init ==
  /\ source \in Sources
  /\ heap = source
  /\ protos = FoundProtos(source)
  /\ walk = ResolveMap(1)
  /\ file = 1
  /\ phase = "references"

Here == Last(walk)
Cell == heap[Here.cell]
AtEntry(fn) == phase = "references" /\ walk # <<>> /\ Here.fn = fn /\ Here.at <= Len(Cell.data)
Current == Cell.data[Here.at].val
Advance == [walk EXCEPT ![Len(walk)].at = @ + 1]
Put(h, v) == [h EXCEPT ![Here.cell].data[Here.at].val = v]

Fail(exception) == phase' = exception /\ UNCHANGED <<source, heap, protos, walk, file>>
Step(h, w) ==
  IF Len(w) > MaxDepth THEN Fail("stack overflow")
  ELSE heap' = h /\ walk' = w /\ UNCHANGED <<source, protos, file, phase>>

-----------------------------------------------------------------------------
(* structFromReference: ConfigStruct::clone clones its entries, the clone  *)
(* of a reference or a list is a copy that shares what the entries of the  *)
(* original point to.                                                      *)

(* Mutant: the clone of a struct shares what is in it.                     *)
ClonedShallow(p) ==
  {c \in DOMAIN heap : c.made = "parsed" /\ Len(c.path) = Len(p.path) + 1 /\ IsPrefix(p.path, c.path)}

Cloned(p) ==
  {c \in DOMAIN heap :
     /\ c.made = "parsed" /\ IsStrictPrefix(p.path, c.path)
     /\ \A n \in (Len(p.path) + 1) .. (Len(c.path) - 1) :
          heap[Parsed(SubSeq(c.path, 1, n))].type = "kStructInProto"}

(* The heap after the struct for reference cell r has been made from proto *)
(* cell p: its own entries move to it, after those of the proto.           *)
WithInstance(r, p) ==
  LET clones == Cloned(p)
      moved(c) == Id("cloned", r.path \o SubSeq(c.path, Len(p.path) + 1, Len(c.path)))
      renamed(data) == [i \in DOMAIN data |->
                          [data[i] EXCEPT !.val.cell = IF @ \in clones THEN moved(@) ELSE @]]
      copy(c) == IF heap[c].type = "kReference" THEN heap[c]
                 ELSE [heap[c] EXCEPT !.data = renamed(@)]
      new == Id("made", r.path)
  IN  [c \in ((DOMAIN heap) \ {r}) \cup {moved(d) : d \in clones} \cup {new} |->
         IF c = new THEN [heap[p] EXCEPT !.type = "kStruct", !.data = renamed(@) \o heap[r].data]
         ELSE IF c \in DOMAIN heap THEN heap[c]
         ELSE copy(CHOOSE d \in clones : moved(d) = c)]

(* checkForErrors on the keys a reference and its proto have both; the     *)
(* entries of a reference are no structs.                                  *)
Overlap(r, p) == {e \in ToSet(heap[p].data) : \E f \in ToSet(heap[r].data) : f.key = e.key}
Clash(r, p) ==
  LET first == heap[r].data[SelectInSeq(heap[r].data, LAMBDA f :
                              \E e \in ToSet(heap[p].data) : e.key = f.key)].key
  IN  IF \E e \in Overlap(r, p) : e.key = first /\ e.val.type \in StructLike
      THEN "MismatchKeyException" ELSE "DuplicateKeyException"

(* Mutant: the variables of an inner reference replace those of the outer. *)
InnerFirst(outer, inner) ==
  [x \in DOMAIN outer \cup DOMAIN inner |-> IF x \in DOMAIN inner THEN inner[x] ELSE outer[x]]

(* std::inserter: what the outer reference defines stays.                  *)
UpdatedVars(outer, inner) ==
  [x \in DOMAIN outer \cup DOMAIN inner |-> IF x \in DOMAIN outer THEN outer[x] ELSE inner[x]]

-----------------------------------------------------------------------------
(* replaceVarInStr. *)

(* What a ConfigValue is when its text is put in; other values are skipped. *)
IsText(v) == v.type \in {"kNumber", "kString", "kExpression", "kList"}

(* First "$X", also at the beginning of a longer name, then "${X}".        *)
ReplaceOne(text, x, w) ==
  LET plain(a) == IF a = Atom("$", x) THEN w
                  ELSE IF a.form = "$" /\ <<x, a.name>> \in Prefix
                    THEN w \o <<Atom("rest", a.name)>>
                  ELSE <<a>>
      braced(a) == IF a = Atom("${}", x) THEN w ELSE <<a>>
      once == FlattenSeq([i \in DOMAIN text |-> plain(text[i])])
  IN  FlattenSeq([i \in DOMAIN once |-> braced(once[i])])

replaceVarInStr(text, ref_vars) ==
  FoldLeft(LAMBDA out, x : IF x \in DOMAIN ref_vars /\ IsText(ref_vars[x])
                           THEN ReplaceOne(out, x, ref_vars[x].text) ELSE out,
           text, VarOrder)

(* The text of an expression is parsed again, by actions that run also for *)
(* what is given up: obj_res is the whole expression, or else the last     *)
(* operand before the text stops being one, or still null.  That the parse *)
(* has failed is not looked at.                                            *)
Reparsed(out) ==
  LET operand(a) == a.form = "num" \/ IsVar(a)
      stop == CHOOSE i \in 2 .. Len(out) : /\ ~operand(out[i])
                                           /\ \A j \in 2 .. (i - 1) : operand(out[j])
  IN  IF stop = Len(out) THEN Value("kExpression", out, NoCell)
      ELSE IF stop = 2 THEN Value("null", <<>>, NoCell)
      ELSE Value(IF IsVar(out[stop - 1]) THEN "kVar" ELSE "kNumber", <<out[stop - 1]>>, NoCell)

(* What a value becomes, or the exception as its type.                     *)
Thrown(exception) == Value(exception, <<>>, NoCell)

(* The message about a variable left over looks for a variable $PARENT,    *)
(* which only some references define.                                      *)
ReplacedExpression(v, ref_vars) ==
  LET out == replaceVarInStr(v.text, ref_vars)
      parsed == Reparsed(out)
  IN  IF parsed.type = "null" THEN Thrown("null pointer")
      ELSE IF ~HasVar(out) THEN parsed
      ELSE IF "PARENT" \in DOMAIN ref_vars THEN Thrown("InvalidConfigException")
      ELSE Thrown("std::out_of_range")

(* ConfigVar keeps its name as it is written, "$X" or "${X}"; ref_vars has *)
(* the names the references define, "$X".                                  *)
ReplacedVar(v, ref_vars) ==
  LET a == v.text[1]
  IN  IF a.form = "$" /\ a.name \in DOMAIN ref_vars THEN ref_vars[a.name]
      ELSE Thrown("UndefinedReferenceVarException")

ReplacedText(v, ref_vars) == [v EXCEPT !.text = replaceVarInStr(@, ref_vars)]

ReplacedValue(v, ref_vars) ==
  CASE v.type = "kVar" -> ReplacedVar(v, ref_vars)
    [] v.type \in {"kString", "kValueLookup"} /\ HasVar(v.text) -> ReplacedText(v, ref_vars)
    [] v.type = "kExpression" /\ HasVar(v.text) -> ReplacedExpression(v, ref_vars)
    [] OTHER -> v

(* In a list, variables and strings only; other elements are skipped.      *)
ReplacedElement(v, ref_vars) ==
  IF v.type \in {"kVar", "kString"} THEN ReplacedValue(v, ref_vars) ELSE v

Failed(v) == v.type \in {"null pointer", "InvalidConfigException", "std::out_of_range",
                         "UndefinedReferenceVarException"}

(* Mutant: the types of the elements are not looked at again.              *)
AnyElement(elem, type) == elem

(* listElementValid: the element type of a list after an element of this   *)
(* type, or "none" when it does not fit.                                   *)
ElementType(elem, type) ==
  LET taken == IF type = "kExpression" THEN "kNumber" ELSE type
  IN  IF type \in {"kVar", "kValueLookup"} THEN elem
      ELSE IF elem \in {"kUnknown", taken} THEN taken ELSE "none"

-----------------------------------------------------------------------------
(* resolveReferences, one entry of a map per step. *)

SkipEntry ==
  /\ AtEntry("resolve")
  /\ Current.type \notin {"kReference", "kStruct", "kStructInProto"}
  /\ Step(heap, Advance)

EnterStruct ==
  /\ AtEntry("resolve") /\ Current.type = "kStruct"
  /\ Step(heap, Append(Advance, Frame("resolve", Current.cell, Here.ref_vars, Here.refd)))

(* A struct of a proto is walked once more for variables.                  *)
EnterStructInProto ==
  /\ AtEntry("resolve") /\ Current.type = "kStructInProto"
  /\ Step(heap, Advance \o <<Frame("resolve", Current.cell, Here.ref_vars, Here.refd),
                             Frame("replace", Current.cell, Here.ref_vars, <<>>)>>)

(* The protos that are being expanded.                                     *)
Updated(refd, name) == Append(refd, name)

(* replaceProtoVar works on the new struct before it is resolved in turn.  *)
Instantiate ==
  /\ AtEntry("resolve") /\ Current.type = "kReference"
  /\ LET r == Current.cell
         name == heap[r].proto
         new == Id("made", r.path)
         ref_vars == UpdatedVars(Here.ref_vars, heap[r].ref_vars)
     IN  IF name \notin DOMAIN protos THEN Fail("UndefinedProtoException")
         ELSE IF Contains(Here.refd, name) THEN Fail("CyclicReferenceException")
         ELSE IF Overlap(r, protos[name]) # {} THEN Fail(Clash(r, protos[name]))
         ELSE Step(Put(WithInstance(r, protos[name]), Value("kStruct", <<>>, new)),
                   Advance \o <<Frame("resolve", new, ref_vars, Updated(Here.refd, name)),
                                Frame("replace", new, ref_vars, <<>>)>>)

-----------------------------------------------------------------------------
(* replaceProtoVar, one entry of a map per step. *)

ReplaceScalar ==
  /\ AtEntry("replace") /\ Current.type \notin StructLike \cup {"kList"}
  /\ LET v == ReplacedValue(Current, Here.ref_vars)
     IN  IF Failed(v) THEN Fail(v.type) ELSE Step(Put(heap, v), Advance)

(* The loop over the elements; the first one that fails or does not fit    *)
(* ends it.                                                                *)
ReplaceList ==
  /\ AtEntry("replace") /\ Current.type = "kList"
  /\ LET list == heap[Current.cell]
         data == [i \in DOMAIN list.data |->
                    [list.data[i] EXCEPT !.val = ReplacedElement(@, Here.ref_vars)]]
         elem == [i \in 0 .. Len(data) |->
                    FoldLeft(LAMBDA t, e : ElementType(t, e.val.type), list.elem, SubSeq(data, 1, i))]
         bad == {i \in DOMAIN data : Failed(data[i].val) \/ elem[i] = "none"}
         first == CHOOSE i \in bad : \A j \in bad : i <= j
     IN  IF bad = {}
           THEN Step([heap EXCEPT ![Current.cell].data = data,
                                  ![Current.cell].elem = elem[Len(data)]], Advance)
         ELSE IF Failed(data[first].val) THEN Fail(data[first].val.type)
         ELSE Fail("InvalidTypeException")

(* Also the entries of a reference that waits to be resolved.              *)
ReplaceStruct ==
  /\ AtEntry("replace") /\ Current.type \in StructLike
  /\ Step(heap, Append(Advance, Frame("replace", Current.cell, Here.ref_vars, <<>>)))

(* Mutant: the protos a call has expanded are still there when it is back. *)
ReturnKeepingProtos ==
  /\ phase = "references" /\ walk # <<>> /\ Here.at > Len(Cell.data)
  /\ Step(heap, IF Len(walk) = 1 THEN <<>>
                ELSE [Front(walk) EXCEPT ![Len(walk) - 1].refd = @ \o Here.refd])

Return ==
  /\ phase = "references" /\ walk # <<>> /\ Here.at > Len(Cell.data)
  /\ Step(heap, Front(walk))

NextMap ==
  /\ phase = "references" /\ walk = <<>>
  /\ IF file < Len(Files)
       THEN file' = file + 1 /\ walk' = ResolveMap(file + 1) /\ phase' = phase
       ELSE phase' = "done" /\ UNCHANGED <<file, walk>>
  /\ UNCHANGED <<source, heap, protos>>

Finished == phase # "references" /\ UNCHANGED vars

Next ==
  \/ SkipEntry \/ EnterStruct \/ EnterStructInProto \/ Instantiate
  \/ ReplaceScalar \/ ReplaceList \/ ReplaceStruct
  \/ Return \/ NextMap \/ Finished

Spec == Init /\ [][Next]_vars
=============================================================================
