------------------------------- MODULE Merging -------------------------------
(***************************************************************************)
(* From the maps of cfg_res, references resolved, to one tree: they are    *)
(* merged one after the other, the overrides are applied in the order they *)
(* were read, and the protos are removed (config_parser.cpp:86-113, 173-   *)
(* 185 and 303-377, config_helpers.cpp:30-103 and 320-356).                *)
(*                                                                         *)
(* A struct-like is a cell of heap, named by the map and the path it was   *)
(* parsed at; the top of a map is the cell with no path.  Maps copy the    *)
(* pointers to cells.  The tree itself, squashed_cfg and then cfg_data_,   *)
(* is a map by value.                                                      *)
(***************************************************************************)
EXTENDS Naturals, Sequences, SequencesExt

CONSTANTS
  Sources,  \* [heap, maps, overrides]: the cells, the number of maps in cfg_res
  KeyOrder  \* the names of keys in the order of strings

ASSUME KeyOrderAssumption == KeyOrder \in Seq(STRING)

StructLike == {"kStruct", "kStructInProto", "kProto", "kReference"}
isStructLike(v) == v.type \in StructLike

Value(type, text, cell) == [type |-> type, text |-> text, cell |-> cell]
Cell(map, path) == [map |-> map, path |-> path]
Root == Cell(0, <<>>)   \* the tree

KeysOf(data) == {data[i].key : i \in DOMAIN data}
AtKey(data, k) == data[CHOOSE i \in DOMAIN data : data[i].key = k].val

(* An override is a value at a flat key (grammar.h:139-149).  A map has    *)
(* one entry for a key, and a struct-like stands at one place, below the   *)
(* top of its map; no proto is in another (grammar.h:163-177).             *)
ASSUME SourcesAssumption == \A s \in Sources :
  /\ s.overrides \in Seq(ToSet(s.overrides))
  /\ \A i \in DOMAIN s.overrides :
       /\ s.overrides[i].key \in Seq(STRING) \ {<<>>}
       /\ ~isStructLike(s.overrides[i].val)
  /\ s.maps \in Nat /\ \A n \in 1 .. s.maps : Cell(n, <<>>) \in DOMAIN s.heap
  /\ \A c \in DOMAIN s.heap :
       /\ c.map \in 1 .. s.maps /\ c.path \in Seq(STRING) /\ c = Cell(c.map, c.path)
       /\ DOMAIN s.heap[c] = {"type", "data"}
       /\ s.heap[c].data \in Seq(ToSet(s.heap[c].data))
       /\ \A i, j \in DOMAIN s.heap[c].data :
            s.heap[c].data[i].key = s.heap[c].data[j].key => i = j
       /\ \A i \in DOMAIN s.heap[c].data :
            LET e == s.heap[c].data[i]
            IN  /\ e.key \in ToSet(KeyOrder)
                /\ isStructLike(e.val) =>
                     /\ e.val.cell = Cell(c.map, Append(c.path, e.key))
                     /\ e.val.cell \in DOMAIN s.heap /\ s.heap[e.val.cell].type = e.val.type
  /\ \A c \in DOMAIN s.heap : c.path # <<>> =>
       \E d \in DOMAIN s.heap : \E i \in DOMAIN s.heap[d].data :
         isStructLike(s.heap[d].data[i].val) /\ s.heap[d].data[i].val.cell = c
  /\ \A c, d \in DOMAIN s.heap :
       s.heap[c].type = "kProto" /\ s.heap[d].type = "kProto" /\ c.map = d.map =>
         c.path # <<>> /\ ~IsStrictPrefix(c.path, d.path)

VARIABLES
  source,    \* what the parse has left
  heap,      \* the struct-likes
  cfg_data,  \* the tree: its entries in order
  calls,     \* the calls of mergeNestedMaps in progress
  merged,    \* how many maps of cfg_res are in cfg_data
  applied,   \* how many overrides have been applied
  protos,    \* the keys of protos_ that stripProtos has not removed
  phase      \* "merge", "overrides", "strip", "done" or the exception

vars == <<source, heap, cfg_data, calls, merged, applied, protos, phase>>

Data(c) == IF c = Root THEN cfg_data ELSE heap[c].data

(* Mutant: the key of a proto in a struct is not joined with the names of  *)
(* what it is in.                                                          *)
ProtoNames == {<<Last(c.path)>> : c \in {d \in DOMAIN source.heap : source.heap[d].type = "kProto"}}

(* flattenAndFindProtos: where the protos are.                             *)
ProtoKeys == {c.path : c \in {d \in DOMAIN source.heap : source.heap[d].type = "kProto"}}

Init ==
  /\ source \in Sources
  /\ heap = source.heap
  /\ merged = IF source.maps = 0 THEN 0 ELSE 1
  /\ cfg_data = IF source.maps = 0 THEN <<>> ELSE heap[Cell(1, <<>>)].data
  /\ calls = <<>>
  /\ applied = 0
  /\ protos = ProtoKeys
  /\ phase = "merge"

Fail(exception) ==
  phase' = exception /\ UNCHANGED <<source, heap, cfg_data, calls, merged, applied, protos>>

(* A map in which the value at a key of it is another.                     *)
With(data, k, v) == [i \in DOMAIN data |-> IF data[i].key = k THEN [key |-> k, val |-> v] ELSE data[i]]

(* Mutant: what is in a struct-like stays.                                 *)
WriteTop(c, data) == cfg_data' = (IF c = Root THEN data ELSE cfg_data) /\ UNCHANGED heap
Write(c, data) ==
  IF c = Root THEN cfg_data' = data /\ UNCHANGED heap
  ELSE heap' = [heap EXCEPT ![c].data = data] /\ UNCHANGED cfg_data

-----------------------------------------------------------------------------
(* mergeNestedMaps *)

(* Mutant: of two structs at one key only the kinds are compared.          *)
checkKindsOnly(v, w) ==
  IF isStructLike(v) # isStructLike(w) THEN "MismatchKeyException"
  ELSE IF ~isStructLike(v) THEN "DuplicateKeyException" ELSE "ok"

checkForErrors(v, w) ==
  IF ~isStructLike(v) /\ ~isStructLike(w) THEN "DuplicateKeyException"
  ELSE IF isStructLike(v) # isStructLike(w) THEN "MismatchKeyException"
  ELSE IF v.type # w.type THEN "MismatchTypeException" ELSE "ok"

(* Mutant: the pointers of the second map replace those of the first.      *)
BothSecond(one, two) ==
  [i \in DOMAIN one |-> IF one[i].key \in KeysOf(two) THEN [one[i] EXCEPT !.val = AtKey(two, one[i].key)] ELSE one[i]]
    \o SelectSeq(two, LAMBDA e : e.key \notin KeysOf(one))

(* std::inserter: a key that is there stays where it is, with its pointer. *)
Insert(out, entry) == IF entry.key \in KeysOf(out) THEN out ELSE Append(out, entry)
Both(one, two) == FoldLeft(Insert, one, two)

(* A call on the maps of two cells: all common keys are checked, in their  *)
(* order as strings, before anything is merged.                            *)
Common(one, two) == KeysOf(Data(one)) \cap KeysOf(Data(two))
Checked(one, two, k) == checkForErrors(AtKey(Data(one), k), AtKey(Data(two), k))
Call(stack, one, two) ==
  LET bad == {i \in DOMAIN KeyOrder :
                KeyOrder[i] \in Common(one, two) /\ Checked(one, two, KeyOrder[i]) # "ok"}
      first == CHOOSE i \in bad : \A j \in bad : i <= j
  IN  IF bad # {} THEN Fail(Checked(one, two, KeyOrder[first]))
      ELSE /\ calls' = Append(stack, [one |-> one, two |-> two, out |-> Both(Data(one), Data(two)), at |-> 1])
           /\ UNCHANGED <<source, heap, cfg_data, merged, applied, protos, phase>>

MergeMap ==
  /\ phase = "merge" /\ calls = <<>> /\ merged < source.maps
  /\ Call(<<>>, Root, Cell(merged + 1, <<>>))

Here == Last(calls)
Merging == phase = "merge" /\ calls # <<>>

(* The structs at a common key are merged into the one of the first map.   *)
MergeEntry ==
  /\ Merging /\ Here.at <= Len(Here.out)
  /\ LET entry == Here.out[Here.at]
         next == [calls EXCEPT ![Len(calls)].at = @ + 1]
     IN  IF entry.key \in Common(Here.one, Here.two)
           THEN Call(next, AtKey(Data(Here.one), entry.key).cell, AtKey(Data(Here.two), entry.key).cell)
         ELSE calls' = next /\ UNCHANGED <<source, heap, cfg_data, merged, applied, protos, phase>>

(* The result is written through the pointer in cfg_out.                   *)
Target ==
  IF Len(calls) = 1 THEN Root
  ELSE LET caller == calls[Len(calls) - 1] IN caller.out[caller.at - 1].val.cell

ReturnMerged ==
  /\ Merging /\ Here.at > Len(Here.out)
  /\ Write(Target, Here.out)
  /\ calls' = Front(calls)
  /\ merged' = IF Len(calls) = 1 THEN merged + 1 ELSE merged
  /\ UNCHANGED <<source, applied, protos, phase>>

EndMerge ==
  /\ phase = "merge" /\ calls = <<>> /\ merged = source.maps
  /\ phase' = "overrides"
  /\ UNCHANGED <<source, heap, cfg_data, calls, merged, applied, protos>>

-----------------------------------------------------------------------------
(* getNestedConfig: the cell that holds the last of these keys, or the     *)
(* exception.                                                              *)
Ok(c) == [error |-> "ok", cell |-> c]
Nest(at, k) ==
  IF at.error # "ok" THEN at
  ELSE IF k \notin KeysOf(Data(at.cell)) THEN [at EXCEPT !.error = "InvalidKeyException"]
  ELSE IF ~isStructLike(AtKey(Data(at.cell), k)) THEN [at EXCEPT !.error = "InvalidTypeException"]
  ELSE Ok(AtKey(Data(at.cell), k).cell)
Found(keys) == FoldLeft(Nest, Ok(Root), keys)
getNestedConfig(keys) == Found(Front(keys))

checked_types == {"kString", "kNumber", "kBoolean", "kList", "kExpression"}

(* Mutant: a number and an expression do not match.                        *)
TypesMatchExactly(default, override) ==
  {default, override} \subseteq checked_types => default = override

TypesMatch(default, override) ==
  {default, override} \subseteq checked_types =>
    default = override \/ {default, override} = {"kNumber", "kExpression"}

(* Mutant: the value goes to the top of the tree.                          *)
ApplyAtTop(cell, k, v) == cfg_data' = With(cfg_data, k, v) /\ UNCHANGED heap
Apply(cell, k, v) == Write(cell, With(Data(cell), k, v))

ApplyOverride ==
  /\ phase = "overrides" /\ applied < Len(source.overrides)
  /\ LET keys == source.overrides[applied + 1].key
         val == source.overrides[applied + 1].val
         nested == getNestedConfig(keys)
     IN  IF nested.error = "InvalidTypeException" THEN Fail("InvalidTypeException")
         ELSE IF nested.error # "ok" \/ Last(keys) \notin KeysOf(Data(nested.cell))
           THEN Fail("InvalidOverrideException")
         ELSE IF ~TypesMatch(AtKey(Data(nested.cell), Last(keys)).type, val.type)
           THEN Fail("InvalidOverrideException")
         ELSE /\ Apply(nested.cell, Last(keys), val)
              /\ applied' = applied + 1
              /\ UNCHANGED <<source, calls, merged, protos, phase>>

EndOverrides ==
  /\ phase = "overrides" /\ applied = Len(source.overrides)
  /\ phase' = "strip"
  /\ UNCHANGED <<source, heap, cfg_data, calls, merged, applied, protos>>

(* stripProtos, in any order: no proto is in another.                      *)
Erase(data, k) == RemoveAt(data, CHOOSE i \in DOMAIN data : data[i].key = k)
StripProto ==
  /\ phase = "strip"
  /\ \E key \in protos :
       LET nested == getNestedConfig(key)
       IN  IF nested.error # "ok" THEN Fail(nested.error)
           ELSE IF Last(key) \notin KeysOf(Data(nested.cell)) THEN Fail("std::out_of_range")
           ELSE /\ Write(nested.cell, Erase(Data(nested.cell), Last(key)))
                /\ protos' = protos \ {key}
                /\ UNCHANGED <<source, calls, merged, applied, phase>>

EndStrip ==
  /\ phase = "strip" /\ protos = {}
  /\ phase' = "done"
  /\ UNCHANGED <<source, heap, cfg_data, calls, merged, applied, protos>>

Finished == phase \notin {"merge", "overrides", "strip"} /\ UNCHANGED vars

Next ==
  \/ MergeMap \/ MergeEntry \/ ReturnMerged \/ EndMerge
  \/ ApplyOverride \/ EndOverrides
  \/ StripProto \/ EndStrip \/ Finished

Spec == Init /\ [][Next]_vars

-----------------------------------------------------------------------------

EXCEPTIONS == {"DuplicateKeyException", "MismatchKeyException", "MismatchTypeException",
               "InvalidOverrideException", "InvalidTypeException"}

(* The counters stay within what there is to do, a pointer leads to a      *)
(* struct of the type it says, and the phases come to an end only by the   *)
(* exceptions a caller of the parser knows (config_parser.cpp:303-376).    *)
TypeOK ==
  /\ merged <= source.maps /\ applied <= Len(source.overrides)
  /\ phase \in {"merge", "overrides", "strip", "done"} \cup EXCEPTIONS
  /\ \A c \in DOMAIN heap \cup {Root} :
       \A e \in ToSet(Data(c)) :
         isStructLike(e.val) => e.val.cell \in DOMAIN heap /\ heap[e.val.cell].type = e.val.type

(* A map of cfg_res is not changed before it is in the tree, although its  *)
(* structs are shared with it and written through pointers while the maps  *)
(* before it are merged and while it is merged itself (config_helpers.cpp: *)
(* 82-100).                                                                *)
PendingMapsKept ==
  \A c \in DOMAIN heap : c.map > merged => heap[c] = source.heap[c]
-----------------------------------------------------------------------------
(* What the maps mean: struct by struct, all their entries.                *)

EntriesOf(n, path) == IF Cell(n, path) \in DOMAIN source.heap THEN source.heap[Cell(n, path)].data ELSE <<>>
Named(path, n, k) == \E m \in 1 .. n : k \in KeysOf(EntriesOf(m, path))

(* Reading one map after the other, k comes before any l.                  *)
NamedFirst(path, n, k, l) ==
  \E m \in 1 .. n :
    /\ ~Named(path, m - 1, l)
    /\ \E a \in DOMAIN EntriesOf(m, path) :
         EntriesOf(m, path)[a].key = k /\ \A b \in 1 .. a : EntriesOf(m, path)[b].key # l

Removed == ProtoKeys \ protos
AppliedTo(path) == {i \in 1 .. applied : source.overrides[i].key = path}

(* A value of the tree and the one a map has at this path.                 *)
ValueRight(v, w, path) ==
  IF AppliedTo(path) = {} THEN v.type = w.type /\ (isStructLike(w) \/ v = w)
  ELSE \E i \in AppliedTo(path) : v = source.overrides[i].val /\ \A j \in AppliedTo(path) : j <= i

(* The entries of the tree at a path are those of n maps: all of them, but *)
(* the protos removed, nothing else, and in their order.                   *)
EntriesRight(data, path, n) ==
  /\ \A i \in DOMAIN data : Named(path, n, data[i].key) /\ Append(path, data[i].key) \notin Removed
  /\ \A m \in 1 .. n : \A e \in ToSet(EntriesOf(m, path)) :
       /\ e.key \in KeysOf(data) \/ Append(path, e.key) \in Removed
       /\ e.key \in KeysOf(data) => ValueRight(AtKey(data, e.key), e.val, Append(path, e.key))
  /\ \A i, j \in DOMAIN data : i < j => NamedFirst(path, n, data[i].key, data[j].key)

(* There is a struct at every path where a map has one, unless an override *)
(* or the removal of a proto has cut it off, and its entries are right.    *)
CutOff(path) ==
  \/ \E i \in 1 .. applied : IsPrefix(source.overrides[i].key, path)
  \/ \E p \in Removed : IsPrefix(p, path)
TreeRight ==
  \A path \in {<<>>} \cup {c.path : c \in DOMAIN source.heap} :
    LET at == Found(path)
    IN  /\ at.error = "ok" <=> ~CutOff(path)
        /\ at.error = "ok" => EntriesRight(Data(at.cell), path, source.maps)

(* When the maps have been merged, the tree has the entries of all of      *)
(* them, at their paths and with their values (config_parser.cpp:86-113),  *)
(* and each struct has its keys in the order in which the files first name *)
(* them, as ordered_map promises.                                          *)
MergedRight == phase = "overrides" /\ applied = 0 => TreeRight

(* At the end the tree is what was merged, with the values of all          *)
(* overrides, without any proto and with nothing else removed              *)
(* (config_parser.cpp:303-376).                                            *)
ResultRight ==
  phase = "done" => applied = Len(source.overrides) /\ protos = {} /\ TreeRight
=============================================================================
