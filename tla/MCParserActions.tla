--------------------------- MODULE MCParserActions ---------------------------
(***************************************************************************)
(* Bounded documents for ParserActions, and the property that compares the *)
(* tree the actions built with what the source states.                     *)
(***************************************************************************)
EXTENDS ParserActions, FiniteSetsExt

KeySymmetry == Permutations(Key)

(* Documents of blocks and pairs, of all kinds of values, of several files.*)
Bound(unused, t, f) == [unused |-> unused, tokens |-> t, files |-> f]
OfBlocks == Bound({"OVERRIDEk", "VALUE_LOOKUP", "Eo", "SBo", "VAR", "VARDEF", "FULLPAIR1",
                   "STRUCT_IN_PROTO"}, 6, 1)
OfValues == Bound({"OVERRIDEk", "STRUCT", "FULLPAIR1"}, 5, 1)
OfFiles == Bound({"VALUE_LOOKUP", "Eo", "SBo", "PROTO", "REFERENCE"}, 6, 2)
MCBounds == {OfBlocks, OfValues, OfFiles}

(* One file of pairs with lookups, and two of flat keys and structs: what  *)
(* the properties about the code's own words need.                         *)
OverrideBounds == {Bound({"STRUCT", "REFERENCE", "PROTO", "Eo", "SBo"}, 6, 1)}
MixedBounds == {[OfFiles EXCEPT !.tokens = 4]}

(* The values bound in a map and in the blocks under it, by path.          *)
RECURSIVE Leaves(_, _)
Leaves(prefix, map) ==
  UNION {LET path == Append(prefix, k)
         IN  IF "data" \in DOMAIN map[k] THEN Leaves(path, map[k].data)
             ELSE {[path |-> path, line |-> map[k].line]} : k \in DOMAIN map}

Tree ==
  UNION ({Leaves(<<>>, out.cfg_res[i]) : i \in DOMAIN out.cfg_res}
         \cup {Leaves([j \in 1 .. i |-> out.objects[j].name], out.objects[i].data)
                 : i \in DOMAIN out.objects})
Overrides ==
  {[path |-> p, line |-> out.override_values[p].line] : p \in DOMAIN out.override_values}
Stated == {[path |-> b.path, line |-> b.line] : b \in src.bound}

(* Every value the source binds is kept under the path the source gives it *)
(* and nothing else is bound: no value is lost, overwritten, or moved to   *)
(* another block, whatever blocks and files come after it; and one path is *)
(* overridden at most once (actions.h:612-742, 831-921).  A file that was  *)
(* cut short can leave keys behind that put later values under a wrong     *)
(* path, but such a document is not accepted (config_parser.cpp:35-38).    *)
EverythingKept ==
  status = "accepted" \/ src.cut = "no" =>
    /\ Tree \cup Overrides = Stated
    /\ Tree \cap Overrides = {}

-----------------------------------------------------------------------------
(* What the code says of itself and does not do. *)

(* A pair marked [override] is tracked in override_values, apart from the  *)
(* tree ("We need to track these separately to make it easier to confirm   *)
(* things are being overwritten", actions.h:94-95).  KEY resets the flag *)
(* and a lookup in the value reads KEYs.                                   *)
OverridesTracked ==
  \A b \in src.bound : b.over => [path |-> b.path, line |-> b.line] \in Overrides

(* One file holds fully qualified keys or the content of a struct, "but    *)
(* never both in the same file" (grammar.h:198, README.md:54): text that   *)
(* follows the flat keys of a file and is no flat key is refused ("Invalid *)
(* config file found!", grammar.h:220).  In an included file it is dropped *)
(* and the parse goes on.                                                  *)
MixedFileRefused == status = "accepted" => src.cut # "after flat keys"
=============================================================================
