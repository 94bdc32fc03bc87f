# flexi_cfg in TLA+

flexi_cfg reads configuration files that include each other, resolves protos,
references, overrides, key-value lookups and expressions in them, and hands the
finished tree to a reader. This directory holds the TLA+ modules that model it,
the TLC configurations that check them on small instances, and the proofs of the
results that hold for every instance. File names below are relative to the
repository.

    tlc -workers 2 -config MCOrderedMap.cfg MCOrderedMap     # one run
    tlapm OrderedMapRefinement.tla                           # the proofs of one module

## The system

`Parser::parse` (src/config_parser.cpp) runs in one thread and in two phases.
First the text of the root file and of every file it includes is parsed by PEGTL;
the semantic actions of `config/actions.h` collect the result in one `ActionData`.
Then `Parser::resolveConfig` turns the list of maps in `ActionData::cfg_res` into
one tree, in place and step by step, and `Reader` holds it.

| part | state | operations | interacts with | what makes it correct |
|---|---|---|---|---|
| `details/ordered_map.h` | `map_` and `keys_`, iterators with an index and a cached key | insert, emplace, assign, erase, extract, merge, swap, iteration, lookup | is the type of every map of the tree (`CfgMap`) | both containers list the same keys; iteration is exact also under erase; it is an insertion-ordered map |
| grammar and actions (`config/grammar.h`, `config/actions.h`) | the stacks `keys`, `flat_keys`, `objects`, `lists`; `obj_res`, `result`, `value_lookups`, `depth`, `in_proto`, `proto_key`, `is_override`, `override_values`, `cfg_res` | one action per matched rule | called by PEGTL, also for rules that are later given up | the stacks follow the text, every value ends under its own path, no state leaks from one statement to the next |
| includes (`base_include_action`, `utils.h`) | `base_dir`, `all_files`, `include_pending`, the C++ call stack | FILENAME, attributes, resolve, nested parse, return | nested parse into the same `ActionData` | base_dir restored, attributes belong to one statement, a path is parsed once, an end |
| merge (`mergeNestedMaps`, `mergeNested`) | trees that share nodes | merge of two maps, recursively | after references | keys of all files kept, clashes reported, order of the files irrelevant for what is there |
| protos and references (`flattenAndFindProtos`, `resolveReferences`, `structFromReference`, `replaceProtoVar`) | `protos_`, the tree | find protos, instantiate, replace variables | clones nodes of the tree (`classes.h`) | a use of a proto does not change the proto; cycles are reported; each variable gets the value of its own reference |
| overrides, `stripProtos` | `override_values`, the tree | replace a default, drop protos | after the merge | exactly the defaults that exist are replaced, by values of their type |
| lookups and expressions (`resolveVarRefs`, `evaluateExpressions`) | the tree, `value_lookups` of each expression | follow a chain, replace, evaluate | calls the math evaluator | no lookup is left, cycles are reported, the value is that of the end of the chain |
| `unflatten`, `cleanupConfig` | the tree | nest dotted keys, drop empty structs, set depth | before and after the lookups | every value keeps its path, only structs without content go |
| math (`math_helpers.cpp`, `math/`) | a stack of stacks of operands and operators, `bracket_cnt` | push, open, close, finish | called per expression | the value is that of the usual precedence and associativity; no assertion fails |
| `Reader`, visitors, JSON | none (the finished tree) | typed reads by dotted key, a walk | | |
| logger, error control, traces, python binding, programs | none of interest | | | |

What is hard here is not concurrency, there is none, but state that is shared by
many small callbacks: the actions know each other only through `ActionData`, run
at the end of the rule they belong to, and also run for a rule that PEGTL later
gives up; files nest in the middle of a statement; the tree is rewritten while it
is walked, through shared pointers. PROJECT.json lists these places one by one
under "hazards", with the properties that watch them.

## Modules

### OrderedMap, OrderedMapSpec (`details/ordered_map.h`)

`map[m]` and `keys[m]` are `map_` and `keys_` of two instances "a" and "b"; `node`
is a node handle a client holds; `ret` is what the last call returned. There is
one action per member function that modifies. The overloads of insert that keep or copy
the pair are one action, emplace and try_emplace another. `insert(Pair&&)` of a
`std::pair<Key, T>` that is moved is a third, `InsertPair`: it changes both containers as
the others do, but makes the iterator it returns from `x.first` after the move, so `ret`
is the element of any key, or `end()`. Every member is atomic
except `merge`, which is broken at its loop: `MergeMove` moves one node and
remembers the key it will erase, `MergeTrim` erases one key of `source.keys_`. `loop` is a
`for (it = begin(); it != end();)` loop of a client that erases or advances at
each key; `loop.key` is the key the iterator caches (`update_key_from_index`).

`OrderedMapSpec` is what the container promises: for each map a function from keys to
values and a relation that says which key came in before which, with the result of each
call. It has no vector and no index. Of the results one is left open, the iterator that
`InsertPair` returns (see Findings). `Implements` maps `map` to the function and the
positions in `keys` to the relation; a merge moves one key per step in both, and its
trimming of `source.keys_` is not seen.

### ParserActions (`config/grammar.h`, `config/actions.h`, `parseCommon`)

`todo` is the part of the grammar still to be matched. A rule name at its front is
replaced by one of the sequences of `Grammar`; a terminal or `"/RULE"` (the rule
has matched) is consumed by the action of actions.h of that name, on the record
`out`, which has the fields of `ActionData`. `text` is what `in.string()` shows
the actions: the key, flat key, variable or lookup that was read. `src` is the
history the properties compare with: the blocks the text has open, the values it
binds and under which path. The grammar keeps the choices of PEGTL that matter:
`not_at<PAIR>` before flat keys, a list in a proto that is tried as `LIST` and
matched again as `PROTO_LIST` after its actions have run, `if_must` inside the
braces. A document is a sequence of file bodies, included files first; an
included file that stops matching outside a block is cut there (`CutShort`), as
`parseNestedCore` returns false and the result is not looked at.

Abstracted: the text of keys, names and values (a key is a model value, a value is
its type and the position it was read at, which is what identifies it); operators
and numbers inside expressions; comments and white space; locations other than
the position. Keys are joined with "." in the code and are sequences of keys here;
no KEY contains a dot, so this loses nothing.

### Includes (`base_include_action`, `substituteEnvVars`, `ScopedOverride`)

`stack` is the nested calls of `parseNestedCore`: per frame the path as it was
written, the position among the include statements of the file and what
`~ScopedOverride` will restore. `include_pending` is set by the keyword, the
attributes and the file name, `incl` is the local copy while one statement is
being resolved. Paths are sequences of components; `Canonical` is what the file
system makes of "..". What the files contain is chosen when it is read and
remembered in `disk`, so every set of files within the bounds is checked. The body
of a file after its include statements, and what its actions throw, is ParserActions;
`status` has the exceptions of the include statements.

A reference to an environment variable is three components, "${", the name, "}", in names
and in values: a value can bring in others, one that is not closed, or one that what
stands behind it closes. `SubstituteEnvVars` is one turn of the loop of
`substituteEnvVars`, and `UnclosedEnvVar` its `throw`: the `std::runtime_error` passes the
catch of `std::system_error` around the statement and that of `peg::parse_error` in
`parseCommon`, where all other errors become InvalidConfigException. The grammar closes
every reference in a name (`NameAssumption`). A value is whole components, as
in `${DIR}/a.cfg`; names that a value completes within a component (`${X}a.cfg`) are not
modelled.

A directory is found by `exists` and fails when it is opened. `OpenFails` is every
`std::system_error` of `exists` and of the opening, also of a file that has vanished in between.

### References (`flattenAndFindProtos`, `resolveReferences`, `structFromReference`, `replaceProtoVar`)

`heap` is the trees of `cfg_res`: a cell per struct-like and per list, the objects that
shared pointers reach and that change. A cell is named by how it came to be (parsed,
cloned, made from a reference) and where, because each of the three happens at most
once per path; two pointers to one cell are the sharing that the code has. `walk` is the
recursion of `resolveReferences` and of `replaceProtoVar`: per call its function, its
cell, the entry its loop is at, and the `ref_vars` and `refd_protos` it was given. A step
is one entry: passed, entered, made into a struct (`WithInstance`: the clones of the
entries of the proto, then the entries of the reference), or the return. A shallow clone
of a list or a reference leaves what is below where it was.

Text is a sequence of atoms (a number, a word, a variable, the rest of a name after a
shorter one has been replaced) instead of characters; `replaceVarInStr` replaces the
variables in the order of the map, and `$A` at the beginning of `$A2`, as the code does.
An expression whose variables have been replaced is parsed again (`Reparsed`), and the
failure of that parse is not looked at, as in the code.

### Merging (`mergeNested`, `mergeNestedMaps`, `checkForErrors`, `validateAndApplyOverrides`, `stripProtos`)

`heap` is again the struct-likes, a cell for each, named by the map and the path it was
parsed at (`Cell`); `cfg_data` is the tree by value,
first `squashed_cfg` and then `cfg_data_`. `calls` is the recursion of `mergeNestedMaps`:
per call the two maps, the entry at work and what it has put together. A struct in both
maps is merged through the pointer of the first, so that the maps that were merged
change as they do in the code. Then one override per step (`getNestedConfig`, a fold of
`Nest` over the keys, the check of the type, the value at its place) and one proto per step
removed.

What the tree has to be is stated struct by struct, without recursion: at a path where some
map has a struct, the tree has one too, unless an override or the removal of a proto has
cut it off (`CutOff`), and its entries are right (`EntriesRight`): the keys are those that a
map has there, all of them and no other, in the order in which the maps first name them
(`NamedFirst`), and a value is that of the map or of the last override of its path
(`ValueRight`). `TreeRight` looks for each struct by the walk of the code itself (`Found`).

### Lookups (`resolveVarRefs`, `evaluateExpressions`, `cleanupConfig` in `config_helpers.cpp`)

`heap` is the tree: a cell per struct, list and expression, the objects that two
shared pointers can reach and that change; an entry of a cell holds a value or
points to a cell. `source` is the tree as resolving found it. `walk` is the
recursion of the function at work: per call the cell and the entry its loop is at.
`chain` is the loop of `resolveVarRefs(root, src_key, src)` while it follows one
lookup, with `refs` and `value`. Each step is one entry passed, entered or left, or
one turn of that loop, because the code reads the tree again at each turn. `phase`
is the function at work; the three follow each other as in
`Parser::resolveConfig` (config_parser.cpp:194-199), and an exception ends it.

A number is abstracted to what it is computed from: its own literal, or the
expression and what its operands are computed from. A list knows its
`list_element_type`. A call that finds `MaxDepth` calls open is a stack overflow:
a lookup can make a struct part of itself (`struct s { c = $(s) }`), and then
`evaluateExpressions` does not return. `RecursionEnds` says that it is the only way.

The cells are numbered from the outside in, which is how `SourcesAssumption` says that a
source is a tree. Parsing and merging leave one. `resolveReferences` need not: an expression
or a list that a reference gives as the value of `$X` is the same object wherever the proto
has `$X` (`replace_var`, config_helpers.cpp:215-225). Sources in which one `$X` stands twice
and has such a value are outside Lookups and its theorems; the sharing that lookups make
while they are resolved is inside.

The reference the result is compared with, `Meaning`, is defined on the source
alone: chains are followed through looked-up structs too, in no order. It needs no
recursive operator. `Ends` follows all chains in rounds, as many as there are lookups;
what an expression is computed from is the least set of expressions closed under its
operands (`Needed`); a graph is cyclic when some nodes have all an edge to one of them
(`Cyclic`); and what is left of a struct is a selection of its entries in their order
(`Selection`). So the theorems can speak of it.

### Math (`math_helpers.cpp`, `math/actions.h`, `math/grammar.h`)

`s` is the stack of stacks of operands (`vs`) and operators (`ops`), `text` the tokens
read so far, `expect` whether the grammar wants an operand or what may follow one. A step
reads a token and runs its action, or is one turn of a loop that evaluates waiting
operators, at an operator, a closing bracket or the end (`call`, with the code's own copy
`o2` of the operator on top). The
doubles are any set with any function for each operator; in the run they are the field
of 101 elements, in which two expressions that differ in grouping hardly agree.

### MC modules

`MC...` gives the constants of a module their values. `MCParserActions`, `MCReferences`,
`MCMerging` and `MCMath` also hold the properties that compare a result with what the
source means by recursion on it (`EverythingKept`, `InstancesRight`, `RefusedRight` of
Merging, `ResultRight` of Math): the meaning is defined by recursion on the source, in no
order and without sharing, and recursive operators stay out of the modules that proofs
extend.

A definition whose comment begins with "Mutant:" is a plausible bug in the
definition after it. It is used by no specification; replacing the definition by
it makes the property PROJECT.json pairs with it fail, which shows that the
property says something about that code.

## Runs

| run | bounds | what it shows |
|---|---|---|
| `ordered_map` | 3 keys, 1 value | `Consistent`: the two containers never part; `LoopExact`: a loop that erases visits each key once, in order; `IteratorFresh`; `Implements`. Three keys are enough for an erase before, at and after the position of an iterator |
| `parser` | 2 keys, 1 variable; three kinds of documents, see below | stacks, depth and proto scope follow the text; no internal error; every value is kept under its path (`EverythingKept`); an expression has its own lookups |
| `includes` | 4 files in 2 directories; 3 names: one leads nowhere from the root directory, one is absolute after its variable and an unset one in the value of that are substituted, one has a variable with a reference that is not closed; 3 include statements: enough for a cycle of two files below the root | base_dir, attributes, once; `UnexpectedErrorIsReal`: a `std::runtime_error` has its reason in the environment; termination under the fairness below |
| `references` | 2 files; a proto p with a value and a reference to q, used at the top, in a struct and in the other file, all choices of the variables defined; two protos that lead to each other or to themselves, a proto in both files | `InstancesRight`: every reference becomes what proto and variables describe; `InstancesApart`, `ProtosKept`: no use shows in another or in the proto; `ExceptionsReal`: each exception has its reason in the text, a cycle in particular |
| `merging` | every three of 15 small maps with structs in structs and protos; up to two overrides on a tree put together from three maps | `MergedRight`: union of the maps, keys in the order of the files; `PendingMapsKept`: a map still to be merged is as it was parsed; `ResultRight`, `RefusedRight`: what the overrides and the removal of the protos leave, and what is refused |
| `lookups` | a tree of 3 keys, one of them in a struct or missing, in 3 orders; lists of up to 2 elements, expressions of up to 2 operands | `ResolvedRight`: a resolved tree says what its source means whatever was replaced first; every exception has its reason (`CycleIsReal`, `MissingKeyIsReal`, `RecursionEnds`, `EvaluationSucceeds`); `ListsHomogeneous`; it ends |
| `math` | expressions of up to 9 tokens, one number, a field of 101 elements | `ResultRight`: precedence, grouping and brackets; `AssertionsHold`; `OperatorsOrdered` |
| `override_of_lookup`, `mixed_file`, `expression_chain`, `shared_list`, `braced_variable` | those of the run of the same module, or of a single document | each a property the code or its documents state and that fails, see Findings |

The kinds of documents of `parser`: one file of structs, protos, references and pairs of
numbers, up to 6 tokens (`OfBlocks`); one file with every kind of value in pairs, protos,
structs in protos and references, up to 5 (`OfValues`); two files of flat keys or structs
with overrides, up to 6 (`OfFiles`). A closing bracket is no token, so six tokens reach a pair three blocks deep, a
proto with a nested struct and a reference, two structs of one name one after the
other, and a lookup of three parts; every stack then holds at least one element
more than the action at work touches. Three keys in `lookups` are a cycle that does
and one that does not come back to where it began, a chain through a looked-up
struct, a list or struct that is shared, and a chain of expressions in both orders. Keys are interchangeable, so TLC uses their
symmetry; no run that checks liveness does.

The sources of `references` have each variable once as text, once as a list element, in an
expression, in a lookup and in a nested struct, with an outer and an inner definition that
agree or not; two protos are enough for a chain, a cycle of one and of two. Nine tokens in
`math` are four binary operators in a row, or three with a bracket or two unary signs:
enough for every sequence of three precedences with an operator before and after.

Fairness: `Includes` and `Lookups` check `Terminates` under `WF_vars(Next)`. One thread
parses and resolves, and each step of the model is a piece of straight-line code or of a library call
that returns, so the program cannot stop between two steps. Deadlock is checked in
every run; a parse that has ended stutters.

## Proofs

### OrderedMapProofs

For any sets of keys and values and any lists, with the assumptions `DefaultAssumption`,
`NoKeyAssumption` and `ListsAssumption` of OrderedMap (the default is a value, `NoKey` is
no key, a list names each key once):

* `TypeCorrect`: `Spec => []TypeOK`
* `MapAndKeysAgree`: `Spec => []Consistent`
* `LoopVisitsAll`: `Spec => []LoopExact`
* `CachedKeyFresh`: `Spec => []IteratorFresh`
* `ObserversConsistent`: `Spec => []ObserversAgree`

None of these is inductive alone. `IndInv` is `TypeOK /\ Consistent /\ MergeInv /\ LoopInv`.
`MergeInv` says what a merge in progress has done: the keys it has moved are distinct, and
none of them is ahead of its loop, so that the node it extracts is there. `LoopInv` says
how the iterator's index divides the list the loop began with into keys seen and keys to
come. The proof goes by action: lemmas about cutting positions out of an injective
sequence come first, then one lemma per action, then the theorems, by PTL.
`ObserversAgree` follows from `Consistent` and the definitions of `get_index` and
`upper_bound`, so no run repeats it.

### OrderedMapRefinement

`ImplementsOrderedMap`: `Spec => Implements`, from the same assumptions. `Ord(mp, ks)` is
the relation of the abstract map for a pair of members. The lemmas about it carry the
proof: appending a new key puts it last, leaving out keys is restricting the relation,
and positions that bind nothing do not show (`OrdCut`), which is why `MergeTrim` is a
stutter. `KeyAtOrder` says that the key at a position comes before exactly the later
ones, which is what the iterators that erase returns promise. Each action then maps to the
abstract one of its name (one lemma each). The refinement is about contents, order and
results, with the exception of `InsertPair`: there the abstract map promises whether the key was new
and nothing of the iterator, and so the theorem does not either. The invariant needed besides `IndInv` is `MergeSeen`: every key the loop of a
merge has passed is bound in the destination; from it a merge moves the first key the
destination lacks, and leaves none when it ends.

### MathProofs

For any doubles, any function of the operators into them, and expressions of any length,
from `ValuesAssumption`, `OperandsAssumption` and `TokensAssumption` of Math, and for
operands that are values (`NoValue \notin Operands`):

* `TypeCorrect`: `Spec => []TypeOK`
* `StacksBalanced`: below the top each stack has as many operands as operators; the top
  one more exactly after an operand
* `NoAssertionFails`: `Spec => []AssertionsHold`, the five assertions of `MathOp`
* `PrecedenceKept`: `Spec => []OperatorsOrdered`

The inductive invariant is `TypeOK /\ Balanced /\ OperatorsOrdered /\ AssertionsHold`: the
assertions hold because of the balance, and the balance is kept only by a step after which
no assertion has failed. The value itself (`ResultRight`) is defined by recursion on the
text and stays with TLC.

### IncludesProofs

For any files, names and environment, any root file and base directory, and any number of
include statements, from the assumptions of Includes: `FileAssumption` (a path the file
system gives is not empty and has no ".."), `RootsAssumption`, `BaseDirsAssumption`,
`NameAssumption` (a name is not empty, its references are closed and it ends in something
else), `EnvAssumption` (the value of a variable is any text, with references that are closed or
not), `BoundAssumption`, and `SeparatorAssumption`, which says that "/" is a string.

* `TypeCorrect`: `Spec => []TypeOK`: a path that is parsed leads to a file, and
  `base_dir`, now and when it is given back, to a directory, unless it is the caller's
* `BaseDirFollows`: `Spec => []BaseDirFollowsStack`
* `AttributesAreOwn`: `Spec => []AttributesOwn`
* `ParsedOnce`: `Spec => []PathParsedOnce`
* `ErrorsAreReal`: `Spec => []UnexpectedErrorIsReal`: a `std::runtime_error` escapes only
  if a variable that some statement names, directly or through the values of others, has a
  "${" that is not closed

The invariant is `Inv`. `BaseDirFollowsStack` is not inductive because it looks at the top
of the stack only; `Scopes` says the same of every file below, of the directory its
`ScopedOverride` will give back. `AttributesOwn` needs `StatementMatched`: the terminals still to
come are those the attributes already in `include_pending` leave of the statement.
`PathParsedOnce` needs `Listed`, which relates `begun` to `all_files`. The paths are
compared after `Canonical`, a fold; `PlainCanonical` shows that a path of the file
system is its own, so that the file parsed is the one that was found.
`DirectoryOfFile` shows that the directory of a file that is found is one, however the path
to it was put together.

`ErrorsAreReal` has an invariant of its own, `ErrorsInv`: a set of variables that has those
the statements name and those their values name, all of them closed, is enough for the name
that is being resolved, whose references then are all closed (`Resolves`). It is kept by a
substitution because the reference that is replaced is the first and complete: what is
before it has no reference, and what is behind it and the value are closed by themselves
(`SubstitutedClosed`, with `ClosedConcat` and `ClosedSuffix`).

### ParserActionsProofs

For any keys, variables and scalar types, and documents of any length and nesting, from
`BoundsAssumption`, `NamesAssumption` and `ScalarAssumption` of ParserActions (the bounds
are numbers, no key is a variable, scalars are numbers, strings and booleans):

* `KeysFollowPath`: `Spec => []KeysArePath`
* `LookupsOwned`: `Spec => []ExpressionOwnsLookups`
* `ProtosMarked`: `Spec => []ProtoScope`
* `NoErrorOfItsOwn`: `Spec => []NoInternalError`
* `DepthsAreNesting`: `Spec => []DepthIsNesting`

What the actions find in `ActionData` depends on what the grammar has matched before and
will match after, so the invariant speaks of `todo`. A summary says what is known
between two symbols: the open blocks, whether a key, a flat key or a lookup has been read,
what `obj_res` can be. `Moves(a, x, c)` says that the symbol `x`, with all it expands to,
leads from summary `a` to summary `c`, and `Leads(a, todo)` that the symbols left lead
from `a` to the end of the file. `Inv` says that some summary describes the state and
leads there. The first half of the module shows, rule by rule, that `Grammar` replaces a symbol
by symbols that lead to the same summary, for any number of repetitions; the second, action by
action, that the action of a symbol makes the state fit the next summary. This is why
`keys.back()` and `objects.back()` find what they expect in documents of any length. The
keys of a lookup are folds (`KeysOf`, `WithoutLookup`); `WithoutLookupIs` shows that what is
popped at the end of a lookup is what it pushed.

### MergingProofs

For any maps, keys and overrides, from `KeyOrderAssumption` and `SourcesAssumption` of
Merging. The second states what a parse leaves: a map has one entry for a key, each
struct-like is pointed to from where it was parsed, an override is a value at a flat key
(grammar.h:139-149) with at least one key, and no proto is in another (grammar.h:163-177).

* `PendingKept`: `Spec => []PendingMapsKept`
* `TypeCorrect`: `Spec => []TypeOK`
* `MergedIsRight`: `Spec => []MergedRight`
* `ResultIsRight`: `Spec => []ResultRight`

`PendingKept` needs `Inv`. A map still to be merged is reached through a pointer
only in what the merge has just put into the tree: `Reach` says that a pointer of the tree
leads to a map that has been merged, or to the next one, and to this only at or below an entry that
some call has passed (`Touched`). `Maps` says that every pointer stands at the path of the cell
it leads to, and `Calls` (`Merges`, `At`) what the waiting calls hold: each merges the
struct at one path of the tree with that of the next map, and the caller's entry is the
common key it was made for. So `Target`, the pointer the result is written through, is
the struct that the call began with, and never one of a pending map.

`TypeCorrect` includes that `phase` is never an exception a caller does not know, of which
`stripProtos` is the hard part: it looks a proto up in a tree that has been merged,
overridden and stripped since the proto was recorded. `Whole` says that nothing is
lost. `Primary` is the struct of the first map that has one at a path; `Complete`: it
has every key of all the maps merged at this path, except protos that have been
removed, and its pointers lead to primary structs again; `Agree`: what has been merged at one path is of one
type, so no map has a proto where another has a struct, and no removed proto is on the way to
another; `Joined`: the same of the calls in progress, in terms of the two maps.

`MergedIsRight` and `ResultIsRight` say what the tree is and not only that nothing is lost.
`Exact` is their invariant: every primary struct has the right entries of as many maps as
it has been merged with (`Upto`), which are those before the next map and, for a struct
the merge is through with, the next map as well. `MergedRight` alone is not inductive, because
while maps are merged the structs of the tree are at different maps. One merge of
two structs appends what the second has more, which keeps the order in which the keys are first named
(`JoinedRight`); an override and the removal of a proto take away what they cut off and change no
other value (`ChangedRight`). At the end `TreeIsRight` follows the walk of
`Found` key by key: it is at a primary struct, so it finds the next key there as long as the path is
not cut off (`ParentEntry`, `ChildRight`), and never finds one that is.

TLC checked the three invariants, on the sources of `merging`, before they were proved.

### LookupsProofs

For any trees and any lookups and expressions in them, from `SourcesAssumption` and
`DepthAssumption` of Lookups. The first states what a parse leaves (grammar.h:82-182), and
resolving references as well with the exception named above: a
tree, each key once in a struct, lists of one type of scalar, operands that are lookups,
each listed once. The second says that the stack has room for a walk that enters no cell twice.

* `TypeCorrect`: `Spec => []TypeOK`
* `ListsAreHomogeneous`: `Spec => []ListsHomogeneous`
* `EvaluationAlwaysSucceeds`: `Spec => EvaluationSucceeds`, the action property
* `MissingKeysAreReal`: `Spec => []MissingKeyIsReal`
* `RecursionEndsUnlessCyclic`: `Spec => []RecursionEnds`
* `CyclesAreReal`: `Spec => []CycleIsReal`
* `ResolvedIsRight`: `Spec => []ResolvedRight`

The common invariant is `Resolving`. `Typed` types the fields, with what the calls in
progress are (`Outwards`). `Rewritten` says what a replacement can put where:
the list of a key stays one, elements fit the type of their list. `Visiting` describes `resolveVarRefs`: there is a
set of cells it has finished, every entry it has passed is no lookup any more and leads
only to finished cells, and what it has not passed is as it was parsed. So it enters no
cell twice although lookups make the tree share structs while it runs; it never runs out
of stack, and at its end no lookup is left (`Resolved`). `Computing` is the same for
`evaluateExpressions`, which may enter a struct again, and gives `Evaluated`. The first two
theorems and the action property follow from these.

The other properties compare with the source. `EndsFixed` shows that one round more
changes nothing in `Ends`: rounds only end chains, a round that ends none is the last, and
there are no more rounds than lookups. `Meant` says that every value in the tree has the
end of the one it has replaced; with it, what `getConfigValue` finds in the tree as it is
has the end of what the keys name in the source, as far as it gets (`NamedFollows`), which gives `MissingKeyIsReal`. `Linked`: the
sequence `refs` is a path of `Dependence`, so a key that repeats closes a cycle. `Contained`:
the calls of the later walks are a path of `Containment`, so more calls than structs
repeat one.

`ResolvedIsRight` goes phase by phase. `Settled`: a lookup that has been replaced is its
end, or in an expression its meaning; that the number is right when an operand is
evaluated on the spot is `ComputedFromIs`, the least closed set of an expression unrolled
by one step. `Numbered`: during `evaluateExpressions` a value is the end or the meaning of what was
parsed. `Cleaning`: of the structs that `cleanupConfig` has been through at least once
exactly the entries with content are left, all others are as they mean; a struct shared by
several keys is walked again and nothing changes then (`KeptAll`), and a struct that is left for
the first time is nowhere else among the calls (`NotTwice`), so the loops of those are not
disturbed. When the root is left, that is every struct of the source (`CleanedAtEnd`).

TLC checked `Settled`, `Numbered` and `Cleaning` on the sources of `lookups` before they
were proved.

### SequenceLemmas

What these proofs need of sequences: `Front`, `Last`, concatenation, that a set of numbers
has a least element, and that a fold over a sequence has its intermediate results
(`StepsExist`). With the last two a fact about a fold is proved by the first prefix
that would violate it, which takes the place of an induction theorem.

### Only model-checked

* `Terminates`: fairness is out of the prover's reach.
* The properties that compare with a meaning defined by recursion: `EverythingKept`,
  `InstancesRight`, `RefusedRight` of Merging and `ResultRight` of Math. What a recursive
  definition is for every input cannot be proved.
* `TypeOK` of ParserActions: it types strings and sequences that `SelectSeq` makes, of
  which no backend knows anything. The parts the other theorems need are in `Inv`.
* References: `TypeOK`, `ProtosKept`, `InstancesApart` and `ExceptionsReal`. They hold of the
  sources of the run and not of every source: a list in a reference of a proto is shared by
  all uses (`shared_list`), so the theorems need sources without such lists, and an invariant about
  what each use of a proto has copied so far.

## Findings

Disagreements between the code and what its comments or documents say of it, each
with a run that shows it:

* `override_of_lookup`: `KEY` resets `is_override`, and the keys of a `$(...)` in the
  value are KEYs: `b [override] = $(a)` is no override.
* `mixed_file`: an included file that mixes flat keys and structs is not refused
  but silently cut after the flat keys.
* `expression_chain`: an expression that refers to an expression further down, which
  has lookups itself, is refused; with the two the other way round it is not.
* `shared_list`: a list that a reference inside a proto adds is one object in all uses of
  the proto, and the first use writes the values of its variables into it.
* `braced_variable`: `${X}` as a value or as an element of a list is reported as undefined
  although the reference defines `$X`.

Met as well, without a run, because no text says what ought to happen, because one step
shows it, or because it is at the edge of what a module models:

* ordered_map.h:400: `insert` of a `std::pair<Key, T>` that is moved returns an iterator made
  from the key the move has left behind, so it need not point to the new element
  (`InsertPair`). `emplace` keeps a copy of the key to avoid that (502); the test that
  "will test both paths of all the insert overloads" (tests/ordered_map_test.cpp:264) moves no
  pair of this type. The container itself is as it ought to be.
* utils.h:131: an environment variable whose value has a "${" without a "}" ends the parse
  with `std::runtime_error` (`UnclosedEnvVar`); config_parser.cpp:133 says "Will throw
  InvalidConfigException if parsing fails". `UnexpectedErrorIsReal` says that it is the only way
  to that exception.
* ordered_map.h:117: an initializer list that repeats a key makes `keys_` longer than `map_`;
  no list in the code repeats one.
* utils.h:123: an environment variable whose value contains its own name is substituted for
  ever (`Terminates` assumes there is none).
* actions.h:697: a struct of the root after included flat keys goes into the map of the last
  flat key, and clashes when that has the same root.
* actions.h:513: a file is parsed once per spelling of its path; the root file is not in
  `all_files` and is parsed again when it is included.
* actions.h:788: the name of the variable that a `REF_VARDEF` defines waits in `result`,
  which a variable in the value overwrites: `$X = $(foo.$Y)` defines `$Y`.
* config_helpers.cpp:279-292: a variable of an expression that is replaced by a string gives an
  expression that does not parse; the failure is ignored. A variable that is not defined
  throws `std::out_of_range`. `{{ $A + 1 }}` outside a proto is accepted by the grammar
  and meets the assertion of math_helpers.cpp:49.
* config_helpers.cpp:263: variables in expressions and lookups that are elements of a list
  are never replaced; `InstancesRight` allows for it.
* config_parser.cpp:279: the value of an outer reference wins over that of an inner one, also for
  `$PARENT_NAME`; `$FOO` also replaces the beginning of `$FOOBAR`, which the tests call
  ambiguous. `Meaning` of MCReferences follows the code in both.
* Two files that define a proto of one name: every reference uses the last.
* config_parser.cpp:327-343: an override is not compared with a default that is a struct or a
  lookup; an override of a key inside a proto is accepted and lost with the proto; one that
  replaces a struct with a proto in it makes `stripProtos` throw InvalidTypeException.
* A struct that was in a proto and a struct at the same path of another file are of
  different types and cannot be merged (MismatchTypeException).
* config_helpers.cpp:459, 520: lookups and expressions in a list that is an element of a list are
  never resolved, so `ResolvedRight` and `ListsHomogeneous` speak of the lists of keys; two
  lists can contain each other without a report. `b = $(a.c)` with `a = $(s)` is refused
  when `b` comes before `a`.
* reader.h:154: a read into a vector appends to what the vector holds.

## Plan

The container, the parsing phase, includes, and each step of `Parser::resolveConfig` have a
module. What is left, in the order of weight:

1. Proofs: type correctness and `ProtosKept` of References for sources without the lists
   of `shared_list`, which have to move out of MCReferences for that; `RefusedRight` of Merging
   and the values of Math, with a meaning that is defined without recursion, as that of Lookups and
   `ResultRight` of Merging are.
2. `Reader` as operators on the finished tree of Lookups.
3. The digits of numbers, where the text of one is read back (std::stoi, std::to_string).

## Not modelled

* `unflatten(flat_key, ...)`: it never runs. The actions nest flat keys as they read them
  (`Unflatten` of ParserActions), so no key of a tree contains a dot.
* `Reader`: it keeps no state; its walk of the tree is `getNestedConfig` and
  `getConfigValue`, which Lookups and Merging have, and what is left is one conversion of
  text per read.
* Visitors, JSON and `stream()`: formatting of the finished tree.
* Logging, error control, traces: the models keep which exception ends a parse and not
  what it says.
* The python binding and the programs: they forward to `Parser` and `Reader`.
