------------------------------- MODULE Includes -------------------------------
(***************************************************************************)
(* The include statements of a config: config/actions.h parses an included *)
(* file inside the action of the statement, into the same ActionData, so   *)
(* the files being parsed form a stack of nested calls.  A name is         *)
(* resolved against out.base_dir, or against the including file when the   *)
(* statement is include_relative, which also makes the directory of the    *)
(* file it includes the base_dir of everything parsed inside it.           *)
(*                                                                         *)
(* A path is the sequence of its components under the root of the file     *)
(* system.  A name begins with "/" when it is absolute, and may refer to   *)
(* environment variables: ${D} is the three parts "${", "D", "}".  What    *)
(* the files say is chosen while they are read and remembered in disk; the *)
(* bodies after the include statements, and what their actions throw, are  *)
(* module ParserActions.                                                   *)
(***************************************************************************)
EXTENDS Naturals, FiniteSets, Sequences, SequencesExt

CONSTANTS
  File,          \* the files that exist, by the paths that lead to them without ".."
  Roots,         \* what is parsed: a file, or <<>> for parseFromString
  BaseDirs,      \* the base_dir parsing may begin with
  Name,          \* the names in include statements
  EnvVar,        \* the environment variables
  Env,           \* their values, which may refer to others; <<>> when not set
  MaxStatements  \* bound: include statements in all the files

ASSUME FileAssumption ==
  \A f \in File : f \in Seq(STRING) /\ f # <<>> /\ \A i \in DOMAIN f : f[i] # ".."
ASSUME RootsAssumption == Roots \subseteq File \cup {<<>>}
ASSUME BaseDirsAssumption == \A d \in BaseDirs : d \in Seq(STRING)

(* What opens a reference and what closes one, in names and in values.     *)
Opening == "${"
Closing == "}"
Opens(text) == {i \in DOMAIN text : text[i] = Opening}
Closes(text, i) == {j \in DOMAIN text : j > i /\ text[j] = Closing}
Closed(text) == \A i \in Opens(text) : Closes(text, i) # {}
Text(text) ==
  text \in Seq(STRING) /\ \A i \in DOMAIN text :
                            /\ text[i] = "/" => i = 1
                            /\ text[i] = Closing => i > 2 /\ text[i - 2] = Opening

\* The grammar closes the references in a name and ends it in its extension.
ASSUME NameAssumption ==
  \A n \in Name : Text(n) /\ Closed(n) /\ n # <<>> /\ Last(n) # Closing
ASSUME EnvAssumption ==
  EnvVar \subseteq STRING /\ DOMAIN Env = EnvVar /\ \A v \in EnvVar : Text(Env[v])
ASSUME SeparatorAssumption == "/" \in STRING    \* true, but no backend of TLAPS knows it
ASSUME BoundAssumption == MaxStatements \in Nat

VARIABLES
  stack,            \* the files being parsed, the root first
  base_dir,         \* ActionData::base_dir
  all_files,        \* ActionData::all_files
  include_pending,  \* ActionData::include_pending
  incl,             \* the local of base_include_action, while one is resolved
  todo,             \* the terminals left of the statement being matched
  disk,             \* the include statements of each file, as far as read
  closed,           \* the files read to their end
  begun,            \* history: the paths parsed, in the order they were begun
  status            \* "parsing", "parsed", or the exception that ended it

vars == <<stack, base_dir, all_files, include_pending, incl, todo, disk, closed,
          begun, status>>

-----------------------------------------------------------------------------
(* std::filesystem. *)

Directory(path) == Front(path)                                \* parent_path
Join(base, name) == IF Head(name) = "/" THEN Tail(name) ELSE base \o name

(* What a path leads to: ".." is followed, never folded by absolute().     *)
Canonical(path) ==
  LET follow(at, part) == IF part # ".." THEN Append(at, part)
                          ELSE IF at = <<>> THEN <<>> ELSE Front(at)
  IN  FoldLeft(follow, <<>>, path)
Directories == UNION {{SubSeq(f, 1, n) : n \in 0 .. (Len(f) - 1)} : f \in File}
IsPath(path) ==
  \A n \in 1 .. (Len(path) - 1) : Canonical(SubSeq(path, 1, n)) \in Directories
IsFile(path) == Canonical(path) \in File /\ IsPath(path)
Exists(path) == IsFile(path) \/ (Canonical(path) \in Directories /\ IsPath(path))

-----------------------------------------------------------------------------
(* Include statements and the files being parsed. *)

Statement == [relative : BOOLEAN, optional : BOOLEAN, once : BOOLEAN, name : Name]
NoInclude == [relative |-> FALSE, optional |-> FALSE, once |-> FALSE, file |-> <<>>]

(* at: the next statement.  restore: the value the ScopedOverride of the   *)
(* include_relative that began the file gives back to base_dir.            *)
Frame(path, relative, restore) ==
  [path |-> path, at |-> 1, relative |-> relative, restore |-> restore]

Top == Last(stack)
Here == Canonical(Top.path)
Statements == Cardinality(UNION {{f} \X DOMAIN disk[f] : f \in DOMAIN disk})
(* All include statements of a file come before its include_relative ones. *)
InOrder(s) == s.relative \/ \A i \in DOMAIN disk[Here] : ~disk[Here][i].relative

Parsing == status = "parsing"
Matching(terminal) == Parsing /\ todo # <<>> /\ Head(todo) = terminal
BetweenStatements == Parsing /\ todo = <<>> /\ incl = <<>>

Init ==
  /\ \E root \in Roots, dir \in BaseDirs :
       stack = <<Frame(root, FALSE, dir)>> /\ base_dir = dir /\ begun = <<root>>
  /\ all_files = {}
  /\ include_pending = NoInclude
  /\ incl = <<>>
  /\ todo = <<>>
  /\ disk = [f \in File \cup {<<>>} |-> <<>>]
  /\ closed = {}
  /\ status = "parsing"

(* An exception of a nested parse ends the outermost one as well.          *)
Throw(exception) ==
  /\ status' = exception
  /\ stack' = <<>> /\ base_dir' = <<>> /\ all_files' = {} /\ include_pending' = NoInclude
  /\ incl' = <<>> /\ todo' = <<>> /\ begun' = <<>> /\ closed' = {}
  /\ UNCHANGED disk
(* A peg::parse_error, which parseCommon makes an exception of its own.    *)
ParseError == Throw("InvalidConfigException")

-----------------------------------------------------------------------------
(* The keywords of a statement. *)

Attributes(s) == (IF s.optional THEN <<"OPTIONALk">> ELSE <<>>)
                   \o (IF s.once THEN <<"ONCEk">> ELSE <<>>)

(* Mutant: the flags of the include before stay.                           *)
INCLUDEkKeepsFlags(s) ==
  /\ BetweenStatements
  /\ Top.at \notin DOMAIN disk[Here] /\ InOrder(s) /\ Statements < MaxStatements
  /\ disk' = [disk EXCEPT ![Here] = Append(@, s)]
  /\ include_pending' = [include_pending EXCEPT !.relative = s.relative]
  /\ todo' = Attributes(s) \o <<"FILENAME", "INCLUDE">>
  /\ stack' = [stack EXCEPT ![Len(stack)].at = @ + 1]
  /\ UNCHANGED <<base_dir, all_files, incl, closed, begun, status>>

(* INCLUDEk and INCLUDE_RELATIVEk.                                         *)
INCLUDEk(s) ==
  /\ BetweenStatements
  /\ IF Top.at \in DOMAIN disk[Here]
     THEN s = disk[Here][Top.at] /\ UNCHANGED disk
     ELSE /\ Here \notin closed /\ InOrder(s) /\ Statements < MaxStatements
          /\ disk' = [disk EXCEPT ![Here] = Append(@, s)]
  /\ include_pending' = [NoInclude EXCEPT !.relative = s.relative]
  /\ todo' = Attributes(s) \o <<"FILENAME", "INCLUDE">>
  /\ stack' = [stack EXCEPT ![Len(stack)].at = @ + 1]
  /\ UNCHANGED <<base_dir, all_files, incl, closed, begun, status>>

(* The statement being matched.                                            *)
Current == disk[Here][Top.at - 1]

Sets(terminal, pending) ==
  /\ Matching(terminal)
  /\ include_pending' = pending
  /\ todo' = Tail(todo)
  /\ UNCHANGED <<stack, base_dir, all_files, incl, disk, closed, begun, status>>
OPTIONALk == Sets("OPTIONALk", [include_pending EXCEPT !.optional = TRUE])
ONCEk == Sets("ONCEk", [include_pending EXCEPT !.once = TRUE])
FILENAME == Matching("FILENAME") /\ Sets("FILENAME", [include_pending EXCEPT !.file = Current.name])

(* INCLUDE and INCLUDE_RELATIVE run base_include_action, which moves the   *)
(* pending include out: its flags stay behind, its file does not.          *)
INCLUDE ==
  /\ Matching("INCLUDE")
  /\ incl' = <<include_pending>>
  /\ include_pending' = [include_pending EXCEPT !.file = <<>>]
  /\ todo' = <<>>
  /\ UNCHANGED <<stack, base_dir, all_files, disk, closed, begun, status>>

-----------------------------------------------------------------------------
(* base_include_action. *)

(* std::getenv of what is between "${" at i and "}" at j.                  *)
GetEnv(name, i, j) ==
  IF j = i + 2 /\ name[i + 1] \in EnvVar THEN Env[name[i + 1]] ELSE <<>>

(* Mutant: the reference to an unset variable stays.                       *)
SubstitutedIfSet(name) ==
  LET i == Min(Opens(name))
      j == Min(Closes(name, i))
  IN  IF GetEnv(name, i, j) = <<>> THEN name
      ELSE SubSeq(name, 1, i - 1) \o GetEnv(name, i, j) \o SubSeq(name, j + 1, Len(name))
(* str.replace of the first ${VAR} by its value.  In front, a value may    *)
(* make the name absolute, and an empty one leaves the separator after it; *)
(* further behind, a second separator makes no difference.                 *)
Substituted(name) ==
  LET i == Min(Opens(name))
      j == Min(Closes(name, i))
      found == GetEnv(name, i, j)
      value == IF i = 1 THEN (IF found = <<>> THEN <<"/">> ELSE found)
               ELSE IF found # <<>> /\ Head(found) = "/" THEN Tail(found) ELSE found
  IN  SubSeq(name, 1, i - 1) \o value \o SubSeq(name, j + 1, Len(name))

Substituting == Parsing /\ incl # <<>> /\ Opens(incl[1].file) # {}
IsClosed(name) == Closes(name, Min(Opens(name))) # {}

SubstituteEnvVars ==
  /\ Substituting /\ IsClosed(incl[1].file)
  /\ incl' = <<[incl[1] EXCEPT !.file = Substituted(@)]>>
  /\ UNCHANGED <<stack, base_dir, all_files, include_pending, todo, disk, closed, begun, status>>

(* Mutant: a variable that is not set is an error as well.                 *)
UnclosedOrUnset ==
  /\ Substituting
  /\ LET name == incl[1].file
         i == Min(Opens(name))
     IN  IsClosed(name) => GetEnv(name, i, Min(Closes(name, i))) = <<>>
  /\ Throw("std::runtime_error")
(* "Invalid environment variable syntax": neither the catch of a           *)
(* system_error around the statement nor parseCommon converts it.          *)
UnclosedEnvVar ==
  Substituting /\ ~IsClosed(incl[1].file) /\ Throw("std::runtime_error")

(* path_base and cfg_file: a source that is no file has no directory.      *)
PathBase ==
  IF incl[1].relative /\ Top.path # <<>> THEN Directory(Top.path) ELSE base_dir
CfgFile == Join(PathBase, incl[1].file)
Resolved == Parsing /\ incl # <<>> /\ Opens(incl[1].file) = {}

(* return from base_include_action without a nested parse.                 *)
Skip ==
  /\ incl' = <<>>
  /\ UNCHANGED <<stack, base_dir, all_files, include_pending, todo, disk, closed, begun, status>>

Missing ==
  Resolved /\ ~Exists(CfgFile) /\ (IF incl[1].optional THEN Skip ELSE ParseError)

(* exists and file_input, which opens the file before the duplicate check, *)
(* may throw a system_error; file_input does if the path is a directory.   *)
OpenFails == Resolved /\ ParseError

Duplicate ==
  /\ Resolved /\ IsFile(CfgFile) /\ CfgFile \in all_files
  /\ IF incl[1].once THEN Skip ELSE ParseError

(* Mutants: the file is not added to all_files; the file itself is taken   *)
(* for its directory.                                                      *)
BeginNestedUnlisted ==
  /\ Resolved /\ IsFile(CfgFile) /\ CfgFile \notin all_files
  /\ base_dir' = IF incl[1].relative THEN Directory(CfgFile) ELSE base_dir
  /\ stack' = Append(stack, Frame(CfgFile, incl[1].relative, base_dir))
  /\ begun' = Append(begun, CfgFile)
  /\ incl' = <<>>
  /\ UNCHANGED <<all_files, include_pending, todo, disk, closed, status>>

BeginNestedNoParent ==
  /\ Resolved /\ IsFile(CfgFile) /\ CfgFile \notin all_files
  /\ base_dir' = IF incl[1].relative THEN CfgFile ELSE base_dir
  /\ all_files' = all_files \cup {CfgFile}
  /\ stack' = Append(stack, Frame(CfgFile, incl[1].relative, base_dir))
  /\ begun' = Append(begun, CfgFile)
  /\ incl' = <<>>
  /\ UNCHANGED <<include_pending, todo, disk, closed, status>>
BeginNested ==
  /\ Resolved /\ IsFile(CfgFile) /\ CfgFile \notin all_files
  /\ base_dir' = IF incl[1].relative THEN Directory(CfgFile) ELSE base_dir
  /\ all_files' = all_files \cup {CfgFile}
  /\ stack' = Append(stack, Frame(CfgFile, incl[1].relative, base_dir))
  /\ begun' = Append(begun, CfgFile)
  /\ incl' = <<>>
  /\ UNCHANGED <<include_pending, todo, disk, closed, status>>

(* A file has no more include statements: its body is matched, or it is    *)
(* not, which the including file ignores.  ~ScopedOverride restores.       *)
AtEnd == BetweenStatements /\ Top.at \notin DOMAIN disk[Here]
(* Mutant: base_dir is not restored.                                       *)
EndNestedKeepsBase ==
  /\ AtEnd /\ Len(stack) > 1
  /\ stack' = Front(stack)
  /\ closed' = closed \cup {Here}
  /\ UNCHANGED <<base_dir, all_files, include_pending, incl, todo, disk, begun, status>>
EndNested ==
  /\ AtEnd /\ Len(stack) > 1
  /\ base_dir' = IF Top.relative THEN Top.restore ELSE base_dir
  /\ stack' = Front(stack)
  /\ closed' = closed \cup {Here}
  /\ UNCHANGED <<all_files, include_pending, incl, todo, disk, begun, status>>

EndRoot ==
  /\ AtEnd /\ Len(stack) = 1
  /\ status' = "parsed"
  /\ closed' = closed \cup {Here}
  /\ UNCHANGED <<stack, base_dir, all_files, include_pending, incl, todo, disk, begun>>

(* A text that is not in the grammar: at the root, in a block of any file, *)
(* or after the keyword of an include (must<FILENAME>).                    *)
SyntaxError == Parsing /\ incl = <<>> /\ ParseError

Include == OPTIONALk \/ ONCEk \/ FILENAME \/ INCLUDE \/ SubstituteEnvVars
           \/ UnclosedEnvVar \/ Missing \/ OpenFails \/ Duplicate \/ BeginNested
Ended == ~Parsing /\ UNCHANGED vars

Next ==
  \/ \E s \in Statement : INCLUDEk(s)
  \/ Include
  \/ EndNested
  \/ EndRoot
  \/ SyntaxError
  \/ Ended

(* One thread parses, and every step of it returns.                        *)
Spec == Init /\ [][Next]_vars
FairSpec == Spec /\ WF_vars(Next)

-----------------------------------------------------------------------------
(* Properties. *)

(* Every variable has its type.  The type of a path that is parsed or has  *)
(* been is that it leads to a file, and that of base_dir, now and when it  *)
(* is given back, that it is the caller's or leads to a directory, however *)
(* the paths of nested includes were put together (actions.h:480-511).     *)
IsBaseDir(dir) ==
  dir \in BaseDirs \/ (dir \in Seq(STRING) /\ Canonical(dir) \in Directories)
TypeOK ==
  /\ \A i \in DOMAIN stack :
       /\ stack[i].path \in Seq(STRING) /\ Canonical(stack[i].path) \in File \cup {<<>>}
       /\ stack[i].at \in Nat \ {0} /\ stack[i].relative \in BOOLEAN
       /\ IsBaseDir(stack[i].restore)
  /\ stack # <<>> => IsBaseDir(base_dir)
  /\ \A p \in all_files : p \in Seq(STRING) /\ Canonical(p) \in File
  /\ include_pending.file \in Name \cup {<<>>}
  /\ Len(incl) <= 1 /\ \A i \in DOMAIN incl : incl[i].file \in Seq(STRING)
  /\ todo \in Seq({"OPTIONALk", "ONCEk", "FILENAME", "INCLUDE"})
  /\ DOMAIN disk = File \cup {<<>>} /\ \A f \in DOMAIN disk : disk[f] \in Seq(Statement)
  /\ closed \subseteq File \cup {<<>>}
  /\ begun \in Seq(Seq(STRING))
  /\ status \in {"parsing", "parsed", "InvalidConfigException", "std::runtime_error"}

(* base_dir is the directory of the innermost file that is being parsed    *)
(* for an include_relative, and what parsing began with when there is      *)
(* none, whatever files were included, skipped and left before             *)
(* (actions.h:507-511, utils.h:146-168).                                   *)
BaseDirFollowsStack ==
  stack # <<>> =>
    LET relative == {i \in DOMAIN stack : stack[i].relative}
    IN  IF relative = {} THEN base_dir = stack[1].restore
        ELSE \E i \in relative : /\ \A j \in relative : j <= i
                                 /\ base_dir = Directory(stack[i].path)

(* An include is resolved with the attributes of its own statement: those  *)
(* of the statements before it and of the files parsed in between, which   *)
(* go through the same include_pending, are gone (actions.h:422-463).      *)
AttributesOwn ==
  incl # <<>> => /\ incl[1].relative = Current.relative
                 /\ incl[1].optional = Current.optional
                 /\ incl[1].once = Current.once

(* No path is parsed twice, apart from the root's, which is not in         *)
(* all_files: however the files include each other, no included file is    *)
(* parsed again under its own path, and none while it is being parsed, so  *)
(* the nesting ends (actions.h:507-526).                                   *)
PathParsedOnce ==
  \A i, j \in DOMAIN begun : i < j /\ begun[i] = begun[j] => i = 1

(* substituteEnvVars fails only because of a value in the environment: a   *)
(* variable that a statement names, or that is named in the value of such  *)
(* a one, has a "${" which is not closed.  A variable that is not set, or  *)
(* a reference put together by a value and what is around it, is no error  *)
(* (utils.h:121-144).                                                      *)
Named(text) ==
  {v \in EnvVar : \E i \in Opens(text) : i + 1 \in DOMAIN text /\ text[i + 1] = v}
NamedInFiles ==
  UNION {UNION {Named(disk[f][i].name) : i \in DOMAIN disk[f]} : f \in DOMAIN disk}
UnexpectedErrorIsReal ==
  status = "std::runtime_error" =>
    \A S \in SUBSET EnvVar :
      NamedInFiles \subseteq S /\ (\A v \in S : Named(Env[v]) \subseteq S)
        => \E v \in S : ~Closed(Env[v])

(* Parsing ends, with a config or with an exception, for every set of      *)
(* files, if no environment variable leads back to itself.                 *)
Terminates == <>(~Parsing)
=============================================================================
