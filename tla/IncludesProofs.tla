---------------------------- MODULE IncludesProofs ----------------------------
(***************************************************************************)
(* Theorems about Includes, for any files, names and environment, and any  *)
(* number of include statements.                                           *)
(***************************************************************************)
EXTENDS Includes, SequenceLemmas

-----------------------------------------------------------------------------
(* Canonical, a fold over the components of the path.                      *)

follow(at, part) == IF part # ".." THEN Append(at, part)
                    ELSE IF at = <<>> THEN <<>> ELSE Front(at)
Folds(g, path, D) ==
  g = [s \in SUBSET D |-> IF s = {} THEN <<>> ELSE follow(g[s \ {Max(s)}], path[Max(s)])]

LEMMA CanonicalIsFold ==
  ASSUME NEW path
  PROVE  Canonical(path) = (CHOOSE g : Folds(g, path, DOMAIN path))[DOMAIN path]
BY Zenon DEF Canonical, Folds, follow, FoldLeft, MapThenFoldSet

LEMMA FoldExtends ==
  ASSUME NEW path, NEW n \in Nat, NEW g, Folds(g, path, 1 .. n)
  PROVE  Folds([s \in SUBSET (1 .. (n + 1)) |->
                  IF n + 1 \in s THEN follow(g[s \ {n + 1}], path[n + 1]) ELSE g[s]],
               path, 1 .. (n + 1))
<1> DEFINE h == [s \in SUBSET (1 .. (n + 1)) |->
                   IF n + 1 \in s THEN follow(g[s \ {n + 1}], path[n + 1]) ELSE g[s]]
<1>1. \A s \in SUBSET (1 .. n) : h[s] = g[s]
  OBVIOUS
<1>2. ASSUME NEW s \in SUBSET (1 .. (n + 1))
      PROVE  h[s] = IF s = {} THEN <<>> ELSE follow(h[s \ {Max(s)}], path[Max(s)])
  <2>1. CASE n + 1 \in s
    <3>1. Max(s) = n + 1
      BY <2>1, MaxOfPrefix
    <3>2. s \ {n + 1} \in SUBSET (1 .. n)
      OBVIOUS
    <3> QED  BY <1>1, <2>1, <3>1, <3>2
  <2>2. CASE n + 1 \notin s
    <3>1. s \in SUBSET (1 .. n) /\ s \ {Max(s)} \in SUBSET (1 .. n)
      <4>1. \A i \in s : i \in 1 .. n
        BY <2>2
      <4> QED  BY <4>1
    <3>2. g[s] = IF s = {} THEN <<>> ELSE follow(g[s \ {Max(s)}], path[Max(s)])
      BY <3>1 DEF Folds
    <3>3. h[s] = g[s] /\ h[s \ {Max(s)}] = g[s \ {Max(s)}]
      BY <1>1, <3>1
    <3> QED  BY <3>2, <3>3
  <2> QED  BY <2>1, <2>2
<1> HIDE DEF h
<1>3. h = [s \in SUBSET (1 .. (n + 1)) |-> h[s]]
  BY DEF h
<1>4. h = [s \in SUBSET (1 .. (n + 1)) |->
             IF s = {} THEN <<>> ELSE follow(h[s \ {Max(s)}], path[Max(s)])]
  BY <1>2, <1>3
<1> QED  BY <1>4 DEF Folds, h

LEMMA FoldExists ==
  ASSUME NEW path, NEW n \in Nat
  PROVE  \E g : Folds(g, path, 1 .. n)
<1> DEFINE T == {k \in Nat : ~ \E g : Folds(g, path, 1 .. k)}
<1>1. SUFFICES ASSUME T # {} PROVE FALSE
  OBVIOUS
<1>2. PICK k \in T : \A j \in T : k <= j
  BY <1>1, LeastNumber
<1>3. CASE k = 0
  <2>1. Folds([s \in SUBSET (1 .. 0) |-> <<>>], path, 1 .. 0)
    BY DEF Folds
  <2> QED  BY <1>3, <2>1
<1>4. CASE k # 0
  <2>1. k - 1 \in Nat /\ k - 1 \notin T
    BY <1>2, <1>4
  <2>2. PICK g : Folds(g, path, 1 .. (k - 1))
    BY <2>1
  <2>3. (k - 1) + 1 = k
    BY <1>4
  <2>4. \E h : Folds(h, path, 1 .. k)
    BY <2>1, <2>2, <2>3, FoldExtends
  <2> QED  BY <2>4
<1> QED  BY <1>3, <1>4

(* A path without ".." leads to itself.                                    *)
LEMMA PlainCanonical ==
  ASSUME NEW path \in Seq(STRING), \A i \in DOMAIN path : path[i] # ".."
  PROVE  Canonical(path) = path
<1> DEFINE n == Len(path)
           g == CHOOSE f : Folds(f, path, 1 .. n)
           T == {k \in Nat : k <= n /\ g[1 .. k] # SubSeq(path, 1, k)}
<1>1. n \in Nat /\ DOMAIN path = 1 .. n
  OBVIOUS
<1>2. Folds(g, path, 1 .. n)
  BY <1>1, FoldExists
<1>3. ASSUME NEW k \in T, \A j \in T : k <= j PROVE FALSE
  <2>1. k \in 0 .. n /\ (1 .. k) \in SUBSET (1 .. n)
    BY <1>1
  <2>2. g[1 .. k] = IF (1 .. k) = {} THEN <<>> ELSE follow(g[(1 .. k) \ {Max(1 .. k)}], path[Max(1 .. k)])
    <3> HIDE DEF g
    <3> QED  BY <1>2, <2>1 DEF Folds
  <2>3. CASE k = 0
    <3>1. 1 .. k = {} /\ SubSeq(path, 1, k) = <<>>
      BY <2>3
    <3> QED  BY <2>2, <3>1
  <2>4. CASE k # 0
    <3>1. Max(1 .. k) = k /\ (1 .. k) \ {k} = 1 .. (k - 1) /\ (1 .. k) # {}
      <4>1. k \in 1 .. k /\ (1 .. k) \ {k} = 1 .. (k - 1)
        BY <2>1, <2>4
      <4>2. k \in Nat /\ (1 .. k) \in SUBSET (1 .. k)
        BY <2>1
      <4>3. Max(1 .. k) = k
        BY <4>1, <4>2, MaxOfPrefix
      <4> QED  BY <4>1, <4>3
    <3>2. k - 1 \in Nat /\ k - 1 <= n /\ k - 1 \notin T
      BY <1>3, <2>1, <2>4
    <3>3. g[1 .. (k - 1)] = SubSeq(path, 1, k - 1)
      BY <3>2
    <3>4. path[k] # ".." /\ path[k] \in STRING
      BY <1>1, <2>1, <2>4
    <3>5. g[1 .. k] = Append(SubSeq(path, 1, k - 1), path[k])
      <4> HIDE DEF g
      <4> QED  BY <2>2, <3>1, <3>3, <3>4 DEF follow
    <3>6. Append(SubSeq(path, 1, k - 1), path[k]) = SubSeq(path, 1, k)
      BY <2>1, <2>4
    <3> QED  BY <3>5, <3>6
  <2> QED  BY <2>3, <2>4
<1>4. T = {}
  BY <1>3, LeastNumber
<1>5. g[1 .. n] = SubSeq(path, 1, n)
  BY <1>1, <1>4
<1>6. SubSeq(path, 1, n) = path
  OBVIOUS
<1>7. Canonical(path) = (CHOOSE f : Folds(f, path, DOMAIN path))[DOMAIN path]
  BY CanonicalIsFold
<1> QED  BY <1>1, <1>5, <1>6, <1>7

-----------------------------------------------------------------------------
(* The inductive invariant.                                                *)

Source == File \cup {<<>>}
BaseDir == {d \in Seq(STRING) : IsBaseDir(d)}
FrameType == [path : {p \in Seq(STRING) : Canonical(p) \in Source}, at : Nat \ {0},
              relative : BOOLEAN, restore : BaseDir]
Exceptions == {"InvalidConfigException", "std::runtime_error"}
PendingType(files) ==
  [relative : BOOLEAN, optional : BOOLEAN, once : BOOLEAN, file : files]

Types ==
  /\ stack \in Seq(FrameType)
  /\ stack # <<>> => base_dir \in BaseDir
  /\ all_files \subseteq {p \in Seq(STRING) : Canonical(p) \in File}
  /\ include_pending \in PendingType(Name \cup {<<>>})
  /\ incl # <<>> => \E r \in PendingType(Seq(STRING) \ {<<>>}) : incl = <<r>>
  /\ disk \in [Source -> Seq(Statement)]
  /\ closed \subseteq Source
  /\ begun \in Seq(Seq(STRING))
  /\ status \in {"parsing", "parsed"} \cup Exceptions
  /\ Parsing => stack # <<>>

(* Every file is at one of its statements as far as they are read, or      *)
(* behind the last.                                                        *)
Places == \A i \in DOMAIN stack : stack[i].at <= Len(disk[Canonical(stack[i].path)]) + 1

(* While a statement is matched, include_pending holds what the terminals  *)
(* behind it say, and what is left are the terminals of the rest.          *)
Rest(s) == Attributes(s) \o <<"FILENAME", "INCLUDE">>
Flags(s, file) ==
  [relative |-> s.relative, optional |-> s.optional, once |-> s.once, file |-> file]
Matched(s) ==
  \/ todo = Rest(s) /\ include_pending = [NoInclude EXCEPT !.relative = s.relative]
  \/ /\ s.optional /\ todo = Rest([s EXCEPT !.optional = FALSE])
     /\ include_pending = [NoInclude EXCEPT !.relative = s.relative, !.optional = TRUE]
  \/ todo = <<"FILENAME", "INCLUDE">> /\ include_pending = Flags(s, <<>>)
  \/ todo = <<"INCLUDE">> /\ include_pending = Flags(s, s.name)
StatementMatched ==
  /\ todo # <<>> => Parsing /\ incl = <<>> /\ Top.at > 1 /\ Matched(Current)
  /\ incl # <<>> => Parsing /\ todo = <<>> /\ Top.at > 1

(* What BaseDirFollowsStack says, of any stack and any directory: the      *)
(* directory to be given back at the end of a file is the one that belongs *)
(* to the files below it.                                                  *)
IsBase(stk, dir) ==
  LET relative == {i \in DOMAIN stk : stk[i].relative}
  IN  IF relative = {} THEN dir = stk[1].restore
      ELSE \E i \in relative : /\ \A j \in relative : j <= i
                               /\ dir = Directory(stk[i].path)
Scopes ==
  /\ stack # <<>> => IsBase(stack, base_dir) /\ ~stack[1].relative
  /\ \A n \in 2 .. Len(stack) :
       stack[n].relative => IsBase(SubSeq(stack, 1, n - 1), stack[n].restore)

Listed == \A i \in DOMAIN begun : i # 1 => begun[i] \in all_files

Inv == Types /\ Places /\ StatementMatched /\ AttributesOwn /\ Scopes /\ Listed /\ PathParsedOnce

-----------------------------------------------------------------------------
(* Initial states, and what ends the parse.                                *)

LEMMA CanonicalOfSource ==
  ASSUME NEW path \in Source PROVE path \in Seq(STRING) /\ Canonical(path) = path
<1>1. CASE path \in File
  BY <1>1, FileAssumption, PlainCanonical
<1>2. CASE path = <<>>
  <2>1. path \in Seq(STRING) /\ DOMAIN path = {}
    BY <1>2
  <2> QED  BY <2>1, PlainCanonical
<1> QED  BY <1>1, <1>2 DEF Source

LEMMA InitInv == Init => Inv
<1> SUFFICES ASSUME Init PROVE Inv
  OBVIOUS
<1>1. PICK root \in Roots, dir \in BaseDirs :
        stack = <<Frame(root, FALSE, dir)>> /\ base_dir = dir /\ begun = <<root>>
  BY DEF Init
<1>2. root \in Source /\ root \in Seq(STRING) /\ Canonical(root) = root /\ dir \in BaseDir
  BY RootsAssumption, BaseDirsAssumption, CanonicalOfSource DEF Source, BaseDir, IsBaseDir
<1>3. Frame(root, FALSE, dir) \in FrameType
  BY <1>2 DEF Frame, FrameType
<1>4. stack \in Seq(FrameType) /\ stack # <<>> /\ Len(stack) = 1
      /\ stack[1] = Frame(root, FALSE, dir) /\ DOMAIN stack = {1}
  BY <1>1, <1>3, Singleton
<1>5. disk \in [Source -> Seq(Statement)] /\ \A f \in Source : Len(disk[f]) = 0
  BY DEF Init, Source
<1>6. Types
  <2>1. begun \in Seq(Seq(STRING))
    BY <1>1, <1>2, Singleton
  <2>2. include_pending \in PendingType(Name \cup {<<>>})
    BY DEF Init, PendingType, NoInclude
  <2>3. base_dir \in BaseDir
    BY <1>1, <1>2
  <2>4. all_files = {} /\ incl = <<>> /\ closed \subseteq Source /\ status = "parsing"
    BY DEF Init
  <2> QED  BY <1>4, <1>5, <2>1, <2>2, <2>3, <2>4 DEF Types
<1>7. Places
  BY <1>2, <1>4, <1>5 DEF Places, Frame
<1>8. StatementMatched /\ AttributesOwn
  BY DEF Init, StatementMatched, AttributesOwn
<1>9. Scopes
  BY <1>1, <1>4 DEF Scopes, IsBase, Frame
<1>10. Listed /\ PathParsedOnce
  BY <1>1 DEF Listed, PathParsedOnce
<1> QED  BY <1>6, <1>7, <1>8, <1>9, <1>10 DEF Inv

LEMMA ThrowInv == ASSUME Inv, NEW e \in Exceptions, Throw(e) PROVE Inv'
<1>1. disk' \in [Source -> Seq(Statement)]
  BY DEF Inv, Types, Throw
<1>2. Types'
  BY <1>1 DEF Types, Throw, PendingType, NoInclude, Parsing, Exceptions
<1>3. Places' /\ StatementMatched' /\ AttributesOwn' /\ Scopes' /\ Listed' /\ PathParsedOnce'
  BY DEF Throw, Places, StatementMatched, AttributesOwn, Scopes, Listed, PathParsedOnce
<1> QED  BY <1>2, <1>3 DEF Inv

-----------------------------------------------------------------------------
(* IsBase looks at the paths of the files, which are relative, and what    *)
(* the root restores.                                                      *)

LEMMA IsBaseAgrees ==
  ASSUME NEW stk, NEW other, NEW dir, IsBase(stk, dir),
         DOMAIN other = DOMAIN stk, 1 \in DOMAIN stk,
         \A i \in DOMAIN stk : /\ other[i].relative = stk[i].relative
                               /\ other[i].path = stk[i].path
                               /\ other[i].restore = stk[i].restore
  PROVE  IsBase(other, dir)
<1>1. {i \in DOMAIN other : other[i].relative} = {i \in DOMAIN stk : stk[i].relative}
  OBVIOUS
<1> QED  BY <1>1 DEF IsBase

(* A file at the top that is not relative does not count.                  *)
LEMMA IsBaseFront ==
  ASSUME NEW S, NEW stk \in Seq(S), Len(stk) > 1, ~Last(stk).relative, NEW dir,
         IsBase(stk, dir)
  PROVE  IsBase(Front(stk), dir)
<1>1. Len(stk) \in Nat /\ Front(stk) \in Seq(S) /\ Len(Front(stk)) = Len(stk) - 1
      /\ (\A i \in 1 .. (Len(stk) - 1) : Front(stk)[i] = stk[i]) /\ Last(stk) = stk[Len(stk)]
  BY FrontLast
<1>2. DOMAIN stk = 1 .. Len(stk) /\ DOMAIN Front(stk) = 1 .. (Len(stk) - 1)
  BY <1>1
<1>3. {i \in DOMAIN Front(stk) : Front(stk)[i].relative} = {i \in DOMAIN stk : stk[i].relative}
  BY <1>1, <1>2
<1>4. \A i \in DOMAIN Front(stk) : Front(stk)[i] = stk[i]
  BY <1>1, <1>2
<1>5. 1 \in DOMAIN Front(stk)
  BY <1>1, <1>2
<1> QED  BY <1>3, <1>4, <1>5 DEF IsBase

LEMMA IsBaseAppend ==
  ASSUME NEW S, NEW stk \in Seq(S), stk # <<>>, NEW e \in S, ~e.relative, NEW dir,
         IsBase(stk, dir)
  PROVE  IsBase(Append(stk, e), dir)
<1>1. Len(stk) \in Nat \ {0} /\ Len(Append(stk, e)) = Len(stk) + 1
      /\ (\A i \in 1 .. Len(stk) : Append(stk, e)[i] = stk[i]) /\ Append(stk, e)[Len(stk) + 1] = e
  OBVIOUS
<1>2. DOMAIN stk = 1 .. Len(stk) /\ DOMAIN Append(stk, e) = 1 .. (Len(stk) + 1)
  BY <1>1
<1>3. {i \in DOMAIN Append(stk, e) : Append(stk, e)[i].relative} = {i \in DOMAIN stk : stk[i].relative}
  BY <1>1, <1>2
<1>4. 1 \in DOMAIN stk /\ \A i \in DOMAIN stk : Append(stk, e)[i] = stk[i]
  BY <1>1, <1>2
<1> QED  BY <1>3, <1>4 DEF IsBase

LEMMA IsBaseRelative ==
  ASSUME NEW S, NEW stk \in Seq(S), NEW e \in S, e.relative
  PROVE  IsBase(Append(stk, e), Directory(e.path))
<1>1. Len(stk) \in Nat /\ DOMAIN Append(stk, e) = 1 .. (Len(stk) + 1)
      /\ Append(stk, e)[Len(stk) + 1] = e
  OBVIOUS
<1> QED  BY <1>1 DEF IsBase

-----------------------------------------------------------------------------
(* The keywords of a statement.                                            *)

LEMMA TopFacts ==
  ASSUME Types, Places, stack # <<>>
  PROVE  /\ Len(stack) \in Nat \ {0} /\ DOMAIN stack = 1 .. Len(stack)
         /\ Top = stack[Len(stack)] /\ Top \in FrameType /\ Here \in Source
         /\ disk[Here] \in Seq(Statement) /\ Top.at \in 1 .. (Len(disk[Here]) + 1)
<1>1. stack \in Seq(FrameType)
  BY DEF Types
<1>2. Len(stack) \in Nat \ {0} /\ DOMAIN stack = 1 .. Len(stack) /\ Top = stack[Len(stack)]
      /\ Top \in FrameType
  BY <1>1, FrontLast DEF Top
<1>3. Here \in Source /\ Top.at \in Nat \ {0}
  BY <1>2 DEF Here, FrameType
<1>4. disk[Here] \in Seq(Statement)
  BY <1>3 DEF Types
<1>5. Len(stack) \in DOMAIN stack
  BY <1>2
<1>6. Top.at <= Len(disk[Here]) + 1
  BY <1>2, <1>5 DEF Places, Here
<1>7. Top.at \in 1 .. (Len(disk[Here]) + 1)
  BY <1>3, <1>4, <1>6
<1> QED  BY <1>2, <1>3, <1>4, <1>7

(* What INCLUDEk does to the top of the stack.                             *)
LEMMA Advanced ==
  ASSUME Types, Places, stack # <<>>, stack' = [stack EXCEPT ![Len(stack)].at = @ + 1]
  PROVE  /\ stack' \in Seq(FrameType) /\ stack' # <<>> /\ Len(stack') = Len(stack)
         /\ DOMAIN stack' = DOMAIN stack
         /\ \A i \in DOMAIN stack : /\ stack'[i].relative = stack[i].relative
                                    /\ stack'[i].path = stack[i].path
                                    /\ stack'[i].restore = stack[i].restore
                                    /\ i # Len(stack) => stack'[i].at = stack[i].at
         /\ Top' = stack'[Len(stack)] /\ Top'.at = Top.at + 1 /\ Here' = Here
<1> DEFINE n == Len(stack)
           e == [Top EXCEPT !.at = @ + 1]
<1>1. n \in Nat \ {0} /\ DOMAIN stack = 1 .. n /\ Top = stack[n] /\ Top \in FrameType
      /\ Top.at \in Nat \ {0}
  BY TopFacts DEF FrameType
<1>2. e \in FrameType /\ e.relative = Top.relative /\ e.path = Top.path
      /\ e.restore = Top.restore /\ e.at = Top.at + 1
  BY <1>1 DEF FrameType
<1>3. stack' = [stack EXCEPT ![n] = e]
  BY <1>1
<1>4. stack \in Seq(FrameType)
  BY DEF Types
<1> HIDE DEF e
<1>5. stack' \in Seq(FrameType) /\ Len(stack') = n /\ DOMAIN stack' = DOMAIN stack /\ stack' # <<>>
      /\ stack'[n] = e /\ \A i \in 1 .. n : i # n => stack'[i] = stack[i]
  BY <1>1, <1>2, <1>3, <1>4
<1>6. \A i \in DOMAIN stack : /\ stack'[i].relative = stack[i].relative
                              /\ stack'[i].path = stack[i].path
                              /\ stack'[i].restore = stack[i].restore
                              /\ i # n => stack'[i].at = stack[i].at
  BY <1>1, <1>2, <1>5
<1>7. Top' = stack'[n]
  BY <1>5, FrontLast, ZenonT(40) DEF Top
<1>8. Here' = Here
  BY <1>1, <1>2, <1>5, <1>7 DEF Here
<1> QED  BY <1>2, <1>5, <1>6, <1>7, <1>8

LEMMA INCLUDEkInv ==
  ASSUME Inv, NEW s \in Statement, INCLUDEk(s)
  PROVE  Inv'
<1> DEFINE n == Len(stack)
<1>1. Types /\ Places /\ stack # <<>> /\ Parsing /\ todo = <<>> /\ incl = <<>>
      /\ stack' = [stack EXCEPT ![n].at = @ + 1]
  BY DEF Inv, Types, INCLUDEk, BetweenStatements
<1>2. /\ n \in Nat \ {0} /\ DOMAIN stack = 1 .. n
      /\ Top = stack[n] /\ Top \in FrameType /\ Here \in Source
      /\ disk[Here] \in Seq(Statement) /\ Top.at \in 1 .. (Len(disk[Here]) + 1)
  BY <1>1, TopFacts
<1>3. /\ stack' \in Seq(FrameType) /\ stack' # <<>> /\ Len(stack') = n
      /\ DOMAIN stack' = DOMAIN stack
      /\ \A i \in DOMAIN stack : /\ stack'[i].relative = stack[i].relative
                                 /\ stack'[i].path = stack[i].path
                                 /\ stack'[i].restore = stack[i].restore
                                 /\ i # n => stack'[i].at = stack[i].at
      /\ Top' = stack'[n] /\ Top'.at = Top.at + 1 /\ Here' = Here
  BY <1>1, Advanced
<1>4. /\ disk' \in [Source -> Seq(Statement)]
      /\ \A f \in Source : Len(disk[f]) \in Nat /\ Len(disk'[f]) >= Len(disk[f])
      /\ disk'[Here][Top.at] = s /\ Top.at <= Len(disk'[Here]) /\ Len(disk'[Here]) \in Nat
  <2>1. disk \in [Source -> Seq(Statement)]
    BY <1>1 DEF Types
  <2>2. CASE Top.at \in DOMAIN disk[Here]
    <3>1. s = disk[Here][Top.at] /\ disk' = disk
      BY <2>2 DEF INCLUDEk
    <3> QED  BY <1>2, <2>1, <2>2, <3>1
  <2>3. CASE Top.at \notin DOMAIN disk[Here]
    <3>1. disk' = [disk EXCEPT ![Here] = Append(@, s)]
      BY <2>3 DEF INCLUDEk
    <3>2. Top.at = Len(disk[Here]) + 1
      BY <1>2, <2>3
    <3>3. Append(disk[Here], s) \in Seq(Statement) /\ Len(Append(disk[Here], s)) = Len(disk[Here]) + 1
          /\ Append(disk[Here], s)[Len(disk[Here]) + 1] = s
      BY <1>2
    <3>4. disk'[Here] = Append(disk[Here], s) /\ \A f \in Source : f # Here => disk'[f] = disk[f]
      BY <1>2, <2>1, <3>1
    <3>5. disk' \in [Source -> Seq(Statement)]
      BY <1>2, <2>1, <3>1, <3>3
    <3>6. ASSUME NEW f \in Source
          PROVE  Len(disk[f]) \in Nat /\ Len(disk'[f]) >= Len(disk[f])
      <4>1. disk[f] \in Seq(Statement) /\ Len(disk[f]) \in Nat
        BY <2>1
      <4> QED  BY <3>3, <3>4, <4>1
    <3>7. Len(disk[Here]) \in Nat
      BY <1>2
    <3> QED  BY <3>2, <3>3, <3>4, <3>5, <3>6, <3>7
  <2> QED  BY <2>2, <2>3
<1>5. Types'
  <2>1. include_pending' \in PendingType(Name \cup {<<>>})
    BY DEF INCLUDEk, PendingType, NoInclude, Statement
  <2>2. UNCHANGED <<base_dir, all_files, incl, closed, begun, status>>
    BY DEF INCLUDEk
  <2> QED  BY <1>1, <1>3, <1>4, <2>1, <2>2 DEF Types, Parsing
<1>6. Places'
  <2>1. SUFFICES ASSUME NEW i \in 1 .. n
                 PROVE  stack'[i].at <= Len(disk'[Canonical(stack'[i].path)]) + 1
    BY <1>2, <1>3 DEF Places
  <2>2. stack[i] \in FrameType /\ Canonical(stack[i].path) \in Source
    <3>1. stack \in Seq(FrameType)
      BY <1>1 DEF Types
    <3>2. stack[i] \in FrameType
      BY <1>2, <3>1
    <3> QED  BY <3>2 DEF FrameType
  <2>3. CASE i = n
    BY <1>2, <1>3, <1>4, <2>3 DEF Here
  <2>4. CASE i # n
    <3>1. stack[i].at <= Len(disk[Canonical(stack[i].path)]) + 1 /\ stack[i].at \in Nat
      BY <1>1, <1>2, <2>2 DEF Places, FrameType
    <3>2. stack'[i].at = stack[i].at /\ stack'[i].path = stack[i].path
      BY <1>2, <1>3, <2>4
    <3>3. \A f \in Source : Len(disk[f]) \in Nat /\ Len(disk'[f]) \in Nat /\ Len(disk'[f]) >= Len(disk[f])
      BY <1>4
    <3> QED  BY <2>2, <3>1, <3>2, <3>3
  <2> QED  BY <2>3, <2>4
<1>7. StatementMatched'
  <2>1. Current' = s
    BY <1>2, <1>3, <1>4 DEF Current
  <2>2. Matched(s)'
    BY DEF INCLUDEk, Matched, Rest
  <2>3. incl' = <<>> /\ Parsing' /\ Top'.at > 1
    BY <1>1, <1>2, <1>3 DEF INCLUDEk, Parsing
  <2>4. Matched(Current)'
    BY <2>1, <2>2 DEF Matched
  <2> QED  BY <2>3, <2>4 DEF StatementMatched
<1>8. AttributesOwn'
  BY <1>1 DEF INCLUDEk, AttributesOwn
<1>9. Scopes'
  <2>1. base_dir' = base_dir /\ Scopes /\ 1 \in DOMAIN stack
    BY <1>2 DEF INCLUDEk, Inv
  <2>2. IsBase(stack', base_dir') /\ ~stack'[1].relative
    BY <1>1, <1>3, <2>1, IsBaseAgrees DEF Scopes
  <2>3. ASSUME NEW i \in 2 .. n, stack'[i].relative
        PROVE  IsBase(SubSeq(stack', 1, i - 1), stack'[i].restore)
    <3>1. i \in DOMAIN stack /\ IsBase(SubSeq(stack, 1, i - 1), stack[i].restore)
      BY <1>2, <1>3, <2>1, <2>3 DEF Scopes
    <3>2. DOMAIN SubSeq(stack, 1, i - 1) = 1 .. (i - 1) /\ DOMAIN SubSeq(stack', 1, i - 1) = 1 .. (i - 1)
          /\ \A j \in 1 .. (i - 1) : /\ SubSeq(stack, 1, i - 1)[j] = stack[j]
                                     /\ SubSeq(stack', 1, i - 1)[j] = stack'[j]
      <4>1. stack \in Seq(FrameType)
        BY <1>1 DEF Types
      <4> QED  BY <1>2, <1>3, <4>1
    <3>3. \A j \in 1 .. (i - 1) : j \in DOMAIN stack
      BY <1>2
    <3>4. 1 \in 1 .. (i - 1)
      BY <1>2
    <3>5. IsBase(SubSeq(stack', 1, i - 1), stack[i].restore)
      <4> DEFINE low == SubSeq(stack, 1, i - 1)
                 low1 == SubSeq(stack', 1, i - 1)
      <4>1. IsBase(low, stack[i].restore) /\ DOMAIN low1 = DOMAIN low /\ 1 \in DOMAIN low
        BY <3>1, <3>2, <3>4
      <4>2. \A j \in DOMAIN low : /\ low1[j].relative = low[j].relative
                                  /\ low1[j].path = low[j].path
                                  /\ low1[j].restore = low[j].restore
        BY <1>3, <3>2, <3>3
      <4> HIDE DEF low, low1
      <4>3. IsBase(low1, stack[i].restore)
        BY <4>1, <4>2, IsBaseAgrees
      <4> QED  BY <4>3 DEF low1
    <3> QED  BY <1>3, <3>1, <3>5
  <2> QED  BY <1>3, <2>2, <2>3 DEF Scopes
<1>10. Listed' /\ PathParsedOnce'
  BY DEF INCLUDEk, Inv, Listed, PathParsedOnce
<1> QED  BY <1>5, <1>6, <1>7, <1>8, <1>9, <1>10 DEF Inv

(* The steps that leave the files and what they were parsed with alone.    *)
LEMMA FilesUnchanged ==
  ASSUME Inv, UNCHANGED <<stack, base_dir, all_files, disk, begun>>
  PROVE  Places' /\ Scopes' /\ Listed' /\ PathParsedOnce' /\ Top' = Top /\ Here' = Here
         /\ Current' = Current
<1>1. Places' /\ Listed' /\ PathParsedOnce' /\ Top' = Top
  BY DEF Inv, Places, Listed, PathParsedOnce, Top
<1>2. Here' = Here
  BY <1>1 DEF Here
<1>3. Current' = Current
  BY <1>1, <1>2 DEF Current
<1>4. Scopes'
  BY DEF Inv, Scopes, IsBase
<1> QED  BY <1>1, <1>2, <1>3, <1>4

LEMMA RestIs ==
  ASSUME NEW s \in Statement
  PROVE  Rest(s) = IF s.optional
                   THEN IF s.once THEN <<"OPTIONALk", "ONCEk", "FILENAME", "INCLUDE">>
                                  ELSE <<"OPTIONALk", "FILENAME", "INCLUDE">>
                   ELSE IF s.once THEN <<"ONCEk", "FILENAME", "INCLUDE">>
                                  ELSE <<"FILENAME", "INCLUDE">>
<1> DEFINE end == <<"FILENAME", "INCLUDE">>
<1>1. <<>> \o end = end
  OBVIOUS
<1>2. <<"OPTIONALk">> \o <<>> = <<"OPTIONALk">> /\ <<>> \o <<>> = <<>>
      /\ <<>> \o <<"ONCEk">> = <<"ONCEk">>
  OBVIOUS
<1>3. <<"OPTIONALk">> \o <<"ONCEk">> = <<"OPTIONALk", "ONCEk">>
  BY Concat2
<1>4. <<"OPTIONALk">> \o end = <<"OPTIONALk", "FILENAME", "INCLUDE">>
  BY Concat3
<1>5. <<"ONCEk">> \o end = <<"ONCEk", "FILENAME", "INCLUDE">>
  BY Concat3
<1>6. <<"OPTIONALk", "ONCEk">> \o end = <<"OPTIONALk", "ONCEk", "FILENAME", "INCLUDE">>
  BY Concat4
<1> HIDE DEF end
<1>7. Rest(s) = Attributes(s) \o end
  BY DEF Rest, end
<1> QED  BY <1>1, <1>2, <1>3, <1>4, <1>5, <1>6, <1>7 DEF Attributes, end

LEMMA CurrentType ==
  ASSUME Types, Places, stack # <<>>, Top.at > 1
  PROVE  Current \in Statement
<1>1. disk[Here] \in Seq(Statement) /\ Top.at \in 1 .. (Len(disk[Here]) + 1)
  BY TopFacts
<1>2. Top.at - 1 \in 1 .. Len(disk[Here])
  BY <1>1
<1> QED  BY <1>1, <1>2 DEF Current

Later(s) == [s EXCEPT !.optional = FALSE]

LEMMA LaterIs ==
  ASSUME NEW s \in Statement
  PROVE  /\ Later(s) \in Statement /\ Later(s).optional = FALSE /\ Later(s).once = s.once
         /\ Later(s).relative = s.relative /\ Later(s).name = s.name
BY DEF Statement, Later

(* The next terminal, and what is left behind it.                          *)
LEMMA RestSteps ==
  ASSUME NEW s \in Statement
  PROVE  /\ s.optional => Head(Rest(s)) = "OPTIONALk" /\ Tail(Rest(s)) = Rest(Later(s))
         /\ ~s.optional /\ s.once =>
              Head(Rest(s)) = "ONCEk" /\ Tail(Rest(s)) = <<"FILENAME", "INCLUDE">>
         /\ ~s.optional /\ ~s.once => Rest(s) = <<"FILENAME", "INCLUDE">>
         /\ s.once => Head(Rest(Later(s))) = "ONCEk" /\ Tail(Rest(Later(s))) = <<"FILENAME", "INCLUDE">>
         /\ ~s.once => Rest(Later(s)) = <<"FILENAME", "INCLUDE">>
<1>1. s.optional \in BOOLEAN /\ s.once \in BOOLEAN
  BY DEF Statement
<1>2. Rest(s) = IF s.optional
                THEN IF s.once THEN <<"OPTIONALk", "ONCEk", "FILENAME", "INCLUDE">>
                               ELSE <<"OPTIONALk", "FILENAME", "INCLUDE">>
                ELSE IF s.once THEN <<"ONCEk", "FILENAME", "INCLUDE">>
                               ELSE <<"FILENAME", "INCLUDE">>
  BY RestIs
<1>3. Rest(Later(s)) = IF s.once THEN <<"ONCEk", "FILENAME", "INCLUDE">>
                                 ELSE <<"FILENAME", "INCLUDE">>
  BY LaterIs, RestIs
<1> HIDE DEF Rest
<1> QED  BY <1>1, <1>2, <1>3

LEMMA SetOPTIONALk ==
  ASSUME NEW s \in Statement, Matched(s), Head(todo) = "OPTIONALk", todo' = Tail(todo),
         include_pending' = [include_pending EXCEPT !.optional = TRUE]
  PROVE  Matched(s)'
<1>1. CASE todo = Rest(s) /\ include_pending = [NoInclude EXCEPT !.relative = s.relative]
  <2>1. s.optional /\ todo' = Rest(Later(s))
    <3>1. ~s.optional => Head(Rest(s)) # "OPTIONALk"
      BY RestSteps
    <3> QED  BY <1>1, <3>1, RestSteps
  <2>2. include_pending' = [NoInclude EXCEPT !.relative = s.relative, !.optional = TRUE]
    BY <1>1 DEF NoInclude
  <2> QED  BY <2>1, <2>2 DEF Matched, Later
<1>2. CASE todo = Rest(Later(s))
  <2>1. Head(Rest(Later(s))) # "OPTIONALk"
    <3>1. s.once => Head(Rest(Later(s))) # "OPTIONALk"
      BY RestSteps
    <3>2. ~s.once => Head(Rest(Later(s))) # "OPTIONALk"
      BY RestSteps
    <3> QED  BY <3>1, <3>2
  <2> QED  BY <1>2, <2>1
<1>3. CASE todo = <<"FILENAME", "INCLUDE">>
  BY <1>3
<1>4. CASE todo = <<"INCLUDE">>
  BY <1>4
<1> QED  BY <1>1, <1>2, <1>3, <1>4 DEF Matched, Later

LEMMA SetONCEk ==
  ASSUME NEW s \in Statement, Matched(s), Head(todo) = "ONCEk", todo' = Tail(todo),
         include_pending' = [include_pending EXCEPT !.once = TRUE]
  PROVE  Matched(s)'
<1>0. s.optional \in BOOLEAN /\ s.once \in BOOLEAN
  BY DEF Statement
<1>1. CASE todo = Rest(s) /\ include_pending = [NoInclude EXCEPT !.relative = s.relative]
  <2>1. ~s.optional /\ s.once
    <3>1. s.optional => Head(Rest(s)) # "ONCEk"
      BY RestSteps
    <3>2. ~s.optional /\ ~s.once => Head(Rest(s)) # "ONCEk"
      BY RestSteps
    <3> QED  BY <1>1, <3>1, <3>2
  <2>2. todo' = <<"FILENAME", "INCLUDE">>
    BY <1>1, <2>1, RestSteps
  <2>3. include_pending' = Flags(s, <<>>)
    BY <1>0, <1>1, <2>1 DEF NoInclude, Flags
  <2> QED  BY <2>2, <2>3 DEF Matched
<1>2. CASE /\ s.optional /\ todo = Rest(Later(s))
           /\ include_pending = [NoInclude EXCEPT !.relative = s.relative, !.optional = TRUE]
  <2>1. s.once
    <3>1. ~s.once => Head(Rest(Later(s))) # "ONCEk"
      BY RestSteps
    <3> QED  BY <1>2, <3>1
  <2>2. todo' = <<"FILENAME", "INCLUDE">>
    BY <1>2, <2>1, RestSteps
  <2>3. include_pending' = Flags(s, <<>>)
    BY <1>0, <1>2, <2>1 DEF NoInclude, Flags
  <2> QED  BY <2>2, <2>3 DEF Matched
<1>3. CASE todo = <<"FILENAME", "INCLUDE">>
  BY <1>3
<1>4. CASE todo = <<"INCLUDE">>
  BY <1>4
<1> QED  BY <1>1, <1>2, <1>3, <1>4 DEF Matched, Later

LEMMA SetFILENAME ==
  ASSUME NEW s \in Statement, Matched(s), Head(todo) = "FILENAME", todo' = Tail(todo),
         include_pending' = [include_pending EXCEPT !.file = s.name]
  PROVE  Matched(s)'
<1>0. s.optional \in BOOLEAN /\ s.once \in BOOLEAN
  BY DEF Statement
<1>1. todo = <<"FILENAME", "INCLUDE">> /\ include_pending = Flags(s, <<>>)
  <2>1. CASE todo = Rest(s) /\ include_pending = [NoInclude EXCEPT !.relative = s.relative]
    <3>1. ~s.optional /\ ~s.once
      <4>1. s.optional => Head(Rest(s)) # "FILENAME"
        BY RestSteps
      <4>2. ~s.optional /\ s.once => Head(Rest(s)) # "FILENAME"
        BY RestSteps
      <4> QED  BY <2>1, <4>1, <4>2
    <3>2. todo = <<"FILENAME", "INCLUDE">>
      BY <2>1, <3>1, RestSteps
    <3> QED  BY <1>0, <2>1, <3>1, <3>2 DEF NoInclude, Flags
  <2>2. CASE /\ s.optional /\ todo = Rest(Later(s))
             /\ include_pending = [NoInclude EXCEPT !.relative = s.relative, !.optional = TRUE]
    <3>1. ~s.once
      <4>1. s.once => Head(Rest(Later(s))) # "FILENAME"
        BY RestSteps
      <4> QED  BY <2>2, <4>1
    <3>2. todo = <<"FILENAME", "INCLUDE">>
      BY <2>2, <3>1, RestSteps
    <3> QED  BY <1>0, <2>2, <3>1, <3>2 DEF NoInclude, Flags
  <2>3. CASE todo = <<"FILENAME", "INCLUDE">> /\ include_pending = Flags(s, <<>>)
    BY <2>3
  <2>4. CASE todo = <<"INCLUDE">>
    BY <2>4
  <2> QED  BY <2>1, <2>2, <2>3, <2>4 DEF Matched, Later
<1>2. todo' = <<"INCLUDE">>
  BY <1>1
<1>3. include_pending' = Flags(s, s.name)
  BY <1>1 DEF Flags
<1> QED  BY <1>2, <1>3 DEF Matched

LEMMA AtINCLUDE ==
  ASSUME NEW s \in Statement, Matched(s), Head(todo) = "INCLUDE"
  PROVE  include_pending = Flags(s, s.name)
<1>1. Head(Rest(s)) # "INCLUDE"
  <2>1. s.optional => Head(Rest(s)) # "INCLUDE"
    BY RestSteps
  <2>2. ~s.optional /\ s.once => Head(Rest(s)) # "INCLUDE"
    BY RestSteps
  <2>3. ~s.optional /\ ~s.once => Head(Rest(s)) # "INCLUDE"
    BY RestSteps
  <2> QED  BY <2>1, <2>2, <2>3
<1>2. Head(Rest(Later(s))) # "INCLUDE"
  <2>1. s.once => Head(Rest(Later(s))) # "INCLUDE"
    BY RestSteps
  <2>2. ~s.once => Head(Rest(Later(s))) # "INCLUDE"
    BY RestSteps
  <2> QED  BY <2>1, <2>2
<1>3. todo # <<"FILENAME", "INCLUDE">>
  OBVIOUS
<1> QED  BY <1>1, <1>2, <1>3 DEF Matched, Later

LEMMA KeywordInv ==
  ASSUME Inv, OPTIONALk \/ ONCEk \/ FILENAME
  PROVE  Inv'
<1>1. /\ UNCHANGED <<stack, base_dir, all_files, incl, disk, closed, begun, status>>
      /\ Parsing /\ todo # <<>> /\ todo' = Tail(todo)
  BY DEF OPTIONALk, ONCEk, FILENAME, Sets, Matching
<1>2. incl = <<>> /\ Top.at > 1 /\ Matched(Current) /\ stack # <<>> /\ Types /\ Places
  BY <1>1 DEF Inv, StatementMatched, Types
<1>3. PICK s \in Statement : s = Current
  BY <1>2, CurrentType
<1>4. Places' /\ Scopes' /\ Listed' /\ PathParsedOnce' /\ Top' = Top /\ Current' = s
  BY <1>1, <1>3, FilesUnchanged
<1>5. Matched(s)
  BY <1>2, <1>3
<1>6. Matched(s)'
  <2>1. CASE OPTIONALk
    BY <1>1, <1>5, <2>1, SetOPTIONALk DEF OPTIONALk, Sets, Matching
  <2>2. CASE ONCEk
    BY <1>1, <1>5, <2>2, SetONCEk DEF ONCEk, Sets, Matching
  <2>3. CASE FILENAME
    BY <1>1, <1>3, <1>5, <2>3, SetFILENAME DEF FILENAME, Sets, Matching
  <2> QED  BY <2>1, <2>2, <2>3
<1>7. include_pending' \in PendingType(Name \cup {<<>>})
  <2>1. include_pending \in PendingType(Name \cup {<<>>}) /\ s.name \in Name
    BY <1>2 DEF Types, Statement
  <2> QED  BY <1>3, <2>1 DEF OPTIONALk, ONCEk, FILENAME, Sets, PendingType
<1>8. Types'
  BY <1>1, <1>2, <1>7 DEF Types, Parsing
<1>9. StatementMatched' /\ AttributesOwn'
  <2>1. Matched(Current)'
    BY <1>4, <1>6 DEF Matched
  <2>2. Parsing' /\ incl' = <<>> /\ Top'.at > 1
    BY <1>1, <1>2, <1>4 DEF Parsing
  <2> QED  BY <2>1, <2>2 DEF StatementMatched, AttributesOwn
<1> QED  BY <1>4, <1>8, <1>9 DEF Inv

LEMMA INCLUDEInv ==
  ASSUME Inv, INCLUDE
  PROVE  Inv'
<1>1. /\ UNCHANGED <<stack, base_dir, all_files, disk, closed, begun, status>>
      /\ Parsing /\ todo # <<>> /\ Head(todo) = "INCLUDE" /\ todo' = <<>>
      /\ incl' = <<include_pending>> /\ include_pending' = [include_pending EXCEPT !.file = <<>>]
  BY DEF INCLUDE, Matching
<1>2. incl = <<>> /\ Top.at > 1 /\ Matched(Current) /\ stack # <<>> /\ Types /\ Places
  BY <1>1 DEF Inv, StatementMatched, Types
<1>3. PICK s \in Statement : s = Current
  BY <1>2, CurrentType
<1>4. Places' /\ Scopes' /\ Listed' /\ PathParsedOnce' /\ Top' = Top /\ Current' = s
  BY <1>1, <1>3, FilesUnchanged
<1>5. include_pending = Flags(s, s.name)
  BY <1>1, <1>2, <1>3, AtINCLUDE
<1>6. s.relative \in BOOLEAN /\ s.optional \in BOOLEAN /\ s.once \in BOOLEAN /\ s.name \in Name
      /\ s.name \in Seq(STRING) \ {<<>>}
  BY <1>3, NameAssumption DEF Statement, Text
<1>7. include_pending \in PendingType(Seq(STRING) \ {<<>>})
      /\ include_pending' \in PendingType(Name \cup {<<>>})
  BY <1>1, <1>5, <1>6 DEF Flags, PendingType
<1>8. Types'
  BY <1>1, <1>2, <1>7 DEF Types, Parsing
<1>9. incl'[1] = include_pending /\ incl' # <<>>
  BY <1>1
<1>10. StatementMatched'
  BY <1>1, <1>2, <1>4, <1>9 DEF StatementMatched, Parsing
<1>11. AttributesOwn'
  BY <1>4, <1>5, <1>9 DEF AttributesOwn, Flags
<1> QED  BY <1>4, <1>8, <1>10, <1>11 DEF Inv

-----------------------------------------------------------------------------
(* base_include_action.                                                    *)

(* The first of some positions.                                            *)
LEMMA MinIsFirst ==
  ASSUME NEW T \in SUBSET Nat, T # {}
  PROVE  Min(T) \in T /\ \A j \in T : Min(T) <= j
<1>1. \E i \in T : \A j \in T : i <= j
  BY LeastNumber
<1> QED  BY <1>1 DEF Min

(* What is put in the place of the reference from i to j.                  *)
Found(name, i, j) ==
  IF i = 1 THEN (IF GetEnv(name, i, j) = <<>> THEN <<"/">> ELSE GetEnv(name, i, j))
  ELSE IF GetEnv(name, i, j) # <<>> /\ Head(GetEnv(name, i, j)) = "/"
       THEN Tail(GetEnv(name, i, j)) ELSE GetEnv(name, i, j)

LEMMA SubstitutedIs ==
  ASSUME NEW name \in Seq(STRING), Opens(name) # {}, IsClosed(name)
  PROVE  \E i, j \in 1 .. Len(name) :
           /\ i < j /\ i \in Opens(name) /\ \A k \in Opens(name) : i <= k
           /\ j \in Closes(name, i)
           /\ Substituted(name) = SubSeq(name, 1, i - 1) \o Found(name, i, j)
                                     \o SubSeq(name, j + 1, Len(name))
<1>1. PICK i : i = Min(Opens(name))
  OBVIOUS
<1>2. i \in Opens(name) /\ i \in 1 .. Len(name) /\ \A k \in Opens(name) : i <= k
  <2>1. Opens(name) \in SUBSET (1 .. Len(name)) /\ 1 .. Len(name) \subseteq Nat
    BY DEF Opens
  <2> QED  BY <1>1, <2>1, MinIsFirst
<1>3. PICK j : j = Min(Closes(name, i))
  OBVIOUS
<1>4. j \in Closes(name, i) /\ j \in 1 .. Len(name) /\ i < j
  <2>1. Closes(name, i) \in SUBSET (1 .. Len(name)) /\ 1 .. Len(name) \subseteq Nat
    BY DEF Closes
  <2>2. Closes(name, i) # {}
    BY <1>1 DEF IsClosed
  <2>3. j \in Closes(name, i)
    BY <1>3, <2>1, <2>2, MinIsFirst
  <2> QED  BY <1>2, <2>1, <2>3 DEF Closes
<1>5. Substituted(name) = SubSeq(name, 1, i - 1) \o Found(name, i, j)
                            \o SubSeq(name, j + 1, Len(name))
  BY <1>1, <1>3 DEF Substituted, Found
<1> QED  BY <1>2, <1>4, <1>5

(* A value in the place of a reference: nothing, a separator, or the       *)
(* value of a variable named there, without a separator in front.          *)
LEMMA FoundIs ==
  ASSUME NEW name \in Seq(STRING), NEW i \in 1 .. Len(name), NEW j \in Nat
  PROVE  /\ Found(name, i, j) \in Seq(STRING)
         /\ i = 1 => Found(name, i, j) # <<>>
         /\ \/ Found(name, i, j) = <<>> \/ Found(name, i, j) = <<"/">>
            \/ /\ j = i + 2 /\ name[i + 1] \in EnvVar
               /\ \/ Found(name, i, j) = Env[name[i + 1]]
                  \/ /\ Env[name[i + 1]] # <<>> /\ Head(Env[name[i + 1]]) = "/"
                     /\ Found(name, i, j) = Tail(Env[name[i + 1]])
<1>1. PICK g : g = GetEnv(name, i, j)
  OBVIOUS
<1>2. g \in Seq(STRING)
  <2>1. \A v \in EnvVar : Env[v] \in Seq(STRING)
    BY EnvAssumption DEF Text
  <2>2. <<>> \in Seq(STRING)
    OBVIOUS
  <2> QED  BY <1>1, <2>1, <2>2 DEF GetEnv
<1>3. <<"/">> \in Seq(STRING) /\ <<"/">> # <<>>
  BY SeparatorAssumption
<1>4. g # <<>> => Tail(g) \in Seq(STRING)
  BY <1>2, TailType
<1>5. g = <<>> \/ (j = i + 2 /\ name[i + 1] \in EnvVar /\ g = Env[name[i + 1]])
  BY <1>1 DEF GetEnv
<1>6. Found(name, i, j) = IF i = 1 THEN (IF g = <<>> THEN <<"/">> ELSE g)
                          ELSE IF g # <<>> /\ Head(g) = "/" THEN Tail(g) ELSE g
  BY <1>1 DEF Found
<1>7. Found(name, i, j) \in Seq(STRING)
  BY <1>2, <1>3, <1>4, <1>6
<1>8. i = 1 => Found(name, i, j) # <<>>
  BY <1>3, <1>6
<1>9. \/ Found(name, i, j) = <<>> \/ Found(name, i, j) = <<"/">> \/ Found(name, i, j) = g
      \/ g # <<>> /\ Head(g) = "/" /\ Found(name, i, j) = Tail(g)
  BY <1>6, Zenon
<1>10. g # <<>> => j = i + 2 /\ name[i + 1] \in EnvVar /\ g = Env[name[i + 1]]
  BY <1>5
<1> QED  BY <1>7, <1>8, <1>9, <1>10, Zenon

(* In a text whose references are closed, those behind any position are.   *)
LEMMA ClosedSuffix ==
  ASSUME NEW text \in Seq(STRING), Closed(text), NEW n \in 0 .. Len(text),
         NEW after, after = SubSeq(text, n + 1, Len(text))
  PROVE  after \in Seq(STRING) /\ Closed(after) /\ Named(after) \subseteq Named(text)
<1>1. /\ after \in Seq(STRING) /\ Len(text) \in Nat /\ n \in Nat
      /\ DOMAIN text = 1 .. Len(text) /\ DOMAIN after = 1 .. (Len(text) - n)
      /\ \A k \in DOMAIN after : after[k] = text[n + k] /\ n + k \in DOMAIN text
  OBVIOUS
<1>2. ASSUME NEW k \in Opens(after) PROVE n + k \in Opens(text) /\ k \in Nat
  BY <1>1, <1>2 DEF Opens
<1>3. ASSUME NEW k \in Opens(after) PROVE Closes(after, k) # {}
  <2>1. PICK m \in Closes(text, n + k) : TRUE
    BY <1>2, <1>3 DEF Closed
  <2>2. m \in 1 .. Len(text) /\ m > n + k /\ text[m] = Closing
    BY <1>1, <2>1 DEF Closes
  <2>3. m - n \in 1 .. (Len(text) - n) /\ m - n > k /\ n + (m - n) = m
    BY <1>1, <1>2, <2>2
  <2>4. m - n \in Closes(after, k)
    BY <1>1, <2>2, <2>3 DEF Closes
  <2> QED  BY <2>4
<1>4. ASSUME NEW v \in Named(after) PROVE v \in Named(text)
  <2>1. PICK k \in Opens(after) : k + 1 \in DOMAIN after /\ after[k + 1] = v
    BY <1>4 DEF Named
  <2>2. n + k \in Opens(text) /\ k \in Nat
    BY <1>2
  <2>3. n + (k + 1) = (n + k) + 1
    BY <1>1, <2>2
  <2>4. (n + k) + 1 \in DOMAIN text /\ text[(n + k) + 1] = v
    BY <1>1, <2>1, <2>3
  <2> QED  BY <1>4, <2>2, <2>4 DEF Named
<1> QED  BY <1>1, <1>3, <1>4 DEF Closed

LEMMA ClosedConcat ==
  ASSUME NEW s \in Seq(STRING), NEW t \in Seq(STRING), Closed(s), Closed(t),
         NEW u, u = s \o t
  PROVE  u \in Seq(STRING) /\ Closed(u) /\ Named(u) \subseteq Named(s) \cup Named(t)
<1>1. /\ u \in Seq(STRING) /\ Len(s) \in Nat /\ Len(t) \in Nat /\ Len(u) = Len(s) + Len(t)
      /\ DOMAIN s = 1 .. Len(s) /\ DOMAIN t = 1 .. Len(t) /\ DOMAIN u = 1 .. (Len(s) + Len(t))
      /\ \A k \in 1 .. Len(s) : u[k] = s[k]
      /\ \A k \in 1 .. Len(t) : u[Len(s) + k] = t[k]
  OBVIOUS
<1>2. ASSUME NEW k \in Opens(u)
      PROVE  /\ Closes(u, k) # {}
             /\ k + 1 \in DOMAIN u /\ u[k + 1] \in EnvVar =>
                  u[k + 1] \in Named(s) \cup Named(t)
  <2>1. k \in 1 .. (Len(s) + Len(t)) /\ u[k] = Opening
    BY <1>1, <1>2 DEF Opens
  <2>2. CASE k <= Len(s)
    <3>1. k \in 1 .. Len(s) /\ k \in Opens(s)
      BY <1>1, <2>1, <2>2 DEF Opens
    <3>2. PICK m \in Closes(s, k) : TRUE
      BY <3>1 DEF Closed
    <3>3. m \in 1 .. Len(s) /\ m > k /\ s[m] = Closing
      BY <1>1, <3>2 DEF Closes
    <3>4. m \in Closes(u, k)
      BY <1>1, <3>3 DEF Closes
    <3>5. k + 1 \in 1 .. Len(s) /\ u[k + 1] = s[k + 1]
      BY <1>1, <3>1, <3>3
    <3>6. u[k + 1] \in EnvVar => u[k + 1] \in Named(s)
      BY <1>1, <3>1, <3>5 DEF Named
    <3> QED  BY <3>4, <3>6
  <2>3. CASE ~(k <= Len(s))
    <3>1. PICK i \in 1 .. Len(t) : i = k - Len(s) /\ k = Len(s) + i
      <4>1. k - Len(s) \in 1 .. Len(t) /\ k = Len(s) + (k - Len(s))
        BY <1>1, <2>1, <2>3
      <4> QED  BY <4>1
    <3>2. i \in Opens(t)
      BY <1>1, <2>1, <3>1 DEF Opens
    <3>3. PICK m \in Closes(t, i) : TRUE
      BY <3>2 DEF Closed
    <3>4. m \in 1 .. Len(t) /\ m > i /\ t[m] = Closing
      BY <1>1, <3>3 DEF Closes
    <3>5. Len(s) + m \in 1 .. (Len(s) + Len(t)) /\ Len(s) + m > k /\ u[Len(s) + m] = Closing
      BY <1>1, <3>1, <3>4
    <3>6. Len(s) + m \in Closes(u, k)
      BY <1>1, <3>5 DEF Closes
    <3>7. i + 1 \in 1 .. Len(t) /\ k + 1 = Len(s) + (i + 1)
      BY <1>1, <3>1, <3>4
    <3>8. i + 1 \in DOMAIN t /\ u[k + 1] = t[i + 1]
      BY <1>1, <3>7
    <3>9. u[k + 1] \in EnvVar => u[k + 1] \in Named(t)
      BY <3>2, <3>8 DEF Named
    <3> QED  BY <3>6, <3>9
  <2> QED  BY <2>2, <2>3
<1>3. ASSUME NEW v \in Named(u) PROVE v \in Named(s) \cup Named(t)
  <2>1. PICK k \in Opens(u) : k + 1 \in DOMAIN u /\ u[k + 1] = v
    BY <1>3 DEF Named
  <2>2. v \in EnvVar
    BY <1>3 DEF Named
  <2> QED  BY <1>2, <2>1, <2>2
<1> QED  BY <1>1, <1>2, <1>3 DEF Closed

(* Variables whose values are closed and name no others: a name that has   *)
(* only those keeps to them when one is substituted.                       *)
ClosedUnder(S) == \A v \in S : Closed(Env[v]) /\ Named(Env[v]) \subseteq S

LEMMA SubstitutedClosed ==
  ASSUME NEW S \in SUBSET EnvVar, ClosedUnder(S),
         NEW name \in Seq(STRING), Opens(name) # {}, IsClosed(name),
         Closed(name), Named(name) \subseteq S
  PROVE  Closed(Substituted(name)) /\ Named(Substituted(name)) \subseteq S
<1>1. PICK i \in 1 .. Len(name), j \in 1 .. Len(name) :
        /\ i < j /\ i \in Opens(name) /\ \A k \in Opens(name) : i <= k
        /\ Substituted(name) = SubSeq(name, 1, i - 1) \o Found(name, i, j)
                                  \o SubSeq(name, j + 1, Len(name))
  BY SubstitutedIs
<1>2. Len(name) \in Nat /\ DOMAIN name = 1 .. Len(name)
  BY LenIs
<1>3. PICK before : before = SubSeq(name, 1, i - 1)
  OBVIOUS
<1>4. PICK value : value = Found(name, i, j)
  OBVIOUS
<1>5. PICK after : after = SubSeq(name, j + 1, Len(name))
  OBVIOUS
<1>6. before \in Seq(STRING) /\ Opens(before) = {}
  <2>1. before \in Seq(STRING) /\ DOMAIN before = 1 .. (i - 1)
        /\ \A k \in 1 .. (i - 1) : before[k] = name[k] /\ k \in 1 .. Len(name)
    BY <1>3
  <2>2. ASSUME NEW k \in Opens(before) PROVE FALSE
    <3>1. k \in 1 .. (i - 1) /\ k \in Opens(name)
      BY <1>2, <2>1, <2>2 DEF Opens
    <3> QED  BY <1>1, <3>1
  <2> QED  BY <2>1, <2>2
<1>7. Closed(before) /\ Named(before) \subseteq S
  BY <1>6 DEF Closed, Named
<1>8. value \in Seq(STRING) /\ Closed(value) /\ Named(value) \subseteq S
  <2>1. /\ value \in Seq(STRING)
        /\ \/ value = <<>> \/ value = <<"/">>
           \/ /\ j = i + 2 /\ name[i + 1] \in EnvVar
              /\ \/ value = Env[name[i + 1]]
                 \/ (Env[name[i + 1]] # <<>> /\ value = Tail(Env[name[i + 1]]))
    <3>1. j \in Nat
      BY <1>2
    <3> QED  BY <1>4, <3>1, FoundIs, Zenon
  <2>2. CASE value = <<>> \/ value = <<"/">>
    <3>1. "/" # Opening
      BY Zenon DEF Opening
    <3>2. Opens(value) = {}
      BY <2>2, <3>1 DEF Opens
    <3> QED  BY <2>1, <3>2 DEF Closed, Named
  <2>3. CASE j = i + 2 /\ name[i + 1] \in EnvVar
             /\ \/ value = Env[name[i + 1]]
                \/ (Env[name[i + 1]] # <<>> /\ value = Tail(Env[name[i + 1]]))
    <3>1. PICK v \in EnvVar : v = name[i + 1]
      BY <2>3
    <3>2. i + 1 \in DOMAIN name
      BY <1>2, <2>3
    <3>3. v \in Named(name)
      BY <1>1, <3>1, <3>2 DEF Named
    <3>4. Env[v] \in Seq(STRING) /\ Closed(Env[v]) /\ Named(Env[v]) \subseteq S
      BY <3>3, EnvAssumption DEF Text, ClosedUnder
    <3>5. CASE value = Env[v]
      BY <3>4, <3>5
    <3>6. CASE Env[v] # <<>> /\ value = Tail(Env[v])
      <4>1. 1 \in 0 .. Len(Env[v]) /\ value = SubSeq(Env[v], 1 + 1, Len(Env[v]))
        BY <3>4, <3>6
      <4>2. Closed(value) /\ Named(value) \subseteq Named(Env[v])
        BY <3>4, <4>1, ClosedSuffix
      <4> QED  BY <2>1, <3>4, <4>2
    <3> QED  BY <2>3, <3>1, <3>5, <3>6
  <2> QED  BY <2>1, <2>2, <2>3
<1>9. after \in Seq(STRING) /\ Closed(after) /\ Named(after) \subseteq S
  <2>1. j \in 0 .. Len(name)
    BY <1>2
  <2>2. after \in Seq(STRING) /\ Closed(after) /\ Named(after) \subseteq Named(name)
    BY <1>5, <2>1, ClosedSuffix
  <2> QED  BY <2>2
<1>10. PICK most : most = before \o value
  OBVIOUS
<1>11. most \in Seq(STRING) /\ Closed(most) /\ Named(most) \subseteq Named(before) \cup Named(value)
  BY <1>6, <1>7, <1>8, <1>10, ClosedConcat
<1>12. PICK all : all = most \o after
  OBVIOUS
<1>13. Closed(all) /\ Named(all) \subseteq Named(most) \cup Named(after)
  BY <1>9, <1>11, <1>12, ClosedConcat
<1>14. Substituted(name) = all
  BY <1>1, <1>3, <1>4, <1>5, <1>10, <1>12, Zenon
<1> QED  BY <1>7, <1>8, <1>9, <1>11, <1>13, <1>14

(* Substituting a variable leaves a name that is a name.                   *)
LEMMA SubstitutedType ==
  ASSUME NEW name \in Seq(STRING), Opens(name) # {}, IsClosed(name)
  PROVE  Substituted(name) \in Seq(STRING) \ {<<>>}
<1>1. PICK i \in 1 .. Len(name), j \in 1 .. Len(name) :
        Substituted(name) = SubSeq(name, 1, i - 1) \o Found(name, i, j)
                              \o SubSeq(name, j + 1, Len(name))
  BY SubstitutedIs
<1>2. PICK before : before = SubSeq(name, 1, i - 1)
  OBVIOUS
<1>3. PICK value : value = Found(name, i, j)
  OBVIOUS
<1>4. PICK after : after = SubSeq(name, j + 1, Len(name))
  OBVIOUS
<1>5. before \in Seq(STRING) /\ Len(before) = i - 1
  BY <1>2
<1>6. after \in Seq(STRING)
  BY <1>4
<1>7. value \in Seq(STRING) /\ (i = 1 => value # <<>>)
  BY <1>3, FoundIs
<1>8. before \o value \in Seq(STRING) /\ Len(before \o value) = Len(before) + Len(value)
  BY <1>5, <1>7, ConcatType
<1>9. before \o value \o after \in Seq(STRING)
      /\ Len(before \o value \o after) = Len(before) + Len(value) + Len(after)
  BY <1>6, <1>8, ConcatType
<1>10. Len(before) + Len(value) + Len(after) # 0
  <2>1. Len(value) \in Nat /\ Len(after) \in Nat /\ (value # <<>> => Len(value) # 0)
    BY <1>6, <1>7
  <2> QED  BY <1>5, <1>7, <2>1
<1>11. before \o value \o after # <<>>
  BY <1>9, <1>10
<1>12. Substituted(name) = before \o value \o after
  BY <1>1, <1>2, <1>3, <1>4, Zenon
<1> QED  BY <1>9, <1>11, <1>12, Zenon

LEMMA InclType ==
  ASSUME Types, incl # <<>>
  PROVE  /\ incl = <<incl[1]>> /\ incl[1] \in PendingType(Seq(STRING) \ {<<>>})
<1>1. PICK r \in PendingType(Seq(STRING) \ {<<>>}) : incl = <<r>>
  BY DEF Types
<1>2. incl[1] = r
  BY <1>1, Singleton
<1> QED  BY <1>1, <1>2

LEMMA SubstituteEnvVarsInv ==
  ASSUME Inv, SubstituteEnvVars
  PROVE  Inv'
<1> DEFINE r == incl[1]
           q == [r EXCEPT !.file = Substituted(@)]
<1>1. /\ UNCHANGED <<stack, base_dir, all_files, include_pending, todo, disk, closed, begun, status>>
      /\ incl # <<>> /\ Opens(r.file) # {} /\ IsClosed(r.file) /\ incl' = <<q>> /\ Types
  BY DEF SubstituteEnvVars, Substituting, Inv
<1>2. r \in PendingType(Seq(STRING) \ {<<>>})
  BY <1>1, InclType
<1>3. Substituted(r.file) \in Seq(STRING) \ {<<>>}
  BY <1>1, <1>2, SubstitutedType DEF PendingType
<1> HIDE DEF r
<1>4. q \in PendingType(Seq(STRING) \ {<<>>}) /\ q.relative = r.relative
      /\ q.optional = r.optional /\ q.once = r.once
  BY <1>2, <1>3 DEF PendingType
<1> HIDE DEF q
<1>5. incl' # <<>> /\ incl'[1] = q
  BY <1>1, Singleton
<1>6. Places' /\ Scopes' /\ Listed' /\ PathParsedOnce' /\ Top' = Top /\ Current' = Current
  BY <1>1, FilesUnchanged
<1>7. Types'
  BY <1>1, <1>4 DEF Types, Parsing
<1>8. StatementMatched'
  BY <1>1, <1>5, <1>6 DEF Inv, StatementMatched, Parsing
<1>9. AttributesOwn'
  BY <1>1, <1>4, <1>5, <1>6 DEF Inv, AttributesOwn, r
<1> QED  BY <1>6, <1>7, <1>8, <1>9 DEF Inv

LEMMA SkipInv ==
  ASSUME Inv, Parsing, incl # <<>>, Skip
  PROVE  Inv'
<1>1. /\ UNCHANGED <<stack, base_dir, all_files, include_pending, todo, disk, closed, begun, status>>
      /\ incl' = <<>> /\ Types /\ todo = <<>>
  BY DEF Skip, Inv, StatementMatched
<1>2. Places' /\ Scopes' /\ Listed' /\ PathParsedOnce'
  BY <1>1, FilesUnchanged
<1>3. Types'
  BY <1>1 DEF Types, Parsing
<1>4. StatementMatched' /\ AttributesOwn'
  BY <1>1 DEF StatementMatched, AttributesOwn
<1> QED  BY <1>2, <1>3, <1>4 DEF Inv

LEMMA CfgFileType ==
  ASSUME Types, Places, stack # <<>>, incl # <<>>
  PROVE  CfgFile \in Seq(STRING)
<1>1. incl[1].file \in Seq(STRING) \ {<<>>}
  BY InclType DEF PendingType
<1>2. Top.path \in Seq(STRING)
  BY TopFacts DEF FrameType
<1>3. PathBase \in Seq(STRING)
  <2>1. Directory(Top.path) \in Seq(STRING)
    BY <1>2, FrontOfAny DEF Directory
  <2> QED  BY <2>1 DEF PathBase, Types, BaseDir
<1>4. Tail(incl[1].file) \in Seq(STRING) /\ PathBase \o incl[1].file \in Seq(STRING)
  BY <1>1, <1>3, ConcatType, TailType
<1> QED  BY <1>4 DEF CfgFile, Join

(* The parent of a path that leads to a file leads to a directory.         *)
LEMMA DirectoryOfFile ==
  ASSUME NEW path \in Seq(STRING), IsFile(path)
  PROVE  Directory(path) \in BaseDir
<1>1. path # <<>>
  <2>1. Canonical(<<>>) = <<>> /\ <<>> \notin File
    BY CanonicalOfSource, FileAssumption DEF Source
  <2> QED  BY <2>1 DEF IsFile
<1>2. Directory(path) \in Seq(STRING) /\ Directory(path) = SubSeq(path, 1, Len(path) - 1)
  BY <1>1, FrontOfAny DEF Directory, Front
<1>3. Canonical(Directory(path)) \in Directories
  <2>1. CASE Len(path) = 1
    <3>1. Directory(path) = <<>> /\ Canonical(<<>>) = <<>>
      BY <1>2, <2>1, CanonicalOfSource DEF Source
    <3>2. PICK f \in File : f = Canonical(path)
      BY DEF IsFile
    <3>3. f \in Seq(STRING) /\ f # <<>>
      BY <3>2, FileAssumption
    <3>4. 0 \in 0 .. (Len(f) - 1) /\ SubSeq(f, 1, 0) = <<>>
      BY <3>3
    <3>5. <<>> \in {SubSeq(f, 1, n) : n \in 0 .. (Len(f) - 1)}
      BY <3>4
    <3> QED  BY <3>1, <3>5 DEF Directories
  <2>2. CASE Len(path) # 1
    <3>1. Len(path) - 1 \in 1 .. (Len(path) - 1)
      <4>1. PICK n \in Nat \ {0} : n = Len(path)
        BY <1>1, FrontLast
      <4>2. n # 1 => n - 1 \in 1 .. (n - 1)
        OBVIOUS
      <4> QED  BY <2>2, <4>1, <4>2
    <3> QED  BY <1>2, <3>1 DEF IsFile, IsPath
  <2> QED  BY <2>1, <2>2
<1> QED  BY <1>2, <1>3 DEF BaseDir, IsBaseDir

LEMMA BeginNestedInv ==
  ASSUME Inv, BeginNested
  PROVE  Inv'
<1> DEFINE e == Frame(CfgFile, incl[1].relative, base_dir)
           n == Len(stack)
<1>1. /\ Parsing /\ incl # <<>> /\ IsFile(CfgFile) /\ CfgFile \notin all_files
      /\ base_dir' = IF incl[1].relative THEN Directory(CfgFile) ELSE base_dir
      /\ all_files' = all_files \cup {CfgFile} /\ stack' = Append(stack, e)
      /\ begun' = Append(begun, CfgFile) /\ incl' = <<>>
      /\ UNCHANGED <<include_pending, todo, disk, closed, status>>
  BY DEF BeginNested, Resolved
<1>2. Types /\ Places /\ stack # <<>> /\ Scopes /\ todo = <<>> /\ stack \in Seq(FrameType)
  BY <1>1 DEF Inv, Types, StatementMatched
<1>3. CfgFile \in Seq(STRING) /\ Canonical(CfgFile) \in File /\ Canonical(CfgFile) \in Source
  BY <1>1, <1>2, CfgFileType DEF IsFile, Source
<1>4. incl[1].relative \in BOOLEAN /\ base_dir \in BaseDir
  <2>1. incl[1] \in PendingType(Seq(STRING) \ {<<>>})
    BY <1>1, <1>2, InclType
  <2> QED  BY <1>2, <2>1 DEF PendingType, Types
<1>5. e \in FrameType /\ e.relative = incl[1].relative /\ e.path = CfgFile
      /\ e.restore = base_dir /\ e.at = 1
  BY <1>3, <1>4 DEF Frame, FrameType
<1> HIDE DEF e
<1>6. n \in Nat \ {0} /\ DOMAIN stack = 1 .. n /\ Len(stack') = n + 1 /\ DOMAIN stack' = 1 .. (n + 1)
      /\ stack' \in Seq(FrameType) /\ stack' # <<>> /\ stack'[n + 1] = e
      /\ \A i \in 1 .. n : stack'[i] = stack[i]
  BY <1>1, <1>2, <1>5
<1>7. Directory(CfgFile) \in BaseDir
  BY <1>1, <1>3, DirectoryOfFile
<1>8. Types'
  <2>1. begun' \in Seq(Seq(STRING))
        /\ all_files' \subseteq {p \in Seq(STRING) : Canonical(p) \in File}
    BY <1>1, <1>2, <1>3 DEF Types
  <2> QED  BY <1>1, <1>2, <1>4, <1>6, <1>7, <2>1 DEF Types, Parsing
<1>9. Places'
  <2>1. SUFFICES ASSUME NEW i \in 1 .. (n + 1)
                 PROVE  stack'[i].at <= Len(disk[Canonical(stack'[i].path)]) + 1
    BY <1>1, <1>6 DEF Places
  <2>2. CASE i = n + 1
    <3>1. disk[Canonical(CfgFile)] \in Seq(Statement)
      BY <1>2, <1>3 DEF Types
    <3>2. Len(disk[Canonical(CfgFile)]) \in Nat
      BY <3>1
    <3> QED  BY <1>5, <1>6, <2>2, <3>2
  <2>3. CASE i # n + 1
    <3>1. i \in 1 .. n
      BY <1>6, <2>3
    <3> QED  BY <1>2, <1>6, <3>1 DEF Places
  <2> QED  BY <2>2, <2>3
<1>10. StatementMatched' /\ AttributesOwn'
  BY <1>1, <1>2 DEF StatementMatched, AttributesOwn
<1>11. Scopes'
  <2>1. IsBase(stack, base_dir) /\ ~stack[1].relative
    BY <1>2 DEF Scopes
  <2>2. IsBase(stack', base_dir')
    <3>1. CASE incl[1].relative
      BY <1>1, <1>2, <1>5, <3>1, IsBaseRelative
    <3>2. CASE ~incl[1].relative
      BY <1>1, <1>2, <1>5, <2>1, <3>2, IsBaseAppend
    <3> QED  BY <3>1, <3>2
  <2>3. ~stack'[1].relative
    BY <1>6, <2>1
  <2>4. ASSUME NEW i \in 2 .. (n + 1), stack'[i].relative
        PROVE  IsBase(SubSeq(stack', 1, i - 1), stack'[i].restore)
    <3>1. i - 1 \in 0 .. n
      BY <1>6
    <3>2. SubSeq(stack', 1, i - 1) = SubSeq(stack, 1, i - 1)
      BY <1>1, <1>2, <1>5, <3>1, PrefixOfAppend
    <3>3. CASE i = n + 1
      <4>1. SubSeq(stack, 1, i - 1) = stack /\ stack'[i].restore = base_dir
        BY <1>2, <1>5, <1>6, <3>3
      <4> QED  BY <2>1, <3>2, <4>1
    <3>4. CASE i # n + 1
      <4>1. i \in 2 .. n /\ stack'[i] = stack[i]
        BY <1>6, <3>4
      <4>2. IsBase(SubSeq(stack, 1, i - 1), stack[i].restore)
        BY <1>2, <2>4, <4>1 DEF Scopes
      <4> QED  BY <3>2, <4>1, <4>2
    <3> QED  BY <3>3, <3>4
  <2> QED  BY <1>6, <2>2, <2>3, <2>4 DEF Scopes
<1>12. Listed' /\ PathParsedOnce'
  <2> DEFINE m == Len(begun)
  <2>1. begun \in Seq(Seq(STRING)) /\ Listed /\ PathParsedOnce
    BY DEF Inv, Types
  <2>2. m \in Nat /\ DOMAIN begun = 1 .. m /\ DOMAIN begun' = 1 .. (m + 1)
        /\ begun'[m + 1] = CfgFile /\ \A i \in 1 .. m : begun'[i] = begun[i]
    BY <1>1, <1>3, <2>1
  <2>3. Listed'
    <3>1. ASSUME NEW i \in 1 .. (m + 1), i # 1 PROVE begun'[i] \in all_files'
      <4>1. CASE i = m + 1
        BY <1>1, <2>2, <4>1
      <4>2. CASE i # m + 1
        <5>1. i \in 1 .. m
          BY <2>2, <4>2
        <5> QED  BY <1>1, <2>1, <2>2, <3>1, <5>1 DEF Listed
      <4> QED  BY <4>1, <4>2
    <3> QED  BY <2>2, <3>1 DEF Listed
  <2>4. ASSUME NEW i \in 1 .. (m + 1), NEW j \in 1 .. (m + 1), i < j, begun'[i] = begun'[j]
        PROVE  i = 1
    <3>1. i \in 1 .. m
      BY <2>2, <2>4
    <3>2. CASE j = m + 1
      BY <1>1, <2>1, <2>2, <2>4, <3>1, <3>2 DEF Listed
    <3>3. CASE j # m + 1
      <4>1. j \in 1 .. m
        BY <2>2, <3>3
      <4> QED  BY <2>1, <2>2, <2>4, <3>1, <4>1 DEF PathParsedOnce
    <3> QED  BY <3>2, <3>3
  <2> QED  BY <2>2, <2>3, <2>4 DEF PathParsedOnce
<1> QED  BY <1>8, <1>9, <1>10, <1>11, <1>12 DEF Inv

-----------------------------------------------------------------------------
(* The end of a file.                                                      *)

LEMMA EndNestedInv ==
  ASSUME Inv, EndNested
  PROVE  Inv'
<1> DEFINE n == Len(stack)
<1>1. /\ Parsing /\ todo = <<>> /\ incl = <<>> /\ n > 1 /\ stack' = Front(stack)
      /\ base_dir' = IF Top.relative THEN Top.restore ELSE base_dir
      /\ closed' = closed \cup {Here}
      /\ UNCHANGED <<all_files, include_pending, incl, todo, disk, begun, status>>
  BY DEF EndNested, AtEnd, BetweenStatements
<1>2. Types /\ Places /\ Scopes /\ stack \in Seq(FrameType) /\ stack # <<>>
  BY <1>1 DEF Inv, Types
<1>3. /\ n \in Nat \ {0} /\ DOMAIN stack = 1 .. n /\ Top = stack[n] /\ Top \in FrameType
      /\ Here \in Source
  BY <1>2, TopFacts
<1>4. /\ stack' \in Seq(FrameType) /\ Len(stack') = n - 1 /\ DOMAIN stack' = 1 .. (n - 1)
      /\ stack' # <<>> /\ \A i \in 1 .. (n - 1) : stack'[i] = stack[i]
  <2>1. stack' \in Seq(FrameType) /\ Len(stack') = n - 1 /\ \A i \in 1 .. (n - 1) : stack'[i] = stack[i]
    BY <1>1, <1>2, FrontLast
  <2> QED  BY <1>1, <1>3, <2>1
<1>5. Types'
  <2>1. base_dir' \in BaseDir
    BY <1>1, <1>2, <1>3 DEF Types, FrameType
  <2> QED  BY <1>1, <1>2, <1>3, <1>4, <2>1 DEF Types, Parsing
<1>6. Places'
  <2>1. \A i \in 1 .. (n - 1) : i \in 1 .. n
    BY <1>3
  <2> QED  BY <1>1, <1>2, <1>3, <1>4, <2>1 DEF Places
<1>7. StatementMatched' /\ AttributesOwn'
  BY <1>1 DEF StatementMatched, AttributesOwn
<1>8. Scopes'
  <2>1. IsBase(stack, base_dir) /\ ~stack[1].relative
    BY <1>2 DEF Scopes
  <2>2. IsBase(stack', base_dir')
    <3>1. CASE Top.relative
      <4>1. n \in 2 .. Len(stack)
        BY <1>1, <1>3
      <4>2. IsBase(SubSeq(stack, 1, n - 1), stack[n].restore)
        BY <1>2, <1>3, <3>1, <4>1 DEF Scopes
      <4> QED  BY <1>1, <1>3, <3>1, <4>2 DEF Front
    <3>2. CASE ~Top.relative
      <4>1. ~Last(stack).relative
        BY <3>2 DEF Top
      <4> QED  BY <1>1, <1>2, <2>1, <3>2, <4>1, IsBaseFront
    <3> QED  BY <3>1, <3>2
  <2>3. ~stack'[1].relative
    <3>1. 1 \in 1 .. (n - 1)
      BY <1>1, <1>3
    <3> QED  BY <1>4, <2>1, <3>1
  <2>4. ASSUME NEW i \in 2 .. (n - 1), stack'[i].relative
        PROVE  IsBase(SubSeq(stack', 1, i - 1), stack'[i].restore)
    <3>1. i - 1 \in 0 .. (n - 1) /\ i \in 1 .. (n - 1) /\ i \in 2 .. n
      BY <1>3
    <3>2. SubSeq(stack', 1, i - 1) = SubSeq(stack, 1, i - 1)
      BY <1>1, <1>2, <3>1, PrefixOfFront
    <3>3. IsBase(SubSeq(stack, 1, i - 1), stack[i].restore)
      BY <1>2, <1>4, <2>4, <3>1 DEF Scopes
    <3> QED  BY <1>4, <3>1, <3>2, <3>3
  <2> QED  BY <1>4, <2>2, <2>3, <2>4 DEF Scopes
<1>9. Listed' /\ PathParsedOnce'
  BY <1>1 DEF Inv, Listed, PathParsedOnce
<1> QED  BY <1>5, <1>6, <1>7, <1>8, <1>9 DEF Inv

LEMMA EndRootInv ==
  ASSUME Inv, EndRoot
  PROVE  Inv'
<1>1. /\ Parsing /\ todo = <<>> /\ incl = <<>> /\ status' = "parsed"
      /\ closed' = closed \cup {Here}
      /\ UNCHANGED <<stack, base_dir, all_files, include_pending, incl, todo, disk, begun>>
  BY DEF EndRoot, AtEnd, BetweenStatements
<1>2. Types /\ Places /\ stack # <<>>
  BY <1>1 DEF Inv, Types
<1>3. Here \in Source
  BY <1>2, TopFacts
<1>4. Types'
  BY <1>1, <1>2, <1>3 DEF Types, Parsing
<1>5. Places' /\ Scopes' /\ Listed' /\ PathParsedOnce'
  BY <1>1, FilesUnchanged
<1>6. StatementMatched' /\ AttributesOwn'
  BY <1>1 DEF StatementMatched, AttributesOwn
<1> QED  BY <1>4, <1>5, <1>6 DEF Inv

LEMMA StutterInv == ASSUME Inv, UNCHANGED vars PROVE Inv'
<1>1. /\ UNCHANGED <<stack, base_dir, all_files, include_pending, incl, todo, disk, closed, begun, status>>
  BY DEF vars
<1>2. Places' /\ Scopes' /\ Listed' /\ PathParsedOnce' /\ Top' = Top /\ Current' = Current
  BY <1>1, FilesUnchanged
<1>3. Types'
  BY <1>1 DEF Inv, Types, Parsing
<1>4. Matched(Current)' <=> Matched(Current)
  BY <1>1, <1>2 DEF Matched
<1>5. StatementMatched' /\ AttributesOwn'
  BY <1>1, <1>2, <1>4 DEF Inv, StatementMatched, AttributesOwn, Parsing
<1> QED  BY <1>2, <1>3, <1>5 DEF Inv

-----------------------------------------------------------------------------
(* The theorems.                                                           *)

LEMMA NextInv == Inv /\ [Next]_vars => Inv'
<1> SUFFICES ASSUME Inv, [Next]_vars PROVE Inv'
  OBVIOUS
<1>1. ASSUME NEW s \in Statement, INCLUDEk(s) PROVE Inv'
  BY <1>1, INCLUDEkInv
<1>2. CASE OPTIONALk \/ ONCEk \/ FILENAME
  BY <1>2, KeywordInv
<1>3. CASE INCLUDE
  BY <1>3, INCLUDEInv
<1>4. CASE SubstituteEnvVars
  BY <1>4, SubstituteEnvVarsInv
<1>5. CASE Missing \/ Duplicate
  BY <1>5, SkipInv, ThrowInv DEF Missing, Duplicate, Resolved, ParseError, Exceptions
<1>6. CASE OpenFails \/ SyntaxError \/ UnclosedEnvVar
  BY <1>6, ThrowInv DEF OpenFails, SyntaxError, UnclosedEnvVar, ParseError, Exceptions
<1>7. CASE BeginNested
  BY <1>7, BeginNestedInv
<1>8. CASE EndNested
  BY <1>8, EndNestedInv
<1>9. CASE EndRoot
  BY <1>9, EndRootInv
<1>10. CASE Ended \/ UNCHANGED vars
  BY <1>10, StutterInv DEF Ended
<1> QED  BY <1>1, <1>2, <1>3, <1>4, <1>5, <1>6, <1>7, <1>8, <1>9, <1>10 DEF Next, Include

LEMMA AlwaysInv == Spec => []Inv
<1>1. Init => Inv
  BY InitInv
<1>2. Inv /\ [Next]_vars => Inv'
  BY NextInv
<1> QED  BY <1>1, <1>2, PTL DEF Spec

(* Every variable has its type: in particular each path that is parsed     *)
(* leads to a file, and base_dir, now and when it is given back, is that   *)
(* of the caller or leads to a directory (actions.h:480-511).              *)
THEOREM TypeCorrect == Spec => []TypeOK
<1>1. Inv => TypeOK
  <2> SUFFICES ASSUME Inv PROVE TypeOK
    OBVIOUS
  <2>1. Types
    BY DEF Inv
  <2>2. \A i \in DOMAIN stack :
          /\ stack[i].path \in Seq(STRING) /\ Canonical(stack[i].path) \in File \cup {<<>>}
          /\ stack[i].at \in Nat \ {0} /\ stack[i].relative \in BOOLEAN
          /\ IsBaseDir(stack[i].restore)
    <3>1. stack \in Seq(FrameType)
      BY <2>1 DEF Types
    <3>2. \A i \in DOMAIN stack : stack[i] \in FrameType
      BY <3>1
    <3> QED  BY <3>2 DEF FrameType, BaseDir, Source
  <2>3. Len(incl) <= 1 /\ \A i \in DOMAIN incl : incl[i].file \in Seq(STRING)
    <3>1. CASE incl = <<>>
      BY <3>1
    <3>2. CASE incl # <<>>
      <4>1. incl = <<incl[1]>> /\ incl[1] \in PendingType(Seq(STRING) \ {<<>>})
        BY <2>1, <3>2, InclType
      <4>2. Len(incl) = 1 /\ DOMAIN incl = {1}
        BY <4>1, Singleton
      <4> QED  BY <4>1, <4>2 DEF PendingType
    <3> QED  BY <3>1, <3>2
  <2>4. todo \in Seq({"OPTIONALk", "ONCEk", "FILENAME", "INCLUDE"})
    <3>1. CASE todo = <<>>
      BY <3>1
    <3>2. CASE todo # <<>>
      <4>1. Matched(Current) /\ Current \in Statement /\ Later(Current) \in Statement
        <5>1. Current \in Statement
          BY <2>1, <3>2, CurrentType DEF Inv, StatementMatched, Types
        <5> QED  BY <3>2, <5>1, LaterIs DEF Inv, StatementMatched
      <4>2. \/ todo = <<"OPTIONALk", "ONCEk", "FILENAME", "INCLUDE">>
            \/ todo = <<"OPTIONALk", "FILENAME", "INCLUDE">>
            \/ todo = <<"ONCEk", "FILENAME", "INCLUDE">>
            \/ todo = <<"FILENAME", "INCLUDE">>
            \/ todo = <<"INCLUDE">>
        BY <4>1, RestIs DEF Matched, Later
      <4>3. CASE todo = <<"OPTIONALk", "ONCEk", "FILENAME", "INCLUDE">>
        BY <4>3
      <4>4. CASE todo = <<"OPTIONALk", "FILENAME", "INCLUDE">>
        BY <4>4
      <4>5. CASE todo = <<"ONCEk", "FILENAME", "INCLUDE">>
        BY <4>5
      <4>6. CASE todo = <<"FILENAME", "INCLUDE">>
        BY <4>6
      <4>7. CASE todo = <<"INCLUDE">>
        BY <4>7
      <4> QED  BY <4>2, <4>3, <4>4, <4>5, <4>6, <4>7
    <3> QED  BY <3>1, <3>2
  <2> QED  BY <2>1, <2>2, <2>3, <2>4 DEF Types, TypeOK, PendingType, Source, BaseDir, Exceptions
<1> QED  BY <1>1, AlwaysInv, PTL

(* While files are parsed, base_dir is the directory of the innermost one  *)
(* that is parsed for an include_relative, whatever was included, skipped  *)
(* and left before (actions.h:507-511, utils.h:146-168).                   *)
THEOREM BaseDirFollows == Spec => []BaseDirFollowsStack
<1>1. Inv => BaseDirFollowsStack
  BY DEF Inv, Scopes, IsBase, BaseDirFollowsStack
<1> QED  BY <1>1, AlwaysInv, PTL

(* An include is resolved with the attributes of its own statement         *)
(* (actions.h:422-463).                                                    *)
THEOREM AttributesAreOwn == Spec => []AttributesOwn
<1>1. Inv => AttributesOwn
  BY DEF Inv
<1> QED  BY <1>1, AlwaysInv, PTL

(* No included path is parsed twice, however the files include each other  *)
(* (actions.h:507-526).                                                    *)
THEOREM ParsedOnce == Spec => []PathParsedOnce
<1>1. Inv => PathParsedOnce
  BY DEF Inv
<1> QED  BY <1>1, AlwaysInv, PTL

-----------------------------------------------------------------------------
(* What substituteEnvVars fails for: a set of variables that has those the *)
(* statements name and those its values name, all of them closed, is       *)
(* enough for every name that is resolved.                                 *)

Enough(S) == NamedInFiles \subseteq S /\ ClosedUnder(S)
Resolves(S) ==
  /\ status # "std::runtime_error"
  /\ incl # <<>> => Closed(incl[1].file) /\ Named(incl[1].file) \subseteq S
ErrorsInv == \A S \in SUBSET EnvVar : Enough(S) => Resolves(S)

LEMMA ErrorsInit == Init => ErrorsInv
BY DEF Init, ErrorsInv, Resolves

(* Statements are read, and none is forgotten.                             *)
LEMMA NamedGrows ==
  ASSUME Inv, [Next]_vars
  PROVE  NamedInFiles \subseteq NamedInFiles'
<1>1. CASE disk' = disk
  BY <1>1 DEF NamedInFiles
<1>2. CASE disk' # disk
  <2>1. PICK s \in Statement : INCLUDEk(s)
    BY <1>2 DEF Next, Include, OPTIONALk, ONCEk, FILENAME, Sets, INCLUDE, SubstituteEnvVars,
                UnclosedEnvVar, Missing, Skip, OpenFails, Duplicate, ParseError, Throw,
                BeginNested, EndNested, EndRoot, SyntaxError, Ended, vars
  <2>2. disk' = [disk EXCEPT ![Here] = Append(@, s)]
    BY <1>2, <2>1 DEF INCLUDEk
  <2>3. /\ disk \in [Source -> Seq(Statement)] /\ Here \in Source
    <3>1. Types /\ Places /\ stack # <<>>
      BY <2>1 DEF Inv, Types, INCLUDEk, BetweenStatements
    <3> QED  BY <3>1, TopFacts DEF Types
  <2>4. ASSUME NEW f \in Source, NEW i \in DOMAIN disk[f]
        PROVE  i \in DOMAIN disk'[f] /\ disk'[f][i] = disk[f][i]
    <3>1. disk[f] \in Seq(Statement)
      BY <2>3
    <3>2. disk'[f] = IF f = Here THEN Append(disk[f], s) ELSE disk[f]
      BY <2>2, <2>3
    <3> QED  BY <2>4, <3>1, <3>2
  <2>5. DOMAIN disk = Source /\ DOMAIN disk' = Source
    BY <2>2, <2>3
  <2>6. SUFFICES ASSUME NEW f \in Source, NEW i \in DOMAIN disk[f],
                        NEW v \in Named(disk[f][i].name)
                 PROVE  v \in NamedInFiles'
    BY <2>5 DEF NamedInFiles
  <2>7. v \in UNION {Named(disk'[f][k].name) : k \in DOMAIN disk'[f]}
    BY <2>4, <2>6
  <2> QED  BY <2>5, <2>7 DEF NamedInFiles
<1> QED  BY <1>1, <1>2

LEMMA ErrorsNext ==
  ASSUME Inv, ErrorsInv, [Next]_vars
  PROVE  ErrorsInv'
<1> SUFFICES ASSUME NEW S \in SUBSET EnvVar, Enough(S)' PROVE Resolves(S)'
  BY DEF ErrorsInv
<1>1. ClosedUnder(S) /\ Resolves(S)
  BY NamedGrows DEF Enough, ErrorsInv
<1>2. CASE INCLUDE
  <2>1. /\ Parsing /\ todo # <<>> /\ Head(todo) = "INCLUDE" /\ disk' = disk
        /\ incl' = <<include_pending>> /\ status' = status
    BY <1>2 DEF INCLUDE, Matching
  <2>2. Top.at > 1 /\ Matched(Current) /\ stack # <<>> /\ Types /\ Places
    BY <2>1 DEF Inv, StatementMatched, Types
  <2>3. PICK s \in Statement : s = Current
    BY <2>2, CurrentType
  <2>4. include_pending.file = s.name
    BY <2>1, <2>2, <2>3, AtINCLUDE DEF Flags
  <2>5. Closed(s.name)
    BY NameAssumption DEF Statement
  <2>6. Named(s.name) \subseteq S
    <3>1. Here \in Source /\ disk[Here] \in Seq(Statement) /\ Top.at \in 1 .. (Len(disk[Here]) + 1)
      BY <2>2, TopFacts
    <3>2. Top.at - 1 \in DOMAIN disk[Here] /\ DOMAIN disk = Source
      BY <2>2, <3>1 DEF Types
    <3>3. Named(s.name) \subseteq NamedInFiles
      BY <2>3, <3>1, <3>2 DEF NamedInFiles, Current
    <3>4. NamedInFiles' = NamedInFiles
      BY <2>1 DEF NamedInFiles
    <3> QED  BY <3>3, <3>4 DEF Enough
  <2>7. incl'[1].file = s.name
    BY <2>1, <2>4
  <2> QED  BY <1>1, <2>1, <2>5, <2>6, <2>7 DEF Resolves
<1>3. CASE SubstituteEnvVars
  <2>1. /\ incl # <<>> /\ Opens(incl[1].file) # {} /\ IsClosed(incl[1].file)
        /\ incl' = <<[incl[1] EXCEPT !.file = Substituted(@)]>> /\ status' = status /\ Types
    BY <1>3 DEF SubstituteEnvVars, Substituting, Inv
  <2>2. PICK r \in PendingType(Seq(STRING) \ {<<>>}) : r = incl[1]
    BY <2>1, InclType
  <2>3. r.file \in Seq(STRING) /\ incl'[1].file = Substituted(r.file)
    BY <2>1, <2>2 DEF PendingType
  <2>4. Closed(Substituted(r.file)) /\ Named(Substituted(r.file)) \subseteq S
    BY <1>1, <2>1, <2>2, <2>3, SubstitutedClosed DEF Resolves
  <2> QED  BY <1>1, <2>1, <2>3, <2>4 DEF Resolves
<1>4. CASE UnclosedEnvVar
  <2>1. Types /\ incl # <<>> /\ Opens(incl[1].file) # {} /\ ~IsClosed(incl[1].file)
    BY <1>4 DEF UnclosedEnvVar, Substituting, Inv
  <2>2. PICK name \in Seq(STRING) : name = incl[1].file
    BY <2>1, InclType DEF PendingType
  <2>3. Opens(name) \in SUBSET Nat
    <3>1. Len(name) \in Nat /\ DOMAIN name = 1 .. Len(name)
      BY LenIs
    <3> QED  BY <3>1 DEF Opens
  <2>4. Min(Opens(name)) \in Opens(name)
    BY <2>1, <2>2, <2>3, MinIsFirst
  <2>5. Closed(name)
    BY <1>1, <2>1, <2>2 DEF Resolves
  <2> QED  BY <2>1, <2>2, <2>4, <2>5 DEF Closed, IsClosed
<1>5. CASE Missing \/ OpenFails \/ Duplicate \/ SyntaxError
  <2>1. incl' = <<>> /\ (status' = status \/ status' = "InvalidConfigException")
    BY <1>5 DEF Missing, OpenFails, Duplicate, SyntaxError, Skip, ParseError, Throw
  <2> QED  BY <1>1, <2>1 DEF Resolves
<1>6. CASE BeginNested \/ EndNested \/ EndRoot \/ \E s \in Statement : INCLUDEk(s)
  <2>1. incl' = <<>> /\ (status' = status \/ status' = "parsed")
    BY <1>6 DEF BeginNested, EndNested, EndRoot, INCLUDEk, AtEnd, BetweenStatements
  <2> QED  BY <1>1, <2>1 DEF Resolves
<1>7. CASE OPTIONALk \/ ONCEk \/ FILENAME \/ Ended \/ UNCHANGED vars
  <2>1. incl' = incl /\ status' = status
    BY <1>7 DEF OPTIONALk, ONCEk, FILENAME, Sets, Ended, vars
  <2> QED  BY <1>1, <2>1 DEF Resolves
<1> QED  BY <1>2, <1>3, <1>4, <1>5, <1>6, <1>7 DEF Next, Include

(* A std::runtime_error escapes only for a reason in the environment: some *)
(* variable that a statement names, directly or through the values of      *)
(* others, has a "${" without a "}" (utils.h:121-144, actions.h:530).      *)
THEOREM ErrorsAreReal == Spec => []UnexpectedErrorIsReal
<1>1. ErrorsInv => UnexpectedErrorIsReal
  BY DEF ErrorsInv, Enough, ClosedUnder, Resolves, UnexpectedErrorIsReal
<1>2. Init => Inv /\ ErrorsInv
  BY InitInv, ErrorsInit
<1>3. Inv /\ ErrorsInv /\ [Next]_vars => Inv' /\ ErrorsInv'
  BY NextInv, ErrorsNext
<1> QED  BY <1>1, <1>2, <1>3, PTL DEF Spec
=============================================================================
