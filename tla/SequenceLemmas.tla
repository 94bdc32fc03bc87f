---------------------------- MODULE SequenceLemmas ----------------------------
(***************************************************************************)
(* Facts about numbers, sequences and folds that the proofs of the         *)
(* components share.                                                       *)
(***************************************************************************)
EXTENDS Naturals, Integers, Sequences, SequencesExt, FiniteSetsExt, WellFoundedInduction, TLAPS

-----------------------------------------------------------------------------
(* Every set of numbers has a least one: an induction over numbers is the  *)
(* argument that the set of counterexamples is empty.                      *)

Less == {p \in Nat \X Nat : p[1] < p[2]}

LEMMA LeastNumber ==
  ASSUME NEW T \in SUBSET Nat, T # {}
  PROVE  \E x \in T : \A y \in T : x <= y
<1>1. IsWellFoundedOn(Less, Nat)
  <2>1. OpToRel(<, Nat) = Less
    BY DEF OpToRel, Less
  <2> QED  BY <2>1, NatLessThanWellFounded
<1>2. PICK x \in T : \A y \in T : <<y, x>> \notin Less
  BY <1>1, WFMin
<1>3. ASSUME NEW y \in T, y < x PROVE FALSE
  <2>1. <<y, x>> \in Nat \X Nat /\ <<y, x>>[1] < <<y, x>>[2]
    BY <1>3
  <2> QED  BY <1>2, <2>1 DEF Less
<1> QED  BY <1>3

LEMMA LessThanNext == ASSUME NEW i \in Nat, NEW n \in Nat PROVE i < n + 1 <=> i < n \/ i = n
OBVIOUS

LEMMA LenIs ==
  ASSUME NEW S, NEW s \in Seq(S)
  PROVE  Len(s) \in Nat /\ DOMAIN s = 1 .. Len(s)
OBVIOUS

LEMMA FrontOfAny == ASSUME NEW S, NEW s \in Seq(S) PROVE Front(s) \in Seq(S)
BY DEF Front

LEMMA FrontLast ==
  ASSUME NEW S, NEW s \in Seq(S), s # <<>>
  PROVE  /\ Front(s) \in Seq(S) /\ Len(Front(s)) = Len(s) - 1
         /\ \A i \in 1 .. (Len(s) - 1) : Front(s)[i] = s[i]
         /\ Last(s) = s[Len(s)] /\ Last(s) \in S /\ Len(s) \in Nat \ {0}
<1>1. Len(s) \in Nat \ {0} /\ Len(s) \in 1 .. Len(s)
  OBVIOUS
<1>2. Last(s) = s[Len(s)] /\ Last(s) \in S
  BY <1>1 DEF Last
<1>3. Front(s) \in Seq(S)
  BY FrontOfAny
<1>5. Len(Front(s)) = Len(s) - 1
  BY <1>1, SMTT(30) DEF Front
<1>4. \A i \in 1 .. (Len(s) - 1) : Front(s)[i] = s[i]
  BY <1>1 DEF Front
<1> QED  BY <1>1, <1>2, <1>3, <1>4, <1>5

(* A prefix of a sequence without its last element, if it has one.         *)
LEMMA PrefixOfFront ==
  ASSUME NEW S, NEW s \in Seq(S), s # <<>>, NEW n \in 0 .. (Len(s) - 1)
  PROVE  SubSeq(Front(s), 1, n) = SubSeq(s, 1, n)
BY DEF Front

LEMMA Singleton ==
  ASSUME NEW S, NEW e \in S
  PROVE  <<e>> \in Seq(S) /\ <<e>> # <<>> /\ Len(<<e>>) = 1 /\ <<e>>[1] = e /\ DOMAIN <<e>> = {1}
OBVIOUS

LEMMA ConcatType ==
  ASSUME NEW S, NEW s \in Seq(S), NEW t \in Seq(S)
  PROVE  s \o t \in Seq(S) /\ Len(s \o t) = Len(s) + Len(t)
OBVIOUS

LEMMA TailType == ASSUME NEW S, NEW s \in Seq(S), s # <<>> PROVE Tail(s) \in Seq(S)
OBVIOUS

LEMMA PrefixOfAppend ==
  ASSUME NEW S, NEW s \in Seq(S), NEW e \in S, NEW n \in 0 .. Len(s)
  PROVE  SubSeq(Append(s, e), 1, n) = SubSeq(s, 1, n)
OBVIOUS

LEMMA PrefixOfConcat ==
  ASSUME NEW S, NEW s \in Seq(S), NEW t \in Seq(S), NEW n \in 1 .. Len(s)
  PROVE  s \o t \in Seq(S) /\ n \in 1 .. Len(s \o t) /\ SubSeq(s \o t, 1, n) = SubSeq(s, 1, n)
<1>1. s \o t \in Seq(S) /\ Len(s \o t) = Len(s) + Len(t) /\ n \in 1 .. Len(s \o t)
  OBVIOUS
<1>2. \A i \in 1 .. n : (s \o t)[i] = s[i]
  OBVIOUS
<1> QED  BY <1>1, <1>2

(* Tuples.                                                                 *)
LEMMA ConcatIs ==
  ASSUME NEW S, NEW s \in Seq(S), NEW t \in Seq(S), NEW u \in Seq(S),
         Len(u) = Len(s) + Len(t),
         \A i \in 1 .. Len(s) : u[i] = s[i],
         \A i \in 1 .. Len(t) : u[Len(s) + i] = t[i]
  PROVE  s \o t = u
<1>1. s \o t \in Seq(S) /\ Len(s \o t) = Len(u)
  OBVIOUS
<1>2. ASSUME NEW i \in 1 .. Len(u) PROVE (s \o t)[i] = u[i]
  <2>1. CASE i <= Len(s)
    BY <2>1
  <2>2. CASE i > Len(s)
    <3>1. i - Len(s) \in 1 .. Len(t) /\ Len(s) + (i - Len(s)) = i
      BY <2>2
    <3>2. u[i] = t[i - Len(s)]
      BY <3>1
    <3> QED  BY <2>2, <3>1, <3>2
  <2> QED  BY <2>1, <2>2
<1> QED  BY <1>1, <1>2

LEMMA Concat2 ==
  ASSUME NEW a, NEW b
  PROVE  <<a>> \o <<b>> = <<a, b>>
<1> DEFINE p == <<a>>
           q == <<b>>
           u == <<a, b>>
<1>1. p \in Seq({a, b}) /\ q \in Seq({a, b}) /\ u \in Seq({a, b})
  OBVIOUS
<1>2. Len(p) = 1 /\ Len(q) = 1 /\ Len(u) = 2
  OBVIOUS
<1>3. u[1] = p[1] /\ u[2] = q[1]
  OBVIOUS
<1>4. (\A i \in 1 .. 1 : i = 1) /\ (\A i \in 1 .. 2 : i = 1 \/ i = 2)
  OBVIOUS
<1> HIDE DEF p, q, u
<1>5. (\A i \in 1 .. Len(p) : u[i] = p[i]) /\ (\A i \in 1 .. Len(q) : u[Len(p) + i] = q[i])
  BY <1>2, <1>3, <1>4
<1>6. Len(u) = Len(p) + Len(q)
  BY <1>2
<1>7. p \o q = u
  BY <1>1, <1>5, <1>6, ConcatIs
<1> QED  BY <1>7 DEF p, q, u

LEMMA Concat3 ==
  ASSUME NEW a, NEW b, NEW c
  PROVE  <<a>> \o <<b, c>> = <<a, b, c>>
<1> DEFINE p == <<a>>
           q == <<b, c>>
           u == <<a, b, c>>
<1>1. p \in Seq({a, b, c}) /\ q \in Seq({a, b, c}) /\ u \in Seq({a, b, c})
  OBVIOUS
<1>2. Len(p) = 1 /\ Len(q) = 2 /\ Len(u) = 3
  OBVIOUS
<1>3. u[1] = p[1] /\ u[2] = q[1] /\ u[3] = q[2]
  OBVIOUS
<1>4. (\A i \in 1 .. 1 : i = 1) /\ (\A i \in 1 .. 2 : i = 1 \/ i = 2)
  OBVIOUS
<1> HIDE DEF p, q, u
<1>5. (\A i \in 1 .. Len(p) : u[i] = p[i]) /\ (\A i \in 1 .. Len(q) : u[Len(p) + i] = q[i])
  BY <1>2, <1>3, <1>4
<1>6. Len(u) = Len(p) + Len(q)
  BY <1>2
<1>7. p \o q = u
  BY <1>1, <1>5, <1>6, ConcatIs
<1> QED  BY <1>7 DEF p, q, u

LEMMA Concat4 ==
  ASSUME NEW a, NEW b, NEW c, NEW d
  PROVE  <<a, b>> \o <<c, d>> = <<a, b, c, d>>
<1> DEFINE p == <<a, b>>
           q == <<c, d>>
           u == <<a, b, c, d>>
<1>1. p \in Seq({a, b, c, d}) /\ q \in Seq({a, b, c, d}) /\ u \in Seq({a, b, c, d})
  OBVIOUS
<1>2. Len(p) = 2 /\ Len(q) = 2 /\ Len(u) = 4
  OBVIOUS
<1>3. u[1] = p[1] /\ u[2] = p[2] /\ u[3] = q[1] /\ u[4] = q[2]
  OBVIOUS
<1>4. (\A i \in 1 .. 1 : i = 1) /\ (\A i \in 1 .. 2 : i = 1 \/ i = 2)
  OBVIOUS
<1> HIDE DEF p, q, u
<1>5. (\A i \in 1 .. Len(p) : u[i] = p[i]) /\ (\A i \in 1 .. Len(q) : u[Len(p) + i] = q[i])
  BY <1>2, <1>3, <1>4
<1>6. Len(u) = Len(p) + Len(q)
  BY <1>2
<1>7. p \o q = u
  BY <1>1, <1>5, <1>6, ConcatIs
<1> QED  BY <1>7 DEF p, q, u

LEMMA MaxOfPrefix ==
  ASSUME NEW n \in Nat, NEW s \in SUBSET (1 .. n), n \in s PROVE Max(s) = n
<1>1. \A y \in s : y <= n
  OBVIOUS
<1>2. \A x \in s : (\A y \in s : x >= y) => x = n
  BY <1>1
<1> QED  BY <1>1, <1>2 DEF Max

(* Every nonempty set of numbers up to a bound has a greatest one.         *)
LEMMA MaxIn ==
  ASSUME NEW n \in Nat, NEW s \in SUBSET (1 .. n), s # {}
  PROVE  Max(s) \in s
<1> DEFINE T == {k \in Nat : k <= n /\ n - k \in s}
<1>1. PICK e \in s : TRUE
  OBVIOUS
<1>2. n - e \in T /\ T \in SUBSET Nat
  BY <1>1
<1>3. PICK k \in T : \A j \in T : k <= j
  BY <1>2, LeastNumber
<1>4. n - k \in s /\ \A y \in s : n - k >= y
  <2>1. ASSUME NEW y \in s PROVE n - k >= y
    <3>1. y \in Nat /\ n - y \in Nat /\ n - y <= n /\ n - (n - y) = y
      OBVIOUS
    <3>2. n - y \in T
      BY <3>1
    <3> QED  BY <1>3, <3>1, <3>2
  <2> QED  BY <2>1
<1> QED  BY <1>4 DEF Max

-----------------------------------------------------------------------------
(* Folds.  A fold over a sequence of length n is the value at 1 .. n of a  *)
(* function on the subsets of 1 .. n, which exists.                        *)

LEMMA InitialSegment ==
  ASSUME NEW k \in Nat \ {0}
  PROVE  1 .. k # {} /\ Max(1 .. k) = k /\ (1 .. k) \ {k} = 1 .. (k - 1) /\ k - 1 \in Nat
<1>1. k \in 1 .. k /\ (1 .. k) \ {k} = 1 .. (k - 1) /\ k - 1 \in Nat
  OBVIOUS
<1>2. Max(1 .. k) = k
  <2>1. k \in Nat /\ (1 .. k) \in SUBSET (1 .. k)
    OBVIOUS
  <2> QED  BY <1>1, <2>1, MaxOfPrefix
<1> QED  BY <1>1, <1>2

Steps(g, V, base, n, F) ==
  /\ g \in [SUBSET (1 .. n) -> V]
  /\ \A s \in SUBSET (1 .. n) : g[s] = IF s = {} THEN base ELSE F[Max(s)][g[s \ {Max(s)}]]

LEMMA StepsExist ==
  ASSUME NEW V, NEW base \in V, NEW n \in Nat, NEW F \in [1 .. n -> [V -> V]]
  PROVE  \E g : Steps(g, V, base, n, F)
<1> DEFINE T == {k \in Nat : k <= n /\ ~ \E g : Steps(g, V, base, k, F)}
<1>1. ASSUME T # {} PROVE FALSE
  <2>2. PICK k \in T : \A j \in T : k <= j
    BY <1>1, LeastNumber
  <2>3. CASE k = 0
    <3>1. Steps([s \in SUBSET (1 .. 0) |-> base], V, base, 0, F)
      BY DEF Steps
    <3> QED  BY <2>3, <3>1
  <2>4. CASE k # 0
    <3>1. k - 1 \in Nat /\ k - 1 \notin T /\ k - 1 <= n
      BY <2>2, <2>4
    <3>2. PICK g : Steps(g, V, base, k - 1, F)
      BY <3>1
    <3> DEFINE h == [s \in SUBSET (1 .. k) |-> IF k \in s THEN F[k][g[s \ {k}]] ELSE g[s]]
    <3>3. k \in 1 .. n /\ k \in Nat /\ F[k] \in [V -> V]
      BY <2>4
    <3>4. \A s \in SUBSET (1 .. k) : s \ {k} \in SUBSET (1 .. (k - 1)) /\ (k \notin s => s \ {k} = s)
      BY <3>3
    <3>5. h \in [SUBSET (1 .. k) -> V]
      <4>1. \A s \in SUBSET (1 .. k) : g[s \ {k}] \in V /\ (k \notin s => g[s] \in V)
        BY <3>2, <3>4 DEF Steps
      <4> QED  BY <3>3, <4>1
    <3>6. ASSUME NEW s \in SUBSET (1 .. k)
          PROVE  h[s] = IF s = {} THEN base ELSE F[Max(s)][h[s \ {Max(s)}]]
      <4>1. CASE k \in s
        <5>1. Max(s) = k
          BY <3>3, <4>1, MaxOfPrefix
        <5>2. s \ {k} \in SUBSET (1 .. k)
          BY <3>3
        <5>3. h[s] = F[k][g[s \ {k}]] /\ h[s \ {k}] = g[s \ {k}]
          BY <4>1, <5>2
        <5> QED  BY <4>1, <5>1, <5>3
      <4>2. CASE k \notin s
        <5>1. s \in SUBSET (1 .. (k - 1)) /\ s \ {Max(s)} \in SUBSET (1 .. k) /\ k \notin s \ {Max(s)}
          BY <3>4, <4>2
        <5>2. h[s] = g[s] /\ h[s \ {Max(s)}] = g[s \ {Max(s)}]
          BY <4>2, <5>1
        <5>3. g[s] = IF s = {} THEN base ELSE F[Max(s)][g[s \ {Max(s)}]]
          BY <3>2, <5>1 DEF Steps
        <5> QED  BY <5>2, <5>3
      <4> QED  BY <4>1, <4>2
    <3> HIDE DEF h
    <3>7. Steps(h, V, base, k, F)
      BY <3>5, <3>6 DEF Steps
    <3> QED  BY <3>7
  <2> QED  BY <2>3, <2>4
<1>2. n \notin T
  BY <1>1
<1> QED  BY <1>2
=============================================================================
