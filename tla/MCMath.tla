------------------------------- MODULE MCMath -------------------------------
(***************************************************************************)
(* Math over a small field, and what an expression means by the precedence *)
(* and the grouping of its operators.                                      *)
(***************************************************************************)
EXTENDS Math, Integers

Prime == 101
MCValues == 0 .. (Prime - 1)

RECURSIVE Power(_, _)
Power(x, e) == IF e = 0 THEN 1 ELSE (x * Power(x, e - 1)) % Prime
Powers == [x \in MCValues |-> [e \in MCValues |-> Power(x, e)]]

MCf(op, x, y) ==
  CASE op = "+" -> (x + y) % Prime
    [] op = "-" -> (x - y) % Prime
    [] op = "*" -> (x * y) % Prime
    [] op = "/" -> (x * Powers[y][Prime - 2]) % Prime
    [] op \in {"^", "**"} -> Powers[x][y]
    [] op = "m" -> (-y) % Prime

(* What binds least, with the side of it that is one operand more: the     *)
(* last of + and -, else the last of * and /, else the first power.        *)
Levels == <<{"+", "-"}, {"*", "/"}, {"^", "**"}>>

RECURSIVE Meaning(_)
Meaning(t) ==
  LET depth(i) == Len(SelectSeq(SubSeq(t, 1, i), LAMBDA x : x = <<"(">>))
                    - Len(SelectSeq(SubSeq(t, 1, i), LAMBDA x : x = <<")">>))
      binary(i) == /\ i > 1 /\ depth(i) = 0 /\ t[i][1] \in BinaryOps
                   /\ t[i - 1][1] \in {"v", ")"}
      at(level) == {i \in DOMAIN t : binary(i) /\ t[i][1] \in Levels[level]}
      least == CHOOSE k \in 1 .. 3 : at(k) # {} /\ \A j \in 1 .. (k - 1) : at(j) = {}
      split == IF least = 3 THEN CHOOSE i \in at(3) : \A j \in at(3) : i <= j
               ELSE CHOOSE i \in at(least) : \A j \in at(least) : j <= i
  IN  IF \E k \in 1 .. 3 : at(k) # {}
        THEN MCf(t[split][1], Meaning(SubSeq(t, 1, split - 1)), Meaning(SubSeq(t, split + 1, Len(t))))
      ELSE IF t[1] = <<"-">> THEN MCf("m", 0, Meaning(Tail(t)))
      ELSE IF t[1] = <<"+">> THEN Meaning(Tail(t))
      ELSE IF t[1] = <<"(">> THEN Meaning(SubSeq(t, 2, Len(t) - 1))
      ELSE t[1][2]

(* The result is what the expression means: * and / before + and -, powers *)
(* before those and grouped to the right, a unary minus before all of them *)
(* (math_helpers.cpp:20-41), brackets at any nesting.                      *)
ResultRight == phase = "done" => res = Meaning(text)

MCNoValue == -1
MCNumbers == {3}
=============================================================================
