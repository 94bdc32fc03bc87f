-------------------------------- MODULE Math --------------------------------
(***************************************************************************)
(* The evaluation of an expression (math_helpers.cpp, math/actions.h,      *)
(* math/grammar.h): the actions of the grammar push operands and operators *)
(* on a stack of stacks, and an operator first evaluates those before it   *)
(* that bind tighter.  The grammar is which tokens may come next; a step   *)
(* is a token, or one round of a loop over the operators of a stack.       *)
(***************************************************************************)
EXTENDS Naturals, Sequences, SequencesExt

CONSTANTS
  Values,         \* the doubles
  Operands,       \* what the text may name: doubles, and NoValue for a VAR
  NoValue,        \* what a VAR is: math/actions.h has no action for it
  f(_, _, _),     \* what an operator makes of two doubles
  Discarded,      \* the -1 that a unary minus discards
  MaxTokens       \* bound: the tokens of an expression

BinaryOps == {"+", "-", "*", "/", "^", "**"}
Operators == BinaryOps \cup {"m"}

ASSUME OperandsAssumption == Operands \subseteq Values \cup {NoValue} /\ NoValue \notin Values
ASSUME ValuesAssumption ==
  /\ Discarded \in Values
  /\ \A op \in Operators, x, y \in Values : f(op, x, y) \in Values
ASSUME TokensAssumption == MaxTokens \in Nat

VARIABLES
  text,         \* the tokens read: <<"v", value>> or <<symbol>>
  expect,       \* the grammar expects "P" or what may follow one, "B"
  s,            \* the stacks, each with its operators ops and operands vs
  bracket_cnt,  \* the brackets open
  call,         \* the loop that runs, the operator it is for and its copy o2
  res,          \* the result
  phase         \* "read", "done" or "assertion", when one has failed

vars == <<text, expect, s, bracket_cnt, call, res, phase>>

-----------------------------------------------------------------------------

p(op) == CASE op \in {"+", "-"} -> 6 [] op \in {"*", "/"} -> 8 [] op \in {"^", "**"} -> 9 [] op = "m" -> 10
l(op) == op \in {"+", "-", "*", "/"}

(* Mutant: operators of the same precedence are evaluated from the right.  *)
FirstOnlyIfTighter(o2, op) == p(o2) > p(op)

(* Whether the operator o2 before op is evaluated first.                   *)
First(o2, op) == p(o2) > p(op) \/ (p(o2) = p(op) /\ l(op))

EmptyStack == [ops |-> <<>>, vs |-> <<>>]
Call(fn, op, o2) == [fn |-> fn, op |-> op, o2 |-> o2]
NoCall == Call("none", "", "")

Init ==
  /\ text = <<>> /\ expect = "P"
  /\ s = <<EmptyStack>>
  /\ bracket_cnt = 0
  /\ call = NoCall
  /\ res = Discarded
  /\ phase = "read"

Top == s[Len(s)]
PutTop(stack) == [s EXCEPT ![Len(s)] = stack]
PushedValue(stack, v) == [stack EXCEPT !.vs = Append(@, v)]
LastOp(stack) == IF stack.ops = <<>> THEN "" ELSE stack.ops[Len(stack.ops)]
PushCall(op) == Call("push", op, LastOp(Top))

Read(want, token, still) ==
  /\ phase = "read" /\ call = NoCall /\ expect = want
  /\ text' = Append(text, token)
  /\ Len(text) + 1 + still + bracket_cnt <= MaxTokens
  /\ UNCHANGED <<res, phase>>

(* A number, pi or a lookup; nothing happens at a VAR.                     *)
Operand ==
  /\ \E v \in Operands :
       /\ Read("P", <<"v", v>>, 0)
       /\ s' = IF v = NoValue THEN s ELSE PutTop(PushedValue(Top, v))
  /\ expect' = "B"
  /\ UNCHANGED <<bracket_cnt, call>>

(* Mutant: the operand that is discarded is not pushed.                    *)
UmAlone ==
  /\ Read("P", <<"-">>, 1)
  /\ call' = PushCall("m")
  /\ UNCHANGED <<s, expect, bracket_cnt>>

Um ==
  /\ Read("P", <<"-">>, 1)
  /\ s' = PutTop(PushedValue(Top, Discarded))
  /\ call' = PushCall("m")
  /\ UNCHANGED <<expect, bracket_cnt>>

Up ==
  /\ Read("P", <<"+">>, 1)
  /\ UNCHANGED <<s, expect, bracket_cnt, call>>

Po ==
  /\ Read("P", <<"(">>, 2)
  /\ s' = Append(s, EmptyStack)
  /\ bracket_cnt' = bracket_cnt + 1
  /\ UNCHANGED <<expect, call>>

Bo ==
  /\ \E op \in BinaryOps : Read("B", <<op>>, 1) /\ call' = PushCall(op)
  /\ expect' = "P"
  /\ UNCHANGED <<s, bracket_cnt>>

(* The action of the expression in the brackets does nothing.              *)
Pc ==
  /\ phase = "read" /\ call = NoCall /\ expect = "B" /\ bracket_cnt > 0
  /\ text' = Append(text, <<")">>)
  /\ IF Len(s) > 1 THEN call' = Call("close", "", "") /\ phase' = phase
                   ELSE call' = call /\ phase' = "assertion"
  /\ UNCHANGED <<s, expect, bracket_cnt, res>>

EndExpression ==
  /\ phase = "read" /\ call = NoCall /\ expect = "B" /\ bracket_cnt = 0
  /\ IF Len(s) = 1 THEN call' = Call("finish", "", "") /\ phase' = phase
                   ELSE call' = call /\ phase' = "assertion"
  /\ UNCHANGED <<text, s, expect, bracket_cnt, res>>

-----------------------------------------------------------------------------
(* The loops of Stack::push and Stack::finish. *)

Looping ==
  /\ Top.ops # <<>>
  /\ call.fn \in {"close", "finish"} \/ (call.fn = "push" /\ First(call.o2, call.op))

Reduced(stack) ==
  LET n == Len(stack.vs)
      m == Len(stack.ops)
  IN  [ops |-> SubSeq(stack.ops, 1, m - 1),
       vs |-> Append(SubSeq(stack.vs, 1, n - 2), f(stack.ops[m], stack.vs[n - 1], stack.vs[n]))]

(* Mutant: the operator to compare with is not looked up again.            *)
SameOperator(stack) == call.o2

(* The operator at the back, if there is one left.                         *)
NextOperator(stack) == IF stack.ops = <<>> THEN call.o2 ELSE LastOp(stack)

evalBack ==
  /\ phase = "read" /\ Looping
  /\ IF Len(Top.vs) = Len(Top.ops) + 1
       THEN /\ s' = PutTop(Reduced(Top))
            /\ call' = IF call.fn = "push" THEN [call EXCEPT !.o2 = NextOperator(Reduced(Top))] ELSE call
            /\ phase' = phase
       ELSE phase' = "assertion" /\ UNCHANGED <<s, call>>
  /\ UNCHANGED <<text, expect, bracket_cnt, res>>

PushOperator ==
  /\ phase = "read" /\ call.fn = "push" /\ ~Looping
  /\ s' = PutTop([Top EXCEPT !.ops = Append(@, call.op)])
  /\ call' = NoCall
  /\ UNCHANGED <<text, expect, bracket_cnt, res, phase>>

(* Mutant: the count of brackets stays.                                    *)
BracketsKept == bracket_cnt
BracketsLeft == bracket_cnt - 1

Close ==
  /\ phase = "read" /\ call.fn = "close" /\ ~Looping
  /\ IF Len(Top.vs) = 1
       THEN LET below == SubSeq(s, 1, Len(s) - 1)
            IN  s' = [below EXCEPT ![Len(below)] = PushedValue(@, Top.vs[1])] /\ phase' = phase
       ELSE phase' = "assertion" /\ s' = s
  /\ call' = NoCall
  /\ bracket_cnt' = BracketsLeft
  /\ UNCHANGED <<text, expect, res>>

Finish ==
  /\ phase = "read" /\ call.fn = "finish" /\ ~Looping
  /\ IF Len(Top.vs) = 1
       THEN res' = Top.vs[1] /\ s' = PutTop(EmptyStack) /\ phase' = "done"
       ELSE phase' = "assertion" /\ UNCHANGED <<s, res>>
  /\ call' = NoCall
  /\ UNCHANGED <<text, expect, bracket_cnt>>

Stopped == phase # "read" /\ UNCHANGED vars

Next ==
  \/ Operand \/ Um \/ Up \/ Po \/ Bo \/ Pc \/ EndExpression
  \/ evalBack \/ PushOperator \/ Close \/ Finish \/ Stopped

Spec == Init /\ [][Next]_vars

-----------------------------------------------------------------------------

(* The stacks hold doubles and operators, one stack more than brackets are *)
(* open, and a call of push has the operator at the back as its o2         *)
(* (math_helpers.cpp:71-95, math/actions.h:70-84).                         *)
TypeOK ==
  /\ text \in Seq({<<t>> : t \in BinaryOps \cup {"(", ")"}} \cup {<<"v", v>> : v \in Operands})
  /\ expect \in {"P", "B"}
  /\ s \in Seq([ops : Seq(Operators), vs : Seq(Values)])
  /\ bracket_cnt \in Nat
  /\ Len(s) = bracket_cnt + 1
  /\ call \in [fn : {"none", "push", "close", "finish"}, op : Operators \cup {""}, o2 : Operators \cup {""}]
  /\ call.fn = "push" => call.op \in Operators /\ (Top.ops # <<>> => call.o2 = LastOp(Top))
  /\ call.fn = "close" => bracket_cnt > 0
  /\ call.fn = "finish" => bracket_cnt = 0
  /\ res \in Values
  /\ phase \in {"read", "done", "assertion"}

(* The operands on a stack are as many as its operators, one more when an  *)
(* operand has just been read or an operator is being pushed.              *)
Balanced ==
  phase = "read" =>
    /\ \A n \in 1 .. (Len(s) - 1) : Len(s[n].vs) = Len(s[n].ops)
    /\ Len(Top.vs) = Len(Top.ops) + (IF expect = "B" \/ call.fn = "push" THEN 1 ELSE 0)
    /\ call.fn = "push" => expect = "P"
    /\ call.fn \in {"close", "finish"} => expect = "B"

(* No assertion of the evaluator fails (math_helpers.cpp:49, 108, 132, 150 *)
(* and 158): the operands are one more than the operators whenever one is  *)
(* evaluated, a closing bracket has a stack to return to, and one operand  *)
(* is left at the end.                                                     *)
AssertionsHold == phase # "assertion"

(* The operators that wait on a stack bind tighter and tighter, those of   *)
(* one precedence only if they group to the right: an operator that is to  *)
(* be evaluated first never waits below another (math_helpers.cpp:78-95).  *)
Ordered(ops) ==
  \A i \in 1 .. (Len(ops) - 1) :
    p(ops[i]) < p(ops[i + 1]) \/ (p(ops[i]) = p(ops[i + 1]) /\ ~l(ops[i + 1]))
OperatorsOrdered == \A n \in 1 .. Len(s) : Ordered(s[n].ops)
=============================================================================
