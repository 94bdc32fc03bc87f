----------------------------- MODULE MathProofs -----------------------------
(***************************************************************************)
(* Theorems about Math for any doubles and operators, and expressions of   *)
(* any length.                                                             *)
(***************************************************************************)
EXTENDS Math, TLAPS

Stacks == [ops : Seq(Operators), vs : Seq(Values)]

LEMMA TopStack ==
  ASSUME TypeOK
  PROVE  /\ s \in Seq(Stacks) /\ Len(s) \in Nat /\ Len(s) > 0
         /\ Top \in Stacks
<1>1. s \in Seq(Stacks) /\ bracket_cnt \in Nat /\ Len(s) = bracket_cnt + 1
  BY DEF TypeOK, Stacks
<1>2. Len(s) \in Nat /\ Len(s) > 0
  BY <1>1
<1>3. s[Len(s)] \in Stacks
  BY <1>1, <1>2
<1> QED  BY <1>1, <1>2, <1>3 DEF Top

(* The same stacks but the last.                                           *)
LEMMA PutTopStack ==
  ASSUME TypeOK, NEW stack \in Stacks
  PROVE  /\ PutTop(stack) \in Seq(Stacks)
         /\ Len(PutTop(stack)) = Len(s)
         /\ PutTop(stack)[Len(s)] = stack
         /\ \A n \in 1 .. (Len(s) - 1) : PutTop(stack)[n] = s[n]
<1>1. s \in Seq(Stacks) /\ Len(s) \in Nat /\ Len(s) > 0
  BY TopStack
<1>2. DEFINE t == [s EXCEPT ![Len(s)] = stack]
<1>3. t \in Seq(Stacks) /\ Len(t) = Len(s)
  BY <1>1
<1>4. t[Len(s)] = stack /\ \A n \in 1 .. (Len(s) - 1) : t[n] = s[n]
  BY <1>1
<1> QED  BY <1>3, <1>4 DEF PutTop

LEMMA LastOpIsOperator ==
  ASSUME NEW stack \in Stacks
  PROVE  /\ LastOp(stack) \in Operators \cup {""}
         /\ stack.ops # <<>> => LastOp(stack) = stack.ops[Len(stack.ops)] /\ LastOp(stack) \in Operators
<1>1. stack.ops \in Seq(Operators)
  BY DEF Stacks
<1>2. CASE stack.ops = <<>>
  BY <1>2 DEF LastOp
<1>3. CASE stack.ops # <<>>
  <2>1. Len(stack.ops) \in 1 .. Len(stack.ops)
    BY <1>1, <1>3
  <2>2. stack.ops[Len(stack.ops)] \in Operators
    BY <1>1, <2>1
  <2> QED  BY <1>3, <2>2 DEF LastOp
<1> QED  BY <1>2, <1>3

LEMMA ReducedStack ==
  ASSUME NEW stack \in Stacks, stack.ops # <<>>, Len(stack.vs) = Len(stack.ops) + 1
  PROVE  /\ Reduced(stack) \in Stacks
         /\ Len(Reduced(stack).vs) = Len(stack.vs) - 1
         /\ Len(Reduced(stack).ops) = Len(stack.ops) - 1
         /\ \A i \in 1 .. (Len(stack.ops) - 1) : Reduced(stack).ops[i] = stack.ops[i]
<1> DEFINE n == Len(stack.vs)
           m == Len(stack.ops)
<1>1. m \in Nat /\ m > 0 /\ n = m + 1 /\ stack.ops \in Seq(Operators) /\ stack.vs \in Seq(Values)
  BY DEF Stacks
<1>2. stack.ops[m] \in Operators /\ stack.vs[n - 1] \in Values /\ stack.vs[n] \in Values
  BY <1>1
<1>3. f(stack.ops[m], stack.vs[n - 1], stack.vs[n]) \in Values
  BY <1>2, ValuesAssumption
<1>4. /\ SubSeq(stack.ops, 1, m - 1) \in Seq(Operators)
      /\ Len(SubSeq(stack.ops, 1, m - 1)) = m - 1
      /\ \A i \in 1 .. (m - 1) : SubSeq(stack.ops, 1, m - 1)[i] = stack.ops[i]
  BY <1>1
<1>5. SubSeq(stack.vs, 1, n - 2) \in Seq(Values) /\ Len(SubSeq(stack.vs, 1, n - 2)) = n - 2
  BY <1>1
<1> QED  BY <1>1, <1>3, <1>4, <1>5 DEF Reduced, Stacks

-----------------------------------------------------------------------------
(* The steps that read a token. *)

Tokens == {<<t>> : t \in BinaryOps \cup {"(", ")"}} \cup {<<"v", v>> : v \in Operands}

Inv == TypeOK /\ Balanced /\ OperatorsOrdered /\ AssertionsHold

LEMMA Numbers ==
  /\ \A o \in Operators : p(o) \in Nat /\ l(o) \in BOOLEAN
  /\ \A o, o2 \in Operators :
       ~First(o, o2) => p(o) < p(o2) \/ (p(o) = p(o2) /\ ~l(o2))
<1>1. \A o \in Operators : p(o) \in Nat
  BY DEF p, Operators, BinaryOps
<1>2. \A o \in Operators : l(o) \in BOOLEAN
  BY DEF l
<1>3. \A o, o2 \in Operators :
       ~First(o, o2) => p(o) < p(o2) \/ (p(o) = p(o2) /\ ~l(o2))
  BY <1>1, <1>2 DEF First
<1> QED  BY <1>1, <1>2, <1>3

LEMMA AppendToken ==
  ASSUME TypeOK, NEW token \in Tokens, text' = Append(text, token)
  PROVE  text' \in Seq(Tokens)
<1>1. text \in Seq(Tokens)
  BY DEF TypeOK, Tokens
<1> QED  BY <1>1

LEMMA ReadToken ==
  ASSUME TypeOK, NEW want, NEW token \in Tokens, NEW still, Read(want, token, still)
  PROVE  text' \in Seq(Tokens)
BY AppendToken DEF Read

(* The loop of push begins with the operator at the back.                  *)
LEMMA BeginPush ==
  ASSUME TypeOK, NEW op \in Operators
  PROVE  /\ PushCall(op) \in [fn : {"none", "push", "close", "finish"}, op : Operators \cup {""}, o2 : Operators \cup {""}]
         /\ PushCall(op).fn = "push" /\ PushCall(op).op = op /\ PushCall(op).o2 = LastOp(Top)
BY TopStack, LastOpIsOperator DEF PushCall, Call

LEMMA PushedStack ==
  ASSUME NEW stack \in Stacks, NEW v \in Values
  PROVE  /\ PushedValue(stack, v) \in Stacks
         /\ PushedValue(stack, v).ops = stack.ops
         /\ Len(PushedValue(stack, v).vs) = Len(stack.vs) + 1
         /\ Len(stack.vs) \in Nat
<1>1. stack.vs \in Seq(Values)
  BY DEF Stacks
<1>2. Append(stack.vs, v) \in Seq(Values) /\ Len(Append(stack.vs, v)) = Len(stack.vs) + 1 /\ Len(stack.vs) \in Nat
  BY <1>1
<1>3. PushedValue(stack, v) = [ops |-> stack.ops, vs |-> Append(stack.vs, v)]
  BY SMTT(30) DEF PushedValue, Stacks
<1> QED  BY <1>2, <1>3 DEF Stacks

(* What a step that only changes the last stack leaves as it is.           *)
LEMMA UpdateTop ==
  ASSUME TypeOK, Balanced, OperatorsOrdered, phase = "read", NEW stack \in Stacks, s' = PutTop(stack)
  PROVE  /\ s' \in Seq(Stacks) /\ Len(s') = Len(s)
         /\ Top' = stack
         /\ \A n \in 1 .. (Len(s') - 1) : Len(s'[n].vs) = Len(s'[n].ops)
         /\ Ordered(stack.ops) => OperatorsOrdered'
<1>1. Len(s) \in Nat /\ Len(s) > 0
  BY TopStack
<1>2. /\ s' \in Seq(Stacks) /\ Len(s') = Len(s) /\ s'[Len(s)] = stack
      /\ \A n \in 1 .. (Len(s) - 1) : s'[n] = s[n]
  BY PutTopStack
<1>3. Top' = stack
  BY <1>2 DEF Top
<1>4. \A n \in 1 .. (Len(s') - 1) : Len(s'[n].vs) = Len(s'[n].ops)
  BY <1>2 DEF Balanced
<1>5. ASSUME Ordered(stack.ops) PROVE \A n \in 1 .. Len(s') : Ordered(s'[n].ops)
  <2> TAKE n \in 1 .. Len(s')
  <2>1. CASE n = Len(s)
    BY <1>2, <1>5, <2>1
  <2>2. CASE n # Len(s)
    <3>1. n \in 1 .. (Len(s) - 1)
      BY <1>1, <1>2, <2>2
    <3> QED  BY <1>1, <1>2, <3>1 DEF OperatorsOrdered
  <2> QED  BY <2>1, <2>2
<1>6. Ordered(stack.ops) => OperatorsOrdered'
  BY <1>5 DEF OperatorsOrdered, Ordered, p, l
<1> QED  BY <1>2, <1>3, <1>4, <1>6

LEMMA TopOrdered == ASSUME TypeOK, OperatorsOrdered PROVE Ordered(Top.ops)
BY TopStack DEF OperatorsOrdered, Top

LEMMA Nesting == TypeOK => bracket_cnt \in Nat /\ Len(s) = bracket_cnt + 1
BY DEF TypeOK

LEMMA OperandInv == Inv /\ NoValue \notin Operands /\ Operand => Inv'
<1> SUFFICES ASSUME Inv, NoValue \notin Operands, Operand PROVE Inv'
  OBVIOUS
<1>1. TypeOK /\ Balanced /\ OperatorsOrdered
  BY DEF Inv
<1>2. PICK v \in Operands : /\ Read("P", <<"v", v>>, 0)
                            /\ s' = IF v = NoValue THEN s ELSE PutTop(PushedValue(Top, v))
  BY DEF Operand
<1>3. v \in Values /\ v # NoValue
  BY OperandsAssumption
<1>4. text' \in Seq(Tokens)
  BY <1>1, <1>2, ReadToken DEF Tokens
<1>5. /\ s' = PutTop(PushedValue(Top, v))
      /\ expect' = "B" /\ UNCHANGED <<bracket_cnt, call, res, phase>>
      /\ phase = "read" /\ call = NoCall /\ expect = "P"
  BY <1>2, <1>3 DEF Operand, Read
<1>6. /\ PushedValue(Top, v) \in Stacks /\ PushedValue(Top, v).ops = Top.ops
      /\ Len(PushedValue(Top, v).vs) = Len(Top.vs) + 1
  BY <1>1, <1>3, TopStack, PushedStack
<1>7. /\ s' \in Seq(Stacks) /\ Len(s') = Len(s) /\ Top' = PushedValue(Top, v)
      /\ \A n \in 1 .. (Len(s') - 1) : Len(s'[n].vs) = Len(s'[n].ops)
      /\ OperatorsOrdered'
  BY <1>1, <1>5, <1>6, UpdateTop, TopOrdered
<1>8. call.fn = "none"
  BY <1>5 DEF NoCall, Call
<1>9. TypeOK'
  BY <1>1, <1>4, <1>5, <1>7, <1>8 DEF TypeOK, Tokens, Stacks
<1>10. Len(Top.vs) = Len(Top.ops)
  BY <1>1, <1>5, <1>8 DEF Balanced
<1>11. Balanced'
  BY <1>5, <1>6, <1>7, <1>8, <1>10 DEF Balanced
<1> QED  BY <1>5, <1>7, <1>9, <1>11 DEF AssertionsHold, Inv

LEMMA UmInv == Inv /\ Um => Inv'
<1> SUFFICES ASSUME Inv, Um PROVE Inv'
  OBVIOUS
<1>1. TypeOK /\ Balanced /\ OperatorsOrdered
  BY DEF Inv
<1>2. /\ s' = PutTop(PushedValue(Top, Discarded)) /\ call' = PushCall("m")
      /\ UNCHANGED <<expect, bracket_cnt, res, phase>>
      /\ phase = "read" /\ call = NoCall /\ expect = "P"
  BY DEF Um, Read
<1>3. text' \in Seq(Tokens)
  <2>1. <<"-">> \in Tokens
    BY DEF Tokens, BinaryOps
  <2> QED  BY <1>1, <2>1, ReadToken DEF Um
<1>4. /\ PushedValue(Top, Discarded) \in Stacks /\ PushedValue(Top, Discarded).ops = Top.ops
      /\ Len(PushedValue(Top, Discarded).vs) = Len(Top.vs) + 1
  BY <1>1, TopStack, PushedStack, ValuesAssumption
<1>5. /\ s' \in Seq(Stacks) /\ Len(s') = Len(s) /\ Top' = PushedValue(Top, Discarded)
      /\ \A n \in 1 .. (Len(s') - 1) : Len(s'[n].vs) = Len(s'[n].ops)
      /\ OperatorsOrdered'
  BY <1>1, <1>2, <1>4, UpdateTop, TopOrdered
<1>6. "m" \in Operators
  BY DEF Operators
<1>7. LastOp(Top') = LastOp(Top) /\ Top'.ops = Top.ops
  BY <1>4, <1>5 DEF LastOp
<1>8. /\ call' \in [fn : {"none", "push", "close", "finish"}, op : Operators \cup {""}, o2 : Operators \cup {""}]
      /\ call'.fn = "push" /\ call'.op = "m" /\ call'.o2 = LastOp(Top')
  BY <1>1, <1>2, <1>6, <1>7, BeginPush
<1>9. TypeOK'
  BY <1>1, <1>2, <1>3, <1>5, <1>6, <1>8 DEF TypeOK, Tokens, Stacks, LastOp
<1>10. Len(Top.vs) = Len(Top.ops)
  <2>1. call.fn = "none"
    BY <1>2 DEF NoCall, Call
  <2> QED  BY <1>1, <1>2, <2>1 DEF Balanced
<1>11. Balanced'
  BY <1>2, <1>4, <1>5, <1>8, <1>10 DEF Balanced
<1> QED  BY <1>2, <1>5, <1>9, <1>11 DEF AssertionsHold, Inv

LEMMA BoInv == Inv /\ Bo => Inv'
<1> SUFFICES ASSUME Inv, Bo PROVE Inv'
  OBVIOUS
<1>1. TypeOK /\ Balanced /\ OperatorsOrdered
  BY DEF Inv
<1>2. PICK op \in BinaryOps : Read("B", <<op>>, 1) /\ call' = PushCall(op)
  BY DEF Bo
<1>3. /\ expect' = "P" /\ UNCHANGED <<s, bracket_cnt, res, phase>>
      /\ phase = "read" /\ call = NoCall /\ expect = "B"
  BY <1>2 DEF Bo, Read
<1>4. text' \in Seq(Tokens)
  <2>1. <<op>> \in Tokens
    BY DEF Tokens
  <2> QED  BY <1>1, <1>2, <2>1, ReadToken
<1>5. op \in Operators
  BY DEF Operators
<1>6. /\ call' \in [fn : {"none", "push", "close", "finish"}, op : Operators \cup {""}, o2 : Operators \cup {""}]
      /\ call'.fn = "push" /\ call'.op = op /\ call'.o2 = LastOp(Top)
  BY <1>1, <1>2, <1>5, BeginPush
<1>7. TypeOK'
  BY <1>1, <1>3, <1>4, <1>5, <1>6 DEF TypeOK, Tokens, Top, LastOp
<1>8. Balanced'
  BY <1>1, <1>3, <1>6 DEF Balanced, Top, NoCall, Call
<1>9. OperatorsOrdered'
  BY <1>1, <1>3 DEF OperatorsOrdered
<1> QED  BY <1>3, <1>7, <1>8, <1>9 DEF AssertionsHold, Inv

LEMMA UpInv == Inv /\ Up => Inv'
<1> SUFFICES ASSUME Inv, Up PROVE Inv'
  OBVIOUS
<1>1. TypeOK /\ Balanced /\ OperatorsOrdered /\ AssertionsHold
  BY DEF Inv
<1>2. UNCHANGED <<s, expect, bracket_cnt, call, res, phase>>
  BY DEF Up, Read
<1>3. text' \in Seq(Tokens)
  <2>1. <<"+">> \in Tokens
    BY DEF Tokens, BinaryOps
  <2> QED  BY <1>1, <2>1, ReadToken DEF Up
<1>4. TypeOK'
  BY <1>1, <1>2, <1>3 DEF TypeOK, Tokens, Top, LastOp
<1>5. Balanced'
  BY <1>1, <1>2 DEF Balanced, Top
<1>6. OperatorsOrdered'
  BY <1>1, <1>2 DEF OperatorsOrdered
<1> QED  BY <1>1, <1>2, <1>4, <1>5, <1>6 DEF AssertionsHold, Inv

LEMMA EmptyOrdered == EmptyStack \in Stacks /\ Len(EmptyStack.vs) = 0 /\ Len(EmptyStack.ops) = 0 /\ Ordered(EmptyStack.ops)
BY DEF EmptyStack, Stacks, Ordered

LEMMA PoInv == Inv /\ Po => Inv'
<1> SUFFICES ASSUME Inv, Po PROVE Inv'
  OBVIOUS
<1>1. TypeOK /\ Balanced /\ OperatorsOrdered
  BY DEF Inv
<1>2. /\ s' = Append(s, EmptyStack) /\ bracket_cnt' = bracket_cnt + 1
      /\ UNCHANGED <<expect, call, res, phase>>
      /\ phase = "read" /\ call = NoCall /\ expect = "P"
  BY DEF Po, Read
<1>3. text' \in Seq(Tokens)
  <2>1. <<"(">> \in Tokens
    BY DEF Tokens
  <2> QED  BY <1>1, <2>1, ReadToken DEF Po
<1>4. s \in Seq(Stacks) /\ Len(s) \in Nat /\ Len(s) > 0
  BY <1>1, TopStack
<1>5. /\ s' \in Seq(Stacks) /\ Len(s') = Len(s) + 1 /\ s'[Len(s')] = EmptyStack
      /\ \A n \in 1 .. Len(s) : s'[n] = s[n]
  BY <1>2, <1>4, EmptyOrdered
<1>6. Top' = EmptyStack
  BY <1>5 DEF Top
<1>7. call.fn = "none"
  BY <1>2 DEF NoCall, Call
<1>8. TypeOK'
  <2>1. Len(s') = bracket_cnt' + 1 /\ bracket_cnt' \in Nat
    BY <1>1, <1>2, <1>5, Nesting
  <2> QED  BY <1>1, <1>2, <1>3, <1>5, <1>7, <2>1 DEF TypeOK, Tokens, Stacks
<1>9. \A n \in 1 .. (Len(s') - 1) : Len(s'[n].vs) = Len(s'[n].ops)
  BY <1>1, <1>2, <1>4, <1>5, <1>7 DEF Balanced, Top
<1>10. Balanced'
  BY <1>2, <1>6, <1>7, <1>9, EmptyOrdered DEF Balanced
<1>11. \A n \in 1 .. Len(s') : Ordered(s'[n].ops)
  <2> TAKE n \in 1 .. Len(s')
  <2>1. CASE n = Len(s')
    BY <1>5, <2>1, EmptyOrdered
  <2>2. CASE n # Len(s')
    <3>1. n \in 1 .. Len(s)
      BY <1>4, <1>5, <2>2
    <3> QED  BY <1>1, <1>5, <3>1 DEF OperatorsOrdered
  <2> QED  BY <2>1, <2>2
<1>12. OperatorsOrdered'
  BY <1>11 DEF OperatorsOrdered
<1> QED  BY <1>2, <1>8, <1>10, <1>12 DEF AssertionsHold, Inv

LEMMA PcInv == Inv /\ Pc => Inv'
<1> SUFFICES ASSUME Inv, Pc PROVE Inv'
  OBVIOUS
<1>1. TypeOK /\ Balanced /\ OperatorsOrdered
  BY DEF Inv
<1>2. Len(s) > 1
  <2>1. bracket_cnt > 0
    BY DEF Pc
  <2> QED  BY <1>1, <2>1, Nesting
<1>3. /\ call' = Call("close", "", "") /\ text' = Append(text, <<")">>)
      /\ UNCHANGED <<s, expect, bracket_cnt, res, phase>>
      /\ phase = "read" /\ call = NoCall /\ expect = "B" /\ bracket_cnt > 0
  BY <1>2 DEF Pc
<1>4. text' \in Seq(Tokens)
  <2>1. <<")">> \in Tokens
    BY DEF Tokens
  <2> QED  BY <1>1, <1>3, <2>1, AppendToken
<1>5. TypeOK'
  BY <1>1, <1>3, <1>4 DEF TypeOK, Tokens, Top, LastOp, Call
<1>6. Balanced'
  BY <1>1, <1>3 DEF Balanced, Top, NoCall, Call
<1>7. OperatorsOrdered'
  BY <1>1, <1>3 DEF OperatorsOrdered
<1> QED  BY <1>3, <1>5, <1>6, <1>7 DEF AssertionsHold, Inv

LEMMA EndExpressionInv == Inv /\ EndExpression => Inv'
<1> SUFFICES ASSUME Inv, EndExpression PROVE Inv'
  OBVIOUS
<1>1. TypeOK /\ Balanced /\ OperatorsOrdered
  BY DEF Inv
<1>2. Len(s) = 1
  <2>1. bracket_cnt = 0
    BY DEF EndExpression
  <2> QED  BY <1>1, <2>1, Nesting
<1>3. /\ call' = Call("finish", "", "")
      /\ UNCHANGED <<text, s, expect, bracket_cnt, res, phase>>
      /\ phase = "read" /\ call = NoCall /\ expect = "B" /\ bracket_cnt = 0
  BY <1>2 DEF EndExpression
<1>4. TypeOK'
  BY <1>1, <1>3 DEF TypeOK, Top, LastOp, Call
<1>5. Balanced'
  BY <1>1, <1>3 DEF Balanced, Top, NoCall, Call
<1>6. OperatorsOrdered'
  BY <1>1, <1>3 DEF OperatorsOrdered
<1> QED  BY <1>3, <1>4, <1>5, <1>6 DEF AssertionsHold, Inv

-----------------------------------------------------------------------------
(* The steps of the loops. *)

LEMMA EvalBackInv == Inv /\ evalBack => Inv'
<1> SUFFICES ASSUME Inv, evalBack PROVE Inv'
  OBVIOUS
<1>1. TypeOK /\ Balanced /\ OperatorsOrdered
  BY DEF Inv
<1>2. phase = "read" /\ Top.ops # <<>> /\ call.fn \in {"push", "close", "finish"}
  BY DEF evalBack, Looping
<1>3. Len(Top.vs) = Len(Top.ops) + 1
  BY <1>1, <1>2 DEF Balanced
<1>4. Top \in Stacks
  BY <1>1, TopStack
<1> DEFINE stack == Reduced(Top)
<1>5. /\ s' = PutTop(stack) /\ UNCHANGED <<text, expect, bracket_cnt, res, phase>>
      /\ call' = IF call.fn = "push" THEN [call EXCEPT !.o2 = NextOperator(stack)] ELSE call
  BY <1>3 DEF evalBack
<1>6. /\ stack \in Stacks
      /\ Len(stack.vs) = Len(Top.vs) - 1 /\ Len(stack.ops) = Len(Top.ops) - 1
      /\ \A i \in 1 .. (Len(Top.ops) - 1) : stack.ops[i] = Top.ops[i]
  BY <1>2, <1>3, <1>4, ReducedStack
<1>7. Len(Top.ops) \in Nat
  BY <1>4 DEF Stacks
<1>8. Ordered(Top.ops)
  BY <1>1, TopOrdered
<1> HIDE DEF stack
<1>9. Ordered(stack.ops)
  BY <1>6, <1>7, <1>8 DEF Ordered
<1>10. /\ s' \in Seq(Stacks) /\ Len(s') = Len(s) /\ Top' = stack
       /\ \A n \in 1 .. (Len(s') - 1) : Len(s'[n].vs) = Len(s'[n].ops)
       /\ OperatorsOrdered'
  BY <1>1, <1>2, <1>5, <1>6, <1>9, UpdateTop
<1>11. /\ call' \in [fn : {"none", "push", "close", "finish"}, op : Operators \cup {""}, o2 : Operators \cup {""}]
       /\ call'.fn = call.fn /\ call'.op = call.op
       /\ call.fn = "push" => (stack.ops # <<>> => call'.o2 = LastOp(stack))
  <2>1. call \in [fn : {"none", "push", "close", "finish"}, op : Operators \cup {""}, o2 : Operators \cup {""}]
    BY <1>1 DEF TypeOK
  <2>2. NextOperator(stack) \in Operators \cup {""} /\ (stack.ops # <<>> => NextOperator(stack) = LastOp(stack))
    BY <1>6, <2>1, LastOpIsOperator DEF NextOperator
  <2> QED  BY <1>5, <2>1, <2>2
<1>12. TypeOK'
  BY <1>1, <1>5, <1>10, <1>11 DEF TypeOK, Stacks, LastOp
<1>13. Balanced'
  <2>1. Len(stack.vs) = Len(stack.ops) + 1
    BY <1>3, <1>6, <1>7
  <2>2. /\ expect = "B" \/ call.fn = "push"
        /\ call.fn = "push" => expect = "P"
        /\ call.fn \in {"close", "finish"} => expect = "B"
    BY <1>1, <1>2 DEF Balanced
  <2> QED  BY <1>5, <1>10, <1>11, <2>1, <2>2 DEF Balanced
<1> QED  BY <1>2, <1>5, <1>10, <1>12, <1>13 DEF AssertionsHold, Inv

LEMMA PushedOperator ==
  ASSUME NEW stack \in Stacks, NEW op \in Operators
  PROVE  [stack EXCEPT !.ops = Append(@, op)] = [ops |-> Append(stack.ops, op), vs |-> stack.vs]
<1>1. \A x : [stack EXCEPT !.ops = x] = [ops |-> x, vs |-> stack.vs]
  BY DEF Stacks
<1> QED  BY <1>1

LEMMA NoCallType ==
  /\ NoCall \in [fn : {"none", "push", "close", "finish"}, op : Operators \cup {""}, o2 : Operators \cup {""}]
  /\ NoCall.fn = "none"
BY DEF NoCall, Call

LEMMA PushOperatorInv == Inv /\ PushOperator => Inv'
<1> SUFFICES ASSUME Inv, PushOperator PROVE Inv'
  OBVIOUS
<1>1. TypeOK /\ Balanced /\ OperatorsOrdered
  BY DEF Inv
<1>2. /\ phase = "read" /\ call.fn = "push" /\ ~Looping
      /\ s' = PutTop([Top EXCEPT !.ops = Append(@, call.op)]) /\ call' = NoCall
      /\ UNCHANGED <<text, expect, bracket_cnt, res, phase>>
  BY DEF PushOperator
<1>3. call.op \in Operators /\ (Top.ops # <<>> => call.o2 = LastOp(Top))
  BY <1>1, <1>2 DEF TypeOK
<1>4. Top \in Stacks /\ Ordered(Top.ops)
  BY <1>1, TopStack, TopOrdered
<1> DEFINE stack == [ops |-> Append(Top.ops, call.op), vs |-> Top.vs]
           m == Len(Top.ops)
<1>5. [Top EXCEPT !.ops = Append(@, call.op)] = stack
  BY <1>3, <1>4, PushedOperator
<1>6. /\ Top.ops \in Seq(Operators) /\ m \in Nat
      /\ stack \in Stacks /\ Len(stack.ops) = m + 1 /\ Len(stack.vs) = Len(Top.vs)
      /\ stack.ops[m + 1] = call.op
      /\ \A i \in 1 .. m : stack.ops[i] = Top.ops[i]
  BY <1>3, <1>4 DEF Stacks
<1>7. ASSUME m # 0
      PROVE  p(Top.ops[m]) < p(call.op) \/ (p(Top.ops[m]) = p(call.op) /\ ~l(call.op))
  <2>1. Top.ops # <<>> /\ Top.ops[m] \in Operators
    BY <1>6, <1>7
  <2>2. ~First(Top.ops[m], call.op)
    BY <1>2, <1>3, <2>1 DEF Looping, LastOp
  <2> QED  BY <1>3, <2>1, <2>2, Numbers
<1> HIDE DEF stack
<1>8. Ordered(stack.ops)
  <2> SUFFICES ASSUME NEW i \in 1 .. (Len(stack.ops) - 1)
               PROVE  p(stack.ops[i]) < p(stack.ops[i + 1])
                        \/ (p(stack.ops[i]) = p(stack.ops[i + 1]) /\ ~l(stack.ops[i + 1]))
    BY DEF Ordered
  <2>1. CASE i = m
    BY <1>6, <1>7, <2>1
  <2>2. CASE i # m
    <3>1. i \in 1 .. (m - 1) /\ i \in 1 .. m /\ i + 1 \in 1 .. m
      BY <1>6, <2>2
    <3> QED  BY <1>4, <1>6, <3>1 DEF Ordered
  <2> QED  BY <2>1, <2>2
<1>9. /\ s' \in Seq(Stacks) /\ Len(s') = Len(s) /\ Top' = stack
      /\ \A n \in 1 .. (Len(s') - 1) : Len(s'[n].vs) = Len(s'[n].ops)
      /\ OperatorsOrdered'
  BY <1>1, <1>2, <1>5, <1>6, <1>8, UpdateTop
<1>10. TypeOK'
  BY <1>1, <1>2, <1>9 DEF TypeOK, Stacks, NoCall, Call
<1>11. expect = "P" /\ Len(Top.vs) = m + 1
  BY <1>1, <1>2 DEF Balanced
<1>12. Balanced'
  <2>1. Len(stack.vs) = Len(stack.ops) + 0
    BY <1>6, <1>11
  <2>2. call'.fn = "none"
    BY <1>2, NoCallType
  <2>3. expect' = "P"
    BY <1>2, <1>11
  <2> QED  BY <1>9, <2>1, <2>2, <2>3 DEF Balanced
<1> QED  BY <1>2, <1>9, <1>10, <1>12 DEF AssertionsHold, Inv

(* Brackets are closed over a stack of one operand and no operators.       *)
LEMMA OneOperand ==
  ASSUME Inv, phase = "read", call.fn \in {"close", "finish"}, ~Looping
  PROVE  Len(Top.vs) = 1 /\ Top.vs[1] \in Values /\ expect = "B"
<1>1. Top.ops = <<>>
  BY DEF Looping
<1>2. expect = "B" /\ Len(Top.vs) = Len(Top.ops) + 1
  BY DEF Balanced, Inv
<1>3. Top.vs \in Seq(Values)
  BY TopStack DEF Stacks, Inv
<1>4. Len(Top.ops) = 0
  BY <1>1
<1> QED  BY <1>2, <1>3, <1>4

LEMMA CloseInv == Inv /\ Close => Inv'
<1> SUFFICES ASSUME Inv, Close PROVE Inv'
  OBVIOUS
<1>1. TypeOK /\ Balanced /\ OperatorsOrdered
  BY DEF Inv
<1>2. phase = "read" /\ call.fn = "close" /\ ~Looping
  BY DEF Close
<1>3. Len(Top.vs) = 1 /\ Top.vs[1] \in Values /\ expect = "B"
  BY <1>2, OneOperand
<1> DEFINE below == SubSeq(s, 1, Len(s) - 1)
           stack == PushedValue(below[Len(below)], Top.vs[1])
<1>4. /\ s' = [below EXCEPT ![Len(below)] = stack] /\ call' = NoCall
      /\ bracket_cnt' = bracket_cnt - 1
      /\ UNCHANGED <<text, expect, res, phase>>
  BY <1>3 DEF Close, BracketsLeft
<1>5. bracket_cnt > 0 /\ bracket_cnt \in Nat /\ Len(s) = bracket_cnt + 1 /\ s \in Seq(Stacks)
  BY <1>1, <1>2, Nesting, TopStack DEF TypeOK
<1>6. /\ below \in Seq(Stacks) /\ Len(below) = bracket_cnt
      /\ \A n \in 1 .. bracket_cnt : below[n] = s[n]
  BY <1>5
<1> HIDE DEF below
<1>7. below[Len(below)] = s[bracket_cnt] /\ s[bracket_cnt] \in Stacks
  BY <1>5, <1>6
<1>8. /\ stack \in Stacks /\ stack.ops = s[bracket_cnt].ops
      /\ Len(stack.vs) = Len(s[bracket_cnt].vs) + 1
  BY <1>3, <1>7, PushedStack
<1> HIDE DEF stack
<1>9. /\ s' \in Seq(Stacks) /\ Len(s') = bracket_cnt /\ s'[bracket_cnt] = stack
      /\ \A n \in 1 .. (bracket_cnt - 1) : s'[n] = s[n]
  BY <1>4, <1>5, <1>6, <1>8
<1>10. Top' = stack
  BY <1>9 DEF Top
<1>11. TypeOK'
  <2>1. Len(s') = bracket_cnt' + 1 /\ bracket_cnt' \in Nat
    BY <1>4, <1>5, <1>9
  <2> QED  BY <1>1, <1>4, <1>9, <2>1, NoCallType DEF TypeOK, Stacks
<1>12. Len(s[bracket_cnt].vs) = Len(s[bracket_cnt].ops)
  BY <1>1, <1>2, <1>5 DEF Balanced
<1>13. \A n \in 1 .. (Len(s') - 1) : Len(s'[n].vs) = Len(s'[n].ops)
  BY <1>1, <1>2, <1>5, <1>9 DEF Balanced
<1>14. Balanced'
  BY <1>3, <1>4, <1>8, <1>10, <1>12, <1>13 DEF Balanced, NoCall, Call
<1>15. \A n \in 1 .. Len(s') : Ordered(s'[n].ops)
  <2> TAKE n \in 1 .. Len(s')
  <2>1. CASE n = bracket_cnt
    BY <1>1, <1>5, <1>8, <1>9, <2>1 DEF OperatorsOrdered
  <2>2. CASE n # bracket_cnt
    <3>1. n \in 1 .. (bracket_cnt - 1) /\ n \in 1 .. Len(s)
      BY <1>5, <1>9, <2>2
    <3> QED  BY <1>1, <1>9, <3>1 DEF OperatorsOrdered
  <2> QED  BY <2>1, <2>2
<1>16. OperatorsOrdered'
  BY <1>15 DEF OperatorsOrdered
<1> QED  BY <1>2, <1>4, <1>11, <1>14, <1>16 DEF AssertionsHold, Inv

LEMMA FinishInv == Inv /\ Finish => Inv'
<1> SUFFICES ASSUME Inv, Finish PROVE Inv'
  OBVIOUS
<1>1. TypeOK /\ Balanced /\ OperatorsOrdered
  BY DEF Inv
<1>2. phase = "read" /\ call.fn = "finish" /\ ~Looping
  BY DEF Finish
<1>3. Len(Top.vs) = 1 /\ Top.vs[1] \in Values
  BY <1>2, OneOperand
<1>4. /\ res' = Top.vs[1] /\ s' = PutTop(EmptyStack) /\ phase' = "done" /\ call' = NoCall
      /\ UNCHANGED <<text, expect, bracket_cnt>>
  BY <1>3 DEF Finish
<1>5. s' \in Seq(Stacks) /\ Len(s') = Len(s) /\ OperatorsOrdered'
  BY <1>1, <1>2, <1>4, UpdateTop, EmptyOrdered
<1>6. TypeOK'
  BY <1>1, <1>3, <1>4, <1>5 DEF TypeOK, Stacks, NoCall, Call
<1>7. Balanced'
  BY <1>4 DEF Balanced
<1> QED  BY <1>4, <1>5, <1>6, <1>7 DEF AssertionsHold, Inv

-----------------------------------------------------------------------------

LEMMA InitInv == Init => Inv
<1> SUFFICES ASSUME Init PROVE Inv
  OBVIOUS
<1>1. s = <<EmptyStack>> /\ s \in Seq(Stacks) /\ Len(s) = 1 /\ Top = EmptyStack
  BY EmptyOrdered DEF Init, Top
<1>2. TypeOK
  <2>1. text \in Seq(Tokens) /\ text = <<>>
    BY DEF Init
  <2>2. call = NoCall /\ bracket_cnt = 0 /\ res \in Values /\ phase = "read" /\ expect = "P"
    BY ValuesAssumption DEF Init
  <2>3. /\ text \in Seq({<<t>> : t \in BinaryOps \cup {"(", ")"}} \cup {<<"v", v>> : v \in Operands})
        /\ s \in Seq([ops : Seq(Operators), vs : Seq(Values)])
    BY <1>1, <2>1 DEF Tokens, Stacks
  <2>4. call.fn = "none"
    BY <2>2, NoCallType
  <2>5. call \in [fn : {"none", "push", "close", "finish"}, op : Operators \cup {""}, o2 : Operators \cup {""}]
    BY <2>2, NoCallType
  <2>6. Len(s) = bracket_cnt + 1 /\ bracket_cnt \in Nat
    BY <1>1, <2>2
  <2> QED  BY <2>2, <2>3, <2>4, <2>5, <2>6 DEF TypeOK
<1>3. Balanced
  <2>1. expect = "P" /\ call.fn = "none"
    BY NoCallType DEF Init
  <2>2. Len(Top.vs) = Len(Top.ops) + 0
    BY <1>1, EmptyOrdered
  <2>3. 1 .. (Len(s) - 1) = {}
    BY <1>1
  <2> QED  BY <2>1, <2>2, <2>3 DEF Balanced
<1>4. OperatorsOrdered
  BY <1>1, EmptyOrdered DEF OperatorsOrdered
<1> QED  BY <1>2, <1>3, <1>4 DEF Init, AssertionsHold, Inv

LEMMA NextInv == NoValue \notin Operands /\ Inv /\ [Next]_vars => Inv'
<1> SUFFICES ASSUME NoValue \notin Operands, Inv, [Next]_vars PROVE Inv'
  OBVIOUS
<1>1. CASE Next
  <2>1. CASE Stopped
    BY <2>1 DEF Stopped, vars, Inv, TypeOK, Balanced, OperatorsOrdered, AssertionsHold, Top
  <2> QED  BY <1>1, <2>1, OperandInv, UmInv, UpInv, PoInv, BoInv, PcInv, EndExpressionInv,
              EvalBackInv, PushOperatorInv, CloseInv, FinishInv DEF Next
<1>2. CASE UNCHANGED vars
  BY <1>2 DEF vars, Inv, TypeOK, Balanced, OperatorsOrdered, AssertionsHold, Top
<1> QED  BY <1>1, <1>2

(* Without a VAR in the text the invariant holds; the theorems about the   *)
(* properties of Math follow from it.                                      *)
THEOREM Invariance == ASSUME NoValue \notin Operands PROVE Spec => []Inv
<1>1. Inv /\ [Next]_vars => Inv'
  BY NextInv
<1> QED  BY <1>1, InitInv, PTL DEF Spec

(* math_helpers.cpp:74-96, math/actions.h:66-81: types, and one stack more *)
(* than brackets are open.                                                 *)
THEOREM TypeCorrect == ASSUME NoValue \notin Operands PROVE Spec => []TypeOK
<1>1. Inv => TypeOK
  BY DEF Inv
<1> QED  BY <1>1, Invariance, PTL

(* math_helpers.cpp:49: operands and operators are balanced on every stack *)
(* of an expression of any length.                                         *)
THEOREM StacksBalanced == ASSUME NoValue \notin Operands PROVE Spec => []Balanced
<1>1. Inv => Balanced
  BY DEF Inv
<1> QED  BY <1>1, Invariance, PTL

(* math_helpers.cpp:49, 113, 138, 164 and 172: no assertion fails.         *)
THEOREM NoAssertionFails == ASSUME NoValue \notin Operands PROVE Spec => []AssertionsHold
<1>1. Inv => AssertionsHold
  BY DEF Inv
<1> QED  BY <1>1, Invariance, PTL

(* math_helpers.cpp:79-96: what waits on a stack binds tighter and tighter.*)
THEOREM PrecedenceKept == ASSUME NoValue \notin Operands PROVE Spec => []OperatorsOrdered
<1>1. Inv => OperatorsOrdered
  BY DEF Inv
<1> QED  BY <1>1, Invariance, PTL
=============================================================================
