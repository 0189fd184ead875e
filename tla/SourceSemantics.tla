---------------------------- MODULE SourceSemantics ----------------------------
(***************************************************************************)
(* What a ULang program means: its global statements are executed once, in *)
(* the order in which they stand, each giving the value of its expression  *)
(* to its variable.  A program is written first and runs then.  Values are *)
(* those of a type of the source language, modulo Modulus; the operators   *)
(* are the four of BinopType (compiler.hpp).                               *)
(*                                                                         *)
(* An expression is its syntax tree in post-order.  Statements that give   *)
(* no variable a value (a declaration alone, an expression alone, the      *)
(* definition of a function nobody calls) have no effect and are not part  *)
(* of the source.                                                          *)
(***************************************************************************)
EXTENDS Integers, Sequences

CONSTANT Modulus     \* 2^32 for an int32 of the source

VARIABLES
    source,          \* statements with an effect, in order
    next,            \* the next statement to execute; 0 while being written
    env              \* values of the variables that have one

sourceVars == <<source, next, env>>

Num(v) == [kind |-> "NUMBER", arg |-> v]
Var(s) == [kind |-> "VARIABLE", arg |-> s]
Op(o)  == [kind |-> "BINOP", arg |-> o]

Statement(target, expr) == [target |-> target, expr |-> expr]

ApplyOp(op, x, y) ==
    CASE op = "ADD" -> (x + y) % Modulus
      [] op = "SUB" -> (x - y) % Modulus
      [] op = "MUL" -> (x * y) % Modulus
      [] op = "DIV" -> x \div y

\* One node of the tree: its operands are on the stack by then.
ApplyNode(values, stack, node) ==
    LET n == Len(stack)
    IN  CASE node.kind = "NUMBER"   -> Append(stack, node.arg % Modulus)
          [] node.kind = "VARIABLE" -> Append(stack, values[node.arg])
          [] node.kind = "BINOP"    ->
                Append(SubSeq(stack, 1, n - 2), ApplyOp(node.arg, stack[n - 1], stack[n]))

\* The value that is left when the last node has been applied.
Value(values, expr) ==
    LET Stack[n \in 0 .. Len(expr)] ==
          IF n = 0 THEN <<>> ELSE ApplyNode(values, Stack[n - 1], expr[n])
        final == Stack[Len(expr)]
    IN  final[Len(final)]

Init == source = <<>> /\ next = 0 /\ env = [x \in {} |-> 0]

Write ==
    /\ next = 0
    /\ Len(source') = Len(source) + 1
    /\ SubSeq(source', 1, Len(source)) = source
    /\ UNCHANGED <<next, env>>

Start == next = 0 /\ next' = 1 /\ UNCHANGED <<source, env>>

Execute ==
    /\ next \in DOMAIN source
    /\ LET st == source[next]
       IN  env' = [x \in DOMAIN env \cup {st.target} |->
                      IF x = st.target THEN Value(env, st.expr) ELSE env[x]]
    /\ next' = next + 1
    /\ UNCHANGED source

Next == Write \/ Start \/ Execute

Spec == Init /\ [][Next]_sourceVars

\* A program that has been started runs to its end; writing one may stop.
Completes == next > 0 ~> next = Len(source) + 1
=============================================================================
