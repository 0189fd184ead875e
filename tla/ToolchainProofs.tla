---------------------------- MODULE ToolchainProofs ----------------------------
(***************************************************************************)
(* The compiled program implements the source program, for every program   *)
(* that `Supported' describes and every value of the constants: ToolSpec   *)
(* implements SourceSemantics under the mapping in Toolchain.              *)
(*                                                                         *)
(* The compiler leaves behind a record of its code: which expression's     *)
(* value each temporary holds behind each instruction, and how many        *)
(* statements are done there (Certifies).  CompiledInv says that there is  *)
(* such a record of what has been emitted so far, and RunInv that the      *)
(* registers of the machine agree with it wherever the counter stands.     *)
(***************************************************************************)
EXTENDS Toolchain, CodeGenProofs, VMProofs, FiniteSetTheorems

-----------------------------------------------------------------------------
(***************************************************************************)
(* Values of expressions.  An expression evaluates to v if its nodes, from *)
(* any stack on, leave that stack with v on top: so that what holds of the *)
(* operands of an operator holds of the operation.                         *)
(***************************************************************************)
Nodes == [kind : {"NUMBER", "VARIABLE", "BINOP", "CALL"}, arg : Int \cup Opcodes]

Runs(values, e, f, s, v) ==
    /\ f[0] = s /\ f[Len(e)] = Append(s, v)
    /\ \A n \in 1 .. Len(e) : f[n] = Source!ApplyNode(values, f[n - 1], e[n])

Evaluates(values, e, v) ==
    /\ v \in Int
    /\ \A s \in Seq(Int) : \E f : Runs(values, e, f, s, v)

\* A node that pushes a value, alone.
LEMMA OneNode ==
    ASSUME NEW values, NEW node, NEW v \in Int,
           \A s \in Seq(Int) : Source!ApplyNode(values, s, node) = Append(s, v)
    PROVE  Evaluates(values, <<node>>, v)
<1> SUFFICES ASSUME NEW s \in Seq(Int)
             PROVE  \E f : Runs(values, <<node>>, f, s, v)
  BY DEF Evaluates
<1> DEFINE f == [n \in 0 .. 1 |-> IF n = 0 THEN s ELSE Append(s, v)]
<1>1. Len(<<node>>) = 1 /\ <<node>>[1] = node
  OBVIOUS
<1>2. f[0] = s /\ f[1] = Append(s, v)
  OBVIOUS
<1>3. \A n \in 1 .. 1 : n = 1 /\ n - 1 = 0
  OBVIOUS
<1> HIDE DEF f
<1> QED
  BY <1>1, <1>2, <1>3 DEF Runs

\* A literal has its own value, as far as the type goes.
LEMMA NumberValue ==
    ASSUME NEW values, NEW v \in Nat
    PROVE  Evaluates(values, <<Node("NUMBER", v)>>, v % Modulus)
<1>1. v % Modulus \in Int
  BY ToolchainAssumption, Division
<1>2. \A s \in Seq(Int) :
        Source!ApplyNode(values, s, Node("NUMBER", v)) = Append(s, v % Modulus)
  BY DEF Source!ApplyNode, Node
<1> QED
  BY <1>1, <1>2, OneNode

\* A variable has the value that it has been given.
LEMMA VariableValue ==
    ASSUME NEW values, NEW x, values[x] \in Int
    PROVE  Evaluates(values, <<Node("VARIABLE", x)>>, values[x])
<1>1. \A s \in Seq(Int) :
        Source!ApplyNode(values, s, Node("VARIABLE", x)) = Append(s, values[x])
  BY DEF Source!ApplyNode, Node
<1> QED
  BY <1>1, OneNode

\* An operator is applied to the values of its operands.
LEMMA OperationValue ==
    ASSUME NEW values, NEW a \in Seq(Nodes), NEW b \in Seq(Nodes), NEW op \in Opcodes,
           NEW x, NEW y, Evaluates(values, a, x), Evaluates(values, b, y),
           Source!ApplyOp(op, x, y) \in Int
    PROVE  Evaluates(values, a \o b \o <<Node("BINOP", op)>>, Source!ApplyOp(op, x, y))
<1> DEFINE e == a \o b \o <<Node("BINOP", op)>>
           v == Source!ApplyOp(op, x, y)
<1> SUFFICES ASSUME NEW s \in Seq(Int)
             PROVE  \E f : Runs(values, e, f, s, v)
  BY DEF Evaluates
<1>1. x \in Int /\ y \in Int
  BY DEF Evaluates
<1>2. PICK f : Runs(values, a, f, s, x)
  BY DEF Evaluates
<1>3. Append(s, x) \in Seq(Int)
  BY <1>1
<1>4. PICK g : Runs(values, b, g, Append(s, x), y)
  BY <1>3 DEF Evaluates
<1>5. PICK m \in Nat, n \in Nat : m = Len(a) /\ n = Len(b)
  OBVIOUS
<1>6. /\ Len(e) = m + n + 1
      /\ \A i \in 1 .. m : e[i] = a[i]
      /\ \A i \in m + 1 .. m + n : e[i] = b[i - m]
      /\ e[m + n + 1] = Node("BINOP", op)
  <2>1. Node("BINOP", op) \in Nodes
    BY DEF Nodes, Node
  <2>2. a \o b \in Seq(Nodes) /\ Len(a \o b) = m + n
    BY <1>5
  <2> QED
    BY <1>5, <2>1, <2>2
<1> DEFINE h == [i \in 0 .. m + n + 1 |-> IF i <= m THEN f[i]
                                          ELSE IF i <= m + n THEN g[i - m] ELSE Append(s, v)]
<1> HIDE DEF e
<1>7. h[0] = s /\ h[m + n + 1] = Append(s, v)
  BY <1>2, <1>5 DEF Runs
<1>8. h[m + n] = Append(Append(s, x), y)
  <2>1. CASE n = 0
    BY <1>2, <1>4, <1>5, <2>1 DEF Runs
  <2>2. CASE n > 0
    <3>1. m + n \in 0 .. m + n + 1 /\ ~(m + n <= m) /\ (m + n) - m = n
      BY <2>2
    <3>2. h[m + n] = g[n]
      BY <3>1
    <3> HIDE DEF h, v
    <3>3. g[Len(b)] = Append(Append(s, x), y)
      BY <1>4 DEF Runs
    <3> QED
      BY <1>5, <3>2, <3>3
  <2> HIDE DEF h, v
  <2>3. n = 0 \/ n > 0
    OBVIOUS
  <2> QED
    BY <2>1, <2>2, <2>3
<1>9. ASSUME NEW i \in 1 .. m + n + 1
      PROVE  h[i] = Source!ApplyNode(values, h[i - 1], e[i])
  <2>1. CASE i \in 1 .. m
    BY <1>2, <1>5, <1>6, <2>1 DEF Runs
  <2>2. CASE i \in m + 1 .. m + n
    <3>1. i - m \in 1 .. n /\ h[i] = g[i - m] /\ e[i] = b[i - m]
      BY <1>6, <2>2
    <3>2. h[i - 1] = g[(i - m) - 1]
      <4>1. CASE i = m + 1
        <5>1. i - 1 = m /\ (i - m) - 1 = 0
          BY <4>1
        <5>2. h[m] = f[m]
          OBVIOUS
        <5> HIDE DEF h
        <5> QED
          BY <1>2, <1>4, <1>5, <5>1, <5>2 DEF Runs
      <4>2. CASE i # m + 1
        BY <2>2, <4>2
      <4> QED
        BY <4>1, <4>2
    <3> HIDE DEF h
    <3> QED
      BY <1>4, <1>5, <3>1, <3>2 DEF Runs
  <2>3. CASE i = m + n + 1
    <3> DEFINE st == Append(Append(s, x), y)
    <3>1. /\ Len(st) = Len(s) + 2 /\ Len(s) \in Nat
          /\ st[Len(s) + 1] = x /\ st[Len(s) + 2] = y
      BY <1>1
    <3>2. SubSeq(st, 1, Len(s)) = s
      BY <1>1
    <3>3. Source!ApplyNode(values, st, Node("BINOP", op)) = Append(s, v)
      <4> HIDE DEF st
      <4>1. Len(st) - 2 = Len(s) /\ Len(st) - 1 = Len(s) + 1
        BY <3>1
      <4> QED
        BY <3>1, <3>2, <4>1 DEF Source!ApplyNode, Node
    <3> HIDE DEF h
    <3>4. i - 1 = m + n
      BY <2>3
    <3> QED
      BY <1>6, <1>7, <1>8, <2>3, <3>3, <3>4
  <2> QED
    BY <2>1, <2>2, <2>3
<1> HIDE DEF h
<1> QED
  BY <1>6, <1>7, <1>9 DEF Runs

\* What an expression evaluates to is its value (SourceSemantics).
LEMMA ValueIs ==
    ASSUME NEW values, NEW e \in Seq(Nodes), NEW v, Evaluates(values, e, v)
    PROVE  Source!Value(values, e) = v
<1> DEFINE Stacks(f) == f = [n \in 0 .. Len(e) |->
                IF n = 0 THEN <<>> ELSE Source!ApplyNode(values, f[n - 1], e[n])]
<1>1. PICK f : Runs(values, e, f, <<>>, v)
  <2>1. <<>> \in Seq(Int)
    OBVIOUS
  <2> QED
    BY <2>1 DEF Evaluates
<1>2. PICK m \in Nat : m = Len(e)
  OBVIOUS
<1> DEFINE F == [n \in 0 .. m |-> f[n]]
<1>3. Stacks(F)
  <2> DEFINE N(h, n) == IF n = 0 THEN <<>> ELSE Source!ApplyNode(values, h[n - 1], e[n])
  <2>1. ASSUME NEW n \in 0 .. m PROVE f[n] = N(F, n)
    <3>1. CASE n = 0
      BY <1>1, <3>1 DEF Runs
    <3>2. CASE n # 0
      <4>1. n \in 1 .. m /\ n - 1 \in 0 .. m
        BY <3>2
      <4> QED
        BY <1>1, <1>2, <3>2, <4>1 DEF Runs
    <3> QED
      BY <3>1, <3>2
  <2>2. F = [n \in 0 .. m |-> N(F, n)]
    <3> HIDE DEF N
    <3> QED
      BY <2>1
  <2> QED
    BY <1>2, <2>2
<1> DEFINE G == CHOOSE g : Stacks(g)
<1>4. Stacks(G)
  <2> HIDE DEF F, Stacks
  <2> QED
    BY <1>3
<1>5. Source!Value(values, e) = G[Len(e)][Len(G[Len(e)])]
  BY DEF Source!Value
<1> HIDE DEF G
<1> DEFINE S == {n \in 0 .. m : G[n] = f[n]}
<1>6. 0 \in S
  BY <1>1, <1>2, <1>4 DEF Runs
<1>7. ASSUME NEW n \in 0 .. m - 1, n \in S PROVE n + 1 \in S
  <2>1. n + 1 \in 1 .. m /\ (n + 1) - 1 = n /\ n + 1 # 0 /\ n + 1 \in 0 .. m
    BY <1>2
  <2>2. G[n + 1] = Source!ApplyNode(values, G[n], e[n + 1])
    BY <1>2, <1>4, <2>1
  <2>3. f[n + 1] = Source!ApplyNode(values, f[n], e[n + 1])
    BY <1>1, <1>2, <2>1 DEF Runs
  <2> QED
    BY <1>7, <2>1, <2>2, <2>3
<1>8. m \in S
  <2> HIDE DEF S
  <2>1. \A n \in 0 .. m : n \in S
    BY <1>6, <1>7, UpTo
  <2> QED
    BY <1>2, <2>1
<1>9. G[Len(e)] = Append(<<>>, v)
  BY <1>1, <1>2, <1>8 DEF Runs
<1> QED
  BY <1>5, <1>9

-----------------------------------------------------------------------------
(***************************************************************************)
(* A register holds a word, of which the source's type has the remainder.  *)
(***************************************************************************)

\* The remainder of a remainder.
LEMMA Remainders ==
    ASSUME NEW m \in Nat, m > 0, NEW q \in Nat, q > 0, NEW z \in Int
    PROVE  (z % (m * q)) % m = z % m
<1>1. PICK w \in Nat : w > 0 /\ w = m * q
  OBVIOUS
<1>2. PICK h \in Int, r \in Int : z = w * h + r /\ r = z % w
  BY <1>1, Division
<1>3. z = r + m * (q * h) /\ q * h \in Int
  BY <1>1, <1>2
<1>4. (r + m * (q * h)) % m = r % m
  BY <1>2, <1>3, SameRemainder
<1> QED
  BY <1>1, <1>2, <1>3, <1>4

\* Sums, differences and products of remainders.
LEMMA SumRemainder ==
    ASSUME NEW m \in Nat, m > 0, NEW x \in Int, NEW y \in Int
    PROVE  /\ (x + y) % m = ((x % m) + (y % m)) % m
           /\ (x - y) % m = ((x % m) - (y % m)) % m
           /\ (x * y) % m = ((x % m) * (y % m)) % m
<1>1. PICK a \in Int, r \in Int : x = m * a + r /\ r = x % m
  BY Division, SMTT(30)
<1>2. PICK b \in Int, s \in Int : y = m * b + s /\ s = y % m
  BY Division, SMTT(30)
<1>3. /\ x + y = (r + s) + m * (a + b) /\ r + s \in Int /\ a + b \in Int
      /\ x - y = (r - s) + m * (a - b) /\ r - s \in Int /\ a - b \in Int
  BY <1>1, <1>2
<1>4. PICK u \in Int, w \in Int, k \in Int : u = a * y /\ w = r * b /\ k = u + w
  BY <1>1, <1>2
<1>5. x * y = r * s + m * k /\ r * s \in Int
  <2>1. x * y = m * (a * y) + r * y
    BY <1>1
  <2>2. r * y = m * (r * b) + r * s
    BY <1>1, <1>2
  <2>3. m * k = m * u + m * w
    BY <1>4
  <2>4. PICK i \in Int, j \in Int, l \in Int : i = m * u /\ j = m * w /\ l = r * s
    BY <1>1, <1>2, <1>4
  <2>5. r * y = j + l
    BY <1>4, <2>2, <2>4
  <2>6. x * y = i + r * y
    BY <1>4, <2>1, <2>4
  <2>7. x * y = i + (j + l)
    BY <2>5, <2>6
  <2>8. m * k = i + j
    BY <2>3, <2>4
  <2> QED
    BY <2>4, <2>7, <2>8
<1>6. (r + s + m * (a + b)) % m = (r + s) % m
  BY <1>3, SameRemainder
<1>7. ((r - s) + m * (a - b)) % m = (r - s) % m
  BY <1>3, SameRemainder
<1>8. (r * s + m * k) % m = (r * s) % m
  BY <1>5, SameRemainder
<1> QED
  BY <1>1, <1>2, <1>3, <1>5, <1>6, <1>7, <1>8

\* A word holds a value of the type several times.
LEMMA ModulusDividesWord ==
    /\ Modulus \in Nat /\ Modulus > 0
    /\ \E q \in Nat : q > 0 /\ Word = Modulus * q
<1>1. Modulus \in Nat /\ Modulus > 0 /\ Word % Modulus = 0 /\ Word \in Nat /\ Word > 0
  BY ToolchainAssumption, WordNumbers
<1>2. PICK q \in Int : Word = Modulus * q
  BY <1>1, Division
<1>3. q > 0
  <2>1. q <= 0 => Modulus * q <= 0
    BY <1>1
  <2> QED
    BY <1>1, <1>2, <2>1
<1> QED
  BY <1>1, <1>2, <1>3

\* The machine computes modulo a word, the source modulo the type.
LEMMA ComputedValue ==
    ASSUME NEW op \in {"ADD", "SUB", "MUL"}, NEW x \in Int, NEW y \in Int
    PROVE  Compute(op, x, y) % Modulus = Source!ApplyOp(op, x % Modulus, y % Modulus)
<1>1. PICK q \in Nat : q > 0 /\ Word = Modulus * q
  BY ModulusDividesWord
<1>2. x + y \in Int /\ x - y \in Int /\ x * y \in Int
  OBVIOUS
<1>3. \A z \in Int : (z % Word) % Modulus = z % Modulus
  BY <1>1, ModulusDividesWord, Remainders
<1>4. CASE op = "ADD"
  <2>1. Compute(op, x, y) % Modulus = (x + y) % Modulus
    BY <1>2, <1>3, <1>4 DEF Compute
  <2>2. Source!ApplyOp(op, x % Modulus, y % Modulus) = ((x % Modulus) + (y % Modulus)) % Modulus
    BY <1>4 DEF Source!ApplyOp
  <2> QED
    BY <2>1, <2>2, ModulusDividesWord, SumRemainder
<1>5. CASE op = "SUB"
  <2>1. Compute(op, x, y) % Modulus = (x - y) % Modulus
    BY <1>2, <1>3, <1>5 DEF Compute
  <2>2. Source!ApplyOp(op, x % Modulus, y % Modulus) = ((x % Modulus) - (y % Modulus)) % Modulus
    BY <1>5 DEF Source!ApplyOp
  <2> QED
    BY <2>1, <2>2, ModulusDividesWord, SumRemainder
<1>6. CASE op = "MUL"
  <2>1. Compute(op, x, y) % Modulus = (x * y) % Modulus
    BY <1>2, <1>3, <1>6 DEF Compute
  <2>2. Source!ApplyOp(op, x % Modulus, y % Modulus) = ((x % Modulus) * (y % Modulus)) % Modulus
    BY <1>6 DEF Source!ApplyOp
  <2> QED
    BY <2>1, <2>2, ModulusDividesWord, SumRemainder
<1> QED
  BY <1>4, <1>5, <1>6

\* An operand's datum is wide enough for the type.
LEMMA ImmediateValue ==
    ASSUME NEW n \in 1 .. ImmBytes, Modulus = Power(n), NEW v \in Nat
    PROVE  (v % Immediate) % Modulus = v % Modulus
<1>1. n \in 0 .. WordBytes /\ ImmBytes \in n .. WordBytes
  BY VMAssumption
<1>2. PICK q \in Nat : q > 0 /\ Immediate = Modulus * q
  BY <1>1, Powers, PowerDivides
<1>3. Modulus \in Nat /\ Modulus > 0 /\ v \in Int
  BY ModulusDividesWord
<1>4. (v % (Modulus * q)) % Modulus = v % Modulus
  BY <1>2, <1>3, Remainders
<1> QED
  BY <1>2, <1>4

\* What is loaded is, as far as the source's type goes, what memory has there.
LEMMA LoadedValue ==
    ASSUME VMTypeOK, NEW a \in Nat, a + WordBytes <= HeapSize, NEW val \in HeapWords(a),
           NEW n \in 0 .. WordBytes
    PROVE  val % Power(n) = WordAt(heap, a) % Power(n)
<1> DEFINE beyond == {b \in a .. a + WordBytes - 1 : b >= HeapSize}
<1>1. beyond = {}
  BY VMAssumption
<1>2. PICK past : val = WordAt([b \in a .. a + WordBytes - 1 |->
                                  IF b \in beyond THEN past[b] ELSE heap[b]], a)
  BY DEF HeapWords
<1> DEFINE memory == [b \in a .. a + WordBytes - 1 |->
                         IF b \in beyond THEN past[b] ELSE heap[b]]
<1>3. \A b \in a .. a + WordBytes - 1 : memory[b] = heap[b] /\ heap[b] \in 0 .. Base - 1
  <2>1. \A b \in a .. a + WordBytes - 1 : b \in HeapBytes
    BY VMAssumption DEF HeapBytes
  <2> QED
    BY <1>1, <2>1 DEF VMTypeOK
<1>4. \A b \in a .. a + n - 1 : b \in a .. a + WordBytes - 1
  BY VMAssumption
<1>5. val = WordAt(memory, a)
  BY <1>2
<1> HIDE DEF memory
<1>6. WordAt(memory, a) % Power(n) = WordAt(heap, a) % Power(n)
  BY <1>3, <1>4, LowBytes
<1> QED
  BY <1>5, <1>6

-----------------------------------------------------------------------------
(***************************************************************************)
(* The compiler in the toolchain takes the steps of CodeGen, so that what  *)
(* CodeGenProofs shows of every compilation holds here.                    *)
(***************************************************************************)
LEMMA CompilerSteps ==
    /\ ToolInit => Init
    /\ [ToolNext]_toolVars => [Next]_vars
<1>1. ToolInit => Init
  BY DEF ToolInit
<1>2. ASSUME [ToolNext]_toolVars PROVE [Next]_vars
  <2>1. CASE Compile
    <3>1. Number => Next
      BY DEF Number, Next
    <3>2. Variable => Next
      BY DEF Variable, Next
    <3>3. Binop => Next
      BY DEF Binop, Next
    <3>4. Call => Next
      <4>1. 0 \in 0 .. MaxArgs
        BY CodeGenAssumption
      <4> QED
        BY <4>1 DEF Call, Next
    <3>5. Initialisation => Next
      BY DEF Initialisation, Next
    <3>6. NoEffect => Next
      BY DEF NoEffect, Next
    <3>7. Layout => Next
      BY DEF Layout, Next
    <3>8. Fail => Next
      BY DEF Fail, Next
    <3> QED
      BY <2>1, <3>1, <3>2, <3>3, <3>4, <3>5, <3>6, <3>7, <3>8 DEF Compile
  <2>2. CASE Load
    BY <2>2 DEF Load
  <2>3. CASE Run
    BY <2>3 DEF Run
  <2>4. CASE UNCHANGED toolVars
    BY <2>4 DEF toolVars
  <2> QED
    BY <1>2, <2>1, <2>2, <2>3, <2>4 DEF ToolNext
<1> QED
  BY <1>1, <1>2

\* Hence CodeGen's theorems hold of the toolchain's compiler.
LEMMA CompilerBehaves == ToolSpec => Spec
BY CompilerSteps, PTL DEF ToolSpec, Spec

-----------------------------------------------------------------------------
(***************************************************************************)
(* The programs the refinement is about.  DIV is left out, which clobbers  *)
(* the first temporary, as are the constructs whose values the compiler    *)
(* gets wrong: two immediates, an immediate on the left, and a call whose  *)
(* result a variable gets.  Of the variables of the global code, each has  *)
(* one offset and lies behind those declared before it, by as many bytes   *)
(* as its values take; the words at their offsets lie in the heap.         *)
(***************************************************************************)
Globals == {s \in Symbols : s \notin Fns \cup Params /\ Owner[s] = 0}

Offset(s) == CHOOSE o \in Offsets[s] : TRUE

Placed(n) ==
    /\ Modulus = Power(n)
    /\ \A s \in Globals : Offsets[s] = {Offset(s)} /\ Offset(s) + WordBytes <= HeapSize
    /\ \A s, t \in Globals : s < t => Offset(s) + n <= Offset(t)

Supported ==
    /\ Ops \subseteq {"ADD", "SUB", "MUL"}
    /\ "global" \notin TwoImmediates \cup ImmediateLeft \cup CallResults
    /\ MaxCode + 2 < Word
    /\ HeapContents \subseteq [HeapBytes -> 0 .. Base - 1]
    /\ Inputs \subseteq Seq(0 .. Base - 1)
    /\ \E n \in 1 .. ImmBytes : Placed(n)

-----------------------------------------------------------------------------
(***************************************************************************)
(* What the compiler emits: no instruction that moves sp or reads a        *)
(* character, and none that names a register but the temporaries and the   *)
(* one of results.                                                         *)
(***************************************************************************)
UsedOpcodes == Ops \cup {"JMP", "LD", "MOV", "ST", "CALL", "RET", "HALT"}

Ordinary(o) == o \in Operand /\ (IsReg(o) => o.data \in R_TMP0 .. R_FNR)

Plain(i) ==
    /\ i.opcode \in UsedOpcodes
    /\ Ordinary(i.b)
    /\ i.opcode # "CALL" => Ordinary(i.a)

CodeInv ==
    /\ \A c \in DOMAIN code : Plain(code[c])
    /\ \A k \in DOMAIN pending : Ordinary(pending[k].operand)
    /\ Len(code) <= MaxCode + (IF phase = "done" THEN 2 ELSE 1)

\* The operands that the compiler makes.
LEMMA OrdinaryOperands ==
    /\ Ordinary(Null) /\ Ordinary(Reg(R_FNR))
    /\ \A v \in Nat : Ordinary(Imm(v)) /\ Ordinary(Ref(v))
    /\ \A i \in Tmps : Ordinary(TmpReg(i))
<1>1. /\ ~IsReg(Null) /\ Reg(R_FNR).data \in R_TMP0 .. R_FNR
      /\ \A v \in Nat : ~IsReg(Imm(v)) /\ ~IsReg(Ref(v))
  BY DEF Null, Reg, Imm, Ref, IsReg, R_TMP0, R_FNR
<1>2. \A i \in Tmps : TmpReg(i).data \in R_TMP0 .. R_FNR
  BY CodeGenAssumption DEF TmpReg, Reg, Tmps, R_TMP0, R_FNR
<1> QED
  BY <1>1, <1>2, OperandTypes1 DEF Ordinary

\* An instruction is as plain as its operands.
LEMMA PlainInstruction ==
    ASSUME NEW opcode \in UsedOpcodes, NEW a, NEW b,
           Ordinary(a) \/ opcode = "CALL", Ordinary(b)
    PROVE  Plain(Instr(opcode, a, b))
BY DEF Plain, Instr

\* Results pushed on what is left of the pending ones.
LEMMA PushedOrdinary ==
    ASSUME TypeOK, NEW n \in 0 .. Len(pending), NEW r \in Results,
           \A k \in DOMAIN pending : Ordinary(pending[k].operand),
           Ordinary(r.operand),
           pending' = Append(SubSeq(pending, 1, n), r)
    PROVE  \A k \in DOMAIN pending' : Ordinary(pending'[k].operand)
<1> DEFINE front == SubSeq(pending, 1, n)
<1>1. /\ front \in Seq(Results) /\ Len(front) = n /\ DOMAIN pending = 1 .. Len(pending)
      /\ \A k \in 1 .. n : front[k] = pending[k]
      /\ Len(pending) \in Nat
  BY PrefixOf DEF TypeOK
<1> HIDE DEF front
<1>2. /\ DOMAIN pending' = 1 .. n + 1
      /\ \A k \in 1 .. n : pending'[k] = front[k]
      /\ pending'[n + 1] = r
  BY <1>1, AppendProperties DEF front
<1>3. ASSUME NEW k \in DOMAIN pending' PROVE Ordinary(pending'[k].operand)
  <2>1. CASE k = n + 1
    BY <1>2, <2>1
  <2>2. CASE k \in 1 .. n
    BY <1>1, <1>2, <2>2
  <2> QED
    BY <1>2, <2>1, <2>2
<1> QED
  BY <1>3

\* No instruction the compiler emits is out of the ordinary (compileNode).
LEMMA CodeIsPlain == ToolSpec => []CodeInv
<1>1. Init => CodeInv
  <2>1. ASSUME Init PROVE Plain(code[1]) /\ DOMAIN code = {1} /\ Len(code) = 1
    <3>1. Plain(Instr("JMP", Null, Null))
      BY OrdinaryOperands, PlainInstruction DEF UsedOpcodes
    <3> QED
      BY <2>1, <3>1 DEF Init
  <2>2. ASSUME Init PROVE CodeInv
    <3>1. Len(code) <= MaxCode + 1 /\ phase # "done" /\ pending = <<>>
      BY <2>1, <2>2, CodeGenAssumption DEF Init
    <3>2. \A c \in DOMAIN code : Plain(code[c])
      BY <2>1, <2>2
    <3>3. \A k \in DOMAIN pending : FALSE
      BY <3>1
    <3> QED
      BY <3>1, <3>2, <3>3 DEF CodeInv
  <2> QED
    BY <2>2
<1>2. TypeOK /\ CodeInv /\ [Next]_vars => CodeInv'
  <2> SUFFICES ASSUME TypeOK, CodeInv, [Next]_vars PROVE CodeInv'
    OBVIOUS
  <2>1. /\ code \in Seq(Emitted) /\ Len(code) \in Nat /\ DOMAIN code = 1 .. Len(code)
        /\ Len(pending) \in Nat /\ MaxCode \in Nat
        /\ \A k \in 1 .. Len(pending) : /\ pending[k] \in Results
                                       /\ pending[k].operand \in Operand
                                       /\ pending[k].type \in Types \cup {"none"}
                                       /\ Ordinary(pending[k].operand)
    BY PendingType, CodeGenAssumption DEF TypeOK, Results, CodeInv
  <2>2. Len(code) <= MaxCode + 2 /\ (phase # "done" => Len(code) <= MaxCode + 1)
    BY <2>1 DEF CodeInv
  <2>3. ASSUME NEW more \in Seq(Emitted), Emit(more), \A k \in DOMAIN more : Plain(more[k]),
               Len(code) + Len(more) <= MaxCode + (IF phase' = "done" THEN 2 ELSE 1),
               \A k \in DOMAIN pending' : Ordinary(pending'[k].operand)
        PROVE  CodeInv'
    <3>1. code' = code \o more
      BY <2>3 DEF Emit
    <3>2. /\ DOMAIN code' = 1 .. (Len(code) + Len(more)) /\ Len(more) \in Nat
          /\ Len(code') = Len(code) + Len(more)
          /\ \A n \in 1 .. Len(code) : code'[n] = code[n]
          /\ \A n \in (Len(code) + 1) .. (Len(code) + Len(more)) :
                \E k \in DOMAIN more : code'[n] = more[k]
      BY <2>1, <3>1, EmitExtends
    <3>3. ASSUME NEW n \in DOMAIN code' PROVE Plain(code'[n])
      <4>1. CASE n \in 1 .. Len(code)
        BY <2>1, <3>2, <4>1 DEF CodeInv
      <4>2. CASE n \in (Len(code) + 1) .. (Len(code) + Len(more))
        BY <2>3, <3>2, <4>2
      <4> QED
        BY <2>1, <3>2, <4>1, <4>2
    <3> QED
      BY <2>3, <3>2, <3>3 DEF CodeInv
  <2>4. ASSUME NEW i \in Emitted, Plain(i), Emit(<<i>>), Room(1), phase' = phase,
               \A k \in DOMAIN pending' : Ordinary(pending'[k].operand)
        PROVE  CodeInv'
    <3>1. <<i>> \in Seq(Emitted) /\ Len(<<i>>) = 1 /\ \A k \in DOMAIN <<i>> : <<i>>[k] = i
      OBVIOUS
    <3>2. Len(code) + 1 <= MaxCode + (IF phase' = "done" THEN 2 ELSE 1)
      BY <2>1, <2>4 DEF Room
    <3> QED
      BY <2>3, <2>4, <3>1, <3>2
  <2>5. ASSUME NEW i \in Emitted, NEW j \in Emitted, Plain(i), Plain(j), Emit(<<i, j>>),
               Room(2), phase' = phase,
               \A k \in DOMAIN pending' : Ordinary(pending'[k].operand)
        PROVE  CodeInv'
    <3>1. /\ <<i, j>> \in Seq(Emitted) /\ Len(<<i, j>>) = 2
          /\ \A k \in DOMAIN <<i, j>> : <<i, j>>[k] \in {i, j}
      OBVIOUS
    <3>2. Len(code) + 2 <= MaxCode + (IF phase' = "done" THEN 2 ELSE 1)
      BY <2>1, <2>5 DEF Room
    <3> QED
      BY <2>3, <2>5, <3>1, <3>2
  <2>6. ASSUME UNCHANGED <<phase, code>>, \A k \in DOMAIN pending' : Ordinary(pending'[k].operand)
        PROVE  CodeInv'
    BY <2>6 DEF CodeInv
  <2>7. ASSUME UNCHANGED code, phase' # "done", phase # "done", UNCHANGED pending PROVE CodeInv'
    BY <2>7 DEF CodeInv
  <2>8. CASE Abort /\ phase # "done"
    BY <2>7, <2>8 DEF Abort
  <2>9. Ops \subseteq Opcodes /\ Ops \subseteq UsedOpcodes
    BY CodeGenAssumption DEF Arithmetic, Opcodes, UsedOpcodes
  <2>10. /\ {"JMP", "LD", "MOV", "ST", "CALL", "RET", "HALT"} \subseteq UsedOpcodes
         /\ {"JMP", "LD", "MOV", "ST", "CALL", "RET", "HALT"} \subseteq Opcodes
    BY DEF UsedOpcodes, Opcodes
  <2>11. ASSUME ConsumeLast
         PROVE  /\ Ordinary(Last.operand) /\ Last.operand \in Operand
                /\ \A k \in DOMAIN pending' : Ordinary(pending'[k].operand)
    <3>1. pending' = <<>> /\ Len(pending) = 1
      BY <2>11 DEF ConsumeLast
    <3> QED
      BY <2>1, <3>1 DEF Last
  <2>12. ASSUME NEW v \in Literals, CompileNumber(v) PROVE CodeInv'
    <3> DEFINE r == Result(Imm(v), "int32", Len(code))
    <3>1. r \in Results /\ Ordinary(r.operand)
      BY <2>1, CodeGenAssumption, OperandTypes1, OrdinaryOperands DEF Result, Results
    <3>2. pending' = Append(SubSeq(pending, 1, Len(pending)), r)
      BY <2>12 DEF CompileNumber, Push, TypeOK
    <3>3. \A k \in DOMAIN pending' : Ordinary(pending'[k].operand)
      <4> HIDE DEF r
      <4> QED
        BY <2>1, <3>1, <3>2, PushedOrdinary DEF CodeInv
    <3> QED
      BY <2>6, <2>12, <3>3 DEF CompileNumber
  <2>13. ASSUME NEW s \in Symbols, CompileVariable(s) PROVE CodeInv'
    <3>1. PICK i \in Tmps, o \in Offsets[s], t \in TypesOf[s] :
              /\ Emit(<<Instr("LD", TmpReg(i), Ref(o))>>)
              /\ Push(Result(TmpReg(i), t, Len(code) + 1))
      BY <2>13 DEF CompileVariable
    <3>2. o \in Nat /\ t \in Types
      BY CodeGenAssumption
    <3> DEFINE r == Result(TmpReg(i), t, Len(code) + 1)
    <3>3. r \in Results /\ Ordinary(r.operand)
      BY <2>1, <3>2, OperandTypes1, OrdinaryOperands DEF Result, Results
    <3>4. pending' = Append(SubSeq(pending, 1, Len(pending)), r)
      BY <3>1 DEF Push, TypeOK
    <3>5. \A k \in DOMAIN pending' : Ordinary(pending'[k].operand)
      <4> HIDE DEF r
      <4> QED
        BY <2>1, <3>3, <3>4, PushedOrdinary DEF CodeInv
    <3>6. Instr("LD", TmpReg(i), Ref(o)) \in Emitted /\ Plain(Instr("LD", TmpReg(i), Ref(o)))
      BY <2>10, <3>2, OperandTypes1, OrdinaryOperands, EmittedType, PlainInstruction
    <3> QED
      BY <2>4, <2>13, <3>1, <3>5, <3>6 DEF CompileVariable
  <2>14. ASSUME NEW op \in Ops, CompileBinop(op) PROVE CodeInv'
    <3> DEFINE n == Len(pending)
               L == pending[n - 1]
               R == pending[n]
               r == Result(L.operand, L.type, Len(code) + 1)
    <3>1. n - 1 \in 1 .. Len(pending) /\ n \in 1 .. Len(pending) /\ n - 2 \in 0 .. Len(pending)
      BY <2>1, <2>14 DEF CompileBinop, Operands
    <3>2. r \in Results /\ Ordinary(r.operand)
      BY <2>1, <3>1 DEF Result, Results
    <3>3. pending' = Append(SubSeq(pending, 1, n - 2), r)
      BY <2>14 DEF CompileBinop
    <3>4. \A k \in DOMAIN pending' : Ordinary(pending'[k].operand)
      <4> HIDE DEF r
      <4> QED
        BY <2>1, <3>1, <3>2, <3>3, PushedOrdinary DEF CodeInv
    <3>5. /\ Instr(op, L.operand, R.operand) \in Emitted
          /\ Plain(Instr(op, L.operand, R.operand))
      BY <2>1, <2>9, <3>1, EmittedType, PlainInstruction
    <3>6. Emit(<<Instr(op, L.operand, R.operand)>>) /\ Room(1) /\ phase' = phase
      BY <2>14 DEF CompileBinop, Last
    <3> HIDE DEF L, R, n
    <3> QED
      BY <2>4, <3>4, <3>5, <3>6
  <2>15. ASSUME NEW op \in Ops, CompileBinopImmediate(op) PROVE CodeInv'
    <3> DEFINE n == Len(pending)
               L == pending[n - 1]
               R == pending[n]
    <3>1. n - 1 \in 1 .. Len(pending) /\ n \in 1 .. Len(pending) /\ n - 2 \in 0 .. Len(pending)
      BY <2>1, <2>15 DEF CompileBinopImmediate, Operands
    <3>2. PICK i \in Tmps :
              /\ Emit(<<Instr("MOV", TmpReg(i), Null), Instr(op, TmpReg(i), R.operand)>>)
              /\ pending' = Append(SubSeq(pending, 1, n - 2),
                                   Result(TmpReg(i), L.type, Len(code) + 2))
      BY <2>15 DEF CompileBinopImmediate, Last
    <3> DEFINE r == Result(TmpReg(i), L.type, Len(code) + 2)
    <3>3. r \in Results /\ Ordinary(r.operand)
      BY <2>1, <3>1, OperandTypes1, OrdinaryOperands DEF Result, Results
    <3>4. pending' = Append(SubSeq(pending, 1, n - 2), r)
      BY <3>2
    <3>5. \A k \in DOMAIN pending' : Ordinary(pending'[k].operand)
      <4> HIDE DEF r
      <4> QED
        BY <2>1, <3>1, <3>3, <3>4, PushedOrdinary DEF CodeInv
    <3>6. /\ Instr("MOV", TmpReg(i), Null) \in Emitted /\ Plain(Instr("MOV", TmpReg(i), Null))
          /\ Instr(op, TmpReg(i), R.operand) \in Emitted /\ Plain(Instr(op, TmpReg(i), R.operand))
      BY <2>1, <2>9, <2>10, <3>1, OperandTypes1, OrdinaryOperands, EmittedType, PlainInstruction
    <3>7. Room(2) /\ phase' = phase
      BY <2>15 DEF CompileBinopImmediate
    <3> HIDE DEF L, R, n
    <3> QED
      BY <2>5, <3>2, <3>5, <3>6, <3>7
  <2>16. ASSUME NEW f \in Fns, NEW n \in 0 .. MaxArgs, CompileCall(f, n) PROVE CodeInv'
    <3> DEFINE rest == Len(pending) - n
               r == Result(Reg(R_FNR), "none", Len(code) + 1)
               i == Instr("CALL", Ref(entry_ip[f]), Null)
    <3>1. rest \in 0 .. Len(pending)
      BY <2>1, <2>16, CodeGenAssumption DEF CompileCall
    <3>2. r \in Results /\ Ordinary(r.operand)
      BY <2>1, OperandTypes1, OrdinaryOperands DEF Result, Results
    <3>3. pending' = Append(SubSeq(pending, 1, rest), r)
      BY <2>16 DEF CompileCall
    <3>4. \A k \in DOMAIN pending' : Ordinary(pending'[k].operand)
      <4> HIDE DEF r
      <4> QED
        BY <2>1, <3>1, <3>2, <3>3, PushedOrdinary DEF CodeInv
    <3>5. i \in Emitted
      <4>1. entry_ip[f] \in Nat \cup {Unset}
        BY DEF TypeOK
      <4> QED
        BY <4>1, OperandTypes1 DEF Instr, Emitted, Ref, Opcodes, OperandTypes
    <3>6. Plain(i)
      BY <2>10, OrdinaryOperands, PlainInstruction
    <3>7. Emit(<<i>>) /\ Room(1) /\ phase' = phase
      BY <2>16 DEF CompileCall
    <3> HIDE DEF i
    <3> QED
      BY <2>4, <3>4, <3>5, <3>6, <3>7
  <2>17. ASSUME NEW x \in Symbols, CompileDeclaration(x) PROVE CodeInv'
    BY <2>17 DEF CompileDeclaration, CodeInv
  <2>18. ASSUME NEW x \in Symbols, CompileInitialisation(x) PROVE CodeInv'
    <3>1. PICK o \in Offsets[x] : Emit(<<Instr("ST", Ref(o), Last.operand)>>)
      BY <2>18 DEF CompileInitialisation
    <3>2. o \in Nat /\ Room(1) /\ phase' = phase /\ ConsumeLast
      BY <2>18, CodeGenAssumption DEF CompileInitialisation
    <3>3. Instr("ST", Ref(o), Last.operand) \in Emitted /\ Plain(Instr("ST", Ref(o), Last.operand))
      BY <2>10, <2>11, <3>2, OperandTypes1, OrdinaryOperands, EmittedType, PlainInstruction
    <3> QED
      BY <2>4, <2>11, <3>1, <3>2, <3>3
  <2>19. ASSUME NEW s \in Symbols, CompileAssignment(s) PROVE CodeInv'
    <3> DEFINE store(o) == Instr("ST", Ref(o), Last.operand)
               move(o)  == Instr("MOV", Ref(o), Reg(R_FNR))
    <3>1. PICK o \in Offsets[s] :
              Emit(IF Last.type = "none" THEN <<move(o), store(o)>> ELSE <<store(o)>>)
      BY <2>19 DEF CompileAssignment
    <3>2. o \in Nat /\ Room(2) /\ phase' = phase /\ ConsumeLast
      BY <2>19, CodeGenAssumption DEF CompileAssignment
    <3>3. /\ store(o) \in Emitted /\ Plain(store(o))
          /\ move(o) \in Emitted /\ Plain(move(o))
      BY <2>10, <2>11, <3>2, OperandTypes1, OrdinaryOperands, EmittedType, PlainInstruction
    <3>4. Room(1)
      BY <2>1, <3>2 DEF Room
    <3> HIDE DEF store, move
    <3>5. CASE Last.type = "none"
      BY <2>5, <2>11, <3>1, <3>2, <3>3, <3>5
    <3>6. CASE Last.type # "none"
      BY <2>4, <2>11, <3>1, <3>2, <3>3, <3>4, <3>6
    <3> QED
      BY <3>5, <3>6
  <2>20. CASE CompileExprStatement
    <3>1. pending' = <<>> /\ UNCHANGED <<phase, code>>
      BY <2>20 DEF CompileExprStatement
    <3> QED
      BY <2>6, <3>1
  <2>21. CASE CompileReturnValue
    <3>1. Instr("RET", Last.operand, Null) \in Emitted /\ Plain(Instr("RET", Last.operand, Null))
      BY <2>10, <2>11, <2>21, OperandTypes1, OrdinaryOperands, EmittedType, PlainInstruction
         DEF CompileReturnValue
    <3> QED
      BY <2>4, <2>11, <2>21, <3>1 DEF CompileReturnValue
  <2>22. CASE CompileReturnVoid
    <3>1. Instr("RET", Null, Null) \in Emitted /\ Plain(Instr("RET", Null, Null))
      BY <2>10, OperandTypes1, OrdinaryOperands, EmittedType, PlainInstruction
    <3>2. \A k \in DOMAIN pending' : Ordinary(pending'[k].operand)
      BY <2>22 DEF CompileReturnVoid, CodeInv
    <3> QED
      BY <2>4, <2>22, <3>1, <3>2 DEF CompileReturnVoid
  <2>23. ASSUME NEW f \in Fns, BeginFunction(f) PROVE CodeInv'
    BY <2>23 DEF BeginFunction, CodeInv
  <2>24. CASE EndFunction
    BY <2>24 DEF EndFunction, CodeInv
  <2>25. CASE StartGlobal
    <3>1. code' = [code EXCEPT ![1] = [code[1] EXCEPT !.a = Imm(Len(code))]]
          /\ phase = "functions" /\ phase' = "global" /\ pending' = pending
      BY <2>25 DEF StartGlobal
    <3>2. Len(code') = Len(code) /\ DOMAIN code' = DOMAIN code
      BY <2>1, <3>1
    <3>3. ASSUME NEW c \in DOMAIN code PROVE Plain(code'[c])
      <4>1. CASE c # 1
        BY <3>1, <4>1 DEF CodeInv
      <4>2. CASE c = 1
        <5>1. Plain(code[1]) /\ code[1] \in Emitted
          BY <2>1, <4>2 DEF CodeInv
        <5>2. code'[1] = [code[1] EXCEPT !.a = Imm(Len(code))]
          BY <3>1, <4>2
        <5>3. /\ code'[1].opcode = code[1].opcode /\ code'[1].b = code[1].b
              /\ code'[1].a = Imm(Len(code))
          BY <5>1, <5>2 DEF Emitted
        <5> QED
          BY <2>1, <4>2, <5>1, <5>3, OrdinaryOperands DEF Plain
      <4> QED
        BY <4>1, <4>2
    <3> QED
      BY <3>1, <3>2, <3>3 DEF CodeInv
  <2>26. CASE Finish
    <3>1. Instr("HALT", Null, Null) \in Emitted /\ Plain(Instr("HALT", Null, Null))
      BY <2>10, OperandTypes1, OrdinaryOperands, EmittedType, PlainInstruction
    <3> DEFINE i == Instr("HALT", Null, Null)
    <3>2. Emit(<<i>>) /\ phase = "global" /\ phase' = "done" /\ pending' = pending
      BY <2>26 DEF Finish
    <3> HIDE DEF i
    <3>3. <<i>> \in Seq(Emitted) /\ Len(<<i>>) = 1 /\ \A k \in DOMAIN <<i>> : <<i>>[k] = i
      BY <3>1 DEF i
    <3>4. Len(code) + 1 <= MaxCode + (IF phase' = "done" THEN 2 ELSE 1)
      BY <2>1, <2>2, <3>2
    <3>5. \A k \in DOMAIN pending' : Ordinary(pending'[k].operand)
      BY <3>2 DEF CodeInv
    <3> QED
      BY <2>3, <3>1, <3>2, <3>3, <3>4, <3>5 DEF i
  <2>27. CASE UNCHANGED vars
    BY <2>27 DEF vars, CodeInv
  <2>28. Walking => phase # "done"
    BY DEF Walking, InBody
  <2> QED
    BY <2>8, <2>12, <2>13, <2>14, <2>15, <2>16, <2>17, <2>18, <2>19, <2>20, <2>21, <2>22,
       <2>23, <2>24, <2>25, <2>26, <2>27, <2>28
       DEF Next, VariableOutOfTemps, BinopOutOfTemps, RejectReturn, RejectFunction,
           Operands, InBody
<1>3. Spec => []CodeInv
  BY <1>1, <1>2, TypeCorrect, PTL DEF Spec
<1> QED
  BY <1>3, CompilerBehaves, PTL

-----------------------------------------------------------------------------
(***************************************************************************)
(* The record of the source.  Global variables are declared, and so given  *)
(* a value, in the order of their numbers.                                 *)
(***************************************************************************)
Statements == [target : Globals, expr : Seq(Nodes)]

SourceInv ==
    /\ exprs \in Seq(Seq(Nodes)) /\ Len(exprs) = Len(pending)
    /\ source \in Seq(Statements)
    /\ phase = "functions" => source = <<>> /\ declared \cap Globals = {}
    /\ phase = "global" => currentFunction = 0
    /\ \A s, t \in Globals : s \in declared /\ t \notin declared => s < t
    /\ \A k \in DOMAIN source : source[k].target \in declared
    /\ \A k, m \in DOMAIN source : k < m => source[k].target < source[m].target

\* The nodes of the record.
LEMMA NodeTypes ==
    /\ \A v \in Literals : <<Node("NUMBER", v)>> \in Seq(Nodes)
    /\ \A s \in Symbols : <<Node("VARIABLE", s)>> \in Seq(Nodes)
    /\ \A f \in Fns : <<Node("CALL", f)>> \in Seq(Nodes)
    /\ \A op \in Ops : <<Node("BINOP", op)>> \in Seq(Nodes)
<1>1. \A v \in Literals : Node("NUMBER", v) \in Nodes
  BY CodeGenAssumption DEF Node, Nodes
<1>2. \A s \in Symbols : Node("VARIABLE", s) \in Nodes /\ Node("CALL", s) \in Nodes
  BY CodeGenAssumption DEF Node, Nodes, Symbols
<1>3. Fns \subseteq Symbols
  BY CodeGenAssumption
<1>4. \A op \in Ops : Node("BINOP", op) \in Nodes
  BY CodeGenAssumption DEF Node, Nodes, Arithmetic, Opcodes
<1> HIDE DEF Nodes, Node
<1> QED
  BY <1>1, <1>2, <1>3, <1>4

\* What an operator makes of its operands' expressions.
LEMMA OperationType ==
    ASSUME NEW a \in Seq(Nodes), NEW b \in Seq(Nodes), NEW op \in Ops
    PROVE  /\ a \o b \o <<Node("BINOP", op)>> \in Seq(Nodes)
           /\ a \o b \o <<Node("BINOP", op)>> # <<>>
<1>1. PICK d \in Seq(Nodes), z \in Nodes : d = a \o b /\ z = Node("BINOP", op)
  <2>1. <<Node("BINOP", op)>>[1] \in Nodes
    BY NodeTypes
  <2>2. a \o b \in Seq(Nodes)
    OBVIOUS
  <2> QED
    BY <2>1, <2>2
<1>2. d \o <<z>> \in Seq(Nodes) /\ Len(d \o <<z>>) = Len(d) + 1 /\ Len(d) \in Nat
  OBVIOUS
<1>3. d \o <<z>> # <<>>
  BY <1>2
<1> QED
  BY <1>1, <1>2, <1>3

\* A declaration is the next one of its scope.
LEMMA NextDeclared ==
    ASSUME SourceInv, Walking, NEW x \in Undeclared, DeclaredOrNext(x),
           declared' = declared \cup {x}
    PROVE  /\ phase = "functions" => declared' \cap Globals = {}
           /\ phase = "global" => /\ x \in Globals
                                  /\ \A s \in Globals : s \in declared => s < x
           /\ \A s, t \in Globals : s \in declared' /\ t \notin declared' => s < t
<1>1. x \in Symbols /\ x \notin declared /\ HasDeclaration(x)
  BY DEF Undeclared
<1>2. CASE phase = "functions"
  <2>1. x \notin Globals
    BY <1>1, <1>2 DEF Walking, InBody, HasDeclaration, Globals
  <2> QED
    BY <1>2, <2>1 DEF SourceInv
<1>3. CASE phase = "global"
  <2>1. x \in Globals /\ currentFunction = 0
    BY <1>1, <1>3 DEF SourceInv, HasDeclaration, Globals
  <2>2. ASSUME NEW t \in Globals, t \notin declared' PROVE x < t
    <3>1. t \in Undeclared /\ t # x
      BY <2>1, <2>2 DEF Undeclared, HasDeclaration, Globals
    <3>2. x <= t /\ x \in Int /\ t \in Int
      BY <1>1, <3>1 DEF DeclaredOrNext, Undeclared, Symbols
    <3> QED
      BY <3>1, <3>2
  <2>3. \A s, t \in Globals : s \in declared' /\ t \notin declared' => s < t
    BY <2>2 DEF SourceInv
  <2>4. \A s \in Globals : s \in declared => s < x
    BY <1>1, <2>1 DEF SourceInv
  <2> QED
    BY <1>3, <2>1, <2>3, <2>4
<1> QED
  BY <1>2, <1>3 DEF Walking, InBody

\* The front of a sequence.
LEMMA FrontType ==
    ASSUME NEW S, NEW s \in Seq(S), NEW n \in 0 .. Len(s)
    PROVE  /\ SubSeq(s, 1, n) \in Seq(S) /\ Len(SubSeq(s, 1, n)) = n
           /\ DOMAIN SubSeq(s, 1, n) = 1 .. n
           /\ \A k \in 1 .. n : SubSeq(s, 1, n)[k] = s[k]
BY SubSeqProperties

\* The expressions follow the pending results.
LEMMA ExprsPushed ==
    ASSUME TypeOK, SourceInv, NEW r, NEW e \in Seq(Nodes),
           Push(r), exprs' = Append(exprs, e)
    PROVE  exprs' \in Seq(Seq(Nodes)) /\ Len(exprs') = Len(pending')
<1>1. exprs \in Seq(Seq(Nodes)) /\ Len(exprs) = Len(pending)
      /\ Len(pending') = Len(pending) + 1
  BY DEF SourceInv, Push, TypeOK
<1> QED
  BY <1>1

\* The same when an operator replaces the last two.
LEMMA ExprsJoined ==
    ASSUME TypeOK, SourceInv, Len(pending) >= 2, NEW r, NEW op \in Ops,
           pending' = Append(SubSeq(pending, 1, Len(pending) - 2), r),
           exprs' = Append(SubSeq(exprs, 1, Len(exprs) - 2),
                           exprs[Len(exprs) - 1] \o exprs[Len(exprs)] \o <<Node("BINOP", op)>>)
    PROVE  exprs' \in Seq(Seq(Nodes)) /\ Len(exprs') = Len(pending')
<1> DEFINE n == Len(exprs)
           e == exprs[n - 1] \o exprs[n] \o <<Node("BINOP", op)>>
<1>1. /\ exprs \in Seq(Seq(Nodes)) /\ n = Len(pending) /\ n \in Nat /\ n >= 2
      /\ pending \in Seq(Results)
  BY DEF SourceInv, TypeOK
<1>2. exprs[n - 1] \in Seq(Nodes) /\ exprs[n] \in Seq(Nodes)
  BY <1>1
<1>3. e \in Seq(Nodes)
  BY <1>2, OperationType
<1> HIDE DEF e
<1>4. SubSeq(exprs, 1, n - 2) \in Seq(Seq(Nodes)) /\ Len(SubSeq(exprs, 1, n - 2)) = n - 2
  <2>1. n - 2 \in 0 .. Len(exprs)
    BY <1>1
  <2> HIDE DEF n
  <2> QED
    BY <1>1, <2>1, FrontType
<1>5. SubSeq(pending, 1, n - 2) \in Seq(Results) /\ Len(SubSeq(pending, 1, n - 2)) = n - 2
  <2> HIDE DEF n
  <2> QED
    BY <1>1, SubSeqProperties
<1>6. exprs' = Append(SubSeq(exprs, 1, n - 2), e) /\ pending' = Append(SubSeq(pending, 1, n - 2), r)
  BY <1>1 DEF e
<1>7. Len(pending') = n - 1
  <2>1. Len(Append(SubSeq(pending, 1, n - 2), r)) = (n - 2) + 1
    <3> HIDE DEF n
    <3> QED
      BY <1>1, <1>5
  <2> QED
    BY <1>1, <1>6, <2>1
<1> DEFINE front == SubSeq(exprs, 1, n - 2)
<1>8. front \in Seq(Seq(Nodes)) /\ Len(front) = n - 2 /\ exprs' = Append(front, e)
  BY <1>4, <1>6
<1> HIDE DEF n, front
<1>9. Append(front, e) \in Seq(Seq(Nodes)) /\ Len(Append(front, e)) = (n - 2) + 1
  BY <1>3, <1>8
<1>10. exprs' \in Seq(Seq(Nodes)) /\ Len(exprs') = (n - 2) + 1
  BY <1>8, <1>9
<1>11. (n - 2) + 1 = n - 1
  BY <1>1
<1> QED
  BY <1>7, <1>10, <1>11

\* Nothing but a declaration changes the set of declared symbols, and nothing
\* but the end of the functions and of the global code changes the phase.
LEMMA SourceRecorded == ToolSpec => []SourceInv
<1>1. ToolInit => SourceInv
  BY DEF ToolInit, Init, SourceInv
<1>2. TypeOK /\ SourceInv /\ [ToolNext]_toolVars => SourceInv'
  <2> SUFFICES ASSUME TypeOK, SourceInv, [ToolNext]_toolVars PROVE SourceInv'
    OBVIOUS
  <2>1. ASSUME exprs' \in Seq(Seq(Nodes)) /\ Len(exprs') = Len(pending'),
               UNCHANGED <<phase, currentFunction, declared, source>>
        PROVE  SourceInv'
    BY <2>1 DEF SourceInv
  <2>2. ASSUME UNCHANGED <<pending, exprs, source, declared>>,
               phase' = phase \/ phase' \notin {"functions", "global"},
               phase' = "global" => currentFunction' = 0
        PROVE  SourceInv'
    BY <2>2 DEF SourceInv
  <2>3. CASE Number
    <3>1. PICK v \in Literals : CompileNumber(v) /\ Leaf("NUMBER", v)
      BY <2>3 DEF Number
    <3>2. exprs' \in Seq(Seq(Nodes)) /\ Len(exprs') = Len(pending')
      BY <3>1, ExprsPushed, NodeTypes DEF CompileNumber, Leaf
    <3> QED
      BY <2>1, <3>1, <3>2 DEF CompileNumber, Leaf
  <2>4. CASE Variable
    <3>1. PICK s \in Symbols : CompileVariable(s) /\ Leaf("VARIABLE", s)
      BY <2>4 DEF Variable
    <3>2. \E r : Push(r)
      BY <3>1 DEF CompileVariable
    <3>3. exprs' \in Seq(Seq(Nodes)) /\ Len(exprs') = Len(pending')
      BY <3>1, <3>2, ExprsPushed, NodeTypes DEF Leaf
    <3> QED
      BY <2>1, <3>1, <3>3 DEF CompileVariable, Leaf
  <2>5. CASE Binop
    <3>1. PICK op \in Ops :
              /\ CompileBinop(op) \/ CompileBinopImmediate(op)
              /\ exprs' = Append(SubSeq(exprs, 1, Len(exprs) - 2),
                              exprs[Len(exprs) - 1] \o exprs[Len(exprs)] \o <<Node("BINOP", op)>>)
              /\ UNCHANGED source
      BY <2>5 DEF Binop
    <3>2. /\ Len(pending) >= 2
          /\ \E r : pending' = Append(SubSeq(pending, 1, Len(pending) - 2), r)
          /\ UNCHANGED <<phase, currentFunction, declared>>
      BY <3>1 DEF CompileBinop, CompileBinopImmediate, Operands
    <3>3. exprs' \in Seq(Seq(Nodes)) /\ Len(exprs') = Len(pending')
      BY <3>1, <3>2, ExprsJoined
    <3> QED
      BY <2>1, <3>1, <3>2, <3>3
  <2>6. CASE Call
    <3>1. PICK f \in Fns : CompileCall(f, 0) /\ Leaf("CALL", f)
      BY <2>6 DEF Call
    <3> DEFINE r == Result(Reg(R_FNR), "none", Len(code) + 1)
    <3>2. pending \in Seq(Results) /\ Len(pending) - 0 = Len(pending)
      BY DEF TypeOK
    <3>3. pending' = Append(SubSeq(pending, 1, Len(pending) - 0), r)
          /\ Len(pending) - 0 < MaxPending
      BY <3>1 DEF CompileCall
    <3>4. SubSeq(pending, 1, Len(pending)) = pending
      BY <3>2
    <3> HIDE DEF r
    <3>5. Push(r)
      BY <3>2, <3>3, <3>4 DEF Push
    <3>6. exprs' \in Seq(Seq(Nodes)) /\ Len(exprs') = Len(pending')
      BY <3>1, <3>5, ExprsPushed, NodeTypes DEF Leaf
    <3> QED
      BY <2>1, <3>1, <3>6 DEF CompileCall, Leaf
  <2>7. CASE Initialisation
    <3>1. PICK x \in Symbols :
              /\ CompileInitialisation(x)
              /\ exprs' = <<>>
              /\ source' = IF phase = "global"
                           THEN Append(source, [target |-> x, expr |-> exprs[1]])
                           ELSE source
      BY <2>7 DEF Initialisation
    <3>2. /\ Walking /\ x \in Undeclared /\ DeclaredOrNext(x)
          /\ declared' = declared \cup {x} /\ UNCHANGED <<phase, currentFunction>>
          /\ Len(pending) = 1 /\ pending' = <<>>
      BY <3>1 DEF CompileInitialisation, ConsumeLast
    <3>3. /\ phase = "functions" => declared' \cap Globals = {}
          /\ phase = "global" => /\ x \in Globals
                                 /\ \A s \in Globals : s \in declared => s < x
          /\ \A s, t \in Globals : s \in declared' /\ t \notin declared' => s < t
      BY <3>2, NextDeclared
    <3>4. exprs' \in Seq(Seq(Nodes)) /\ Len(exprs') = Len(pending')
      BY <3>1, <3>2
    <3>5. CASE phase # "global"
      BY <3>1, <3>2, <3>3, <3>4, <3>5 DEF SourceInv
    <3>6. CASE phase = "global"
      <4> DEFINE st == [target |-> x, expr |-> exprs[1]]
      <4>1. exprs[1] \in Seq(Nodes)
        <5>1. exprs \in Seq(Seq(Nodes)) /\ Len(exprs) = 1
          BY <3>2 DEF SourceInv
        <5> HIDE DEF Nodes
        <5> QED
          BY <5>1
      <4>2. st \in Statements /\ st.target = x
        BY <3>3, <3>6, <4>1 DEF Statements
      <4>3. source \in Seq(Statements) /\ source' = Append(source, st)
        BY <3>1, <3>6 DEF SourceInv
      <4> HIDE DEF st
      <4>4. /\ source' \in Seq(Statements)
            /\ DOMAIN source' = DOMAIN source \cup {Len(source) + 1}
            /\ DOMAIN source = 1 .. Len(source) /\ Len(source) \in Nat
            /\ \A k \in DOMAIN source : source'[k] = source[k]
            /\ source'[Len(source) + 1] = st
        BY <4>2, <4>3, AppendProperties
      <4>5. \A k \in DOMAIN source' : source'[k].target \in declared'
        BY <3>2, <4>2, <4>4 DEF SourceInv
      <4>6. ASSUME NEW k \in DOMAIN source', NEW m \in DOMAIN source', k < m
            PROVE  source'[k].target < source'[m].target
        <5>1. k \in DOMAIN source /\ source[k] \in Statements
          BY <4>3, <4>4, <4>6
        <5>2. CASE m \in DOMAIN source
          BY <4>4, <4>6, <5>1, <5>2 DEF SourceInv
        <5>3. CASE m = Len(source) + 1
          <6>1. source[k].target \in Globals /\ source[k].target \in declared
            BY <4>3, <5>1 DEF SourceInv, Statements
          <6> QED
            BY <3>3, <3>6, <4>2, <4>4, <5>1, <5>3, <6>1
        <5> QED
          BY <4>4, <5>2, <5>3
      <4> QED
        BY <3>2, <3>3, <3>4, <3>6, <4>4, <4>5, <4>6 DEF SourceInv
    <3> QED
      BY <3>5, <3>6
  <2>8. CASE NoEffect
    <3>1. exprs' = <<>> /\ UNCHANGED source
      BY <2>8 DEF NoEffect
    <3>2. pending' = <<>> /\ UNCHANGED <<phase, currentFunction>>
      BY <2>8 DEF NoEffect, CompileDeclaration, CompileAssignment, CompileExprStatement,
                  CompileReturnValue, CompileReturnVoid, ConsumeLast
    <3>3. exprs' \in Seq(Seq(Nodes)) /\ Len(exprs') = Len(pending')
      BY <3>1, <3>2
    <3>4. ASSUME NEW x \in Symbols, CompileDeclaration(x) PROVE SourceInv'
      <4>1. /\ Walking /\ x \in Undeclared /\ DeclaredOrNext(x) /\ declared' = declared \cup {x}
        BY <3>4 DEF CompileDeclaration
      <4>2. /\ phase = "functions" => declared' \cap Globals = {}
            /\ \A s, t \in Globals : s \in declared' /\ t \notin declared' => s < t
        BY <4>1, NextDeclared
      <4> QED
        BY <3>1, <3>2, <3>3, <4>1, <4>2 DEF SourceInv
    <3>5. ASSUME UNCHANGED declared PROVE SourceInv'
      BY <2>1, <3>1, <3>2, <3>3, <3>5
    <3> QED
      BY <2>8, <3>4, <3>5 DEF NoEffect, CompileAssignment, CompileExprStatement,
                              CompileReturnValue, CompileReturnVoid
  <2>9. CASE Layout
    <3>1. UNCHANGED <<exprs, source, pending, declared>>
      BY <2>9 DEF Layout, BeginFunction, EndFunction, StartGlobal, Finish
    <3>2. CASE \E f \in Fns : BeginFunction(f)
      BY <2>2, <3>1, <3>2 DEF BeginFunction
    <3>3. CASE EndFunction
      BY <2>2, <3>1, <3>3 DEF EndFunction
    <3>4. CASE StartGlobal
      BY <3>1, <3>4 DEF StartGlobal, SourceInv
    <3>5. CASE Finish
      BY <2>2, <3>1, <3>5 DEF Finish
    <3> QED
      BY <2>9, <3>2, <3>3, <3>4, <3>5 DEF Layout
  <2>10. CASE Fail
    <3>1. Abort /\ UNCHANGED <<exprs, source>>
      BY <2>10 DEF Fail, VariableOutOfTemps, BinopOutOfTemps, RejectReturn, RejectFunction
    <3> QED
      BY <2>2, <3>1 DEF Abort
  <2>11. CASE UNCHANGED <<vars, exprs, source>>
    BY <2>2, <2>11 DEF vars, SourceInv
  <2> QED
    BY <2>3, <2>4, <2>5, <2>6, <2>7, <2>8, <2>9, <2>10, <2>11
       DEF ToolNext, Compile, Load, Run, toolVars, vars
<1> QED
  BY <1>1, <1>2, TypeCorrect, CompilerBehaves, PTL DEF ToolSpec

-----------------------------------------------------------------------------
(***************************************************************************)
(* What the global code computes.  Behind each of its instructions, T says *)
(* of which expression a temporary holds the value (none: the empty        *)
(* sequence), and K how many statements are done; `Follows' says how an    *)
(* instruction leads from one such record to the next.                     *)
(***************************************************************************)
Nothing == [i \in Tmps |-> <<>>]

Holds(t, o, e) ==
    \/ \E v \in Literals : o = Imm(v) /\ e = <<Node("NUMBER", v)>>
    \/ \E i \in Tmps : o = TmpReg(i) /\ t[i] # <<>> /\ e = t[i]

Loads(src, i, t, k, u, l) ==
    \E j \in Tmps, n \in 1 .. k :
        /\ i.opcode = "LD" /\ i.a = TmpReg(j) /\ i.b = Ref(Offset(src[n].target))
        /\ u = [t EXCEPT ![j] = <<Node("VARIABLE", src[n].target)>>]
        /\ l = k

Computes(i, t, k, u, l) ==
    \E op \in Ops, j \in Tmps, e \in Seq(Nodes) :
        /\ i.opcode = op /\ i.a = TmpReg(j) /\ t[j] # <<>>
        /\ Holds(t, i.b, e)
        /\ u = [t EXCEPT ![j] = t[j] \o e \o <<Node("BINOP", op)>>]
        /\ l = k

Assigns(src, i, t, k, u, l) ==
    /\ l = k + 1
    /\ i.opcode = "ST" /\ i.a = Ref(Offset(src[l].target))
    /\ Holds(t, i.b, src[l].expr)
    /\ u = Nothing

Follows(src, i, t, k, u, l) ==
    \/ i.opcode \in {"CALL", "HALT"} /\ u = t /\ l = k
    \/ Loads(src, i, t, k, u, l)
    \/ Computes(i, t, k, u, l)
    \/ Assigns(src, i, t, k, u, l)

\* The record of the code c from the index g on, for the source src.
Certifies(T, K, g, c, src) ==
    /\ T \in [g .. Len(c) -> [Tmps -> Seq(Nodes)]]
    /\ K \in [g .. Len(c) -> 0 .. Len(src)]
    /\ T[g] = Nothing /\ K[g] = 0 /\ K[Len(c)] = Len(src)
    /\ \A n \in g + 1 .. Len(c) : Follows(src, c[n], T[n - 1], K[n - 1], T[n], K[n])

\* The pending results are the values that their expressions stand for.
Linked(t, held, es) ==
    \A k \in DOMAIN held : held[k].type # "none" => Holds(t, held[k].operand, es[k])

CompiledInv ==
    phase \in {"global", "done"} =>
        LET g == code[1].a.data
        IN  /\ g \in 1 .. Len(code)
            /\ \E T, K : Certifies(T, K, g, code, source) /\ Linked(T[Len(code)], pending, exprs)

\* Statements written later do not change what the earlier ones are.
LEMMA FollowsLonger ==
    ASSUME NEW src \in Seq(Statements), NEW more \in Seq(Statements),
           Len(src) <= Len(more), \A n \in 1 .. Len(src) : more[n] = src[n],
           NEW i, NEW t, NEW u, NEW k \in 0 .. Len(src), NEW l \in 0 .. Len(src),
           Follows(src, i, t, k, u, l)
    PROVE  Follows(more, i, t, k, u, l)
<1>1. Len(src) \in Nat
  OBVIOUS
<1>2. CASE Loads(src, i, t, k, u, l)
  <2>1. PICK j \in Tmps, n \in 1 .. k :
          /\ i.opcode = "LD" /\ i.a = TmpReg(j) /\ i.b = Ref(Offset(src[n].target))
          /\ u = [t EXCEPT ![j] = <<Node("VARIABLE", src[n].target)>>]
          /\ l = k
    BY <1>2 DEF Loads
  <2>2. more[n] = src[n]
    BY <1>1
  <2>3. Loads(more, i, t, k, u, l)
    BY <2>1, <2>2 DEF Loads
  <2> QED
    BY <2>3 DEF Follows
<1>3. CASE Assigns(src, i, t, k, u, l)
  <2>1. l \in 1 .. Len(src)
    BY <1>1, <1>3 DEF Assigns
  <2>2. Assigns(more, i, t, k, u, l)
    BY <1>3, <2>1 DEF Assigns
  <2> QED
    BY <2>2 DEF Follows
<1> QED
  BY <1>2, <1>3 DEF Follows

\* One more instruction, and its record.
LEMMA CertifiesMore ==
    ASSUME NEW g \in Nat, NEW c \in Seq(Emitted), g \in 1 .. Len(c), NEW i \in Emitted,
           NEW src \in Seq(Statements), NEW more \in Seq(Statements),
           Len(src) <= Len(more), \A n \in 1 .. Len(src) : more[n] = src[n],
           NEW T, NEW K, Certifies(T, K, g, c, src),
           NEW u \in [Tmps -> Seq(Nodes)],
           Follows(more, i, T[Len(c)], Len(src), u, Len(more))
    PROVE  \E S, M : /\ Certifies(S, M, g, c \o <<i>>, more)
                     /\ S[Len(c \o <<i>>)] = u
<1> DEFINE n == Len(c)
           d == c \o <<i>>
           S == [k \in g .. n + 1 |-> IF k = n + 1 THEN u ELSE T[k]]
           M == [k \in g .. n + 1 |-> IF k = n + 1 THEN Len(more) ELSE K[k]]
<1>1. /\ n \in Nat /\ Len(d) = n + 1 /\ d[n + 1] = i /\ \A k \in 1 .. n : d[k] = c[k]
  BY EmittedLast, EmitExtends
<1>2. Len(src) \in Nat /\ Len(more) \in Nat
  OBVIOUS
<1>3. /\ T \in [g .. n -> [Tmps -> Seq(Nodes)]] /\ K \in [g .. n -> 0 .. Len(src)]
      /\ T[g] = Nothing /\ K[g] = 0 /\ K[n] = Len(src)
      /\ \A k \in g + 1 .. n : Follows(src, c[k], T[k - 1], K[k - 1], T[k], K[k])
  BY DEF Certifies
<1>4. g \in 1 .. n
  OBVIOUS
<1> HIDE DEF n, d
<1>5. /\ \A k \in g .. n : S[k] = T[k] /\ M[k] = K[k]
      /\ S[n + 1] = u /\ M[n + 1] = Len(more)
  BY <1>1, <1>4
<1>6. S \in [g .. n + 1 -> [Tmps -> Seq(Nodes)]]
  BY <1>1, <1>3, <1>4
<1>7. M \in [g .. n + 1 -> 0 .. Len(more)]
  <2>1. \A k \in g .. n : K[k] \in 0 .. Len(more)
    BY <1>2, <1>3
  <2> QED
    BY <1>1, <1>2, <1>4, <2>1
<1> HIDE DEF S, M
<1>8. ASSUME NEW k \in g + 1 .. n + 1 PROVE Follows(more, d[k], S[k - 1], M[k - 1], S[k], M[k])
  <2>1. CASE k = n + 1
    <3>1. d[k] = i /\ k - 1 = n /\ n \in g .. n
      BY <1>1, <1>4, <2>1
    <3>2. S[k - 1] = T[n] /\ M[k - 1] = Len(src) /\ S[k] = u /\ M[k] = Len(more)
      BY <1>3, <1>5, <2>1, <3>1
    <3> QED
      BY <3>1, <3>2 DEF n
  <2>2. CASE k \in g + 1 .. n
    <3>1. k \in g .. n /\ k - 1 \in g .. n /\ k \in 1 .. n
      BY <1>1, <1>4, <2>2
    <3>2. /\ S[k - 1] = T[k - 1] /\ M[k - 1] = K[k - 1] /\ S[k] = T[k] /\ M[k] = K[k]
          /\ d[k] = c[k]
      BY <1>1, <1>5, <3>1
    <3>3. K[k - 1] \in 0 .. Len(src) /\ K[k] \in 0 .. Len(src)
      BY <1>3, <3>1
    <3>4. Follows(src, c[k], T[k - 1], K[k - 1], T[k], K[k])
      BY <1>3, <2>2
    <3>5. Follows(more, c[k], T[k - 1], K[k - 1], T[k], K[k])
      BY <3>3, <3>4, FollowsLonger
    <3> QED
      BY <3>2, <3>5
  <2> QED
    BY <1>1, <1>4, <2>1, <2>2
<1>9. Certifies(S, M, g, d, more)
  <2>1. S[g] = Nothing /\ M[g] = 0
    <3>1. g \in g .. n
      BY <1>1, <1>4
    <3>2. S[g] = T[g] /\ M[g] = K[g]
      BY <1>5, <3>1
    <3> QED
      BY <1>3, <3>2
  <2> QED
    BY <1>1, <1>5, <1>6, <1>7, <1>8, <2>1 DEF Certifies
<1>10. S[Len(d)] = u
  BY <1>1, <1>5
<1> QED
  BY <1>9, <1>10 DEF d

\* A result that is still held when a temporary no result is in is written.
LEMMA HoldsWith ==
    ASSUME NEW t \in [Tmps -> Seq(Nodes)], NEW o, NEW e, Holds(t, o, e),
           NEW j \in Tmps, o # TmpReg(j), NEW x
    PROVE  Holds([t EXCEPT ![j] = x], o, e)
<1>1. CASE \E v \in Literals : o = Imm(v) /\ e = <<Node("NUMBER", v)>>
  BY <1>1 DEF Holds
<1>2. CASE \E i \in Tmps : o = TmpReg(i) /\ t[i] # <<>> /\ e = t[i]
  <2>1. PICK i \in Tmps : o = TmpReg(i) /\ t[i] # <<>> /\ e = t[i]
    BY <1>2
  <2>2. i # j
    BY <2>1
  <2>3. [t EXCEPT ![j] = x][i] = t[i]
    BY <2>2
  <2> QED
    BY <2>1, <2>3 DEF Holds
<1> QED
  BY <1>1, <1>2 DEF Holds

\* Which temporaries pending results are in: no two in one, none in a free one.
LEMMA HeldTmps ==
    ASSUME TypeOK, TempsBalanced
    PROVE  /\ \A i \in Tmps, k \in DOMAIN pending :
                 pending[k].operand = TmpReg(i) => tmp_used[i]
           /\ \A i \in Tmps, k, m \in DOMAIN pending :
                 pending[k].operand = TmpReg(i) /\ pending[m].operand = TmpReg(i) => k = m
<1>1. \A i \in Tmps, k \in DOMAIN pending :
        pending[k].operand = TmpReg(i) <=> i \in TmpOf(pending[k])
  BY DEF TmpOf
<1> QED
  BY <1>1 DEF TempsBalanced, Balanced

\* The record of what the code computes holds when a result is pushed whose
\* value the record has.
LEMMA LinkedPushed ==
    ASSUME TypeOK, SourceInv, NEW t, NEW r \in Results, NEW e \in Seq(Nodes),
           Linked(t, pending, exprs),
           r.type # "none" => Holds(t, r.operand, e),
           pending' = Append(pending, r), exprs' = Append(exprs, e)
    PROVE  Linked(t, pending', exprs')
<1>1. /\ pending \in Seq(Results) /\ exprs \in Seq(Seq(Nodes)) /\ Len(exprs) = Len(pending)
      /\ Len(pending) \in Nat /\ DOMAIN pending = 1 .. Len(pending)
  BY DEF TypeOK, SourceInv
<1>2. /\ DOMAIN pending' = 1 .. Len(pending) + 1
      /\ \A k \in 1 .. Len(pending) : pending'[k] = pending[k]
      /\ pending'[Len(pending) + 1] = r
  BY <1>1, AppendProperties
<1>3. /\ \A k \in 1 .. Len(pending) : exprs'[k] = exprs[k]
      /\ exprs'[Len(pending) + 1] = e
  BY <1>1, AppendProperties
<1>4. ASSUME NEW k \in DOMAIN pending', pending'[k].type # "none"
      PROVE  Holds(t, pending'[k].operand, exprs'[k])
  <2>1. CASE k \in 1 .. Len(pending)
    BY <1>1, <1>2, <1>3, <1>4, <2>1 DEF Linked
  <2>2. CASE k = Len(pending) + 1
    BY <1>2, <1>3, <1>4, <2>2
  <2> QED
    BY <1>1, <1>2, <2>1, <2>2
<1> QED
  BY <1>4 DEF Linked

\* The same when the last two results are replaced by that of an operator.
LEMMA LinkedJoined ==
    ASSUME TypeOK, SourceInv, Len(pending) >= 2, NEW t, NEW r \in Results, NEW e \in Seq(Nodes),
           \A k \in 1 .. Len(pending) - 2 :
               pending[k].type # "none" => Holds(t, pending[k].operand, exprs[k]),
           r.type # "none" => Holds(t, r.operand, e),
           pending' = Append(SubSeq(pending, 1, Len(pending) - 2), r),
           exprs' = Append(SubSeq(exprs, 1, Len(pending) - 2), e)
    PROVE  Linked(t, pending', exprs')
<1>1. PICK n \in Nat : n = Len(pending) - 2
  <2>1. Len(pending) \in Nat
    BY DEF TypeOK
  <2>2. Len(pending) - 2 \in Nat
    BY <2>1
  <2> QED
    BY <2>2
<1> DEFINE front == SubSeq(pending, 1, n)
           before == SubSeq(exprs, 1, n)
<1>2. /\ pending \in Seq(Results) /\ exprs \in Seq(Seq(Nodes))
      /\ n \in 0 .. Len(pending) /\ n \in 0 .. Len(exprs)
  BY <1>1 DEF TypeOK, SourceInv
<1>3. /\ front \in Seq(Results) /\ Len(front) = n
      /\ \A k \in 1 .. n : front[k] = pending[k]
  BY <1>2, FrontType
<1>4. /\ before \in Seq(Seq(Nodes)) /\ Len(before) = n
      /\ \A k \in 1 .. n : before[k] = exprs[k]
  BY <1>2, FrontType
<1>5. pending' = Append(front, r) /\ exprs' = Append(before, e)
  BY <1>1
<1> HIDE DEF front, before
<1>6. /\ DOMAIN pending' = 1 .. n + 1
      /\ \A k \in 1 .. n : pending'[k] = pending[k]
      /\ pending'[n + 1] = r
  BY <1>3, <1>5, AppendProperties
<1>7. /\ \A k \in 1 .. n : exprs'[k] = exprs[k]
      /\ exprs'[n + 1] = e
  BY <1>4, <1>5, AppendProperties
<1>8. ASSUME NEW k \in DOMAIN pending', pending'[k].type # "none"
      PROVE  Holds(t, pending'[k].operand, exprs'[k])
  <2>1. CASE k \in 1 .. n
    BY <1>1, <1>6, <1>7, <1>8, <2>1
  <2>2. CASE k = n + 1
    BY <1>6, <1>7, <1>8, <2>2
  <2> QED
    BY <1>6, <2>1, <2>2
<1> QED
  BY <1>8 DEF Linked

\* What the compiler emits for the global code computes the source's values.
LEMMA CompiledStep ==
    ASSUME Supported, TypeOK, TempsBalanced, LaidOut, PendingInv, SourceInv, CompiledInv,
           [ToolNext]_toolVars
    PROVE  CompiledInv'
<1>0. PICK n \in Nat, g \in Nat : n = Len(code) /\ g = code[1].a.data
  BY DEF TypeOK, LaidOut
<1>1. /\ code \in Seq(Emitted) /\ n = Len(code) /\ n > 0 /\ g = code[1].a.data
      /\ pending \in Seq(Results) /\ Len(pending) \in Nat /\ DOMAIN pending = 1 .. Len(pending)
      /\ exprs \in Seq(Seq(Nodes)) /\ Len(exprs) = Len(pending)
      /\ source \in Seq(Statements) /\ Len(source) \in Nat
  BY <1>0 DEF TypeOK, LaidOut, SourceInv
<1>2. \A k \in DOMAIN pending : pending[k] \in Results /\ exprs[k] \in Seq(Nodes)
  BY <1>1
<1>3. CASE UNCHANGED <<phase, code, pending, exprs, source>>
  BY <1>3 DEF CompiledInv
<1>4. CASE phase' \notin {"global", "done"}
  BY <1>4 DEF CompiledInv
<1>5. CASE StartGlobal /\ UNCHANGED <<exprs, source>>
  <2>1. /\ phase = "functions" /\ currentFunction = 0 /\ pending' = pending
        /\ code' = [code EXCEPT ![1] = [code[1] EXCEPT !.a = Imm(n)]]
        /\ source' = source
    BY <1>1, <1>5 DEF StartGlobal
  <2>2. source = <<>> /\ pending = <<>>
    BY <2>1 DEF SourceInv, PendingInv
  <2>3. code[1] \in Emitted /\ 1 \in DOMAIN code
    BY <1>1
  <2>4. Len(code') = n /\ code'[1] = [code[1] EXCEPT !.a = Imm(n)]
    BY <1>1, <2>1, <2>3
  <2>5. code'[1].a.data = n
    BY <2>3, <2>4 DEF Emitted, Imm
  <2> DEFINE T == [k \in n .. n |-> Nothing]
             K == [k \in n .. n |-> 0]
  <2>6. Nothing \in [Tmps -> Seq(Nodes)]
    BY DEF Nothing
  <2>7. Certifies(T, K, n, code', source')
    <3>1. n \in n .. n /\ Len(source') = 0
      BY <1>1, <2>1, <2>2
    <3>2. T[n] = Nothing /\ K[n] = 0
      BY <3>1
    <3>3. T \in [n .. n -> [Tmps -> Seq(Nodes)]] /\ K \in [n .. n -> 0 .. Len(source')]
      BY <2>6, <3>1
    <3>4. \A k \in n + 1 .. n : FALSE
      BY <1>1
    <3> HIDE DEF T, K
    <3> QED
      BY <2>4, <3>1, <3>2, <3>3, <3>4 DEF Certifies
  <2>8. Linked(T[n], pending', exprs')
    BY <2>1, <2>2 DEF Linked
  <2>9. n \in 1 .. n
    BY <1>1
  <2> HIDE DEF T, K
  <2>10. \E S, M : Certifies(S, M, n, code', source') /\ Linked(S[n], pending', exprs')
    BY <2>7, <2>8
  <2>11. \E S, M : Certifies(S, M, n, code', source') /\ Linked(S[Len(code')], pending', exprs')
    BY <2>4, <2>10
  <2> QED
    BY <2>4, <2>5, <2>9, <2>11 DEF CompiledInv
<1>6. CASE phase = "global" /\ phase' \in {"global", "done"}
  <2>0. g \in 1 .. n
    BY <1>1, <1>6 DEF CompiledInv
  <2>1. PICK T, K : Certifies(T, K, g, code, source) /\ Linked(T[n], pending, exprs)
    BY <1>1, <1>6 DEF CompiledInv
  <2>2. T[n] \in [Tmps -> Seq(Nodes)] /\ K[n] = Len(source)
    <3>1. n \in g .. n
      BY <1>1, <2>0
    <3> QED
      BY <1>1, <2>1, <3>1 DEF Certifies
  <2>3. \A k \in DOMAIN pending :
            pending[k].type # "none" => Holds(T[n], pending[k].operand, exprs[k])
    BY <2>1 DEF Linked
  <2>4. ASSUME UNCHANGED <<code, source>>, Linked(T[n], pending', exprs') PROVE CompiledInv'
    BY <1>1, <2>0, <2>1, <2>4 DEF CompiledInv
  <2>5. ASSUME NEW i \in Emitted, Emit(<<i>>), NEW u \in [Tmps -> Seq(Nodes)],
               source' \in Seq(Statements), Len(source) <= Len(source'),
               \A k \in 1 .. Len(source) : source'[k] = source[k],
               Follows(source', i, T[n], Len(source), u, Len(source')),
               Linked(u, pending', exprs')
        PROVE  CompiledInv'
    <3>1. \E S, M : Certifies(S, M, g, code \o <<i>>, source') /\ S[Len(code \o <<i>>)] = u
      <4>1. Follows(source', i, T[Len(code)], Len(source), u, Len(source')) /\ g \in 1 .. Len(code)
        BY <1>1, <2>0, <2>5
      <4> QED
        <5>1. g \in Nat /\ code \in Seq(Emitted) /\ source \in Seq(Statements)
          BY <1>1
        <5>2. Certifies(T, K, g, code, source)
          BY <2>1
        <5> QED
          BY <2>5, <4>1, <5>1, <5>2, CertifiesMore, ZenonT(60)
    <3>2. code' = code \o <<i>>
      BY <2>5 DEF Emit
    <3>3. Len(code') = n + 1 /\ code'[1] = code[1]
      <4>1. Len(code \o <<i>>) = n + 1 /\ <<i>> \in Seq(Emitted)
        BY <1>1, EmittedLast
      <4>2. (code \o <<i>>)[1] = code[1]
        BY <1>1, <4>1, EmitExtends
      <4> QED
        BY <3>2, <4>1, <4>2
    <3>4. PICK S, M : Certifies(S, M, g, code', source') /\ S[Len(code')] = u
      BY <3>1, <3>2
    <3>5. g \in 1 .. Len(code')
      BY <1>1, <2>0, <3>3
    <3>6. Linked(S[Len(code')], pending', exprs')
      BY <2>5, <3>4
    <3>7. code'[1].a.data = g
      BY <1>1, <3>3
    <3>8. \E X, Y : Certifies(X, Y, g, code', source') /\ Linked(X[Len(code')], pending', exprs')
      BY <3>4, <3>6
    <3> QED
      BY <3>5, <3>7, <3>8 DEF CompiledInv
  <2>6. ASSUME NEW i \in Emitted, Emit(<<i>>), NEW u \in [Tmps -> Seq(Nodes)],
               UNCHANGED source, Follows(source, i, T[n], Len(source), u, Len(source)), Linked(u, pending', exprs')
        PROVE  CompiledInv'
    <3>1. source' \in Seq(Statements) /\ Len(source) <= Len(source')
          /\ (\A k \in 1 .. Len(source) : source'[k] = source[k])
          /\ Follows(source', i, T[n], Len(source), u, Len(source'))
      BY <1>1, <2>6
    <3> QED
      BY <2>5, <2>6, <3>1
  <2>7. \A x \in Globals : /\ Offsets[x] = {Offset(x)} /\ Offset(x) \in Nat
    <3>1. \A x \in Globals : Offsets[x] = {Offset(x)} /\ x \in Symbols
      BY DEF Supported, Placed, Globals
    <3> QED
      BY <3>1, CodeGenAssumption
  <2>8. "DIV" \notin Ops /\ Ops \subseteq Opcodes
    BY DEF Supported, Opcodes
  <2>9. currentFunction = 0 /\ ~InBody
    BY <1>6 DEF SourceInv, InBody
  <2>10. CASE Number
    <3>1. PICK v \in Literals : CompileNumber(v) /\ Leaf("NUMBER", v)
      BY <2>10 DEF Number
    <3> DEFINE r == Result(Imm(v), "int32", Len(code))
               e == <<Node("NUMBER", v)>>
    <3>2. pending' = Append(pending, r) /\ exprs' = Append(exprs, e)
          /\ UNCHANGED <<code, source>>
      BY <3>1 DEF CompileNumber, Push, Leaf
    <3>3. r \in Results /\ e \in Seq(Nodes) /\ r.operand = Imm(v)
      BY <1>1, CodeGenAssumption, OperandTypes1, NodeTypes DEF Result, Results
    <3>4. Holds(T[n], r.operand, e)
      BY <3>3 DEF Holds
    <3>5. Linked(T[n], pending', exprs')
      <4> DEFINE t == T[n]
      <4>1. Linked(t, pending, exprs)
        BY <2>1
      <4>2. Holds(t, r.operand, e)
        BY <3>4
      <4> HIDE DEF t, r, e
      <4>3. Linked(t, pending', exprs')
        BY <3>2, <3>3, <4>1, <4>2, LinkedPushed
      <4> QED
        BY <4>3 DEF t
    <3> HIDE DEF r, e
    <3> QED
      BY <2>4, <3>2, <3>5
  <2>11. CASE Variable
    <3>1. PICK s \in Symbols : s \in Initialised /\ CompileVariable(s) /\ Leaf("VARIABLE", s)
      BY <1>6, <2>11 DEF Variable
    <3>2. PICK i \in Tmps, o \in Offsets[s], ty \in TypesOf[s] :
              /\ FirstFree(i)
              /\ Emit(<<Instr("LD", TmpReg(i), Ref(o))>>)
              /\ Push(Result(TmpReg(i), ty, Len(code) + 1))
      BY <3>1 DEF CompileVariable
    <3>3. PICK m \in 1 .. Len(source) : s = source[m].target
      BY <1>1, <3>1 DEF Initialised
    <3>4. s \in Globals
      <4>1. source[m] \in Statements
        BY <1>1
      <4> QED
        BY <3>3, <4>1 DEF Statements
    <3>5. o = Offset(s) /\ o \in Nat /\ ty \in Types
      BY <2>7, <3>4, CodeGenAssumption
    <3> DEFINE r == Result(TmpReg(i), ty, Len(code) + 1)
               e == <<Node("VARIABLE", s)>>
               ld == Instr("LD", TmpReg(i), Ref(o))
               u == [T[n] EXCEPT ![i] = e]
    <3>6. /\ r \in Results /\ r.operand = TmpReg(i) /\ e \in Seq(Nodes) /\ e # <<>>
          /\ ld \in Emitted /\ u \in [Tmps -> Seq(Nodes)] /\ u[i] = e
      <4>1. r \in Results /\ r.operand = TmpReg(i)
        BY <1>1, <3>5, OperandTypes1 DEF Result, Results
      <4>2. e \in Seq(Nodes) /\ e # <<>>
        BY NodeTypes
      <4>3. ld \in Emitted
        BY <3>5, OperandTypes1, EmittedType DEF Opcodes
      <4> QED
        BY <2>2, <4>1, <4>2, <4>3
    <3>7. Holds(u, r.operand, e)
      BY <3>6 DEF Holds
    <3>8. Follows(source, ld, T[n], Len(source), u, Len(source))
      <4>1. Loads(source, ld, T[n], Len(source), u, Len(source))
        BY <3>3, <3>5 DEF Loads, Instr
      <4> QED
        BY <4>1 DEF Follows
    <3>9. ASSUME NEW k \in DOMAIN pending, pending[k].type # "none"
          PROVE  Holds(u, pending[k].operand, exprs[k])
      <4>1. pending[k].operand # TmpReg(i)
        BY <3>2, HeldTmps DEF FirstFree, IsFree
      <4>2. Holds(T[n], pending[k].operand, exprs[k])
        BY <2>3, <3>9
      <4> HIDE DEF e
      <4> QED
        BY <2>2, <4>1, <4>2, HoldsWith
    <3>10. pending' = Append(pending, r) /\ exprs' = Append(exprs, e) /\ UNCHANGED source
           /\ Emit(<<ld>>)
      BY <3>1, <3>2 DEF Push, Leaf
    <3> HIDE DEF r, e, u, ld
    <3>11. Linked(u, pending', exprs')
      <4>1. Linked(u, pending, exprs)
        BY <3>9 DEF Linked
      <4> QED
        BY <3>6, <3>7, <3>10, <4>1, LinkedPushed
    <3> QED
      BY <2>6, <3>6, <3>8, <3>10, <3>11
  <2>12. CASE Binop
    <3>1. PICK op \in Ops :
              /\ CompileBinop(op) /\ IsReg(pending[Len(pending) - 1].operand)
              /\ exprs' = Append(SubSeq(exprs, 1, Len(exprs) - 2),
                              exprs[Len(exprs) - 1] \o exprs[Len(exprs)] \o <<Node("BINOP", op)>>)
              /\ UNCHANGED source
      BY <1>6, <2>12 DEF Binop, Supported
    <3>0. PICK p \in Nat : p = Len(pending) /\ p >= 2
      BY <1>1, <3>1 DEF CompileBinop, Operands
    <3> DEFINE L == pending[p - 1]
               R == pending[p]
               r == Result(L.operand, L.type, Len(code) + 1)
               i == Instr(op, L.operand, R.operand)
               e == exprs[p - 1] \o exprs[p] \o <<Node("BINOP", op)>>
    <3>2. /\ L.type # "none" /\ R.type # "none"
          /\ Emit(<<i>>) /\ pending' = Append(SubSeq(pending, 1, p - 2), r)
          /\ exprs' = Append(SubSeq(exprs, 1, p - 2), e)
      BY <1>1, <3>0, <3>1 DEF CompileBinop, Operands, Last
    <3>3. p - 1 \in DOMAIN pending /\ p \in DOMAIN pending /\ p - 1 # p
      <4>1. p - 1 \in 1 .. p /\ p \in 1 .. p /\ p - 1 # p
        BY <3>0
      <4> QED
        BY <1>1, <3>0, <4>1
    <3>4. Holds(T[n], L.operand, exprs[p - 1]) /\ Holds(T[n], R.operand, exprs[p])
      BY <2>3, <3>2, <3>3
    <3>5. PICK j \in Tmps : /\ L.operand = TmpReg(j) /\ T[n][j] # <<>>
                            /\ exprs[p - 1] = T[n][j]
      <4>1. IsReg(L.operand) /\ \A v \in Literals : ~IsReg(Imm(v))
        BY <3>0, <3>1 DEF IsReg, Imm
      <4> HIDE DEF L
      <4> QED
        BY <3>4, <4>1 DEF Holds
    <3> DEFINE u == [T[n] EXCEPT ![j] = e]
    <3>6. /\ exprs[p - 1] \in Seq(Nodes) /\ exprs[p] \in Seq(Nodes)
          /\ L \in Results /\ R \in Results
      BY <1>2, <3>3
    <3>7. e \in Seq(Nodes) /\ e # <<>>
      BY <3>6, OperationType
    <3>8. r \in Results /\ r.operand = TmpReg(j) /\ r.type = L.type
      BY <1>1, <3>5, <3>6 DEF Result, Results
    <3>9. i \in Emitted
      BY <2>8, <3>6, EmittedType DEF Results
    <3>10. u \in [Tmps -> Seq(Nodes)] /\ u[j] = e
      <4> HIDE DEF e
      <4> QED
        BY <2>2, <3>7
    <3>11. Follows(source, i, T[n], Len(source), u, Len(source))
      <4>1. i.opcode = op /\ i.a = TmpReg(j) /\ i.b = R.operand
        BY <3>5 DEF Instr
      <4>2. u = [T[n] EXCEPT ![j] = T[n][j] \o exprs[p] \o <<Node("BINOP", op)>>]
        BY <3>5
      <4> HIDE DEF i, u, e, L, R
      <4>3. Computes(i, T[n], Len(source), u, Len(source))
        BY <3>4, <3>5, <3>6, <4>1, <4>2 DEF Computes
      <4> QED
        BY <4>3 DEF Follows
    <3>12. Holds(u, r.operand, e)
      <4> HIDE DEF u, e, r
      <4> QED
        BY <3>7, <3>8, <3>10 DEF Holds
    <3>13. ASSUME NEW k \in 1 .. p - 2, pending[k].type # "none"
           PROVE  Holds(u, pending[k].operand, exprs[k])
      <4>1. k \in DOMAIN pending /\ k # p - 1
        BY <1>1, <3>0
      <4>2. pending[k].operand # TmpReg(j)
        BY <3>3, <3>5, <4>1, HeldTmps
      <4>3. Holds(T[n], pending[k].operand, exprs[k])
        BY <2>3, <3>13, <4>1
      <4> HIDE DEF e
      <4> QED
        BY <2>2, <4>2, <4>3, HoldsWith
    <3> HIDE DEF u, e, r, i, L, R
    <3>14. Linked(u, pending', exprs')
      BY <3>0, <3>2, <3>7, <3>8, <3>12, <3>13, LinkedJoined
    <3> QED
      BY <2>6, <3>1, <3>2, <3>9, <3>10, <3>11, <3>14
  <2>13. CASE Call
    <3>1. PICK f \in Fns : CompileCall(f, 0) /\ Leaf("CALL", f)
      BY <2>13 DEF Call
    <3> DEFINE r == Result(Reg(R_FNR), "none", Len(code) + 1)
               i == Instr("CALL", Ref(entry_ip[f]), Null)
               e == <<Node("CALL", f)>>
    <3>2. /\ Walking /\ Mentionable(f) /\ Emit(<<i>>) /\ exprs' = Append(exprs, e)
          /\ pending' = Append(SubSeq(pending, 1, Len(pending) - 0), r) /\ UNCHANGED source
      BY <3>1 DEF CompileCall, Leaf
    <3>3. i \in Emitted
      <4>1. entry_ip[f] \in Nat
        BY <3>2, CallsLaidOut
      <4> QED
        BY <4>1, OperandTypes1, EmittedType DEF Opcodes
    <3>4. r \in Results /\ r.type = "none" /\ e \in Seq(Nodes)
      BY <1>1, OperandTypes1, NodeTypes DEF Result, Results
    <3>5. SubSeq(pending, 1, Len(pending) - 0) = pending
      BY <1>1
    <3>6. Follows(source, i, T[n], Len(source), T[n], Len(source))
      BY DEF Follows, Instr
    <3> DEFINE t == T[n]
    <3>7. Linked(t, pending, exprs)
      BY <2>1
    <3>8. t \in [Tmps -> Seq(Nodes)] /\ Follows(source, i, t, Len(source), t, Len(source))
      BY <2>2, <3>6
    <3> HIDE DEF r, i, e
    <3>9. Linked(t, pending', exprs')
      <4> HIDE DEF t
      <4> QED
        BY <3>2, <3>4, <3>5, <3>7, LinkedPushed
    <3> QED
      BY <2>6, <3>2, <3>3, <3>8, <3>9
  <2>14. CASE Initialisation
    <3>1. PICK x \in Symbols :
              /\ CompileInitialisation(x) /\ MayAssign
              /\ source' = Append(source, [target |-> x, expr |-> exprs[1]])
      BY <1>6, <2>14 DEF Initialisation
    <3>2. /\ Walking /\ x \in Undeclared /\ DeclaredOrNext(x) /\ pending' = <<>>
          /\ Len(pending) = 1 /\ Last = pending[1]
      BY <3>1 DEF CompileInitialisation, ConsumeLast, Last
    <3>3. x \in Globals
      BY <2>9, <3>2 DEF Undeclared, HasDeclaration, Globals
    <3>4. PICK o \in Offsets[x] : Emit(<<Instr("ST", Ref(o), Last.operand)>>)
      BY <3>1 DEF CompileInitialisation
    <3>5. o = Offset(x) /\ o \in Nat
      BY <2>7, <3>3
    <3>6. pending[1].type # "none"
      BY <1>6, <3>1, <3>2 DEF MayAssign, Supported
    <3>7. 1 \in DOMAIN pending /\ Last.operand \in Operand
      BY <1>1, <1>2, <3>2 DEF Results
    <3>8. Holds(T[n], Last.operand, exprs[1])
      BY <2>3, <3>2, <3>6, <3>7
    <3> DEFINE i == Instr("ST", Ref(o), Last.operand)
               st == [target |-> x, expr |-> exprs[1]]
               l == Len(source) + 1
    <3>9. i \in Emitted
      BY <3>5, <3>7, OperandTypes1, EmittedType DEF Opcodes
    <3>10. st \in Statements /\ st.target = x /\ st.expr = exprs[1]
      BY <1>2, <3>3, <3>7 DEF Statements
    <3>11. i.opcode = "ST" /\ i.a = Ref(Offset(x)) /\ i.b = Last.operand
      BY <3>5 DEF Instr
    <3> HIDE DEF st, i
    <3>12. /\ source' \in Seq(Statements) /\ Len(source') = l /\ source'[l] = st
           /\ \A k \in 1 .. Len(source) : source'[k] = source[k]
           /\ Len(source) <= Len(source')
      BY <1>1, <3>1, <3>10, AppendProperties DEF st
    <3>13. Follows(source', i, T[n], Len(source), Nothing, Len(source'))
      <4>1. Assigns(source', i, T[n], Len(source), Nothing, l)
        BY <3>8, <3>10, <3>11, <3>12 DEF Assigns
      <4> QED
        BY <3>12, <4>1 DEF Follows
    <3>14. Nothing \in [Tmps -> Seq(Nodes)]
      BY DEF Nothing
    <3>15. Linked(Nothing, pending', exprs')
      BY <3>2 DEF Linked
    <3> QED
      BY <2>5, <3>4, <3>9, <3>12, <3>13, <3>14, <3>15 DEF i
  <2>15. CASE NoEffect
    <3>1. UNCHANGED <<code, source>> /\ pending' = <<>>
      BY <2>9, <2>15 DEF NoEffect, CompileDeclaration, CompileAssignment,
                         CompileExprStatement, CompileReturnValue, CompileReturnVoid
    <3>2. Linked(T[n], pending', exprs')
      BY <3>1 DEF Linked
    <3> QED
      BY <2>4, <3>1, <3>2
  <2>16. CASE Finish /\ UNCHANGED <<exprs, source>>
    <3> DEFINE i == Instr("HALT", Null, Null)
               t == T[n]
    <3>1. Emit(<<i>>) /\ pending' = <<>> /\ UNCHANGED source
      BY <2>16 DEF Finish
    <3>2. i \in Emitted
      BY OperandTypes1, EmittedType DEF Opcodes
    <3>3. Follows(source, i, t, Len(source), t, Len(source))
      BY DEF Follows, Instr
    <3>4. Linked(t, pending', exprs')
      BY <3>1 DEF Linked
    <3>5. t \in [Tmps -> Seq(Nodes)]
      BY <2>2
    <3> HIDE DEF i
    <3> QED
      BY <2>6, <3>1, <3>2, <3>3, <3>4, <3>5
  <2>17. ASSUME Layout PROVE Finish /\ UNCHANGED <<exprs, source>>
    BY <1>6, <2>9, <2>17 DEF Layout, BeginFunction, EndFunction, StartGlobal
  <2>18. ~Fail
    BY <1>6 DEF Fail, VariableOutOfTemps, BinopOutOfTemps, RejectReturn, RejectFunction, Abort
  <2> QED
    BY <1>3, <1>6, <2>10, <2>11, <2>12, <2>13, <2>14, <2>15, <2>16, <2>17, <2>18
       DEF ToolNext, Compile, Load, Run, toolVars, vars
<1>7. CASE phase # "global" /\ phase' \in {"global", "done"}
  <2>1. ASSUME Compile PROVE StartGlobal /\ UNCHANGED <<exprs, source>>
    <3>1. ~Walking \/ InBody
      BY <1>7 DEF Walking
    <3>2. ~(Number \/ Variable \/ Binop \/ Call \/ Initialisation \/ NoEffect)
      BY <1>7
         DEF Number, Variable, Binop, Call, Initialisation, NoEffect, CompileNumber,
             CompileVariable, CompileBinop, CompileBinopImmediate, CompileCall, Operands,
             CompileInitialisation, CompileDeclaration, CompileAssignment,
             CompileExprStatement, CompileReturnValue, CompileReturnVoid, Walking, InBody
    <3>3. ~Fail
      BY <1>7 DEF Fail, VariableOutOfTemps, BinopOutOfTemps, RejectReturn, RejectFunction, Abort
    <3>4. Layout
      BY <2>1, <3>2, <3>3 DEF Compile
    <3> QED
      BY <1>7, <3>4 DEF Layout, BeginFunction, EndFunction, Finish, InBody
  <2> QED
    BY <1>3, <1>5, <2>1 DEF ToolNext, Load, Run, toolVars, vars
<1> QED
  BY <1>4, <1>6, <1>7

\* The record exists whatever is compiled.
LEMMA GlobalCodeCompiled ==
    ASSUME Supported
    PROVE  ToolSpec => []CompiledInv
<1>1. ToolInit => CompiledInv
  BY DEF ToolInit, Init, CompiledInv
<1>2. TypeOK /\ TempsBalanced /\ LaidOut /\ PendingInv /\ SourceInv /\ CompiledInv
      /\ [ToolNext]_toolVars => CompiledInv'
  BY CompiledStep
<1>3. "DIV" \notin Ops
  BY DEF Supported
<1>4. Spec => []PendingInv
  BY <1>3, PendingInductive
<1>5. TypeOK /\ TempsAccounted => TempsBalanced
  BY BalancedIsAccounted DEF TempsBalanced
<1> QED
  BY <1>1, <1>2, <1>4, <1>5, TypeCorrect, TempsAreAccounted, LayoutInductive, SourceRecorded,
     CompilerBehaves, PTL DEF ToolSpec

-----------------------------------------------------------------------------
(***************************************************************************)
(* The machine.  Until a program is loaded it stands before its first      *)
(* instruction; what is loaded is what was compiled, and can be executed.  *)
(***************************************************************************)
MachineReady ==
    /\ Loaded => phase = "done" /\ program = code
    /\ ~Loaded => pc = 0
    /\ VMTypeOK

\* The compiler is done when it is done.
LEMMA DoneIsDone ==
    ASSUME phase = "done", Compile
    PROVE  FALSE
<1>1. ~Walking /\ ~InBody
  BY DEF Walking, InBody
<1>2. ~(Number \/ Variable \/ Binop \/ Call \/ Initialisation \/ NoEffect)
  BY <1>1
     DEF Number, Variable, Binop, Call, Initialisation, NoEffect, CompileNumber,
         CompileVariable, CompileBinop, CompileBinopImmediate, CompileCall, Operands,
         CompileInitialisation, CompileDeclaration, CompileAssignment,
         CompileExprStatement, CompileReturnValue, CompileReturnVoid
<1>3. ~Fail
  BY <1>1 DEF Fail, VariableOutOfTemps, BinopOutOfTemps, RejectReturn, RejectFunction, Operands
<1>4. ~Layout
  BY <1>1 DEF Layout, BeginFunction, EndFunction, StartGlobal, Finish
<1> QED
  BY <1>2, <1>3, <1>4 DEF Compile

\* What the compiler emits is executable.
LEMMA CodeIsExecutable ==
    ASSUME TypeOK, CodeInv, CallsResolve
    PROVE  Executable(code)
<1>1. code \in Seq(Emitted) /\ DOMAIN code = 1 .. Len(code) /\ Len(code) \in Nat
  BY DEF TypeOK
<1>2. ASSUME NEW k \in DOMAIN code
      PROVE  /\ code[k] \in Instruction
             /\ \A op \in {code[k].a, code[k].b} : IsReg(op) => op.data < REG_COUNT
  <2>1. code[k] \in Emitted /\ Plain(code[k])
    BY <1>1 DEF CodeInv
  <2>2. code[k].a \in Operand /\ (IsReg(code[k].a) => code[k].a.data \in R_TMP0 .. R_FNR)
    <3>1. CASE code[k].opcode # "CALL"
      BY <2>1, <3>1 DEF Plain, Ordinary
    <3>2. CASE code[k].opcode = "CALL"
      <4>1. PICK f \in Fns : code[k].a = Ref(entry_ip[f]) /\ entry_ip[f] \in 1 .. k - 1
        BY <3>2 DEF CallsResolve
      <4>2. entry_ip[f] \in Nat
        BY <1>1, <4>1
      <4>3. ~IsReg(code[k].a)
        BY <4>1 DEF IsReg, Ref
      <4> QED
        BY <4>1, <4>2, <4>3, OperandTypes1
    <3> QED
      BY <3>1, <3>2
  <2>3. code[k].b \in Operand /\ (IsReg(code[k].b) => code[k].b.data \in R_TMP0 .. R_FNR)
    BY <2>1 DEF Plain, Ordinary
  <2>4. code[k] \in Instruction
    BY <2>1, <2>2, <2>3 DEF Emitted, Instruction
  <2>5. \A d \in R_TMP0 .. R_FNR : d < REG_COUNT
    BY DEF R_TMP0, R_FNR, REG_COUNT
  <2> QED
    BY <2>2, <2>3, <2>4, <2>5
<1>3. code \in Seq(Instruction)
  BY <1>1, <1>2
<1> QED
  BY <1>2, <1>3 DEF Executable

\* No step leaves the machine unready.
LEMMA MachineReadyStep ==
    ASSUME Supported, TypeOK, CodeInv, LaidOut, MachineReady, [ToolNext]_toolVars
    PROVE  MachineReady'
<1>1. CASE Compile
  <2>1. ~Loaded
    BY <1>1, DoneIsDone DEF MachineReady
  <2>2. UNCHANGED vmVars
    BY <1>1 DEF Compile
  <2> QED
    BY <2>1, <2>2 DEF MachineReady, Loaded, vmVars, VMTypeOK, pc
<1>2. CASE Load
  <2>1. Len(code) > 0 /\ code \in Seq(Emitted)
    BY DEF LaidOut, TypeOK
  <2>2. code # <<>>
    BY <2>1
  <2> QED
    BY <1>2, <2>2 DEF Load, MachineReady, Loaded, vars, VMTypeOK, pc
<1>3. CASE Run
  <2>1. Executable(program)
    BY <1>3, CodeIsExecutable DEF Run, MachineReady, LaidOut
  <2>2. VMTypeOK' /\ program' = program
    BY <1>3, <2>1, StepKeepsTypes, ProgramIsFixed DEF Run, MachineReady
  <2> QED
    BY <1>3, <2>2 DEF Run, MachineReady, Loaded, vars
<1>4. CASE UNCHANGED toolVars
  BY <1>4 DEF toolVars, vars, vmVars, MachineReady, Loaded, VMTypeOK, pc
<1> QED
  BY <1>1, <1>2, <1>3, <1>4 DEF ToolNext

\* The machine is ready all the time: it never gets what it cannot execute.
LEMMA MachineIsReady ==
    ASSUME Supported
    PROVE  ToolSpec => []MachineReady
<1>1. ToolInit => MachineReady
  <2> SUFFICES ASSUME ToolInit PROVE MachineReady
    OBVIOUS
  <2>1. VMTypeOK
    BY BootIsTyped DEF ToolInit, Supported
  <2>2. pc = 0
    BY DEF ToolInit, Boot, pc, R_PC, R_SP, REG_COUNT
  <2> QED
    BY <2>1, <2>2 DEF ToolInit, MachineReady, Loaded
<1>2. TypeOK /\ CodeInv /\ LaidOut /\ MachineReady /\ [ToolNext]_toolVars => MachineReady'
  BY MachineReadyStep
<1> QED
  BY <1>1, <1>2, TypeCorrect, LayoutInductive, CodeIsPlain, CompilerBehaves, PTL DEF ToolSpec

-----------------------------------------------------------------------------
(***************************************************************************)
(* One step of the machine in code that is out of the ordinary nowhere: it *)
(* goes on to the next instruction, or leaves everything but the status.   *)
(***************************************************************************)
LEMMA Steps ==
    ASSUME VMNext, VMTypeOK, Supported, pc < Len(program) => Plain(program[pc + 1])
    PROVE  \/ NoOperation \/ ADD_SUB_MUL \/ MOV \/ ST \/ LD
           \/ UNCHANGED <<program, regs, heap>>
<1>1. ASSUME NEW S, At(S), S \cap UsedOpcodes = {} PROVE FALSE
  BY <1>1 DEF At, Plain
<1>2. UsedOpcodes \subseteq {"ADD", "SUB", "MUL", "JMP", "LD", "MOV", "ST", "CALL", "RET", "HALT"}
  BY DEF Supported, UsedOpcodes
<1>3. /\ {"DIV"} \cap UsedOpcodes = {} /\ {"PUSH"} \cap UsedOpcodes = {}
      /\ {"POP"} \cap UsedOpcodes = {} /\ {"PUTC"} \cap UsedOpcodes = {}
      /\ {"GETC"} \cap UsedOpcodes = {}
  BY <1>2
<1>4. ~DIV /\ ~PUSH /\ ~POP /\ ~PUTC /\ ~GETC
  BY <1>1, <1>3 DEF DIV, PUSH, POP, PUTC, GETC
<1>5. CharThrows => Throw
  BY <1>1, <1>3 DEF CharThrows
<1> QED
  BY <1>4, <1>5 DEF VMNext, ArithmeticThrows, MoveThrows, Exit, Throw

\* A write to an operand that is not the counter, and the counter's increment.
LEMMA RegistersAfter ==
    ASSUME VMTypeOK, NEW o, Ordinary(o), NEW val, Advance(RegsWith(regs, o, val)), pc + 1 < Word
    PROVE  /\ pc' = pc + 1
           /\ \A i \in Tmps : regs'[R_TMP0 + i] =
                                 IF o = TmpReg(i) THEN val ELSE regs[R_TMP0 + i]
<1> DEFINE file == RegsWith(regs, o, val)
<1>1. DOMAIN file = 0 .. REG_COUNT - 1 /\ file[R_PC] = pc
  BY DEF RegsWith, VMTypeOK, Ordinary, IsReg, R_PC, R_TMP0, R_FNR, pc
<1>2. \A i \in Tmps : /\ R_TMP0 + i \in 0 .. REG_COUNT - 1 /\ R_TMP0 + i # R_PC
                      /\ R_TMP0 + i \in R_TMP0 .. R_FNR
  BY CodeGenAssumption DEF Tmps, REG_COUNT, R_TMP0, R_FNR, R_PC
<1>3. \A i \in Tmps : file[R_TMP0 + i] = IF o = TmpReg(i) THEN val ELSE regs[R_TMP0 + i]
  <2> SUFFICES ASSUME NEW i \in Tmps
               PROVE  file[R_TMP0 + i] = IF o = TmpReg(i) THEN val ELSE regs[R_TMP0 + i]
    OBVIOUS
  <2>1. CASE o = TmpReg(i)
    BY <1>2, <2>1 DEF RegsWith, TmpReg, Reg, IsReg, VMTypeOK
  <2>2. CASE o # TmpReg(i) /\ IsReg(o)
    <3>1. o.data # R_TMP0 + i
      BY <2>2 DEF Ordinary, Operand, IsReg, TmpReg, Reg
    <3> QED
      BY <1>2, <2>2, <3>1 DEF RegsWith, VMTypeOK
  <2>3. CASE ~IsReg(o)
    BY <2>3 DEF RegsWith, TmpReg, Reg, IsReg
  <2> QED
    BY <2>1, <2>2, <2>3
<1>4. R_PC \in DOMAIN file /\ \A i \in Tmps : R_TMP0 + i \in DOMAIN file
  BY <1>1, <1>2 DEF R_PC, REG_COUNT
<1> HIDE DEF file
<1>5. regs' = [file EXCEPT ![R_PC] = (file[R_PC] + 1) % Word]
  BY DEF Advance, file
<1>6. regs'[R_PC] = (pc + 1) % Word /\ \A i \in Tmps : regs'[R_TMP0 + i] = file[R_TMP0 + i]
  BY <1>1, <1>2, <1>4, <1>5
<1>7. (pc + 1) % Word = pc + 1
  <2>1. pc \in Nat /\ Word \in Nat
    BY WordNumbers DEF VMTypeOK, pc, R_PC, REG_COUNT
  <2> QED
    BY <2>1
<1> QED
  BY <1>3, <1>6, <1>7 DEF pc

-----------------------------------------------------------------------------
(***************************************************************************)
(* Where the machine is in the source, and the values of the variables: a  *)
(* count of the stores passed, and the low bytes of words.                 *)
(***************************************************************************)
StoresOf(p) == {c \in DOMAIN p : c > p[1].a.data /\ p[c].opcode = "ST"}

StatementAt(p, c) == IF p # <<>> THEN 1 + Cardinality({x \in StoresOf(p) : x <= c}) ELSE 0

EnvAt(src, k, memory) ==
    [x \in {src[n].target : n \in DOMAIN src \cap 1 .. k - 1} |->
        WordAt(memory, Offset(x)) % Modulus]

Updated(env, x, val) == [y \in DOMAIN env \cup {x} |-> IF y = x THEN val ELSE env[y]]

\* The mapping of Toolchain in these terms.
LEMMA WhereItIs ==
    /\ NextStatement = StatementAt(program, pc)
    /\ Environment = EnvAt(source, NextStatement, heap)
<1>1. Stores = StoresOf(program)
  BY DEF Stores, StoresOf, start
<1>2. NextStatement = StatementAt(program, pc)
  BY <1>1 DEF NextStatement, StatementAt, Loaded
<1>3. Environment = EnvAt(source, NextStatement, heap)
  BY DEF Environment, EnvAt, Initialised, VariableAt, Offset
<1> QED
  BY <1>2, <1>3

\* The record's count of statements is that of the stores.
LEMMA StoresCounted ==
    ASSUME NEW p \in Seq(Emitted), NEW g \in Nat, g = p[1].a.data, g \in 1 .. Len(p),
           NEW src, Len(src) \in Nat, NEW T, NEW K, Certifies(T, K, g, p, src)
    PROVE  /\ \A c \in 0 .. g : StatementAt(p, c) = 1
           /\ \A c \in g .. Len(p) : StatementAt(p, c) = K[c] + 1
<1>1. PICK m \in Nat : m = Len(p) /\ DOMAIN p = 1 .. m
  OBVIOUS
<1>2. PICK n \in Nat : m = g + n
  <2>1. m - g \in Nat /\ m = g + (m - g)
    BY <1>1
  <2> QED
    BY <2>1
<1> DEFINE Passed(c) == {x \in StoresOf(p) : x <= c}
           S == {i \in 0 .. n : IsFiniteSet(Passed(g + i)) /\ Cardinality(Passed(g + i)) = K[g + i]}
<1>3. /\ Len(p) = m /\ g \in 1 .. m /\ p # <<>>
      /\ \A x \in StoresOf(p) : x > g /\ x \in 1 .. m
  BY <1>1 DEF StoresOf
<1>4. T \in [g .. m -> [Tmps -> Seq(Nodes)]] /\ K \in [g .. m -> 0 .. Len(src)]
       /\ K[g] = 0 /\ \A c \in g + 1 .. m : Follows(src, p[c], T[c - 1], K[c - 1], T[c], K[c])
  BY <1>3 DEF Certifies
<1>5. \A c \in 0 .. g : Passed(c) = {}
  BY <1>3
<1>6. 0 \in S
  <2>1. Passed(g + 0) = {} /\ g + 0 = g
    BY <1>5
  <2>2. K[g + 0] = 0 /\ 0 \in 0 .. n
    BY <1>4, <2>1
  <2>3. IsFiniteSet(Passed(g + 0)) /\ Cardinality(Passed(g + 0)) = 0
    <3> HIDE DEF Passed
    <3> QED
      BY <2>1, FS_EmptySet
  <2> HIDE DEF Passed
  <2> QED
    BY <2>2, <2>3
<1>7. \A i \in 0 .. n - 1 :
          /\ i \in 0 .. n /\ i + 1 \in 0 .. n
          /\ g + (i + 1) \in g + 1 .. m /\ g + (i + 1) - 1 = g + i
  <2> HIDE DEF S, Passed
  <2> QED
    BY <1>1, <1>2, SMTT(30)
<1>8. \A c \in g + 1 .. m : c \in g .. m /\ c - 1 \in g .. m /\ c \in 1 .. m /\ c > g
  <2> HIDE DEF S, Passed
  <2> QED
    BY <1>1, <1>3
<1>9. ASSUME NEW i \in 0 .. n - 1, i \in S PROVE i + 1 \in S
  <2>1. /\ i \in 0 .. n /\ i + 1 \in 0 .. n
        /\ g + (i + 1) \in g + 1 .. m /\ g + (i + 1) - 1 = g + i
    BY <1>7
  <2>2. PICK c \in g + 1 .. m : c = g + (i + 1)
    BY <2>1
  <2>3. c - 1 = g + i
    <3>1. \A x, y \in Int : (x + (y + 1)) - 1 = x + y
      OBVIOUS
    <3>2. g \in Int /\ i \in Int
      OBVIOUS
    <3>3. (g + (i + 1)) - 1 = g + i
      BY <3>1, <3>2
    <3>4. c = g + (i + 1)
      BY <2>2
    <3>5. c - 1 = (g + (i + 1)) - 1
      BY ONLY <3>4
    <3> QED
      BY ONLY <3>3, <3>5
  <2>4. /\ c = g + (i + 1) /\ c \in g + 1 .. m /\ c - 1 = g + i
        /\ i \in 0 .. n /\ i + 1 \in 0 .. n
    BY <2>1, <2>2, <2>3
  <2>5. Follows(src, p[c], T[c - 1], K[c - 1], T[c], K[c])
    BY <1>4, <2>4
  <2>6. K[c - 1] \in Nat /\ K[c] \in Nat
    <3>1. c - 1 \in g .. m /\ c \in g .. m
      BY <1>8, <2>4
    <3>2. K[c - 1] \in 0 .. Len(src) /\ K[c] \in 0 .. Len(src)
      BY <1>4, <3>1
    <3> QED
      BY <3>2
  <2>7. c \in DOMAIN p /\ c > g /\ c \in Nat
    <3>1. c \in 1 .. m /\ c > g
      BY <1>8, <2>4
    <3> QED
      BY <1>1, <3>1
  <2>8. IsFiniteSet(Passed(c - 1)) /\ Cardinality(Passed(c - 1)) = K[c - 1]
    BY <1>9, <2>4
  <2>9. CASE p[c].opcode = "ST"
    <3>1. K[c] = K[c - 1] + 1
      BY <2>5, <2>9, CodeGenAssumption DEF Follows, Loads, Computes, Assigns, Arithmetic
    <3>2. Passed(c) = Passed(c - 1) \cup {c} /\ c \notin Passed(c - 1)
      BY <1>3, <2>7, <2>9 DEF StoresOf
    <3> HIDE DEF Passed
    <3>3. IsFiniteSet(Passed(c)) /\ Cardinality(Passed(c)) = K[c]
      BY <2>8, <3>1, <3>2, FS_AddElement
    <3> QED
      BY <1>9, <2>4, <3>3
  <2>10. CASE p[c].opcode # "ST"
    <3>1. K[c] = K[c - 1]
      BY <2>5, <2>10 DEF Follows, Loads, Computes, Assigns
    <3>2. Passed(c) = Passed(c - 1)
      BY <1>3, <2>7, <2>10 DEF StoresOf
    <3> HIDE DEF Passed
    <3> QED
      BY <1>9, <2>4, <2>8, <3>1, <3>2
  <2> QED
    BY <2>9, <2>10
<1>10. \A i \in 0 .. n : i \in S
  <2> HIDE DEF S
  <2> QED
    BY <1>6, <1>9, UpTo
<1>11. ASSUME NEW c \in g .. Len(p) PROVE Cardinality(Passed(c)) = K[c] /\ K[c] \in Nat
  <2>1. c - g \in 0 .. n /\ g + (c - g) = c
    <3>1. c \in g .. m
      BY <1>3
    <3> QED
      BY <1>2, <3>1
  <2>2. K[c] \in Nat
    <3>1. K[c] \in 0 .. Len(src)
      BY <1>3, <1>4
    <3> QED
      BY <3>1
  <2> HIDE DEF Passed
  <2> QED
    BY <1>10, <2>1, <2>2
<1>12. \A c : StatementAt(p, c) = 1 + Cardinality(Passed(c))
  BY <1>3 DEF StatementAt
<1> HIDE DEF Passed
<1>13. ASSUME NEW c \in 0 .. g PROVE StatementAt(p, c) = 1
  <2>1. Cardinality(Passed(c)) = 0
    BY <1>5, FS_EmptySet
  <2> QED
    BY <1>12, <2>1
<1>14. ASSUME NEW c \in g .. Len(p) PROVE StatementAt(p, c) = K[c] + 1
  <2>1. Cardinality(Passed(c)) = K[c] /\ K[c] \in Nat
    BY <1>11
  <2> QED
    BY <1>12, <2>1
<1> QED
  BY <1>13, <1>14

\* What a store to a variable does to the values of all: nothing to those
\* before it, however far it reaches.
LEMMA StoredEnv ==
    ASSUME Supported, VMTypeOK, SourceInv, NEW k \in 1 .. Len(source), NEW x,
           x = source[k].target, NEW val \in 0 .. Word - 1
    PROVE  EnvAt(source, k + 1, WithWord(heap, Offset(x), val)) =
              Updated(EnvAt(source, k, heap), x, val % Modulus)
<1> DEFINE a == Offset(x)
           after == WithWord(heap, a, val)
           old == EnvAt(source, k, heap)
           new == EnvAt(source, k + 1, after)
<1>1. source \in Seq(Statements) /\ DOMAIN source = 1 .. Len(source) /\ Len(source) \in Nat
  BY DEF SourceInv
<1>2. \A m \in DOMAIN source : source[m].target \in Globals
  <2>1. \A m \in DOMAIN source : source[m] \in Statements
    BY <1>1
  <2> QED
    BY <2>1 DEF Statements
<1>3. PICK n \in 1 .. ImmBytes : Placed(n)
  BY DEF Supported
<1>4. n \in 0 .. WordBytes /\ n \in Nat /\ WordBytes \in Nat /\ HeapSize \in Nat
  BY VMAssumption
<1>5. \A y \in Globals : Offset(y) \in Nat /\ Offset(y) + WordBytes <= HeapSize
  <2>1. \A y \in Globals : Offsets[y] = {Offset(y)} /\ Offset(y) + WordBytes <= HeapSize /\ y \in Symbols
    BY <1>3 DEF Placed, Globals
  <2> QED
    BY <2>1, CodeGenAssumption
<1>6. x \in Globals /\ a \in Nat /\ a + WordBytes <= HeapSize
  BY <1>1, <1>2, <1>5
<1>7. DOMAIN old = {source[m].target : m \in DOMAIN source \cap 1 .. k - 1}
      /\ DOMAIN new = {source[m].target : m \in DOMAIN source \cap 1 .. k}
  BY DEF EnvAt
<1>8. DOMAIN new = DOMAIN old \cup {x}
  <2>1. DOMAIN source \cap 1 .. k = (DOMAIN source \cap 1 .. k - 1) \cup {k}
    BY <1>1
  <2> HIDE DEF old, new
  <2> QED
    BY <1>7, <2>1
<1>9. val \in Int /\ DOMAIN heap = HeapBytes /\ HeapBytes = 0 .. HeapSize - 1
  BY WordNumbers DEF VMTypeOK, HeapBytes
<1>10. a .. a + WordBytes - 1 \subseteq DOMAIN heap
  BY <1>4, <1>6, <1>9
<1>11. WordAt(after, a) = val
  BY <1>6, <1>10, WordReadBack
<1>12. ASSUME NEW y \in DOMAIN old, y # x PROVE new[y] = old[y]
  <2>1. PICK m \in 1 .. k - 1 : y = source[m].target /\ m \in DOMAIN source
    BY <1>1, <1>7
  <2>2. y \in Globals /\ y < x
    <3>1. y \in Globals
      BY <1>2, <2>1
    <3>2. k \in DOMAIN source /\ m < k
      BY <1>1
    <3>3. source[m].target < source[k].target
      BY <2>1, <3>2 DEF SourceInv
    <3> QED
      BY <2>1, <3>1, <3>3
  <2>3. PICK b \in Nat : b = Offset(y) /\ b + n <= a /\ b + WordBytes <= HeapSize
    BY <1>3, <1>5, <1>6, <2>2 DEF Placed
  <2>4. \A i \in b .. b + n - 1 : after[i] = heap[i]
    <3>1. \A i \in b .. b + n - 1 : i \in DOMAIN heap /\ i \notin a .. a + WordBytes - 1
      <4> HIDE DEF a
      <4> QED
        BY <1>4, <1>6, <1>9, <2>3, SMTT(30)
    <3> QED
      BY <3>1 DEF WithWord
  <2>5. after \in [HeapBytes -> 0 .. Base - 1]
    <3>1. Ref(a) \in Operand /\ HeapWith(Ref(a), val) = after
      BY <1>6, OperandTypes1 DEF HeapWith, IsRef, Ref
    <3> HIDE DEF after
    <3> QED
      BY <3>1, HeapWritten
  <2>6. \A i \in b .. b + WordBytes - 1 : after[i] \in 0 .. Base - 1 /\ heap[i] \in 0 .. Base - 1
    <3>1. \A i \in b .. b + WordBytes - 1 : i \in HeapBytes
      BY <1>4, <1>9, <2>3
    <3> HIDE DEF after
    <3> QED
      BY <2>5, <3>1 DEF VMTypeOK
  <2> HIDE DEF after
  <2>7. WordAt(after, b) % Power(n) = WordAt(heap, b) % Power(n)
    <3>1. b \in Int /\ n \in 0 .. WordBytes
      BY <1>4
    <3> QED
      BY <2>4, <2>6, <3>1, LowBytes
  <2>8. Modulus = Power(n)
    BY <1>3 DEF Placed
  <2>9. new[y] = WordAt(after, b) % Modulus /\ old[y] = WordAt(heap, b) % Modulus
    BY <1>7, <1>8, <2>3 DEF EnvAt
  <2> QED
    BY <2>7, <2>8, <2>9
<1>13. new[x] = val % Modulus
  <2>1. new[x] = WordAt(after, a) % Modulus
    BY <1>7, <1>8 DEF EnvAt
  <2> QED
    BY <1>11, <2>1
<1>14. new = [y \in DOMAIN new |-> new[y]]
  BY DEF EnvAt
<1> HIDE DEF new, old, after, a
<1>15. new = [y \in DOMAIN old \cup {x} |-> IF y = x THEN val % Modulus ELSE old[y]]
  BY <1>8, <1>12, <1>13, <1>14
<1>16. new = Updated(old, x, val % Modulus)
  BY <1>15 DEF Updated
<1> QED
  BY <1>16 DEF new, old, after, a

-----------------------------------------------------------------------------
(***************************************************************************)
(* The values in the temporaries are those of the record's expressions.    *)
(***************************************************************************)
Values(t, env, file) ==
    \A i \in Tmps : t[i] # <<>> => Evaluates(env, t[i], file[R_TMP0 + i] % Modulus)

\* An operand of the record reads as the value of its expression.
LEMMA OperandValue ==
    ASSUME Supported, NEW t, NEW env, Values(t, env, regs), NEW o, NEW e, Holds(t, o, e),
           NEW y \in ReadValues(o)
    PROVE  Evaluates(env, e, y % Modulus)
<1>1. ASSUME NEW v \in Literals, o = Imm(v), e = <<Node("NUMBER", v)>>
      PROVE  Evaluates(env, e, y % Modulus)
  <2>1. v \in Nat
    BY CodeGenAssumption
  <2>2. y = v % Immediate
    BY <1>1 DEF ReadValues, Imm
  <2>3. PICK n \in 1 .. ImmBytes : Placed(n)
    BY DEF Supported
  <2>4. Modulus = Power(n)
    BY <2>3 DEF Placed
  <2>5. (v % Immediate) % Modulus = v % Modulus
    BY <2>1, <2>4, ImmediateValue
  <2>6. Evaluates(env, <<Node("NUMBER", v)>>, v % Modulus)
    BY <2>1, NumberValue
  <2> QED
    BY <1>1, <2>2, <2>5, <2>6
<1>2. ASSUME NEW i \in Tmps, o = TmpReg(i), t[i] # <<>>, e = t[i]
      PROVE  Evaluates(env, e, y % Modulus)
  <2>1. y = regs[R_TMP0 + i]
    BY <1>2 DEF ReadValues, TmpReg, Reg
  <2> QED
    BY <1>2, <2>1 DEF Values
<1> QED
  BY <1>1, <1>2 DEF Holds

\* An operator's result: the value of the operation.
LEMMA ComputedExpression ==
    ASSUME Supported, NEW env, NEW op \in Ops, NEW a \in Seq(Nodes), NEW b \in Seq(Nodes),
           NEW x \in Int, NEW y \in Int,
           Evaluates(env, a, x % Modulus), Evaluates(env, b, y % Modulus)
    PROVE  Evaluates(env, a \o b \o <<Node("BINOP", op)>>, Compute(op, x, y) % Modulus)
<1>1. op \in {"ADD", "SUB", "MUL"} /\ op \in Opcodes
  BY DEF Supported, Opcodes
<1>2. Compute(op, x, y) % Modulus = Source!ApplyOp(op, x % Modulus, y % Modulus)
  BY <1>1, ComputedValue
<1>3. Compute(op, x, y) % Modulus \in Int
  <2>1. Compute(op, x, y) \in Int
    <3>1. x + y \in Int /\ x - y \in Int /\ x * y \in Int
      OBVIOUS
    <3>2. \A z \in Int : z % Word \in Int
      BY WordNumbers, Division
    <3> QED
      BY <1>1, <3>1, <3>2 DEF Compute
  <2> HIDE DEF Compute
  <2> QED
    BY <2>1, ModulusDividesWord, Division
<1> QED
  BY <1>1, <1>2, <1>3, OperationValue

-----------------------------------------------------------------------------
(***************************************************************************)
(* What each kind of instruction does to the values in the temporaries.    *)
(***************************************************************************)
LEMMA LoadStep ==
    ASSUME Supported, VMTypeOK, SourceInv, pc + 1 < Word, LD,
           NEW t \in [Tmps -> Seq(Nodes)], NEW k \in 0 .. Len(source), NEW u, NEW l,
           Loads(source, program[pc + 1], t, k, u, l),
           NEW env, env = EnvAt(source, k + 1, heap), Values(t, env, regs)
    PROVE  pc' = pc + 1 /\ heap' = heap /\ Values(u, env, regs')
<1>1. PICK j \in Tmps, m \in 1 .. k :
        /\ opA = TmpReg(j) /\ opB = Ref(Offset(source[m].target))
        /\ u = [t EXCEPT ![j] = <<Node("VARIABLE", source[m].target)>>]
  BY DEF Loads, opA, opB
<1>2. PICK x : x = source[m].target
  OBVIOUS
<1>3. PICK n \in 1 .. ImmBytes : Placed(n)
  BY DEF Supported
<1>4. m \in DOMAIN source /\ x \in Globals
  <2>1. source \in Seq(Statements) /\ m \in 1 .. Len(source)
    BY DEF SourceInv
  <2>2. m \in DOMAIN source /\ source[m] \in Statements
    BY <2>1
  <2> QED
    BY <1>2, <2>2 DEF Statements
<1>5. PICK a \in Nat : a = Offset(x) /\ a + WordBytes <= HeapSize
  <2>1. Offsets[x] = {Offset(x)} /\ Offset(x) + WordBytes <= HeapSize /\ x \in Symbols
    BY <1>3, <1>4 DEF Placed, Globals
  <2> QED
    BY <2>1, CodeGenAssumption
<1>6. PICK val \in HeapWords(a) : Assign(TmpReg(j), val)
  BY <1>1, <1>2, <1>5 DEF LD, ReadValues, Ref
<1>7. ~IsRef(TmpReg(j))
  BY DEF IsRef, TmpReg, Reg
<1>8. heap' = heap /\ Advance(RegsWith(regs, TmpReg(j), val))
  BY <1>6, <1>7 DEF Assign, HeapWith
<1>9. /\ pc' = pc + 1
      /\ \A i \in Tmps : regs'[R_TMP0 + i] =
                            IF TmpReg(j) = TmpReg(i) THEN val ELSE regs[R_TMP0 + i]
  BY <1>8, OrdinaryOperands, RegistersAfter
<1>10. env[x] = WordAt(heap, a) % Modulus
  BY <1>2, <1>4, <1>5 DEF EnvAt
<1>11. val % Modulus = env[x] /\ env[x] \in Int
  <2>1. n \in 0 .. WordBytes /\ Modulus = Power(n)
    BY <1>3, VMAssumption DEF Placed
  <2>2. val % Modulus = WordAt(heap, a) % Modulus
    BY <1>5, <2>1, LoadedValue
  <2>3. val \in Int
    BY HeapWordsRange, WordNumbers
  <2>4. val % Modulus \in Int
    BY <2>3, ModulusDividesWord, Division
  <2> QED
    BY <1>10, <2>2, <2>4
<1>12. Evaluates(env, <<Node("VARIABLE", x)>>, val % Modulus)
  BY <1>11, VariableValue
<1>13. ASSUME NEW i \in Tmps, u[i] # <<>>
       PROVE  Evaluates(env, u[i], regs'[R_TMP0 + i] % Modulus)
  <2>1. CASE i = j
    BY <1>1, <1>2, <1>9, <1>12, <2>1
  <2>2. CASE i # j
    <3>1. TmpReg(j) # TmpReg(i)
      BY <2>2, CodeGenAssumption DEF TmpReg, Reg, Tmps, R_TMP0
    <3>2. u[i] = t[i]
      BY <1>1, <2>2
    <3> QED
      BY <1>9, <1>13, <3>1, <3>2 DEF Values
  <2> QED
    BY <2>1, <2>2
<1> QED
  BY <1>8, <1>9, <1>13 DEF Values

\* ADD, SUB and MUL: the temporary holds the value of the operation.
LEMMA ComputeStep ==
    ASSUME Supported, VMTypeOK, pc + 1 < Word, ADD_SUB_MUL, Plain(program[pc + 1]),
           NEW t \in [Tmps -> Seq(Nodes)], NEW k, NEW u, NEW l,
           Computes(program[pc + 1], t, k, u, l),
           NEW env, Values(t, env, regs)
    PROVE  pc' = pc + 1 /\ heap' = heap /\ Values(u, env, regs')
<1>1. PICK op \in Ops, j \in Tmps, e \in Seq(Nodes) :
        /\ program[pc + 1].opcode = op /\ opA = TmpReg(j) /\ t[j] # <<>>
        /\ Holds(t, opB, e)
        /\ u = [t EXCEPT ![j] = t[j] \o e \o <<Node("BINOP", op)>>]
  BY DEF Computes, opA, opB
<1>2. PICK x \in ReadValues(opA), y \in ReadValues(opB) :
        Assign(opA, Compute(program[pc + 1].opcode, x, y))
  BY DEF ADD_SUB_MUL
<1>3. PICK val : val = Compute(op, x, y)
  OBVIOUS
<1>4. Assign(TmpReg(j), val)
  BY <1>1, <1>2, <1>3
<1>5. ~IsRef(TmpReg(j))
  BY DEF IsRef, TmpReg, Reg
<1>6. heap' = heap /\ Advance(RegsWith(regs, TmpReg(j), val))
  BY <1>4, <1>5 DEF Assign, HeapWith
<1>7. /\ pc' = pc + 1
      /\ \A i \in Tmps : regs'[R_TMP0 + i] =
                            IF TmpReg(j) = TmpReg(i) THEN val ELSE regs[R_TMP0 + i]
  BY <1>6, OrdinaryOperands, RegistersAfter
<1>8. \A o : Ordinary(o) => o \in Operand /\ (IsReg(o) => o.data < REG_COUNT)
  BY DEF Ordinary, R_TMP0, R_FNR, REG_COUNT
<1>9. Ordinary(opA) /\ Ordinary(opB)
  BY <1>1, OrdinaryOperands DEF Plain, opB
<1>10. x \in Int /\ y \in Int
  BY <1>8, <1>9, ReadRange, WordNumbers
<1>11. Evaluates(env, t[j], x % Modulus)
  <2>1. x = regs[R_TMP0 + j]
    BY <1>1 DEF ReadValues, TmpReg, Reg
  <2> QED
    BY <1>1, <2>1 DEF Values
<1>12. Evaluates(env, e, y % Modulus)
  BY <1>1, OperandValue
<1>13. Evaluates(env, t[j] \o e \o <<Node("BINOP", op)>>, val % Modulus)
  <2>1. t[j] \in Seq(Nodes)
    OBVIOUS
  <2> QED
    BY <1>3, <1>10, <1>11, <1>12, <2>1, ComputedExpression
<1>14. ASSUME NEW i \in Tmps, u[i] # <<>>
       PROVE  Evaluates(env, u[i], regs'[R_TMP0 + i] % Modulus)
  <2>1. CASE i = j
    <3>1. u[i] = t[j] \o e \o <<Node("BINOP", op)>>
      BY <1>1, <2>1
    <3> QED
      BY <1>7, <1>13, <2>1, <3>1
  <2>2. CASE i # j
    <3>1. TmpReg(j) # TmpReg(i)
      BY <2>2, CodeGenAssumption DEF TmpReg, Reg, Tmps, R_TMP0
    <3>2. u[i] = t[i]
      BY <1>1, <2>2
    <3> QED
      BY <1>7, <1>14, <3>1, <3>2 DEF Values
  <2> QED
    BY <2>1, <2>2
<1> QED
  BY <1>6, <1>7, <1>14 DEF Values

\* ST: the variable gets the value of its expression, and no other changes.
LEMMA AssignStep ==
    ASSUME Supported, VMTypeOK, SourceInv, pc + 1 < Word, ST, Plain(program[pc + 1]),
           NEW t, NEW k \in 0 .. Len(source), NEW u, NEW l \in 0 .. Len(source),
           Assigns(source, program[pc + 1], t, k, u, l),
           NEW env, env = EnvAt(source, l, heap), Values(t, env, regs)
    PROVE  /\ pc' = pc + 1 /\ l \in DOMAIN source /\ u = Nothing
           /\ EnvAt(source, l + 1, heap') =
                 Updated(env, source[l].target, Source!Value(env, source[l].expr))
<1>1. PICK x : x = source[l].target
  OBVIOUS
<1>2. opA = Ref(Offset(x)) /\ Holds(t, opB, source[l].expr) /\ u = Nothing /\ l = k + 1
  BY <1>1 DEF Assigns, opA, opB
<1>3. /\ l \in 1 .. Len(source) /\ l \in DOMAIN source
      /\ source[l].expr \in Seq(Nodes) /\ x \in Globals
  <2>1. source \in Seq(Statements) /\ Len(source) \in Nat
    BY DEF SourceInv
  <2>2. l \in 1 .. Len(source)
    BY <1>2, <2>1
  <2>3. l \in DOMAIN source /\ source[l] \in Statements
    BY <2>1, <2>2
  <2> QED
    BY <1>1, <2>2, <2>3 DEF Statements
<1>4. PICK val \in ReadValues(opB) : Assign(opA, val)
  BY DEF ST
<1>5. Ordinary(opB) /\ Ordinary(opA)
  <2>1. program[pc + 1].opcode = "ST"
    BY DEF ST, At
  <2> QED
    BY <2>1 DEF Plain, opA, opB
<1>6. val \in 0 .. Word - 1
  <2>1. opB \in Operand /\ (IsReg(opB) => opB.data < REG_COUNT)
    BY <1>5 DEF Ordinary, R_TMP0, R_FNR, REG_COUNT
  <2> QED
    BY <2>1, ReadRange
<1>7. Evaluates(env, source[l].expr, val % Modulus)
  BY <1>2, OperandValue
<1>8. Source!Value(env, source[l].expr) = val % Modulus
  BY <1>3, <1>7, ValueIs
<1>9. heap' = WithWord(heap, Offset(x), val)
  BY <1>2, <1>4 DEF Assign, HeapWith, IsRef, Ref
<1>10. EnvAt(source, l + 1, heap') = Updated(env, x, val % Modulus)
  <2>1. EnvAt(source, l + 1, WithWord(heap, Offset(x), val)) =
           Updated(EnvAt(source, l, heap), x, val % Modulus)
    BY <1>1, <1>3, <1>6, StoredEnv
  <2> QED
    BY <1>9, <2>1
<1>11. pc' = pc + 1
  BY <1>4, <1>5, RegistersAfter DEF Assign
<1> QED
  BY <1>1, <1>2, <1>3, <1>8, <1>10, <1>11

\* Whatever is executed, the counter goes on by one.
LEMMA CounterMoves ==
    ASSUME VMTypeOK, pc + 1 < Word, Plain(program[pc + 1]),
           NoOperation \/ ADD_SUB_MUL \/ MOV \/ ST \/ LD
    PROVE  pc' = pc + 1
<1>1. ASSUME NEW o, NEW val, Ordinary(o), Advance(RegsWith(regs, o, val)) PROVE pc' = pc + 1
  BY <1>1, RegistersAfter
<1>2. CASE NoOperation
  <2>1. RegsWith(regs, Null, 0) = regs
    BY DEF RegsWith, IsReg, Null
  <2> QED
    BY <1>1, <1>2, <2>1, OrdinaryOperands DEF NoOperation
<1>3. CASE ADD_SUB_MUL \/ MOV \/ ST \/ LD
  <2>1. program[pc + 1].opcode # "CALL"
    BY <1>3 DEF ADD_SUB_MUL, MOV, ST, LD, At
  <2>2. Ordinary(opA)
    BY <2>1 DEF Plain, opA
  <2> QED
    BY <1>1, <1>3, <2>2 DEF ADD_SUB_MUL, MOV, ST, LD, Assign
<1> QED
  BY <1>2, <1>3

-----------------------------------------------------------------------------
(***************************************************************************)
(* The machine in the compiled program: the temporaries hold the values    *)
(* that the record gives them, once the global code has been reached.      *)
(***************************************************************************)
InStep(p, src, c, file, memory) ==
    /\ c \in 0 .. Len(p)
    /\ p[1].a.data \in 1 .. Len(p)
    /\ \E T, K :
        /\ Certifies(T, K, p[1].a.data, p, src)
        /\ c >= p[1].a.data => Values(T[c], EnvAt(src, StatementAt(p, c), memory), file)

RunInv == Loaded => InStep(program, source, pc, regs, heap)

\* One step of the source's meaning, between two places of the machine.
Executes(src, k, env, l, after) ==
    /\ k \in DOMAIN src
    /\ l = k + 1
    /\ after = Updated(env, src[k].target, Source!Value(env, src[k].expr))

Meant(src, k, env, l, after) == Executes(src, k, env, l, after) \/ (l = k /\ after = env)

\* A step in the global code.
LEMMA GlobalStep ==
    ASSUME Supported, VMTypeOK, SourceInv, NEW c \in Nat, c = pc, c + 1 < Word,
           Plain(program[c + 1]),
           NoOperation \/ ADD_SUB_MUL \/ MOV \/ ST \/ LD,
           NEW t \in [Tmps -> Seq(Nodes)], NEW k \in 0 .. Len(source),
           NEW u, NEW l \in 0 .. Len(source),
           Follows(source, program[c + 1], t, k, u, l),
           Values(t, EnvAt(source, k + 1, heap), regs)
    PROVE  /\ Values(u, EnvAt(source, l + 1, heap'), regs')
           /\ Meant(source, k + 1, EnvAt(source, k + 1, heap),
                    l + 1, EnvAt(source, l + 1, heap'))
<1> DEFINE i == program[pc + 1]
           env == EnvAt(source, k + 1, heap)
<1>1. Ops \subseteq {"ADD", "SUB", "MUL"}
  BY DEF Supported
<1>2. /\ NoOperation => i.opcode \in {"NOP", "JMP", "JZ", "CALL", "RET", "OUT", "IN", "HALT"}
      /\ ADD_SUB_MUL => i.opcode \in {"ADD", "SUB", "MUL"}
      /\ MOV => i.opcode = "MOV"
      /\ ST => i.opcode = "ST"
      /\ LD => i.opcode = "LD"
  BY DEF NoOperation, ADD_SUB_MUL, MOV, ST, LD, At
<1>3. CASE i.opcode \in {"CALL", "HALT"} /\ u = t /\ l = k
  <2>1. NoOperation
    BY <1>2, <1>3
  <2>2. RegsWith(regs, Null, 0) = regs
    BY DEF RegsWith, IsReg, Null
  <2>3. \A j \in Tmps : regs'[R_TMP0 + j] = regs[R_TMP0 + j]
    <3>1. \A j \in Tmps : Null # TmpReg(j)
      BY DEF Null, TmpReg, Reg
    <3>2. Advance(RegsWith(regs, Null, 0))
      BY <2>1, <2>2 DEF NoOperation
    <3> QED
      BY <3>1, <3>2, OrdinaryOperands, RegistersAfter
  <2>4. heap' = heap
    BY <2>1 DEF NoOperation
  <2>5. Values(t, env, regs')
    BY <2>3 DEF Values
  <2> QED
    BY <1>3, <2>4, <2>5 DEF Meant
<1>4. CASE Loads(source, i, t, k, u, l)
  <2>1. LD /\ l = k
    BY <1>2, <1>4 DEF Loads
  <2>2. heap' = heap /\ Values(u, env, regs')
    BY <1>4, <2>1, LoadStep
  <2> QED
    BY <2>1, <2>2 DEF Meant
<1>5. CASE Computes(i, t, k, u, l)
  <2>1. ADD_SUB_MUL /\ l = k
    BY <1>1, <1>2, <1>5 DEF Computes
  <2>2. heap' = heap /\ Values(u, env, regs')
    BY <1>5, <2>1, ComputeStep
  <2> QED
    BY <2>1, <2>2 DEF Meant
<1>6. CASE Assigns(source, i, t, k, u, l)
  <2>1. ST /\ l = k + 1
    BY <1>2, <1>6 DEF Assigns
  <2>2. env = EnvAt(source, l, heap)
    BY <2>1
  <2>3. Values(t, env, regs)
    OBVIOUS
  <2> HIDE DEF env
  <2>4. /\ u = Nothing /\ l \in DOMAIN source
        /\ EnvAt(source, l + 1, heap') =
              Updated(env, source[l].target, Source!Value(env, source[l].expr))
    BY <1>6, <2>1, <2>2, <2>3, AssignStep
  <2>6. Values(u, EnvAt(source, l + 1, heap'), regs')
    BY <2>4 DEF Values, Nothing
  <2>5. Executes(source, k + 1, env, l + 1, EnvAt(source, l + 1, heap'))
    BY <2>1, <2>4 DEF Executes
  <2> QED
    BY <2>5, <2>6 DEF Meant, env
<1> QED
  BY <1>3, <1>4, <1>5, <1>6 DEF Follows

-----------------------------------------------------------------------------
(***************************************************************************)
(* Every step of the machine in the compiled program is one of the         *)
(* source's meaning, or none.                                              *)
(***************************************************************************)
LEMMA MachineStep ==
    ASSUME Supported, TypeOK, CodeInv, LaidOut, SourceInv, MachineReady, RunInv, Run
    PROVE  /\ RunInv'
           /\ Meant(source, StatementAt(program, pc), EnvAt(source, StatementAt(program, pc), heap),
                    StatementAt(program', pc'), EnvAt(source', StatementAt(program', pc'), heap'))
<1>1. /\ Loaded /\ VMNext /\ source' = source /\ VMTypeOK
      /\ phase = "done" /\ program = code
  BY DEF Run, MachineReady
<1>2. program' = program /\ Loaded'
  BY <1>1, ProgramIsFixed DEF Loaded
<1>3. PICK c \in Nat, m \in Nat : c = pc /\ m = Len(program) /\ c <= m
  <2>1. program \in Seq(Emitted)
    BY <1>1 DEF TypeOK
  <2> QED
    BY <1>1, <2>1 DEF RunInv, InStep
<1>4. PICK g \in 1 .. m : g = program[1].a.data
  BY <1>1, <1>3 DEF RunInv, InStep
<1>5. PICK T, K :
        /\ Certifies(T, K, g, program, source)
        /\ c >= g => Values(T[c], EnvAt(source, StatementAt(program, c), heap), regs)
  BY <1>1, <1>3, <1>4 DEF RunInv, InStep
<1>6. Len(source) \in Nat
  BY DEF SourceInv
<1>7. /\ \A d \in 0 .. g : StatementAt(program, d) = 1
      /\ \A d \in g .. m : StatementAt(program, d) = K[d] + 1
  <2>1. program \in Seq(Emitted) /\ g \in Nat
    BY <1>1 DEF TypeOK
  <2> QED
    BY <1>3, <1>4, <1>5, <1>6, <2>1, StoresCounted
<1>8. c < m => c + 1 < Word /\ Plain(program[c + 1]) /\ c + 1 \in 0 .. m
  <2>1. MaxCode + 2 < Word /\ MaxCode \in Nat /\ Word \in Nat /\ m <= MaxCode + 2
    BY <1>1, <1>3, CodeGenAssumption, WordNumbers DEF Supported, CodeInv
  <2>2. c < m => c + 1 \in DOMAIN code
    BY <1>1, <1>3 DEF TypeOK
  <2> QED
    BY <1>1, <1>3, <2>1, <2>2 DEF CodeInv
<1>9. CASE UNCHANGED <<program, regs, heap>>
  <2>1. pc' = pc
    BY <1>9 DEF pc
  <2> QED
    BY <1>1, <1>2, <1>9, <2>1 DEF RunInv, Meant
<1>10. CASE NoOperation \/ ADD_SUB_MUL \/ MOV \/ ST \/ LD
  <2>1. c < m /\ c + 1 < Word /\ Plain(program[c + 1]) /\ c + 1 \in 0 .. m
    <3>1. c < m
      BY <1>3, <1>10 DEF NoOperation, ADD_SUB_MUL, MOV, ST, LD, At
    <3> QED
      BY <1>3, <1>8, <3>1
  <2>2. pc' = c + 1
    BY <1>1, <1>3, <1>10, <2>1, CounterMoves
  <2>3. CASE c < g
    <3>1. StatementAt(program, c) = 1 /\ StatementAt(program, c + 1) = 1
      <4>1. c \in 0 .. g /\ c + 1 \in 0 .. g
        BY <2>3
      <4> QED
        BY <1>7, <4>1
    <3>2. EnvAt(source, 1, heap') = EnvAt(source, 1, heap)
      BY DEF EnvAt
    <3>3. c + 1 >= g => Values(T[c + 1], EnvAt(source, StatementAt(program, c + 1), heap'), regs')
      <4>1. c + 1 >= g => c + 1 = g
        BY <2>3
      <4>2. T[g] = Nothing
        BY <1>5 DEF Certifies
      <4> QED
        BY <4>1, <4>2 DEF Values, Nothing
    <3>4. InStep(program, source, c + 1, regs', heap')
      BY <1>3, <1>4, <1>5, <2>1, <3>3 DEF InStep
    <3> QED
      BY <1>1, <1>2, <1>3, <2>2, <3>1, <3>2, <3>4 DEF RunInv, Meant
  <2>4. CASE c >= g
    <3>1. c \in g .. m /\ c + 1 \in g + 1 .. m /\ c + 1 \in g .. m /\ (c + 1) - 1 = c
      BY <2>1, <2>4
    <3>2. /\ T \in [g .. m -> [Tmps -> Seq(Nodes)]] /\ K \in [g .. m -> 0 .. Len(source)]
          /\ \A d \in g + 1 .. m : Follows(source, program[d], T[d - 1], K[d - 1], T[d], K[d])
      BY <1>3, <1>5 DEF Certifies
    <3>3. Follows(source, program[c + 1], T[(c + 1) - 1], K[(c + 1) - 1], T[c + 1], K[c + 1])
      BY <3>1, <3>2
    <3>4. Follows(source, program[c + 1], T[c], K[c], T[c + 1], K[c + 1])
      BY <3>1, <3>3
    <3>5. /\ T[c] \in [Tmps -> Seq(Nodes)]
          /\ K[c] \in 0 .. Len(source) /\ K[c + 1] \in 0 .. Len(source)
      BY <3>1, <3>2
    <3>6. StatementAt(program, c) = K[c] + 1 /\ StatementAt(program, c + 1) = K[c + 1] + 1
      BY <1>7, <3>1
    <3>7. Values(T[c], EnvAt(source, K[c] + 1, heap), regs)
      BY <1>5, <2>4, <3>6
    <3>8. /\ Values(T[c + 1], EnvAt(source, K[c + 1] + 1, heap'), regs')
          /\ Meant(source, K[c] + 1, EnvAt(source, K[c] + 1, heap),
                   K[c + 1] + 1, EnvAt(source, K[c + 1] + 1, heap'))
      BY <1>1, <1>3, <1>10, <2>1, <3>4, <3>5, <3>7, GlobalStep
    <3>9. InStep(program, source, c + 1, regs', heap')
      <4>1. Values(T[c + 1], EnvAt(source, StatementAt(program, c + 1), heap'), regs')
        BY <3>6, <3>8
      <4> QED
        BY <1>3, <1>4, <1>5, <2>1, <4>1 DEF InStep
    <3>10. Meant(source, StatementAt(program, c), EnvAt(source, StatementAt(program, c), heap),
                 StatementAt(program, c + 1), EnvAt(source, StatementAt(program, c + 1), heap'))
      BY <3>6, <3>8
    <3> QED
      BY <1>1, <1>2, <1>3, <2>2, <3>9, <3>10 DEF RunInv
  <2> QED
    BY <2>3, <2>4
<1> QED
  <2>1. pc < Len(program) => Plain(program[pc + 1])
    BY <1>3, <1>8
  <2> QED
    BY <1>1, <1>9, <1>10, <2>1, Steps

\* The machine stays in step with the record.
LEMMA RunStep ==
    ASSUME Supported, TypeOK, CodeInv, LaidOut, SourceInv, CompiledInv, MachineReady, RunInv,
           [ToolNext]_toolVars
    PROVE  RunInv'
<1>1. CASE Compile
  <2>1. ~Loaded /\ program' = program
    BY <1>1, DoneIsDone DEF MachineReady, Compile, vmVars
  <2> QED
    BY <2>1 DEF RunInv, Loaded
<1>2. CASE Load
  <2>1. /\ phase = "done" /\ program' = code /\ pc' = 0 /\ source' = source
    BY <1>2 DEF Load, MachineReady, pc
  <2>2. code[1].a.data \in 1 .. Len(code) /\ Len(code) \in Nat
    BY <2>1 DEF CompiledInv, TypeOK
  <2>3. PICK T, K : Certifies(T, K, code[1].a.data, code, source)
    BY <2>1 DEF CompiledInv
  <2>4. 0 \in 0 .. Len(code) /\ ~(0 >= code[1].a.data)
    BY <2>2
  <2>5. \A file, memory : InStep(code, source, 0, file, memory)
    BY <2>2, <2>3, <2>4 DEF InStep
  <2> QED
    BY <2>1, <2>5 DEF RunInv
<1>3. CASE Run
  BY <1>3, MachineStep
<1>4. CASE UNCHANGED toolVars
  <2>1. /\ program' = program /\ source' = source /\ regs' = regs /\ heap' = heap
    BY <1>4 DEF toolVars, vmVars
  <2>2. pc' = pc
    BY <2>1 DEF pc
  <2> QED
    BY <2>1, <2>2 DEF RunInv, Loaded
<1> QED
  BY <1>1, <1>2, <1>3, <1>4 DEF ToolNext

\* Where the source's meaning is, before a step and after it.
LEMMA WhereItWillBe ==
    /\ NextStatement' = StatementAt(program', pc')
    /\ Environment' = EnvAt(source', NextStatement', heap')
<1>1. Stores' = StoresOf(program')
  BY DEF Stores, StoresOf, start
<1>2. NextStatement' = StatementAt(program', pc')
  BY <1>1 DEF NextStatement, StatementAt, Loaded
<1>3. Environment' = EnvAt(source', NextStatement', heap')
  BY DEF Environment, EnvAt, Initialised, VariableAt, Offset
<1> QED
  BY <1>2, <1>3

\* Every step of the toolchain is one of the source's meaning, or none.
LEMMA MeaningStep ==
    ASSUME Supported, TypeOK, CodeInv, LaidOut, SourceInv, CompiledInv, MachineReady, RunInv,
           [ToolNext]_toolVars
    PROVE  [Source!Next]_(Source!sourceVars)
<1>1. /\ NextStatement = StatementAt(program, pc)
      /\ Environment = EnvAt(source, NextStatement, heap)
      /\ NextStatement' = StatementAt(program', pc')
      /\ Environment' = EnvAt(source', NextStatement', heap')
  BY WhereItIs, WhereItWillBe
<1>2. ASSUME source' = source, NextStatement' = NextStatement, Environment' = Environment
      PROVE  [Source!Next]_(Source!sourceVars)
  BY <1>2 DEF Source!sourceVars
<1>3. ASSUME NEW src, NEW k \in {0, 1}, NEW memory
      PROVE  EnvAt(src, k, memory) = [x \in {} |-> 0]
  <2>1. 1 .. k - 1 = {}
    OBVIOUS
  <2> QED
    BY <2>1 DEF EnvAt
<1>4. CASE Compile
  <2>1. ~Loaded /\ UNCHANGED vmVars /\ ~Loaded'
    BY <1>4, DoneIsDone DEF MachineReady, Compile, vmVars, Loaded
  <2>2. NextStatement = 0 /\ NextStatement' = 0
    BY <2>1 DEF NextStatement
  <2>3. Environment = [x \in {} |-> 0] /\ Environment' = [x \in {} |-> 0]
    BY <1>1, <1>3, <2>2
  <2>4. CASE source' = source
    BY <1>2, <2>2, <2>3, <2>4
  <2>5. CASE source' # source
    <3>1. PICK s : source' = Append(source, s)
      BY <1>4, <2>5
         DEF Compile, Number, Variable, Binop, Call, Initialisation, NoEffect, Layout, Fail, Leaf
    <3>2. source \in Seq(Statements)
      BY DEF SourceInv
    <3>3. Len(source') = Len(source) + 1 /\ SubSeq(source', 1, Len(source)) = source
      BY <3>1, <3>2
    <3>4. Source!Write
      BY <2>2, <2>3, <3>3 DEF Source!Write
    <3> QED
      BY <3>4 DEF Source!Next
  <2> QED
    BY <2>4, <2>5
<1>5. CASE Load
  <2>1. ~Loaded /\ program' = code /\ source' = source /\ pc' = 0 /\ phase = "done"
    BY <1>5 DEF Load, MachineReady, pc
  <2>2. NextStatement = 0
    BY <2>1 DEF NextStatement
  <2>3. NextStatement' = 1
    <3>1. code # <<>> /\ \A x \in StoresOf(code) : ~(x <= 0)
      <4>1. code \in Seq(Emitted) /\ Len(code) \in Nat /\ 0 < Len(code)
        BY DEF TypeOK, LaidOut
      <4> QED
        BY <4>1 DEF StoresOf
    <3>2. {x \in StoresOf(code) : x <= 0} = {}
      BY <3>1
    <3>3. StatementAt(code, 0) = 1
      BY <3>1, <3>2, FS_EmptySet DEF StatementAt
    <3> QED
      BY <1>1, <2>1, <3>3
  <2>4. Environment = [x \in {} |-> 0] /\ Environment' = [x \in {} |-> 0]
    BY <1>1, <1>3, <2>2, <2>3
  <2>5. Source!Start
    BY <2>1, <2>2, <2>3, <2>4 DEF Source!Start
  <2> QED
    BY <2>5 DEF Source!Next
<1>6. CASE Run
  <2>1. Meant(source, NextStatement, Environment, NextStatement', Environment')
    BY <1>1, <1>6, MachineStep
  <2>2. source' = source
    BY <1>6 DEF Run
  <2>3. CASE Executes(source, NextStatement, Environment, NextStatement', Environment')
    <3>1. Source!Execute
      BY <2>2, <2>3 DEF Executes, Updated, Source!Execute
    <3> QED
      BY <3>1 DEF Source!Next
  <2> QED
    BY <1>2, <2>1, <2>2, <2>3 DEF Meant
<1>7. CASE UNCHANGED toolVars
  <2>1. /\ program' = program /\ source' = source /\ regs' = regs /\ heap' = heap
    BY <1>7 DEF toolVars, vmVars
  <2>2. pc' = pc
    BY <2>1 DEF pc
  <2>3. NextStatement' = NextStatement /\ Environment' = Environment
    BY <1>1, <2>1, <2>2
  <2> QED
    BY <1>2, <2>1, <2>3
<1> QED
  BY <1>4, <1>5, <1>6, <1>7 DEF ToolNext

(***************************************************************************)
(* The compiled program implements the source program: whatever supported  *)
(* program is compiled (compileNode, compileFunctionDecl) and run (run of  *)
(* vm.cpp), each statement gives its variable the value of its expression, *)
(* in the order of the source, and no other variable changes.              *)
(***************************************************************************)
THEOREM CompiledProgramsMeanTheirSource ==
    ASSUME Supported
    PROVE  ToolSpec => Meaning
<1>1. ToolInit => Source!Init /\ RunInv
  <2> SUFFICES ASSUME ToolInit PROVE Source!Init /\ RunInv
    OBVIOUS
  <2>1. ~Loaded /\ source = <<>>
    BY DEF ToolInit, Loaded
  <2>2. NextStatement = 0
    BY <2>1 DEF NextStatement
  <2>3. Environment = [x \in {} |-> 0]
    BY <2>2, WhereItIs DEF EnvAt
  <2> QED
    BY <2>1, <2>2, <2>3 DEF Source!Init, RunInv
<1>2. TypeOK /\ CodeInv /\ LaidOut /\ SourceInv /\ CompiledInv /\ MachineReady /\ RunInv
      /\ [ToolNext]_toolVars => RunInv' /\ [Source!Next]_(Source!sourceVars)
  BY RunStep, MeaningStep
<1> QED
  BY <1>1, <1>2, TypeCorrect, CodeIsPlain, LayoutInductive, SourceRecorded, GlobalCodeCompiled,
     MachineIsReady, CompilerBehaves, PTL DEF ToolSpec, Meaning, Source!Spec
=============================================================================
