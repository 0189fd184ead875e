----------------------------- MODULE VMPairProofs -----------------------------
(***************************************************************************)
(* Determinism of the machine for every program that reads only what it    *)
(* has written, every heap and every input.  The proof keeps the two       *)
(* machines equal but for their heaps, and those equal in every byte that  *)
(* the instructions so far have written.                                   *)
(***************************************************************************)
EXTENDS VMPair, TLAPS

P == INSTANCE VMProofs WITH regs <- regsA, heap <- heapA, stack <- stackA,
                            stdin <- stdinA, stdout <- stdoutA, status <- statusA

Word == A!Word

\* What the lemmas of VMProofs say of the first machine's numbers.
LEMMA Numbers ==
    /\ Word \in Nat /\ Word > 0
    /\ WordBytes \in Nat /\ WordBytes > 0 /\ HeapSize \in Nat
<1>1. Word \in Nat /\ Word > 0
  BY P!WordNumbers, PairAssumption
  DEF P!VMAssumption, P!PowerAssumption, A!PowerAssumption, A!VMAssumption, P!Word, A!Word, Word
<1> QED
  BY <1>1, PairAssumption DEF A!VMAssumption

(***************************************************************************)
(* Programs that depend on nothing outside: they read no byte of the heap  *)
(* before they have written it, a word they refer to lies in the heap or   *)
(* is refused, register 14 is no destination, and they do not push or pop  *)
(* (the first push is outside the stack, and what that does is open).  So  *)
(* are the compiler's, unless they read a variable that has no value yet.  *)
(***************************************************************************)
SelfContained(p) ==
    /\ p \in Seq(Instruction)
    /\ Initialises(p)
    /\ \A k \in DOMAIN p :
        /\ p[k].opcode \notin {"PUSH", "POP"}
        /\ R_PC \notin RegsWritten(p[k])
        /\ \A op \in {p[k].a, p[k].b} :
              IsRef(op) => op.data + WordBytes <= HeapSize \/ op.data >= HeapSize

-----------------------------------------------------------------------------
HeapBytes == 0 .. HeapSize - 1
Bytes(op) == op.data .. op.data + WordBytes - 1

\* The bytes that the first n instructions write.
Written(n) == UNION {UNION {Bytes(w) : w \in Writes(program[j])} : j \in 1 .. n}

pcA == regsA[R_PC]
now == program[pcA + 1]

(***************************************************************************)
(* The invariant: the machines show the same, and their heaps agree in     *)
(* every byte that the instructions so far have written.                   *)
(***************************************************************************)
PairInv ==
    /\ program \in Programs
    /\ Deterministic
    /\ DOMAIN heapA = HeapBytes /\ DOMAIN heapB = HeapBytes
    /\ DOMAIN regsA = 0 .. REG_COUNT - 1
    /\ pcA \in Nat
    /\ statusA = "running" =>
          \A b \in HeapBytes : b \in Written(pcA) => heapA[b] = heapB[b]

LEMMA SameWords == \A m, a : A!WordAt(m, a) = B!WordAt(m, a)
BY DEF A!WordAt, B!WordAt

\* A load that stays in the heap can give one word only.
LEMMA WholeWord ==
    ASSUME NEW a \in Nat, a + WordBytes <= HeapSize
    PROVE  /\ A!HeapWords(a) = {A!WordAt([b \in a .. a + WordBytes - 1 |-> heapA[b]], a)}
           /\ B!HeapWords(a) = {B!WordAt([b \in a .. a + WordBytes - 1 |-> heapB[b]], a)}
<1> DEFINE beyond == {b \in a .. a + WordBytes - 1 : b >= HeapSize}
<1>1. beyond = {}
  BY Numbers
<1>2. [x \in beyond |-> 0] \in [beyond -> 0 .. Base - 1]
  BY <1>1
<1>3. \A memory, past : [b \in a .. a + WordBytes - 1 |->
                            IF b \in beyond THEN past[b] ELSE memory[b]]
                        = [b \in a .. a + WordBytes - 1 |-> memory[b]]
  BY <1>1
<1> DEFINE Whole(memory) == [b \in a .. a + WordBytes - 1 |-> memory[b]]
           Part(memory, past) == [b \in a .. a + WordBytes - 1 |->
                            IF b \in beyond THEN past[b] ELSE memory[b]]
<1>4. A!HeapWords(a) = {A!WordAt(Part(heapA, past), a) : past \in [beyond -> 0 .. Base - 1]}
  BY DEF A!HeapWords
<1>5. B!HeapWords(a) = {B!WordAt(Part(heapB, past), a) : past \in [beyond -> 0 .. Base - 1]}
  BY DEF B!HeapWords
<1>6. \A memory, past : Part(memory, past) = Whole(memory)
  BY <1>3
<1> HIDE DEF beyond, Part, Whole
<1>7. A!HeapWords(a) = {A!WordAt(Whole(heapA), a)}
  BY <1>2, <1>4, <1>6
<1>8. B!HeapWords(a) = {B!WordAt(Whole(heapB), a)}
  BY <1>2, <1>5, <1>6
<1> QED
  BY <1>7, <1>8 DEF Whole

\* Both machines are about to execute an instruction.
Running ==
    /\ \A p \in Programs : SelfContained(p)
    /\ PairInv
    /\ statusA = "running"
    /\ pcA < Len(program)

\* What is known of that instruction.
LEMMA Now ==
    ASSUME Running
    PROVE  /\ now \in Instruction /\ now.a \in Operand /\ now.b \in Operand
           /\ now.opcode \notin {"PUSH", "POP"}
           /\ R_PC \notin RegsWritten(now)
           /\ \A op \in {now.a, now.b} :
                 IsRef(op) => op.data + WordBytes <= HeapSize \/ op.data >= HeapSize
           /\ \A o \in Reads(now) : Bytes(o) \subseteq Written(pcA)
<1>1. pcA + 1 \in DOMAIN program /\ program \in Seq(Instruction) /\ SelfContained(program)
  BY DEF Running, PairInv, SelfContained
<1>2. now \in Instruction
  BY <1>1 DEF now
<1>3. now.a \in Operand /\ now.b \in Operand
  BY <1>2 DEF Instruction
<1>4. \A o \in Reads(now) : Bytes(o) \subseteq Written(pcA)
  <2>1. (pcA + 1) - 1 = pcA
    BY DEF Running, PairInv
  <2> QED
    BY <1>1, <2>1 DEF SelfContained, Initialises, Written, Bytes, now
<1> QED
  BY <1>1, <1>2, <1>3, <1>4 DEF SelfContained, now

\* An operand that is read has one value, the same in both machines.
LEMMA SameReads ==
    ASSUME Running, NEW op \in {now.a, now.b},
           op = now.b \/ now.opcode \in Arithmetic \cup {"PUTC"},
           A!MayRead(op)
    PROVE  \E val : A!ReadValues(op) = {val} /\ B!ReadValues(op) = {val}
<1>1. op \in Operand /\ op.type \in OperandTypes /\ op.data \in Nat
  BY Now DEF Operand
<1>2. CASE op.type \in {"OP_IMMEDIATE", "OP_CONSTANT"}
  BY <1>2 DEF A!ReadValues, B!ReadValues, A!Immediate, B!Immediate
<1>3. CASE op.type = "OP_REGISTER"
  BY <1>3 DEF A!ReadValues, B!ReadValues, Running, PairInv, Deterministic
<1>4. CASE op.type = "OP_NULL"
  BY <1>4 DEF A!ReadValues, B!ReadValues
<1>5. CASE op.type = "OP_REFERENCE"
  <2>1. op \in Reads(now)
    BY <1>5 DEF Reads, IsRef
  <2>2. op.data + WordBytes <= HeapSize
    <3>1. op.data < HeapSize /\ IsRef(op)
      BY <1>5 DEF A!MayRead, A!InHeap, A!IsRef, IsRef
    <3>2. op.data + WordBytes <= HeapSize \/ op.data >= HeapSize
      BY <3>1, Now
    <3> QED
      BY <1>1, <3>1, <3>2, Numbers
  <2>3. \A b \in op.data .. op.data + WordBytes - 1 : heapA[b] = heapB[b]
    <3>1. \A b \in Bytes(op) : b \in HeapBytes /\ b \in Written(pcA)
      BY <1>1, <2>1, <2>2, Now, Numbers DEF Bytes, HeapBytes
    <3> QED
      BY <3>1 DEF Bytes, Running, PairInv
  <2> DEFINE a == op.data
             M == [b \in a .. a + WordBytes - 1 |-> heapA[b]]
             N == [b \in a .. a + WordBytes - 1 |-> heapB[b]]
  <2>4. M = N
    BY <2>3
  <2>5. A!HeapWords(a) = {A!WordAt(M, a)} /\ B!HeapWords(a) = {B!WordAt(N, a)}
    BY <1>1, <2>2, WholeWord
  <2> HIDE DEF M, N
  <2>6. A!WordAt(M, a) = B!WordAt(N, a)
    BY <2>4, SameWords
  <2> QED
    BY <1>5, <2>5, <2>6 DEF A!ReadValues, B!ReadValues
<1> QED
  BY <1>1, <1>2, <1>3, <1>4, <1>5 DEF OperandTypes

-----------------------------------------------------------------------------
\* What a step that both machines take leads to.
Stored(op, val) ==
    heapA' = A!WithWord(heapA, op.data, val) /\ heapB' = B!WithWord(heapB, op.data, val)

Together ==
    /\ program' = program
    /\ Deterministic'
    /\ DOMAIN regsA' = DOMAIN regsA
    /\ \/ statusA' # "running" /\ UNCHANGED <<regsA, heapA, heapB>>
       \/ /\ regsA'[R_PC] = (pcA + 1) % Word
          /\ \/ Writes(now) = {} /\ UNCHANGED <<heapA, heapB>>
             \/ \E op, val : Writes(now) = {op} /\ op \in Operand /\ Stored(op, val)

\* The invariant is kept, and where the heaps agree they go on agreeing.
LEMMA TogetherKeeps ==
    ASSUME Running, Together
    PROVE  /\ PairInv'
           /\ \A b \in DOMAIN heapA : heapA[b] = heapB[b] => heapA'[b] = heapB'[b]
<1>1. /\ DOMAIN heapA = HeapBytes /\ DOMAIN heapB = HeapBytes /\ pcA \in Nat
      /\ \A b \in HeapBytes : b \in Written(pcA) => heapA[b] = heapB[b]
  BY DEF Running, PairInv
<1>2. ASSUME NEW op, NEW val, Stored(op, val)
      PROVE  /\ DOMAIN heapA' = HeapBytes /\ DOMAIN heapB' = HeapBytes
             /\ \A b \in HeapBytes : heapA[b] = heapB[b] \/ b \in Bytes(op) => heapA'[b] = heapB'[b]
  BY <1>1, <1>2 DEF Stored, A!WithWord, B!WithWord, A!ByteOf, B!ByteOf, Bytes
<1>3. \/ UNCHANGED <<heapA, heapB>>
      \/ \E op, val : Stored(op, val)
  BY DEF Together
<1>4. /\ DOMAIN heapA' = HeapBytes /\ DOMAIN heapB' = HeapBytes
      /\ \A b \in HeapBytes : heapA[b] = heapB[b] => heapA'[b] = heapB'[b]
  BY <1>1, <1>2, <1>3
<1>5. ASSUME statusA' = "running"
      PROVE  /\ regsA'[R_PC] \in 0 .. pcA + 1
             /\ \A b \in HeapBytes : b \in Written(pcA + 1) => heapA'[b] = heapB'[b]
  <2>1. /\ regsA'[R_PC] = (pcA + 1) % Word
        /\ \/ Writes(now) = {} /\ UNCHANGED <<heapA, heapB>>
           \/ \E op, val : Writes(now) = {op} /\ op \in Operand /\ Stored(op, val)
    BY <1>5 DEF Together
  <2>2. (pcA + 1) % Word \in 0 .. pcA + 1
    BY <1>1, Numbers
  <2>3. ASSUME NEW b \in HeapBytes, b \in Written(pcA + 1)
        PROVE  heapA'[b] = heapB'[b]
    <3>1. PICK j \in 1 .. pcA + 1 : \E w \in Writes(program[j]) : b \in Bytes(w)
      BY <2>3 DEF Written
    <3>2. PICK w \in Writes(program[j]) : b \in Bytes(w)
      BY <3>1
    <3>3. CASE j = pcA + 1
      <4>1. w \in Writes(now)
        BY <3>2, <3>3 DEF now
      <4> QED
        BY <1>2, <2>1, <3>2, <4>1
    <3>4. CASE j # pcA + 1
      <4>1. j \in 1 .. pcA
        BY <1>1, <3>4
      <4>2. b \in Written(pcA)
        BY <3>2, <4>1 DEF Written
      <4> QED
        BY <1>1, <1>4, <4>2
    <3> QED
      BY <3>3, <3>4
  <2> QED
    BY <2>1, <2>2, <2>3
<1>6. statusA' = "running" =>
        \A b \in HeapBytes : b \in Written(pcA)' => heapA'[b] = heapB'[b]
  <2>1. program' = program
    BY DEF Together
  <2>2. \A n : Written(n)' = Written(n)
    BY <2>1 DEF Written
  <2> SUFFICES ASSUME statusA' = "running", NEW b \in HeapBytes, b \in Written(pcA)'
               PROVE  heapA'[b] = heapB'[b]
    OBVIOUS
  <2>3. PICK n \in 0 .. pcA + 1 : n = regsA'[R_PC]
    BY <1>5
  <2>4. b \in Written(n)
    BY <2>1, <2>3 DEF Written, pcA
  <2>5. b \in Written(pcA + 1)
    <3>1. 1 .. n \subseteq 1 .. pcA + 1
      BY <1>1, <2>3
    <3> QED
      BY <2>4, <3>1 DEF Written
  <2> QED
    BY <1>5, <2>5
<1>7. pcA' \in Nat
  <2>1. CASE statusA' = "running"
    BY <1>1, <1>5, <2>1 DEF pcA
  <2>2. CASE UNCHANGED regsA
    BY <1>1, <2>2 DEF pcA
  <2>3. CASE regsA'[R_PC] = (pcA + 1) % Word
    BY <1>1, <2>3, Numbers DEF pcA
  <2> QED
    BY <2>2, <2>3 DEF Together
<1> QED
  BY <1>1, <1>4, <1>6, <1>7 DEF Running, PairInv, Together, Bytes

-----------------------------------------------------------------------------
\* The two machines look at the same instruction, and see the same in it.
LEMMA Same ==
    ASSUME Running
    PROVE  /\ A!opA = now.a /\ B!opA = now.a /\ A!opB = now.b /\ B!opB = now.b
           /\ program[A!pc + 1] = now /\ program[B!pc + 1] = now
           /\ \A opcodes : (A!At(opcodes) <=> now.opcode \in opcodes)
                           /\ (B!At(opcodes) <=> now.opcode \in opcodes)
           /\ \A op : (A!MayRead(op) <=> B!MayRead(op)) /\ (A!MayWrite(op) <=> B!MayWrite(op))
           /\ ~A!Exit /\ ~B!Exit
           /\ statusA = "running" /\ statusB = "running"
           /\ regsA = regsB /\ stdinA = stdinB /\ stdoutA = stdoutB
<1>1. regsA = regsB /\ statusA = "running" /\ statusB = "running" /\ pcA < Len(program)
      /\ stdinA = stdinB /\ stdoutA = stdoutB /\ pcA \in Nat /\ Len(program) \in Nat
  BY DEF Running, PairInv, Deterministic, SelfContained
<1>2. A!pc = pcA /\ B!pc = pcA
  BY <1>1 DEF A!pc, B!pc, pcA, A!R_PC, B!R_PC, R_PC
<1>3. \A op : (A!MayRead(op) <=> B!MayRead(op)) /\ (A!MayWrite(op) <=> B!MayWrite(op))
  BY DEF A!MayRead, B!MayRead, A!InHeap, B!InHeap, A!IsRef, B!IsRef,
         A!MayWrite, B!MayWrite, A!IsReg, B!IsReg
<1>4. program[A!pc + 1] = now /\ program[B!pc + 1] = now
  BY <1>2 DEF now
<1>5. \A opcodes : (A!At(opcodes) <=> now.opcode \in opcodes)
                   /\ (B!At(opcodes) <=> now.opcode \in opcodes)
  BY <1>1, <1>2, <1>4 DEF A!At, B!At
<1>6. ~A!Exit /\ ~B!Exit
  BY <1>1, <1>2 DEF A!Exit, B!Exit
<1> QED
  BY <1>1, <1>3, <1>4, <1>5, <1>6 DEF A!opA, B!opA, A!opB, B!opB

\* The registers after both machines wrote the same to one of them.
LEMMA SameFile ==
    ASSUME Running, NEW file, A!Advance(file), B!Advance(file),
           DOMAIN file = DOMAIN regsA, file[R_PC] = pcA
    PROVE  /\ regsA' = regsB' /\ DOMAIN regsA' = DOMAIN regsA
           /\ regsA'[R_PC] = (pcA + 1) % Word
<1>1. R_PC \in DOMAIN file
  BY DEF Running, PairInv, R_PC, REG_COUNT
<1> QED
  BY <1>1 DEF A!Advance, B!Advance, A!R_PC, B!R_PC, R_PC, A!Word, B!Word, Word

\* A result goes to the same register, which is not register 14.
LEMMA SameDestination ==
    ASSUME Running, NEW val, IsReg(now.a) => now.a.data # R_PC
    PROVE  /\ A!RegsWith(regsA, now.a, val) = B!RegsWith(regsA, now.a, val)
           /\ DOMAIN A!RegsWith(regsA, now.a, val) = DOMAIN regsA
           /\ A!RegsWith(regsA, now.a, val)[R_PC] = pcA
BY DEF A!RegsWith, B!RegsWith, A!IsReg, B!IsReg, IsReg, pcA

\* A result that goes to memory is written to both heaps.
LEMMA SameStore ==
    ASSUME Running, NEW val,
           heapA' = A!HeapWith(now.a, val), heapB' = B!HeapWith(now.a, val),
           now.opcode \in Arithmetic \cup {"ST", "LD", "GETC"}
    PROVE  \/ Writes(now) = {} /\ UNCHANGED <<heapA, heapB>>
           \/ \E op, v : Writes(now) = {op} /\ op \in Operand /\ Stored(op, v)
<1>1. CASE IsRef(now.a)
  <2>1. Writes(now) = {now.a} /\ now.a \in Operand
    BY <1>1, Now DEF Writes
  <2>2. Stored(now.a, val)
    BY <1>1 DEF Stored, A!HeapWith, B!HeapWith, A!IsRef, B!IsRef, IsRef
  <2> QED
    BY <2>1, <2>2
<1>2. CASE ~IsRef(now.a)
  BY <1>2 DEF Writes, A!HeapWith, B!HeapWith, A!IsRef, B!IsRef, IsRef
<1> QED
  BY <1>1, <1>2

\* Both at once: the result of an instruction.
LEMMA SameAssign ==
    ASSUME Running, NEW val, A!Assign(now.a, val), B!Assign(now.a, val),
           IsReg(now.a) => now.a.data # R_PC,
           now.opcode \in Arithmetic \cup {"ST", "LD", "GETC"}
    PROVE  /\ regsA' = regsB' /\ DOMAIN regsA' = DOMAIN regsA
           /\ regsA'[R_PC] = (pcA + 1) % Word
           /\ \/ Writes(now) = {} /\ UNCHANGED <<heapA, heapB>>
              \/ \E op, v : Writes(now) = {op} /\ op \in Operand /\ Stored(op, v)
<1> DEFINE file == A!RegsWith(regsA, now.a, val)
<1>1. A!Advance(file) /\ B!Advance(file)
  BY Same, SameDestination DEF A!Assign, B!Assign
<1>2. DOMAIN file = DOMAIN regsA /\ file[R_PC] = pcA
  BY SameDestination
<1> HIDE DEF file
<1>3. /\ regsA' = regsB' /\ DOMAIN regsA' = DOMAIN regsA
      /\ regsA'[R_PC] = (pcA + 1) % Word
  BY <1>1, <1>2, SameFile
<1>4. heapA' = A!HeapWith(now.a, val) /\ heapB' = B!HeapWith(now.a, val)
  BY DEF A!Assign, B!Assign
<1> QED
  BY <1>3, <1>4, SameStore

\* An exception leaves both machines as they are.
LEMMA BothThrow ==
    ASSUME Running, A!Throw, B!Throw
    PROVE  Together
BY Same DEF A!Throw, B!Throw, Together, Deterministic

\* The kinds of instructions, one after another.
LEMMA NoOperationTogether ==
    ASSUME Running, A!NoOperation, B!NoOperation
    PROVE  Together
<1>1. A!Advance(regsA) /\ B!Advance(regsA)
  BY Same DEF A!NoOperation, B!NoOperation
<1>2. /\ regsA' = regsB' /\ DOMAIN regsA' = DOMAIN regsA
      /\ regsA'[R_PC] = (pcA + 1) % Word
  BY <1>1, SameFile DEF pcA
<1>3. Writes(now) = {}
  <2>1. now.opcode \in {"NOP", "JMP", "JZ", "CALL", "RET", "OUT", "IN", "HALT"}
    BY Same DEF A!NoOperation
  <2> QED
    BY <2>1 DEF Writes, Arithmetic
<1> QED
  BY <1>2, <1>3, Same DEF A!NoOperation, B!NoOperation, Together, Deterministic

LEMMA ArithmeticTogether ==
    ASSUME Running, now.opcode \in Arithmetic, A!VMNext, B!VMNext
    PROVE  Together
<1>1. IsReg(now.a) => now.a.data # R_PC
  BY Now DEF RegsWritten
<1> DEFINE May == A!MayRead(now.a) /\ A!MayRead(now.b) /\ A!MayWrite(now.a)
<1>2. /\ A!ADD_SUB_MUL \/ A!DIV \/ A!ArithmeticThrows
      /\ B!ADD_SUB_MUL \/ B!DIV \/ B!ArithmeticThrows
  BY Same DEF Arithmetic, A!VMNext, B!VMNext, A!NoOperation, B!NoOperation, A!MOV, B!MOV,
     A!ST, B!ST, A!LD, B!LD, A!MoveThrows, B!MoveThrows, A!PUSH, B!PUSH, A!POP, B!POP,
     A!PUTC, B!PUTC, A!GETC, B!GETC, A!CharThrows, B!CharThrows
<1>3. CASE ~May
  <2>1. A!ArithmeticThrows /\ B!ArithmeticThrows
    BY <1>2, <1>3, Same DEF A!ADD_SUB_MUL, A!DIV, B!ADD_SUB_MUL, B!DIV
  <2> QED
    BY <2>1, BothThrow DEF A!ArithmeticThrows, B!ArithmeticThrows
<1>4. CASE May
  <2>1. PICK x : A!ReadValues(now.a) = {x} /\ B!ReadValues(now.a) = {x}
    BY <1>4, SameReads
  <2>2. PICK y : A!ReadValues(now.b) = {y} /\ B!ReadValues(now.b) = {y}
    BY <1>4, SameReads
  <2>3. CASE now.opcode # "DIV"
    <3>1. A!ADD_SUB_MUL /\ B!ADD_SUB_MUL
      BY <1>2, <1>4, <2>3, Same DEF A!ArithmeticThrows, B!ArithmeticThrows, A!DIV, B!DIV
    <3> DEFINE val == A!Compute(now.opcode, x, y)
    <3>2. A!Assign(now.a, val)
      BY <2>1, <2>2, <3>1, Same DEF A!ADD_SUB_MUL
    <3>3. val = B!Compute(now.opcode, x, y)
      BY DEF A!Compute, B!Compute, A!Word, B!Word
    <3>4. B!Assign(now.a, val)
      BY <2>1, <2>2, <3>1, <3>3, Same DEF B!ADD_SUB_MUL
    <3> HIDE DEF val
    <3>5. /\ regsA' = regsB' /\ DOMAIN regsA' = DOMAIN regsA
          /\ regsA'[R_PC] = (pcA + 1) % Word
          /\ \/ Writes(now) = {} /\ UNCHANGED <<heapA, heapB>>
             \/ \E op, v : Writes(now) = {op} /\ op \in Operand /\ Stored(op, v)
      BY <1>1, <3>2, <3>4, SameAssign
    <3> QED
      BY <3>1, <3>5, Same DEF A!ADD_SUB_MUL, B!ADD_SUB_MUL, Together, Deterministic
  <2>4. CASE now.opcode = "DIV" /\ y = 0
    <3>1. A!ArithmeticThrows /\ B!ArithmeticThrows
      <4>1. ~A!DIV /\ ~B!DIV
        BY <2>2, <2>4, Same DEF A!DIV, B!DIV
      <4>2. ~A!ADD_SUB_MUL /\ ~B!ADD_SUB_MUL
        BY <2>4, Same DEF A!ADD_SUB_MUL, B!ADD_SUB_MUL
      <4> QED
        BY <1>2, <4>1, <4>2
    <3> QED
      BY <3>1, BothThrow DEF A!ArithmeticThrows, B!ArithmeticThrows
  <2>5. CASE now.opcode = "DIV" /\ y # 0
    <3>1. A!DIV /\ B!DIV
      BY <1>2, <1>4, <2>1, <2>2, <2>5, Same
      DEF A!ArithmeticThrows, B!ArithmeticThrows, A!ADD_SUB_MUL, B!ADD_SUB_MUL
    <3> DEFINE file == [A!RegsWith(regsA, now.a, x \div y) EXCEPT ![R_TMP0] = x % y]
    <3>2. /\ A!Advance([A!RegsWith(regsA, now.a, x \div y) EXCEPT ![A!R_TMP0] = x % y])
          /\ heapA' = A!HeapWith(now.a, x \div y)
      BY <2>1, <2>2, <3>1, Same DEF A!DIV
    <3>3. /\ B!Advance([B!RegsWith(regsB, now.a, x \div y) EXCEPT ![B!R_TMP0] = x % y])
          /\ heapB' = B!HeapWith(now.a, x \div y)
      BY <2>1, <2>2, <3>1, Same DEF B!DIV
    <3>4. A!Advance(file) /\ B!Advance(file)
      BY <1>1, <3>2, <3>3, Same, SameDestination DEF A!R_TMP0, B!R_TMP0, R_TMP0
    <3>5. DOMAIN file = DOMAIN regsA /\ file[R_PC] = pcA
      BY <1>1, SameDestination DEF R_TMP0, R_PC
    <3> HIDE DEF file
    <3>6. /\ regsA' = regsB' /\ DOMAIN regsA' = DOMAIN regsA
          /\ regsA'[R_PC] = (pcA + 1) % Word
      BY <3>4, <3>5, SameFile
    <3>7. \/ Writes(now) = {} /\ UNCHANGED <<heapA, heapB>>
          \/ \E op, v : Writes(now) = {op} /\ op \in Operand /\ Stored(op, v)
      BY <3>2, <3>3, SameStore
    <3> QED
      BY <3>1, <3>6, <3>7, Same DEF A!DIV, B!DIV, Together, Deterministic
  <2> QED
    BY <2>3, <2>4, <2>5
<1> QED
  BY <1>3, <1>4

LEMMA MoveTogether ==
    ASSUME Running, now.opcode \in {"MOV", "ST", "LD"}, A!VMNext, B!VMNext
    PROVE  Together
<1>1. IsReg(now.a) /\ now.opcode # "ST" => now.a.data # R_PC
  BY Now DEF RegsWritten
<1>2. /\ A!MOV \/ A!ST \/ A!LD \/ A!MoveThrows
      /\ B!MOV \/ B!ST \/ B!LD \/ B!MoveThrows
  BY Same DEF Arithmetic, A!Arithmetic, B!Arithmetic, A!VMNext, B!VMNext,
     A!NoOperation, B!NoOperation, A!ADD_SUB_MUL, B!ADD_SUB_MUL, A!DIV, B!DIV,
     A!ArithmeticThrows, B!ArithmeticThrows, A!PUSH, B!PUSH, A!POP, B!POP,
     A!PUTC, B!PUTC, A!GETC, B!GETC, A!CharThrows, B!CharThrows
<1>3. CASE A!MoveThrows
  <2>1. ~B!MOV /\ ~B!ST /\ ~B!LD
    BY <1>3, Same DEF A!MoveThrows, B!MOV, B!ST, B!LD, A!IsReg, B!IsReg, A!IsRef, B!IsRef,
                      A!InHeap, B!InHeap
  <2> QED
    BY <1>2, <1>3, <2>1, BothThrow DEF A!MoveThrows, B!MoveThrows
<1>4. CASE ~A!MoveThrows
  <2>1. A!MayRead(now.b)
    BY <1>2, <1>4, Same DEF A!MOV, A!ST, A!LD
  <2>2. PICK val : A!ReadValues(now.b) = {val} /\ B!ReadValues(now.b) = {val}
    BY <2>1, SameReads
  <2>3. ~B!MoveThrows
    BY <1>2, <1>4, Same DEF B!MoveThrows, A!MOV, A!ST, A!LD, A!IsReg, B!IsReg, A!IsRef,
                            B!IsRef, A!InHeap, B!InHeap
  <2>4. CASE now.opcode = "MOV"
    <3>1. A!MOV /\ B!MOV
      BY <1>2, <1>4, <2>3, <2>4, Same DEF A!ST, B!ST, A!LD, B!LD
    <3> DEFINE file == A!RegsWith(regsA, now.a, val)
    <3>2. A!Advance(file) /\ B!Advance(file)
      <4>1. A!Advance(A!RegsWith(regsA, now.a, val))
        BY <2>2, <3>1, Same DEF A!MOV
      <4>2. B!Advance(B!RegsWith(regsB, now.a, val))
        BY <2>2, <3>1, Same DEF B!MOV
      <4> QED
        BY <1>1, <2>4, <4>1, <4>2, Same, SameDestination
    <3>3. DOMAIN file = DOMAIN regsA /\ file[R_PC] = pcA
      BY <1>1, <2>4, SameDestination
    <3> HIDE DEF file
    <3>4. /\ regsA' = regsB' /\ DOMAIN regsA' = DOMAIN regsA
          /\ regsA'[R_PC] = (pcA + 1) % Word
      BY <3>2, <3>3, SameFile
    <3>5. Writes(now) = {}
      BY <2>4 DEF Writes, Arithmetic
    <3> QED
      BY <3>1, <3>4, <3>5, Same DEF A!MOV, B!MOV, Together, Deterministic
  <2>5. CASE now.opcode # "MOV"
    <3>1. (A!ST \/ A!LD) /\ (B!ST \/ B!LD)
      BY <1>2, <1>4, <2>3, <2>5, Same DEF A!MOV, B!MOV
    <3>2. A!Assign(now.a, val) /\ B!Assign(now.a, val)
      BY <2>2, <3>1, Same DEF A!ST, B!ST, A!LD, B!LD
    <3>3. IsReg(now.a) => now.a.data # R_PC
      <4>1. A!ST => ~IsReg(now.a)
        BY Same DEF A!ST, A!IsRef, IsReg
      <4>2. A!LD => now.opcode # "ST"
        BY Same DEF A!LD
      <4> QED
        BY <1>1, <3>1, <4>1, <4>2
    <3>4. /\ regsA' = regsB' /\ DOMAIN regsA' = DOMAIN regsA
          /\ regsA'[R_PC] = (pcA + 1) % Word
          /\ \/ Writes(now) = {} /\ UNCHANGED <<heapA, heapB>>
             \/ \E op, v : Writes(now) = {op} /\ op \in Operand /\ Stored(op, v)
      BY <2>5, <3>2, <3>3, SameAssign
    <3> QED
      BY <3>1, <3>4, Same DEF A!ST, B!ST, A!LD, B!LD, Together, Deterministic
  <2> QED
    BY <2>4, <2>5
<1> QED
  BY <1>3, <1>4

LEMMA CharTogether ==
    ASSUME Running, now.opcode \in {"PUTC", "GETC"}, A!VMNext, B!VMNext
    PROVE  Together
<1>1. /\ A!PUTC \/ A!GETC \/ A!CharThrows
      /\ B!PUTC \/ B!GETC \/ B!CharThrows
  BY Same DEF Arithmetic, A!Arithmetic, B!Arithmetic, A!VMNext, B!VMNext,
     A!NoOperation, B!NoOperation, A!ADD_SUB_MUL, B!ADD_SUB_MUL, A!DIV, B!DIV,
     A!ArithmeticThrows, B!ArithmeticThrows, A!PUSH, B!PUSH, A!POP, B!POP,
     A!MOV, B!MOV, A!ST, B!ST, A!LD, B!LD, A!MoveThrows, B!MoveThrows
<1>2. A!Rest = B!Rest /\ A!Char = B!Char
  BY Same DEF A!Rest, B!Rest, A!Char, B!Char
<1>3. CASE A!CharThrows
  <2>1. ~B!PUTC /\ ~B!GETC
    BY <1>3, Same DEF A!CharThrows, B!PUTC, B!GETC
  <2>2. B!CharThrows
    BY <1>1, <2>1
  <2>3. CASE now.opcode = "PUTC"
    BY <1>3, <2>2, <2>3, BothThrow, Same DEF A!CharThrows, B!CharThrows
  <2>4. CASE now.opcode = "GETC"
    BY <1>2, <1>3, <2>2, <2>4, Same DEF A!CharThrows, B!CharThrows, Together, Deterministic
  <2> QED
    BY <2>3, <2>4
<1>4. CASE ~A!CharThrows /\ now.opcode = "PUTC"
  <2>1. A!PUTC /\ B!PUTC
    BY <1>1, <1>4, Same DEF A!GETC, B!GETC, A!PUTC, B!CharThrows
  <2>2. PICK val : A!ReadValues(now.a) = {val} /\ B!ReadValues(now.a) = {val}
    BY <1>4, <2>1, Same, SameReads DEF A!PUTC
  <2>3. A!Advance(regsA) /\ B!Advance(regsA)
    BY <2>1, Same DEF A!PUTC, B!PUTC
  <2>4. /\ regsA' = regsB' /\ DOMAIN regsA' = DOMAIN regsA
        /\ regsA'[R_PC] = (pcA + 1) % Word
    BY <2>3, SameFile DEF pcA
  <2>5. stdoutA' = stdoutB'
    BY <2>1, <2>2, Same DEF A!PUTC, B!PUTC
  <2>6. Writes(now) = {}
    BY <1>4 DEF Writes, Arithmetic
  <2> QED
    BY <2>1, <2>4, <2>5, <2>6, Same DEF A!PUTC, B!PUTC, Together, Deterministic
<1>5. CASE ~A!CharThrows /\ now.opcode = "GETC"
  <2>1. A!GETC /\ B!GETC
    BY <1>1, <1>5, Same DEF A!PUTC, B!PUTC, A!GETC, B!CharThrows
  <2>2. A!Assign(now.a, A!Char) /\ B!Assign(now.a, A!Char)
    BY <1>2, <2>1, Same DEF A!GETC, B!GETC
  <2>3. IsReg(now.a) => now.a.data # R_PC
    BY <1>5, Now DEF RegsWritten
  <2>4. /\ regsA' = regsB' /\ DOMAIN regsA' = DOMAIN regsA
        /\ regsA'[R_PC] = (pcA + 1) % Word
        /\ \/ Writes(now) = {} /\ UNCHANGED <<heapA, heapB>>
           \/ \E op, v : Writes(now) = {op} /\ op \in Operand /\ Stored(op, v)
    BY <1>5, <2>2, <2>3, SameAssign
  <2> QED
    BY <1>2, <2>1, <2>4, Same DEF A!GETC, B!GETC, Together, Deterministic
<1> QED
  BY <1>3, <1>4, <1>5

-----------------------------------------------------------------------------
\* Every step of the pair.
LEMMA StepTogether ==
    ASSUME \A p \in Programs : SelfContained(p), PairInv, A!VMNext, B!VMNext
    PROVE  /\ PairInv'
           /\ \A b \in DOMAIN heapA : heapA[b] = heapB[b] => heapA'[b] = heapB'[b]
<1>1. statusA = "running"
  BY DEF A!VMNext, A!At, A!NoOperation, A!ADD_SUB_MUL, A!DIV, A!ArithmeticThrows, A!MOV,
         A!ST, A!LD, A!MoveThrows, A!PUSH, A!POP, A!PUTC, A!GETC, A!CharThrows, A!Exit
<1>2. statusB = "running" /\ regsA = regsB /\ A!pc = pcA /\ B!pc = pcA
  BY <1>1 DEF PairInv, Deterministic, A!pc, B!pc, pcA, A!R_PC, B!R_PC, R_PC
<1>3. CASE pcA < Len(program)
  <2>1. Running
    BY <1>1, <1>3 DEF Running
  <2>2. now.opcode \in Opcodes \ {"PUSH", "POP"}
    BY <2>1, Now DEF Instruction
  <2>3. ASSUME now.opcode \in Arithmetic
        PROVE  Together
    BY <2>1, <2>3, ArithmeticTogether
  <2>4. ASSUME now.opcode \in {"MOV", "ST", "LD"}
        PROVE  Together
    BY <2>1, <2>4, MoveTogether
  <2>5. ASSUME now.opcode \in {"PUTC", "GETC"}
        PROVE  Together
    BY <2>1, <2>5, CharTogether
  <2>6. ASSUME now.opcode \in {"NOP", "JMP", "JZ", "CALL", "RET", "OUT", "IN", "HALT"}
        PROVE  Together
    <3>1. A!NoOperation /\ B!NoOperation
      BY <2>1, <2>6, Same DEF A!Arithmetic, B!Arithmetic, A!VMNext, B!VMNext,
         A!ADD_SUB_MUL, B!ADD_SUB_MUL, A!DIV, B!DIV,
         A!ArithmeticThrows, B!ArithmeticThrows, A!PUSH, B!PUSH, A!POP, B!POP,
         A!PUTC, B!PUTC, A!GETC, B!GETC, A!CharThrows, B!CharThrows,
         A!MOV, B!MOV, A!ST, B!ST, A!LD, B!LD, A!MoveThrows, B!MoveThrows
    <3> QED
      BY <2>1, <3>1, NoOperationTogether
  <2>7. Together
    BY <2>2, <2>3, <2>4, <2>5, <2>6 DEF Opcodes, Arithmetic
  <2> QED
    BY <2>1, <2>7, TogetherKeeps
<1>4. CASE ~(pcA < Len(program))
  <2>1. A!Exit /\ B!Exit
    BY <1>2, <1>4 DEF A!VMNext, A!At, A!NoOperation, A!ADD_SUB_MUL, A!DIV,
       A!ArithmeticThrows, A!MOV, A!ST, A!LD, A!MoveThrows, A!PUSH, A!POP, A!PUTC, A!GETC,
       A!CharThrows, B!VMNext, B!At, B!NoOperation, B!ADD_SUB_MUL, B!DIV,
       B!ArithmeticThrows, B!MOV, B!ST, B!LD, B!MoveThrows, B!PUSH, B!POP, B!PUTC, B!GETC,
       B!CharThrows
  <2>2. /\ UNCHANGED <<program, regsA, heapA, heapB>> /\ statusA' = "finished"
        /\ UNCHANGED <<regsB, stdinA, stdinB, stdoutA, stdoutB>> /\ statusB' = "finished"
    BY <2>1 DEF A!Exit, B!Exit
  <2> QED
    BY <2>2 DEF PairInv, Deterministic, pcA
<1> QED
  BY <1>3, <1>4

LEMMA PairHolds ==
    ASSUME \A p \in Programs : SelfContained(p)
    PROVE  Spec => []PairInv
<1>1. Init => PairInv
  <2> SUFFICES ASSUME Init PROVE PairInv
    OBVIOUS
  <2>1. /\ program \in Programs /\ stdinA = stdinB
        /\ regsA = [r \in 0 .. REG_COUNT - 1 |-> IF r = R_SP THEN StackAddress + StackSize ELSE 0]
        /\ regsB = regsA
        /\ stdoutA = <<>> /\ stdoutB = <<>> /\ statusA = "running" /\ statusB = "running"
    BY DEF Init, A!VMInit, B!VMInit, A!Boot, B!Boot, A!REG_COUNT, B!REG_COUNT, REG_COUNT,
           A!R_SP, B!R_SP, R_SP
  <2>2. DOMAIN heapA = HeapBytes /\ DOMAIN heapB = HeapBytes
    BY DEF Init, A!VMInit, B!VMInit, A!Boot, B!Boot, A!InitialHeap, B!InitialHeap,
           A!HeapBytes, B!HeapBytes, HeapBytes
  <2>3. pcA = 0
    BY <2>1 DEF pcA, R_PC, R_SP, REG_COUNT
  <2>4. Written(pcA) = {}
    BY <2>3 DEF Written
  <2> QED
    BY <2>1, <2>2, <2>3, <2>4 DEF PairInv, Deterministic
<1>2. (\A p \in Programs : SelfContained(p)) /\ PairInv
        /\ [Next]_<<program, varsA, varsB>> => PairInv'
  <2>1. CASE Next
    BY <2>1, StepTogether DEF Next
  <2>2. CASE UNCHANGED <<program, varsA, varsB>>
    BY <2>2 DEF varsA, varsB, PairInv, Deterministic, pcA, Written
  <2> QED
    BY <2>1, <2>2
<1> QED
  BY <1>1, <1>2, PTL DEF Spec

\* What malloc left in the heap shows in no register, no output, and not in how
\* the program ends (Deterministic).
THEOREM NobodySeesTheHeap ==
    ASSUME \A p \in Programs : SelfContained(p)
    PROVE  Spec => []Deterministic
<1>1. PairInv => Deterministic
  BY DEF PairInv
<1> QED
  BY <1>1, PairHolds, PTL

\* No instruction copies a byte in which the heaps differ to a place where they
\* agreed (DifferencesShrink).
THEOREM DifferencesOnlyShrink ==
    ASSUME \A p \in Programs : SelfContained(p)
    PROVE  Spec => DifferencesShrink
<1> DEFINE Kept == \A b \in DOMAIN heapA : heapA[b] = heapB[b] => heapA'[b] = heapB'[b]
<1>1. Spec => []PairInv
  BY PairHolds
<1>2. (\A p \in Programs : SelfContained(p)) /\ PairInv
        /\ [Next]_<<program, varsA, varsB>> => [Kept]_<<heapA, heapB>>
  <2>1. CASE Next
    BY <2>1, StepTogether DEF Next
  <2>2. CASE UNCHANGED <<program, varsA, varsB>>
    BY <2>2 DEF varsA, varsB
  <2> QED
    BY <2>1, <2>2
<1> QED
  BY <1>1, <1>2, PTL DEF Spec, DifferencesShrink
=============================================================================
