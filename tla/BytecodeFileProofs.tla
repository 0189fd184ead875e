-------------------------- MODULE BytecodeFileProofs --------------------------
(***************************************************************************)
(* What a reader of a bytecode file loads, for all outputs of the compiler *)
(* and wherever the file was cut off, before it was measured or after.     *)
(***************************************************************************)
EXTENDS BytecodeFile, SequenceTheorems, TLAPS

LEMMA OutputTyped ==
    ASSUME output \in Outputs
    PROVE  /\ output.code \in Seq(Instruction)
           /\ Len(output.code) \in Nat
           /\ output.symbols \in Nat
           /\ output.pool \in Nat
           /\ \A k \in DOMAIN output.code :
                 \A op \in {output.code[k].a, output.code[k].b} : op.data \div 256 ^ 3 < 256
BY FileAssumption

\* The sections follow each other, and the file ends with the last.
LEMMA SectionsGrow ==
    ASSUME output \in Outputs, NEW n \in 0 .. SectionCount
    PROVE  /\ Written(n) \in Nat
           /\ FileSize \in Nat
           /\ Written(n) <= FileSize
           /\ n < SectionCount => Written(n) <= Written(n + 1) /\ Written(n + 1) \in Nat
<1>1. n \in {0, 1, 2, 3, 4, 5, 6}
  BY DEF SectionCount
<1> DEFINE code    == InstructionSize * Len(output.code)
           symbols == SizeOfSymbol * output.symbols
           pool    == output.pool
<1>2. code \in Nat /\ symbols \in Nat /\ pool \in Nat
  BY OutputTyped DEF InstructionSize, SizeOfSymbol
<1>3. /\ Written(0) = 0
      /\ Written(1) = 60
      /\ Written(2) = 60 + code
      /\ Written(3) = 60 + code + 12
      /\ Written(4) = 60 + code + 12 + 108
      /\ Written(5) = 60 + code + 12 + 108 + symbols
      /\ Written(6) = 60 + code + 12 + 108 + symbols + pool
  BY DEF Written, SizeOfHeader, SizeOfMetaHeader, SizeOfType, TypeCount
<1> HIDE DEF code, symbols, pool
<1> QED
  BY <1>1, <1>2, <1>3 DEF FileSize, SectionCount

-----------------------------------------------------------------------------
(***************************************************************************)
(* Bytes.                                                                  *)
(***************************************************************************)
Powers == 256 ^ 0 = 1 /\ 256 ^ 1 = 256 /\ 256 ^ 2 = 65536 /\ 256 ^ 3 = 16777216

LEMMA PowersOf256 == Powers
BY DEF Powers

\* Four bytes hold a datum below 256^4.
LEMMA DatumBytes ==
    ASSUME NEW d \in Nat, d \div 16777216 < 256
    PROVE  (d % 256) + 256 * ((d \div 256) % 256) + 65536 * ((d \div 65536) % 256)
             + 16777216 * ((d \div 16777216) % 256) = d
<1>1. (d \div 16777216) % 256 = d \div 16777216
  BY SMTT(30)
<1>2. d = (d % 256) + 256 * (d \div 256)
  BY SMTT(30)
<1>3. d \div 256 = ((d \div 256) % 256) + 256 * (d \div 65536)
  BY SMTT(30)
<1>4. d \div 65536 = ((d \div 65536) % 256) + 256 * (d \div 16777216)
  BY SMTT(30)
<1> QED
  BY <1>1, <1>2, <1>3, <1>4, SMTT(30)

\* An operand from five bytes.
Decoded(t, b0, b1, b2, b3) ==
    [type |-> t, data |-> b0 + 256 * b1 + 256 ^ 2 * b2 + 256 ^ 3 * b3]

\* What serializeInstruction writes of an operand is read back.
LEMMA OperandReadBack ==
    ASSUME NEW op \in Operand, op.data \div 256 ^ 3 < 256
    PROVE  LET B == OperandBytes(op) IN Decoded(B[1], B[2], B[3], B[4], B[5]) = op
<1> DEFINE B == OperandBytes(op)
<1>1. Powers
  BY PowersOf256
<1>2. /\ B[1] = op.type
      /\ B[2] = op.data % 256
      /\ B[3] = (op.data \div 256) % 256
      /\ B[4] = (op.data \div 65536) % 256
      /\ B[5] = (op.data \div 16777216) % 256
  <2>1. B[1] = op.type
    BY DEF OperandBytes
  <2>2. B[2] = (op.data \div 256 ^ 0) % 256
    BY DEF OperandBytes
  <2>3. B[3] = (op.data \div 256 ^ 1) % 256
    BY DEF OperandBytes
  <2>4. B[4] = (op.data \div 256 ^ 2) % 256
    BY DEF OperandBytes
  <2>5. B[5] = (op.data \div 256 ^ 3) % 256
    BY DEF OperandBytes
  <2>6. op.data \in Nat /\ op.data \div 1 = op.data
    BY DEF Operand
  <2> QED
    BY <1>1, <2>1, <2>2, <2>3, <2>4, <2>5, <2>6 DEF Powers
<1>3. op.data \in Nat /\ op.data \div 16777216 < 256
  BY <1>1 DEF Operand, Powers
<1>4. B[2] + 256 * B[3] + 65536 * B[4] + 16777216 * B[5] = op.data
  <2>1. (op.data % 256) + 256 * ((op.data \div 256) % 256)
          + 65536 * ((op.data \div 65536) % 256)
          + 16777216 * ((op.data \div 16777216) % 256) = op.data
    BY <1>3, DatumBytes
  <2> HIDE DEF B
  <2> QED
    BY <1>2, <2>1
<1>5. [type |-> op.type, data |-> op.data] = op
  BY DEF Operand
<1> HIDE DEF B
<1>6. Decoded(B[1], B[2], B[3], B[4], B[5]) = [type |-> op.type, data |-> op.data]
  BY <1>1, <1>2, <1>4 DEF Decoded, Powers
<1> QED
  BY <1>5, <1>6 DEF B

\* Every byte of an operand but its kind is a natural number.
LEMMA OperandBytesTyped ==
    ASSUME NEW op \in Operand, NEW b \in 2 .. 5
    PROVE  OperandBytes(op)[1] \in OperandTypes /\ OperandBytes(op)[b] \in Nat
<1>1. OperandBytes(op)[1] = op.type
  BY DEF OperandBytes
<1>2. /\ OperandBytes(op)[2] = (op.data \div 256 ^ 0) % 256
      /\ OperandBytes(op)[3] = (op.data \div 256 ^ 1) % 256
      /\ OperandBytes(op)[4] = (op.data \div 256 ^ 2) % 256
      /\ OperandBytes(op)[5] = (op.data \div 256 ^ 3) % 256
  BY DEF OperandBytes
<1>3. op.data \in Nat /\ op.type \in OperandTypes
  BY DEF Operand
<1>4. \A m \in Nat \ {0} : (op.data \div m) % 256 \in Nat
  BY <1>3
<1>5. /\ (op.data \div 256 ^ 0) % 256 \in Nat /\ (op.data \div 256 ^ 1) % 256 \in Nat
      /\ (op.data \div 256 ^ 2) % 256 \in Nat /\ (op.data \div 256 ^ 3) % 256 \in Nat
  BY <1>4, PowersOf256 DEF Powers
<1>6. b \in {2, 3, 4, 5}
  OBVIOUS
<1> QED
  BY <1>1, <1>2, <1>3, <1>5, <1>6

LEMMA FiveInARow ==
    ASSUME NEW S, NEW f \in [1 .. 5 -> S]
    PROVE  f \in Seq(S) /\ Len(f) = 5
<1>1. f \in Seq(S)
  <2>1. 5 \in Nat
    OBVIOUS
  <2> QED
    BY <2>1, SeqDef
<1>2. Len(f) \in Nat /\ DOMAIN f = 1 .. Len(f)
  BY <1>1, LenProperties
<1>3. 1 .. Len(f) = 1 .. 5
  BY <1>2
<1>4. 5 \in 1 .. Len(f) /\ Len(f) + 1 \notin 1 .. 5
  BY <1>2, <1>3, SMTT(30)
<1> QED
  BY <1>1, <1>2, <1>4

LEMMA Joined ==
    ASSUME NEW S, NEW s \in Seq(S), NEW t \in Seq(S)
    PROVE  /\ s \o t \in Seq(S)
           /\ Len(s \o t) = Len(s) + Len(t)
           /\ \A k \in 1 .. Len(s) : (s \o t)[k] = s[k]
           /\ \A k \in 1 .. Len(t) : (s \o t)[Len(s) + k] = t[k]
<1>1. /\ s \o t \in Seq(S)
      /\ Len(s \o t) = Len(s) + Len(t)
      /\ \A k \in 1 .. Len(s) + Len(t) :
            (s \o t)[k] = IF k <= Len(s) THEN s[k] ELSE t[k - Len(s)]
  BY ConcatProperties
<1>2. PICK n \in Nat, m \in Nat : n = Len(s) /\ m = Len(t)
  OBVIOUS
<1>3. \A k \in 1 .. n : k \in 1 .. n + m /\ k <= n
  OBVIOUS
<1>4. \A k \in 1 .. m : n + k \in 1 .. n + m /\ ~(n + k <= n) /\ (n + k) - n = k
  OBVIOUS
<1>5. \A k \in 1 .. n : (s \o t)[k] = s[k]
  BY <1>1, <1>2, <1>3
<1>6. \A k \in 1 .. m : (s \o t)[n + k] = t[k]
  BY <1>1, <1>2, <1>4
<1> QED
  BY <1>1, <1>2, <1>5, <1>6

\* The bytes of an instruction: the opcode, then those of the operands.
LEMMA InstructionLayout ==
    ASSUME NEW i
    PROVE  /\ InstructionBytes(i)[1] = i.opcode
           /\ \A b \in 1 .. 5 : InstructionBytes(i)[1 + b] = OperandBytes(i.a)[b]
           /\ \A b \in 1 .. 5 : InstructionBytes(i)[6 + b] = OperandBytes(i.b)[b]
<1> DEFINE O == <<i.opcode>>
           A == OperandBytes(i.a)
           B == OperandBytes(i.b)
           Values == {i.opcode} \union {A[b] : b \in 1 .. 5} \union {B[b] : b \in 1 .. 5}
<1>1. A \in [1 .. 5 -> Values] /\ B \in [1 .. 5 -> Values]
  BY DEF OperandBytes
<1>2. O \in Seq(Values) /\ Len(O) = 1 /\ O[1] = i.opcode
  OBVIOUS
<1>3. InstructionBytes(i) = (O \o A) \o B
  BY DEF InstructionBytes
<1> HIDE DEF O, A, B, Values
<1>4. A \in Seq(Values) /\ Len(A) = 5 /\ B \in Seq(Values) /\ Len(B) = 5
  BY <1>1, FiveInARow
<1> DEFINE C == O \o A
<1>5. /\ C \in Seq(Values) /\ Len(C) = 6
      /\ C[1] = O[1]
      /\ \A k \in 1 .. 5 : C[1 + k] = A[k]
  <2>1. /\ O \o A \in Seq(Values) /\ Len(O \o A) = Len(O) + Len(A)
        /\ \A k \in 1 .. Len(O) : (O \o A)[k] = O[k]
        /\ \A k \in 1 .. Len(A) : (O \o A)[Len(O) + k] = A[k]
    <3>1. O \in Seq(Values) /\ A \in Seq(Values)
      BY <1>2, <1>4
    <3> QED
      BY <3>1, Joined
  <2>2. /\ C \in Seq(Values) /\ Len(C) = Len(O) + Len(A)
        /\ \A k \in 1 .. Len(O) : C[k] = O[k]
        /\ \A k \in 1 .. Len(A) : C[Len(O) + k] = A[k]
    BY <2>1
  <2> HIDE DEF C
  <2> QED
    BY <1>2, <1>4, <2>2
<1> HIDE DEF C
<1>6. /\ \A k \in 1 .. 6 : (C \o B)[k] = C[k]
      /\ \A k \in 1 .. 5 : (C \o B)[6 + k] = B[k]
  <2>1. /\ \A k \in 1 .. Len(C) : (C \o B)[k] = C[k]
        /\ \A k \in 1 .. Len(B) : (C \o B)[Len(C) + k] = B[k]
    <3>1. C \in Seq(Values) /\ B \in Seq(Values)
      BY <1>4, <1>5
    <3> QED
      BY <3>1, Joined
  <2> QED
    BY <1>4, <1>5, <2>1
<1>7. (C \o B)[1] = i.opcode
  BY <1>2, <1>5, <1>6
<1>8. \A b \in 1 .. 5 : (C \o B)[1 + b] = A[b]
  <2>1. \A b \in 1 .. 5 : 1 + b \in 1 .. 6
    OBVIOUS
  <2> QED
    BY <1>5, <1>6, <2>1
<1> QED
  BY <1>3, <1>6, <1>7, <1>8 DEF A, B, C

Nop == Instr("NOP", Null, Null)

\* The bytes of the n-th instruction in the reader's buffer, counted from 0.
LEMMA ByteOfInstruction ==
    ASSUME NEW n \in Nat, NEW j \in 0 .. 10
    PROVE  ByteAt(60 + 11 * n + j) =
              IF 60 + 11 * n + j < got
              THEN InstructionBytes(output.code[n + 1])[j + 1]
              ELSE InstructionBytes(Nop)[j + 1]
<1>1. ((60 + 11 * n + j) - 60) \div 11 = n /\ ((60 + 11 * n + j) - 60) % 11 = j
  BY SMTT(30)
<1> QED
  BY <1>1 DEF ByteAt, Nop, SizeOfHeader, InstructionSize

\* The same bytes, named as the parts of the instruction they belong to.
Byte(i, j) == InstructionBytes(i)[j + 1]

InstructionAt(p) == Instr(ByteAt(p), OperandAt(p + 1), OperandAt(p + 6))

LEMMA BytesDecoded ==
    ASSUME NEW i \in Instruction,
           \A op \in {i.a, i.b} : op.data \div 256 ^ 3 < 256
    PROVE  Instr(Byte(i, 0),
                 Decoded(Byte(i, 1), Byte(i, 2), Byte(i, 3), Byte(i, 4), Byte(i, 5)),
                 Decoded(Byte(i, 6), Byte(i, 7), Byte(i, 8), Byte(i, 9), Byte(i, 10))) = i
<1> DEFINE A == OperandBytes(i.a)
           B == OperandBytes(i.b)
<1>1. i.a \in Operand /\ i.b \in Operand
  BY DEF Instruction
<1>2. Decoded(A[1], A[2], A[3], A[4], A[5]) = i.a
  BY <1>1, OperandReadBack
<1>3. Decoded(B[1], B[2], B[3], B[4], B[5]) = i.b
  BY <1>1, OperandReadBack
<1>4. /\ Byte(i, 0) = i.opcode
      /\ \A b \in 1 .. 5 : InstructionBytes(i)[1 + b] = A[b]
      /\ \A b \in 1 .. 5 : InstructionBytes(i)[6 + b] = B[b]
  BY InstructionLayout DEF Byte
<1> HIDE DEF A, B
<1>5. /\ Byte(i, 1) = A[1] /\ Byte(i, 2) = A[2] /\ Byte(i, 3) = A[3]
      /\ Byte(i, 4) = A[4] /\ Byte(i, 5) = A[5]
  BY <1>4 DEF Byte
<1>6. /\ Byte(i, 6) = B[1] /\ Byte(i, 7) = B[2] /\ Byte(i, 8) = B[3]
      /\ Byte(i, 9) = B[4] /\ Byte(i, 10) = B[5]
  BY <1>4 DEF Byte
<1>7. Instr(i.opcode, i.a, i.b) = i
  BY DEF Instruction, Instr
<1> QED
  BY <1>2, <1>3, <1>4, <1>5, <1>6, <1>7

LEMMA NopIsInstruction ==
    Nop \in Instruction /\ \A op \in {Nop.a, Nop.b} : op.data \div 256 ^ 3 < 256
<1>1. Nop.a = Null /\ Nop.b = Null /\ Nop \in Instruction /\ Null.data = 0
  BY DEF Nop, Instr, Null, Instruction, Operand, OperandTypes, Opcodes
<1>2. 0 \div 16777216 < 256
  OBVIOUS
<1> QED
  BY <1>1, <1>2, PowersOf256 DEF Powers

\* The types of the bytes of an instruction.
LEMMA BytesTyped ==
    ASSUME NEW i \in Instruction
    PROVE  /\ Byte(i, 0) \in Opcodes
           /\ Byte(i, 1) \in OperandTypes /\ Byte(i, 6) \in OperandTypes
           /\ \A j \in (2 .. 5) \union (7 .. 10) : Byte(i, j) \in Nat
<1>1. i.a \in Operand /\ i.b \in Operand /\ i.opcode \in Opcodes
  BY DEF Instruction
<1>2. /\ InstructionBytes(i)[1] = i.opcode
      /\ \A b \in 1 .. 5 : InstructionBytes(i)[1 + b] = OperandBytes(i.a)[b]
      /\ \A b \in 1 .. 5 : InstructionBytes(i)[6 + b] = OperandBytes(i.b)[b]
  BY InstructionLayout
<1>3. Byte(i, 0) \in Opcodes
  BY <1>1, <1>2 DEF Byte
<1>4. /\ Byte(i, 1) = OperandBytes(i.a)[1] /\ Byte(i, 2) = OperandBytes(i.a)[2]
      /\ Byte(i, 3) = OperandBytes(i.a)[3] /\ Byte(i, 4) = OperandBytes(i.a)[4]
      /\ Byte(i, 5) = OperandBytes(i.a)[5]
      /\ Byte(i, 6) = OperandBytes(i.b)[1] /\ Byte(i, 7) = OperandBytes(i.b)[2]
      /\ Byte(i, 8) = OperandBytes(i.b)[3] /\ Byte(i, 9) = OperandBytes(i.b)[4]
      /\ Byte(i, 10) = OperandBytes(i.b)[5]
  BY <1>2 DEF Byte
<1>5. \A op \in {i.a, i.b} :
         /\ OperandBytes(op)[1] \in OperandTypes
         /\ OperandBytes(op)[2] \in Nat /\ OperandBytes(op)[3] \in Nat
         /\ OperandBytes(op)[4] \in Nat /\ OperandBytes(op)[5] \in Nat
  <2>1. 2 \in 2 .. 5 /\ 3 \in 2 .. 5 /\ 4 \in 2 .. 5 /\ 5 \in 2 .. 5
    OBVIOUS
  <2> QED
    BY <1>1, <2>1, OperandBytesTyped
<1>6. \A j \in (2 .. 5) \union (7 .. 10) : j \in {2, 3, 4, 5, 7, 8, 9, 10}
  OBVIOUS
<1> QED
  BY <1>3, <1>4, <1>5, <1>6

\* What the reader makes of the eleven bytes at an instruction's place.
LEMMA InstructionRead ==
    ASSUME output \in Outputs, got \in Nat,
           NEW n \in Nat, n < Len(output.code)
    PROVE  /\ InstructionAt(60 + 11 * n) \in Instruction
           /\ Whole(n + 1) => InstructionAt(60 + 11 * n) = output.code[n + 1]
           /\ ~Begun(n + 1) => InstructionAt(60 + 11 * n) = Nop
<1> DEFINE p == 60 + 11 * n
           C(j) == ByteAt(p + j)
           i == output.code[n + 1]
<1>1. i \in Instruction /\ \A op \in {i.a, i.b} : op.data \div 256 ^ 3 < 256
  <2>1. n + 1 \in 1 .. Len(output.code) /\ output.code \in Seq(Instruction)
    BY OutputTyped
  <2> QED
    BY <2>1, OutputTyped
<1>2. \A j \in 0 .. 10 : C(j) = IF p + j < got THEN Byte(i, j) ELSE Byte(Nop, j)
  BY ByteOfInstruction DEF Byte
<1>3. InstructionAt(p) = Instr(C(0), Decoded(C(1), C(2), C(3), C(4), C(5)),
                                     Decoded(C(6), C(7), C(8), C(9), C(10)))
  <2>1. /\ p + 0 = p
        /\ (p + 1) + 1 = p + 2 /\ (p + 1) + 2 = p + 3 /\ (p + 1) + 3 = p + 4
        /\ (p + 1) + 4 = p + 5
        /\ (p + 6) + 1 = p + 7 /\ (p + 6) + 2 = p + 8 /\ (p + 6) + 3 = p + 9
        /\ (p + 6) + 4 = p + 10
    OBVIOUS
  <2> HIDE DEF p
  <2> QED
    BY <2>1 DEF InstructionAt, OperandAt, Decoded
<1>4. p \in Nat
  OBVIOUS
<1>5. \A j \in 0 .. 10 : j \in {0, 1, 2, 3, 4, 5, 6, 7, 8, 9, 10}
  OBVIOUS
<1>6. Whole(n + 1) => \A j \in 0 .. 10 : p + j < got
  BY DEF Whole, SizeOfHeader, InstructionSize
<1>7. ~Begun(n + 1) => \A j \in 0 .. 10 : ~(p + j < got)
  BY DEF Begun, SizeOfHeader, InstructionSize
<1> HIDE DEF p, C, i
<1>8. ASSUME Whole(n + 1) PROVE InstructionAt(p) = i
  <2>1. /\ C(0) = Byte(i, 0) /\ C(1) = Byte(i, 1) /\ C(2) = Byte(i, 2)
        /\ C(3) = Byte(i, 3) /\ C(4) = Byte(i, 4) /\ C(5) = Byte(i, 5)
        /\ C(6) = Byte(i, 6) /\ C(7) = Byte(i, 7) /\ C(8) = Byte(i, 8)
        /\ C(9) = Byte(i, 9) /\ C(10) = Byte(i, 10)
    BY <1>2, <1>6, <1>8
  <2> QED
    BY <1>1, <1>3, <2>1, BytesDecoded
<1>9. ASSUME ~Begun(n + 1) PROVE InstructionAt(p) = Nop
  <2>1. /\ C(0) = Byte(Nop, 0) /\ C(1) = Byte(Nop, 1) /\ C(2) = Byte(Nop, 2)
        /\ C(3) = Byte(Nop, 3) /\ C(4) = Byte(Nop, 4) /\ C(5) = Byte(Nop, 5)
        /\ C(6) = Byte(Nop, 6) /\ C(7) = Byte(Nop, 7) /\ C(8) = Byte(Nop, 8)
        /\ C(9) = Byte(Nop, 9) /\ C(10) = Byte(Nop, 10)
    BY <1>2, <1>7, <1>9
  <2> QED
    BY <1>3, <2>1, BytesDecoded, NopIsInstruction
<1>10. InstructionAt(p) \in Instruction
  <2>1. \A j \in 0 .. 10 : C(j) = Byte(i, j) \/ C(j) = Byte(Nop, j)
    BY <1>2
  <2>5. /\ Byte(i, 0) \in Opcodes
        /\ Byte(i, 1) \in OperandTypes /\ Byte(i, 6) \in OperandTypes
        /\ \A j \in (2 .. 5) \union (7 .. 10) : Byte(i, j) \in Nat
    BY <1>1, BytesTyped
  <2>6. /\ Byte(Nop, 0) \in Opcodes
        /\ Byte(Nop, 1) \in OperandTypes /\ Byte(Nop, 6) \in OperandTypes
        /\ \A j \in (2 .. 5) \union (7 .. 10) : Byte(Nop, j) \in Nat
    BY NopIsInstruction, BytesTyped
  <2>7. C(0) \in Opcodes
    <3>1. 0 \in 0 .. 10
      OBVIOUS
    <3> QED
      BY <2>1, <2>5, <2>6, <3>1
  <2>8. C(1) \in OperandTypes /\ C(6) \in OperandTypes
    <3>1. 1 \in 0 .. 10 /\ 6 \in 0 .. 10
      OBVIOUS
    <3> QED
      BY <2>1, <2>5, <2>6, <3>1
  <2>9. \A j \in (2 .. 5) \union (7 .. 10) : C(j) \in Nat
    <3>1. \A j \in (2 .. 5) \union (7 .. 10) : j \in 0 .. 10
      OBVIOUS
    <3> QED
      BY <2>1, <2>5, <2>6, <3>1
  <2>10. /\ C(2) \in Nat /\ C(3) \in Nat /\ C(4) \in Nat /\ C(5) \in Nat
         /\ C(7) \in Nat /\ C(8) \in Nat /\ C(9) \in Nat /\ C(10) \in Nat
    BY <2>9
  <2>2. \A b0, b1, b2, b3 \in Nat : b0 + 256 * b1 + 256 ^ 2 * b2 + 256 ^ 3 * b3 \in Nat
    BY PowersOf256 DEF Powers
  <2>3. \A t \in OperandTypes : \A b0, b1, b2, b3 \in Nat :
           Decoded(t, b0, b1, b2, b3) \in Operand
    BY <2>2 DEF Decoded, Operand
  <2>4. /\ Decoded(C(1), C(2), C(3), C(4), C(5)) \in Operand
        /\ Decoded(C(6), C(7), C(8), C(9), C(10)) \in Operand
    BY <2>3, <2>8, <2>10
  <2> QED
    BY <1>3, <2>4, <2>7 DEF Instr, Instruction
<1> QED
  BY <1>8, <1>9, <1>10 DEF p, i

-----------------------------------------------------------------------------
(***************************************************************************)
(* The reader's loop.  Its position is at the instruction that follows the *)
(* ones it has collected, or it stays for ever at one that does not fit.   *)
(***************************************************************************)
LEMMA HeaderRead ==
    ASSUME output \in Outputs
    PROVE  /\ Header.code_offset = IF 16 < got THEN 60 ELSE 0
           /\ Header.code_size = IF 20 < got THEN 11 * Len(output.code) ELSE 0
           /\ Header.meta_offset = IF 32 < got THEN 60 + 11 * Len(output.code) ELSE 0
           /\ Header.meta_size = IF 36 < got THEN 12 ELSE 0
BY DEF Header, Field, SizeOfHeader, SizeOfMetaHeader, InstructionSize

AsWritten(k) ==
    /\ Whole(k) => instructions[k] = output.code[k]
    /\ ~Begun(k) => instructions[k] = Nop

AtNext ==
    /\ position = 60 + 11 * Len(instructions)
    /\ Len(instructions) <= Len(output.code)
    /\ \A k \in 1 .. Len(instructions) : AsWritten(k)

Collected ==
    IF Header.code_size = 0
    THEN position = Header.code_offset /\ instructions = <<>>
    ELSE AtNext \/ (InCode /\ ~Fits)

Loading ==
    /\ status \in {"idle", "measured"} => got = 0
    /\ status \in {"idle", "measured", "opened"} => instructions = <<>>
    /\ status \in {"reading", "loaded"} => Valid /\ Collected
    /\ status = "loaded" => ~InCode

FileInv == FileTypeOK /\ Loading

LEMMA FileInit == Init => FileInv
<1> SUFFICES ASSUME Init PROVE FileInv
  OBVIOUS
<1>1. Written(0) = 0 /\ FileSize \in Nat
  BY SectionsGrow DEF Init, Written, SectionCount
<1>2. FileTypeOK
  BY <1>1 DEF Init, FileTypeOK, SectionCount
<1>3. Loading
  BY DEF Init, Loading
<1> QED
  BY <1>2, <1>3 DEF FileInv

\* The writer's steps: the reader has nothing yet.
LEMMA WriterStep ==
    ASSUME FileInv, WriteSection \/ Close \/ Die \/ Rewrite
    PROVE  FileInv'
<1> USE DEF readerVars, SectionCount
<1>1. FileTypeOK /\ Loading /\ output \in Outputs
  BY DEF FileInv, FileTypeOK
<1>2. status \in {"idle", "measured"}
  BY DEF WriteSection, Close, Die, Rewrite, Writing
<1>3. /\ got = 0 /\ instructions = <<>> /\ output' = output
      /\ UNCHANGED <<tool, buf, got, position, instructions, status>>
  BY <1>1, <1>2 DEF Loading, WriteSection, Close, Die, Rewrite
<1>4. FileSize' = FileSize /\ \A n : (n \in 0 .. 6 => Written(n)' = Written(n))
  BY <1>3 DEF FileSize, Written
<1>5. section' \in 0 .. 6 /\ size' \in 0 .. Written(section')
      /\ writer' \in {"writing", "closed", "died", "again"}
  <2>1. section \in 0 .. 6 /\ size \in 0 .. Written(section) /\ FileSize \in Nat
        /\ writer \in {"writing", "closed", "died", "again"}
    BY <1>1, SectionsGrow DEF FileTypeOK
  <2>2. CASE WriteSection
    <3>1. Written(section + 1) \in Nat /\ Written(section) \in Nat
      BY <1>1, <2>1, <2>2, SectionsGrow DEF WriteSection
    <3> QED
      BY <2>1, <2>2, <3>1 DEF WriteSection
  <2>3. CASE Close
    BY <2>1, <2>3 DEF Close, FileSize
  <2>4. CASE Die
    BY <2>1, <2>4 DEF Die
  <2>5. CASE Rewrite
    BY <2>1, <2>5 DEF Rewrite, FileSize
  <2> QED
    BY <2>2, <2>3, <2>4, <2>5
<1>6. FileTypeOK'
  <2>1. Written(section)' = Written(section')
    BY <1>3 DEF Written
  <2>2. size' \in 0 .. Written(section)' /\ size' \in Nat
    <3>1. PICK n \in 0 .. 6 : n = section'
      BY <1>5
    <3>2. Written(n) \in Nat
      BY <1>1, SectionsGrow
    <3>3. Written(section') = Written(n)
      BY <3>1
    <3> QED
      BY <1>5, <2>1, <3>2, <3>3
  <2> QED
    BY <1>1, <1>2, <1>3, <1>4, <1>5, <2>2 DEF FileTypeOK
<1>7. Loading'
  BY <1>2, <1>3 DEF Loading
<1> QED
  BY <1>6, <1>7 DEF FileInv

\* The reader's steps until it has opened the file.
LEMMA OpeningStep ==
    ASSUME FileInv, Measure \/ Read \/ Reject
    PROVE  FileInv'
<1> USE DEF writerVars, SectionCount
<1>1. FileTypeOK /\ Loading /\ output \in Outputs /\ section \in 0 .. 6
  BY DEF FileInv, FileTypeOK
<1>2. Written(section) \in Nat /\ FileSize \in Nat /\ Written(section) <= FileSize
  BY <1>1, SectionsGrow
<1>3. /\ UNCHANGED <<output, section, size, writer, tool, position, instructions>>
      /\ FileSize' = FileSize /\ Written(section)' = Written(section)
  BY DEF Measure, Read, Reject, FileSize, Written
<1>4. buf' \in 0 .. FileSize /\ got' \in 0 .. buf' /\ got' <= size
  BY <1>1, <1>2 DEF FileTypeOK, Loading, Measure, Read, Reject
<1>5. status' \in {"measured", "opened", "rejected"}
  BY DEF Measure, Read, Reject
<1>6. FileTypeOK'
  BY <1>1, <1>3, <1>4, <1>5 DEF FileTypeOK
<1>7. Loading'
  BY <1>1, <1>3 DEF Loading, Measure, Read, Reject
<1> QED
  BY <1>6, <1>7 DEF FileInv

LEMMA ReadMetaStep ==
    ASSUME FileInv, ReadMeta
    PROVE  FileInv'
<1> USE DEF writerVars, SectionCount
<1>1. FileTypeOK /\ Loading /\ output \in Outputs
  BY DEF FileInv, FileTypeOK
<1>2. /\ UNCHANGED <<output, section, size, writer, tool, buf, got, instructions>>
      /\ position' = Header.code_offset
      /\ Valid /\ instructions = <<>>
      /\ status' \in {"reading", "overread", "rejected"}
  BY <1>1 DEF ReadMeta, Loading
<1>3. /\ FileSize' = FileSize /\ Written(section)' = Written(section)
      /\ Header' = Header
  BY <1>2 DEF FileSize, Written, Header, Field
<1>4. position' \in Nat
  BY <1>1, <1>2, HeaderRead
<1>5. FileTypeOK'
  BY <1>1, <1>2, <1>3, <1>4 DEF FileTypeOK
<1>6. Valid'
  BY <1>2, <1>3 DEF Valid
<1>7. Collected'
  <2>1. CASE Header.code_size = 0
    BY <1>2, <1>3, <2>1 DEF Collected
  <2>2. CASE Header.code_size # 0
    <3>1. 20 < got /\ got \in Nat /\ Len(output.code) \in Nat
      BY <1>1, <2>2, HeaderRead, OutputTyped DEF FileTypeOK
    <3>2. position' = 60
      BY <1>1, <1>2, <3>1, HeaderRead
    <3>3. instructions' = <<>> /\ Len(instructions') = 0
      BY <1>2
    <3>4. AtNext'
      BY <1>2, <3>1, <3>2, <3>3 DEF AtNext
    <3> QED
      BY <1>3, <2>2, <3>4 DEF Collected
  <2> QED
    BY <2>1, <2>2
<1>8. Loading'
  BY <1>2, <1>6, <1>7 DEF Loading
<1> QED
  BY <1>5, <1>8 DEF FileInv

LEMMA ReadInstructionStep ==
    ASSUME FileInv, ReadInstruction
    PROVE  FileInv'
<1> USE DEF writerVars, SectionCount
<1>1. FileTypeOK /\ Loading /\ output \in Outputs /\ Valid /\ Collected
      /\ got \in Nat /\ buf \in Nat /\ position \in Nat
      /\ instructions \in Seq(Instruction) /\ Len(instructions) \in Nat
  BY DEF FileInv, FileTypeOK, Loading, ReadInstruction
<1>2. /\ UNCHANGED <<output, section, size, writer, tool, buf, got, status>>
      /\ status = "reading" /\ InCode
  BY DEF ReadInstruction
<1>3. /\ FileSize' = FileSize /\ Written(section)' = Written(section)
      /\ Header' = Header
  BY <1>2 DEF FileSize, Written, Header, Field
<1>4. Valid'
  BY <1>1, <1>2, <1>3 DEF Valid
<1>5. Len(output.code) \in Nat
  BY <1>1, OutputTyped
<1>6. Header.code_size # 0 /\ Header.code_size = 11 * Len(output.code)
      /\ Header.code_offset = 60 /\ 20 < got
  <2>1. ASSUME Header.code_size = 0 PROVE FALSE
    <3>1. position = Header.code_offset /\ position < Header.code_offset + 0
      BY <1>1, <1>2, <2>1 DEF Collected, InCode
    <3> QED
      BY <1>1, <3>1
  <2> QED
    BY <1>1, <1>5, <2>1, HeaderRead
<1>7. CASE Fits
  <2>1. AtNext
    BY <1>1, <1>6, <1>7 DEF Collected
  <2>2. PICK n \in Nat : n = Len(instructions)
    BY <1>1
  <2>3. position = 60 + 11 * n /\ n < Len(output.code)
    <3>1. position = 60 + 11 * n /\ position < 60 + 11 * Len(output.code)
      BY <1>2, <1>6, <2>1, <2>2 DEF AtNext, InCode
    <3> QED
      BY <1>5, <3>1
  <2> DEFINE i == InstructionAt(60 + 11 * n)
  <2>4. /\ i \in Instruction
        /\ Whole(n + 1) => i = output.code[n + 1]
        /\ ~Begun(n + 1) => i = Nop
    BY <1>1, <2>3, InstructionRead
  <2>5. instructions' = Append(instructions, i) /\ position' = position + 11
    BY <1>7, <2>3 DEF ReadInstruction, InstructionAt, InstructionSize
  <2> HIDE DEF i
  <2>6. /\ instructions' \in Seq(Instruction) /\ Len(instructions') = n + 1
        /\ \A k \in 1 .. n : instructions'[k] = instructions[k]
        /\ instructions'[n + 1] = i
    BY <1>1, <2>2, <2>4, <2>5, AppendProperties
  <2>7. position' = 60 + 11 * (n + 1) /\ position' \in Nat
    BY <2>3, <2>5
  <2>8. FileTypeOK'
    BY <1>1, <1>2, <1>3, <2>6, <2>7 DEF FileTypeOK
  <2>9. \A k : Whole(k)' = Whole(k) /\ Begun(k)' = Begun(k)
    BY <1>2 DEF Whole, Begun
  <2>10. ASSUME NEW k \in 1 .. n + 1 PROVE AsWritten(k)'
    <3>1. CASE k = n + 1
      BY <1>2, <2>4, <2>6, <2>9, <3>1 DEF AsWritten
    <3>2. CASE k # n + 1
      <4>1. k \in 1 .. n
        BY <3>2
      <4>2. AsWritten(k)
        BY <2>1, <2>2, <4>1 DEF AtNext
      <4> QED
        BY <1>2, <2>6, <2>9, <4>1, <4>2 DEF AsWritten
    <3> QED
      BY <3>1, <3>2
  <2>11. AtNext'
    BY <1>2, <1>5, <2>3, <2>6, <2>7, <2>10 DEF AtNext
  <2>12. Loading'
    BY <1>2, <1>4, <2>11, <1>3, <1>6 DEF Loading, Collected
  <2> QED
    BY <2>8, <2>12 DEF FileInv
<1>8. CASE ~Fits
  <2>1. instructions' = Append(instructions, Nop) /\ position' = position
    BY <1>8 DEF ReadInstruction, Nop
  <2>2. instructions' \in Seq(Instruction)
    BY <1>1, <2>1, NopIsInstruction, AppendProperties
  <2>3. FileTypeOK'
    BY <1>1, <1>2, <1>3, <2>1, <2>2 DEF FileTypeOK
  <2>4. InCode' /\ ~Fits'
    BY <1>2, <1>3, <1>8, <2>1 DEF InCode, Fits
  <2>5. Loading'
    BY <1>2, <1>3, <1>4, <1>6, <2>4 DEF Loading, Collected
  <2> QED
    BY <2>3, <2>5 DEF FileInv
<1> QED
  BY <1>7, <1>8

LEMMA LoadedStep ==
    ASSUME FileInv, Loaded
    PROVE  FileInv'
<1> USE DEF writerVars, SectionCount
<1>1. FileTypeOK /\ Loading /\ Valid /\ Collected
  BY DEF FileInv, Loading, Loaded
<1>2. /\ UNCHANGED <<output, section, size, writer, tool, buf, got, position, instructions>>
      /\ status' = "loaded" /\ ~InCode
  BY DEF Loaded
<1>3. /\ FileSize' = FileSize /\ Written(section)' = Written(section)
      /\ Header' = Header
  BY <1>2 DEF FileSize, Written, Header, Field
<1>4. FileTypeOK'
  BY <1>1, <1>2, <1>3 DEF FileTypeOK
<1>5. Valid' /\ ~InCode'
  BY <1>1, <1>2, <1>3 DEF Valid, InCode
<1>6. Fits' = Fits /\ \A k : AsWritten(k)' = AsWritten(k)
  BY <1>2 DEF Fits, AsWritten, Whole, Begun
<1>7. Collected'
  BY <1>1, <1>2, <1>3, <1>5, <1>6 DEF Collected, AtNext
<1>8. Loading'
  BY <1>2, <1>5, <1>7 DEF Loading
<1> QED
  BY <1>4, <1>8 DEF FileInv

LEMMA FileStutter ==
    ASSUME FileInv, UNCHANGED fileVars
    PROVE  FileInv'
<1>1. UNCHANGED <<output, section, size, writer, tool, buf, got, position, instructions, status>>
  BY DEF fileVars
<1>2. FileSize' = FileSize /\ Written(section)' = Written(section) /\ Header' = Header
  BY <1>1 DEF FileSize, Written, Header, Field, SectionCount
<1>3. /\ Valid' = Valid /\ InCode' = InCode /\ Fits' = Fits
      /\ \A k : AsWritten(k)' = AsWritten(k)
  BY <1>1, <1>2 DEF Valid, InCode, Fits, AsWritten, Whole, Begun
<1>4. Collected' = Collected
  BY <1>1, <1>2, <1>3 DEF Collected, AtNext
<1>5. FileTypeOK' = FileTypeOK
  BY <1>1, <1>2 DEF FileTypeOK
<1> QED
  BY <1>1, <1>3, <1>4, <1>5 DEF FileInv, Loading

LEMMA FileInvHolds == Spec => []FileInv
<1>1. ASSUME FileInv, [Next]_fileVars PROVE FileInv'
  <2>1. CASE UNCHANGED fileVars
    BY <1>1, <2>1, FileStutter
  <2>2. CASE WriteSection \/ Close \/ Die \/ Rewrite
    BY <1>1, <2>2, WriterStep
  <2>3. CASE Measure \/ Read \/ Reject
    BY <1>1, <2>3, OpeningStep
  <2>4. CASE ReadMeta
    BY <1>1, <2>4, ReadMetaStep
  <2>5. CASE ReadInstruction
    BY <1>1, <2>5, ReadInstructionStep
  <2>6. CASE Loaded
    BY <1>1, <2>6, LoadedStep
  <2> QED
    BY <1>1, <2>1, <2>2, <2>3, <2>4, <2>5, <2>6 DEF Next, Reader
<1> QED
  BY <1>1, FileInit, PTL DEF Spec

-----------------------------------------------------------------------------
(***************************************************************************)
(* A reader that has ended with its position behind the code has collected *)
(* all of it.                                                              *)
(***************************************************************************)
LEMMA AllCollected ==
    ASSUME FileInv, status = "loaded", Header.code_size # 0
    PROVE  /\ Len(instructions) = Len(output.code)
           /\ \A k \in 1 .. Len(instructions) : AsWritten(k)
<1>1. /\ ~InCode /\ Valid /\ Collected /\ output \in Outputs
      /\ got \in Nat /\ buf \in Nat /\ Len(instructions) \in Nat
  BY DEF FileInv, FileTypeOK, Loading
<1>2. AtNext
  BY <1>1 DEF Collected
<1>3. Len(output.code) \in Nat
  BY <1>1, OutputTyped
<1>4. Header.code_offset = 60 /\ Header.code_size = 11 * Len(output.code)
  BY <1>1, <1>3, HeaderRead
<1>5. 60 + 11 * Len(output.code) <= buf
  BY <1>1, <1>4 DEF Valid
<1>6. 60 + 11 * Len(output.code) <= 60 + 11 * Len(instructions)
  BY <1>1, <1>2, <1>3, <1>4, <1>5 DEF AtNext, InCode
<1> QED
  BY <1>1, <1>2, <1>3, <1>6 DEF AtNext

(***************************************************************************)
(* The variables of a file and its reader have their types: of what is     *)
(* read back, every instruction has an opcode and operands of the format.  *)
(***************************************************************************)
THEOREM FileTypeCorrect == Spec => []FileTypeOK
BY FileInvHolds, PTL DEF FileInv

(***************************************************************************)
(* What the compiler wrote is what a reader loads, of any file that did    *)
(* not shrink while it was read (writeBytecode, readInstruction).          *)
(***************************************************************************)
THEOREM WrittenIsLoaded == Spec => []LoadsWritten
<1>1. ASSUME FileInv PROVE LoadsWritten
  <2> SUFFICES ASSUME status = "loaded", got = buf
      PROVE  instructions = output.code
    BY DEF LoadsWritten
  <2>1. /\ output \in Outputs /\ output.code \in Seq(Instruction)
        /\ instructions \in Seq(Instruction)
        /\ Len(output.code) \in Nat /\ Len(instructions) \in Nat
        /\ got \in Nat /\ Valid /\ Collected
    BY <1>1, OutputTyped DEF FileInv, FileTypeOK, Loading
  <2>2. got >= 60
    BY <2>1 DEF Valid, SizeOfHeader
  <2>3. /\ Header.code_size = 11 * Len(output.code)
        /\ Header.code_offset = 60
        /\ Header.meta_offset = 60 + 11 * Len(output.code) /\ Header.meta_size = 12
    BY <2>1, <2>2, HeaderRead
  <2>4. CASE Header.code_size = 0
    <3>1. Len(output.code) = 0 /\ instructions = <<>>
      BY <2>1, <2>3, <2>4 DEF Collected
    <3> QED
      BY <2>1, <3>1, EmptySeq
  <2>5. CASE Header.code_size # 0
    <3>1. /\ Len(instructions) = Len(output.code)
          /\ \A k \in 1 .. Len(instructions) : AsWritten(k)
      BY <1>1, <2>5, AllCollected
    <3>2. 60 + 11 * Len(output.code) <= got
      BY <2>1, <2>2, <2>3 DEF Valid
    <3>3. ASSUME NEW k \in 1 .. Len(output.code) PROVE instructions[k] = output.code[k]
      <4>1. Whole(k)
        BY <2>1, <3>2 DEF Whole, SizeOfHeader, InstructionSize
      <4> QED
        BY <3>1, <4>1 DEF AsWritten
    <3> QED
      BY <2>1, <3>1, <3>3, SeqEqual
  <2> QED
    BY <2>4, <2>5
<1> QED
  BY <1>1, FileInvHolds, PTL

(***************************************************************************)
(* Of a file that shrank while it was read, a reader loads nothing, or the *)
(* beginning of the program and empty instructions for the rest.           *)
(***************************************************************************)
THEOREM BeginningIsLoaded == Spec => []LoadsBeginning
<1>1. ASSUME FileInv PROVE LoadsBeginning
  <2> SUFFICES ASSUME status = "loaded"
      PROVE  \/ Header.code_size = 0 /\ instructions = <<>>
             \/ /\ Len(instructions) = Len(output.code)
                /\ \A k \in DOMAIN instructions :
                      /\ Whole(k) => instructions[k] = output.code[k]
                      /\ ~Begun(k) => instructions[k] = Instr("NOP", Null, Null)
    BY DEF LoadsBeginning
  <2>1. Collected /\ instructions \in Seq(Instruction)
    BY <1>1 DEF FileInv, FileTypeOK, Loading
  <2>2. CASE Header.code_size = 0
    BY <2>1, <2>2 DEF Collected
  <2>3. CASE Header.code_size # 0
    <3>1. /\ Len(instructions) = Len(output.code)
          /\ \A k \in 1 .. Len(instructions) : AsWritten(k)
      BY <1>1, <2>3, AllCollected
    <3>2. DOMAIN instructions = 1 .. Len(instructions)
      BY <2>1
    <3> QED
      BY <3>1, <3>2 DEF AsWritten, Nop
  <2> QED
    BY <2>2, <2>3
<1> QED
  BY <1>1, FileInvHolds, PTL
===============================================================================
