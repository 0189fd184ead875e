---------------------------------- MODULE VM ----------------------------------
(***************************************************************************)
(* The virtual machine (src/vm/vm.cpp, castHeapReference and heap_init of  *)
(* heap.cpp): a register file, a byte-addressed heap, a stack, and one     *)
(* step per executed instruction.  run() fetches the instruction that      *)
(* register 14 points to, executes it and adds one to register 14, until   *)
(* that leaves the program or an instruction throws.                       *)
(*                                                                         *)
(* A word is WordBytes bytes of Base values each, an operand's datum is    *)
(* ImmBytes of them: 8 bytes, 256 values and 4 bytes in the code.          *)
(*                                                                         *)
(* Two accesses are undefined in the code and leave what happens open: an  *)
(* access that starts in the heap and runs past its end (what lies there   *)
(* is not modelled: it reads as anything and a write to it is forgotten),  *)
(* and one outside the stack (the process dies, or the same).              *)
(***************************************************************************)
EXTENDS Bytecode, Sequences

CONSTANTS
    Base,            \* values of a byte
    WordBytes,       \* bytes of a register and of a memory access
    ImmBytes,        \* bytes of an operand's datum
    HeapSize,        \* heapsize_tot
    HeaderSize,      \* sizeof(HeapBlockHdr)
    StackSize,       \* STACK_SIZE
    StackAddress,    \* where malloc put the stack, far beyond StackSize
    Programs,        \* the programs to run
    HeapContents,    \* what malloc may leave in the heap and in the stack
    Inputs           \* standard inputs

VARIABLES
    program,         \* the loaded instructions
    regs,            \* the register file
    heap,            \* bytes from heap_base on
    stack,           \* bytes of the stack
    stdin,           \* characters not read yet
    stdout,          \* characters written
    status           \* "running", "finished", "threw" or "killed"

vmVars == <<program, regs, heap, stack, stdin, stdout, status>>

Word == Base ^ WordBytes
Immediate == Base ^ ImmBytes

ASSUME VMAssumption ==
    /\ Base \in Nat /\ Base > 1
    /\ WordBytes \in Nat \ {0}
    /\ ImmBytes \in 1 .. WordBytes
    /\ HeapSize \in Nat \ {0} /\ HeaderSize \in 0 .. HeapSize
    /\ StackSize \in Nat
    /\ StackAddress \in Nat /\ StackAddress > StackSize
    /\ StackAddress + StackSize < Word

\* What a power is, for the provers, which do not know it.
ASSUME PowerAssumption ==
    Base ^ 0 = 1 /\ \A i \in 0 .. WordBytes - 1 : Base ^ (i + 1) = Base * Base ^ i

HeapBytes == 0 .. HeapSize - 1
StackBytes == 0 .. StackSize - 1

VMTypeOK ==
    /\ regs \in [0 .. REG_COUNT - 1 -> 0 .. Word - 1]
    /\ heap \in [HeapBytes -> 0 .. Base - 1]
    /\ stack \in [StackBytes -> 0 .. Base - 1]
    /\ stdin \in Seq(0 .. Base - 1)
    /\ stdout \in Seq(0 .. Base - 1)
    /\ status \in {"running", "finished", "threw", "killed"}

pc == regs[R_PC]
sp == regs[R_SP]

-----------------------------------------------------------------------------
(* Memory: words are little-endian and may start at any byte. *)

ByteOf(val, i) == (val \div Base ^ i) % Base

WordAt(memory, a) ==
    LET Sum[i \in 0 .. WordBytes] ==
          IF i = 0 THEN 0 ELSE Sum[i - 1] + memory[a + i - 1] * Base ^ (i - 1)
    IN  Sum[WordBytes]

\* Mutants: the word is written downwards; with its high byte first; without
\* its high byte.
WordDownwards(memory, a, val) ==
    [b \in DOMAIN memory |->
        IF b \in a - WordBytes + 1 .. a THEN ByteOf(val, a - b) ELSE memory[b]]

WordBigEndian(memory, a, val) ==
    [b \in DOMAIN memory |->
        IF b \in a .. a + WordBytes - 1 THEN ByteOf(val, WordBytes - 1 - (b - a)) ELSE memory[b]]

WordShort(memory, a, val) ==
    [b \in DOMAIN memory |->
        IF b \in a .. a + WordBytes - 2 THEN ByteOf(val, b - a) ELSE memory[b]]

WithWord(memory, a, val) ==
    [b \in DOMAIN memory |->
        IF b \in a .. a + WordBytes - 1 THEN ByteOf(val, b - a) ELSE memory[b]]

\* castHeapReference looks at the first byte of the access only.
InHeap(a) == a < HeapSize

\* The words that a load at a may give: the bytes past the end are unknown.
HeapWords(a) ==
    LET beyond == {b \in a .. a + WordBytes - 1 : b >= HeapSize}
    IN  {WordAt([b \in a .. a + WordBytes - 1 |->
                    IF b \in beyond THEN past[b] ELSE heap[b]], a) :
            past \in [beyond -> 0 .. Base - 1]}

StackHolds(a) == a + WordBytes <= StackSize

-----------------------------------------------------------------------------
(* Operands: readOpCast and writeOpCast. *)

MayRead(op) == IsRef(op) => InHeap(op.data)

ReadValues(op) ==
    CASE op.type \in {"OP_IMMEDIATE", "OP_CONSTANT"} -> {op.data % Immediate}
      [] op.type = "OP_REGISTER"  -> {regs[op.data]}
      [] op.type = "OP_REFERENCE" -> HeapWords(op.data)
      [] op.type = "OP_NULL"      -> {0}

MayWrite(op) == IsReg(op) \/ (IsRef(op) /\ InHeap(op.data))

\* The register file and the heap with val written to op.
RegsWith(file, op, val) == IF IsReg(op) THEN [file EXCEPT ![op.data] = val] ELSE file
HeapWith(op, val) == IF IsRef(op) THEN WithWord(heap, op.data, val) ELSE heap

-----------------------------------------------------------------------------
InitialHeap(contents) ==
    [b \in HeapBytes |->
        IF b < HeaderSize
        THEN IF b < WordBytes THEN ByteOf(HeapSize - HeaderSize, b) ELSE 0
        ELSE contents[b]]

\* The machine before its first instruction: init().
Boot ==
    /\ regs = [r \in 0 .. REG_COUNT - 1 |->
                  IF r = R_SP THEN StackAddress + StackSize ELSE 0]
    /\ \E contents \in HeapContents :
        /\ heap = InitialHeap(contents)
        /\ stack = [b \in StackBytes |-> contents[b % HeapSize]]
    /\ stdin \in Inputs
    /\ stdout = <<>>
    /\ status = "running"

VMInit == program \in Programs /\ Boot

-----------------------------------------------------------------------------
(* The steps of run(). *)

At(opcodes) ==
    /\ status = "running"
    /\ pc < Len(program)
    /\ program[pc + 1].opcode \in opcodes

opA == program[pc + 1].a
opB == program[pc + 1].b

\* The increment in run() applies to what the instruction left in register 14.
Advance(file) == regs' = [file EXCEPT ![R_PC] = (@ + 1) % Word]

\* main() catches the exception and returns 1.
Throw == status' = "threw" /\ UNCHANGED <<program, regs, heap, stack, stdin, stdout>>

Kill == status' = "killed" /\ UNCHANGED <<program, regs, heap, stack, stdin, stdout>>

\* The result of an instruction goes to its first operand.
Assign(op, val) ==
    /\ Advance(RegsWith(regs, op, val))
    /\ heap' = HeapWith(op, val)

\* Mutant: register 14 stays where it is.
NoOperationHere ==
    /\ At({"NOP", "JMP", "JZ", "CALL", "RET", "OUT", "IN", "HALT"})
    /\ UNCHANGED <<program, regs, heap, stack, stdin, stdout, status>>

\* These have no case in execute() at all, or an empty one.
NoOperation ==
    /\ At({"NOP", "JMP", "JZ", "CALL", "RET", "OUT", "IN", "HALT"})
    /\ Advance(regs)
    /\ UNCHANGED <<program, heap, stack, stdin, stdout, status>>

\* Mutant: the result is not cut to the width of a register.
ComputeWide(opcode, x, y) ==
    CASE opcode = "ADD" -> x + y
      [] opcode = "SUB" -> x - y
      [] opcode = "MUL" -> x * y

Compute(opcode, x, y) ==
    CASE opcode = "ADD" -> (x + y) % Word
      [] opcode = "SUB" -> (x - y) % Word
      [] opcode = "MUL" -> (x * y) % Word

ADD_SUB_MUL ==
    /\ At({"ADD", "SUB", "MUL"})
    /\ MayRead(opA) /\ MayRead(opB) /\ MayWrite(opA)
    /\ \E x \in ReadValues(opA), y \in ReadValues(opB) :
          Assign(opA, Compute(program[pc + 1].opcode, x, y))
    /\ UNCHANGED <<program, stack, stdin, stdout, status>>

\* The remainder goes to TMP0 after the quotient has gone to the destination.
DIV ==
    /\ At({"DIV"})
    /\ MayRead(opA) /\ MayRead(opB) /\ MayWrite(opA)
    /\ \E x \in ReadValues(opA), y \in ReadValues(opB) \ {0} :
        /\ Advance([RegsWith(regs, opA, x \div y) EXCEPT ![R_TMP0] = x % y])
        /\ heap' = HeapWith(opA, x \div y)
    /\ UNCHANGED <<program, stack, stdin, stdout, status>>

ArithmeticThrows ==
    /\ At(Arithmetic)
    /\ \/ ~MayRead(opA)
       \/ ~MayRead(opB)
       \/ ~MayWrite(opA)
       \/ At({"DIV"}) /\ MayRead(opB) /\ 0 \in ReadValues(opB)
    /\ Throw

MOV ==
    /\ At({"MOV"})
    /\ IsReg(opA) /\ MayRead(opB)
    /\ \E val \in ReadValues(opB) : Advance(RegsWith(regs, opA, val))
    /\ UNCHANGED <<program, heap, stack, stdin, stdout, status>>

ST ==
    /\ At({"ST"})
    /\ IsRef(opA) /\ InHeap(opA.data) /\ MayRead(opB)
    /\ \E val \in ReadValues(opB) : Assign(opA, val)
    /\ UNCHANGED <<program, stack, stdin, stdout, status>>

LD ==
    /\ At({"LD"})
    /\ MayRead(opB) /\ MayWrite(opA)
    /\ \E val \in ReadValues(opB) : Assign(opA, val)
    /\ UNCHANGED <<program, stack, stdin, stdout, status>>

MoveThrows ==
    /\ \/ At({"MOV"}) /\ (~IsReg(opA) \/ ~MayRead(opB))
       \/ At({"ST"}) /\ (~IsRef(opA) \/ ~InHeap(opA.data) \/ ~MayRead(opB))
       \/ At({"LD"}) /\ (~MayRead(opB) \/ ~MayWrite(opA))
    /\ Throw

\* An operand that is neither immediate nor a register pushes 0: the exception
\* is constructed and not thrown.
Pushed(op) ==
    IF op.type = "OP_IMMEDIATE" THEN op.data % Immediate
    ELSE IF IsReg(op) THEN regs[op.data] ELSE 0

PUSH ==
    /\ At({"PUSH"})
    /\ LET top == (sp - WordBytes) % Word
       IN  \/ /\ stack' = IF StackHolds(top) THEN WithWord(stack, top, Pushed(opA)) ELSE stack
              /\ Advance([regs EXCEPT ![R_SP] = top])
              /\ UNCHANGED <<program, heap, stdin, stdout, status>>
           \/ ~StackHolds(top) /\ Kill

\* sp moves on before the popped value is written, so popping into sp wins.
POP ==
    /\ At({"POP"})
    /\ \/ /\ \E val \in IF StackHolds(sp) THEN {WordAt(stack, sp)} ELSE 0 .. Word - 1 :
                Advance(RegsWith([regs EXCEPT ![R_SP] = (@ + WordBytes) % Word], opA, val))
          /\ UNCHANGED <<program, heap, stack, stdin, stdout, status>>
       \/ ~StackHolds(sp) /\ Kill

PUTC ==
    /\ At({"PUTC"})
    /\ MayRead(opA)
    /\ \E val \in ReadValues(opA) : stdout' = Append(stdout, val % Base)
    /\ Advance(regs)
    /\ UNCHANGED <<program, heap, stack, stdin, status>>

\* The end of the input reads as 0.
Char == IF stdin = <<>> THEN 0 ELSE Head(stdin)
Rest == IF stdin = <<>> THEN <<>> ELSE Tail(stdin)

GETC ==
    /\ At({"GETC"})
    /\ MayWrite(opA)
    /\ Assign(opA, Char)
    /\ stdin' = Rest
    /\ UNCHANGED <<program, stack, stdout, status>>

\* The character has been read by the time the operand is found not writeable.
CharThrows ==
    \/ At({"PUTC"}) /\ ~MayRead(opA) /\ Throw
    \/ /\ At({"GETC"}) /\ ~MayWrite(opA)
       /\ status' = "threw"
       /\ stdin' = Rest
       /\ UNCHANGED <<program, regs, heap, stack, stdout>>

Exit ==
    /\ status = "running"
    /\ pc >= Len(program)
    /\ status' = "finished"
    /\ UNCHANGED <<program, regs, heap, stack, stdin, stdout>>

VMNext ==
    \/ NoOperation
    \/ ADD_SUB_MUL
    \/ DIV
    \/ ArithmeticThrows
    \/ MOV
    \/ ST
    \/ LD
    \/ MoveThrows
    \/ PUSH
    \/ POP
    \/ PUTC
    \/ GETC
    \/ CharThrows
    \/ Exit

(***************************************************************************)
(* The machine has one thread, and nothing but the end of the process      *)
(* keeps it from its next step: hence the weak fairness.                   *)
(***************************************************************************)
VMSpec == VMInit /\ [][VMNext]_vmVars /\ WF_vmVars(VMNext)

-----------------------------------------------------------------------------
(***************************************************************************)
(* The block header that heap_init wrote at the start of the heap is never *)
(* overwritten by a program whose references are to offsets behind it, the *)
(* offsets the symbol table gives to variables: no access reaches down.    *)
(***************************************************************************)
HeaderIntact ==
    \A b \in 0 .. HeaderSize - 1 :
        heap[b] = IF b < WordBytes THEN ByteOf(HeapSize - HeaderSize, b) ELSE 0

(***************************************************************************)
(* A program that never assigns register 14 comes to an end: every         *)
(* instruction, those without a case in execute() too, leads to the next   *)
(* one, to an exception or to the end of the process.                      *)
(***************************************************************************)
Terminates == <>(status # "running")
=============================================================================
