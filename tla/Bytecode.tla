------------------------------- MODULE Bytecode -------------------------------
(***************************************************************************)
(* The instruction format that the compiler emits and the VM executes      *)
(* (src/common/bytecode.hpp): an opcode and two operands, each a kind with *)
(* a 32-bit datum.  Registers are named by their numbers; R_X of           *)
(* vmreg_defines.hpp is the entry at an index of the table, so R_FNR is    *)
(* the entry number 20 whatever name that entry carries.                   *)
(***************************************************************************)
EXTENDS Integers

Opcodes == {"NOP", "PUSH", "POP", "ADD", "SUB", "MUL", "DIV", "LD", "ST",
            "JMP", "JZ", "CALL", "RET", "MOV", "PUTC", "GETC", "OUT", "IN", "HALT"}

OperandTypes ==
    {"OP_NULL", "OP_IMMEDIATE", "OP_REFERENCE", "OP_CONSTANT", "OP_REGISTER"}

Operand == [type : OperandTypes, data : Nat]

Instruction == [opcode : Opcodes, a : Operand, b : Operand]

Null   == [type |-> "OP_NULL",      data |-> 0]
Imm(v) == [type |-> "OP_IMMEDIATE", data |-> v]
Ref(o) == [type |-> "OP_REFERENCE", data |-> o]
Reg(r) == [type |-> "OP_REGISTER",  data |-> r]

Instr(opcode, a, b) == [opcode |-> opcode, a |-> a, b |-> b]

IsReg(o) == o.type = "OP_REGISTER"
IsRef(o) == o.type = "OP_REFERENCE"

R_SP   == 12
R_PC   == 14
R_TMP0 == 16
R_FNR  == 20

REG_COUNT == 32

Arithmetic == {"ADD", "SUB", "MUL", "DIV"}

\* The register that an instruction's result goes to (execute, vm.cpp), and
\* DIV's second result, the remainder.
RegsWritten(i) ==
    (IF IsReg(i.a) /\ i.opcode \in Arithmetic \cup {"LD", "MOV", "POP", "GETC"}
     THEN {i.a.data} ELSE {})
    \cup (IF i.opcode = "DIV" THEN {R_TMP0} ELSE {})
=============================================================================
