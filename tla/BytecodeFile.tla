----------------------------- MODULE BytecodeFile -----------------------------
(***************************************************************************)
(* The bytecode file: writeBytecode of the compiler writes it section by   *)
(* section, and the VM (src/vm/main.cpp) and the disassembler              *)
(* (src/bcdisasm/main.cpp) read it back.  The compiler checks no write and *)
(* may die between two of them, and nothing keeps a reader from a file     *)
(* that is still being written: what a reader finds is a prefix of it.  A  *)
(* reader measures the file before it reads it, and a compiler that is     *)
(* started again in between truncates it: the buffer has the measured size *)
(* then, and zeros behind the bytes that were read.                        *)
(*                                                                         *)
(* The bytes of the code are modelled; the header is its fields and the    *)
(* metadata behind the code is the sizes of its parts.                     *)
(***************************************************************************)
EXTENDS Bytecode, Sequences

CONSTANTS
    Outputs,     \* what the compiler writes: its code, the number of symbols
                 \* of the global scope and the size of the string pool
    MaxRead      \* bound: instructions a reader collects

ASSUME FileAssumption ==
    /\ \A out \in Outputs :
        /\ out.code \in Seq(Instruction)
        /\ \A k \in DOMAIN out.code :
              \A op \in {out.code[k].a, out.code[k].b} : op.data \div 256 ^ 3 < 256
        /\ out.symbols \in Nat
        /\ out.pool \in Nat \ {0}
        \* every field of the two headers fits a byte, and is read or 0
        /\ 60 + 11 * Len(out.code) < 256 /\ out.symbols < 256 /\ out.pool < 256
    /\ MaxRead \in Nat

VARIABLES
    output,      \* what is being written
    section,     \* sections handed to the stream
    size,        \* bytes of the file
    writer,      \* "writing", "closed", "died", or "again" in a second compilation
    tool,        \* the reader: "vm" or "bcdisasm"
    buf,         \* the size of the reader's buffer, as measured
    got,         \* bytes that were read into it
    position,    \* `pc' of the reader's loop
    instructions,
    status       \* of the reader: "idle", "measured", "opened", "reading",
                 \* "rejected", "overread" or "loaded"

fileVars == <<output, section, size, writer, tool, buf, got, position, instructions, status>>

SizeOfHeader     == 60
SizeOfMetaHeader == 12
SizeOfType       == 12
SizeOfSymbol     == 16
InstructionSize  == 11
TypeCount        == 9

-----------------------------------------------------------------------------
(* What is written. *)

\* The sections: header, code, header of the metadata, types, symbols, pool.
SectionCount == 6

\* The bytes of the first n of them.
Written(n) ==
    LET code    == InstructionSize * Len(output.code)
        symbols == SizeOfSymbol * output.symbols
        types   == SizeOfType * TypeCount
    IN  CASE n = 0 -> 0
          [] n = 1 -> SizeOfHeader
          [] n = 2 -> SizeOfHeader + code
          [] n = 3 -> SizeOfHeader + code + SizeOfMetaHeader
          [] n = 4 -> SizeOfHeader + code + SizeOfMetaHeader + types
          [] n = 5 -> SizeOfHeader + code + SizeOfMetaHeader + types + symbols
          [] n = 6 -> SizeOfHeader + code + SizeOfMetaHeader + types + symbols + output.pool

FileSize == Written(SectionCount)

\* A field of the file, as it is in the reader's buffer.
Field(at, value) == IF at < got THEN value ELSE 0

\* The code and the bytes of the metadata that the header tells of.
Header ==
    [code_offset |-> Field(16, SizeOfHeader),
     code_size   |-> Field(20, InstructionSize * Len(output.code)),
     meta_offset |-> Field(32, SizeOfHeader + InstructionSize * Len(output.code)),
     meta_size   |-> Field(36, SizeOfMetaHeader)]

\* Mutant: the high byte of a datum comes first.
BytesBigEndian(op) ==
    [b \in 1 .. 5 |-> IF b = 1 THEN op.type ELSE (op.data \div 256 ^ (5 - b)) % 256]

\* serializeInstruction: an operand's kind, then its datum from the low byte up.
OperandBytes(op) ==
    [b \in 1 .. 5 |-> IF b = 1 THEN op.type ELSE (op.data \div 256 ^ (b - 2)) % 256]

InstructionBytes(instr) == <<instr.opcode>> \o OperandBytes(instr.a) \o OperandBytes(instr.b)

\* Mutant: the buffer is not cleared, and has the bytes of an earlier read.
ByteAtUncleared(p) ==
    LET k == (p - SizeOfHeader) \div InstructionSize
        r == (p - SizeOfHeader) % InstructionSize
    IN  InstructionBytes(output.code[k + 1])[r + 1]

\* The byte of the buffer at p, where the code is; a 0 is a NOP or no operand.
ByteAt(p) ==
    LET k == (p - SizeOfHeader) \div InstructionSize
        r == (p - SizeOfHeader) % InstructionSize
    IN  IF p < got
        THEN InstructionBytes(output.code[k + 1])[r + 1]
        ELSE InstructionBytes(Instr("NOP", Null, Null))[r + 1]

FileTypeOK ==
    /\ output \in Outputs
    /\ section \in 0 .. SectionCount
    /\ size \in 0 .. Written(section)
    /\ writer \in {"writing", "closed", "died", "again"}
    /\ tool \in {"vm", "bcdisasm"}
    /\ buf \in 0 .. FileSize
    /\ got \in 0 .. buf
    /\ got <= size
    /\ position \in Nat
    /\ instructions \in Seq(Instruction)
    /\ status \in {"idle", "measured", "opened", "reading",
                   "rejected", "overread", "loaded"}

Init ==
    /\ output \in Outputs
    /\ section = 0
    /\ size = 0
    /\ writer = "writing"
    /\ tool \in {"vm", "bcdisasm"}
    /\ buf = 0
    /\ got = 0
    /\ position = 0
    /\ instructions = <<>>
    /\ status = "idle"

readerVars == <<tool, buf, got, position, instructions, status>>
writerVars == <<output, section, size, writer>>

-----------------------------------------------------------------------------
(* The writer, until the reader has measured the file: of what is written  *)
(* after that, only a second compilation is followed.                      *)

Writing == writer = "writing" /\ status = "idle"

\* The stream is buffered: a write brings any number of bytes to the file.
WriteSection ==
    /\ Writing
    /\ section < SectionCount
    /\ section' = section + 1
    /\ size' \in size .. Written(section + 1)
    /\ UNCHANGED <<output, writer>>
    /\ UNCHANGED readerVars

Close ==
    /\ Writing
    /\ section = SectionCount
    /\ size' = FileSize
    /\ writer' = "closed"
    /\ UNCHANGED <<output, section>>
    /\ UNCHANGED readerVars

\* The process dies, or the stream goes bad and drops what it is given.
Die ==
    /\ Writing
    /\ writer' = "died"
    /\ UNCHANGED <<output, section, size>>
    /\ UNCHANGED readerVars

\* The program is compiled again, to the same file, which is truncated and
\* written anew as far as the reader will find it.  Bound: the file that was
\* measured ends with a section.
Rewrite ==
    /\ writer \in {"closed", "died"} /\ status = "measured"
    /\ size = Written(section)
    /\ writer' = "again"
    /\ size' \in 0 .. FileSize
    /\ section' = SectionCount
    /\ UNCHANGED output
    /\ UNCHANGED readerVars

-----------------------------------------------------------------------------
(* The reader. *)

\* Mutant: the metadata is not looked for.
ValidCode ==
    /\ buf >= SizeOfHeader
    /\ got > 9
    /\ Header.code_offset + Header.code_size <= buf

\* validateHeader, behind the check that there is a header.  The last field
\* that may not be 0 is the word size, at 9.
Valid ==
    /\ buf >= SizeOfHeader
    /\ got > 9
    /\ Header.code_offset + Header.code_size <= buf
    /\ Header.meta_offset + Header.meta_size <= buf

Measure ==
    /\ status = "idle"
    /\ buf' = size
    /\ status' = "measured"
    /\ UNCHANGED <<tool, got, position, instructions>>
    /\ UNCHANGED writerVars

\* Mutant: the buffer is taken for what was read.
ReadWhole ==
    /\ status = "measured"
    /\ got' = buf
    /\ status' = "opened"
    /\ UNCHANGED <<tool, buf, position, instructions>>
    /\ UNCHANGED writerVars

\* The buffer is filled as far as the file goes.
Read ==
    /\ status = "measured"
    /\ got' = IF size < buf THEN size ELSE buf
    /\ status' = "opened"
    /\ UNCHANGED <<tool, buf, position, instructions>>
    /\ UNCHANGED writerVars

Reject ==
    /\ status = "opened"
    /\ ~Valid
    /\ status' = "rejected"
    /\ UNCHANGED <<tool, buf, got, position, instructions>>
    /\ UNCHANGED writerVars

\* The metadata as the disassembler takes it out of its buffer, with counts
\* out of its header: of the types and the symbols it does not ask whether
\* they are there.
SymbolCount == Field(Header.meta_offset, output.symbols)

PoolSize == Field(Header.meta_offset + 8, output.pool)

TypesAndSymbols ==
    Header.meta_offset + SizeOfMetaHeader
        + SizeOfType * Field(Header.meta_offset + 4, TypeCount)
        + SizeOfSymbol * SymbolCount

ReadMeta ==
    /\ status = "opened"
    /\ Valid
    /\ status' = IF tool = "vm" \/ Header.meta_size = 0 THEN "reading"
                 ELSE IF TypesAndSymbols > buf THEN "overread"
                 ELSE IF PoolSize > 0 /\ TypesAndSymbols + PoolSize > buf THEN "rejected"
                 ELSE "reading"
    /\ position' = Header.code_offset
    /\ UNCHANGED <<tool, buf, got, instructions>>
    /\ UNCHANGED writerVars

InCode == position < Header.code_offset + Header.code_size /\ position < buf

\* Mutant: the instruction is looked for in the code, not in the file.
FitsInCode == position + 11 < Header.code_offset + Header.code_size

Fits == position + 11 < buf

OperandAt(p) ==
    [type |-> ByteAt(p),
     data |-> ByteAt(p + 1) + 256 * ByteAt(p + 2) + 256 ^ 2 * ByteAt(p + 3)
                + 256 ^ 3 * ByteAt(p + 4)]

\* An instruction that does not fit is an empty one, and nothing is skipped.
ReadInstruction ==
    /\ status = "reading"
    /\ InCode
    /\ Len(instructions) < MaxRead
    /\ IF Fits
       THEN /\ instructions' = Append(instructions,
                   Instr(ByteAt(position), OperandAt(position + 1), OperandAt(position + 6)))
            /\ position' = position + InstructionSize
       ELSE /\ instructions' = Append(instructions, Instr("NOP", Null, Null))
            /\ UNCHANGED position
    /\ UNCHANGED <<tool, buf, got, status>>
    /\ UNCHANGED writerVars

Loaded ==
    /\ status = "reading"
    /\ ~InCode
    /\ status' = "loaded"
    /\ UNCHANGED <<tool, buf, got, position, instructions>>
    /\ UNCHANGED writerVars

Reader == Measure \/ Read \/ Reject \/ ReadMeta \/ ReadInstruction \/ Loaded

Next == WriteSection \/ Close \/ Die \/ Rewrite \/ Reader

(***************************************************************************)
(* A reader that has been started goes on by itself; the writer may die.   *)
(***************************************************************************)
Spec == Init /\ [][Next]_fileVars /\ WF_fileVars(Reader)

-----------------------------------------------------------------------------
(***************************************************************************)
(* What is loaded is the program the compiler wrote, wherever the file was *)
(* cut off: a file without the whole code is never run or listed           *)
(* (validateHeader, and serializeInstruction against readInstruction).     *)
(* This holds of a file that does not shrink between measuring and reading.*)
(***************************************************************************)
LoadsWritten == (status = "loaded" /\ got = buf) => instructions = output.code

\* The k-th instruction begins, and ends, before the bytes read do.
Begun(k) == SizeOfHeader + InstructionSize * (k - 1) < got

Whole(k) == SizeOfHeader + InstructionSize * k <= got

(***************************************************************************)
(* Of a file that has shrunk, nobody notices it (the result of read is not *)
(* looked at): what is loaded is nothing, if the header's size of the code *)
(* is not read, or as many instructions as there were, the ones that were  *)
(* read whole as they were written and the ones that were not read as NOP. *)
(***************************************************************************)
LoadsBeginning ==
    status = "loaded" =>
        \/ Header.code_size = 0 /\ instructions = <<>>
        \/ /\ Len(instructions) = Len(output.code)
           /\ \A k \in DOMAIN instructions :
                 /\ Whole(k) => instructions[k] = output.code[k]
                 /\ ~Begun(k) => instructions[k] = Instr("NOP", Null, Null)

Ended == status \in {"rejected", "overread", "loaded"}

(***************************************************************************)
(* A reader comes to an end whatever prefix of a file it has got: its loop *)
(* would stay where it is for ever at an instruction within the last       *)
(* eleven bytes of the file, and the metadata behind the code is what      *)
(* keeps it away from there (readInstruction).  Only a file that is        *)
(* measured when it ends with its code, and has shrunk into its header     *)
(* when it is read, has the reader wait there.                             *)
(***************************************************************************)
ReaderEnds ==
    <>(Ended \/ (status = "reading" /\ Header.meta_size = 0
                   /\ buf = Header.code_offset + Header.code_size))

(***************************************************************************)
(* A file that has been written as a whole is loaded by every reader.      *)
(***************************************************************************)
CompleteFileLoads ==
    (status = "opened" /\ got = FileSize) ~> status = "loaded"
=============================================================================
