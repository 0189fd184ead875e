--------------------------------- MODULE MCVM ---------------------------------
(***************************************************************************)
(* Small instances of VM: bits for bytes, words of four, data of two; a    *)
(* heap of three words and one byte with a header of one word.             *)
(***************************************************************************)
EXTENDS VM, SequencesExt, FiniteSets

Regs == {R_TMP0, R_TMP0 + 1}

SomeRegs  == {Reg(r) : r \in Regs}
SomeRefs  == {Ref(4), Ref(6), Ref(9)}

Instructions(values, refs) ==
    {Instr(op, a, b) : op \in Arithmetic, a \in {Reg(R_TMP0)} \cup refs, b \in values}
    \cup {Instr("MOV", a, b) : a \in SomeRegs, b \in values}
    \cup {Instr("ST", a, b) : a \in refs, b \in values}
    \cup {Instr("LD", a, b) : a \in SomeRegs, b \in refs}

Others ==
    {Instr("PUSH", Reg(R_TMP0), Null), Instr("PUSH", Null, Null),
     Instr("POP", Reg(R_TMP0 + 1), Null), Instr("MOV", Reg(R_SP), Imm(3)),
     Instr("PUTC", Reg(R_TMP0), Null), Instr("PUTC", Ref(6), Null), Instr("PUTC", Ref(HeapSize), Null),
     Instr("GETC", Reg(R_TMP0), Null), Instr("GETC", Imm(0), Null),
     Instr("ADD", Imm(1), Reg(R_TMP0)), Instr("MOV", Ref(4), Imm(1)),
     Instr("HALT", Null, Null)}

Sequential(instructions, n) == UNION {[1 .. k -> instructions] : k \in 0 .. n}

\* Two moves to load the registers, then any two instructions.
Loaded(tails) ==
    {<<Instr("MOV", Reg(R_TMP0), Imm(3)), Instr("MOV", Reg(R_TMP0 + 1), Imm(2))>> \o t : t \in tails}

MCPrograms ==
    Loaded(Sequential(Instructions({Imm(2), Reg(R_TMP0 + 1), Ref(6)}, SomeRefs)
                        \cup Others, 2))

MCHeapContents == {[b \in HeapBytes |-> v] : v \in 0 .. Base - 1}
MCInputs == {<<>>, <<1>>}
=============================================================================
