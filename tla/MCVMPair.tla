------------------------------- MODULE MCVMPair -------------------------------
(***************************************************************************)
(* Small instances of VMPair: the machine of MCVM, and programs that read  *)
(* nothing before they have written it.                                    *)
(***************************************************************************)
EXTENDS VMPair

Values == {Imm(2), Reg(R_TMP0), Ref(6), Ref(9)}
SomeRefs == {Ref(6), Ref(9)}

Instructions ==
    {Instr(op, a, b) : op \in {"ADD", "DIV"}, a \in {Reg(R_TMP0)} \cup SomeRefs, b \in Values}
    \cup {Instr("ST", a, b) : a \in SomeRefs, b \in Values}
    \cup {Instr("LD", Reg(R_TMP0), b) : b \in SomeRefs}
    \cup {Instr("PUTC", b, Null) : b \in {Reg(R_TMP0), Ref(6)}}
    \cup {Instr("GETC", b, Null) : b \in {Reg(R_TMP0), Ref(6)}}

MCInitialised == {p \in [1 .. 3 -> Instructions] : Initialises(p)}

MCHeapContents == {[b \in 0 .. HeapSize - 1 |-> v] : v \in 0 .. Base - 1}
MCInputs == {<<1>>}
=============================================================================
