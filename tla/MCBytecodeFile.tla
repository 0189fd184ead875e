---------------------------- MODULE MCBytecodeFile ----------------------------
(***************************************************************************)
(* What the compiler makes of three programs: the empty one,               *)
(*     int32 d = 70000;                                                    *)
(*     fn int32 f() { return 258; }  int32 d = f();                        *)
(* The pool has the names of the nine types and of the symbols.            *)
(***************************************************************************)
EXTENDS BytecodeFile

Jump(k) == Instr("JMP", Imm(k), Null)
Halt    == Instr("HALT", Null, Null)

MCOutputs ==
    {[code |-> <<Jump(1), Halt>>, symbols |-> 0, pool |-> 55],
     [code |-> <<Jump(1), Instr("ST", Ref(16), Imm(70000)), Halt>>,
      symbols |-> 1, pool |-> 57],
     [code |-> <<Jump(2), Instr("RET", Imm(258), Null),
                 Instr("CALL", Ref(1), Null), Instr("ST", Ref(16), Reg(R_FNR)), Halt>>,
      symbols |-> 2, pool |-> 59]}
=============================================================================
