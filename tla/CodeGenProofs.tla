----------------------------- MODULE CodeGenProofs -----------------------------
(***************************************************************************)
(* Type correctness of CodeGen, the bookkeeping of its temporary registers *)
(* and what the emitted code relies on: calls go to functions that are     *)
(* laid out, the first jump skips them all, and what waits in a temporary  *)
(* is not overwritten.  For every program and every number of registers.   *)
(***************************************************************************)
EXTENDS CodeGen, SequenceTheorems, TLAPS

\* Every operand that a node can result in is an operand of the format.
LEMMA OperandTypes1 ==
    /\ Null \in Operand
    /\ \A v \in Nat : Imm(v) \in Operand /\ Ref(v) \in Operand /\ Reg(v) \in Operand
    /\ \A i \in Tmps : TmpReg(i) \in Operand
    /\ Reg(R_FNR) \in Operand
BY CodeGenAssumption
   DEF Null, Imm, Ref, Reg, Operand, OperandTypes, TmpReg, Tmps, R_TMP0, R_FNR

\* An instruction built from operands of the format is one that may be emitted.
LEMMA EmittedType ==
    ASSUME NEW opcode \in Opcodes, NEW a \in Operand, NEW b \in Operand
    PROVE  Instr(opcode, a, b) \in Emitted
BY DEF Instr, Emitted, Operand, Unset

\* Emitting instructions keeps the code a sequence of them.
LEMMA EmitType ==
    ASSUME TypeOK
    PROVE  \A i, j \in Emitted : /\ code \o <<i>> \in Seq(Emitted)
                                 /\ code \o <<i, j>> \in Seq(Emitted)
<1> SUFFICES ASSUME NEW i \in Emitted, NEW j \in Emitted
             PROVE  /\ code \o <<i>> \in Seq(Emitted)
                    /\ code \o <<i, j>> \in Seq(Emitted)
  OBVIOUS
<1>1. <<i>> \in Seq(Emitted) /\ <<i, j>> \in Seq(Emitted)
  OBVIOUS
<1> QED
  BY <1>1, ConcatProperties DEF TypeOK

\* Results pushed on and dropped from `pending' keep it a sequence of results.
LEMMA PendingType ==
    ASSUME TypeOK
    PROVE  /\ Len(pending) \in Nat
           /\ \A k \in DOMAIN pending : pending[k] \in Results
           /\ \A n \in 0 .. Len(pending) : SubSeq(pending, 1, n) \in Seq(Results)
           /\ \A s \in Seq(Results), r \in Results : Append(s, r) \in Seq(Results)
<1>1. pending \in Seq(Results)
  BY DEF TypeOK
<1>2. Len(pending) \in Nat /\ \A k \in DOMAIN pending : pending[k] \in Results
  BY <1>1
<1>3. ASSUME NEW n \in 0 .. Len(pending) PROVE SubSeq(pending, 1, n) \in Seq(Results)
  BY <1>1, <1>2, <1>3, SubSeqProperties
<1> QED
  BY <1>2, <1>3

\* Freeing a result's temporary keeps the record of them.
LEMMA WithoutType ==
    ASSUME NEW used \in [Tmps -> BOOLEAN], NEW r
    PROVE  Without(used, r) \in [Tmps -> BOOLEAN]
BY DEF Without

\* What a statement consumes leaves no result and frees a temporary at most.
LEMMA ConsumeType ==
    ASSUME TypeOK, ConsumeLast
    PROVE  /\ pending' \in Seq(Results)
           /\ tmp_used' \in [Tmps -> BOOLEAN]
           /\ Last \in Results
<1>1. Last \in Results
  BY PendingType DEF Last, ConsumeLast
<1>2. tmp_used' \in [Tmps -> BOOLEAN]
  BY WithoutType DEF ConsumeLast, TypeOK
<1> QED
  BY <1>1, <1>2 DEF ConsumeLast

\* Type correctness of the code generator: what it emits is made of opcodes
\* and operands of the format, whatever the program (compileNode).
THEOREM TypeCorrect == Spec => []TypeOK
<1>1. Init => TypeOK
  <2> SUFFICES ASSUME Init PROVE TypeOK
    OBVIOUS
  <2>1. code \in Seq(Emitted)
    <3>1. Instr("JMP", Null, Null) \in Emitted
      BY OperandTypes1, EmittedType DEF Opcodes
    <3> QED
      BY <3>1 DEF Init
  <2>2. pending \in Seq(Results)
    BY DEF Init
  <2>3. tmp_used \in [Tmps -> BOOLEAN]
    BY DEF Init
  <2> QED
    BY <2>1, <2>2, <2>3 DEF Init, TypeOK
<1>2. TypeOK /\ [Next]_vars => TypeOK'
  <2> SUFFICES ASSUME TypeOK, [Next]_vars PROVE TypeOK'
    OBVIOUS
  <2>1. /\ Len(code) \in Nat
        /\ Len(pending) \in Nat
        /\ \A k \in 1 .. Len(pending) : /\ pending[k] \in Results
                                       /\ pending[k].operand \in Operand
                                       /\ pending[k].type \in Types \cup {"none"}
    BY PendingType DEF TypeOK, Results
  <2>2. Ops \subseteq Opcodes
    BY CodeGenAssumption DEF Arithmetic, Opcodes
  <2>3. ASSUME NEW v \in Literals, CompileNumber(v) PROVE TypeOK'
    <3>1. Result(Imm(v), "int32", Len(code)) \in Results
      BY <2>1, CodeGenAssumption, OperandTypes1 DEF Result, Results
    <3>2. pending' \in Seq(Results)
      BY <2>3, <3>1 DEF CompileNumber, Push, TypeOK
    <3> QED
      BY <2>3, <3>2 DEF CompileNumber, TypeOK
  <2>4. ASSUME NEW s \in Symbols, CompileVariable(s) PROVE TypeOK'
    <3>1. PICK i \in Tmps, o \in Offsets[s], t \in TypesOf[s] :
              /\ tmp_used' = [tmp_used EXCEPT ![i] = TRUE]
              /\ Emit(<<Instr("LD", TmpReg(i), Ref(o))>>)
              /\ Push(Result(TmpReg(i), t, Len(code) + 1))
      BY <2>4 DEF CompileVariable
    <3>2. o \in Nat /\ t \in Types
      BY CodeGenAssumption
    <3>3. Instr("LD", TmpReg(i), Ref(o)) \in Emitted
      BY <3>2, OperandTypes1, EmittedType DEF Opcodes
    <3>4. code' \in Seq(Emitted)
      BY <3>1, <3>3, EmitType DEF Emit
    <3>5. Result(TmpReg(i), t, Len(code) + 1) \in Results
      BY <2>1, <3>2, OperandTypes1 DEF Result, Results
    <3>6. pending' \in Seq(Results)
      BY <3>1, <3>5 DEF Push, TypeOK
    <3> QED
      BY <2>4, <3>1, <3>4, <3>6 DEF CompileVariable, TypeOK
  <2>5. CASE Abort
    BY <2>5 DEF Abort, TypeOK
  <2>6. ASSUME NEW op \in Ops, CompileBinop(op) PROVE TypeOK'
    <3> DEFINE n == Len(pending)
               L == pending[n - 1]
               R == pending[n]
               result == Result(L.operand, L.type, Len(code) + 1)
    <3>1. n - 1 \in 1 .. Len(pending) /\ n \in 1 .. Len(pending) /\ n - 2 \in 0 .. Len(pending)
      BY <2>1, <2>6 DEF CompileBinop, Operands
    <3>2. Instr(op, L.operand, R.operand) \in Emitted
      BY <2>1, <2>2, <3>1, EmittedType
    <3>3. code' \in Seq(Emitted)
      BY <2>6, <3>2, EmitType DEF Emit, CompileBinop, Last
    <3>4. result \in Results
      BY <2>1, <3>1 DEF Result, Results
    <3>5. pending' = Append(SubSeq(pending, 1, n - 2), result)
      BY <2>6 DEF CompileBinop
    <3>6. pending' \in Seq(Results)
      BY <3>1, <3>4, <3>5, PendingType
    <3>7. tmp_used' \in [Tmps -> BOOLEAN]
      BY <2>6, WithoutType DEF CompileBinop, TypeOK
    <3> QED
      BY <2>6, <3>3, <3>6, <3>7 DEF CompileBinop, TypeOK
  <2>7. ASSUME NEW op \in Ops, CompileBinopImmediate(op) PROVE TypeOK'
    <3> DEFINE n == Len(pending)
               L == pending[n - 1]
               R == pending[n]
    <3>1. n - 1 \in 1 .. Len(pending) /\ n \in 1 .. Len(pending) /\ n - 2 \in 0 .. Len(pending)
      BY <2>1, <2>7 DEF CompileBinopImmediate, Operands
    <3>2. PICK i \in Tmps :
              /\ tmp_used' = [tmp_used EXCEPT ![i] = TRUE]
              /\ Emit(<<Instr("MOV", TmpReg(i), Null), Instr(op, TmpReg(i), R.operand)>>)
              /\ pending' = Append(SubSeq(pending, 1, n - 2),
                                   Result(TmpReg(i), L.type, Len(code) + 2))
      BY <2>7 DEF CompileBinopImmediate, Last
    <3>3. /\ Instr("MOV", TmpReg(i), Null) \in Emitted
          /\ Instr(op, TmpReg(i), R.operand) \in Emitted
      BY <2>1, <2>2, <3>1, OperandTypes1, EmittedType DEF Opcodes
    <3>4. code' \in Seq(Emitted)
      BY <3>2, <3>3, EmitType DEF Emit
    <3>5. Result(TmpReg(i), L.type, Len(code) + 2) \in Results
      BY <2>1, <3>1, OperandTypes1 DEF Result, Results
    <3>6. pending' \in Seq(Results)
      BY <3>1, <3>2, <3>5, PendingType
    <3> QED
      BY <2>7, <3>2, <3>4, <3>6 DEF CompileBinopImmediate, TypeOK
  <2>8. ASSUME NEW f \in Fns, NEW n \in 0 .. MaxArgs, CompileCall(f, n) PROVE TypeOK'
    <3> DEFINE rest == Len(pending) - n
    <3>1. rest \in 0 .. Len(pending) /\ n \in Nat
      BY <2>1, <2>8, CodeGenAssumption DEF CompileCall
    <3>2. entry_ip[f] \in Nat \cup {Unset}
      BY DEF TypeOK
    <3>3. Instr("CALL", Ref(entry_ip[f]), Null) \in Emitted
      BY <3>2, OperandTypes1 DEF Instr, Emitted, Ref, Opcodes, OperandTypes
    <3>4. code' \in Seq(Emitted)
      BY <2>8, <3>3, EmitType DEF Emit, CompileCall
    <3>5. Result(Reg(R_FNR), "none", Len(code) + 1) \in Results
      BY <2>1, OperandTypes1 DEF Result, Results
    <3>6. pending' \in Seq(Results)
      BY <2>8, <3>1, <3>5, PendingType DEF CompileCall
    <3>7. lost' \in SUBSET Tmps
      BY <2>8 DEF CompileCall, TmpOf, TypeOK
    <3> QED
      BY <2>8, <3>4, <3>6, <3>7 DEF CompileCall, TypeOK
  <2>9. ASSUME NEW x \in Symbols, CompileDeclaration(x) PROVE TypeOK'
    BY <2>9 DEF CompileDeclaration, TypeOK
  <2>10. ASSUME NEW x \in Symbols, CompileInitialisation(x) PROVE TypeOK'
    <3>1. PICK o \in Offsets[x] : Emit(<<Instr("ST", Ref(o), Last.operand)>>)
      BY <2>10 DEF CompileInitialisation
    <3>2. o \in Nat /\ Last.operand \in Operand
      BY <2>10, CodeGenAssumption, ConsumeType DEF CompileInitialisation, Results
    <3>3. Instr("ST", Ref(o), Last.operand) \in Emitted
      BY <3>2, OperandTypes1, EmittedType DEF Opcodes
    <3>4. code' \in Seq(Emitted)
      BY <3>1, <3>3, EmitType DEF Emit
    <3> QED
      BY <2>10, <3>4, ConsumeType DEF CompileInitialisation, TypeOK
  <2>11. ASSUME NEW s \in Symbols, CompileAssignment(s) PROVE TypeOK'
    <3> DEFINE store(o) == Instr("ST", Ref(o), Last.operand)
               move(o)  == Instr("MOV", Ref(o), Reg(R_FNR))
    <3>1. PICK o \in Offsets[s] :
              Emit(IF Last.type = "none" THEN <<move(o), store(o)>> ELSE <<store(o)>>)
      BY <2>11 DEF CompileAssignment
    <3>2. o \in Nat /\ Last.operand \in Operand
      BY <2>11, CodeGenAssumption, ConsumeType DEF CompileAssignment, Results
    <3>3. store(o) \in Emitted /\ move(o) \in Emitted
      BY <3>2, OperandTypes1, EmittedType DEF Opcodes
    <3>4. code' \in Seq(Emitted)
      BY <3>1, <3>3, EmitType DEF Emit
    <3> QED
      BY <2>11, <3>4, ConsumeType DEF CompileAssignment, TypeOK
  <2>12. CASE CompileExprStatement
    <3>1. lost' \in SUBSET Tmps
      BY <2>12 DEF CompileExprStatement, TmpOf, TypeOK
    <3>2. pending' \in Seq(Results)
      BY <2>12 DEF CompileExprStatement
    <3> QED
      BY <2>12, <3>1, <3>2 DEF CompileExprStatement, TypeOK
  <2>13. CASE CompileReturnValue
    <3>1. Last.operand \in Operand
      BY <2>13, ConsumeType DEF CompileReturnValue, Results
    <3>2. Instr("RET", Last.operand, Null) \in Emitted
      BY <3>1, OperandTypes1, EmittedType DEF Opcodes
    <3>3. code' \in Seq(Emitted)
      BY <2>13, <3>2, EmitType DEF Emit, CompileReturnValue
    <3> QED
      BY <2>13, <3>3, ConsumeType DEF CompileReturnValue, TypeOK
  <2>14. CASE CompileReturnVoid
    <3>1. Instr("RET", Null, Null) \in Emitted
      BY OperandTypes1, EmittedType DEF Opcodes
    <3>2. code' \in Seq(Emitted)
      BY <2>14, <3>1, EmitType DEF Emit, CompileReturnVoid
    <3> QED
      BY <2>14, <3>2 DEF CompileReturnVoid, TypeOK
  <2>15. ASSUME NEW f \in Fns, BeginFunction(f) PROVE TypeOK'
    BY <2>1, <2>15 DEF BeginFunction, TypeOK
  <2>16. CASE EndFunction
    BY <2>16 DEF EndFunction, TypeOK
  <2>17. CASE StartGlobal
    <3>1. code' \in Seq(Emitted)
      <4>1. CASE 1 \in 1 .. Len(code)
        <5>1. code[1] \in Emitted
          BY <4>1 DEF TypeOK
        <5>2. [code[1] EXCEPT !.a = Imm(Len(code))] \in Emitted
          BY <2>1, <5>1, OperandTypes1 DEF Emitted, Operand
        <5>3. code' = [code EXCEPT ![1] = [code[1] EXCEPT !.a = Imm(Len(code))]]
          BY <2>17 DEF StartGlobal
        <5> QED
          BY <4>1, <5>2, <5>3, ExceptSeq DEF TypeOK
      <4>2. CASE 1 \notin 1 .. Len(code)
        <5>1. code' = [code EXCEPT ![1] = [code[1] EXCEPT !.a = Imm(Len(code))]]
          BY <2>17 DEF StartGlobal
        <5>2. code' = code
          BY <2>1, <4>2, <5>1 DEF TypeOK
        <5> QED
          BY <5>2 DEF TypeOK
      <4> QED
        BY <4>1, <4>2
    <3> QED
      BY <2>17, <3>1 DEF StartGlobal, TypeOK
  <2>18. CASE Finish
    <3>1. Instr("HALT", Null, Null) \in Emitted
      BY OperandTypes1, EmittedType DEF Opcodes
    <3>2. code' \in Seq(Emitted)
      BY <2>18, <3>1, EmitType DEF Emit, Finish
    <3> QED
      BY <2>18, <3>2 DEF Finish, TypeOK
  <2>19. CASE UNCHANGED vars
    BY <2>19 DEF vars, TypeOK
  <2> QED
    BY <2>3, <2>4, <2>5, <2>6, <2>7, <2>8, <2>9, <2>10, <2>11, <2>12, <2>13,
       <2>14, <2>15, <2>16, <2>17, <2>18, <2>19
       DEF Next, VariableOutOfTemps, BinopOutOfTemps, RejectReturn, RejectFunction
<1> QED
  BY <1>1, <1>2, PTL DEF Spec

-----------------------------------------------------------------------------
(***************************************************************************)
(* TempsAccounted, temporary by temporary and for any sequence of results. *)
(***************************************************************************)
Balanced(used, held, gone) ==
    /\ \A i \in Tmps : used[i] <=> i \in gone \/ \E k \in DOMAIN held : i \in TmpOf(held[k])
    /\ \A i \in Tmps, k \in DOMAIN held : i \in TmpOf(held[k]) => i \notin gone
    /\ \A i \in Tmps, k, m \in DOMAIN held :
          i \in TmpOf(held[k]) /\ i \in TmpOf(held[m]) => k = m

LEMMA BalancedIsAccounted ==
    ASSUME TypeOK
    PROVE  TempsAccounted <=> Balanced(tmp_used, pending, lost)
<1>1. \A k \in DOMAIN pending : TmpOf(pending[k]) \subseteq Tmps
  BY DEF TmpOf
<1>2. lost \subseteq Tmps
  BY DEF TypeOK
<1>3. ASSUME TempsAccounted PROVE Balanced(tmp_used, pending, lost)
  BY <1>1, <1>2, <1>3 DEF TempsAccounted, Balanced
<1>4. ASSUME Balanced(tmp_used, pending, lost) PROVE TempsAccounted
  <2>1. ASSUME NEW i PROVE i \in {j \in Tmps : tmp_used[j]}
                       <=> i \in lost \cup UNION {TmpOf(pending[k]) : k \in DOMAIN pending}
    BY <1>1, <1>2, <1>4 DEF Balanced
  <2>2. \A k \in DOMAIN pending : TmpOf(pending[k]) \cap lost = {}
    BY <1>1, <1>4 DEF Balanced
  <2>3. \A k, m \in DOMAIN pending : k # m => TmpOf(pending[k]) \cap TmpOf(pending[m]) = {}
    BY <1>1, <1>4 DEF Balanced
  <2> QED
    BY <2>1, <2>2, <2>3 DEF TempsAccounted
<1> QED
  BY <1>3, <1>4

\* Which temporary a new result is in.
LEMMA TmpOfResult ==
    /\ \A i \in Tmps : \A t, at : TmpOf(Result(TmpReg(i), t, at)) = {i}
    /\ \A t, at : TmpOf(Result(Reg(R_FNR), t, at)) = {}
    /\ \A v, t, at : TmpOf(Result(Imm(v), t, at)) = {}
    /\ \A r : ~IsReg(r.operand) => TmpOf(r) = {}
BY CodeGenAssumption DEF TmpOf, Result, TmpReg, Tmps, Reg, Imm, IsReg, R_FNR, R_TMP0

\* A result outside the temporaries changes nothing.
LEMMA AppendElsewhere ==
    ASSUME NEW used, NEW gone, NEW held \in Seq(Results), NEW r \in Results,
           Balanced(used, held, gone), TmpOf(r) = {}
    PROVE  Balanced(used, Append(held, r), gone)
<1>1. /\ DOMAIN Append(held, r) = DOMAIN held \cup {Len(held) + 1}
      /\ \A k \in DOMAIN held : Append(held, r)[k] = held[k]
      /\ Append(held, r)[Len(held) + 1] = r
  BY AppendProperties
<1> QED
  BY <1>1 DEF Balanced

\* A result in a free temporary takes it.
LEMMA AppendAllocated ==
    ASSUME NEW used \in [Tmps -> BOOLEAN], NEW gone, NEW held \in Seq(Results),
           NEW r \in Results, NEW i \in Tmps,
           Balanced(used, held, gone), ~used[i], TmpOf(r) = {i}
    PROVE  Balanced([used EXCEPT ![i] = TRUE], Append(held, r), gone)
<1> DEFINE more == Append(held, r)
           now  == [used EXCEPT ![i] = TRUE]
<1>1. /\ DOMAIN more = DOMAIN held \cup {Len(held) + 1}
      /\ Len(held) + 1 \notin DOMAIN held
      /\ \A k \in DOMAIN held : more[k] = held[k]
      /\ more[Len(held) + 1] = r
  BY AppendProperties
<1>2. now[i] /\ \A j \in Tmps \ {i} : now[j] = used[j]
  OBVIOUS
<1>3. i \notin gone /\ \A k \in DOMAIN held : i \notin TmpOf(held[k])
  BY DEF Balanced
<1> HIDE DEF more, now
<1>4. \A j \in Tmps : now[j] <=> j \in gone \/ \E k \in DOMAIN more : j \in TmpOf(more[k])
  BY <1>1, <1>2, <1>3 DEF Balanced
<1>5. \A j \in Tmps, k \in DOMAIN more : j \in TmpOf(more[k]) => j \notin gone
  BY <1>1, <1>3 DEF Balanced
<1>6. \A j \in Tmps, k, m \in DOMAIN more :
          j \in TmpOf(more[k]) /\ j \in TmpOf(more[m]) => k = m
  BY <1>1, <1>3 DEF Balanced
<1>7. Balanced(now, more, gone)
  BY <1>4, <1>5, <1>6 DEF Balanced
<1> QED
  BY <1>7 DEF now, more

\* A prefix of the results.
LEMMA PrefixOf ==
    ASSUME NEW held \in Seq(Results), NEW n \in 0 .. Len(held)
    PROVE  /\ SubSeq(held, 1, n) \in Seq(Results)
           /\ DOMAIN SubSeq(held, 1, n) = 1 .. n
           /\ Len(SubSeq(held, 1, n)) = n
           /\ \A k \in 1 .. n : SubSeq(held, 1, n)[k] = held[k]
           /\ DOMAIN held = 1 .. Len(held) /\ Len(held) \in Nat
BY SubSeqProperties

\* The last result is consumed, and its temporary is free.
LEMMA ConsumeOne ==
    ASSUME NEW used \in [Tmps -> BOOLEAN], NEW gone, NEW held \in Seq(Results),
           Len(held) > 0, Balanced(used, held, gone)
    PROVE  Balanced(Without(used, held[Len(held)]), SubSeq(held, 1, Len(held) - 1), gone)
<1> DEFINE n == Len(held)
           less == SubSeq(held, 1, n - 1)
           now  == Without(used, held[n])
<1>1. /\ DOMAIN held = 1 .. n /\ n \in Nat /\ n > 0
      /\ DOMAIN less = 1 .. n - 1
      /\ \A k \in 1 .. n - 1 : less[k] = held[k]
  BY PrefixOf
<1>2. \A j \in Tmps : now[j] <=> used[j] /\ j \notin TmpOf(held[n])
  BY DEF Without
<1> HIDE DEF n, less, now
<1>3. DOMAIN held = DOMAIN less \cup {n} /\ n \notin DOMAIN less
  BY <1>1
<1>4. \A k \in DOMAIN less : less[k] = held[k]
  BY <1>1
<1>5. Balanced(now, less, gone)
  BY <1>2, <1>3, <1>4 DEF Balanced
<1> QED
  BY <1>5 DEF now, less, n

\* The results behind the first n are thrown away, with their temporaries.
LEMMA DropRest ==
    ASSUME NEW used, NEW gone, NEW held \in Seq(Results), NEW n \in 0 .. Len(held),
           Balanced(used, held, gone)
    PROVE  Balanced(used, SubSeq(held, 1, n),
                    gone \cup UNION {TmpOf(held[k]) : k \in n + 1 .. Len(held)})
<1> DEFINE less == SubSeq(held, 1, n)
           lostNow == gone \cup UNION {TmpOf(held[k]) : k \in n + 1 .. Len(held)}
<1>1. /\ DOMAIN less = 1 .. n
      /\ \A k \in 1 .. n : less[k] = held[k]
      /\ DOMAIN held = 1 .. Len(held) /\ Len(held) \in Nat
  BY PrefixOf
<1>2. \A j : j \in lostNow <=> j \in gone \/ \E k \in n + 1 .. Len(held) : j \in TmpOf(held[k])
  OBVIOUS
<1>3. DOMAIN held = DOMAIN less \cup (n + 1 .. Len(held))
      /\ DOMAIN less \cap (n + 1 .. Len(held)) = {}
  BY <1>1
<1>4. \A k \in DOMAIN less : less[k] = held[k]
  BY <1>1
<1> DEFINE rest == n + 1 .. Len(held)
<1>5. /\ \A j : j \in lostNow <=> j \in gone \/ \E k \in rest : j \in TmpOf(held[k])
      /\ DOMAIN held = DOMAIN less \cup rest /\ DOMAIN less \cap rest = {}
  BY <1>2, <1>3
<1> HIDE DEF less, lostNow, rest
<1>6. Balanced(used, less, lostNow)
  BY <1>4, <1>5 DEF Balanced
<1> QED
  BY <1>6 DEF less, lostNow

\* The last result is replaced by one in the same temporary.
LEMMA ReplaceLast ==
    ASSUME NEW used, NEW gone, NEW held \in Seq(Results), NEW r \in Results,
           Len(held) > 0, TmpOf(r) = TmpOf(held[Len(held)]), Balanced(used, held, gone)
    PROVE  Balanced(used, Append(SubSeq(held, 1, Len(held) - 1), r), gone)
<1> DEFINE n == Len(held)
           less == SubSeq(held, 1, n - 1)
           new == Append(less, r)
<1>1. /\ DOMAIN held = 1 .. n /\ n \in Nat /\ n > 0
      /\ less \in Seq(Results) /\ Len(less) = n - 1
      /\ \A k \in 1 .. n - 1 : less[k] = held[k]
  <2>1. n \in Nat /\ n > 0 /\ n - 1 \in 0 .. Len(held)
    OBVIOUS
  <2> QED
    BY <2>1, PrefixOf
<1>2. /\ DOMAIN new = 1 .. n
      /\ \A k \in 1 .. n - 1 : new[k] = less[k]
      /\ new[n] = r
  <2> HIDE DEF n, less
  <2>1. new \in Seq(Results) /\ Len(new) = n
    BY <1>1, AppendProperties
  <2>2. \A k \in 1 .. n - 1 : new[k] = less[k]
    BY <1>1, AppendProperties
  <2>3. new[(n - 1) + 1] = r
    BY <1>1, AppendProperties
  <2> QED
    BY <1>1, <2>1, <2>2, <2>3
<1>3. ASSUME NEW k \in DOMAIN held PROVE TmpOf(new[k]) = TmpOf(held[k])
  <2> HIDE DEF new, less
  <2>1. CASE k = n
    BY <1>2, <2>1
  <2>2. CASE k # n
    <3>1. k \in 1 .. n - 1
      <4> HIDE DEF n
      <4> QED
        BY <1>1, <2>2
    <3> QED
      BY <1>1, <1>2, <3>1
  <2> QED
    BY <2>1, <2>2
<1> HIDE DEF n, less, new
<1>4. Balanced(used, new, gone)
  BY <1>1, <1>2, <1>3 DEF Balanced
<1> QED
  BY <1>4 DEF new, less, n

TempsBalanced == Balanced(tmp_used, pending, lost)

\* A statement that consumes the only result leaves its temporary free.
LEMMA ConsumeBalanced ==
    ASSUME TypeOK, TempsBalanced, ConsumeLast, UNCHANGED lost
    PROVE  TempsBalanced'
<1>1. pending \in Seq(Results) /\ tmp_used \in [Tmps -> BOOLEAN] /\ Len(pending) = 1
  BY DEF TypeOK, ConsumeLast
<1>2. tmp_used' = Without(tmp_used, pending[Len(pending)])
  BY DEF ConsumeLast, Last
<1>3. pending' = SubSeq(pending, 1, Len(pending) - 1)
  BY <1>1 DEF ConsumeLast
<1>4. Balanced(Without(tmp_used, pending[Len(pending)]),
               SubSeq(pending, 1, Len(pending) - 1), lost)
  BY <1>1, ConsumeOne, SMTT(30) DEF TempsBalanced
<1> QED
  BY <1>2, <1>3, <1>4 DEF TempsBalanced

\* No temporary register is handed out while an outer expression still needs
\* it, and none is in use that nothing accounts for, however deep expressions
\* and calls are nested (allocTmpReg and freeTmpReg in compileNode).
THEOREM TempsAreAccounted == Spec => []TempsAccounted
<1>1. Init => TempsBalanced
  BY DEF Init, TempsBalanced, Balanced
<1>2. TypeOK /\ TempsBalanced /\ [Next]_vars => TempsBalanced'
  <2> SUFFICES ASSUME TypeOK, TempsBalanced, [Next]_vars PROVE TempsBalanced'
    OBVIOUS
  <2>1. /\ pending \in Seq(Results) /\ Len(pending) \in Nat
        /\ tmp_used \in [Tmps -> BOOLEAN]
        /\ Len(code) \in Nat
        /\ Balanced(tmp_used, pending, lost)
    BY PendingType DEF TypeOK, TempsBalanced
  <2>2. \A k \in 1 .. Len(pending) : /\ pending[k] \in Results
                                    /\ pending[k].operand \in Operand
                                    /\ pending[k].type \in Types \cup {"none"}
    BY PendingType, <2>1 DEF Results
  <2>3. ASSUME UNCHANGED <<tmp_used, pending, lost>> PROVE TempsBalanced'
    BY <2>1, <2>3 DEF TempsBalanced
  <2>4. CASE Abort
    BY <2>3, <2>4 DEF Abort
  <2>5. ASSUME NEW v \in Literals, CompileNumber(v) PROVE TempsBalanced'
    <3>1. Result(Imm(v), "int32", Len(code)) \in Results
      BY <2>1, CodeGenAssumption, OperandTypes1 DEF Result, Results
    <3>2. Balanced(tmp_used, Append(pending, Result(Imm(v), "int32", Len(code))), lost)
      BY <2>1, <3>1, TmpOfResult, AppendElsewhere
    <3> QED
      BY <2>5, <3>2 DEF CompileNumber, Push, TempsBalanced
  <2>6. ASSUME NEW s \in Symbols, CompileVariable(s) PROVE TempsBalanced'
    <3>1. PICK i \in Tmps, o \in Offsets[s], t \in TypesOf[s] :
              /\ FirstFree(i)
              /\ tmp_used' = [tmp_used EXCEPT ![i] = TRUE]
              /\ Push(Result(TmpReg(i), t, Len(code) + 1))
      BY <2>6 DEF CompileVariable
    <3> DEFINE r == Result(TmpReg(i), t, Len(code) + 1)
    <3>2. r \in Results
      BY <2>1, CodeGenAssumption, OperandTypes1 DEF Result, Results
    <3>3. ~tmp_used[i] /\ TmpOf(r) = {i}
      BY <3>1, TmpOfResult DEF FirstFree, IsFree
    <3>4. Balanced([tmp_used EXCEPT ![i] = TRUE], Append(pending, r), lost)
      <4> HIDE DEF r
      <4> QED
        BY <2>1, <3>2, <3>3, AppendAllocated
    <3>5. pending' = Append(pending, r) /\ lost' = lost
      BY <2>6, <3>1 DEF Push, CompileVariable
    <3> QED
      BY <3>1, <3>4, <3>5 DEF TempsBalanced
  <2>7. ASSUME NEW op \in Ops, CompileBinop(op) PROVE TempsBalanced'
    <3> DEFINE n == Len(pending)
               L == pending[n - 1]
               r == Result(L.operand, L.type, Len(code) + 1)
               front == SubSeq(pending, 1, n - 1)
    <3>1. n >= 2 /\ n - 1 \in 1 .. n /\ n - 1 \in 0 .. n
      BY <2>1, <2>7 DEF CompileBinop, Operands
    <3>2. /\ tmp_used' = Without(tmp_used, pending[n])
          /\ pending' = Append(SubSeq(pending, 1, n - 2), r)
          /\ lost' = lost
      BY <2>7 DEF CompileBinop, Last
    <3>3. r \in Results /\ TmpOf(r) = TmpOf(L)
      BY <2>1, <2>2, <3>1 DEF Result, Results, TmpOf
    <3>4. front \in Seq(Results) /\ Len(front) = n - 1 /\ front[n - 1] = L
      BY <2>1, <3>1, PrefixOf
    <3>5. Balanced(Without(tmp_used, pending[n]), front, lost)
      BY <2>1, <3>1, ConsumeOne
    <3>6. SubSeq(front, 1, (n - 1) - 1) = SubSeq(pending, 1, n - 2)
      <4>1. (n - 1) - 1 \in 0 .. Len(front) /\ n - 2 \in 0 .. n
        BY <2>1, <3>1, <3>4
      <4> QED
        BY <2>1, <3>1, <4>1 DEF front
    <3>7. Balanced(Without(tmp_used, pending[n]), Append(SubSeq(front, 1, (n - 1) - 1), r), lost)
      <4> HIDE DEF front, r, L, n
      <4> QED
        BY <3>1, <3>3, <3>4, <3>5, ReplaceLast
    <3> QED
      BY <3>2, <3>6, <3>7 DEF TempsBalanced
  <2>8. ASSUME NEW op \in Ops, CompileBinopImmediate(op) PROVE TempsBalanced'
    <3> DEFINE n == Len(pending)
               L == pending[n - 1]
               front == SubSeq(pending, 1, n - 2)
    <3>1. n >= 2 /\ n - 1 \in 1 .. n /\ n - 2 \in 0 .. n
      BY <2>1, <2>8 DEF CompileBinopImmediate, Operands
    <3>2. PICK i \in Tmps :
              /\ FirstFree(i)
              /\ tmp_used' = [tmp_used EXCEPT ![i] = TRUE]
              /\ pending' = Append(front, Result(TmpReg(i), L.type, Len(code) + 2))
      BY <2>8 DEF CompileBinopImmediate
    <3> DEFINE r == Result(TmpReg(i), L.type, Len(code) + 2)
    <3>3. lost' = lost
      BY <2>8 DEF CompileBinopImmediate
    <3>4. r \in Results
      BY <2>1, <2>2, <3>1, OperandTypes1 DEF Result, Results
    <3>5. ~tmp_used[i] /\ TmpOf(r) = {i}
      BY <3>2, TmpOfResult DEF FirstFree, IsFree
    <3>6. \A k \in n - 2 + 1 .. Len(pending) : TmpOf(pending[k]) = {}
      <4>1. ~IsReg(L.operand) /\ ~IsReg(pending[n].operand)
        BY <2>8 DEF CompileBinopImmediate, Last
      <4>2. \A k \in n - 2 + 1 .. Len(pending) : k = n - 1 \/ k = n
        BY <2>1, <3>1
      <4> QED
        BY <4>1, <4>2, TmpOfResult
    <3>7. lost \cup UNION {TmpOf(pending[k]) : k \in n - 2 + 1 .. Len(pending)} = lost
      BY <3>6
    <3>8. Balanced(tmp_used, front,
                   lost \cup UNION {TmpOf(pending[k]) : k \in n - 2 + 1 .. Len(pending)})
      <4> HIDE DEF L, r
      <4> QED
        BY <2>1, <3>1, DropRest
    <3>9. front \in Seq(Results)
      BY <2>1, <3>1, PrefixOf
    <3>10. Balanced([tmp_used EXCEPT ![i] = TRUE], Append(front, r), lost)
      <4>1. Balanced(tmp_used, front, lost)
        BY <3>7, <3>8
      <4> HIDE DEF front, r
      <4> QED
        BY <2>1, <3>4, <3>5, <3>9, <4>1, AppendAllocated
    <3> QED
      BY <3>2, <3>3, <3>10 DEF TempsBalanced
  <2>9. ASSUME NEW f \in Fns, NEW n \in 0 .. MaxArgs, CompileCall(f, n) PROVE TempsBalanced'
    <3> DEFINE rest == Len(pending) - n
               front == SubSeq(pending, 1, rest)
               dropped == UNION {TmpOf(pending[k]) : k \in rest + 1 .. Len(pending)}
               r == Result(Reg(R_FNR), "none", Len(code) + 1)
    <3>1. rest \in 0 .. Len(pending)
      BY <2>1, <2>9, CodeGenAssumption DEF CompileCall
    <3>2. /\ tmp_used' = tmp_used
          /\ pending' = Append(front, r)
          /\ lost' = lost \cup dropped
      BY <2>9 DEF CompileCall
    <3>3. r \in Results /\ TmpOf(r) = {}
      BY <2>1, OperandTypes1, TmpOfResult DEF Result, Results
    <3>4. front \in Seq(Results)
      BY <2>1, <3>1, PrefixOf
    <3>5. Balanced(tmp_used, front, lost \cup dropped)
      <4> HIDE DEF rest, r
      <4> QED
        BY <2>1, <3>1, DropRest
    <3>6. Balanced(tmp_used, Append(front, r), lost \cup dropped)
      <4> HIDE DEF front, dropped, r
      <4> QED
        BY <3>3, <3>4, <3>5, AppendElsewhere
    <3> QED
      BY <3>2, <3>6 DEF TempsBalanced
  <2>10. ASSUME NEW x \in Symbols, CompileDeclaration(x) PROVE TempsBalanced'
    BY <2>3, <2>10 DEF CompileDeclaration
  <2>11. ASSUME NEW x \in Symbols, CompileInitialisation(x) PROVE TempsBalanced'
    BY <2>11, ConsumeBalanced DEF CompileInitialisation
  <2>12. ASSUME NEW s \in Symbols, CompileAssignment(s) PROVE TempsBalanced'
    BY <2>12, ConsumeBalanced DEF CompileAssignment
  <2>13. CASE CompileExprStatement
    <3>1. Len(pending) = 1 /\ pending' = SubSeq(pending, 1, 0) /\ tmp_used' = tmp_used
      BY <2>1, <2>13 DEF CompileExprStatement
    <3>2. lost' = lost \cup UNION {TmpOf(pending[k]) : k \in 0 + 1 .. Len(pending)}
      BY <2>13, <3>1 DEF CompileExprStatement, Last
    <3>3. Balanced(tmp_used, SubSeq(pending, 1, 0),
                   lost \cup UNION {TmpOf(pending[k]) : k \in 0 + 1 .. Len(pending)})
      BY <2>1, DropRest
    <3> QED
      BY <3>1, <3>2, <3>3 DEF TempsBalanced
  <2>14. CASE CompileReturnValue
    BY <2>14, ConsumeBalanced DEF CompileReturnValue
  <2>15. CASE CompileReturnVoid
    BY <2>3, <2>15 DEF CompileReturnVoid
  <2>16. ASSUME NEW f \in Fns, BeginFunction(f) PROVE TempsBalanced'
    BY <2>3, <2>16 DEF BeginFunction
  <2>17. CASE EndFunction
    BY <2>3, <2>17 DEF EndFunction
  <2>18. CASE StartGlobal
    BY <2>3, <2>18 DEF StartGlobal
  <2>19. CASE Finish
    BY <2>3, <2>19 DEF Finish
  <2>20. CASE UNCHANGED vars
    BY <2>3, <2>20 DEF vars
  <2> QED
    BY <2>4, <2>5, <2>6, <2>7, <2>8, <2>9, <2>10, <2>11, <2>12, <2>13, <2>14,
       <2>15, <2>16, <2>17, <2>18, <2>19, <2>20
       DEF Next, VariableOutOfTemps, BinopOutOfTemps, RejectReturn, RejectFunction
<1>3. TypeOK /\ TempsBalanced => TempsAccounted
  BY BalancedIsAccounted DEF TempsBalanced
<1> QED
  BY <1>1, <1>2, <1>3, TypeCorrect, PTL DEF Spec

-----------------------------------------------------------------------------
\* Emitting leaves what was emitted before as it is.
LEMMA EmitExtends ==
    ASSUME NEW c \in Seq(Emitted), NEW more \in Seq(Emitted)
    PROVE  /\ c \o more \in Seq(Emitted)
           /\ Len(c) \in Nat /\ Len(more) \in Nat
           /\ Len(c \o more) = Len(c) + Len(more)
           /\ DOMAIN (c \o more) = 1 .. (Len(c) + Len(more))
           /\ \A n \in 1 .. Len(c) : (c \o more)[n] = c[n]
           /\ \A n \in (Len(c) + 1) .. (Len(c) + Len(more)) :
                 /\ (c \o more)[n] = more[n - Len(c)]
                 /\ n - Len(c) \in DOMAIN more
BY ConcatProperties

-----------------------------------------------------------------------------
(***************************************************************************)
(* Calls and the first jump.  A function's entry, once set, lies in the    *)
(* code and never changes; a body is compiled after all functions that the *)
(* parser knew when it was parsed, and global code after all of them.      *)
(***************************************************************************)
LaidOut ==
    /\ Len(code) > 0 /\ code[1].a.data \in Nat
    /\ \A f \in Fns : entry_ip[f] # Unset => entry_ip[f] \in 1 .. Len(code)
    /\ InBody => \A f \in Fns : f <= currentFunction => entry_ip[f] # Unset
    /\ phase \in {"global", "done"} => \A f \in Fns : entry_ip[f] # Unset
    /\ CallsResolve
    /\ StartSkipsFunctions

\* Emitting anything but a call keeps the layout, and so does a return that is
\* emitted in a function.
LEMMA EmitKeepsLayout ==
    ASSUME TypeOK, LaidOut, NEW more \in Seq(Emitted), Emit(more),
           \A k \in DOMAIN more : more[k].opcode # "CALL",
           phase # "functions" => \A k \in DOMAIN more : more[k].opcode # "RET",
           UNCHANGED <<entry_ip, currentFunction>>,
           phase' = phase \/ (phase = "global" /\ phase' = "done")
    PROVE  LaidOut'
<1>1. /\ code \in Seq(Emitted) /\ code' = code \o more
      /\ DOMAIN code = 1 .. Len(code)
  BY DEF TypeOK, Emit
<1>2. /\ Len(code) \in Nat /\ Len(more) \in Nat
      /\ Len(code') = Len(code) + Len(more)
      /\ DOMAIN code' = 1 .. (Len(code) + Len(more))
      /\ \A n \in 1 .. Len(code) : code'[n] = code[n]
      /\ \A n \in (Len(code) + 1) .. (Len(code) + Len(more)) :
            \E k \in DOMAIN more : code'[n] = more[k]
  BY <1>1, EmitExtends
<1>3. \A f \in Fns : entry_ip'[f] # Unset => entry_ip'[f] \in 1 .. Len(code')
  BY <1>2 DEF LaidOut
<1>4. ASSUME NEW c \in DOMAIN code', code'[c].opcode = "CALL"
      PROVE  c \in DOMAIN code /\ code'[c] = code[c]
  BY <1>1, <1>2, <1>4
<1>5. CallsResolve'
  BY <1>4 DEF LaidOut, CallsResolve
<1>6. code'[1] = code[1]
  BY <1>2 DEF LaidOut
<1>7. ASSUME phase' \in {"global", "done"}
      PROVE  /\ \A f \in Fns : entry_ip'[f] \in 1 .. code'[1].a.data
             /\ \A c \in code'[1].a.data + 1 .. Len(code') : code'[c].opcode # "RET"
  <2>1. /\ phase \in {"global", "done"}
        /\ \A f \in Fns : entry_ip[f] \in 1 .. code[1].a.data
        /\ \A c \in code[1].a.data + 1 .. Len(code) : code[c].opcode # "RET"
    BY <1>7 DEF LaidOut, StartSkipsFunctions
  <2>2. code[1].a.data \in Nat
    BY DEF LaidOut
  <2>3. ASSUME NEW c \in code'[1].a.data + 1 .. Len(code') PROVE code'[c].opcode # "RET"
    <3>1. CASE c \in 1 .. Len(code)
      BY <1>2, <1>6, <2>1, <2>2, <3>1
    <3>2. CASE c \in (Len(code) + 1) .. (Len(code) + Len(more))
      BY <1>2, <2>1, <3>2
    <3> QED
      BY <1>2, <1>6, <2>2, <3>1, <3>2
  <2> QED
    BY <1>6, <2>1, <2>3
<1>8. Len(code') > 0 /\ code'[1].a.data \in Nat
  BY <1>2, <1>6 DEF LaidOut
<1> QED
  BY <1>3, <1>5, <1>7, <1>8 DEF LaidOut, StartSkipsFunctions, InBody

\* An instruction with operands of the format is emitted as a sequence of one.
LEMMA OneInstruction ==
    ASSUME NEW opcode \in Opcodes, NEW a \in Operand, NEW b \in Operand
    PROVE  /\ <<Instr(opcode, a, b)>> \in Seq(Emitted)
           /\ DOMAIN <<Instr(opcode, a, b)>> = {1}
           /\ <<Instr(opcode, a, b)>>[1].opcode = opcode
<1>1. Instr(opcode, a, b) \in Emitted
  BY EmittedType
<1>2. Instr(opcode, a, b).opcode = opcode
  BY DEF Instr
<1> HIDE DEF Instr
<1> QED
  BY <1>1, <1>2

\* A body or global code may only name functions that are laid out.
LEMMA CallsLaidOut ==
    ASSUME TypeOK, LaidOut, Walking, NEW f \in Fns, Mentionable(f)
    PROVE  entry_ip[f] \in 1 .. Len(code)
<1>1. f \in Int /\ f \notin Params /\ Owner[f] = 0
  BY CodeGenAssumption DEF Symbols
<1>2. CASE InBody
  <2>1. f <= currentFunction
    BY <1>1, <1>2 DEF Mentionable, InBody
  <2> QED
    BY <1>2, <2>1 DEF LaidOut
<1>3. CASE phase = "global"
  BY <1>3 DEF LaidOut
<1> QED
  BY <1>2, <1>3 DEF Walking

LEMMA LayoutInductive == Spec => []LaidOut
<1>1. Init => LaidOut
  BY DEF Init, LaidOut, InBody, CallsResolve, StartSkipsFunctions, Instr, Null
<1>2. TypeOK /\ LaidOut /\ [Next]_vars => LaidOut'
  <2> SUFFICES ASSUME TypeOK, LaidOut, [Next]_vars PROVE LaidOut'
    OBVIOUS
  <2>1. /\ code \in Seq(Emitted) /\ Len(code) \in Nat
        /\ \A k \in 1 .. Len(pending) : pending[k].operand \in Operand
        /\ Ops \subseteq Opcodes /\ "CALL" \notin Ops /\ "RET" \notin Ops
    BY PendingType, CodeGenAssumption DEF TypeOK, Results, Arithmetic, Opcodes
  <2>2. ASSUME UNCHANGED <<code, entry_ip, currentFunction>>,
               phase' = phase \/ phase' = "aborted"
        PROVE  LaidOut'
    BY <2>2 DEF LaidOut, CallsResolve, StartSkipsFunctions, InBody
  <2>3. ASSUME NEW opcode \in Opcodes, NEW a \in Operand, NEW b \in Operand,
               Emit(<<Instr(opcode, a, b)>>), opcode # "CALL",
               opcode = "RET" => phase = "functions",
               UNCHANGED <<entry_ip, currentFunction>>,
               phase' = phase \/ (phase = "global" /\ phase' = "done")
        PROVE  LaidOut'
    <3>1. PICK more \in Seq(Emitted) :
             /\ Emit(more)
             /\ \A k \in DOMAIN more : more[k].opcode = opcode
      <4>1. <<Instr(opcode, a, b)>> \in Seq(Emitted)
            /\ \A k \in DOMAIN <<Instr(opcode, a, b)>> :
                   <<Instr(opcode, a, b)>>[k].opcode = opcode
        BY OneInstruction
      <4> QED
        BY <2>3, <4>1
    <3> QED
      BY <2>3, <3>1, EmitKeepsLayout
  <2>4. CASE Abort
    BY <2>2, <2>4 DEF Abort
  <2>5. ASSUME NEW v \in Literals, CompileNumber(v) PROVE LaidOut'
    BY <2>2, <2>5 DEF CompileNumber
  <2>6. ASSUME NEW s \in Symbols, CompileVariable(s) PROVE LaidOut'
    <3>1. PICK i \in Tmps, o \in Offsets[s] : Emit(<<Instr("LD", TmpReg(i), Ref(o))>>)
      BY <2>6 DEF CompileVariable
    <3>2. TmpReg(i) \in Operand /\ Ref(o) \in Operand
      BY CodeGenAssumption, OperandTypes1
    <3> QED
      BY <2>3, <2>6, <3>1, <3>2 DEF CompileVariable, Opcodes
  <2>7. ASSUME NEW op \in Ops, CompileBinop(op) PROVE LaidOut'
    <3>1. Len(pending) - 1 \in 1 .. Len(pending) /\ Len(pending) \in 1 .. Len(pending)
      BY <2>7, PendingType DEF CompileBinop, Operands
    <3>2. Emit(<<Instr(op, pending[Len(pending) - 1].operand, pending[Len(pending)].operand)>>)
      BY <2>7 DEF CompileBinop, Last
    <3> QED
      BY <2>1, <2>3, <2>7, <3>1, <3>2 DEF CompileBinop
  <2>8. ASSUME NEW op \in Ops, CompileBinopImmediate(op) PROVE LaidOut'
    <3>1. Len(pending) \in 1 .. Len(pending)
      BY <2>8, PendingType DEF CompileBinopImmediate, Operands
    <3>2. PICK i \in Tmps : Emit(<<Instr("MOV", TmpReg(i), Null),
                                   Instr(op, TmpReg(i), pending[Len(pending)].operand)>>)
      BY <2>8 DEF CompileBinopImmediate, Last
    <3> DEFINE move == Instr("MOV", TmpReg(i), Null)
               compute == Instr(op, TmpReg(i), pending[Len(pending)].operand)
    <3>3. /\ move \in Emitted /\ move.opcode = "MOV"
          /\ compute \in Emitted /\ compute.opcode = op
      BY <2>1, <3>1, OperandTypes1, EmittedType DEF Opcodes, Instr
    <3> HIDE DEF move, compute
    <3>4. /\ <<move, compute>> \in Seq(Emitted)
          /\ \A k \in DOMAIN <<move, compute>> :
                <<move, compute>>[k].opcode \notin {"CALL", "RET"}
      BY <2>1, <3>3
    <3> QED
      BY <2>8, <3>2, <3>4, EmitKeepsLayout DEF CompileBinopImmediate, move, compute
  <2>9. ASSUME NEW f \in Fns, NEW n \in 0 .. MaxArgs, CompileCall(f, n) PROVE LaidOut'
    <3> DEFINE call == Instr("CALL", Ref(entry_ip[f]), Null)
    <3>1. /\ code' = code \o <<call>>
          /\ UNCHANGED <<phase, entry_ip, currentFunction>>
      BY <2>9 DEF CompileCall, Emit
    <3>2. entry_ip[f] \in 1 .. Len(code)
      BY <2>9, CallsLaidOut DEF CompileCall
    <3>3. call \in Emitted /\ call.opcode = "CALL" /\ call.a = Ref(entry_ip[f])
      <4>1. entry_ip[f] \in Nat
        BY <2>1, <3>2
      <4> QED
        BY <4>1, OperandTypes1, EmittedType DEF Opcodes, Instr
    <3> HIDE DEF call
    <3>4. /\ Len(code') = Len(code) + 1
          /\ DOMAIN code' = 1 .. (Len(code) + 1) /\ DOMAIN code = 1 .. Len(code)
          /\ \A n1 \in 1 .. Len(code) : code'[n1] = code[n1]
          /\ code'[Len(code) + 1] = call
      BY <2>1, <3>1, <3>3
    <3>5. CallsResolve'
      <4> SUFFICES ASSUME NEW c \in DOMAIN code', code'[c].opcode = "CALL"
                   PROVE  \E g \in Fns : /\ code'[c].a = Ref(entry_ip[g])
                                         /\ entry_ip[g] \in 1 .. c - 1
        BY <3>1 DEF CallsResolve
      <4>1. CASE c \in DOMAIN code
        BY <3>4, <4>1 DEF LaidOut, CallsResolve
      <4>2. CASE c = Len(code) + 1
        <5>1. entry_ip[f] \in 1 .. c - 1
          BY <2>1, <3>2, <4>2
        <5> QED
          BY <3>3, <3>4, <4>2, <5>1
      <4> QED
        BY <2>1, <3>4, <4>1, <4>2
    <3>6. StartSkipsFunctions'
      <4> SUFFICES ASSUME phase \in {"global", "done"}
                   PROVE  /\ \A g \in Fns : entry_ip[g] \in 1 .. code'[1].a.data
                          /\ \A c \in code'[1].a.data + 1 .. Len(code') :
                                code'[c].opcode # "RET"
        BY <3>1 DEF StartSkipsFunctions
      <4>1. code'[1] = code[1] /\ code[1].a.data \in Nat
        BY <2>1, <3>4 DEF LaidOut
      <4>2. ASSUME NEW c \in code'[1].a.data + 1 .. Len(code') PROVE code'[c].opcode # "RET"
        <5>1. CASE c \in 1 .. Len(code)
          BY <3>4, <4>1, <5>1 DEF LaidOut, StartSkipsFunctions
        <5>2. CASE c = Len(code) + 1
          BY <3>3, <3>4, <5>2
        <5> QED
          BY <2>1, <3>4, <4>1, <5>1, <5>2
      <4> QED
        BY <4>1, <4>2 DEF LaidOut, StartSkipsFunctions
    <3>7. /\ \A g \in Fns : entry_ip'[g] # Unset => entry_ip'[g] \in 1 .. Len(code')
          /\ Len(code') > 0 /\ code'[1].a.data \in Nat
      BY <2>1, <3>1, <3>4 DEF LaidOut
    <3> QED
      BY <3>1, <3>5, <3>6, <3>7 DEF LaidOut, InBody
  <2>10. ASSUME NEW x \in Symbols, CompileDeclaration(x) PROVE LaidOut'
    BY <2>2, <2>10 DEF CompileDeclaration
  <2>11. ASSUME NEW x \in Symbols, CompileInitialisation(x) PROVE LaidOut'
    <3>1. PICK o \in Offsets[x] : Emit(<<Instr("ST", Ref(o), Last.operand)>>)
      BY <2>11 DEF CompileInitialisation
    <3>2. Ref(o) \in Operand /\ Last.operand \in Operand
      BY <2>11, CodeGenAssumption, OperandTypes1, ConsumeType
         DEF CompileInitialisation, Results
    <3> QED
      BY <2>3, <2>11, <3>1, <3>2 DEF CompileInitialisation, Opcodes
  <2>12. ASSUME NEW s \in Symbols, CompileAssignment(s) PROVE LaidOut'
    <3>1. PICK o \in Offsets[s] :
              Emit(IF Last.type = "none"
                   THEN <<Instr("MOV", Ref(o), Reg(R_FNR)), Instr("ST", Ref(o), Last.operand)>>
                   ELSE <<Instr("ST", Ref(o), Last.operand)>>)
      BY <2>12 DEF CompileAssignment
    <3>2. Ref(o) \in Operand /\ Last.operand \in Operand
      BY <2>12, CodeGenAssumption, OperandTypes1, ConsumeType
         DEF CompileAssignment, Results
    <3> DEFINE move == Instr("MOV", Ref(o), Reg(R_FNR))
               store == Instr("ST", Ref(o), Last.operand)
    <3>3. /\ move \in Emitted /\ move.opcode = "MOV"
          /\ store \in Emitted /\ store.opcode = "ST"
      BY <3>2, OperandTypes1, EmittedType DEF Opcodes, Instr
    <3> HIDE DEF move, store
    <3>4. /\ <<move, store>> \in Seq(Emitted) /\ <<store>> \in Seq(Emitted)
          /\ \A k \in DOMAIN <<move, store>> :
                <<move, store>>[k].opcode \notin {"CALL", "RET"}
          /\ \A k \in DOMAIN <<store>> : <<store>>[k].opcode \notin {"CALL", "RET"}
      BY <3>3
    <3> DEFINE more == IF Last.type = "none" THEN <<move, store>> ELSE <<store>>
    <3>5. /\ more \in Seq(Emitted)
          /\ \A k \in DOMAIN more : more[k].opcode \notin {"CALL", "RET"}
      BY <3>4
    <3>6. Emit(more)
      BY <3>1 DEF move, store
    <3> HIDE DEF more
    <3> QED
      BY <2>12, <3>5, <3>6, EmitKeepsLayout DEF CompileAssignment
  <2>13. CASE CompileExprStatement
    BY <2>2, <2>13 DEF CompileExprStatement
  <2>14. CASE CompileReturnValue
    <3>1. Last.operand \in Operand /\ Null \in Operand
      BY <2>14, ConsumeType, OperandTypes1 DEF CompileReturnValue, Results
    <3> QED
      BY <2>3, <2>14, <3>1 DEF CompileReturnValue, InBody, Opcodes
  <2>15. CASE CompileReturnVoid
    BY <2>3, <2>15, OperandTypes1 DEF CompileReturnVoid, InBody, Opcodes
  <2>16. ASSUME NEW f \in Fns, BeginFunction(f) PROVE LaidOut'
    <3>1. /\ phase = "functions" /\ UNCHANGED <<phase, code>>
          /\ currentFunction' = f
          /\ \A g \in Fns : g < f => entry_ip[g] # Unset
          /\ entry_ip[f] = Unset
      BY <2>16 DEF BeginFunction
    <3>2. /\ entry_ip'[f] = Len(code)
          /\ \A g \in Fns : g # f => entry_ip'[g] = entry_ip[g]
      BY <2>16 DEF BeginFunction, TypeOK
    <3>3. Len(code) # Unset /\ Len(code) \in 1 .. Len(code)
      BY <2>1 DEF Unset, LaidOut
    <3>4. \A g \in Fns : entry_ip'[g] # Unset => entry_ip'[g] \in 1 .. Len(code)
      BY <3>2, <3>3 DEF LaidOut
    <3>5. \A g \in Fns : g <= f => entry_ip'[g] # Unset
      <4>1. \A g \in Fns : g \in Int
        BY CodeGenAssumption DEF Symbols
      <4> QED
        BY <3>1, <3>2, <3>3, <4>1
    <3>6. CallsResolve'
      <4> SUFFICES ASSUME NEW c \in DOMAIN code, code[c].opcode = "CALL"
                   PROVE  \E g \in Fns : /\ code[c].a = Ref(entry_ip'[g])
                                         /\ entry_ip'[g] \in 1 .. c - 1
        BY <3>1 DEF CallsResolve
      <4>1. PICK g \in Fns : code[c].a = Ref(entry_ip[g]) /\ entry_ip[g] \in 1 .. c - 1
        BY DEF LaidOut, CallsResolve
      <4>2. g # f
        BY <3>1, <4>1 DEF Unset
      <4> QED
        BY <3>2, <4>1, <4>2
    <3> QED
      BY <3>1, <3>4, <3>5, <3>6 DEF LaidOut, StartSkipsFunctions, InBody
  <2>17. CASE EndFunction
    BY <2>17 DEF EndFunction, LaidOut, CallsResolve, StartSkipsFunctions, InBody
  <2>18. CASE StartGlobal
    <3>1. /\ phase' = "global" /\ UNCHANGED entry_ip
          /\ \A f \in Fns : entry_ip[f] \in 1 .. Len(code)
          /\ code' = [code EXCEPT ![1].a = Imm(Len(code))]
      BY <2>18 DEF StartGlobal, LaidOut
    <3>2. /\ DOMAIN code' = DOMAIN code /\ 1 \in DOMAIN code
          /\ Len(code') = Len(code)
          /\ \A c \in DOMAIN code : c # 1 => code'[c] = code[c]
          /\ code'[1] = [code[1] EXCEPT !.a = Imm(Len(code))]
      BY <2>1, <3>1 DEF LaidOut
    <3>3. /\ code[1] \in Emitted
          /\ code'[1].opcode = code[1].opcode /\ code'[1].a.data = Len(code)
      <4>1. code[1] \in Emitted
        BY <2>1, <3>2
      <4> QED
        BY <3>2, <4>1 DEF Emitted, Imm
    <3>4. CallsResolve'
      <4>1. code[1].opcode # "CALL"
        BY <3>2 DEF LaidOut, CallsResolve
      <4> QED
        BY <3>1, <3>2, <3>3, <4>1 DEF LaidOut, CallsResolve
    <3>5. StartSkipsFunctions'
      BY <2>1, <3>1, <3>2, <3>3 DEF StartSkipsFunctions
    <3>6. \A f \in Fns : entry_ip[f] # Unset
      BY <3>1 DEF Unset
    <3> QED
      BY <2>1, <3>1, <3>2, <3>3, <3>4, <3>5, <3>6 DEF LaidOut, InBody
  <2>19. CASE Finish
    BY <2>3, <2>19, OperandTypes1 DEF Finish, Opcodes
  <2>20. CASE UNCHANGED vars
    BY <2>2, <2>20 DEF vars
  <2> QED
    BY <2>4, <2>5, <2>6, <2>7, <2>8, <2>9, <2>10, <2>11, <2>12, <2>13, <2>14,
       <2>15, <2>16, <2>17, <2>18, <2>19, <2>20
       DEF Next, VariableOutOfTemps, BinopOutOfTemps, RejectReturn, RejectFunction
<1> QED
  BY <1>1, <1>2, TypeCorrect, PTL DEF Spec

\* Every call that is emitted goes to the entry of a function that has been
\* laid out before it: compileNode never reads an entry_ip that is not set.
THEOREM EveryCallResolves == Spec => []CallsResolve
<1>1. LaidOut => CallsResolve
  BY DEF LaidOut
<1> QED
  BY <1>1, LayoutInductive, PTL

\* The jump that compile() patches lands behind all functions and at or before
\* all global code.
THEOREM StartIsBehindFunctions == Spec => []StartSkipsFunctions
<1>1. LaidOut => StartSkipsFunctions
  BY DEF LaidOut
<1> QED
  BY <1>1, LayoutInductive, PTL

-----------------------------------------------------------------------------
(***************************************************************************)
(* What waits in a temporary.  DIV is left out: it puts the remainder into *)
(* the first temporary, whatever is there (vm.cpp:245).                    *)
(***************************************************************************)
Intact(held, c) ==
    \A k \in DOMAIN held : \A i \in TmpOf(held[k]) :
        /\ held[k].at \in 1 .. Len(c)
        /\ R_TMP0 + i \in RegsWritten(c[held[k].at])
        /\ \A n \in held[k].at + 1 .. Len(c) : R_TMP0 + i \notin RegsWritten(c[n])

\* Which temporaries instructions write, by their opcodes.
LEMMA TmpsWritten ==
    ASSUME NEW op \in Opcodes \ {"DIV"}, NEW a \in Operand, NEW b, NEW i \in Tmps
    PROVE  /\ R_TMP0 + i \in RegsWritten(Instr(op, a, b)) => a = TmpReg(i)
           /\ op \in {"ADD", "SUB", "MUL", "LD", "MOV"} /\ a = TmpReg(i)
                 => R_TMP0 + i \in RegsWritten(Instr(op, a, b))
BY DEF RegsWritten, Instr, IsReg, TmpReg, Reg, Arithmetic, Operand

\* Code that writes none of the temporaries held.
LEMMA EmitKeepsIntact ==
    ASSUME NEW c \in Seq(Emitted), NEW more \in Seq(Emitted), NEW held,
           Intact(held, c),
           \A k \in DOMAIN held : \A i \in TmpOf(held[k]) : \A m \in DOMAIN more :
              R_TMP0 + i \notin RegsWritten(more[m])
    PROVE  Intact(held, c \o more)
<1> DEFINE now == c \o more
<1>1. /\ Len(c) \in Nat /\ Len(more) \in Nat
      /\ Len(now) = Len(c) + Len(more)
      /\ \A n \in 1 .. Len(c) : now[n] = c[n]
      /\ \A n \in (Len(c) + 1) .. (Len(c) + Len(more)) :
            \E m \in DOMAIN more : now[n] = more[m]
  BY EmitExtends
<1> SUFFICES ASSUME NEW k \in DOMAIN held, NEW i \in TmpOf(held[k])
             PROVE  /\ held[k].at \in 1 .. Len(now)
                    /\ R_TMP0 + i \in RegsWritten(now[held[k].at])
                    /\ \A n \in held[k].at + 1 .. Len(now) :
                          R_TMP0 + i \notin RegsWritten(now[n])
  BY DEF Intact
<1>2. /\ held[k].at \in 1 .. Len(c)
      /\ R_TMP0 + i \in RegsWritten(c[held[k].at])
      /\ \A n \in held[k].at + 1 .. Len(c) : R_TMP0 + i \notin RegsWritten(c[n])
  BY DEF Intact
<1> HIDE DEF now
<1>3. ASSUME NEW n \in held[k].at + 1 .. Len(now)
      PROVE  R_TMP0 + i \notin RegsWritten(now[n])
  <2>1. CASE n \in 1 .. Len(c)
    BY <1>1, <1>2, <2>1
  <2>2. CASE n \in (Len(c) + 1) .. (Len(c) + Len(more))
    <3>1. PICK m \in DOMAIN more : now[n] = more[m]
      BY <1>1, <2>2
    <3> QED
      BY <3>1
  <2> QED
    BY <1>1, <1>2, <2>1, <2>2
<1> QED
  BY <1>1, <1>2, <1>3

\* The results in front.
LEMMA IntactInFront ==
    ASSUME NEW c, NEW held \in Seq(Results), NEW n \in 0 .. Len(held), Intact(held, c)
    PROVE  Intact(SubSeq(held, 1, n), c)
<1>1. /\ DOMAIN SubSeq(held, 1, n) = 1 .. n
      /\ \A k \in 1 .. n : SubSeq(held, 1, n)[k] = held[k] /\ k \in DOMAIN held
  BY PrefixOf
<1> QED
  BY <1>1 DEF Intact

\* A result that the last instruction has computed, or that needs none.
LEMMA IntactWith ==
    ASSUME NEW c \in Seq(Emitted), NEW held \in Seq(Results), NEW r \in Results,
           Intact(held, c),
           \A i \in TmpOf(r) : /\ r.at = Len(c) /\ Len(c) > 0
                              /\ R_TMP0 + i \in RegsWritten(c[Len(c)])
    PROVE  Intact(Append(held, r), c)
<1> DEFINE more == Append(held, r)
<1>1. /\ DOMAIN more = DOMAIN held \cup {Len(held) + 1}
      /\ \A k \in DOMAIN held : more[k] = held[k]
      /\ more[Len(held) + 1] = r
  BY AppendProperties
<1>2. Len(c) \in Nat /\ \A n \in Len(c) + 1 .. Len(c) : FALSE
  OBVIOUS
<1> HIDE DEF more
<1>3. ASSUME NEW k \in DOMAIN more, NEW i \in TmpOf(more[k])
      PROVE  /\ more[k].at \in 1 .. Len(c)
             /\ R_TMP0 + i \in RegsWritten(c[more[k].at])
             /\ \A n \in more[k].at + 1 .. Len(c) : R_TMP0 + i \notin RegsWritten(c[n])
  <2>1. CASE k \in DOMAIN held
    BY <1>1, <1>3, <2>1 DEF Intact
  <2>2. CASE k = Len(held) + 1
    <3>1. r.at = Len(c) /\ Len(c) > 0 /\ R_TMP0 + i \in RegsWritten(c[Len(c)])
      BY <1>1, <1>3, <2>2
    <3> QED
      BY <1>1, <1>2, <2>2, <3>1
  <2> QED
    BY <1>1, <2>1, <2>2
<1>4. Intact(more, c)
  BY <1>3 DEF Intact
<1> QED
  BY <1>4 DEF more

\* Between two functions nothing waits.
PendingInv ==
    /\ Intact(pending, code)
    /\ phase = "functions" /\ currentFunction = 0 => pending = <<>>

\* A sequence of one or two instructions is behind the code.
LEMMA EmittedLast ==
    ASSUME NEW c \in Seq(Emitted), NEW i \in Emitted, NEW j \in Emitted
    PROVE  /\ <<i>> \in Seq(Emitted) /\ DOMAIN <<i>> = {1} /\ <<i>>[1] = i
           /\ <<i, j>> \in Seq(Emitted) /\ DOMAIN <<i, j>> = {1, 2}
           /\ <<i, j>>[1] = i /\ <<i, j>>[2] = j
           /\ Len(c) \in Nat
           /\ c \o <<i>> \in Seq(Emitted) /\ Len(c \o <<i>>) = Len(c) + 1
           /\ (c \o <<i>>)[Len(c) + 1] = i
           /\ c \o <<i, j>> \in Seq(Emitted) /\ Len(c \o <<i, j>>) = Len(c) + 2
           /\ (c \o <<i, j>>)[Len(c) + 2] = j
<1>1. Len(<<i>>) = 1 /\ Len(<<i, j>>) = 2
  OBVIOUS
<1> QED
  BY <1>1, ConcatProperties

\* The instruction that computes a result and writes none of those that wait.
LEMMA ComputeKeepsIntact ==
    ASSUME NEW c \in Seq(Emitted), NEW i \in Emitted, NEW held \in Seq(Results),
           NEW r \in Results, Intact(held, c),
           \A k \in DOMAIN held : \A j \in TmpOf(held[k]) : R_TMP0 + j \notin RegsWritten(i),
           \A j \in TmpOf(r) : r.at = Len(c) + 1 /\ R_TMP0 + j \in RegsWritten(i)
    PROVE  Intact(Append(held, r), c \o <<i>>)
<1> DEFINE one == <<i>>
           now == c \o one
<1>1. /\ one \in Seq(Emitted) /\ DOMAIN one = {1} /\ one[1] = i
      /\ now \in Seq(Emitted) /\ Len(now) = Len(c) + 1 /\ now[Len(c) + 1] = i
      /\ Len(c) \in Nat
  BY EmittedLast
<1> HIDE DEF one
<1>2. \A k \in DOMAIN held : \A j \in TmpOf(held[k]) : \A m \in DOMAIN one :
          R_TMP0 + j \notin RegsWritten(one[m])
  BY <1>1
<1>3. Intact(held, now)
  BY <1>1, <1>2, EmitKeepsIntact
<1> HIDE DEF now
<1>4. \A j \in TmpOf(r) : /\ r.at = Len(now) /\ Len(now) > 0
                          /\ R_TMP0 + j \in RegsWritten(now[Len(now)])
  BY <1>1
<1>5. Intact(Append(held, r), now)
  BY <1>1, <1>3, <1>4, IntactWith
<1> QED
  BY <1>5 DEF now, one

LEMMA PendingInductive ==
    ASSUME "DIV" \notin Ops
    PROVE  Spec => []PendingInv
<1>1. Init => PendingInv
  BY DEF Init, PendingInv, Intact
<1>2. TypeOK /\ TempsBalanced /\ PendingInv /\ [Next]_vars => PendingInv'
  <2> SUFFICES ASSUME TypeOK, TempsBalanced, PendingInv, [Next]_vars PROVE PendingInv'
    OBVIOUS
  <2>1. /\ code \in Seq(Emitted) /\ Len(code) \in Nat
        /\ pending \in Seq(Results) /\ Len(pending) \in Nat
        /\ DOMAIN pending = 1 .. Len(pending)
        /\ Intact(pending, code)
        /\ Ops \subseteq {"ADD", "SUB", "MUL"} /\ Ops \subseteq Opcodes \ {"DIV"}
    BY PendingType, CodeGenAssumption DEF TypeOK, PendingInv, Arithmetic, Opcodes
  <2>2. \A k \in 1 .. Len(pending) : /\ pending[k] \in Results
                                    /\ pending[k].operand \in Operand
                                    /\ pending[k].type \in Types \cup {"none"}
    BY PendingType DEF Results
  <2>3. ASSUME NEW i \in Tmps, FirstFree(i), NEW k \in DOMAIN pending,
               NEW j \in TmpOf(pending[k])
        PROVE  j # i /\ j \in Tmps
    BY <2>3 DEF FirstFree, IsFree, TempsBalanced, Balanced, TmpOf
  <2>4. ASSUME pending' = <<>> PROVE PendingInv'
    BY <2>4 DEF PendingInv, Intact
  <2>5. ASSUME UNCHANGED <<code, pending, currentFunction>>,
               phase' = phase \/ phase' # "functions"
        PROVE  PendingInv'
    BY <2>5 DEF PendingInv
  <2>6. ASSUME Walking, UNCHANGED <<phase, currentFunction>>, Intact(pending', code')
        PROVE  PendingInv'
    BY <2>6 DEF PendingInv, Walking, InBody
  <2>7. CASE Abort
    BY <2>5, <2>7 DEF Abort
  <2>8. ASSUME NEW v \in Literals, CompileNumber(v) PROVE PendingInv'
    <3> DEFINE r == Result(Imm(v), "int32", Len(code))
    <3>1. r \in Results /\ TmpOf(r) = {}
      BY <2>1, CodeGenAssumption, OperandTypes1, TmpOfResult DEF Result, Results
    <3>2. pending' = Append(pending, r) /\ code' = code
      BY <2>8 DEF CompileNumber, Push
    <3> HIDE DEF r
    <3>3. Intact(pending', code')
      BY <2>1, <3>1, <3>2, IntactWith
    <3> QED
      BY <2>6, <2>8, <3>3 DEF CompileNumber
  <2>9. ASSUME NEW s \in Symbols, CompileVariable(s) PROVE PendingInv'
    <3>1. PICK i \in Tmps, o \in Offsets[s], t \in TypesOf[s] :
              /\ FirstFree(i)
              /\ code' = code \o <<Instr("LD", TmpReg(i), Ref(o))>>
              /\ pending' = Append(pending, Result(TmpReg(i), t, Len(code) + 1))
      BY <2>9 DEF CompileVariable, Emit, Push
    <3> DEFINE load == Instr("LD", TmpReg(i), Ref(o))
               r == Result(TmpReg(i), t, Len(code) + 1)
    <3>2. /\ load \in Emitted
          /\ \A j \in Tmps : R_TMP0 + j \in RegsWritten(load) <=> j = i
      <4>1. TmpReg(i) \in Operand /\ Ref(o) \in Operand /\ "LD" \in Opcodes \ {"DIV"}
        BY CodeGenAssumption, OperandTypes1 DEF Opcodes
      <4>2. load \in Emitted
        BY <4>1, EmittedType
      <4>3. \A j \in Tmps : TmpReg(i) = TmpReg(j) <=> i = j
        BY CodeGenAssumption DEF TmpReg, Reg, Tmps, R_TMP0
      <4> QED
        BY <4>1, <4>2, <4>3, TmpsWritten
    <3>3. r \in Results /\ TmpOf(r) = {i} /\ r.at = Len(code) + 1
      BY <2>1, CodeGenAssumption, OperandTypes1, TmpOfResult DEF Result, Results
    <3> HIDE DEF load, r
    <3>4. \A k \in DOMAIN pending : \A j \in TmpOf(pending[k]) :
              R_TMP0 + j \notin RegsWritten(load)
      BY <2>3, <3>1, <3>2
    <3>5. Intact(Append(pending, r), code \o <<load>>)
      BY <2>1, <3>2, <3>3, <3>4, ComputeKeepsIntact
    <3> QED
      BY <2>6, <2>9, <3>1, <3>5 DEF CompileVariable, load, r
  <2>10. ASSUME NEW op \in Ops, CompileBinop(op) PROVE PendingInv'
    <3> DEFINE n == Len(pending)
               L == pending[n - 1]
               front == SubSeq(pending, 1, n - 2)
               compute == Instr(op, L.operand, pending[n].operand)
               r == Result(L.operand, L.type, Len(code) + 1)
    <3>1. /\ n - 1 \in 1 .. Len(pending) /\ n \in 1 .. Len(pending)
          /\ n - 2 \in 0 .. Len(pending)
      BY <2>1, <2>10 DEF CompileBinop, Operands
    <3>2. pending' = Append(front, r) /\ code' = code \o <<compute>>
      BY <2>10 DEF CompileBinop, Emit, Last
    <3>3. /\ compute \in Emitted
          /\ \A i \in Tmps : R_TMP0 + i \in RegsWritten(compute) <=> i \in TmpOf(L)
      <4>1. L.operand \in Operand /\ pending[n].operand \in Operand
        BY <2>2, <3>1
      <4>2. compute \in Emitted
        BY <2>1, <4>1, EmittedType
      <4>3. \A i \in Tmps : R_TMP0 + i \in RegsWritten(compute) <=> L.operand = TmpReg(i)
        BY <2>1, <4>1, TmpsWritten
      <4> QED
        BY <4>2, <4>3 DEF TmpOf
    <3>4. r \in Results /\ TmpOf(r) = TmpOf(L) /\ r.at = Len(code) + 1
      BY <2>1, <2>2, <3>1 DEF Result, Results, TmpOf
    <3>5. /\ front \in Seq(Results) /\ DOMAIN front = 1 .. n - 2
          /\ \A k \in 1 .. n - 2 : front[k] = pending[k]
      BY <2>1, <3>1, PrefixOf
    <3>6. \A k \in DOMAIN front : \A i \in TmpOf(front[k]) :
              R_TMP0 + i \notin RegsWritten(compute)
      <4> SUFFICES ASSUME NEW k \in DOMAIN front, NEW i \in TmpOf(front[k])
                   PROVE  i \in Tmps /\ i \notin TmpOf(L)
        BY <3>3
      <4>1. k \in DOMAIN pending /\ k # n - 1 /\ front[k] = pending[k] /\ n - 1 \in DOMAIN pending
        BY <2>1, <3>1, <3>5
      <4>2. i \in Tmps
        BY DEF TmpOf
      <4> QED
        BY <4>1, <4>2 DEF TempsBalanced, Balanced
    <3>7. Intact(front, code)
      BY <2>1, <3>1, IntactInFront
    <3> HIDE DEF n, L, front, compute, r
    <3>8. \A i \in TmpOf(r) : R_TMP0 + i \in RegsWritten(compute)
      BY <3>3, <3>4 DEF TmpOf
    <3>9. Intact(Append(front, r), code \o <<compute>>)
      BY <2>1, <3>3, <3>4, <3>5, <3>6, <3>7, <3>8, ComputeKeepsIntact
    <3> QED
      BY <2>6, <2>10, <3>2, <3>9 DEF CompileBinop, Operands
  <2>11. ASSUME NEW op \in Ops, CompileBinopImmediate(op) PROVE PendingInv'
    <3> DEFINE n == Len(pending)
               front == SubSeq(pending, 1, n - 2)
    <3>1. /\ n - 1 \in 1 .. Len(pending) /\ n \in 1 .. Len(pending)
          /\ n - 2 \in 0 .. Len(pending)
      BY <2>1, <2>11 DEF CompileBinopImmediate, Operands
    <3>2. PICK i \in Tmps :
              /\ FirstFree(i)
              /\ code' = code \o <<Instr("MOV", TmpReg(i), Null),
                                   Instr(op, TmpReg(i), pending[n].operand)>>
              /\ pending' = Append(front, Result(TmpReg(i), pending[n - 1].type, Len(code) + 2))
      BY <2>11 DEF CompileBinopImmediate, Emit, Last
    <3> DEFINE move == Instr("MOV", TmpReg(i), Null)
               compute == Instr(op, TmpReg(i), pending[n].operand)
               r == Result(TmpReg(i), pending[n - 1].type, Len(code) + 2)
    <3>3. /\ move \in Emitted /\ compute \in Emitted
          /\ \A j \in Tmps : R_TMP0 + j \in RegsWritten(move) <=> j = i
          /\ \A j \in Tmps : R_TMP0 + j \in RegsWritten(compute) <=> j = i
      <4>1. /\ TmpReg(i) \in Operand /\ Null \in Operand /\ pending[n].operand \in Operand
            /\ "MOV" \in Opcodes \ {"DIV"}
        BY <2>2, <3>1, OperandTypes1 DEF Opcodes
      <4>2. move \in Emitted /\ compute \in Emitted
        BY <2>1, <4>1, EmittedType
      <4>3. \A j \in Tmps : TmpReg(i) = TmpReg(j) <=> i = j
        BY CodeGenAssumption DEF TmpReg, Reg, Tmps, R_TMP0
      <4>4. \A j \in Tmps : R_TMP0 + j \in RegsWritten(move) <=> j = i
        BY <4>1, <4>3, TmpsWritten
      <4>5. \A j \in Tmps : R_TMP0 + j \in RegsWritten(compute) <=> j = i
        BY <2>1, <4>1, <4>3, TmpsWritten
      <4> QED
        BY <4>2, <4>4, <4>5
    <3>4. r \in Results /\ TmpOf(r) = {i} /\ r.at = Len(code) + 2
      BY <2>1, <2>2, <3>1, OperandTypes1, TmpOfResult DEF Result, Results
    <3>5. /\ front \in Seq(Results)
          /\ \A k \in DOMAIN front : k \in DOMAIN pending /\ front[k] = pending[k]
      BY <2>1, <3>1, PrefixOf
    <3>6. \A k \in DOMAIN front : \A j \in TmpOf(front[k]) : j # i /\ j \in Tmps
      BY <2>3, <3>2, <3>5
    <3>7. Intact(front, code)
      BY <2>1, <3>1, IntactInFront
    <3> HIDE DEF n, front, move, compute, r
    <3>8. Intact(front, code \o <<move, compute>>)
      <4>1. \A k \in DOMAIN front : \A j \in TmpOf(front[k]) :
                \A m \in DOMAIN <<move, compute>> :
                    R_TMP0 + j \notin RegsWritten(<<move, compute>>[m])
        BY <3>3, <3>6
      <4> QED
        BY <2>1, <3>3, <3>7, <4>1, EmittedLast, EmitKeepsIntact
    <3>9. Intact(Append(front, r), code \o <<move, compute>>)
      <4>1. /\ code \o <<move, compute>> \in Seq(Emitted)
            /\ Len(code \o <<move, compute>>) = Len(code) + 2
            /\ (code \o <<move, compute>>)[Len(code) + 2] = compute
        BY <2>1, <3>3, EmittedLast
      <4>2. \A j \in TmpOf(r) : /\ r.at = Len(code) + 2 /\ Len(code) + 2 > 0
                                /\ R_TMP0 + j \in RegsWritten(compute)
        BY <2>1, <3>3, <3>4
      <4> DEFINE now == code \o <<move, compute>>
      <4>3. \A j \in TmpOf(r) : /\ r.at = Len(now) /\ Len(now) > 0
                                /\ R_TMP0 + j \in RegsWritten(now[Len(now)])
        BY <4>1, <4>2
      <4>4. now \in Seq(Emitted) /\ Intact(front, now)
        BY <3>8, <4>1
      <4> HIDE DEF now
      <4>5. Intact(Append(front, r), now)
        BY <3>4, <3>5, <4>3, <4>4, IntactWith
      <4> QED
        BY <4>5 DEF now
    <3> QED
      BY <2>6, <2>11, <3>2, <3>9 DEF CompileBinopImmediate, Operands, move, compute, r
  <2>12. ASSUME NEW f \in Fns, NEW n \in 0 .. MaxArgs, CompileCall(f, n) PROVE PendingInv'
    <3> DEFINE rest == Len(pending) - n
               front == SubSeq(pending, 1, rest)
               r == Result(Reg(R_FNR), "none", Len(code) + 1)
               call == Instr("CALL", Ref(entry_ip[f]), Null)
    <3>1. rest \in 0 .. Len(pending)
      BY <2>1, <2>12, CodeGenAssumption DEF CompileCall
    <3>2. pending' = Append(front, r) /\ code' = code \o <<call>>
      BY <2>12 DEF CompileCall, Emit
    <3>3. r \in Results /\ TmpOf(r) = {}
      BY <2>1, OperandTypes1, TmpOfResult DEF Result, Results
    <3>4. call \in Emitted /\ RegsWritten(call) = {}
      <4>1. entry_ip[f] \in Nat \cup {Unset}
        BY DEF TypeOK
      <4> QED
        BY <4>1, OperandTypes1
           DEF Instr, Emitted, Ref, Opcodes, OperandTypes, RegsWritten, IsReg, Arithmetic
    <3>5. front \in Seq(Results) /\ Intact(front, code)
      BY <2>1, <3>1, PrefixOf, IntactInFront
    <3> HIDE DEF rest, front, r, call
    <3>6. Intact(Append(front, r), code \o <<call>>)
      BY <2>1, <3>3, <3>4, <3>5, ComputeKeepsIntact
    <3> QED
      BY <2>6, <2>12, <3>2, <3>6 DEF CompileCall
  <2>13. ASSUME NEW x \in Symbols, CompileDeclaration(x) PROVE PendingInv'
    BY <2>5, <2>13 DEF CompileDeclaration
  <2>14. ASSUME NEW x \in Symbols, CompileInitialisation(x) PROVE PendingInv'
    BY <2>4, <2>14 DEF CompileInitialisation, ConsumeLast
  <2>15. ASSUME NEW s \in Symbols, CompileAssignment(s) PROVE PendingInv'
    BY <2>4, <2>15 DEF CompileAssignment, ConsumeLast
  <2>16. CASE CompileExprStatement
    BY <2>4, <2>16 DEF CompileExprStatement
  <2>17. CASE CompileReturnValue
    BY <2>4, <2>17 DEF CompileReturnValue, ConsumeLast
  <2>18. CASE CompileReturnVoid
    BY <2>4, <2>18 DEF CompileReturnVoid
  <2>19. ASSUME NEW f \in Fns, BeginFunction(f) PROVE PendingInv'
    BY <2>4, <2>19 DEF BeginFunction, PendingInv
  <2>20. CASE EndFunction
    BY <2>4, <2>20 DEF EndFunction
  <2>21. CASE StartGlobal
    BY <2>4, <2>21 DEF StartGlobal, PendingInv
  <2>22. CASE Finish
    BY <2>4, <2>22 DEF Finish
  <2>23. CASE UNCHANGED vars
    BY <2>5, <2>23 DEF vars
  <2> QED
    BY <2>7, <2>8, <2>9, <2>10, <2>11, <2>12, <2>13, <2>14, <2>15, <2>16, <2>17,
       <2>18, <2>19, <2>20, <2>21, <2>22, <2>23
       DEF Next, VariableOutOfTemps, BinopOutOfTemps, RejectReturn, RejectFunction
<1>3. TypeOK /\ TempsAccounted => TempsBalanced
  BY BalancedIsAccounted DEF TempsBalanced
<1> QED
  BY <1>1, <1>2, <1>3, TypeCorrect, TempsAreAccounted, PTL DEF Spec

\* Without division, what compileNode has computed for an outer expression is
\* still in its register when that expression's instruction is emitted,
\* however deep the operands and calls between are nested.
THEOREM PendingStaysIntact ==
    ASSUME "DIV" \notin Ops
    PROVE  Spec => []PendingIntact
<1>1. PendingInv => PendingIntact
  BY DEF PendingInv, Intact, PendingIntact
<1> QED
  BY <1>1, PendingInductive, PTL
=============================================================================
