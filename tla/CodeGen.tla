------------------------------- MODULE CodeGen -------------------------------
(***************************************************************************)
(* The code generator (src/compiler/compile.cpp, functions.cpp,            *)
(* temp_allocator.cpp and CompilerInstance::compile).                      *)
(*                                                                         *)
(* compileNode is a post-order walk of the syntax tree, so a compilation   *)
(* is a sequence of steps, one per node, over the results that wait for    *)
(* their parent node: `pending' is the C++ stack of those results.  The    *)
(* source program is not given in advance: a step is possible for every    *)
(* node that the parser could have put there, so the behaviours are the    *)
(* compilations of all programs within the bounds.                         *)
(*                                                                         *)
(* An exception of the walk is caught by nobody (compile() only guards the *)
(* lexer and the parser): the process dies and writes no output, which is  *)
(* the phase "aborted".                                                    *)
(***************************************************************************)
EXTENDS Bytecode, Sequences

CONSTANTS
    NSymbols,    \* symbols of the source program, numbered as declared
    Fns,         \* those that are functions
    Params,      \* those that are parameters: no node of the tree declares them
    Owner,       \* the function in whose own scope a symbol is, 0 if global
    Types,       \* data types, with "int32" and "void" among them
    Offsets,     \* stackOffset of each symbol, as a set: see below
    TypesOf,     \* type of a variable, return type of a function, as a set
    Literals,    \* number literals
    Ops,         \* opcodes of the binary operators in use
    NTmp,        \* temporary registers; 4 in the code
    MaxArgs,     \* bound: arguments of a call
    MaxPending,  \* bound: results waiting for their parents
    MaxCode      \* bound: instructions emitted

Symbols == 1 .. NSymbols

(***************************************************************************)
(* A symbol of the global scope has one offset and one type.  A symbol of  *)
(* a function's own scope has been freed when the parser left the scope    *)
(* (SymbolTable::leave), while the tree still points to it: reading it is  *)
(* undefined and its sets hold whatever the freed memory may hold by then. *)
(* Parameters are declared before the parser enters the function's scope,  *)
(* so their owner is 0.                                                    *)
(***************************************************************************)
ASSUME CodeGenAssumption ==
    /\ NSymbols \in Nat
    /\ Fns \subseteq Symbols
    /\ Params \subseteq Symbols \ Fns
    /\ Owner \in [Symbols -> Fns \cup {0}]
    /\ \A s \in Fns \cup Params : Owner[s] = 0
    /\ {"int32", "void"} \subseteq Types
    /\ "none" \notin Types
    /\ Offsets \in [Symbols -> SUBSET Nat]
    /\ TypesOf \in [Symbols -> SUBSET Types]
    /\ Literals \subseteq Nat
    /\ Ops \subseteq Arithmetic
    /\ NTmp \in 1 .. (R_FNR - R_TMP0)
    /\ MaxArgs \in Nat
    /\ MaxPending \in Nat
    /\ MaxCode \in Nat

VARIABLES
    phase,            \* "functions", "global", "done" or "aborted"
    code,             \* ctx.instructions
    tmp_used,         \* which temporary registers are allocated
    pending,          \* results of the nodes whose parent is not compiled yet
    currentFunction,  \* the function being compiled, or 0
    termRet,          \* the last statement of its body is a return
    entry_ip,         \* entry of each function, Unset before it is compiled
    declared,         \* history: symbols whose declaration has been compiled
    lost              \* history: temporaries whose result was thrown away

vars == <<phase, code, tmp_used, pending, currentFunction, termRet, entry_ip,
          declared, lost>>

Tmps == 0 .. NTmp - 1
TmpReg(i) == Reg(R_TMP0 + i)

\* SIZE_MAX, stored in 32 bits.
Unset == -1

\* A pending result: its operand, the type getType gives its node ("none" for
\* a call) and how much code there was when it was computed.
Result(operand, type, at) == [operand |-> operand, type |-> type, at |-> at]

Results == [operand : Operand, type : Types \cup {"none"}, at : Nat]

\* Only a call of a function not compiled yet would have an unset operand.
Emitted == [opcode : Opcodes, a : [type : OperandTypes, data : Nat \cup {Unset}], b : Operand]

TypeOK ==
    /\ phase \in {"functions", "global", "done", "aborted"}
    /\ code \in Seq(Emitted)
    /\ tmp_used \in [Tmps -> BOOLEAN]
    /\ pending \in Seq(Results)
    /\ currentFunction \in Fns \cup {0}
    /\ termRet \in BOOLEAN
    /\ entry_ip \in [Fns -> Nat \cup {Unset}]
    /\ declared \in SUBSET Symbols
    /\ lost \in SUBSET Tmps

\* Mutant: the vector of temporaries is one short.
InitShort ==
    /\ phase = "functions"
    /\ code = <<Instr("JMP", Null, Null)>>
    /\ tmp_used = [i \in 0 .. NTmp - 2 |-> FALSE]
    /\ pending = <<>>
    /\ currentFunction = 0
    /\ termRet = FALSE
    /\ entry_ip = [f \in Fns |-> Unset]
    /\ declared = {}
    /\ lost = {}

Init ==
    /\ phase = "functions"
    /\ code = <<Instr("JMP", Null, Null)>>
    /\ tmp_used = [i \in Tmps |-> FALSE]
    /\ pending = <<>>
    /\ currentFunction = 0
    /\ termRet = FALSE
    /\ entry_ip = [f \in Fns |-> Unset]
    /\ declared = {}
    /\ lost = {}

-----------------------------------------------------------------------------
(* The allocator of temporary registers. *)

IsFree(i) == ~tmp_used[i]

\* allocTmpReg takes the first free one, and throws when there is none.
FirstFree(i) == i \in Tmps /\ IsFree(i) /\ \A j \in 0 .. i - 1 : ~IsFree(j)
NoneFree == \A i \in Tmps : ~IsFree(i)

\* The temporary a result is in, as a set of at most one.
TmpOf(r) == {i \in Tmps : r.operand = TmpReg(i)}

\* Every node that consumes a result frees it only when it is a temporary.
Without(used, r) == [i \in Tmps |-> used[i] /\ i \notin TmpOf(r)]

-----------------------------------------------------------------------------
(* Where a node may be compiled at all, and the bounds of the model. *)

InBody == phase = "functions" /\ currentFunction # 0
Walking == InBody \/ phase = "global"

(***************************************************************************)
(* What the parser's lookup finds.  Declarations come in their order; the  *)
(* global code may name what is declared so far or being declared, a body  *)
(* its own symbols likewise, the globals before its function, the function *)
(* and its parameter.                                                      *)
(***************************************************************************)
HasDeclaration(s) == s \notin Fns \cup Params /\ Owner[s] = currentFunction

Undeclared == {s \in Symbols \ declared : HasDeclaration(s)}

DeclaredOrNext(s) == \A d \in Undeclared : s <= d

Mentionable(s) ==
    \/ Owner[s] = currentFunction /\ DeclaredOrNext(s)
    \/ /\ Owner[s] = 0 /\ currentFunction # 0
       /\ s <= currentFunction \/ (s \in Params /\ s = currentFunction + 1)

Room(n) == Len(code) + n <= MaxCode

Push(r) == Len(pending) < MaxPending /\ pending' = Append(pending, r)

Last == pending[Len(pending)]

Abort ==
    /\ phase' = "aborted"
    /\ UNCHANGED <<code, tmp_used, pending, currentFunction, termRet, entry_ip, declared, lost>>

Emit(instrs) == code' = code \o instrs

-----------------------------------------------------------------------------
(* Expressions. *)

CompileNumber(v) ==
    /\ Walking
    /\ Push(Result(Imm(v), "int32", Len(code)))
    /\ UNCHANGED <<phase, code, tmp_used, currentFunction, termRet, entry_ip, declared, lost>>

\* A function's name is a VARIABLE node as well when it is not called: the
\* parser looks the name up and does not ask for the kind of its symbol.
CompileVariable(s) ==
    /\ Walking
    /\ Mentionable(s)
    /\ Room(1)
    /\ \E i \in Tmps, o \in Offsets[s], t \in TypesOf[s] :
        /\ FirstFree(i)
        /\ tmp_used' = [tmp_used EXCEPT ![i] = TRUE]
        /\ Emit(<<Instr("LD", TmpReg(i), Ref(o))>>)
        /\ Push(Result(TmpReg(i), t, Len(code) + 1))
    /\ UNCHANGED <<phase, currentFunction, termRet, entry_ip, declared, lost>>

VariableOutOfTemps ==
    /\ Walking
    /\ Len(pending) < MaxPending
    /\ NoneFree
    /\ Abort

\* The parser rejects an operand without a type, that is, a call.
Operands ==
    /\ Walking
    /\ Len(pending) >= 2
    /\ pending[Len(pending) - 1].type # "none"
    /\ Last.type # "none"

\* Mutant: the temporary of the left operand is freed, not that of the right.
BinopFreeingLeft(op) ==
    /\ Operands
    /\ Room(1)
    /\ LET L == pending[Len(pending) - 1]
           R == Last
       IN  /\ IsReg(L.operand) \/ IsReg(R.operand)
           /\ Emit(<<Instr(op, L.operand, R.operand)>>)
           /\ tmp_used' = Without(tmp_used, L)
           /\ pending' = Append(SubSeq(pending, 1, Len(pending) - 2),
                                Result(L.operand, L.type, Len(code) + 1))
    /\ UNCHANGED <<phase, currentFunction, termRet, entry_ip, declared, lost>>

\* Mutant: the operands are swapped.
BinopSwapped(op) ==
    /\ Operands
    /\ Room(1)
    /\ LET L == pending[Len(pending) - 1]
           R == Last
       IN  /\ IsReg(L.operand) \/ IsReg(R.operand)
           /\ Emit(<<Instr(op, R.operand, L.operand)>>)
           /\ tmp_used' = Without(tmp_used, L)
           /\ pending' = Append(SubSeq(pending, 1, Len(pending) - 2),
                                Result(R.operand, L.type, Len(code) + 1))
    /\ UNCHANGED <<phase, currentFunction, termRet, entry_ip, declared, lost>>

\* At least one operand is in a register: the left operand is the destination
\* whatever it is, and a temporary on the right is freed.
CompileBinop(op) ==
    /\ Operands
    /\ Room(1)
    /\ LET L == pending[Len(pending) - 1]
           R == Last
       IN  /\ IsReg(L.operand) \/ IsReg(R.operand)
           /\ Emit(<<Instr(op, L.operand, R.operand)>>)
           /\ tmp_used' = Without(tmp_used, R)
           /\ pending' = Append(SubSeq(pending, 1, Len(pending) - 2),
                                Result(L.operand, L.type, Len(code) + 1))
    /\ UNCHANGED <<phase, currentFunction, termRet, entry_ip, declared, lost>>

\* Mutant: the temporary is not marked as used.
BinopImmediateUnallocated(op) ==
    /\ Operands
    /\ Room(2)
    /\ LET L == pending[Len(pending) - 1]
           R == Last
       IN  /\ ~IsReg(L.operand) /\ ~IsReg(R.operand)
           /\ \E i \in Tmps :
                /\ FirstFree(i)
                /\ Emit(<<Instr("MOV", TmpReg(i), Null),
                          Instr(op, TmpReg(i), R.operand)>>)
                /\ pending' = Append(SubSeq(pending, 1, Len(pending) - 2),
                                     Result(TmpReg(i), L.type, Len(code) + 2))
    /\ UNCHANGED <<phase, tmp_used, currentFunction, termRet, entry_ip, declared, lost>>

\* Neither is in a register: a temporary, set from the null operand, takes the
\* place of the left operand.
CompileBinopImmediate(op) ==
    /\ Operands
    /\ Room(2)
    /\ LET L == pending[Len(pending) - 1]
           R == Last
       IN  /\ ~IsReg(L.operand) /\ ~IsReg(R.operand)
           /\ \E i \in Tmps :
                /\ FirstFree(i)
                /\ tmp_used' = [tmp_used EXCEPT ![i] = TRUE]
                /\ Emit(<<Instr("MOV", TmpReg(i), Null),
                          Instr(op, TmpReg(i), R.operand)>>)
                /\ pending' = Append(SubSeq(pending, 1, Len(pending) - 2),
                                     Result(TmpReg(i), L.type, Len(code) + 2))
    /\ UNCHANGED <<phase, currentFunction, termRet, entry_ip, declared, lost>>

BinopOutOfTemps ==
    /\ Operands
    /\ ~IsReg(pending[Len(pending) - 1].operand) /\ ~IsReg(Last.operand)
    /\ NoneFree
    /\ Abort

\* The results of the n arguments are dropped; their temporaries stay in use.
CompileCall(f, n) ==
    /\ Walking
    /\ Mentionable(f)
    /\ Room(1)
    /\ n <= Len(pending)
    /\ Len(pending) - n < MaxPending
    /\ LET rest == Len(pending) - n
       IN  /\ pending' = Append(SubSeq(pending, 1, rest),
                                Result(Reg(R_FNR), "none", Len(code) + 1))
           /\ lost' = lost \cup UNION {TmpOf(pending[k]) : k \in rest + 1 .. Len(pending)}
    /\ Emit(<<Instr("CALL", Ref(entry_ip[f]), Null)>>)
    /\ UNCHANGED <<phase, tmp_used, currentFunction, termRet, entry_ip, declared>>

-----------------------------------------------------------------------------
(* Statements. *)

\* The expression of the statement is all that is pending.
ConsumeLast ==
    /\ Len(pending) = 1
    /\ pending' = <<>>
    /\ tmp_used' = Without(tmp_used, Last)

CompileDeclaration(x) ==
    /\ Walking
    /\ x \in Undeclared /\ DeclaredOrNext(x)
    /\ pending = <<>>
    /\ declared' = declared \cup {x}
    /\ termRet' = FALSE
    /\ UNCHANGED <<phase, code, tmp_used, pending, currentFunction, entry_ip, lost>>

\* Mutant: the operands of the store are swapped.
InitialisationSwapped(x) ==
    /\ Walking
    /\ x \in Undeclared /\ DeclaredOrNext(x)
    /\ Room(1)
    /\ ConsumeLast
    /\ \E o \in Offsets[x] : Emit(<<Instr("ST", Last.operand, Ref(o))>>)
    /\ declared' = declared \cup {x}
    /\ termRet' = FALSE
    /\ UNCHANGED <<phase, currentFunction, entry_ip, lost>>

CompileInitialisation(x) ==
    /\ Walking
    /\ x \in Undeclared /\ DeclaredOrNext(x)
    /\ Room(1)
    /\ ConsumeLast
    /\ \E o \in Offsets[x] : Emit(<<Instr("ST", Ref(o), Last.operand)>>)
    /\ declared' = declared \cup {x}
    /\ termRet' = FALSE
    /\ UNCHANGED <<phase, currentFunction, entry_ip, lost>>

\* The parser knows assignments in function bodies only.  A call on the right
\* has the target as its target_symbol and stores its result there once more.
CompileAssignment(s) ==
    /\ InBody
    /\ Mentionable(s)
    /\ Room(2)
    /\ ConsumeLast
    /\ \E o \in Offsets[s] :
        LET store == Instr("ST", Ref(o), Last.operand)
        IN  Emit(IF Last.type = "none"
                 THEN <<Instr("MOV", Ref(o), Reg(R_FNR)), store>>
                 ELSE <<store>>)
    /\ termRet' = FALSE
    /\ UNCHANGED <<phase, currentFunction, entry_ip, declared, lost>>

\* An expression on its own: its result is dropped and stays in its temporary.
CompileExprStatement ==
    /\ Walking
    /\ Len(pending) = 1
    /\ pending' = <<>>
    /\ lost' = lost \cup TmpOf(Last)
    /\ termRet' = FALSE
    /\ UNCHANGED <<phase, code, tmp_used, currentFunction, entry_ip, declared>>

CompileReturnValue ==
    /\ InBody
    /\ Room(1)
    /\ ConsumeLast
    /\ Last.type \in TypesOf[currentFunction] \ {"void"}
    /\ Emit(<<Instr("RET", Last.operand, Null)>>)
    /\ termRet' = TRUE
    /\ UNCHANGED <<phase, currentFunction, entry_ip, declared, lost>>

CompileReturnVoid ==
    /\ InBody
    /\ Room(1)
    /\ pending = <<>>
    /\ "void" \in TypesOf[currentFunction]
    /\ Emit(<<Instr("RET", Null, Null)>>)
    /\ termRet' = TRUE
    /\ UNCHANGED <<phase, tmp_used, pending, currentFunction, entry_ip, declared, lost>>

\* A value of another type, a value in a void function, or none where one is due.
\* The code asks for the type before it compiles the value; either way the
\* compilation ends here and leaves nothing.
RejectReturn ==
    /\ InBody
    /\ \/ Len(pending) = 1 /\ Last.type \notin TypesOf[currentFunction] \ {"void"}
       \/ pending = <<>> /\ "void" \notin TypesOf[currentFunction]
    /\ Abort

-----------------------------------------------------------------------------
(* compileFunction and compile(). *)

\* Mutant: functions are compiled in any order.
BeginAnyFunction(f) ==
    /\ phase = "functions"
    /\ currentFunction = 0
    /\ entry_ip[f] = Unset
    /\ entry_ip' = [entry_ip EXCEPT ![f] = Len(code)]
    /\ currentFunction' = f
    /\ termRet' = FALSE
    /\ UNCHANGED <<phase, code, tmp_used, pending, declared, lost>>

\* Functions are compiled in the order of their declarations.  The scope that
\* compileFunction enters is left by nobody and asked for nothing any more.
BeginFunction(f) ==
    /\ phase = "functions"
    /\ currentFunction = 0
    /\ entry_ip[f] = Unset
    /\ \A g \in Fns : g < f => entry_ip[g] # Unset
    /\ entry_ip' = [entry_ip EXCEPT ![f] = Len(code)]
    /\ currentFunction' = f
    /\ termRet' = FALSE
    /\ UNCHANGED <<phase, code, tmp_used, pending, declared, lost>>

EndFunction ==
    /\ InBody
    /\ pending = <<>>
    /\ Undeclared = {}
    /\ termRet \/ "void" \in TypesOf[currentFunction]
    /\ currentFunction' = 0
    /\ UNCHANGED <<phase, code, tmp_used, pending, termRet, entry_ip, declared, lost>>

RejectFunction ==
    /\ InBody
    /\ pending = <<>>
    /\ Undeclared = {}
    /\ ~termRet
    /\ "void" \notin TypesOf[currentFunction]
    /\ Abort

\* Mutant: the placeholder jump gets the index of the first function.
StartAtFunctions ==
    /\ phase = "functions"
    /\ currentFunction = 0
    /\ \A f \in Fns : entry_ip[f] # Unset
    /\ phase' = "global"
    /\ code' = [code EXCEPT ![1].a = Imm(1)]
    /\ UNCHANGED <<tmp_used, pending, currentFunction, termRet, entry_ip, declared, lost>>

\* The placeholder jump gets the index of the first global instruction.
StartGlobal ==
    /\ phase = "functions"
    /\ currentFunction = 0
    /\ \A f \in Fns : entry_ip[f] # Unset
    /\ phase' = "global"
    /\ code' = [code EXCEPT ![1].a = Imm(Len(code))]
    /\ UNCHANGED <<tmp_used, pending, currentFunction, termRet, entry_ip, declared, lost>>

Finish ==
    /\ phase = "global"
    /\ pending = <<>>
    /\ Undeclared = {}
    /\ Emit(<<Instr("HALT", Null, Null)>>)
    /\ phase' = "done"
    /\ UNCHANGED <<tmp_used, pending, currentFunction, termRet, entry_ip, declared, lost>>

Next ==
    \/ \E v \in Literals : CompileNumber(v)
    \/ \E s \in Symbols : CompileVariable(s)
    \/ VariableOutOfTemps
    \/ \E op \in Ops : CompileBinop(op)
    \/ \E op \in Ops : CompileBinopImmediate(op)
    \/ BinopOutOfTemps
    \/ \E f \in Fns, n \in 0 .. MaxArgs : CompileCall(f, n)
    \/ \E x \in Symbols : CompileDeclaration(x)
    \/ \E x \in Symbols : CompileInitialisation(x)
    \/ \E s \in Symbols : CompileAssignment(s)
    \/ CompileExprStatement
    \/ CompileReturnValue
    \/ CompileReturnVoid
    \/ RejectReturn
    \/ \E f \in Fns : BeginFunction(f)
    \/ EndFunction
    \/ RejectFunction
    \/ StartGlobal
    \/ Finish

Spec == Init /\ [][Next]_vars

-----------------------------------------------------------------------------
(***************************************************************************)
(* The temporaries in use are those that pending results are in and those  *)
(* whose result was thrown away, and no temporary is held twice: a node    *)
(* never gets a register that an outer expression still needs, and none is *)
(* freed before its value is consumed (allocTmpReg, freeTmpReg and their   *)
(* callers in compileNode).                                                *)
(***************************************************************************)
TempsAccounted ==
    /\ {i \in Tmps : tmp_used[i]} = lost \cup UNION {TmpOf(pending[k]) : k \in DOMAIN pending}
    /\ \A k \in DOMAIN pending : TmpOf(pending[k]) \cap lost = {}
    /\ \A k, m \in DOMAIN pending : k # m => TmpOf(pending[k]) \cap TmpOf(pending[m]) = {}

\* Temporaries that are in use although no pending result is in them.
Stray == {i \in Tmps : tmp_used[i] /\ \A k \in DOMAIN pending : i \notin TmpOf(pending[k])}

(***************************************************************************)
(* A node that has been compiled keeps the temporary of its result and     *)
(* gives back all others that were allocated for it, as the comment at     *)
(* compile.cpp:248 has it.  It does not hold of a call: every case of      *)
(* compileNode returns before it gets to that place.                       *)
(***************************************************************************)
OnlyResultKept == [][pending' # <<>> => Stray' \subseteq Stray]_vars

(***************************************************************************)
(* The value of a pending result is still in its temporary: the code       *)
(* emitted since the result was computed writes other registers only, and  *)
(* the instruction that computed it wrote that one.  This is what makes    *)
(* the walk's operand available when its parent's instruction runs.        *)
(***************************************************************************)
PendingIntact ==
    \A k \in DOMAIN pending : \A i \in TmpOf(pending[k]) :
        LET r == pending[k]
        IN  /\ R_TMP0 + i \in RegsWritten(code[r.at])
            /\ \A c \in r.at + 1 .. Len(code) : R_TMP0 + i \notin RegsWritten(code[c])

(***************************************************************************)
(* Every call refers to the entry of a function already laid out, which is *)
(* never the jump at index 0; compile() compiles functions before global   *)
(* code and sets entry_ip before the body for that.                        *)
(***************************************************************************)
CallsResolve ==
    \A c \in DOMAIN code : code[c].opcode = "CALL" =>
        \E f \in Fns : code[c].a = Ref(entry_ip[f]) /\ entry_ip[f] \in 1 .. c - 1

(***************************************************************************)
(* The patched jump lands behind all functions: their entries are not      *)
(* behind its target and no return is, so every return is in a function    *)
(* and the jump skips them all.                                            *)
(***************************************************************************)
StartSkipsFunctions ==
    phase \in {"global", "done"} =>
        LET start == code[1].a.data
        IN  /\ \A f \in Fns : entry_ip[f] \in 1 .. start
            /\ \A c \in start + 1 .. Len(code) : code[c].opcode # "RET"
=============================================================================
