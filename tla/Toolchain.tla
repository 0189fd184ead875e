------------------------------- MODULE Toolchain -------------------------------
(***************************************************************************)
(* The compiler and the VM together: a program is compiled, its code is    *)
(* loaded, and the VM runs it.  The compiler takes the steps of CodeGen    *)
(* and the VM those of VM; what passes between them is the code.           *)
(*                                                                         *)
(* `source' and `exprs' record the program that the compiler's steps stand *)
(* for, so that its meaning, SourceSemantics, can be compared with what    *)
(* the VM does.  The constants Ops, TwoImmediates, ImmediateLeft and       *)
(* CallResults say which programs are written.                             *)
(***************************************************************************)
EXTENDS CodeGen, VM, FiniteSets

CONSTANTS
    Modulus,         \* values of the source's type
    TwoImmediates,   \* phases in which both operands may be immediates
    ImmediateLeft,   \* phases in which the left one alone may be
    CallResults      \* phases in which a variable may get a call's result

ASSUME ToolchainAssumption ==
    /\ TwoImmediates \subseteq {"functions", "global"}
    /\ ImmediateLeft \subseteq {"functions", "global"}
    /\ CallResults \subseteq {"functions", "global"}
    /\ Modulus \in Nat \ {0}
    /\ Word % Modulus = 0

VARIABLES
    exprs,           \* the expressions of the pending results, in post-order
    source           \* the global statements compiled so far

toolVars == <<vars, vmVars, exprs, source>>

Loaded == program # <<>>

Initialised == {source[k].target : k \in DOMAIN source}

-----------------------------------------------------------------------------
ToolInit ==
    /\ Init
    /\ program = <<>> /\ Boot
    /\ exprs = <<>>
    /\ source = <<>>

Node(kind, arg) == [kind |-> kind, arg |-> arg]

Leaf(kind, arg) == exprs' = Append(exprs, <<Node(kind, arg)>>) /\ UNCHANGED source

Number == \E v \in Literals : CompileNumber(v) /\ Leaf("NUMBER", v)

\* The global code reads only variables that have been given a value.
Variable ==
    \E s \in Symbols :
        /\ phase = "global" => s \in Initialised
        /\ CompileVariable(s)
        /\ Leaf("VARIABLE", s)

Binop ==
    \E op \in Ops :
        /\ \/ /\ CompileBinop(op)
              /\ IsReg(pending[Len(pending) - 1].operand) \/ phase \in ImmediateLeft
           \/ CompileBinopImmediate(op) /\ phase \in TwoImmediates
        /\ LET n == Len(exprs)
           IN  exprs' = Append(SubSeq(exprs, 1, n - 2),
                               exprs[n - 1] \o exprs[n] \o <<Node("BINOP", op)>>)
        /\ UNCHANGED source

Call == \E f \in Fns : CompileCall(f, 0) /\ Leaf("CALL", f)

MayAssign == Last.type = "none" => phase \in CallResults

\* A statement of the global code is part of the source; one of a body is not,
\* because it runs only in a call.
Initialisation ==
    \E x \in Symbols :
        /\ CompileInitialisation(x)
        /\ MayAssign
        /\ exprs' = <<>>
        /\ source' = IF phase = "global"
                     THEN Append(source, [target |-> x, expr |-> exprs[1]])
                     ELSE source

NoEffect ==
    /\ \/ \E x \in Symbols : CompileDeclaration(x)
       \/ \E x \in Symbols : CompileAssignment(x) /\ MayAssign
       \/ CompileExprStatement
       \/ CompileReturnValue
       \/ CompileReturnVoid
    /\ exprs' = <<>>
    /\ UNCHANGED source

Layout ==
    /\ \/ \E f \in Fns : BeginFunction(f)
       \/ EndFunction
       \/ StartGlobal
       \/ Finish
    /\ UNCHANGED <<exprs, source>>

Fail ==
    /\ \/ VariableOutOfTemps
       \/ BinopOutOfTemps
       \/ RejectReturn
       \/ RejectFunction
    /\ UNCHANGED <<exprs, source>>

Compile ==
    /\ \/ Number
       \/ Variable
       \/ Binop
       \/ Call
       \/ Initialisation
       \/ NoEffect
       \/ Layout
       \/ Fail
    /\ UNCHANGED vmVars

\* The file the compiler wrote holds the code as it is.
Load ==
    /\ phase = "done"
    /\ ~Loaded
    /\ program' = code
    /\ UNCHANGED <<vars, regs, heap, stack, stdin, stdout, status, exprs, source>>

Run ==
    /\ Loaded
    /\ VMNext
    /\ UNCHANGED <<vars, exprs, source>>

ToolNext == Compile \/ Load \/ Run

\* The VM runs by itself once it is started, as in VM.
ToolSpec == ToolInit /\ [][ToolNext]_toolVars /\ WF_toolVars(Run)

-----------------------------------------------------------------------------
\* The index at which the global code starts, by the jump to it.
start == program[1].a.data

\* Every store of the global code ends one statement.
Stores == {c \in DOMAIN program : c > start /\ program[c].opcode = "ST"}

NextStatement == IF Loaded THEN 1 + Cardinality({c \in Stores : c <= pc}) ELSE 0

\* A variable is the low bytes of the word at its offset.
VariableAt(x) == WordAt(heap, CHOOSE o \in Offsets[x] : TRUE) % Modulus

Environment ==
    [x \in {source[k].target : k \in DOMAIN source \cap 1 .. NextStatement - 1} |->
        VariableAt(x)]

Source == INSTANCE SourceSemantics WITH next <- NextStatement, env <- Environment

(***************************************************************************)
(* The VM, running what the compiler made of a program, gives every        *)
(* variable the value that the program says, in the same order: the        *)
(* compiled program implements the source program.                         *)
(***************************************************************************)
Meaning == Source!Spec

(***************************************************************************)
(* Once it runs, a compiled program gets to the end of its statements: the *)
(* VM accepts all that the compiler emits, and no instruction stops it.    *)
(***************************************************************************)
Completes == Source!Completes

(***************************************************************************)
(* A variable initialised with a call has the returned value afterwards:   *)
(* `program[c]' calls the function at e, whose first return is that of a   *)
(* literal.                                                                *)
(***************************************************************************)
CallsReturn ==
    status = "finished" =>
        \A c \in start + 1 .. Len(program) - 1 :
            (program[c].opcode = "CALL" /\ program[c + 1].opcode = "ST") =>
                LET e == program[c].a.data
                    r == CHOOSE k \in e + 1 .. start :
                            /\ program[k].opcode = "RET"
                            /\ \A m \in e + 1 .. k - 1 : program[m].opcode # "RET"
                IN  program[r].a.type = "OP_IMMEDIATE" =>
                        WordAt(heap, program[c + 1].a.data) % Modulus = program[r].a.data
=============================================================================
