-------------------------------- MODULE VMPair --------------------------------
(***************************************************************************)
(* Two machines run one program on one input, step by step together.  They *)
(* differ only in what malloc left in their heaps: heap_init writes the    *)
(* block header and nothing else.  Determinism of the VM is that no        *)
(* program can tell them apart.                                            *)
(***************************************************************************)
EXTENDS Bytecode, Sequences

CONSTANTS Base, WordBytes, ImmBytes, HeapSize, HeaderSize, StackSize,
          StackAddress, Programs, HeapContents, Inputs

VARIABLES program,
          regsA, heapA, stackA, stdinA, stdoutA, statusA,
          regsB, heapB, stackB, stdinB, stdoutB, statusB

varsA == <<regsA, heapA, stackA, stdinA, stdoutA, statusA>>
varsB == <<regsB, heapB, stackB, stdinB, stdoutB, statusB>>

A == INSTANCE VM WITH regs <- regsA, heap <- heapA, stack <- stackA,
                      stdin <- stdinA, stdout <- stdoutA, status <- statusA
B == INSTANCE VM WITH regs <- regsB, heap <- heapB, stack <- stackB,
                      stdin <- stdinB, stdout <- stdoutB, status <- statusB

ASSUME PairAssumption == A!VMAssumption /\ A!PowerAssumption

Init == A!VMInit /\ B!VMInit /\ stdinA = stdinB

Next == A!VMNext /\ B!VMNext

Spec == Init /\ [][Next]_<<program, varsA, varsB>>

\* The words of the heap that an instruction reads and writes.
Reads(i) ==
    {o \in {i.b} \cup (IF i.opcode \in Arithmetic \cup {"PUTC"} THEN {i.a} ELSE {}) : IsRef(o)}
Writes(i) == {o \in {i.a} : IsRef(o) /\ i.opcode \in Arithmetic \cup {"ST", "LD", "GETC"}}

\* Every byte a program reads, it has written: no variable is used before it
\* is initialised.
Initialises(p) ==
    LET Bytes(o) == o.data .. o.data + WordBytes - 1
    IN  \A k \in DOMAIN p : \A o \in Reads(p[k]) :
          Bytes(o) \subseteq UNION {UNION {Bytes(w) : w \in Writes(p[j])} : j \in 1 .. k - 1}

(***************************************************************************)
(* The machines never differ in what can be seen of them: registers,       *)
(* output, input left and how they ended.                                  *)
(***************************************************************************)
Deterministic ==
    /\ regsA = regsB
    /\ stdoutA = stdoutB
    /\ stdinA = stdinB
    /\ statusA = statusB

(***************************************************************************)
(* A byte in which the heaps differ is one that neither machine has        *)
(* written since it was allocated; no step spreads the difference.         *)
(***************************************************************************)
DifferencesShrink ==
    [][\A b \in DOMAIN heapA : heapA[b] = heapB[b] => heapA'[b] = heapB'[b]]_<<heapA, heapB>>
=============================================================================
