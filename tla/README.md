# A formal model of ulang

ulang is a toolchain for a small language: a compiler that turns a source file
into a bytecode file, a register machine that runs it, and tools that list it.
This directory holds TLA+ models of its parts, the TLC configurations that
check them, and theorems about them that TLAPS proves. Paths below are relative
to the repository.

## 1. The system

    source --Lexer--> tokens --Parser--> tree + symbol table
           --Code generator--> instructions --Writer--> bytecode file
           --Loader--> instructions --VM--> registers, heap, output

| part | source | state | operations |
|---|---|---|---|
| Lexer | `src/compiler/lexer.cpp` | position in the text | `tokenize` |
| Parser | `src/compiler/{expr,variable,function,statement,block}.cpp` | position in the tokens, the tree, the symbol table | `buildAST` and one `parse...` per construct |
| Symbol table | `src/compiler/{symbol_table,symbol,builtin}.cpp` | the chain of open scopes, each with its symbols and next storage offset; the next id | `enter`, `leave`, `decl`, `decl_fn`, two `lookup`s |
| Code generator | `src/compiler/{compile,functions,compiler}.cpp` | the instructions so far, the function being compiled, the entries of functions | `compileNode`, `compileFunction`, `compile` |
| Temporaries | `src/compiler/temp_allocator.cpp` | which of four registers are in use | `allocTmpReg`, `freeTmpReg` |
| File writer | `src/compiler/bytecode.cpp` | the stream | `buildMeta`, `writeBytecode` |
| Loader | `src/vm/main.cpp`, `src/common/bytecode.cpp` | its copy of the file and a position in it | `validateHeader`, `readInstruction` |
| VM | `src/vm/vm.cpp`, `src/vm/heap.cpp` | registers, heap, stack, input and output | `init`, `run`, one case of `execute` per opcode |
| VM heap blocks | `src/vm/heap.cpp` | the free list | `heap_alloc`, `heap_free`, `heap_mergeFree` |
| Disassembler | `src/bcdisasm/main.cpp` | its copy of the file | `readMeta`, the same loop, `fmtOperand` |

The parts share no threads; they hand data to each other. The parser fills the
symbol table and puts pointers to its symbols into the tree; leaving a scope
frees them while the tree lives on. The code generator reads offsets and types
through those pointers, writes the entries of functions into them, and hands
out registers. What the VM gets is a file that another process wrote and may
not have finished.

What is hard here is therefore not scheduling but protocols and resources: four
registers shared by every expression of a program; storage reused by a scope
and what follows it; variables four bytes apart and stores eight bytes wide;
operands whose meaning (destination, entry, address) two components must agree
on; parse functions that look ahead without asking for the end; loops that end
only because something else stands behind them; a list of blocks that also
holds the ones in use; undefined memory in three places; files cut off by a
crash, read before they are complete, or written again while they are read.
`PROJECT.json` lists each such hazard at its line and the properties that cover
it.

## 2. The modules

| module | models | state and actions |
|---|---|---|
| `Lexer` | `Lexer::tokenize` | `src`, `pos`, `line`, `col`; `at` says which loop runs, `text` and `from` are its locals, `tokens` the result; one action per character taken and per way a token ends |
| `SymbolTable` | the symbol table | `scopes`, the chain of open scopes; actions `Enter`, `Leave`, `Decl`, `DeclFn`; `Lookup` and `LookupId` as operators |
| `Parser` | `buildAST` and every parse function | `stack`, the C++ stack, a frame per running function with the locals it still needs; `ret`, what the last call returned; `ahead`, tokens looked at; the table of `SymbolTable`, which it EXTENDS; one action per branch between two calls |
| `Grammar` | what the trees should be | `Readings`, the grammar of expressions as a closure over all texts: what each text can be read as, given what the shorter ones can; `Trees`, the trees of one text |
| `CodeGen` | the code generator and its temporaries | `code`, `tmp_used`, `currentFunction`, `entry_ip`; `pending` is the C++ stack of `compileNode`, that is, the results which wait for their parent nodes; one action per node kind and outcome |
| `Bytecode` | opcodes, operands, register numbers | none |
| `BytecodeFile` | the writer of a file and its two readers | `section`, `size`, `writer`; `buf`, `got`, `position`, `instructions`, `status`; the code's bytes are those of `serializeInstruction` |
| `VM` | the virtual machine | `regs`, `heap`, `stack`, `stdin`, `stdout`, `status`; one action per group of opcodes |
| `VMPair` | two VMs side by side | two instances of `VM` that differ in what malloc gave them |
| `AreaPool` | what an allocator promises | the areas in use; `HandOut`, `TakeBack` |
| `HeapAllocator` | `heap_alloc`, `heap_free`, `heap_mergeFree` | the header at each address, the list's first block, where the search and the merging are; one action per iteration of a loop |
| `SourceSemantics` | what a program means | `source`, `next`, `env`: the abstract specification |
| `Toolchain` | compiler and VM composed | the steps of `CodeGen`, then those of `VM` on its code, with the program they stand for as history |
| `...Proofs` | theorems (section 4) | |

`MC...` modules give the constants their values for TLC. A module's mutants are
defined right before the definition they change and are marked `Mutant`.

How they compose: `Parser` drives `SymbolTable` (and is proved to use it as it
allows); `Toolchain` runs `CodeGen` and `VM` one after the other;
`BytecodeFile` stands between them and is checked on its own, because all that
both see of it is `code`. Two abstract specifications are implemented:
`SourceSemantics` by `Toolchain` (`Meaning`) and, for requests of close sizes,
`AreaPool` by `HeapAllocator` (`ImplementsAreaPool`). Both are proved; TLC
checks the first as well, and shows that the second fails for other sizes.

Choices that a reader should know of:

- **No program is given in advance.** `compileNode` walks the tree in
  post-order, so a compilation is a sequence of steps, each possible for every
  node the parser could have put there (`Mentionable`, `Operands`, `InBody`).
  The behaviours of `CodeGen` are the compilations of all programs within the
  bounds. Likewise `Parser` chooses a token when it first looks at it, so that
  its behaviours are the parses of all token sequences.
- **The parser appears in `CodeGen` as what its trees can be.** Assignments are
  statements of bodies only (`buildAST` never calls `parseStatement`); a call is
  not an operand of a binary operation (`getType` gives it no type); a name may
  be a function's; a function may have one parameter, which the *enclosing*
  scope owns, because it is declared before the function's scope is entered.
  `TreesAsCompiled` and `MentionsOpenScopes` check that these are the trees
  that `Parser` builds.
- **A symbol of a function's scope is freed** when the parser leaves the scope.
  `Offsets` and `TypesOf` give such a symbol a set of values, whatever its
  memory may hold; each read chooses one.
- **An exception of the code generator is the end of the process**: `aborted`.
- **Bytes are small in `VM`**: bytes of `Base` values, words of `WordBytes` and
  operands of `ImmBytes` of them (256, 8 and 4 in the code); arithmetic wraps
  at `Base ^ WordBytes`. `BytecodeFile` has the bytes of the code.
- **Undefined memory.** The heap and the stack start with anything in
  `HeapContents`; what a heap access beyond the end reads is any value; an
  access outside the stack ends the process or does not.
- **The allocator has no caller.** Nothing under `src/` calls `heap_alloc`,
  `heap_free` or `heap_mergeFree` (`init` calls `heap_init`, and references
  are offsets into the pool, whatever its blocks), so `HeapAllocator` lets
  requests and frees come in any order. It leaves out what clients write into their areas. A block
  that is handed out stays on the list and may be cut again, and the header of
  the rest then lies in an area that is in use: `Tiled`, `WithinPool`,
  `GrantsApart`, `FailsOnlyWhenFull`, `SearchEnds` and the theorems about them
  are about clients that do not write over such a header.
- **A file may change under its reader.** The writer is followed until the
  reader has measured the file; after that, one compilation to the same file
  (`Rewrite`) leaves it at any length up to the whole, with the same program.
  The reader's buffer has the measured size and zeros behind what was read.
- **Left out**: wording, colours, names of files, verbose output, the signedness
  and size warnings (they change nothing that is compiled).

## 3. The runs

Passing runs:

| run | bounds | what it shows |
|---|---|---|
| `MCSymbolTable` | three names, one builtin; three types with sizes 0, 1 and 4; three open scopes; four symbols | live variables never share storage (`StorageDisjoint`); lookup by id and by name agree (`IdLookupAgrees`); a name keeps its symbol while the scope lives (`BindingsStable`) |
| `MCLexer` | texts of up to five characters of nine kinds; 351,000 states | every token is given the place where it began (`Located`); characters are tokens or blanks, none lost and none twice, and tokens are as long as they can be (`NothingLost`); a text is refused only for what cannot be a token (`RefusedForCause`); the scan ends |
| `MCParser` | two names, one type, two symbols, two scopes, expressions of up to eight tokens (a symbol counted as two), `+` and `*`; 347,000 states | expressions have the tree of the grammar and no other (`ExpressionTree`); trees have only the operands the code generator can compile (`TreesAsCompiled`) and, as far as they are global, no freed symbols (`MentionsOpenScopes`); no look-ahead leaves the tokens (`EndOfFileStays`); the parser always goes on (`ReadsOn`) |
| `MCCodeGen` | two functions, a parameter, two globals or locals, two temporaries, three pending results, five instructions | `TempsAccounted`, `PendingIntact`, `CallsResolve`, `StartSkipsFunctions` |
| `MCBytecodeFile` | three outputs of the compiler, real section sizes, every prefix of every file, every length after a rewrite; 116,000 states | a file that does not shrink loads as it was written (`LoadsWritten`), one that does as its beginning and NOPs (`LoadsBeginning`); readers end (`ReaderEnds`) and whole files load (`CompleteFileLoads`) |
| `MCVM` | programs of two loads and up to two of some hundred other instructions; references aligned and not | `Terminates`, `HeaderIntact` |
| `MCVMPair` | programs of three instructions that write every byte they read first | `Deterministic`, `DifferencesShrink` |
| `MCToolchain` | three variables, ADD, SUB, MUL, eight instructions, junk heaps | `Meaning` (refinement of `SourceSemantics`), `Completes` |
| `MCToolchainFns` | two functions, a local in storage that a global reuses, one temporary, six instructions | `Meaning`, with bodies that run ahead of the global code |
| `MCHeapAllocator` | a pool of nine headers' length; requests of 0, 8, 24 and 56 bytes; limits none, 100 and 96 kB; 69,000 states | until something is freed the list tiles the pool (`Tiled`, `WithinPool`); areas of close sizes are granted apart (`GrantsApart`); a search fails only when nothing on the list is big enough (`FailsOnlyWhenFull`) and ends (`SearchEnds`) |

Why the bounds are enough: two temporaries and three pending results already
exhaust the allocator below a nested operation, and `TempsAreAccounted` is
proved for every number of both; two functions are the least with an order
between them, and so with calls of an earlier one; three variables are the
least in which a store reaches over a variable that is initialised and one that
is not; in `MCVM` a reference at 6 is aligned to nothing and at 9 is the last
one wholly in the heap; three outputs have no symbols, a datum of more than two
bytes, and a function; eight tokens have three operands with both operators, in
parentheses, and calls with an argument that is an operation; two scopes and
two symbols have a function with a local, and a name that means one thing
outside and another inside; five characters have every kind of token with a
neighbour on either side, and a character literal that holds a line break; the
sizes of requests are on both sides of a header's difference, and the pool
holds three blocks.

Runs that find a disagreement between the code and what its comments, tests
or documents say:

| run | property violated | what the code does |
|---|---|---|
| `MCToolchainDiv` | `Meaning` | `a / b` gives the remainder, which DIV leaves in TMP0 |
| `MCHeapFree` | `MergeEnds` | freeing one area makes its block its own successor, and `heap_mergeFree` goes round (`heap.cpp:74`) |

Each row is an entry of "findings" in `PROJECT.json`, with the line of the
comment, document or test that the code disagrees with. `MCHeapFree` has one
size of requests, so that its trace is the shortest case: an iteration that goes
from a block to the same block changes nothing, and the trace ends in a stutter.
With more blocks the merging goes round a longer cycle.

Six more configurations are not among the runs of `PROJECT.json`. Each has a
construct that the code gets wrong wherever it occurs, and TLC reports the
property violated (`tlc -config <name>.cfg <module>`, each in less than a minute); they
are there for whoever repairs it, and for the exclusions below:

| configuration | module | property | what the code does |
|---|---|---|---|
| `MCToolchainCalls` | `MCToolchainFns` | `CallsReturn` | CALL and RET do nothing, so a variable that is initialised with a call keeps the register's old content; `README.md:66` and 69 say it gets the value |
| `MCToolchainLiterals` | `MCToolchain` | `Meaning` | `3 + 3` is compiled to `0 + 3` (`compile.cpp:92`); `test/test2.u:6` has `3 + 7` |
| `MCToolchainLeft` | `MCToolchain` | `Completes` | `3 + x` makes the literal the destination, which the VM refuses (`compile.cpp:106`, `vm.cpp:116`) |
| `MCToolchainAssign` | `MCToolchain` | `Completes` | an assignment of a call's result is a MOV into memory, which the VM refuses (`compile.cpp:220`, `vm.cpp:258`); `compiler.hpp:89` says the value is stored there |
| `MCCodeGenTemps` | `MCCodeGen` | `OnlyResultKept` | the cleanup at the end of `compileNode`, "free all the tmp registers allocated in this scope, except the result", is never reached (`compile.cpp:248`): the temporary of a call's argument stays in use |
| `MCHeapOverlap` | `MCHeapAllocator` | `KeepsPromise` | 24 bytes and then 8 are granted at one address, because the block handed out first is still on the list (`heap.cpp:38`); `VirtualMachine.hpp:52` says that an area is allocated |

Where a passing run restricts the programs, it does so by a named constant, and
what is excluded is known to fail:

- `Ops` leaves DIV out of the toolchain runs (see `MCToolchainDiv`);
- `TwoImmediates` says where both operands may be literals: only in bodies,
  which nothing depends on (`MCToolchainLiterals` has them in global code);
- `ImmediateLeft` says where the left operand alone may be a literal: nowhere
  (`MCToolchainLeft` has one in global code);
- `CallResults` says where a variable may get a call's result: nowhere, because
  it gets the old content of FNR (see `MCToolchainCalls`) or, where it is
  assigned, stops the VM (see `MCToolchainAssign`);
- `Initialises` lets `MCVMPair` run programs that write before they read: the
  heap is as malloc left it, so others can tell two runs apart.

Known from the models without a configuration of their own, because they fail
always and not in some case:

- the temporary of an expression statement's result stays in use like that of
  an argument, but no comment speaks of it; `TempsAccounted` counts both as
  lost and says that nothing else is;
- JMP does nothing, so the functions' bodies run ahead of the global code
  (`MCToolchainFns` has them run, and shows that what they do to the globals is
  overwritten);
- only the first byte of a heap access is checked (`heap.cpp:96`), where
  `VirtualMachine.hpp:72` promises an exception;
- the first PUSH is outside the stack, because sp is an address in `init` and an
  offset in PUSH;
- a second parameter and a declaration without a body are refused, because
  `matchToken` of a type never matches (`compiler.cpp:129`);
- an assignment to a function's name compiles to a store at offset 0, into the
  heap's block header (`statement.cpp:30`); `Behaved` in `VMProofs` excludes
  just that;
- the heap's limit is in kB but bytes are multiplied by 1024 before they are
  compared with it (`heap.cpp:32`), and what is counted against it is the rest
  of the block and not what was handed out;
- the header gives the size of the metadata's header as that of the metadata,
  so a file cut off inside its types or symbols passes the checks (`ReadMeta`,
  "overread");
- a reader waits for ever if the file was measured when it ended with its code
  and had shrunk into its header when it was read: the exception in
  `ReaderEnds`;
- the literal of a line break is given the line where it ends and the column
  where it begins; `Located` has the case;
- `1_000` keeps its underscore, at which `stoll` stops (`expr.cpp:34`); an
  exception of the lexer is outside of any `try` (`compiler/main.cpp:49`); a
  byte above 127 is no argument for `isspace` (`lexer.cpp:44`). These three are
  read from the code, not from a model.

Fairness. `VM`, `Toolchain`, `Lexer`, `Parser` and `BytecodeFile` assume weak
fairness of the steps of the VM, the scan, the parser and a reader, and
`HeapAllocator` of the iterations of its loops: each is one thread that waits
for nothing. Nothing is assumed of the compiler's code generator and writer, of
what a program asks of the heap, or of whoever starts a tool: programs may stay
unwritten, a file unfinished and unread (the reader that `BytecodeFile` makes
fair is one that is started, at any time).

Deadlock checking is off in every run, because the modelled processes end:
a text is scanned or refused, a compilation is done or aborted, a program has
finished, a file is loaded. The liveness properties say what must have happened
by then. `SymbolTable` and `CodeGen` also stop at their bounds.

## 4. The proofs

The assumptions are the named `ASSUME`s of the modules. They say that the
constants are of their kind, that the four temporaries lie below FNR in the
register file (so that a call's result is no temporary), that the next offset
is a natural number, that no character is in two of the lexer's classes and the
types of words and marks differ from each other and from a number's, that a power is a product (`^` is
unknown to the provers), and that an output's data fit four bytes. TLC evaluates
them in every run. Where a theorem assumes more, its statement says so.

**`ParserProofs`** begins with the symbol table by itself, for all names, types,
sizes and bounds:

- `TypeCorrect`, and `StorageIsDisjoint` (`Spec => []StorageDisjoint`).
  Disjointness is not inductive as it stands: a declaration could land on a
  variable of an outer scope. What excludes it is that every symbol of a scope
  ends at or before the scope's next offset, and begins at or after the next
  offset of its parent, which does not move while the child is open.
- `IdLookupIsExact` (`Spec => []IdLookupAgrees`). The invariant is that the ids
  of all open scopes are different and below the next one, and that a scope has
  each name once; the innermost scope that binds a name exists because the
  chain is finite.
- `BindingsAreStable` (`Spec => BindingsStable`).

The parser's theorems follow in the same module: `ParserStaysInFile` (nothing
takes the end-of-file token, so it stays ahead and no look-ahead goes past it);
`ParserUsesTable` (`ParserSpec => Spec`: every step is one of `SymbolTable`'s or leaves the table
alone), and with it `ParsedStorageIsDisjoint`; `ParserTypeCorrect`, whose
invariant ties the depth of the table to the frames on the stack, so that
`Leave` is never done on the outermost scope.

Its last part is about the trees, for files and expressions of every length.
The levels of `DownTo` and `Readings` are recursive functions on the naturals,
so an argument by levels is an induction over a set of naturals
(`AllNaturals`, from the least element); no induction over trees is needed.

- `TreesCanBeCompiled` and `TreesMentionOpenScopes`, from the invariant
  `TreesOK`: whatever a frame or `ret` holds lies in a set of nodes that
  contains its members' children and in which every node is an expression over
  the visible symbols; what has just been built lies in one whose nodes fit the
  depth it ends in and point to symbols of the scopes up to that depth. The
  sets take the place of a recursion over the tree, and the symbols of a scope
  are never fewer while it stays open (`Grows`). A parameter of a definition
  is of the outer scope, which is why it may be mentioned there. What the
  theorems say of `Nodes`, down to `MaxTokens + 2`, the invariant says of every
  depth; within the run's bound that depth reaches every node.
- `ExpressionsAreParsed` (`ParserSpec => []ExpressionTree`): what
  `parseExpression` returns is the only tree that the grammar gives to the
  tokens read. The grammar says how a whole text is divided; the code goes from
  left to right. In between is the invariant `TextOK`: the tokens read are cut
  into one part per frame of the expression, what the frame had read when it
  called (nothing, a parenthesis, a callee with some arguments, or a left
  operand and its operator), each of which has the reading that the frame's
  locals hold, and the last part has the reading that was asked for, with
  operators at least as strong as `min`. `Settled` is the part that
  precedence needs: a product that is returned to a `+` or `-` is not followed
  by `*` or `/`.
- `GrammarUnambiguous`: no text has two trees. Every text with a reading closes
  all parentheses that it opens (`Closed`), and outside of them a primary has
  no operators, a product no `+` or `-`, a sum no comma (`Clear`). So a sum is
  read at its last `+` or `-` outside of parentheses, a list at its last comma,
  and a call at the parenthesis that the last one closes.

**`CodeGenProofs`**, for any program, symbols and number of temporaries:
`TypeCorrect`, and `TempsAreAccounted`. `TempsAccounted` equates the set of
registers in use with a union over the pending results and says that no two of
them hold the same register; the inductive form `TempsBalanced` says the same
per register: a register is in use iff it is lost or in some pending result,
not both, and in at most one. The proof has one lemma per way an action changes
the pair (`AppendAllocated`, `AppendElsewhere`, `ConsumeOne`, `DropRest`,
`ReplaceLast`), each about arbitrary values, so that an action's step only names
the lemma and shows its hypotheses.

`EveryCallResolves` and `StartIsBehindFunctions` follow from
the invariant `LaidOut`: functions that have been begun have entries behind the
first jump and not behind the end of the code, calls name such entries, and
what is emitted after the jump is patched lies behind its target.
`PendingStaysIntact` is proved of programs without division: DIV writes TMP0
besides its destination, and another result may be there (the run's `Ops` has
no DIV either).

**`LexerProofs`**, for sources of any length and any characters in the classes:

- `LexerTypeCorrect`, `TokensAreLocated` and `NothingIsLost`. The invariant
  `LexerInv` names the place where the token begins that is being collected (the
  position itself, in the outer loop): up to it the source is what the tokens
  say and spaces, and from it to the position it is the text collected so far.
  That a token's line and column lead back to one place only is `PlacesDiffer`.
- `RefusalsHaveCause` (`LexerSpec => []RefusedForCause`). `RefusalInv` says that
  a division of the whole source into tokens would go through that place.
  `RunIsDivided` is why the longest token loses nothing: the last point of a
  division within a run of characters of a number or a word can only be followed
  by the run's end. `Divisible` is recursive; that it satisfies its equation
  (`DivisibleStep`) is shown by the least set of places closed under it, without
  an induction.

**`BytecodeFileProofs`**, for every output and every place where the file is cut
off: `FileTypeCorrect`, `WrittenIsLoaded` and `BeginningIsLoaded`. Five bytes
hold an operand (`DatumBytes`, `OperandReadBack`), eleven an instruction
(`InstructionLayout`, `BytesDecoded`), and each is at its place in the buffer
(`ByteOfInstruction`). The invariant `Loading` says of the reader's loop that
it is at the instruction that follows those it has collected, or at one that
does not fit, where it stays.

**`VMProofs`**, for any widths, heap contents and inputs: `MachineIsTyped`, for
programs that are `Executable` (their operands name registers that exist), and
`HeaderStaysIntact`, for those that are `Behaved`. A word is a sum that `WordAt`
computes by recursion, over positions and not over data, so that its equations
can be had from a finite induction (`UpTo`, `WordSums`); from them follow the
range of words (`WordRange`), that a word is read back as it was written
(`WordReadBack`) and that its low bytes are its remainder (`LowBytes`).

**`VMPairProofs`**: `NobodySeesTheHeap` (`Spec => []Deterministic`) and
`DifferencesOnlyShrink`, for programs that are `SelfContained`. `Deterministic` is
not inductive: the machines stay equal because what they read is equal, and that
is so because (`PairInv`) the heaps agree in every byte that the instructions so
far have written. Both machines then take the same branch of the same
instruction (`ArithmeticTogether`, `MoveTogether`, `CharTogether`).

**`ToolchainProofs`**: `CompiledProgramsMeanTheirSource`, that is,
`Supported => (ToolSpec => Meaning)`, for any number of variables, functions,
temporaries and statements, expressions of any depth, any widths, and anything
in the heap. `Supported` says of which programs and machines:

- the operators are ADD, SUB and MUL, and the global code has none of the three
  constructs that section 3 excludes (`TwoImmediates`, `ImmediateLeft`,
  `CallResults`);
- every global variable has one offset, behind those of the variables before it
  by at least as many bytes as its values take, and the word at it lies in the
  heap, which is what the symbol table's storage and a heap that is big enough
  give; a value fits an operand;
- the counter can count the instructions, and what is in the heap and the input
  are bytes.

`MCToolchain` and `MCToolchainFns` satisfy it. Nothing is assumed of the bodies
of functions: their code runs ahead of the global code and may do anything with
the temporaries and the variables, which the global code then does not depend
on, because it reads only what it has written.

The argument is that of a translation validation. There is no relation between
the compiler's state and the machine's; what connects them is a record of the
code: behind each instruction of the global code, which expression's value each
temporary holds, and how many statements are done (`Certifies`, whose cases
`Loads`, `Computes` and `Assigns` say what an instruction does to the record).

1. `GlobalCodeCompiled` (`CompiledInv`): at any time of a compilation there is
   such a record of the code so far, and it ends with the temporaries of the
   pending results holding the values of their expressions. This is where
   `TempsAccounted` is needed (a temporary that is handed out holds nothing
   that is still wanted) and the invariant of `PendingStaysIntact`. `CertifiesMore` adds an
   instruction to a record.
2. `CodeIsPlain`, `MachineIsReady`: what is loaded is executable, and no
   instruction moves the counter or the stack pointer, so each step goes on by
   one (`CounterMoves`).
3. `GlobalStep`, `MachineStep` (`RunInv`): the registers and variables agree
   with the record at the counter. A store writes more bytes than the variable
   has, into variables that are not initialised yet (`StoredEnv`); registers
   are computed modulo the word and variables modulo the type (`ComputedValue`,
   `LoadedValue`).
4. `MeaningStep`: a step of the compiler is one of `Write` or none, loading is
   `Start`, the store at the end of a statement is `Execute`, and every other
   step of the machine is a stutter.

The value of an expression is a recursion over its nodes. It is had without an
induction over expressions because `Evaluates` is compositional: a sequence of
nodes has a value if it leaves that value on top of *any* stack, so two of them
and an operator have the operator's (`OperationValue`).

**`HeapAllocatorProofs`**, for any pool, header, limit and sizes: `TypeCorrect`,
`PoolIsTiled`, `StaysWithinPool`, `AreasAreGrantedApart`,
`SearchesFailWhenFull`; and `ImplementsAreaPool` (`Spec => KeepsPromise`), under
the assumption that any two sizes differ by less than a header, without which
`MCHeapOverlap` refutes it.

Only model-checked: the liveness properties (`Terminates`, `Completes`,
`ReaderEnds`, `CompleteFileLoads`, `ReadsOn`, `ScanEnds`, `SearchEnds`), which
rest on fairness and ENABLED. Every other property of a passing run is stated by
a theorem. `CallsReturn`, `OnlyResultKept`, `MergeEnds` and, without the
assumption on sizes, `KeepsPromise` are violated.

## 5. Not modelled

- Of `buildMeta`, everything but the sizes of what it builds; of the
  disassembler, its listing.
- `bcdump`, `vmstat.cpp`, `bytecode_stream.cpp`: they print, or nothing calls
  them, and they keep no state between steps.
- Exceptions' texts, logging, command lines.
- The values of literals, and the warnings that depend on the signedness and
  size of types.

## 6. Plan

Done, in this order: symbol table, code generator, VM, their composition
against `SourceSemantics`, the file between them; the heap's blocks, the parser
and the lexer; a file that is rewritten under its reader; the grammar without
recursive operators; the proofs of section 4.

What would come next:

1. `CodeGen` on the trees of `Parser` instead of the ones it chooses: the
   symbols with their offsets then come from one table, and freed scopes from
   the parser's own steps.
2. `buildMeta`'s tables against what the disassembler prints of them: a
   function's address is in different units in the metadata and in a call.
