----------------------------- MODULE SymbolTable -----------------------------
(***************************************************************************)
(* The compiler's symbol table: a chain of lexical scopes, innermost last, *)
(* each with its own name map and its own next free offset in the virtual  *)
(* memory of the VM (src/compiler/symbol_table.cpp, symbol.cpp).           *)
(*                                                                         *)
(* The parser calls Decl for a variable or a parameter, DeclFn for a       *)
(* function, Enter and Leave around a function body; the code generator    *)
(* calls Enter again for every function it compiles and never leaves.  An  *)
(* operation that throws leaves the table as it was and ends the compiler  *)
(* (compile() catches the exception and exits).                            *)
(*                                                                         *)
(* align_head and align_tail keep their default 0 at every call site, so   *)
(* they are left out; so are source locations.                             *)
(***************************************************************************)
EXTENDS Integers, Sequences

CONSTANTS
    Names,           \* identifiers of the source program
    Types,           \* the data types of types.hpp
    TypeSize,        \* their sizes in bytes
    Builtins,        \* builtin_ids: uGetChar and uPutChar in the code
    ExcludeBuiltin,  \* the option --exclude-builtin
    FirstOffset,     \* nextOffset of the global scope; 16 in the code
    FirstId,         \* the first symbol id; 16 in the code
    MaxScopes,       \* bound: scopes open at once
    MaxSymbols       \* bound: symbols declared in one compilation

ASSUME TableAssumption ==
    /\ TypeSize \in [Types -> Nat]
    /\ ExcludeBuiltin \in BOOLEAN
    /\ FirstOffset \in Nat
    /\ FirstId \in Nat
    /\ MaxScopes \in Nat
    /\ MaxSymbols \in Nat

VARIABLES
    scopes,          \* the open scopes, the global one first
    nextSymbolId,    \* the id the next symbol gets
    status           \* "running", or "exited" once an operation has thrown

vars == <<scopes, nextSymbolId, status>>

Kinds == {"VARIABLE", "FUNCTION"}

Symbol == [symbolId : Nat, kind : Kinds, type : Types, stackOffset : Nat]

\* A name that is not a key of the scope's map.
Undeclared == [kind |-> "UNDECLARED"]

Scope == [symbols : [Names -> Symbol \cup {Undeclared}], nextOffset : Nat]

EmptyMap == [n \in Names |-> Undeclared]

Declares(scope, name) == scope.symbols[name].kind # "UNDECLARED"

TypeOK ==
    /\ scopes \in Seq(Scope)
    /\ scopes # <<>>
    /\ nextSymbolId \in Nat
    /\ status \in {"running", "exited"}

Current == Len(scopes)

\* Mutant: the name is not looked for in the scope's own map first.
MayDeclareTwice(name) == name \in Builtins => ExcludeBuiltin

\* Scope::decl throws on a name of its own scope, then on a builtin's name.
MayDeclare(name) ==
    /\ ~Declares(scopes[Current], name)
    /\ name \in Builtins => ExcludeBuiltin

-----------------------------------------------------------------------------
(***************************************************************************)
(* lookup(name): the innermost scope that knows the name, then its parent  *)
(* and so on; lookup(id) searches in the same order.                       *)
(***************************************************************************)
Visible(name) == \E i \in DOMAIN scopes : Declares(scopes[i], name)

Lookup(name) ==
    LET i == CHOOSE k \in DOMAIN scopes :
                /\ Declares(scopes[k], name)
                /\ \A m \in DOMAIN scopes : Declares(scopes[m], name) => m <= k
    IN  scopes[i].symbols[name]

\* The symbols with this id in the innermost scope that has one: the map is
\* unordered, so lookup(id) may return any of them.
LookupId(id) ==
    LET Matches(k) == {scopes[k].symbols[n] : n \in {m \in Names :
                          /\ Declares(scopes[k], m)
                          /\ scopes[k].symbols[m].symbolId = id}}
        Inner == {k \in DOMAIN scopes :
                    /\ Matches(k) # {}
                    /\ \A m \in DOMAIN scopes : Matches(m) # {} => m <= k}
    IN  UNION {Matches(k) : k \in Inner}

-----------------------------------------------------------------------------
Init ==
    /\ scopes = <<[symbols |-> EmptyMap, nextOffset |-> FirstOffset]>>
    /\ nextSymbolId = FirstId
    /\ status = "running"

\* emplace the symbol and advance nextOffset by the size of its type.
Bind(scope, name, sym) ==
    [symbols    |-> [scope.symbols EXCEPT ![name] = sym],
     nextOffset |-> scope.nextOffset + TypeSize[sym.type]]

\* SymbolTable::decl
Decl(name, type) ==
    /\ status = "running"
    /\ nextSymbolId < FirstId + MaxSymbols
    /\ MayDeclare(name)
    /\ scopes' = [scopes EXCEPT ![Current] =
                    Bind(scopes[Current], name,
                         [symbolId    |-> nextSymbolId,
                          kind        |-> "VARIABLE",
                          type        |-> type,
                          stackOffset |-> scopes[Current].nextOffset])]
    /\ nextSymbolId' = nextSymbolId + 1
    /\ UNCHANGED status

\* Mutant: nextSymbolId is left as it is after a function.
DeclFnKeepingId(name, type) ==
    /\ status = "running"
    /\ nextSymbolId < FirstId + MaxSymbols
    /\ MayDeclare(name)
    /\ scopes' = [scopes EXCEPT ![Current] =
                    Bind(scopes[Current], name,
                         [symbolId    |-> nextSymbolId,
                          kind        |-> "FUNCTION",
                          type        |-> type,
                          stackOffset |-> 0])]
    /\ UNCHANGED <<nextSymbolId, status>>

\* SymbolTable::decl_fn: the symbol's own offset is 0, but the offset of the
\* scope moves on by the size of the return type all the same.
DeclFn(name, type) ==
    /\ status = "running"
    /\ nextSymbolId < FirstId + MaxSymbols
    /\ MayDeclare(name)
    /\ scopes' = [scopes EXCEPT ![Current] =
                    Bind(scopes[Current], name,
                         [symbolId    |-> nextSymbolId,
                          kind        |-> "FUNCTION",
                          type        |-> type,
                          stackOffset |-> 0])]
    /\ nextSymbolId' = nextSymbolId + 1
    /\ UNCHANGED status

\* Both throw before they have changed anything.
RejectDecl(name) ==
    /\ status = "running"
    /\ ~MayDeclare(name)
    /\ status' = "exited"
    /\ UNCHANGED <<scopes, nextSymbolId>>

\* Mutant: a new scope starts at the first offset again.
EnterAtFirstOffset ==
    /\ status = "running"
    /\ Len(scopes) < MaxScopes
    /\ scopes' = Append(scopes, [symbols    |-> EmptyMap,
                                 nextOffset |-> FirstOffset])
    /\ UNCHANGED <<nextSymbolId, status>>

\* SymbolTable::enter: the new scope goes on from its parent's offset.
Enter ==
    /\ status = "running"
    /\ Len(scopes) < MaxScopes
    /\ scopes' = Append(scopes, [symbols    |-> EmptyMap,
                                 nextOffset |-> scopes[Current].nextOffset])
    /\ UNCHANGED <<nextSymbolId, status>>

\* Mutant: leave does not check for the global scope.
LeaveAny ==
    /\ status = "running"
    /\ scopes' = SubSeq(scopes, 1, Len(scopes) - 1)
    /\ UNCHANGED <<nextSymbolId, status>>

\* SymbolTable::leave deletes the innermost scope with all its symbols.  It
\* would throw at the global scope, which no caller tries: the parser leaves
\* only the scope it has entered for a function body.
Leave ==
    /\ status = "running"
    /\ Len(scopes) > 1
    /\ scopes' = SubSeq(scopes, 1, Len(scopes) - 1)
    /\ UNCHANGED <<nextSymbolId, status>>

Next ==
    \/ \E name \in Names, type \in Types : Decl(name, type)
    \/ \E name \in Names, type \in Types : DeclFn(name, type)
    \/ \E name \in Names : RejectDecl(name)
    \/ Enter
    \/ Leave

Spec == Init /\ [][Next]_vars

-----------------------------------------------------------------------------
\* The bytes of virtual memory a variable owns.
Storage(s) ==
    IF s.kind = "VARIABLE"
    THEN s.stackOffset .. (s.stackOffset + TypeSize[s.type] - 1)
    ELSE {}

(***************************************************************************)
(* The storage of two variables of the open scopes never overlaps, whether *)
(* they are in one scope or one shadows the other, and never reaches into  *)
(* the first FirstOffset bytes, where the VM keeps its heap block header.  *)
(* Scope::decl and SymbolTable::enter must agree on nextOffset for this.   *)
(***************************************************************************)
StorageDisjoint ==
    \A i, j \in DOMAIN scopes, n, m \in Names :
      LET s == scopes[i].symbols[n]
          t == scopes[j].symbols[m]
      IN  /\ \A b \in Storage(s) : b >= FirstOffset
          /\ (<<i, n>> # <<j, m>>) => Storage(s) \cap Storage(t) = {}

(***************************************************************************)
(* Looking a symbol up by the id found under its name gives that symbol    *)
(* and no other, across scopes opened and closed in any order: ids are     *)
(* given by the table, names are mapped by the scopes (lookup, symbol.cpp).*)
(***************************************************************************)
IdLookupAgrees ==
    \A n \in Names : Visible(n) => LookupId(Lookup(n).symbolId) = {Lookup(n)}

(***************************************************************************)
(* What lookup returns for a visible name changes only by a declaration of *)
(* that very name in the current scope or by the end of the scope that     *)
(* declared it: declaring one name, or opening or closing a scope that     *)
(* does not declare it, never rebinds or moves another.                    *)
(***************************************************************************)
BindingsStable ==
    [][\A n \in Names :
          (Visible(n) /\ (IF Visible(n)' THEN Lookup(n)' # Lookup(n) ELSE TRUE)) =>
             \/ /\ Len(scopes') = Len(scopes)
                /\ Declares(scopes'[Current], n) /\ ~Declares(scopes[Current], n)
             \/ /\ Len(scopes') = Len(scopes) - 1
                /\ Declares(scopes[Current], n)]_vars
=============================================================================
