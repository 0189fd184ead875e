----------------------------- MODULE ParserProofs -----------------------------
(***************************************************************************)
(* The symbol table by itself, for every value of the constants: its type  *)
(* correctness, the disjointness of the storage it hands out, and what its *)
(* two lookups return.                                                     *)
(*                                                                         *)
(* Then what the parser does to the table, to the tokens and to its stack: *)
(* it uses the table as SymbolTable allows, so that what is proved of the  *)
(* table holds of every parse; it stays in front of the end of the file;   *)
(* and a body's scope is open exactly while the body is parsed.            *)
(*                                                                         *)
(* Then what the parser builds: trees that can be compiled, which mention  *)
(* open scopes only (the invariant TreesOK), and of every expression the   *)
(* tree that the grammar gives it (the invariant TextOK), of which there   *)
(* is one only.                                                            *)
(***************************************************************************)
EXTENDS Grammar, SequenceTheorems, WellFoundedInduction, TLAPS

\* The scope that Bind makes is a scope.
LEMMA BindType ==
    ASSUME NEW scope \in Scope, NEW name \in Names, NEW sym \in Symbol
    PROVE  Bind(scope, name, sym) \in Scope
BY TableAssumption DEF Bind, Scope, Symbol

\* Type correctness: the table is a non-empty chain of scopes, whatever is
\* declared, opened and closed (SymbolTable, symbol_table.cpp).
THEOREM TypeCorrect == Spec => []TypeOK
<1>1. Init => TypeOK
  BY TableAssumption DEF Init, TypeOK, Scope, EmptyMap
<1>2. TypeOK /\ [Next]_vars => TypeOK'
  <2> SUFFICES ASSUME TypeOK, [Next]_vars PROVE TypeOK'
    OBVIOUS
  <2> USE DEF TypeOK
  <2>1. Current \in DOMAIN scopes /\ scopes[Current] \in Scope
    BY DEF Current
  <2>2. ASSUME NEW name \in Names, NEW type \in Types, Decl(name, type)
        PROVE  TypeOK'
    <3> DEFINE sym == [symbolId    |-> nextSymbolId,
                       kind        |-> "VARIABLE",
                       type        |-> type,
                       stackOffset |-> scopes[Current].nextOffset]
    <3>1. sym \in Symbol
      BY <2>1 DEF Symbol, Kinds, Scope
    <3>2. Bind(scopes[Current], name, sym) \in Scope
      BY <2>1, <3>1, BindType
    <3>3. scopes' = [scopes EXCEPT ![Current] = Bind(scopes[Current], name, sym)]
      BY <2>2 DEF Decl
    <3> QED
      BY <2>1, <2>2, <3>2, <3>3 DEF Decl
  <2>3. ASSUME NEW name \in Names, NEW type \in Types, DeclFn(name, type)
        PROVE  TypeOK'
    <3> DEFINE sym == [symbolId    |-> nextSymbolId,
                       kind        |-> "FUNCTION",
                       type        |-> type,
                       stackOffset |-> 0]
    <3>1. sym \in Symbol
      BY DEF Symbol, Kinds
    <3>2. Bind(scopes[Current], name, sym) \in Scope
      BY <2>1, <3>1, BindType
    <3>3. scopes' = [scopes EXCEPT ![Current] = Bind(scopes[Current], name, sym)]
      BY <2>3 DEF DeclFn
    <3> QED
      BY <2>1, <2>3, <3>2, <3>3 DEF DeclFn
  <2>4. ASSUME NEW name \in Names, RejectDecl(name) PROVE TypeOK'
    BY <2>4 DEF RejectDecl
  <2>5. CASE Enter
    <3>1. [symbols |-> EmptyMap, nextOffset |-> scopes[Current].nextOffset] \in Scope
      BY <2>1 DEF Scope, EmptyMap
    <3> QED
      BY <2>5, <3>1 DEF Enter
  <2>6. CASE Leave
    <3>1. /\ scopes' = SubSeq(scopes, 1, Len(scopes) - 1)
          /\ Len(scopes) > 1
      BY <2>6 DEF Leave
    <3>2. /\ scopes' \in Seq(Scope)
          /\ Len(scopes') = Len(scopes) - 1
      <4>1. /\ 1 \in Int /\ Len(scopes) - 1 \in Int
            /\ \A i \in 1 .. Len(scopes) - 1 : scopes[i] \in Scope
        OBVIOUS
      <4> QED
        BY <3>1, <4>1, SubSeqProperties
    <3>3. scopes' # <<>>
      <4>1. Len(scopes') # 0
        BY <3>1, <3>2
      <4> QED
        BY <4>1
    <3> QED
      BY <2>6, <3>2, <3>3 DEF Leave
  <2>7. CASE UNCHANGED vars
    BY <2>7 DEF vars
  <2> QED
    BY <2>2, <2>3, <2>4, <2>5, <2>6, <2>7 DEF Next
<1> QED
  BY <1>1, <1>2, PTL DEF Spec

-----------------------------------------------------------------------------
(***************************************************************************)
(* Why the storage is disjoint: every scope allocates upwards from its     *)
(* parent's next offset, and a parent's next offset stands still while a   *)
(* child is open.                                                          *)
(***************************************************************************)
SizeOf(s) == TypeSize[s.type]

\* The variables of a scope lie below its next offset, at or above `base'.
Within(scope, base) ==
    /\ base <= scope.nextOffset
    /\ \A n \in Names : scope.symbols[n].kind = "VARIABLE" =>
          /\ base <= scope.symbols[n].stackOffset
          /\ scope.symbols[n].stackOffset + SizeOf(scope.symbols[n]) <= scope.nextOffset

\* The variables of one scope are pairwise one above the other.
Stacked(scope) ==
    \A n, m \in Names :
      LET s == scope.symbols[n]
          t == scope.symbols[m]
      IN  (n # m /\ s.kind = "VARIABLE" /\ t.kind = "VARIABLE") =>
            \/ s.stackOffset + SizeOf(s) <= t.stackOffset
            \/ t.stackOffset + SizeOf(t) <= s.stackOffset

StorageInv ==
    /\ \A i \in DOMAIN scopes : Within(scopes[i], FirstOffset) /\ Stacked(scopes[i])
    /\ \A i, j \in DOMAIN scopes : i < j => Within(scopes[j], scopes[i].nextOffset)

\* Declaring a variable at the scope's next offset keeps it in order.
LEMMA BindVariable ==
    ASSUME NEW scope \in Scope, NEW name \in Names, NEW sym \in Symbol,
           NEW base \in Nat, Within(scope, base), Stacked(scope),
           sym.kind = "VARIABLE" => sym.stackOffset = scope.nextOffset
    PROVE  /\ Within(Bind(scope, name, sym), base)
           /\ Stacked(Bind(scope, name, sym))
<1> DEFINE new == Bind(scope, name, sym)
<1>1. /\ \A n \in Names : new.symbols[n] = IF n = name THEN sym ELSE scope.symbols[n]
      /\ new.nextOffset = scope.nextOffset + SizeOf(sym)
      /\ SizeOf(sym) \in Nat
      /\ scope.nextOffset \in Nat
      /\ sym.stackOffset \in Nat
  BY TableAssumption DEF Bind, Scope, Symbol, SizeOf
<1>2. \A n \in Names : scope.symbols[n].kind = "VARIABLE" =>
          scope.symbols[n].stackOffset \in Nat /\ SizeOf(scope.symbols[n]) \in Nat
  BY TableAssumption DEF Scope, Symbol, Undeclared, SizeOf
<1> HIDE DEF new
<1>3. Within(new, base)
  BY <1>1, <1>2 DEF Within
<1>4. Stacked(new)
  BY <1>1, <1>2 DEF Within, Stacked
<1> QED
  BY <1>3, <1>4 DEF new

\* Rebinding the innermost scope in order keeps the whole chain in order.
LEMMA DeclareKeepsStorage ==
    ASSUME TypeOK, StorageInv, NEW name \in Names, NEW sym \in Symbol,
           sym.kind = "VARIABLE" => sym.stackOffset = scopes[Current].nextOffset,
           scopes' = [scopes EXCEPT ![Current] = Bind(scopes[Current], name, sym)]
    PROVE  StorageInv'
<1> DEFINE new == Bind(scopes[Current], name, sym)
<1>1. /\ Current \in DOMAIN scopes
      /\ DOMAIN scopes = 1 .. Current
      /\ \A i \in DOMAIN scopes : scopes[i] \in Scope
  BY DEF TypeOK, Current
<1>2. /\ DOMAIN scopes' = DOMAIN scopes
      /\ \A i \in DOMAIN scopes : scopes'[i] = IF i = Current THEN new ELSE scopes[i]
  BY <1>1
<1>3. FirstOffset \in Nat /\ \A i \in DOMAIN scopes : scopes[i].nextOffset \in Nat
  BY <1>1, TableAssumption DEF Scope
<1>4. Within(new, FirstOffset) /\ Stacked(new)
  BY <1>1, <1>3, BindVariable DEF StorageInv
<1>5. ASSUME NEW i \in DOMAIN scopes, i < Current
      PROVE  Within(new, scopes[i].nextOffset)
  BY <1>1, <1>3, <1>5, BindVariable DEF StorageInv
<1> HIDE DEF new
<1>6. \A i, j \in DOMAIN scopes : i < j => i # Current
  BY <1>1
<1> QED
  BY <1>1, <1>2, <1>4, <1>5, <1>6 DEF StorageInv

LEMMA StorageInductive == Spec => []StorageInv
<1>1. Init => StorageInv
  BY TableAssumption DEF Init, StorageInv, Within, Stacked, EmptyMap, Undeclared
<1>2. TypeOK /\ StorageInv /\ [Next]_vars => StorageInv'
  <2> SUFFICES ASSUME TypeOK, StorageInv, [Next]_vars PROVE StorageInv'
    OBVIOUS
  <2>1. /\ Current \in DOMAIN scopes
        /\ DOMAIN scopes = 1 .. Current
        /\ Current \in Nat
        /\ \A i \in DOMAIN scopes : scopes[i] \in Scope
    BY DEF TypeOK, Current
  <2>2. ASSUME NEW name \in Names, NEW type \in Types, Decl(name, type)
        PROVE  StorageInv'
    <3> DEFINE sym == [symbolId    |-> nextSymbolId,
                       kind        |-> "VARIABLE",
                       type        |-> type,
                       stackOffset |-> scopes[Current].nextOffset]
    <3>1. sym \in Symbol
      BY <2>1 DEF Symbol, Kinds, Scope, TypeOK
    <3>2. scopes' = [scopes EXCEPT ![Current] = Bind(scopes[Current], name, sym)]
      BY <2>2 DEF Decl
    <3> QED
      BY <3>1, <3>2, DeclareKeepsStorage
  <2>3. ASSUME NEW name \in Names, NEW type \in Types, DeclFn(name, type)
        PROVE  StorageInv'
    <3> DEFINE sym == [symbolId    |-> nextSymbolId,
                       kind        |-> "FUNCTION",
                       type        |-> type,
                       stackOffset |-> 0]
    <3>1. sym \in Symbol
      BY DEF Symbol, Kinds, TypeOK
    <3>2. scopes' = [scopes EXCEPT ![Current] = Bind(scopes[Current], name, sym)]
      BY <2>3 DEF DeclFn
    <3> QED
      BY <3>1, <3>2, DeclareKeepsStorage
  <2>4. ASSUME NEW name \in Names, RejectDecl(name) PROVE StorageInv'
    BY <2>4 DEF RejectDecl, StorageInv
  <2>5. CASE Enter
    <3> DEFINE new == [symbols    |-> EmptyMap,
                       nextOffset |-> scopes[Current].nextOffset]
    <3>1. new \in Scope /\ scopes \in Seq(Scope) /\ scopes' = Append(scopes, new)
      BY <2>1, <2>5 DEF Enter, Scope, EmptyMap, TypeOK
    <3>2. /\ DOMAIN scopes' = 1 .. (Current + 1)
          /\ \A i \in 1 .. Current : scopes'[i] = scopes[i]
          /\ scopes'[Current + 1] = new
      BY <2>1, <3>1, AppendProperties DEF Current
    <3>3. FirstOffset \in Nat /\ \A i \in DOMAIN scopes : scopes[i].nextOffset \in Nat
      BY <2>1, TableAssumption DEF Scope
    <3>4. \A i \in DOMAIN scopes : scopes[i].nextOffset <= scopes[Current].nextOffset
      BY <2>1, <3>3 DEF StorageInv, Within
    <3>5. Stacked(new) /\ Within(new, FirstOffset)
      BY <2>1, <3>3 DEF Stacked, Within, EmptyMap, Undeclared, StorageInv
    <3>6. \A i \in DOMAIN scopes : Within(new, scopes[i].nextOffset)
      BY <3>4 DEF Within, EmptyMap, Undeclared
    <3> HIDE DEF new
    <3> QED
      BY <2>1, <3>2, <3>5, <3>6 DEF StorageInv
  <2>6. CASE Leave
    <3>1. /\ DOMAIN scopes' = 1 .. (Current - 1)
          /\ \A i \in 1 .. (Current - 1) : scopes'[i] = scopes[i]
      <4>1. scopes' = SubSeq(scopes, 1, Current - 1) /\ Current > 1
        BY <2>6 DEF Leave, Current
      <4> QED
        BY <2>1, <4>1, SubSeqProperties
    <3> QED
      BY <2>1, <3>1 DEF StorageInv
  <2>7. CASE UNCHANGED vars
    BY <2>7 DEF vars, StorageInv
  <2> QED
    BY <2>2, <2>3, <2>4, <2>5, <2>6, <2>7 DEF Next
<1> QED
  BY <1>1, <1>2, TypeCorrect, PTL DEF Spec

\* Two variables of the open scopes never share a byte, and none lies in the
\* heap's header: Scope::decl and SymbolTable::enter agree on nextOffset.
THEOREM StorageIsDisjoint == Spec => []StorageDisjoint
<1>1. TypeOK /\ StorageInv => StorageDisjoint
  <2> SUFFICES ASSUME TypeOK, StorageInv,
                      NEW i \in DOMAIN scopes, NEW j \in DOMAIN scopes,
                      NEW n \in Names, NEW m \in Names
               PROVE  LET s == scopes[i].symbols[n]
                          t == scopes[j].symbols[m]
                      IN  /\ \A b \in Storage(s) : b >= FirstOffset
                          /\ (<<i, n>> # <<j, m>>) => Storage(s) \cap Storage(t) = {}
    BY DEF StorageDisjoint
  <2> DEFINE s == scopes[i].symbols[n]
             t == scopes[j].symbols[m]
  <2>1. /\ scopes[i] \in Scope /\ scopes[j] \in Scope
        /\ i \in Int /\ j \in Int
    BY DEF TypeOK
  <2>2. /\ s.kind = "VARIABLE" => s.stackOffset \in Nat /\ SizeOf(s) \in Nat
        /\ t.kind = "VARIABLE" => t.stackOffset \in Nat /\ SizeOf(t) \in Nat
        /\ scopes[i].nextOffset \in Nat /\ scopes[j].nextOffset \in Nat
        /\ FirstOffset \in Nat
    BY <2>1, TableAssumption DEF Scope, Symbol, Undeclared, SizeOf
  <2>3. \A b \in Storage(s) : b >= FirstOffset
    BY <2>2 DEF StorageInv, Within, Storage, SizeOf
  <2>4. ASSUME s.kind = "VARIABLE", t.kind = "VARIABLE", <<i, n>> # <<j, m>>
        PROVE  \/ s.stackOffset + SizeOf(s) <= t.stackOffset
               \/ t.stackOffset + SizeOf(t) <= s.stackOffset
    <3>1. CASE i = j
      BY <2>4, <3>1 DEF StorageInv, Stacked
    <3>2. CASE i < j
      BY <2>2, <2>4, <3>2 DEF StorageInv, Within
    <3>3. CASE j < i
      BY <2>2, <2>4, <3>3 DEF StorageInv, Within
    <3> QED
      BY <2>1, <3>1, <3>2, <3>3
  <2>5. (<<i, n>> # <<j, m>>) => Storage(s) \cap Storage(t) = {}
    BY <2>2, <2>4 DEF Storage, SizeOf
  <2> QED
    BY <2>3, <2>5
<1> QED
  BY <1>1, TypeCorrect, StorageInductive, PTL

-----------------------------------------------------------------------------
(***************************************************************************)
(* Lookups.  The scope that lookup(name) finds the name in is the largest  *)
(* of a set of positions: it is there if the set is not empty.             *)
(***************************************************************************)
Less == {ss \in Nat \X Nat : ss[1] < ss[2]}

\* A non-empty set of naturals has a least element.
LEMMA LeastElement ==
    ASSUME NEW T \in SUBSET Nat, T # {}
    PROVE  \E x \in T : \A y \in T : x <= y
<1>1. IsWellFoundedOn(Less, Nat)
  BY NatLessThanWellFounded DEF OpToRel, Less
<1>2. PICK x \in T : \A y \in T : ~(<<y, x>> \in Less)
  BY <1>1, WFMin
<1>3. ASSUME NEW y \in T PROVE x <= y
  <2>1. y \in Nat /\ x \in Nat /\ ~(<<y, x>> \in Less)
    BY <1>2
  <2>2. ~(y < x)
    BY <2>1 DEF Less
  <2> QED
    BY <2>1, <2>2
<1> QED
  BY <1>3

\* A non-empty set of naturals with an upper bound has a greatest element.
LEMMA GreatestElement ==
    ASSUME NEW max \in Nat, NEW T \in SUBSET (0 .. max), T # {}
    PROVE  \E x \in T : \A y \in T : y <= x
<1> DEFINE Distances == {max - x : x \in T}
<1>1. Distances \in SUBSET Nat /\ Distances # {}
  <2>1. \A x \in T : x \in 0 .. max
    OBVIOUS
  <2>2. \A x \in T : max - x \in Nat
    BY <2>1
  <2> QED
    BY <2>2
<1>2. PICK d \in Distances : \A e \in Distances : d <= e
  <2> HIDE DEF Distances
  <2> QED
    BY <1>1, LeastElement
<1>3. PICK x \in T : d = max - x
  OBVIOUS
<1>4. \A y \in T : max - x <= max - y
  BY <1>2, <1>3
<1>5. \A y \in T : y <= x
  BY <1>4
<1> QED
  BY <1>5

\* The scope that lookup(name) looks in: the innermost that knows the name.
Innermost(name, i) ==
    /\ i \in DOMAIN scopes
    /\ Declares(scopes[i], name)
    /\ \A m \in DOMAIN scopes : Declares(scopes[m], name) => m <= i

LEMMA InnermostExists ==
    ASSUME TypeOK, NEW name \in Names, Visible(name)
    PROVE  \E i \in DOMAIN scopes : Innermost(name, i)
<1> DEFINE T == {i \in DOMAIN scopes : Declares(scopes[i], name)}
<1>1. Len(scopes) \in Nat /\ T \in SUBSET (0 .. Len(scopes)) /\ T # {}
  BY DEF TypeOK, Visible
<1>2. PICK i \in T : \A m \in T : m <= i
  <2> HIDE DEF T
  <2> QED
    BY <1>1, GreatestElement
<1> QED
  BY <1>2 DEF Innermost

LEMMA LookupInnermost ==
    ASSUME TypeOK, NEW name \in Names, NEW i, Innermost(name, i)
    PROVE  Lookup(name) = scopes[i].symbols[name]
<1> DEFINE P(k) == /\ Declares(scopes[k], name)
                   /\ \A m \in DOMAIN scopes : Declares(scopes[m], name) => m <= k
<1>1. \A k \in DOMAIN scopes : P(k) => k = i
  BY DEF Innermost, TypeOK
<1>2. i \in DOMAIN scopes /\ P(i)
  BY DEF Innermost
<1>3. (CHOOSE k \in DOMAIN scopes : P(k)) = i
  BY <1>1, <1>2
<1> QED
  BY <1>3 DEF Lookup

\* Entering adds an empty scope on top of the chain.
LEMMA ScopeEntered ==
    ASSUME TypeOK, Enter
    PROVE  /\ DOMAIN scopes' = 1 .. (Current + 1)
           /\ \A i \in 1 .. Current : scopes'[i] = scopes[i]
           /\ scopes'[Current + 1].symbols = EmptyMap
           /\ Len(scopes') = Current + 1
<1> DEFINE new == [symbols    |-> EmptyMap,
                   nextOffset |-> scopes[Current].nextOffset]
<1>1. Current \in DOMAIN scopes /\ Current \in Nat /\ \A i \in DOMAIN scopes : scopes[i] \in Scope
  BY DEF TypeOK, Current
<1>2. new \in Scope /\ scopes \in Seq(Scope) /\ scopes' = Append(scopes, new)
  BY <1>1 DEF Enter, Scope, EmptyMap, TypeOK
<1>3. new.symbols = EmptyMap
  OBVIOUS
<1> HIDE DEF new
<1> QED
  BY <1>1, <1>2, <1>3, AppendProperties DEF Current

\* Leaving takes the innermost scope away.
LEMMA ScopeLeft ==
    ASSUME TypeOK, Leave
    PROVE  /\ DOMAIN scopes' = 1 .. (Current - 1)
           /\ \A i \in 1 .. (Current - 1) : scopes'[i] = scopes[i]
           /\ Current > 1
           /\ Len(scopes') = Current - 1
<1>1. scopes' = SubSeq(scopes, 1, Current - 1) /\ Current > 1
  BY DEF Leave, Current
<1>2. /\ DOMAIN scopes = 1 .. Current
      /\ Current \in Nat
      /\ \A i \in DOMAIN scopes : scopes[i] \in Scope
  BY DEF TypeOK, Current
<1> QED
  BY <1>1, <1>2, SubSeqProperties

(***************************************************************************)
(* Ids.  The symbols of the open scopes have ids below the next one, and   *)
(* no two have the same.                                                   *)
(***************************************************************************)
IdsInv ==
    /\ \A i \in DOMAIN scopes, n \in Names :
          Declares(scopes[i], n) => scopes[i].symbols[n].symbolId < nextSymbolId
    /\ \A i, j \in DOMAIN scopes, n, m \in Names :
          (/\ Declares(scopes[i], n) /\ Declares(scopes[j], m)
           /\ scopes[i].symbols[n].symbolId = scopes[j].symbols[m].symbolId)
              => i = j /\ n = m

\* A declaration takes the next id.
LEMMA DeclareKeepsIds ==
    ASSUME TypeOK, IdsInv, NEW name \in Names, NEW sym \in Symbol,
           sym.symbolId = nextSymbolId,
           scopes' = [scopes EXCEPT ![Current] = Bind(scopes[Current], name, sym)],
           nextSymbolId' = nextSymbolId + 1
    PROVE  IdsInv'
<1> DEFINE symbolOf(i, n) == scopes[i].symbols[n]
<1>1. /\ Current \in DOMAIN scopes
      /\ \A i \in DOMAIN scopes : scopes[i] \in Scope
      /\ nextSymbolId \in Nat
  BY DEF TypeOK, Current
<1>2. /\ DOMAIN scopes' = DOMAIN scopes
      /\ \A i \in DOMAIN scopes, n \in Names :
            scopes'[i].symbols[n] =
              IF i = Current /\ n = name THEN sym ELSE scopes[i].symbols[n]
  BY <1>1 DEF Bind, Scope
<1>3. \A i \in DOMAIN scopes, n \in Names :
          Declares(scopes[i], n) => scopes[i].symbols[n].symbolId \in Nat
  BY <1>1 DEF Scope, Symbol, Undeclared, Declares
<1>4. \A i \in DOMAIN scopes, n \in Names :
          Declares(scopes'[i], n) =>
            IF i = Current /\ n = name
            THEN scopes'[i].symbols[n].symbolId = nextSymbolId
            ELSE /\ Declares(scopes[i], n)
                 /\ scopes'[i].symbols[n].symbolId = scopes[i].symbols[n].symbolId
                 /\ scopes'[i].symbols[n].symbolId < nextSymbolId
  BY <1>2 DEF Declares, IdsInv
<1>5. \A i \in DOMAIN scopes', n \in Names :
          Declares(scopes'[i], n) => scopes'[i].symbols[n].symbolId < nextSymbolId'
  BY <1>1, <1>2, <1>3, <1>4
<1>6. ASSUME NEW i \in DOMAIN scopes', NEW j \in DOMAIN scopes',
             NEW n \in Names, NEW m \in Names,
             Declares(scopes'[i], n), Declares(scopes'[j], m),
             scopes'[i].symbols[n].symbolId = scopes'[j].symbols[m].symbolId
      PROVE  i = j /\ n = m
  BY <1>1, <1>2, <1>3, <1>4, <1>6 DEF IdsInv
<1> QED
  BY <1>5, <1>6 DEF IdsInv, Declares

LEMMA IdsInductive == Spec => []IdsInv
<1>1. Init => IdsInv
  BY DEF Init, IdsInv, Declares, EmptyMap, Undeclared
<1>2. TypeOK /\ IdsInv /\ [Next]_vars => IdsInv'
  <2> SUFFICES ASSUME TypeOK, IdsInv, [Next]_vars PROVE IdsInv'
    OBVIOUS
  <2>1. /\ Current \in DOMAIN scopes
        /\ DOMAIN scopes = 1 .. Current
        /\ Current \in Nat
        /\ \A i \in DOMAIN scopes : scopes[i] \in Scope
    BY DEF TypeOK, Current
  <2>2. ASSUME NEW name \in Names, NEW type \in Types, Decl(name, type)
        PROVE  IdsInv'
    <3> DEFINE sym == [symbolId    |-> nextSymbolId,
                       kind        |-> "VARIABLE",
                       type        |-> type,
                       stackOffset |-> scopes[Current].nextOffset]
    <3>1. sym \in Symbol /\ sym.symbolId = nextSymbolId
      BY <2>1 DEF Symbol, Kinds, Scope, TypeOK
    <3>2. /\ scopes' = [scopes EXCEPT ![Current] = Bind(scopes[Current], name, sym)]
          /\ nextSymbolId' = nextSymbolId + 1
      BY <2>2 DEF Decl
    <3> HIDE DEF sym
    <3> QED
      BY <3>1, <3>2, DeclareKeepsIds
  <2>3. ASSUME NEW name \in Names, NEW type \in Types, DeclFn(name, type)
        PROVE  IdsInv'
    <3> DEFINE sym == [symbolId    |-> nextSymbolId,
                       kind        |-> "FUNCTION",
                       type        |-> type,
                       stackOffset |-> 0]
    <3>1. sym \in Symbol /\ sym.symbolId = nextSymbolId
      BY DEF Symbol, Kinds, TypeOK
    <3>2. /\ scopes' = [scopes EXCEPT ![Current] = Bind(scopes[Current], name, sym)]
          /\ nextSymbolId' = nextSymbolId + 1
      BY <2>3 DEF DeclFn
    <3> HIDE DEF sym
    <3> QED
      BY <3>1, <3>2, DeclareKeepsIds
  <2>4. ASSUME NEW name \in Names, RejectDecl(name) PROVE IdsInv'
    BY <2>4 DEF RejectDecl, IdsInv, Declares
  <2>5. CASE Enter
    <3>1. /\ DOMAIN scopes' = 1 .. (Current + 1)
          /\ \A i \in 1 .. Current : scopes'[i] = scopes[i]
          /\ scopes'[Current + 1].symbols = EmptyMap
      BY <2>1, <2>5, ScopeEntered
    <3>2. \A i \in DOMAIN scopes', n \in Names :
              Declares(scopes'[i], n) => i \in DOMAIN scopes /\ scopes'[i] = scopes[i]
      BY <2>1, <3>1 DEF Declares, EmptyMap, Undeclared
    <3> QED
      BY <2>5, <3>2 DEF Enter, IdsInv, Declares
  <2>6. CASE Leave
    <3>1. /\ DOMAIN scopes' = 1 .. (Current - 1)
          /\ \A i \in 1 .. (Current - 1) : scopes'[i] = scopes[i]
      BY <2>6, ScopeLeft
    <3> QED
      BY <2>1, <2>6, <3>1 DEF Leave, IdsInv, Declares
  <2>7. CASE UNCHANGED vars
    BY <2>7 DEF vars, IdsInv, Declares
  <2> QED
    BY <2>2, <2>3, <2>4, <2>5, <2>6, <2>7 DEF Next
<1> QED
  BY <1>1, <1>2, TypeCorrect, PTL DEF Spec

\* Looking a visible symbol up by its id gives that symbol and no other,
\* because no two open scopes, and no two names, have a symbol with one id
\* (SymbolTable::lookup).
THEOREM IdLookupIsExact == Spec => []IdLookupAgrees
<1>1. TypeOK /\ IdsInv => IdLookupAgrees
  <2> SUFFICES ASSUME TypeOK, IdsInv, NEW n \in Names, Visible(n)
               PROVE  LookupId(Lookup(n).symbolId) = {Lookup(n)}
    BY DEF IdLookupAgrees
  <2>1. PICK i \in DOMAIN scopes : Innermost(n, i)
    BY InnermostExists
  <2> DEFINE sym == scopes[i].symbols[n]
             Matches(k) == {scopes[k].symbols[x] : x \in {m \in Names :
                              /\ Declares(scopes[k], m)
                              /\ scopes[k].symbols[m].symbolId = sym.symbolId}}
  <2>2. Lookup(n) = sym
    BY <2>1, LookupInnermost
  <2>3. Declares(scopes[i], n)
    BY <2>1 DEF Innermost
  <2>4. Matches(i) = {sym}
    BY <2>3 DEF IdsInv
  <2>5. \A k \in DOMAIN scopes : k # i => Matches(k) = {}
    BY <2>3 DEF IdsInv
  <2> DEFINE Inner == {k \in DOMAIN scopes :
                         /\ Matches(k) # {}
                         /\ \A m \in DOMAIN scopes : Matches(m) # {} => m <= k}
  <2>6. LookupId(sym.symbolId) = UNION {Matches(k) : k \in Inner}
    BY DEF LookupId
  <2> HIDE DEF Matches
  <2>7. Inner = {i}
    <3>1. i \in Int
      BY DEF TypeOK
    <3>2. \A k \in DOMAIN scopes : Matches(k) # {} => k = i
      BY <2>5
    <3>3. Matches(i) # {}
      BY <2>4
    <3> QED
      BY <3>1, <3>2, <3>3
  <2> HIDE DEF Inner
  <2>8. UNION {Matches(k) : k \in Inner} = {sym}
    BY <2>4, <2>7
  <2> QED
    BY <2>2, <2>6, <2>8
<1> QED
  BY <1>1, TypeCorrect, IdsInductive, PTL

-----------------------------------------------------------------------------
(***************************************************************************)
(* Bindings.  A step that leaves the innermost scope of a name, and the    *)
(* symbol in it, as they are does not change what lookup returns.          *)
(***************************************************************************)
LEMMA BindingKept ==
    ASSUME TypeOK, TypeOK', NEW name \in Names, NEW i, Innermost(name, i),
           Innermost(name, i)',
           scopes'[i].symbols[name] = scopes[i].symbols[name]
    PROVE  Visible(name)' /\ Lookup(name)' = Lookup(name)
<1> DEFINE P(k) == /\ Declares(scopes'[k], name)
                   /\ \A m \in DOMAIN scopes' : Declares(scopes'[m], name) => m <= k
<1>1. i \in DOMAIN scopes' /\ P(i)
  BY DEF Innermost, Declares
<1>2. \A k \in DOMAIN scopes' : P(k) => k = i
  BY <1>1 DEF TypeOK
<1>3. (CHOOSE k \in DOMAIN scopes' : P(k)) = i
  BY <1>1, <1>2
<1>4. Lookup(name)' = scopes'[i].symbols[name]
  BY <1>3 DEF Lookup, Declares
<1>5. Visible(name)'
  BY <1>1 DEF Visible, Declares
<1> QED
  BY <1>4, <1>5, LookupInnermost

\* A declaration of another name leaves a binding as it is.
LEMMA DeclareKeepsBinding ==
    ASSUME TypeOK, NEW name \in Names, NEW other \in Names, other # name,
           NEW sym, NEW i, Innermost(name, i),
           scopes' = [scopes EXCEPT ![Current] = Bind(scopes[Current], other, sym)]
    PROVE  /\ Innermost(name, i)'
           /\ scopes'[i].symbols[name] = scopes[i].symbols[name]
<1>1. /\ Current \in DOMAIN scopes
      /\ \A k \in DOMAIN scopes : scopes[k] \in Scope
  BY DEF TypeOK, Current
<1>2. /\ DOMAIN scopes' = DOMAIN scopes
      /\ \A k \in DOMAIN scopes : scopes'[k].symbols[name] = scopes[k].symbols[name]
  BY <1>1 DEF Bind, Scope
<1> QED
  BY <1>2 DEF Innermost, Declares

\* What lookup returns for a name changes only by a declaration of that name
\* in the current scope, where there was none, or by the end of the scope
\* that declared it: the parser's other steps never rebind a name.
THEOREM BindingsAreStable == Spec => BindingsStable
<1> DEFINE Changed(n) == Visible(n) /\ (IF Visible(n)' THEN Lookup(n)' # Lookup(n) ELSE TRUE)
           Declared(n) == /\ Len(scopes') = Len(scopes)
                          /\ Declares(scopes'[Current], n) /\ ~Declares(scopes[Current], n)
           Closed(n) == /\ Len(scopes') = Len(scopes) - 1
                        /\ Declares(scopes[Current], n)
<1>1. ASSUME TypeOK, TypeOK', Next, NEW n \in Names, Changed(n)
      PROVE  Declared(n) \/ Closed(n)
  <2>1. PICK i \in DOMAIN scopes : Innermost(n, i)
    BY <1>1, InnermostExists
  <2>2. SUFFICES ASSUME ~(/\ Innermost(n, i)'
                          /\ scopes'[i].symbols[n] = scopes[i].symbols[n])
                 PROVE  Declared(n) \/ Closed(n)
    BY <1>1, <2>1, BindingKept
  <2>3. /\ Current \in DOMAIN scopes
        /\ DOMAIN scopes = 1 .. Current
        /\ Current \in Nat
        /\ \A k \in DOMAIN scopes : scopes[k] \in Scope
    BY <1>1 DEF TypeOK, Current
  <2>4. ASSUME NEW other \in Names, NEW sym, MayDeclare(other), sym.kind \in Kinds,
               scopes' = [scopes EXCEPT ![Current] = Bind(scopes[Current], other, sym)]
        PROVE  Declared(n)
    <3>1. other = n
      BY <1>1, <2>1, <2>2, <2>4, DeclareKeepsBinding
    <3>2. ~Declares(scopes[Current], n)
      BY <2>4, <3>1 DEF MayDeclare
    <3>3. scopes'[Current].symbols[n] = sym
      BY <2>3, <2>4, <3>1 DEF Bind, Scope
    <3>4. Declares(scopes'[Current], n)
      BY <2>4, <3>3 DEF Declares, Kinds
    <3>5. Len(scopes') = Len(scopes)
      BY <1>1, <2>4 DEF TypeOK
    <3> QED
      BY <3>2, <3>4, <3>5
  <2>5. ASSUME NEW other \in Names, NEW type \in Types, Decl(other, type)
        PROVE  Declared(n)
    <3> DEFINE sym == [symbolId    |-> nextSymbolId,
                       kind        |-> "VARIABLE",
                       type        |-> type,
                       stackOffset |-> scopes[Current].nextOffset]
    <3>1. /\ sym.kind \in Kinds /\ MayDeclare(other)
          /\ scopes' = [scopes EXCEPT ![Current] = Bind(scopes[Current], other, sym)]
      BY <2>5 DEF Decl, Kinds
    <3> HIDE DEF sym, Declared
    <3> QED
      BY <3>1, <2>4
  <2>6. ASSUME NEW other \in Names, NEW type \in Types, DeclFn(other, type)
        PROVE  Declared(n)
    <3> DEFINE sym == [symbolId    |-> nextSymbolId,
                       kind        |-> "FUNCTION",
                       type        |-> type,
                       stackOffset |-> 0]
    <3>1. /\ sym.kind \in Kinds /\ MayDeclare(other)
          /\ scopes' = [scopes EXCEPT ![Current] = Bind(scopes[Current], other, sym)]
      BY <2>6 DEF DeclFn, Kinds
    <3> HIDE DEF sym, Declared
    <3> QED
      BY <3>1, <2>4
  <2>7. ASSUME NEW other \in Names, RejectDecl(other) PROVE FALSE
    BY <2>1, <2>2, <2>7 DEF RejectDecl, Innermost, Declares
  <2>8. CASE Enter
    <3>1. /\ DOMAIN scopes' = 1 .. (Current + 1)
          /\ \A k \in 1 .. Current : scopes'[k] = scopes[k]
          /\ scopes'[Current + 1].symbols = EmptyMap
      BY <1>1, <2>8, ScopeEntered
    <3>2. \A k \in DOMAIN scopes' : Declares(scopes'[k], n) =>
              k \in DOMAIN scopes /\ Declares(scopes[k], n)
      BY <2>3, <3>1 DEF Declares, EmptyMap, Undeclared
    <3>3. i \in DOMAIN scopes' /\ scopes'[i] = scopes[i]
      BY <2>3, <3>1
    <3> QED
      BY <2>1, <2>2, <3>2, <3>3 DEF Innermost, Declares
  <2>9. CASE Leave
    <3>1. /\ DOMAIN scopes' = 1 .. (Current - 1)
          /\ \A k \in 1 .. (Current - 1) : scopes'[k] = scopes[k]
          /\ Len(scopes') = Current - 1
      BY <1>1, <2>9, ScopeLeft
    <3>2. CASE i = Current
      BY <2>1, <3>1, <3>2 DEF Innermost, Current
    <3>3. CASE i # Current
      <4>1. i \in 1 .. (Current - 1)
        BY <2>3, <3>3
      <4> QED
        BY <2>1, <2>2, <2>3, <3>1, <4>1 DEF Innermost, Declares
    <3> QED
      BY <3>2, <3>3
  <2> QED
    BY <1>1, <2>5, <2>6, <2>7, <2>8, <2>9 DEF Next
<1>2. TypeOK /\ TypeOK' /\ [Next]_vars =>
        [\A n \in Names :
          (Visible(n) /\ (IF Visible(n)' THEN Lookup(n)' # Lookup(n) ELSE TRUE)) =>
             \/ /\ Len(scopes') = Len(scopes)
                /\ Declares(scopes'[Current], n) /\ ~Declares(scopes[Current], n)
             \/ /\ Len(scopes') = Len(scopes) - 1
                /\ Declares(scopes[Current], n)]_vars
  BY <1>1
<1> QED
  BY <1>2, TypeCorrect, PTL DEF Spec, BindingsStable

-----------------------------------------------------------------------------
(***************************************************************************)
(* The parser.                                                             *)
(***************************************************************************)
pvars == <<vars, parserVars>>

AnyToken == Tokens \union {EndOfFile}

\* What a token's type says of its text.
LEMMA TokenTypes ==
    ASSUME NEW t \in AnyToken
    PROVE  /\ t.type = "Identifier" => t.text \in Names
           /\ t.type = "TypeKeyword" => t.text \in Types
           /\ t.type = "EndOfFile" <=> t = EndOfFile
           /\ t.type # "EndOfFile" => t \in Tokens
<1>1. CASE t = EndOfFile
  BY <1>1 DEF EndOfFile
<1>2. CASE t \in Tokens
  <2>1. t \in [type : Bare, text : {""}] => t.type \notin {"Identifier", "TypeKeyword", "EndOfFile"}
    BY ParserAssumption DEF Bare
  <2>2. t.type # "EndOfFile"
    BY <1>2, <2>1 DEF Tokens
  <2>3. t # EndOfFile
    <3>1. EndOfFile.type = "EndOfFile"
      BY DEF EndOfFile
    <3> QED
      BY <2>2, <3>1
  <2>4. t.type = "Identifier" => t.text \in Names
    BY <1>2, <2>1 DEF Tokens
  <2>5. t.type = "TypeKeyword" => t.text \in Types
    BY <1>2, <2>1 DEF Tokens
  <2> QED
    BY <1>2, <2>2, <2>3, <2>4, <2>5
<1> QED
  BY <1>1, <1>2 DEF AnyToken

-----------------------------------------------------------------------------
(***************************************************************************)
(* The tokens ahead.  Every step takes none of them, or one or two that    *)
(* are not the end of the file, or gives up.                               *)
(***************************************************************************)
TokensOK ==
    /\ ahead \in Seq(AnyToken)
    /\ Len(ahead) <= 2
    /\ read \in Seq(Tokens)

LEMMA ReadyToken ==
    ASSUME TokensOK, Ready
    PROVE  /\ ahead # <<>>
           /\ ahead[1] \in AnyToken
           /\ NextType = ahead[1].type
BY DEF TokensOK, Ready, Lookahead, NextType

ReadSame == read' \in {read, <<>>}

TakesNone == ahead' = ahead /\ ReadSame

TakesOne ==
    /\ ahead # <<>>
    /\ ahead[1].type # "EndOfFile"
    /\ ahead' = Tail(ahead)
    /\ read' \in {read, <<>>, Append(read, ahead[1])}

TakesTwo ==
    /\ Len(ahead) = 2
    /\ ahead[1].type # "EndOfFile" /\ ahead[2].type # "EndOfFile"
    /\ ahead' = Tail(Tail(ahead))
    /\ ReadSame

GivesUp == phase' = "refused" /\ ahead' = <<>> /\ read' = <<>> /\ stack' = <<>>

LEMMA ExpressionsTake ==
    ASSUME TokensOK, Expressions
    PROVE  TakesNone \/ TakesOne \/ GivesUp
<1>1. CASE Parenthesis \/ CloseParenthesis \/ Literal \/ Name
  BY <1>1, ReadyToken DEF Parenthesis, CloseParenthesis, Literal, Name, NextIs, Take, TakesOne
<1>2. CASE BeginCall \/ EndCall
  BY <1>2, ReadyToken DEF BeginCall, EndCall, NextIs, Take, TakesOne
<1>3. CASE NextArgument
  BY <1>3, ReadyToken DEF NextArgument, Take, TakesOne, TakesNone, ReadSame
<1>4. CASE Operator
  BY <1>4, ReadyToken DEF Operator, Binds, IsBinop, Take, TakesOne
<1>5. CASE EndPostfix \/ EndExpression
  BY <1>5 DEF EndPostfix, EndExpression, TakesNone, ReadSame
<1>6. CASE RefusePrimary \/ RefuseCall \/ RefuseOperands
  BY <1>6 DEF RefusePrimary, RefuseCall, RefuseOperands, Refuse, GiveUp, GivesUp
<1> QED
  BY <1>1, <1>2, <1>3, <1>4, <1>5, <1>6 DEF Expressions

LEMMA DeclarationsTake ==
    ASSUME TokensOK, Declarations
    PROVE  TakesOne \/ GivesUp
<1>1. CASE DeclaredType \/ DeclareVariable \/ ReturnType \/ DeclareFunction
  BY <1>1, ReadyToken
  DEF DeclaredType, DeclareVariable, ReturnType, DeclareFunction, NextIs, Skip, TakesOne
<1>2. CASE OpenParameters \/ ParameterType \/ DeclareParameter \/ CloseParameters \/ BeginBlock
  BY <1>2, ReadyToken
  DEF OpenParameters, ParameterType, DeclareParameter, CloseParameters, BeginBlock,
      NextIs, Skip, TakesOne
<1>3. CASE Initialiser \/ EndDeclaration \/ EndBlock
  BY <1>3, ReadyToken
  DEF Initialiser, EndDeclaration, EndBlock, NextIs, GotoExpression, Finish, TakesOne
<1>4. CASE RefuseName
  BY <1>4 DEF RefuseName, GiveUp, GivesUp
<1> QED
  BY <1>1, <1>2, <1>3, <1>4 DEF Declarations

LEMMA StatementsTake ==
    ASSUME TokensOK, Statements
    PROVE  TakesNone \/ TakesOne \/ TakesTwo \/ GivesUp
<1>1. CASE BeginReturn \/ GlobalFunction
  BY <1>1, ReadyToken DEF BeginReturn, GlobalFunction, NextIs, Skip, TakesOne
<1>2. CASE ReturnValue \/ LocalDeclaration \/ GlobalDeclaration \/ ExpressionStatement \/ EndParse
  BY <1>2
  DEF ReturnValue, LocalDeclaration, GlobalDeclaration, ExpressionStatement, EndParse,
      GotoExpression, TakesNone, ReadSame
<1>3. CASE EndReturn
  <2>1. Ready /\ ahead' = (IF NextType = "Semicolon" THEN Tail(ahead) ELSE ahead) /\ read' = <<>>
    BY <1>3 DEF EndReturn, Finish
  <2> QED
    BY <2>1, ReadyToken DEF TakesNone, TakesOne, ReadSame
<1>4. CASE EndAssignment \/ EndStatement
  BY <1>4, ReadyToken DEF EndAssignment, EndStatement, NextIs, Finish, TakesOne
<1>5. CASE Assignment
  <2>1. ahead # <<>> /\ ahead[1].type = "Identifier" /\ ahead[2].type = "Assign"
    BY <1>5, ReadyToken DEF Assignment, IsAssignment, NextIs
  <2>2. Len(ahead) = 2
    <3>1. At("body") /\ Ready
      BY <1>5 DEF Assignment, IsAssignment, NextIs
    <3>2. Lookahead = 2
      BY <2>1, <3>1 DEF Lookahead
    <3>3. Len(ahead) \in Nat /\ Len(ahead) <= 2
      BY DEF TokensOK
    <3>4. Len(ahead) >= 2
      BY <3>1, <3>2 DEF Ready
    <3>5. \A n \in Nat : n <= 2 /\ n >= 2 => n = 2
      OBVIOUS
    <3> QED
      BY <3>3, <3>4, <3>5
  <2> QED
    BY <1>5, <2>1, <2>2 DEF Assignment, TakesTwo, ReadSame
<1>6. CASE RefuseAssignment
  BY <1>6 DEF RefuseAssignment, Refuse, GiveUp, GivesUp
<1> QED
  BY <1>1, <1>2, <1>3, <1>4, <1>5, <1>6 DEF Statements

LEMMA StepsTake ==
    ASSUME TokensOK, ParserNext
    PROVE  Supply \/ TakesNone \/ TakesOne \/ TakesTwo \/ GivesUp
<1>1. CASE RefuseToken
  BY <1>1 DEF RefuseToken, Refuse, GiveUp, GivesUp
<1> QED
  BY <1>1, ExpressionsTake, DeclarationsTake, StatementsTake DEF ParserNext

\* A token more is looked at while the end of the file is not there.
LEMMA SupplyKeepsTokens ==
    ASSUME TokensOK, Supply
    PROVE  TokensOK' /\ (EndIsAhead => EndIsAhead')
<1>1. PICK t \in AnyToken : ahead' = Append(ahead, t)
  BY DEF Supply, Upcoming, AnyToken
<1>2. Len(ahead) < 2 /\ read' = read
  BY DEF Supply, Lookahead, TokensOK, parserVars
<1> QED
  BY <1>1, <1>2 DEF TokensOK, EndIsAhead

LEMMA EmptyRead == <<>> \in Seq(Tokens)
OBVIOUS

LEMMA TakingKeepsTokens ==
    ASSUME TokensOK, TakesNone \/ TakesOne \/ TakesTwo \/ GivesUp
    PROVE  TokensOK' /\ (EndIsAhead /\ phase' # "refused" => EndIsAhead')
<1>1. CASE TakesNone
  <2>1. ahead' = ahead /\ (read' = read \/ read' = <<>>)
    BY <1>1 DEF TakesNone, ReadSame
  <2>2. read' \in Seq(Tokens)
    BY <2>1, EmptyRead DEF TokensOK
  <2>3. EndIsAhead => EndIsAhead'
    BY <2>1 DEF EndIsAhead
  <2> QED
    BY <2>1, <2>2, <2>3 DEF TokensOK
<1>2. CASE TakesOne
  <2>0. ahead # <<>> /\ ahead[1] \in AnyToken /\ ahead[1].type # "EndOfFile"
    BY <1>2 DEF TakesOne, TokensOK
  <2>1. ahead # <<>> /\ ahead[1] # EndOfFile /\ ahead[1] \in Tokens
    BY <2>0, TokenTypes
  <2>2. /\ ahead' \in Seq(AnyToken) /\ Len(ahead') = Len(ahead) - 1
        /\ \A i \in 1 .. Len(ahead) - 1 : ahead'[i] = ahead[i + 1]
    BY <1>2, <2>1 DEF TakesOne, TokensOK
  <2>3. read' \in Seq(Tokens)
    <3>1. read' = read \/ read' = <<>> \/ read' = Append(read, ahead[1])
      BY <1>2 DEF TakesOne
    <3>2. read \in Seq(Tokens)
      BY DEF TokensOK
    <3>3. Append(read, ahead[1]) \in Seq(Tokens)
      BY <2>1, <3>2
    <3> QED
      BY <3>1, <3>2, <3>3, EmptyRead
  <2>4. ASSUME NEW i \in DOMAIN ahead, ahead[i] = EndOfFile
        PROVE  i - 1 \in DOMAIN ahead' /\ ahead'[i - 1] = EndOfFile
    BY <2>1, <2>2, <2>4 DEF TokensOK
  <2> QED
    BY <2>2, <2>3, <2>4 DEF TokensOK, EndIsAhead
<1>3. CASE TakesTwo
  <2>1. ahead[1] # EndOfFile /\ ahead[2] # EndOfFile
    <3>1. EndOfFile.type = "EndOfFile"
      BY DEF EndOfFile
    <3> QED
      BY <1>3, <3>1 DEF TakesTwo
  <2>2. ahead \in Seq(AnyToken) /\ Len(ahead) = 2
    BY <1>3 DEF TakesTwo, TokensOK
  <2>3. ~EndIsAhead
    BY <2>1, <2>2 DEF EndIsAhead
  <2>4. ahead' \in Seq(AnyToken) /\ Len(ahead') = 0
    <3>1. Tail(ahead) \in Seq(AnyToken) /\ Len(Tail(ahead)) = 1
      BY <2>2
    <3>2. ahead' = Tail(Tail(ahead))
      BY <1>3 DEF TakesTwo
    <3> QED
      BY <3>1, <3>2
  <2>5. read' = read \/ read' = <<>>
    BY <1>3 DEF TakesTwo, ReadSame
  <2>6. read' \in Seq(Tokens)
    BY <2>5, EmptyRead DEF TokensOK
  <2> QED
    BY <2>3, <2>4, <2>6 DEF TokensOK
<1>4. CASE GivesUp
  BY <1>4 DEF GivesUp, TokensOK
<1> QED
  BY <1>1, <1>2, <1>3, <1>4

LEMMA TokensInductive == ParserSpec => []TokensOK
<1>1. ParserInit => TokensOK
  BY DEF ParserInit, TokensOK
<1>2. TokensOK /\ [ParserNext]_pvars => TokensOK'
  <2>1. TokensOK /\ ParserNext => TokensOK'
    BY StepsTake, SupplyKeepsTokens, TakingKeepsTokens
  <2>2. TokensOK /\ UNCHANGED pvars => TokensOK'
    BY DEF pvars, parserVars, TokensOK
  <2> QED
    BY <2>1, <2>2
<1> QED
  BY <1>1, <1>2, PTL DEF ParserSpec, pvars

\* The parser never moves beyond the token that ends the file, however its
\* functions call each other: each consumes only tokens that it has compared
\* with a type that is not the end's (compiler.cpp, expr.cpp).
THEOREM ParserStaysInFile == ParserSpec => EndOfFileStays
<1>1. TokensOK /\ [ParserNext]_pvars =>
        [EndIsAhead /\ phase' # "refused" => EndIsAhead']_<<vars, parserVars>>
  BY StepsTake, SupplyKeepsTokens, TakingKeepsTokens DEF pvars
<1> QED
  BY <1>1, TokensInductive, PTL DEF ParserSpec, pvars, EndOfFileStays

-----------------------------------------------------------------------------
(***************************************************************************)
(* The stack.  A frame that waits for a name knows the type to declare it  *)
(* with; the frames of a function's head and body lie at the bottom only.  *)
(***************************************************************************)
BodyFrames == {"block", "body"}

FunctionFrames ==
    BodyFrames \union {"functionType", "functionName", "functionOpen",
                       "parameters", "parameterName", "parametersEnd"}

FrameOK(f) ==
    f.at \in {"variableName", "functionName", "parameterName"} => f.type \in Types

StackOK(s) ==
    /\ \E S : s \in Seq(S)
    /\ \A k \in DOMAIN s : FrameOK(s[k]) /\ (k > 1 => s[k].at \notin FunctionFrames)

\* A body is parsed.
InBodyOf(s) == s # <<>> /\ s[1].at \in BodyFrames

\* Frames that are put on others.
Plain(s) ==
    /\ \E S : s \in Seq(S)
    /\ \A k \in DOMAIN s : FrameOK(s[k]) /\ s[k].at \notin FunctionFrames

LEMMA PlainOne ==
    ASSUME NEW f, FrameOK(f), f.at \notin FunctionFrames
    PROVE  Plain(<<f>>) /\ <<f>> # <<>>
<1>1. <<f>> \in Seq({f}) /\ <<f>> # <<>>
  OBVIOUS
<1>2. \A k \in DOMAIN <<f>> : <<f>>[k] = f
  OBVIOUS
<1> QED
  BY <1>1, <1>2 DEF Plain

LEMMA PlainExpression ==
    ASSUME NEW min
    PROVE  Plain(Expression(min)) /\ Expression(min) # <<>>
<1> DEFINE f1 == [at |-> "operator", min |-> min, left |-> NoNode, op |-> ""]
           f2 == [at |-> "postfix"]
           f3 == [at |-> "primary"]
           S == {f1, f2, f3}
<1>1. f1.at = "operator" /\ f2.at = "postfix" /\ f3.at = "primary"
  OBVIOUS
<1>2. Expression(min) = <<f1, f2, f3>>
  BY DEF Expression
<1>3. f1 \in S /\ f2 \in S /\ f3 \in S
  OBVIOUS
<1> HIDE DEF f1, f2, f3, S
<1>4. <<f1, f2, f3>> \in Seq(S)
  BY <1>3
<1>5. \A k \in DOMAIN <<f1, f2, f3>> : <<f1, f2, f3>>[k] \in {f1, f2, f3}
  OBVIOUS
<1>6. <<f1, f2, f3>> # <<>>
  OBVIOUS
<1> QED
  BY <1>1, <1>2, <1>4, <1>5, <1>6 DEF Plain, FrameOK, FunctionFrames, BodyFrames

LEMMA PlainJoin ==
    ASSUME NEW s, Plain(s), NEW t, Plain(t)
    PROVE  Plain(s \o t) /\ (s # <<>> => s \o t # <<>>)
<1>1. PICK S : s \in Seq(S)
  BY DEF Plain
<1>2. PICK T : t \in Seq(T)
  BY DEF Plain
<1>3. s \in Seq(S \union T) /\ t \in Seq(S \union T)
  BY <1>1, <1>2
<1>4. /\ s \o t \in Seq(S \union T)
      /\ Len(s \o t) = Len(s) + Len(t)
      /\ \A k \in 1 .. Len(s) + Len(t) :
            (s \o t)[k] = IF k <= Len(s) THEN s[k] ELSE t[k - Len(s)]
  BY <1>3, ConcatProperties
<1>5. ASSUME NEW k \in DOMAIN (s \o t)
      PROVE  FrameOK((s \o t)[k]) /\ (s \o t)[k].at \notin FunctionFrames
  <2>1. CASE k <= Len(s)
    BY <1>3, <1>4, <2>1 DEF Plain
  <2>2. CASE ~(k <= Len(s))
    <3>1. k - Len(s) \in DOMAIN t
      BY <1>3, <1>4, <2>2
    <3> QED
      BY <1>3, <1>4, <2>2, <3>1 DEF Plain
  <2> QED
    BY <2>1, <2>2
<1> QED
  BY <1>3, <1>4, <1>5 DEF Plain

\* Frames put on a stack do not touch what lies below.
LEMMA PushKeepsStack ==
    ASSUME NEW s, StackOK(s), s # <<>>, NEW t, Plain(t)
    PROVE  StackOK(s \o t) /\ (InBodyOf(s \o t) <=> InBodyOf(s))
<1>1. PICK S : s \in Seq(S)
  BY DEF StackOK
<1>2. PICK T : t \in Seq(T)
  BY DEF Plain
<1>3. s \in Seq(S \union T) /\ t \in Seq(S \union T)
  BY <1>1, <1>2
<1>4. /\ s \o t \in Seq(S \union T)
      /\ Len(s \o t) = Len(s) + Len(t)
      /\ \A k \in 1 .. Len(s) + Len(t) :
            (s \o t)[k] = IF k <= Len(s) THEN s[k] ELSE t[k - Len(s)]
  BY <1>3, ConcatProperties
<1>5. ASSUME NEW k \in DOMAIN (s \o t)
      PROVE  FrameOK((s \o t)[k]) /\ (k > 1 => (s \o t)[k].at \notin FunctionFrames)
  <2>1. CASE k <= Len(s)
    BY <1>3, <1>4, <2>1 DEF StackOK
  <2>2. CASE ~(k <= Len(s))
    <3>1. k - Len(s) \in DOMAIN t
      BY <1>3, <1>4, <2>2
    <3> QED
      BY <1>3, <1>4, <2>2, <3>1 DEF Plain
  <2> QED
    BY <2>1, <2>2
<1>6. (s \o t)[1] = s[1] /\ s \o t # <<>>
  BY <1>3, <1>4
<1> QED
  BY <1>4, <1>5, <1>6 DEF StackOK, InBodyOf

\* The frames below the one on top.
LEMMA PopKeepsStack ==
    ASSUME NEW s, StackOK(s), s # <<>>, NEW b, b = SubSeq(s, 1, Len(s) - 1)
    PROVE  /\ StackOK(b)
           /\ Len(b) = Len(s) - 1
           /\ Len(s) = 1 => ~InBodyOf(b)
           /\ Len(s) # 1 => (InBodyOf(b) <=> InBodyOf(s))
<1>1. PICK S : s \in Seq(S)
  BY DEF StackOK
<1>2. Len(s) \in Nat /\ Len(s) # 0 /\ \A k \in 1 .. Len(s) : s[k] \in S
  BY <1>1
<1>3. /\ b \in Seq(S)
      /\ Len(b) = Len(s) - 1
      /\ \A k \in 1 .. Len(s) - 1 : b[k] = s[k]
  <2>1. PICK n \in Nat : n = Len(s) - 1
    BY <1>2
  <2>2. \A k \in 1 .. n : s[k] \in S
    BY <1>2, <2>1
  <2>3. 1 \in Int /\ n \in Int
    BY <2>1
  <2>4. /\ SubSeq(s, 1, n) \in Seq(S)
        /\ Len(SubSeq(s, 1, n)) = IF 1 <= n THEN n - 1 + 1 ELSE 0
        /\ \A k \in 1 .. n - 1 + 1 : SubSeq(s, 1, n)[k] = s[1 + k - 1]
    BY <2>2, <2>3, SubSeqProperties
  <2>5. Len(SubSeq(s, 1, n)) = n
    BY <2>1, <2>4
  <2>6. \A k \in 1 .. n : SubSeq(s, 1, n)[k] = s[k]
    BY <2>1, <2>4
  <2> QED
    BY <2>1, <2>4, <2>5, <2>6
<1>4. StackOK(b)
  <2>1. \A k \in DOMAIN b : k \in DOMAIN s /\ b[k] = s[k]
    BY <1>1, <1>2, <1>3
  <2> QED
    BY <1>3, <2>1 DEF StackOK
<1>5. Len(s) = 1 => b = <<>>
  BY <1>3
<1>6. Len(s) # 1 => b # <<>> /\ b[1] = s[1]
  <2>1. Len(s) # 1 => Len(b) # 0 /\ 1 \in 1 .. Len(s) - 1
    BY <1>2, <1>3
  <2>2. Len(<<>>) = 0
    OBVIOUS
  <2> QED
    BY <1>3, <2>1, <2>2
<1> QED
  BY <1>3, <1>4, <1>5, <1>6 DEF InBodyOf

\* The frame on top is another one now; the head of a function and its body
\* follow only on each other.
LEMMA GotoKeepsStack ==
    ASSUME NEW s, StackOK(s), s # <<>>, NEW b, b = SubSeq(s, 1, Len(s) - 1),
           NEW f, FrameOK(f),
           f.at \in FunctionFrames => s[Len(s)].at \in FunctionFrames
    PROVE  /\ StackOK(Append(b, f)) /\ Append(b, f) # <<>>
           /\ s[Len(s)].at \in FunctionFrames =>
                (InBodyOf(Append(b, f)) <=> f.at \in BodyFrames)
           /\ f.at \notin FunctionFrames /\ s[Len(s)].at \notin FunctionFrames =>
                (InBodyOf(Append(b, f)) <=> InBodyOf(s))
<1>1. PICK S : b \in Seq(S)
  BY PopKeepsStack DEF StackOK
<1>2. PICK S0 : s \in Seq(S0)
  BY DEF StackOK
<1>3. Len(s) \in Nat /\ Len(s) # 0 /\ Len(b) = Len(s) - 1 /\ StackOK(b)
  <2>1. Len(s) \in Nat /\ Len(s) # 0
    BY <1>2
  <2>2. Len(b) = Len(s) - 1 /\ StackOK(b)
    BY PopKeepsStack
  <2> QED
    BY <2>1, <2>2
<1> DEFINE T == S \union {f}
<1>4. b \in Seq(T) /\ f \in T
  BY <1>1
<1> HIDE DEF T
<1>5. /\ Append(b, f) \in Seq(T)
      /\ Len(Append(b, f)) = Len(s)
      /\ Append(b, f)[Len(s)] = f
      /\ \A k \in 1 .. Len(s) - 1 : Append(b, f)[k] = b[k]
  BY <1>3, <1>4, AppendProperties
<1>6. Append(b, f) # <<>>
  BY <1>3, <1>5
<1>7. s[Len(s)].at \in FunctionFrames => Len(s) = 1
  BY <1>2, <1>3 DEF StackOK
<1>8. ASSUME NEW k \in DOMAIN Append(b, f)
      PROVE  FrameOK(Append(b, f)[k]) /\ (k > 1 => Append(b, f)[k].at \notin FunctionFrames)
  <2>1. CASE k = Len(s)
    BY <1>3, <1>5, <1>7, <2>1
  <2>2. CASE k # Len(s)
    <3>1. k \in 1 .. Len(s) - 1 /\ k \in DOMAIN b
      BY <1>1, <1>3, <1>5, <2>2
    <3> QED
      BY <1>3, <1>5, <3>1 DEF StackOK
  <2> QED
    BY <2>1, <2>2
<1>9. StackOK(Append(b, f))
  BY <1>5, <1>8 DEF StackOK
<1>10. s[Len(s)].at \in FunctionFrames => Append(b, f)[1] = f
  BY <1>5, <1>7
<1>11. CASE Len(s) = 1
  BY <1>5, <1>6, <1>9, <1>10, <1>11 DEF InBodyOf, FunctionFrames
<1>12. CASE Len(s) # 1
  <2>1. 1 \in 1 .. Len(s) - 1
    BY <1>3, <1>12
  <2>2. Append(b, f)[1] = b[1]
    BY <1>5, <2>1
  <2>3. b # <<>>
    <3>1. Len(b) # 0 /\ Len(<<>>) = 0
      BY <1>3, <1>12
    <3> QED
      BY <3>1
  <2>4. InBodyOf(Append(b, f)) <=> InBodyOf(b)
    BY <1>6, <2>2, <2>3 DEF InBodyOf
  <2>5. InBodyOf(b) <=> InBodyOf(s)
    BY <1>12, PopKeepsStack
  <2> QED
    BY <1>6, <1>7, <1>9, <1>12, <2>4, <2>5
<1> QED
  BY <1>11, <1>12

LEMMA InBodyTop ==
    ASSUME StackOK(stack), stack # <<>>, Top.at \in FunctionFrames
    PROVE  Len(stack) = 1 /\ (InBodyOf(stack) <=> Top.at \in BodyFrames)
<1>1. PICK S : stack \in Seq(S)
  BY DEF StackOK
<1>2. Len(stack) \in Nat /\ Len(stack) # 0
  BY <1>1
<1>3. Len(stack) \in DOMAIN stack
  BY <1>1, <1>2
<1>4. Len(stack) = 1
  <2>1. Len(stack) > 1 => stack[Len(stack)].at \notin FunctionFrames
    BY <1>3 DEF StackOK
  <2>2. \A n \in Nat : n # 0 /\ ~(n > 1) => n = 1
    OBVIOUS
  <2> QED
    BY <1>2, <2>1, <2>2 DEF Top
<1> QED
  BY <1>4 DEF InBodyOf, Top

\* The function on top goes on elsewhere, and calls others.
LEMMA Replaced ==
    ASSUME StackOK(stack), stack # <<>>, NEW f, FrameOK(f),
           f.at \in FunctionFrames <=> Top.at \in FunctionFrames,
           f.at \in BodyFrames <=> Top.at \in BodyFrames
    PROVE  /\ StackOK(Append(Below, f))
           /\ Append(Below, f) # <<>>
           /\ InBodyOf(Append(Below, f)) <=> InBodyOf(stack)
BY GotoKeepsStack, InBodyTop DEF Below, Top

LEMMA ReplacedAndCalled ==
    ASSUME StackOK(stack), stack # <<>>, NEW f, FrameOK(f),
           f.at \in FunctionFrames <=> Top.at \in FunctionFrames,
           f.at \in BodyFrames <=> Top.at \in BodyFrames,
           NEW min
    PROVE  /\ StackOK(Append(Below, f) \o Expression(min))
           /\ InBodyOf(Append(Below, f) \o Expression(min)) <=> InBodyOf(stack)
BY Replaced, PlainExpression, PushKeepsStack

\* The function on top returns.
LEMMA Popped ==
    ASSUME StackOK(stack), stack # <<>>
    PROVE  /\ StackOK(Below)
           /\ Top.at \notin BodyFrames => (InBodyOf(Below) <=> InBodyOf(stack))
           /\ Top.at \in BodyFrames => InBodyOf(stack) /\ ~InBodyOf(Below)
<1>1. CASE Len(stack) = 1
  <2>1. StackOK(Below) /\ ~InBodyOf(Below)
    BY <1>1, PopKeepsStack DEF Below
  <2>2. InBodyOf(stack) <=> Top.at \in BodyFrames
    BY <1>1 DEF InBodyOf, Top
  <2> QED
    BY <2>1, <2>2
<1>2. CASE Len(stack) # 1
  <2>1. StackOK(Below) /\ (InBodyOf(Below) <=> InBodyOf(stack))
    BY <1>2, PopKeepsStack DEF Below
  <2>2. Top.at \notin BodyFrames
    BY <1>2, InBodyTop DEF FunctionFrames
  <2> QED
    BY <2>1, <2>2
<1> QED
  BY <1>1, <1>2

\* A function is called from the one on top, or from buildAST.
LEMMA Called ==
    ASSUME StackOK(stack), NEW t, Plain(t)
    PROVE  /\ StackOK(stack \o t)
           /\ InBodyOf(stack \o t) <=> InBodyOf(stack)
<1>1. CASE stack # <<>>
  BY <1>1, PushKeepsStack
<1>2. CASE stack = <<>>
  <2>1. PICK T : t \in Seq(T)
    BY DEF Plain
  <2>2. stack \o t = t
    BY <1>2, <2>1, ConcatEmptySeq
  <2>3. StackOK(t)
    BY <2>1 DEF Plain, StackOK
  <2>4. ~InBodyOf(t)
    BY <2>1 DEF Plain, InBodyOf, FunctionFrames
  <2> QED
    BY <1>2, <2>2, <2>3, <2>4 DEF InBodyOf
<1> QED
  BY <1>1, <1>2

-----------------------------------------------------------------------------
(***************************************************************************)
(* What a step does to the table and to the body that is parsed.           *)
(***************************************************************************)
Keeps ==
    /\ InBodyOf(stack') <=> InBodyOf(stack)
    /\ \/ UNCHANGED vars
       \/ \E name \in Names, type \in Types : Decl(name, type) \/ DeclFn(name, type)

Opens == ~InBodyOf(stack) /\ Enter /\ InBodyOf(stack')

Closes == InBodyOf(stack) /\ Leave /\ ~InBodyOf(stack')

Refuses ==
    /\ GivesUp
    /\ UNCHANGED vars \/ \E name \in Names : RejectDecl(name)

LEMMA ExpressionsKeep ==
    ASSUME StackOK(stack), Expressions
    PROVE  (StackOK(stack') /\ Keeps) \/ Refuses
<1> USE DEF At
<1>1. CASE Parenthesis
  <2> DEFINE f == [at |-> "closing"]
  <2>1. f.at = "closing" /\ stack # <<>> /\ Top.at = "primary"
    BY <1>1 DEF Parenthesis
  <2>2. stack' = Append(Below, f) \o Expression(0) /\ UNCHANGED vars
    BY <1>1 DEF Parenthesis
  <2> HIDE DEF f
  <2> QED
    BY <2>1, <2>2, ReplacedAndCalled DEF Keeps, FrameOK, FunctionFrames, BodyFrames
<1>2. CASE NextArgument
  <2> DEFINE f == [at |-> "call", node |-> WithArgument(Top.node)]
  <2>1. f.at = "call" /\ stack # <<>> /\ Top.at = "call"
    BY <1>2 DEF NextArgument
  <2>2. stack' = Append(Below, f) \o Expression(0) /\ UNCHANGED vars
    BY <1>2 DEF NextArgument
  <2> HIDE DEF f
  <2> QED
    BY <2>1, <2>2, ReplacedAndCalled DEF Keeps, FrameOK, FunctionFrames, BodyFrames
<1>3. CASE Operator
  <2> DEFINE f == [at |-> "operator", min |-> Top.min, left |-> Lefthand, op |-> NextType]
  <2>1. f.at = "operator" /\ stack # <<>> /\ Top.at = "operator"
    BY <1>3 DEF Operator
  <2>2. stack' = Append(Below, f) \o Expression(Precedence(NextType) + 1) /\ UNCHANGED vars
    BY <1>3 DEF Operator
  <2> HIDE DEF f
  <2> QED
    BY <2>1, <2>2, ReplacedAndCalled DEF Keeps, FrameOK, FunctionFrames, BodyFrames
<1>4. CASE BeginCall
  <2> DEFINE f == [at |-> "call", node |-> <<"FN_CALL", ret[2], <<>>>>]
  <2>1. f.at = "call" /\ stack # <<>> /\ Top.at = "postfix"
    BY <1>4 DEF BeginCall
  <2>2. stack' = Append(Below, f) /\ UNCHANGED vars
    BY <1>4 DEF BeginCall, Goto
  <2> HIDE DEF f
  <2> QED
    BY <2>1, <2>2, Replaced DEF Keeps, FrameOK, FunctionFrames, BodyFrames
<1>5. CASE EndCall
  <2> DEFINE f == [at |-> "postfix"]
  <2>1. f.at = "postfix" /\ stack # <<>> /\ Top.at = "call"
    BY <1>5 DEF EndCall
  <2>2. stack' = Append(Below, f) /\ UNCHANGED vars
    BY <1>5 DEF EndCall, Goto
  <2> HIDE DEF f
  <2> QED
    BY <2>1, <2>2, Replaced DEF Keeps, FrameOK, FunctionFrames, BodyFrames
<1>6. CASE CloseParenthesis \/ Literal \/ Name \/ EndPostfix \/ EndExpression
  <2>1. /\ stack # <<>> /\ Top.at \in {"closing", "primary", "postfix", "operator"}
        /\ stack' = Below
        /\ UNCHANGED vars
    BY <1>6 DEF CloseParenthesis, Literal, Name, EndPostfix, EndExpression, Return
  <2> QED
    BY <2>1, Popped DEF Keeps, BodyFrames
<1>7. CASE RefusePrimary \/ RefuseCall \/ RefuseOperands
  BY <1>7 DEF RefusePrimary, RefuseCall, RefuseOperands, Refuse, GiveUp, GivesUp, Refuses
<1> QED
  BY <1>1, <1>2, <1>3, <1>4, <1>5, <1>6, <1>7 DEF Expressions

LEMMA DeclarationsKeep ==
    ASSUME TokensOK, StackOK(stack), Declarations
    PROVE  (StackOK(stack') /\ (Keeps \/ Opens \/ Closes)) \/ Refuses
<1> USE DEF At
<1>1. ASSUME NextIs("Identifier") PROVE ahead[1].text \in Names
  BY <1>1, ReadyToken, TokenTypes DEF NextIs
<1>2. ASSUME NextIs("TypeKeyword") PROVE ahead[1].text \in Types
  BY <1>2, ReadyToken, TokenTypes DEF NextIs
<1>3. ASSUME stack # <<>>, Top.at \in {"variableName", "functionName", "parameterName"}
      PROVE  Top.type \in Types
  BY <1>3 DEF StackOK, FrameOK, Top
<1>4. CASE DeclaredType
  <2> DEFINE f == [at |-> "variableName", type |-> ahead[1].text]
  <2>1. f.at = "variableName" /\ f.type = ahead[1].text /\ stack # <<>> /\ Top.at = "variable"
    BY <1>4 DEF DeclaredType
  <2>2. stack' = Append(Below, f) /\ UNCHANGED vars /\ NextIs("TypeKeyword")
    BY <1>4 DEF DeclaredType, Goto
  <2> HIDE DEF f
  <2> QED
    BY <1>2, <2>1, <2>2, Replaced DEF Keeps, FrameOK, FunctionFrames, BodyFrames
<1>5. CASE DeclareVariable
  <2> DEFINE f == [at |-> "initialiser", name |-> ahead[1].text]
  <2>1. f.at = "initialiser" /\ stack # <<>> /\ Top.at = "variableName"
    BY <1>5 DEF DeclareVariable
  <2>2. /\ stack' = Append(Below, f) /\ NextIs("Identifier")
        /\ Decl(ahead[1].text, Top.type)
    BY <1>5 DEF DeclareVariable, Goto
  <2> HIDE DEF f
  <2> QED
    BY <1>1, <1>3, <2>1, <2>2, Replaced DEF Keeps, FrameOK, FunctionFrames, BodyFrames
<1>6. CASE Initialiser
  <2> DEFINE f == [at |-> "declared", name |-> Top.name]
  <2>1. f.at = "declared" /\ stack # <<>> /\ Top.at = "initialiser"
    BY <1>6 DEF Initialiser
  <2>2. stack' = Append(Below, f) \o Expression(0) /\ UNCHANGED vars
    BY <1>6 DEF Initialiser, GotoExpression
  <2> HIDE DEF f
  <2> QED
    BY <2>1, <2>2, ReplacedAndCalled DEF Keeps, FrameOK, FunctionFrames, BodyFrames
<1>7. CASE EndDeclaration
  <2>1. /\ stack # <<>> /\ Top.at \in {"initialiser", "declared"}
        /\ stack' = Below
        /\ UNCHANGED vars
    BY <1>7 DEF EndDeclaration, Finish
  <2> QED
    BY <2>1, Popped DEF Keeps, BodyFrames
<1>8. CASE RefuseName
  BY <1>1, <1>8 DEF RefuseName, GiveUp, GivesUp, Refuses
<1>9. CASE ReturnType
  <2> DEFINE f == [at |-> "functionName", type |-> ahead[1].text]
  <2>1. f.at = "functionName" /\ f.type = ahead[1].text /\ stack # <<>> /\ Top.at = "functionType"
    BY <1>9 DEF ReturnType
  <2>2. stack' = Append(Below, f) /\ UNCHANGED vars /\ NextIs("TypeKeyword")
    BY <1>9 DEF ReturnType, Goto
  <2> HIDE DEF f
  <2> QED
    BY <1>2, <2>1, <2>2, Replaced DEF Keeps, FrameOK, FunctionFrames, BodyFrames
<1>10. CASE DeclareFunction
  <2> DEFINE f == [at |-> "functionOpen", node |-> <<"FN_DEF", NewSymbol(ahead[1].text), <<>>>>]
  <2>1. f.at = "functionOpen" /\ stack # <<>> /\ Top.at = "functionName"
    BY <1>10 DEF DeclareFunction
  <2>2. /\ stack' = Append(Below, f) /\ NextIs("Identifier")
        /\ DeclFn(ahead[1].text, Top.type)
    BY <1>10 DEF DeclareFunction, Goto
  <2> HIDE DEF f
  <2> QED
    BY <1>1, <1>3, <2>1, <2>2, Replaced DEF Keeps, FrameOK, FunctionFrames, BodyFrames
<1>11. CASE OpenParameters
  <2> DEFINE f == [at |-> "parameters", node |-> Top.node]
  <2>1. f.at = "parameters" /\ stack # <<>> /\ Top.at = "functionOpen"
    BY <1>11 DEF OpenParameters
  <2>2. stack' = Append(Below, f) /\ UNCHANGED vars
    BY <1>11 DEF OpenParameters, Goto
  <2> HIDE DEF f
  <2> QED
    BY <2>1, <2>2, Replaced DEF Keeps, FrameOK, FunctionFrames, BodyFrames
<1>12. CASE ParameterType
  <2> DEFINE f == [at |-> "parameterName", type |-> ahead[1].text, node |-> Top.node]
  <2>1. f.at = "parameterName" /\ f.type = ahead[1].text /\ stack # <<>> /\ Top.at = "parameters"
    BY <1>12 DEF ParameterType
  <2>2. stack' = Append(Below, f) /\ UNCHANGED vars /\ NextIs("TypeKeyword")
    BY <1>12 DEF ParameterType, Goto
  <2> HIDE DEF f
  <2> QED
    BY <1>2, <2>1, <2>2, Replaced DEF Keeps, FrameOK, FunctionFrames, BodyFrames
<1>13. CASE DeclareParameter
  <2> DEFINE f == [at |-> "parametersEnd",
                   node |-> <<"FN_DEF", Top.node[2],
                              Append(Top.node[3], NewSymbol(ahead[1].text))>>]
  <2>1. f.at = "parametersEnd" /\ stack # <<>> /\ Top.at = "parameterName"
    BY <1>13 DEF DeclareParameter
  <2>2. /\ stack' = Append(Below, f) /\ NextIs("Identifier")
        /\ Decl(ahead[1].text, Top.type)
    BY <1>13 DEF DeclareParameter, Goto
  <2> HIDE DEF f
  <2> QED
    BY <1>1, <1>3, <2>1, <2>2, Replaced DEF Keeps, FrameOK, FunctionFrames, BodyFrames
<1>14. CASE CloseParameters
  <2> DEFINE f == [at |-> "block", node |-> Top.node]
  <2>1. f.at = "block" /\ stack # <<>> /\ Top.at \in {"parameters", "parametersEnd"}
    BY <1>14 DEF CloseParameters
  <2>2. stack' = Append(Below, f) /\ Enter
    BY <1>14 DEF CloseParameters, Goto
  <2> HIDE DEF f
  <2>3. FrameOK(f) /\ Top.at \in FunctionFrames /\ f.at \in BodyFrames /\ Top.at \notin BodyFrames
    BY <2>1 DEF FrameOK, FunctionFrames, BodyFrames
  <2>4. StackOK(stack') /\ InBodyOf(stack')
    BY <2>1, <2>2, <2>3, GotoKeepsStack DEF Below, Top
  <2>5. ~InBodyOf(stack)
    BY <2>1, <2>3, InBodyTop
  <2> QED
    BY <2>2, <2>4, <2>5 DEF Opens
<1>15. CASE BeginBlock
  <2> DEFINE f == [at |-> "body", node |-> Top.node]
  <2>1. f.at = "body" /\ stack # <<>> /\ Top.at = "block"
    BY <1>15 DEF BeginBlock
  <2>2. stack' = Append(Below, f) /\ UNCHANGED vars
    BY <1>15 DEF BeginBlock, Goto
  <2> HIDE DEF f
  <2> QED
    BY <2>1, <2>2, Replaced DEF Keeps, FrameOK, FunctionFrames, BodyFrames
<1>16. CASE EndBlock
  <2>1. stack # <<>> /\ Top.at = "body" /\ stack' = Below /\ Leave
    BY <1>16 DEF EndBlock, Finish
  <2> QED
    BY <2>1, Popped DEF Closes, BodyFrames
<1> QED
  BY <1>4, <1>5, <1>6, <1>7, <1>8, <1>9, <1>10, <1>11, <1>12, <1>13, <1>14, <1>15, <1>16
  DEF Declarations

LEMMA StatementsKeep ==
    ASSUME StackOK(stack), Statements
    PROVE  (StackOK(stack') /\ Keeps) \/ Refuses
<1> USE DEF At
<1>1. CASE BeginReturn
  <2> DEFINE f == [at |-> "returnValue"]
  <2>1. f.at = "returnValue" /\ stack' = stack \o <<f>> /\ UNCHANGED vars
    BY <1>1 DEF BeginReturn, Call
  <2> HIDE DEF f
  <2> QED
    BY <2>1, PlainOne, Called DEF Keeps, FrameOK, FunctionFrames, BodyFrames
<1>2. CASE ReturnValue
  <2> DEFINE f == [at |-> "returned"]
  <2>1. f.at = "returned" /\ stack # <<>> /\ Top.at = "returnValue"
    BY <1>2 DEF ReturnValue
  <2>2. stack' = Append(Below, f) \o Expression(0) /\ UNCHANGED vars
    BY <1>2 DEF ReturnValue, GotoExpression
  <2> HIDE DEF f
  <2> QED
    BY <2>1, <2>2, ReplacedAndCalled DEF Keeps, FrameOK, FunctionFrames, BodyFrames
<1>3. CASE EndReturn \/ EndAssignment \/ EndStatement
  <2>1. /\ stack # <<>> /\ Top.at \in {"returnValue", "returned", "assigned", "statement"}
        /\ stack' = Below
        /\ UNCHANGED vars
    BY <1>3 DEF EndReturn, EndAssignment, EndStatement, Finish
  <2> QED
    BY <2>1, Popped DEF Keeps, BodyFrames
<1>4. CASE LocalDeclaration \/ GlobalDeclaration
  <2> DEFINE f == [at |-> "variable"]
  <2>1. f.at = "variable" /\ stack' = stack \o <<f>> /\ UNCHANGED vars
    BY <1>4 DEF LocalDeclaration, GlobalDeclaration, Call
  <2> HIDE DEF f
  <2> QED
    BY <2>1, PlainOne, Called DEF Keeps, FrameOK, FunctionFrames, BodyFrames
<1>5. CASE Assignment
  <2> DEFINE f == [at |-> "assigned", target |-> Lookup(ahead[1].text)]
  <2>1. f.at = "assigned" /\ stack' = stack \o (<<f>> \o Expression(0)) /\ UNCHANGED vars
    BY <1>5 DEF Assignment, Call
  <2> HIDE DEF f
  <2>2. Plain(<<f>> \o Expression(0))
    BY <2>1, PlainOne, PlainExpression, PlainJoin DEF FrameOK, FunctionFrames, BodyFrames
  <2> QED
    BY <2>1, <2>2, Called DEF Keeps
<1>6. CASE ExpressionStatement
  <2> DEFINE f == [at |-> "statement"]
  <2>1. f.at = "statement" /\ stack' = stack \o (<<f>> \o Expression(0)) /\ UNCHANGED vars
    BY <1>6 DEF ExpressionStatement, Call
  <2> HIDE DEF f
  <2>2. Plain(<<f>> \o Expression(0))
    BY <2>1, PlainOne, PlainExpression, PlainJoin DEF FrameOK, FunctionFrames, BodyFrames
  <2> QED
    BY <2>1, <2>2, Called DEF Keeps
<1>7. CASE GlobalFunction
  <2> DEFINE f == [at |-> "functionType"]
  <2>1. /\ f.at = "functionType" /\ stack = <<>>
        /\ stack' = stack \o <<f>> /\ UNCHANGED vars
    BY <1>7 DEF GlobalFunction, Call
  <2> HIDE DEF f
  <2>2. <<f>> \in Seq({f}) /\ <<f>> # <<>>
    OBVIOUS
  <2>3. stack' = <<f>>
    BY <2>1, <2>2, ConcatEmptySeq
  <2>4. \A k \in DOMAIN <<f>> : k = 1 /\ <<f>>[k] = f
    OBVIOUS
  <2>5. StackOK(<<f>>)
    <3>1. FrameOK(f)
      BY <2>1 DEF FrameOK
    <3>2. \A k \in DOMAIN <<f>> : FrameOK(<<f>>[k]) /\ ~(k > 1)
      BY <2>4, <3>1
    <3> QED
      BY <2>2, <3>2 DEF StackOK
  <2>6. ~InBodyOf(<<f>>) /\ ~InBodyOf(stack)
    BY <2>1, <2>4 DEF InBodyOf, BodyFrames
  <2> QED
    BY <2>1, <2>3, <2>5, <2>6 DEF Keeps
<1>8. CASE EndParse
  BY <1>8 DEF EndParse, Keeps
<1>9. CASE RefuseAssignment
  BY <1>9 DEF RefuseAssignment, Refuse, GiveUp, GivesUp, Refuses
<1> QED
  BY <1>1, <1>2, <1>3, <1>4, <1>5, <1>6, <1>7, <1>8, <1>9 DEF Statements

LEMMA StepsKeep ==
    ASSUME TokensOK, StackOK(stack), ParserNext
    PROVE  (StackOK(stack') /\ (Keeps \/ Opens \/ Closes)) \/ Refuses
<1>1. CASE Supply
  BY <1>1 DEF Supply, Keeps
<1>2. CASE RefuseToken
  BY <1>2 DEF RefuseToken, Refuse, GiveUp, GivesUp, Refuses
<1> QED
  BY <1>1, <1>2, ExpressionsKeep, DeclarationsKeep, StatementsKeep DEF ParserNext

LEMMA StackInductive == ParserSpec => []StackOK(stack)
<1>1. StackOK(<<>>)
  <2>1. <<>> \in Seq({})
    OBVIOUS
  <2> QED
    BY <2>1 DEF StackOK
<1>2. ParserInit => StackOK(stack)
  BY <1>1 DEF ParserInit
<1>3. TokensOK /\ StackOK(stack) /\ [ParserNext]_pvars => StackOK(stack)'
  <2>1. TokensOK /\ StackOK(stack) /\ ParserNext => StackOK(stack)'
    BY <1>1, StepsKeep DEF Refuses, GivesUp
  <2>2. StackOK(stack) /\ UNCHANGED pvars => StackOK(stack)'
    BY DEF pvars, parserVars
  <2> QED
    BY <2>1, <2>2
<1> QED
  BY <1>2, <1>3, TokensInductive, PTL DEF ParserSpec, pvars

(***************************************************************************)
(* The parser uses the symbol table as SymbolTable says it may be used:    *)
(* each of its steps is one of the table's, or leaves the table alone.     *)
(***************************************************************************)
THEOREM ParserUsesTable == ParserSpec => Spec
<1>1. ParserInit => Init
  BY DEF ParserInit
<1>2. TokensOK /\ StackOK(stack) /\ [ParserNext]_pvars => [Next]_vars
  <2>1. TokensOK /\ StackOK(stack) /\ ParserNext => [Next]_vars
    BY StepsKeep DEF Keeps, Opens, Closes, Refuses, Next
  <2>2. UNCHANGED pvars => UNCHANGED vars
    BY DEF pvars
  <2> QED
    BY <2>1, <2>2
<1> QED
  BY <1>1, <1>2, TokensInductive, StackInductive, PTL DEF ParserSpec, Spec, pvars

\* Whatever text is parsed, live variables never share storage
\* (compiler.cpp's calls of decl, decl_fn, enter and leave).
THEOREM ParsedStorageIsDisjoint == ParserSpec => []StorageDisjoint
BY ParserUsesTable, StorageIsDisjoint, PTL

-----------------------------------------------------------------------------
(***************************************************************************)
(* The scopes that are open: the global one, and a body's while it is      *)
(* parsed.  Only with this is the leave of a body the one that its enter   *)
(* calls for, and never that of the global scope, which would throw.       *)
(***************************************************************************)
ScopesOK == phase # "refused" => Len(scopes) = IF InBodyOf(stack) THEN 2 ELSE 1

TypedPhase == phase \in {"parsing", "parsed", "refused"}

LEMMA TableLength ==
    ASSUME TypeOK
    PROVE  /\ UNCHANGED vars => Len(scopes') = Len(scopes)
           /\ \A name \in Names, type \in Types :
                Decl(name, type) \/ DeclFn(name, type) => Len(scopes') = Len(scopes)
           /\ Enter => Len(scopes') = Len(scopes) + 1
           /\ Leave => Len(scopes') = Len(scopes) - 1
<1>1. UNCHANGED vars => Len(scopes') = Len(scopes)
  BY DEF vars
<1>2. ASSUME NEW name \in Names, NEW type \in Types, Decl(name, type) \/ DeclFn(name, type)
      PROVE  Len(scopes') = Len(scopes)
  <2>1. PICK b : scopes' = [scopes EXCEPT ![Current] = b]
    BY <1>2 DEF Decl, DeclFn
  <2> QED
    BY <2>1 DEF TypeOK
<1>3. Enter => Len(scopes') = Len(scopes) + 1
  BY ScopeEntered DEF Current
<1>4. Leave => Len(scopes') = Len(scopes) - 1
  BY ScopeLeft DEF Current
<1> QED
  BY <1>1, <1>2, <1>3, <1>4

\* A step that refuses sets the phase to "refused"; from there nothing moves.
LEMMA NothingMovesOn == ASSUME phase = "refused" PROVE ~ParserNext
<1> USE DEF At
<1>1. ~Supply /\ ~RefuseToken
  BY DEF Supply, RefuseToken
<1>2. ~Expressions
  BY DEF Expressions, Parenthesis, CloseParenthesis, Literal, Name, RefusePrimary,
         EndPostfix, BeginCall, RefuseCall, NextArgument, EndCall,
         RefuseOperands, Operator, EndExpression
<1>3. ~Declarations
  BY DEF Declarations, DeclaredType, DeclareVariable, Initialiser, EndDeclaration,
         RefuseName, ReturnType, DeclareFunction, OpenParameters, ParameterType,
         DeclareParameter, CloseParameters, BeginBlock, EndBlock
<1>4. ~Statements
  BY DEF Statements, BeginReturn, ReturnValue, EndReturn, LocalDeclaration, Assignment,
         RefuseAssignment, EndAssignment, ExpressionStatement, EndStatement,
         GlobalDeclaration, GlobalFunction, EndParse, IsAssignment
<1> QED
  BY <1>1, <1>2, <1>3, <1>4 DEF ParserNext

LEMMA ScopesInductive == ParserSpec => []ScopesOK
<1>1. ParserInit => ScopesOK
  <2>1. ParserInit => Len(scopes) = 1 /\ ~InBodyOf(stack)
    BY DEF ParserInit, Init, InBodyOf
  <2> QED
    BY <2>1 DEF ScopesOK
<1>2. TypeOK /\ TokensOK /\ StackOK(stack) /\ ScopesOK /\ [ParserNext]_pvars => ScopesOK'
  <2> SUFFICES ASSUME TypeOK, TokensOK, StackOK(stack), ScopesOK, [ParserNext]_pvars,
                      phase' # "refused"
               PROVE  Len(scopes') = IF InBodyOf(stack') THEN 2 ELSE 1
    BY DEF ScopesOK, InBodyOf
  <2>1. CASE UNCHANGED pvars
    BY <2>1 DEF pvars, parserVars, vars, ScopesOK, InBodyOf
  <2>2. CASE ParserNext
    <3>1. Len(scopes) = IF InBodyOf(stack) THEN 2 ELSE 1
      BY <2>2, NothingMovesOn DEF ScopesOK
    <3>2. Keeps \/ Opens \/ Closes
      BY <2>2, StepsKeep DEF Refuses, GivesUp
    <3>3. CASE Keeps
      <4>1. Len(scopes') = Len(scopes)
        BY <3>3, TableLength DEF Keeps
      <4> QED
        BY <3>1, <3>3, <4>1 DEF Keeps
    <3>4. CASE Opens
      <4>1. Len(scopes') = Len(scopes) + 1
        BY <3>4, TableLength DEF Opens
      <4>2. Len(scopes) = 1 /\ InBodyOf(stack')
        BY <3>1, <3>4 DEF Opens
      <4> QED
        BY <4>1, <4>2
    <3>5. CASE Closes
      <4>1. Len(scopes') = Len(scopes) - 1
        BY <3>5, TableLength DEF Closes
      <4>2. Len(scopes) = 2 /\ ~InBodyOf(stack')
        BY <3>1, <3>5 DEF Closes
      <4> QED
        BY <4>1, <4>2
    <3> QED
      BY <3>2, <3>3, <3>4, <3>5
  <2> QED
    BY <2>1, <2>2
<1>3. ParserSpec => []TypeOK
  BY ParserUsesTable, TypeCorrect, PTL
<1> QED
  BY <1>1, <1>2, <1>3, TokensInductive, StackInductive, PTL DEF ParserSpec, pvars

\* A construct that is finished has the scopes that are open then.
LEMMA BuiltInScopes ==
    ASSUME ParserNext
    PROVE  /\ phase' \in {phase, "parsing", "parsed", "refused"}
           /\ \/ built' = built
              \/ built' = Nothing
              \/ phase' = "parsing" /\ built'.depth = Len(scopes')
<1> USE DEF At
<1> DEFINE Goal == /\ phase' \in {phase, "parsing", "parsed", "refused"}
                   /\ \/ built' = built
                      \/ built' = Nothing
                      \/ phase' = "parsing" /\ built'.depth = Len(scopes')
<1> SUFFICES Goal
  OBVIOUS
<1>1. ASSUME NEW node, Finish(node), phase = "parsing", phase' = phase PROVE Goal
  BY <1>1 DEF Finish
<1>2. CASE Supply
  BY <1>2 DEF Supply
<1>3. CASE Expressions
  BY <1>3 DEF Expressions, Parenthesis, CloseParenthesis, Literal, Name, RefusePrimary,
              EndPostfix, BeginCall, RefuseCall, NextArgument, EndCall,
              RefuseOperands, Operator, EndExpression, Refuse, GiveUp
<1>4. CASE EndDeclaration \/ EndBlock \/ EndReturn \/ EndAssignment \/ EndStatement
  <2>1. phase = "parsing" /\ phase' = phase /\ \E node : Finish(node)
    BY <1>4 DEF EndDeclaration, EndBlock, EndReturn, EndAssignment, EndStatement
  <2> HIDE DEF Goal
  <2> QED
    BY <1>1, <2>1
<1>5. CASE Declarations /\ ~EndDeclaration /\ ~EndBlock
  BY <1>5
  DEF Declarations, DeclaredType, DeclareVariable, Initialiser, RefuseName, ReturnType,
      DeclareFunction, OpenParameters, ParameterType, DeclareParameter,
      CloseParameters, BeginBlock, GiveUp
<1>6. CASE Statements /\ ~EndReturn /\ ~EndAssignment /\ ~EndStatement
  BY <1>6
  DEF Statements, BeginReturn, ReturnValue, LocalDeclaration, Assignment, RefuseAssignment,
      ExpressionStatement, GlobalDeclaration, GlobalFunction, EndParse, Call, Refuse, GiveUp
<1>7. CASE RefuseToken
  BY <1>7 DEF RefuseToken, Refuse, GiveUp
<1> QED
  BY <1>2, <1>3, <1>4, <1>5, <1>6, <1>7 DEF ParserNext

DepthOK == built.depth \in 1 .. 2

LEMMA DepthInductive == ParserSpec => [](DepthOK /\ TypedPhase)
<1>1. ParserInit => DepthOK /\ TypedPhase
  BY DEF ParserInit, Nothing, DepthOK, TypedPhase
<1>2. DepthOK /\ TypedPhase /\ ScopesOK' /\ [ParserNext]_pvars => DepthOK' /\ TypedPhase'
  <2>1. ASSUME DepthOK, TypedPhase, ScopesOK', ParserNext
        PROVE  DepthOK' /\ TypedPhase'
    <3>1. TypedPhase'
      BY <2>1, BuiltInScopes DEF TypedPhase
    <3>2. CASE built' = built \/ built' = Nothing
      BY <2>1, <3>1, <3>2 DEF DepthOK, Nothing
    <3>3. CASE phase' = "parsing" /\ built'.depth = Len(scopes')
      <4>1. Len(scopes') \in {1, 2}
        BY <2>1, <3>3 DEF ScopesOK
      <4> QED
        BY <3>1, <3>3, <4>1 DEF DepthOK
    <3> QED
      BY <2>1, <3>1, <3>2, <3>3, BuiltInScopes
  <2>2. DepthOK /\ TypedPhase /\ UNCHANGED pvars => DepthOK' /\ TypedPhase'
    BY DEF DepthOK, TypedPhase, pvars, parserVars
  <2> QED
    BY <2>1, <2>2
<1> QED
  BY <1>1, <1>2, ScopesInductive, PTL DEF ParserSpec, pvars

\* Type correctness of the parser; with it, that a second scope is open
\* exactly in a body, whatever is parsed (parseFunctionDecl, parseBlock).
THEOREM ParserTypeCorrect == ParserSpec => []ParserTypeOK
<1>1. TypeOK /\ TokensOK /\ StackOK(stack) /\ ScopesOK /\ DepthOK /\ TypedPhase
        => ParserTypeOK
  <2> SUFFICES ASSUME TypeOK, TokensOK, StackOK(stack), ScopesOK, DepthOK, TypedPhase
               PROVE  ParserTypeOK
    OBVIOUS
  <2>1. PICK S : stack \in Seq(S)
    BY DEF StackOK
  <2>2. InBodyOf(stack) <=> \E i \in DOMAIN stack : stack[i].at \in BodyFrames
    <3>1. ASSUME NEW i \in DOMAIN stack, stack[i].at \in BodyFrames
          PROVE  InBodyOf(stack)
      <4>1. i = 1
        BY <2>1, <3>1 DEF StackOK, FunctionFrames
      <4>2. stack # <<>>
        BY <2>1
      <4> QED
        BY <3>1, <4>1, <4>2 DEF InBodyOf
    <3>2. InBodyOf(stack) => 1 \in DOMAIN stack
      BY <2>1 DEF InBodyOf
    <3> QED
      BY <3>1, <3>2 DEF InBodyOf
  <2>3. phase # "refused" =>
          Len(scopes) = IF \E i \in DOMAIN stack : stack[i].at \in {"block", "body"}
                        THEN 2 ELSE 1
    BY <2>2 DEF ScopesOK, BodyFrames
  <2> QED
    BY <2>3 DEF ParserTypeOK, TokensOK, AnyToken, DepthOK, TypedPhase
<1>2. ParserSpec => []TypeOK
  BY ParserUsesTable, TypeCorrect, PTL
<1> QED
  BY <1>1, <1>2, TokensInductive, StackInductive, ScopesInductive, DepthInductive, PTL

\* Induction on the naturals, over a set.
LEMMA AllNaturals ==
    ASSUME NEW T \in SUBSET Nat, 0 \in T, \A k \in T : k + 1 \in T
    PROVE  T = Nat
<1>1. SUFFICES ASSUME Nat \ T # {} PROVE FALSE
  OBVIOUS
<1>2. PICK x \in Nat \ T : \A y \in Nat \ T : x <= y
  BY <1>1, LeastElement
<1>3. x # 0 /\ x - 1 \in Nat /\ ~(x <= x - 1)
  BY <1>2
<1>4. x - 1 \in T
  BY <1>2, <1>3
<1>5. x - 1 + 1 = x
  BY <1>2
<1>6. x \in T
  BY <1>4, <1>5
<1> QED
  BY <1>2, <1>6

(***************************************************************************)
(* The nodes of a tree, level by level: the function that Nodes takes at   *)
(* one depth is what its definition says of it.                            *)
(***************************************************************************)
DownTo1(node, g, n) ==
    /\ g[0] = {node}
    /\ \A k \in Nat : k < n => g[k + 1] = WithChildren(g[k])

\* Two functions that go down from a node agree as far as both go.
LEMMA DownToUnique ==
    ASSUME NEW node, NEW g, NEW h, NEW n \in Nat, NEW m \in Nat,
           DownTo1(node, g, n), DownTo1(node, h, m)
    PROVE  \A k \in Nat : k <= n /\ k <= m => g[k] = h[k]
<1> DEFINE T == {k \in Nat : k <= n /\ k <= m => g[k] = h[k]}
<1>1. 0 \in T
  BY DEF DownTo1
<1>2. ASSUME NEW k \in T PROVE k + 1 \in T
  <2>1. SUFFICES ASSUME k + 1 <= n, k + 1 <= m PROVE g[k + 1] = h[k + 1]
    OBVIOUS
  <2>2. k \in Nat /\ k < n /\ k < m /\ k <= n /\ k <= m
    BY <2>1
  <2>3. g[k] = h[k]
    BY <2>2
  <2> QED
    BY <2>2, <2>3 DEF DownTo1
<1> HIDE DEF T
<1>3. T = Nat
  <2>1. T \in SUBSET Nat
    BY DEF T
  <2> QED
    BY <1>1, <1>2, <2>1, AllNaturals
<1> QED
  BY <1>3 DEF T

\* There is a function that goes down from a node to any depth.
LEMMA DownToExists ==
    ASSUME NEW node
    PROVE  \A n \in Nat : \E g : DownTo1(node, g, n)
<1> DEFINE T == {n \in Nat : \E g : DownTo1(node, g, n)}
<1>1. 0 \in T
  <2>1. DownTo1(node, [k \in {0} |-> {node}], 0)
    BY DEF DownTo1
  <2> QED
    BY <2>1
<1>2. ASSUME NEW n \in T PROVE n + 1 \in T
  <2>1. PICK g : DownTo1(node, g, n)
    OBVIOUS
  <2> DEFINE h == [k \in 0 .. n + 1 |-> IF k = n + 1 THEN WithChildren(g[n]) ELSE g[k]]
  <2>2. n \in Nat
    OBVIOUS
  <2>3. h[0] = {node}
    BY <2>1, <2>2 DEF DownTo1
  <2>4. ASSUME NEW k \in Nat, k < n + 1 PROVE h[k + 1] = WithChildren(h[k])
    <3>1. h[k] = g[k]
      BY <2>2, <2>4
    <3>2. CASE k = n
      BY <2>2, <3>1, <3>2
    <3>3. CASE k # n
      <4>1. k < n /\ k + 1 # n + 1 /\ k + 1 \in 0 .. n + 1
        BY <2>2, <2>4, <3>3
      <4>2. h[k + 1] = g[k + 1]
        BY <4>1
      <4>3. g[k + 1] = WithChildren(g[k])
        BY <2>1, <4>1 DEF DownTo1
      <4> QED
        BY <3>1, <4>2, <4>3
    <3> QED
      BY <3>2, <3>3
  <2> HIDE DEF h
  <2>5. DownTo1(node, h, n + 1)
    BY <2>3, <2>4 DEF DownTo1
  <2> QED
    BY <2>2, <2>5
<1> HIDE DEF T
<1>3. T = Nat
  <2>1. T \in SUBSET Nat
    BY DEF T
  <2> QED
    BY <1>1, <1>2, <2>1, AllNaturals
<1> QED
  BY <1>3 DEF T

\* DownTo is what its definition says of it.
LEMMA DownToDef ==
    ASSUME NEW node
    PROVE  /\ DownTo(node)[0] = {node}
           /\ \A k \in Nat : DownTo(node)[k + 1] = WithChildren(DownTo(node)[k])
<1> DEFINE g(n) == CHOOSE g : DownTo1(node, g, n)
           Def(f) == [k \in Nat |-> IF k = 0 THEN {node} ELSE WithChildren(f[k - 1])]
           F == [k \in Nat |-> g(k)[k]]
<1>1. \A n \in Nat : DownTo1(node, g(n), n)
  BY DownToExists
<1> HIDE DEF g
<1>2. ASSUME NEW k \in Nat, k # 0 PROVE g(k)[k] = WithChildren(g(k - 1)[k - 1])
  <2>1. k - 1 \in Nat /\ k - 1 < k /\ k - 1 <= k /\ k - 1 <= k - 1 /\ k - 1 + 1 = k
    BY <1>2
  <2>2. g(k)[k - 1 + 1] = WithChildren(g(k)[k - 1])
    BY <1>1, <2>1 DEF DownTo1
  <2>3. g(k)[k - 1] = g(k - 1)[k - 1]
    BY <1>1, <2>1, DownToUnique
  <2> QED
    BY <2>1, <2>2, <2>3
<1>3. g(0)[0] = {node}
  BY <1>1 DEF DownTo1
<1>4. F = Def(F)
  <2>1. ASSUME NEW k \in Nat PROVE F[k] = IF k = 0 THEN {node} ELSE WithChildren(F[k - 1])
    <3>1. CASE k = 0
      BY <1>3, <3>1
    <3>2. CASE k # 0
      <4>1. k - 1 \in Nat
        BY <3>2
      <4> QED
        BY <1>2, <3>2, <4>1
    <3> QED
      BY <3>1, <3>2
  <2> QED
    BY <2>1
<1>5. DownTo(node) = CHOOSE f : f = Def(f)
  BY DEF DownTo
<1> HIDE DEF F
<1>6. DownTo(node) = Def(DownTo(node))
  <2> HIDE DEF Def
  <2> QED
    BY <1>4, <1>5
<1>7. ASSUME NEW d, d = Def(d)
      PROVE  d[0] = {node} /\ \A k \in Nat : d[k + 1] = WithChildren(d[k])
  <2>1. d[0] = {node}
    BY <1>7
  <2>2. ASSUME NEW k \in Nat PROVE d[k + 1] = WithChildren(d[k])
    <3>1. k + 1 \in Nat /\ k + 1 # 0 /\ k + 1 - 1 = k
      OBVIOUS
    <3>2. d[k + 1] = Def(d)[k + 1]
      BY <1>7
    <3> QED
      BY <3>1, <3>2
  <2> QED
    BY <2>1, <2>2
<1> HIDE DEF Def
<1> QED
  BY <1>6, <1>7
(***************************************************************************)
(* The readings of the texts, in the same way.                             *)
(***************************************************************************)
ReadUpTo(bound, g, n) ==
    /\ g[0] = [s \in Seq(Tokens) |-> NoReading]
    /\ \A k \in Nat : k < n => g[k + 1] = ReadAll(bound, g[k])

\* Two functions that read up to some length agree as far as both go.
LEMMA ReadUpToUnique ==
    ASSUME NEW bound, NEW g, NEW h, NEW n \in Nat, NEW m \in Nat,
           ReadUpTo(bound, g, n), ReadUpTo(bound, h, m)
    PROVE  \A k \in Nat : k <= n /\ k <= m => g[k] = h[k]
<1> DEFINE T == {k \in Nat : k <= n /\ k <= m => g[k] = h[k]}
<1>1. 0 \in T
  BY DEF ReadUpTo
<1>2. ASSUME NEW k \in T PROVE k + 1 \in T
  <2>1. SUFFICES ASSUME k + 1 <= n, k + 1 <= m PROVE g[k + 1] = h[k + 1]
    OBVIOUS
  <2>2. k \in Nat /\ k < n /\ k < m /\ k <= n /\ k <= m
    BY <2>1
  <2>3. g[k] = h[k]
    BY <2>2
  <2> QED
    BY <2>2, <2>3 DEF ReadUpTo
<1> HIDE DEF T
<1>3. T = Nat
  <2>1. T \in SUBSET Nat
    BY DEF T
  <2> QED
    BY <1>1, <1>2, <2>1, AllNaturals
<1> QED
  BY <1>3 DEF T

\* There is a function that reads up to any length.
LEMMA ReadUpToExists ==
    ASSUME NEW bound
    PROVE  \A n \in Nat : \E g : ReadUpTo(bound, g, n)
<1> DEFINE T == {n \in Nat : \E g : ReadUpTo(bound, g, n)}
<1>1. 0 \in T
  <2>1. ReadUpTo(bound, [k \in {0} |-> [s \in Seq(Tokens) |-> NoReading]], 0)
    BY DEF ReadUpTo
  <2> QED
    BY <2>1
<1>2. ASSUME NEW n \in T PROVE n + 1 \in T
  <2>1. PICK g : ReadUpTo(bound, g, n)
    OBVIOUS
  <2> DEFINE h == [k \in 0 .. n + 1 |-> IF k = n + 1 THEN ReadAll(bound, g[n]) ELSE g[k]]
  <2>2. n \in Nat
    OBVIOUS
  <2>3. h[0] = [s \in Seq(Tokens) |-> NoReading]
    BY <2>1, <2>2 DEF ReadUpTo
  <2>4. ASSUME NEW k \in Nat, k < n + 1 PROVE h[k + 1] = ReadAll(bound, h[k])
    <3>1. h[k] = g[k]
      BY <2>2, <2>4
    <3>2. CASE k = n
      BY <2>2, <3>1, <3>2
    <3>3. CASE k # n
      <4>1. k < n /\ k + 1 # n + 1 /\ k + 1 \in 0 .. n + 1
        BY <2>2, <2>4, <3>3
      <4>2. h[k + 1] = g[k + 1]
        BY <4>1
      <4>3. g[k + 1] = ReadAll(bound, g[k])
        BY <2>1, <4>1 DEF ReadUpTo
      <4> QED
        BY <3>1, <4>2, <4>3
    <3> QED
      BY <3>2, <3>3
  <2> HIDE DEF h
  <2>5. ReadUpTo(bound, h, n + 1)
    BY <2>3, <2>4 DEF ReadUpTo
  <2> QED
    BY <2>2, <2>5
<1> HIDE DEF T
<1>3. T = Nat
  <2>1. T \in SUBSET Nat
    BY DEF T
  <2> QED
    BY <1>1, <1>2, <2>1, AllNaturals
<1> QED
  BY <1>3 DEF T

\* Readings is what its definition says of it.
LEMMA ReadingsDef ==
    ASSUME NEW bound
    PROVE  /\ Readings(bound)[0] = [s \in Seq(Tokens) |-> NoReading]
           /\ \A k \in Nat : Readings(bound)[k + 1] = ReadAll(bound, Readings(bound)[k])
<1> DEFINE g(n) == CHOOSE g : ReadUpTo(bound, g, n)
           Def(f) == [k \in Nat |-> IF k = 0 THEN [s \in Seq(Tokens) |-> NoReading] ELSE ReadAll(bound, f[k - 1])]
           F == [k \in Nat |-> g(k)[k]]
<1>1. \A n \in Nat : ReadUpTo(bound, g(n), n)
  BY ReadUpToExists
<1> HIDE DEF g
<1>2. ASSUME NEW k \in Nat, k # 0 PROVE g(k)[k] = ReadAll(bound, g(k - 1)[k - 1])
  <2>1. k - 1 \in Nat /\ k - 1 < k /\ k - 1 <= k /\ k - 1 <= k - 1 /\ k - 1 + 1 = k
    BY <1>2
  <2>2. g(k)[k - 1 + 1] = ReadAll(bound, g(k)[k - 1])
    BY <1>1, <2>1 DEF ReadUpTo
  <2>3. g(k)[k - 1] = g(k - 1)[k - 1]
    BY <1>1, <2>1, ReadUpToUnique
  <2> QED
    BY <2>1, <2>2, <2>3
<1>3. g(0)[0] = [s \in Seq(Tokens) |-> NoReading]
  BY <1>1 DEF ReadUpTo
<1>4. F = Def(F)
  <2>1. ASSUME NEW k \in Nat PROVE F[k] = IF k = 0 THEN [s \in Seq(Tokens) |-> NoReading] ELSE ReadAll(bound, F[k - 1])
    <3>1. CASE k = 0
      BY <1>3, <3>1
    <3>2. CASE k # 0
      <4>1. k - 1 \in Nat
        BY <3>2
      <4> QED
        BY <1>2, <3>2, <4>1
    <3> QED
      BY <3>1, <3>2
  <2> QED
    BY <2>1
<1>5. Readings(bound) = CHOOSE f : f = Def(f)
  BY DEF Readings
<1> HIDE DEF F
<1>6. Readings(bound) = Def(Readings(bound))
  <2> HIDE DEF Def
  <2> QED
    BY <1>4, <1>5
<1>7. ASSUME NEW d, d = Def(d)
      PROVE  d[0] = [s \in Seq(Tokens) |-> NoReading] /\ \A k \in Nat : d[k + 1] = ReadAll(bound, d[k])
  <2>1. d[0] = [s \in Seq(Tokens) |-> NoReading]
    BY <1>7
  <2>2. ASSUME NEW k \in Nat PROVE d[k + 1] = ReadAll(bound, d[k])
    <3>1. k + 1 \in Nat /\ k + 1 # 0 /\ k + 1 - 1 = k
      OBVIOUS
    <3>2. d[k + 1] = Def(d)[k + 1]
      BY <1>7
    <3> QED
      BY <3>1, <3>2
  <2> QED
    BY <2>1, <2>2
<1> HIDE DEF Def
<1> QED
  BY <1>6, <1>7

-----------------------------------------------------------------------------
(***************************************************************************)
(* Trees.  What holds of every node of some set that contains the children *)
(* of its members holds of every node of a tree whose root is in the set.  *)
(***************************************************************************)
LEMMA NodesWithin ==
    ASSUME NEW S, NEW node \in S, \A n \in S : Children(n) \subseteq S
    PROVE  Nodes(node) \subseteq S
<1> DEFINE T == {k \in Nat : DownTo(node)[k] \subseteq S}
<1>1. 0 \in T
  BY DownToDef
<1>2. ASSUME NEW k \in T PROVE k + 1 \in T
  <2>1. k \in Nat /\ DownTo(node)[k] \subseteq S
    OBVIOUS
  <2>2. WithChildren(DownTo(node)[k]) \subseteq S
    BY <2>1 DEF WithChildren
  <2>3. DownTo(node)[k + 1] = WithChildren(DownTo(node)[k])
    BY <2>1, DownToDef
  <2> QED
    BY <2>1, <2>2, <2>3
<1> HIDE DEF T
<1>3. T = Nat
  <2>1. T \in SUBSET Nat
    BY DEF T
  <2> QED
    BY <1>1, <1>2, <2>1, AllNaturals
<1>4. MaxTokens + 2 \in Nat
  BY GrammarAssumption
<1> QED
  BY <1>3, <1>4 DEF T, Nodes

Expressible == {"NULL", "NUMBER", "VARIABLE", "BINOP", "FN_CALL"}

\* A node of an expression over these symbols.
NodeOK(n, syms) ==
    /\ n[1] \in Expressible
    /\ AsCompiled(n, 1)
    /\ PointsTo(n) \subseteq syms

Expr(n, syms) ==
    \E S : n \in S /\ \A m \in S : NodeOK(m, syms) /\ Children(m) \subseteq S

\* A construct that is finished in the depth-th scope.
Fits(n, depth, syms) ==
    \E S : /\ n \in S
           /\ \A m \in S : /\ AsCompiled(m, depth)
                           /\ PointsTo(m) \subseteq syms
                           /\ Children(m) \subseteq S

\* A node over expressions is an expression.
LEMMA ExprStep ==
    ASSUME NEW n, NEW syms, NodeOK(n, syms), \A c \in Children(n) : Expr(c, syms)
    PROVE  Expr(n, syms)
<1> DEFINE W(c) == CHOOSE S : c \in S /\ \A m \in S : NodeOK(m, syms) /\ Children(m) \subseteq S
           S == {n} \union UNION {W(c) : c \in Children(n)}
<1>1. \A c \in Children(n) : c \in W(c) /\ \A m \in W(c) : NodeOK(m, syms) /\ Children(m) \subseteq W(c)
  BY DEF Expr
<1> HIDE DEF W
<1>2. n \in S
  OBVIOUS
<1>3. ASSUME NEW m \in S PROVE NodeOK(m, syms) /\ Children(m) \subseteq S
  <2>1. CASE m = n
    BY <1>1, <2>1
  <2>2. CASE \E c \in Children(n) : m \in W(c)
    BY <1>1, <2>2
  <2> QED
    BY <2>1, <2>2
<1> HIDE DEF S
<1> QED
  BY <1>2, <1>3 DEF Expr

\* The children of an expression are expressions.
LEMMA ExprNode ==
    ASSUME NEW n, NEW syms, Expr(n, syms)
    PROVE  NodeOK(n, syms) /\ \A c \in Children(n) : Expr(c, syms)
BY DEF Expr

\* An expression stays one when symbols are added.
LEMMA ExprGrows ==
    ASSUME NEW n, NEW syms, NEW more, syms \subseteq more, Expr(n, syms)
    PROVE  Expr(n, more)
<1>1. PICK S : n \in S /\ \A m \in S : NodeOK(m, syms) /\ Children(m) \subseteq S
  BY DEF Expr
<1>2. \A m \in S : NodeOK(m, more)
  BY <1>1 DEF NodeOK
<1> QED
  BY <1>1, <1>2 DEF Expr

\* A construct still fits when symbols are added.
LEMMA FitsGrows ==
    ASSUME NEW n, NEW depth, NEW syms, NEW more, syms \subseteq more, Fits(n, depth, syms)
    PROVE  Fits(n, depth, more)
<1>1. PICK S : /\ n \in S
               /\ \A m \in S : /\ AsCompiled(m, depth)
                               /\ PointsTo(m) \subseteq syms
                               /\ Children(m) \subseteq S
  BY DEF Fits
<1>2. \A m \in S : PointsTo(m) \subseteq more
  BY <1>1
<1> QED
  BY <1>1, <1>2 DEF Fits

\* A construct is a node of its own over expressions, or an expression.
LEMMA FitsStep ==
    ASSUME NEW n, NEW depth, NEW syms, AsCompiled(n, depth), PointsTo(n) \subseteq syms,
           \A c \in Children(n) : Expr(c, syms)
    PROVE  Fits(n, depth, syms)
<1> DEFINE W(c) == CHOOSE S : c \in S /\ \A m \in S : NodeOK(m, syms) /\ Children(m) \subseteq S
           S == {n} \union UNION {W(c) : c \in Children(n)}
<1>1. \A c \in Children(n) : c \in W(c) /\ \A m \in W(c) : NodeOK(m, syms) /\ Children(m) \subseteq W(c)
  BY DEF Expr
<1> HIDE DEF W
<1>2. n \in S
  OBVIOUS
<1>3. \A m : NodeOK(m, syms) => AsCompiled(m, depth) /\ PointsTo(m) \subseteq syms
  BY DEF NodeOK, AsCompiled, Expressible
<1>4. ASSUME NEW m \in S
      PROVE  AsCompiled(m, depth) /\ PointsTo(m) \subseteq syms /\ Children(m) \subseteq S
  <2>1. CASE m = n
    BY <1>1, <2>1
  <2>2. CASE \E c \in Children(n) : m \in W(c)
    BY <1>1, <1>3, <2>2
  <2> QED
    BY <2>1, <2>2
<1> HIDE DEF S
<1> QED
  BY <1>2, <1>4 DEF Fits

\* The kinds of nodes of expressions.
LEMMA ExprKinds ==
    ASSUME NEW syms
    PROVE  /\ Expr(NoNode, syms)
           /\ \A text : Expr(<<"NUMBER", text>>, syms)
           /\ \A s \in syms : Expr(<<"VARIABLE", s>>, syms)
           /\ \A op, l, r :
                 Expr(l, syms) /\ Expr(r, syms) /\ ~Untyped(l) /\ ~Untyped(r)
                   => Expr(<<"BINOP", op, l, r>>, syms)
           /\ \A f \in syms : \A args :
                 f.kind = "FUNCTION" /\ (\A i \in DOMAIN args : Expr(args[i], syms))
                   => Expr(<<"FN_CALL", f, args>>, syms)
<1>1. Expr(NoNode, syms)
  <2>1. Children(NoNode) = {} /\ NodeOK(NoNode, syms)
    BY DEF NoNode, Children, NodeOK, AsCompiled, Expressible, PointsTo
  <2> QED
    BY <2>1, ExprStep
<1>2. ASSUME NEW text PROVE Expr(<<"NUMBER", text>>, syms)
  <2>1. Children(<<"NUMBER", text>>) = {} /\ NodeOK(<<"NUMBER", text>>, syms)
    BY DEF Children, NodeOK, AsCompiled, Expressible, PointsTo
  <2> QED
    BY <2>1, ExprStep
<1>3. ASSUME NEW s \in syms PROVE Expr(<<"VARIABLE", s>>, syms)
  <2>1. Children(<<"VARIABLE", s>>) = {} /\ NodeOK(<<"VARIABLE", s>>, syms)
    BY DEF Children, NodeOK, AsCompiled, Expressible, PointsTo
  <2> QED
    BY <2>1, ExprStep
<1>4. ASSUME NEW op, NEW l, NEW r, Expr(l, syms), Expr(r, syms), ~Untyped(l), ~Untyped(r)
      PROVE  Expr(<<"BINOP", op, l, r>>, syms)
  <2>1. Children(<<"BINOP", op, l, r>>) = {l, r} /\ NodeOK(<<"BINOP", op, l, r>>, syms)
    BY <1>4 DEF Children, NodeOK, AsCompiled, Expressible, PointsTo, Untyped
  <2> QED
    BY <1>4, <2>1, ExprStep
<1>5. ASSUME NEW f \in syms, NEW args, f.kind = "FUNCTION",
             \A i \in DOMAIN args : Expr(args[i], syms)
      PROVE  Expr(<<"FN_CALL", f, args>>, syms)
  <2>1. /\ Children(<<"FN_CALL", f, args>>) = {args[i] : i \in DOMAIN args}
        /\ NodeOK(<<"FN_CALL", f, args>>, syms)
    BY <1>5 DEF Children, NodeOK, AsCompiled, Expressible, PointsTo
  <2>2. \A c \in Children(<<"FN_CALL", f, args>>) : Expr(c, syms)
    BY <1>5, <2>1
  <2> QED
    BY <2>1, <2>2, ExprStep
<1> QED
  BY <1>1, <1>2, <1>3, <1>4, <1>5

(***************************************************************************)
(* Frames.  What the locals of the parse functions may hold, given the     *)
(* scopes that are open.                                                   *)
(***************************************************************************)
\* The symbols of the first scopes.
SymbolsIn(scs, depth) ==
    {s : s \in UNION {{scs[i].symbols[n] : n \in {m \in Names : Declares(scs[i], m)}} : i \in 1 .. depth}}

FunctionNode(node, syms) ==
    \E s \in syms : \E ps \in Seq(syms) : Len(ps) <= 1 /\ node = <<"FN_DEF", s, ps>>

CallNode(node, syms) ==
    \E f \in syms : \E args :
        /\ f.kind = "FUNCTION" /\ node = <<"FN_CALL", f, args>>
        /\ \E S : args \in Seq(S)
        /\ \A i \in DOMAIN args : Expr(args[i], syms)

FrameTrees(f, scs) ==
    /\ f.at = "operator" => Expr(f.left, SymbolsIn(scs, Len(scs)))
    /\ f.at = "call" => CallNode(f.node, SymbolsIn(scs, Len(scs)))
    /\ f.at = "assigned" => f.target \in SymbolsIn(scs, Len(scs)) /\ Len(scs) = 2
    /\ f.at \in {"returnValue", "returned"} => Len(scs) = 2
    /\ f.at \in {"initialiser", "declared"} =>
          f.name \in Names /\ Declares(scs[Len(scs)], f.name)
    /\ f.at \in {"functionOpen", "parameters", "parameterName", "parametersEnd", "block", "body"}
          => FunctionNode(f.node, SymbolsIn(scs, 1))
    /\ f.at \in {"functionOpen", "parameters", "parameterName"} => f.node[3] = <<>>

StackTrees(s, scs) ==
    /\ \E S : s \in Seq(S)
    /\ \A k \in DOMAIN s : FrameTrees(s[k], scs)

\* Taking the top frame off a stack.
LEMMA TreesPopped ==
    ASSUME NEW s, s # <<>>, NEW scs, StackTrees(s, scs), NEW b, b = SubSeq(s, 1, Len(s) - 1)
    PROVE  StackTrees(b, scs) /\ FrameTrees(s[Len(s)], scs)
<1>1. PICK S : s \in Seq(S)
  BY DEF StackTrees
<1>2. Len(s) \in Nat /\ Len(s) # 0 /\ \A k \in 1 .. Len(s) : s[k] \in S
  BY <1>1
<1>3. PICK n \in Nat : n = Len(s) - 1
  BY <1>2
<1>4. /\ SubSeq(s, 1, n) \in Seq(S)
      /\ Len(SubSeq(s, 1, n)) = IF 1 <= n THEN n - 1 + 1 ELSE 0
      /\ \A k \in 1 .. n - 1 + 1 : SubSeq(s, 1, n)[k] = s[1 + k - 1]
  <2>1. \A k \in 1 .. n : s[k] \in S
    BY <1>2, <1>3
  <2>2. 1 \in Int /\ n \in Int
    OBVIOUS
  <2> QED
    BY <2>1, <2>2, SubSeqProperties
<1>5. b \in Seq(S) /\ Len(b) = n /\ \A k \in 1 .. n : b[k] = s[k]
  BY <1>3, <1>4
<1>6. \A k \in DOMAIN b : k \in DOMAIN s /\ b[k] = s[k]
  BY <1>1, <1>2, <1>3, <1>5
<1>7. Len(s) \in DOMAIN s
  BY <1>1, <1>2
<1> QED
  BY <1>5, <1>6, <1>7 DEF StackTrees

\* Putting one stack of frames on another.
LEMMA TreesJoined ==
    ASSUME NEW scs, NEW s, StackTrees(s, scs), NEW t, StackTrees(t, scs)
    PROVE  StackTrees(s \o t, scs)
<1>1. PICK S : s \in Seq(S)
  BY DEF StackTrees
<1>2. PICK T : t \in Seq(T)
  BY DEF StackTrees
<1>3. s \in Seq(S \union T) /\ t \in Seq(S \union T)
  BY <1>1, <1>2
<1>4. /\ s \o t \in Seq(S \union T)
      /\ Len(s \o t) = Len(s) + Len(t)
      /\ \A k \in 1 .. Len(s) + Len(t) :
            (s \o t)[k] = IF k <= Len(s) THEN s[k] ELSE t[k - Len(s)]
  BY <1>3, ConcatProperties
<1>5. ASSUME NEW k \in DOMAIN (s \o t) PROVE FrameTrees((s \o t)[k], scs)
  <2>1. CASE k <= Len(s)
    BY <1>3, <1>4, <2>1 DEF StackTrees
  <2>2. CASE ~(k <= Len(s))
    <3>1. k - Len(s) \in DOMAIN t
      BY <1>3, <1>4, <2>2
    <3> QED
      BY <1>3, <1>4, <2>2, <3>1 DEF StackTrees
  <2> QED
    BY <2>1, <2>2
<1> QED
  BY <1>4, <1>5 DEF StackTrees

\* A stack of one frame.
LEMMA TreesOne ==
    ASSUME NEW scs, NEW f, FrameTrees(f, scs)
    PROVE  StackTrees(<<f>>, scs)
<1>1. <<f>> \in Seq({f}) /\ \A k \in DOMAIN <<f>> : <<f>>[k] = f
  OBVIOUS
<1> QED
  BY <1>1 DEF StackTrees

\* Putting a frame on a stack.
LEMMA TreesAppended ==
    ASSUME NEW scs, NEW s, StackTrees(s, scs), NEW f, FrameTrees(f, scs)
    PROVE  StackTrees(Append(s, f), scs)
<1>1. PICK S : s \in Seq(S)
  BY DEF StackTrees
<1> DEFINE T == S \union {f}
<1>2. s \in Seq(T) /\ f \in T
  BY <1>1
<1> HIDE DEF T
<1>3. Len(s) \in Nat /\ DOMAIN s = 1 .. Len(s)
  BY <1>1
<1>4. /\ Append(s, f) \in Seq(T)
      /\ Len(Append(s, f)) = Len(s) + 1
      /\ Append(s, f)[Len(s) + 1] = f
      /\ \A k \in 1 .. Len(s) : Append(s, f)[k] = s[k]
  BY <1>2, AppendProperties
<1>5. ASSUME NEW k \in DOMAIN Append(s, f) PROVE FrameTrees(Append(s, f)[k], scs)
  <2>1. k \in 1 .. Len(s) \/ k = Len(s) + 1
    BY <1>3, <1>4
  <2> QED
    BY <1>3, <1>4, <2>1 DEF StackTrees
<1> QED
  BY <1>4, <1>5 DEF StackTrees

\* The frames of an expression that begins hold no tree.
LEMMA TreesCalled ==
    ASSUME NEW scs, NEW min
    PROVE  StackTrees(Expression(min), scs)
<1> DEFINE f1 == [at |-> "operator", min |-> min, left |-> NoNode, op |-> ""]
           f2 == [at |-> "postfix"]
           f3 == [at |-> "primary"]
           S == {f1, f2, f3}
<1>1. f1.at = "operator" /\ f1.left = NoNode /\ f2.at = "postfix" /\ f3.at = "primary"
  OBVIOUS
<1>2. Expression(min) = <<f1, f2, f3>>
  BY DEF Expression
<1>3. f1 \in S /\ f2 \in S /\ f3 \in S
  OBVIOUS
<1> HIDE DEF f1, f2, f3, S
<1>4. <<f1, f2, f3>> \in Seq(S)
  BY <1>3
<1>5. \A k \in DOMAIN <<f1, f2, f3>> : <<f1, f2, f3>>[k] \in {f1, f2, f3}
  OBVIOUS
<1>6. FrameTrees(f1, scs) /\ FrameTrees(f2, scs) /\ FrameTrees(f3, scs)
  <2>1. Expr(NoNode, SymbolsIn(scs, Len(scs)))
    BY ExprKinds
  <2> QED
    BY <1>1, <2>1 DEF FrameTrees
<1> QED
  BY <1>2, <1>4, <1>5, <1>6 DEF StackTrees

(***************************************************************************)
(* What the frames hold stays right while symbols are added.               *)
(***************************************************************************)
Grows(scs, more) ==
    /\ Len(more) = Len(scs) /\ Len(scs) \in Nat /\ Len(scs) >= 1
    /\ \A d \in 1 .. Len(scs) : SymbolsIn(scs, d) \subseteq SymbolsIn(more, d)
    /\ \A n \in Names : Declares(scs[Len(scs)], n) => Declares(more[Len(more)], n)

\* A frame's trees are still such when symbols are added.
LEMMA FrameGrows ==
    ASSUME NEW scs, NEW more, Grows(scs, more), NEW f, FrameTrees(f, scs)
    PROVE  FrameTrees(f, more)
<1> DEFINE all == SymbolsIn(scs, Len(scs))
           all2 == SymbolsIn(more, Len(more))
<1>1. all \subseteq all2 /\ SymbolsIn(scs, 1) \subseteq SymbolsIn(more, 1)
  <2>1. Len(scs) \in 1 .. Len(scs) /\ 1 \in 1 .. Len(scs)
    BY DEF Grows
  <2> QED
    BY <2>1 DEF Grows
<1>2. FunctionNode(f.node, SymbolsIn(scs, 1)) => FunctionNode(f.node, SymbolsIn(more, 1))
  <2> DEFINE A == SymbolsIn(scs, 1)
             B == SymbolsIn(more, 1)
  <2>1. A \subseteq B
    BY <1>1
  <2> HIDE DEF A, B
  <2>2. Seq(A) \subseteq Seq(B)
    BY <2>1
  <2>3. FunctionNode(f.node, A) => FunctionNode(f.node, B)
    BY <2>1, <2>2 DEF FunctionNode
  <2> QED
    BY <2>3 DEF A, B
<1> HIDE DEF all, all2
<1>3. CallNode(f.node, all) => CallNode(f.node, all2)
  BY <1>1, ExprGrows DEF CallNode
<1>4. Expr(f.left, all) => Expr(f.left, all2)
  BY <1>1, ExprGrows
<1>5. f.target \in all => f.target \in all2
  BY <1>1
<1> QED
  BY <1>2, <1>3, <1>4, <1>5 DEF FrameTrees, Grows, all, all2

\* And so are a stack's.
LEMMA StackGrows ==
    ASSUME NEW scs, NEW more, Grows(scs, more), NEW s, StackTrees(s, scs)
    PROVE  StackTrees(s, more)
BY FrameGrows DEF StackTrees

(***************************************************************************)
(* The table, as far as the trees point to it.                             *)
(***************************************************************************)
LEMMA LookupOpen ==
    ASSUME TypeOK, NEW name \in Names, Visible(name)
    PROVE  Lookup(name) \in SymbolsIn(scopes, Len(scopes))
<1>1. PICK i \in DOMAIN scopes : Innermost(name, i)
  BY InnermostExists
<1>2. Lookup(name) = scopes[i].symbols[name]
  BY <1>1, LookupInnermost
<1>3. i \in 1 .. Len(scopes) /\ Declares(scopes[i], name)
  BY <1>1 DEF Innermost, TypeOK
<1> QED
  BY <1>2, <1>3 DEF SymbolsIn

\* Binding a name that is free takes no symbol away.
LEMMA BindGrows ==
    ASSUME TypeOK, NEW name \in Names, NEW sym, sym.kind # "UNDECLARED", MayDeclare(name),
           scopes' = [scopes EXCEPT ![Current] = Bind(scopes[Current], name, sym)]
    PROVE  /\ Grows(scopes, scopes')
           /\ Declares(scopes'[Len(scopes')], name)
           /\ scopes'[Current].symbols[name] \in SymbolsIn(scopes', Len(scopes'))
<1>1. /\ Current \in DOMAIN scopes /\ DOMAIN scopes = 1 .. Current
      /\ Current \in Nat /\ Current >= 1
      /\ \A k \in DOMAIN scopes : scopes[k] \in Scope
      /\ Current = Len(scopes)
  BY DEF TypeOK, Current
<1>2. /\ DOMAIN scopes' = DOMAIN scopes /\ Len(scopes') = Current
      /\ \A k \in DOMAIN scopes : k # Current => scopes'[k] = scopes[k]
      /\ scopes'[Current] = Bind(scopes[Current], name, sym)
  BY <1>1 DEF TypeOK
<1>3. /\ scopes'[Current].symbols[name] = sym
      /\ \A n \in Names : n # name =>
            scopes'[Current].symbols[n] = scopes[Current].symbols[n]
  BY <1>1, <1>2 DEF Bind, Scope
<1>4. ~Declares(scopes[Current], name) /\ Declares(scopes'[Current], name)
  BY <1>3 DEF MayDeclare, Declares
<1>5. \A k \in DOMAIN scopes, n \in Names : Declares(scopes[k], n) =>
         Declares(scopes'[k], n) /\ scopes'[k].symbols[n] = scopes[k].symbols[n]
  BY <1>2, <1>3, <1>4 DEF Declares
<1>6. ASSUME NEW d \in 1 .. Len(scopes)
      PROVE  SymbolsIn(scopes, d) \subseteq SymbolsIn(scopes', d)
  <2>1. ASSUME NEW s \in SymbolsIn(scopes, d) PROVE s \in SymbolsIn(scopes', d)
    <3>1. PICK i \in 1 .. d : \E n \in Names : Declares(scopes[i], n) /\ s = scopes[i].symbols[n]
      BY <2>1 DEF SymbolsIn
    <3>2. PICK n \in Names : Declares(scopes[i], n) /\ s = scopes[i].symbols[n]
      BY <3>1
    <3>3. i \in DOMAIN scopes
      BY <1>1
    <3> QED
      BY <1>5, <3>2, <3>3 DEF SymbolsIn
  <2> QED
    BY <2>1
<1>7. Grows(scopes, scopes')
  BY <1>1, <1>2, <1>5, <1>6 DEF Grows
<1>8. sym \in SymbolsIn(scopes', Len(scopes'))
  <2>1. Current \in 1 .. Len(scopes')
    BY <1>1, <1>2
  <2> QED
    BY <1>3, <1>4, <2>1 DEF SymbolsIn
<1> QED
  BY <1>1, <1>2, <1>3, <1>4, <1>7, <1>8

\* Nor does declaring one, and the new symbol is in the current scope.
LEMMA DeclGrows ==
    ASSUME TypeOK, NEW name \in Names, NEW type, Decl(name, type) \/ DeclFn(name, type)
    PROVE  /\ Grows(scopes, scopes')
           /\ Declares(scopes'[Len(scopes')], name)
           /\ scopes'[Current].symbols[name] \in SymbolsIn(scopes', Len(scopes'))
<1>1. PICK sym : /\ sym.kind \in Kinds /\ MayDeclare(name)
                 /\ scopes' = [scopes EXCEPT ![Current] = Bind(scopes[Current], name, sym)]
  <2>1. CASE Decl(name, type)
    <3> DEFINE sym == [symbolId    |-> nextSymbolId,
                       kind        |-> "VARIABLE",
                       type        |-> type,
                       stackOffset |-> scopes[Current].nextOffset]
    <3>1. /\ sym.kind \in Kinds /\ MayDeclare(name)
          /\ scopes' = [scopes EXCEPT ![Current] = Bind(scopes[Current], name, sym)]
      BY <2>1 DEF Decl, Kinds
    <3> QED
      BY <3>1
  <2>2. CASE DeclFn(name, type)
    <3> DEFINE sym == [symbolId    |-> nextSymbolId,
                       kind        |-> "FUNCTION",
                       type        |-> type,
                       stackOffset |-> 0]
    <3>1. /\ sym.kind \in Kinds /\ MayDeclare(name)
          /\ scopes' = [scopes EXCEPT ![Current] = Bind(scopes[Current], name, sym)]
      BY <2>2 DEF DeclFn, Kinds
    <3> QED
      BY <3>1
  <2> QED
    BY <2>1, <2>2
<1>2. sym.kind # "UNDECLARED"
  BY <1>1 DEF Kinds
<1> QED
  BY <1>1, <1>2, BindGrows

\* A table that stays the same takes no symbol away.
LEMMA SameTable ==
    ASSUME TypeOK, UNCHANGED vars
    PROVE  Grows(scopes, scopes') /\ scopes' = scopes
BY DEF Grows, vars, TypeOK

(***************************************************************************)
(* The trees that the parser holds, and the construct it has just built.   *)
(***************************************************************************)
TreesOK ==
    /\ Expr(ret, SymbolsIn(scopes, Len(scopes)))
    /\ StackTrees(stack, scopes)
    /\ built.depth \in 1 .. Len(scopes)
    /\ Fits(built.node, built.depth, SymbolsIn(scopes, built.depth))

\* The construct that stands for none fits everywhere.
LEMMA NothingFits == ASSUME NEW syms PROVE Nothing.depth = 1 /\ Fits(Nothing.node, 1, syms)
<1>1. Nothing.depth = 1 /\ Nothing.node = NoNode
  BY DEF Nothing
<1>2. Children(NoNode) = {} /\ AsCompiled(NoNode, 1) /\ PointsTo(NoNode) \subseteq syms
  BY DEF NoNode, Children, AsCompiled, PointsTo
<1> QED
  BY <1>1, <1>2, FitsStep

\* An empty stack holds no tree.
LEMMA NoFrames == ASSUME NEW scs PROVE StackTrees(<<>>, scs)
<1>1. <<>> \in Seq({}) /\ \A k \in DOMAIN <<>> : FALSE
  OBVIOUS
<1> QED
  BY <1>1 DEF StackTrees

\* The parser goes on with what it has, or drops the construct built last.
LEMMA TreesAdvance ==
    ASSUME TreesOK, Grows(scopes, scopes'), StackTrees(stack', scopes'),
           Expr(ret', SymbolsIn(scopes', Len(scopes'))), built' = built \/ built' = Nothing
    PROVE  TreesOK'
<1>1. Len(scopes') = Len(scopes) /\ Len(scopes) \in Nat /\ Len(scopes) >= 1
  BY DEF Grows
<1>2. built'.depth \in 1 .. Len(scopes')
  BY <1>1, NothingFits DEF TreesOK
<1>3. Fits(built'.node, built'.depth, SymbolsIn(scopes', built'.depth))
  <2>1. CASE built' = Nothing
    BY <2>1, NothingFits
  <2>2. CASE built' = built
    <3>1. SymbolsIn(scopes, built.depth) \subseteq SymbolsIn(scopes', built.depth)
      BY DEF TreesOK, Grows
    <3> QED
      BY <2>2, <3>1, FitsGrows DEF TreesOK
  <2> QED
    BY <2>1, <2>2
<1> QED
  BY <1>2, <1>3 DEF TreesOK

\* A construct is done.
LEMMA TreesDone ==
    ASSUME TypeOK, TreesOK, stack # <<>>, UNCHANGED vars, NEW node, Finish(node),
           Fits(node, Len(scopes), SymbolsIn(scopes, Len(scopes)))
    PROVE  TreesOK'
<1>1. scopes' = scopes /\ Len(scopes) \in Nat /\ Len(scopes) >= 1
  BY DEF vars, TypeOK
<1>2. built'.node = node /\ built'.depth = Len(scopes) /\ ret' = NoNode /\ stack' = Below
  BY <1>1 DEF Finish
<1>3. StackTrees(Below, scopes)
  BY TreesPopped DEF TreesOK, Below
<1>4. Expr(NoNode, SymbolsIn(scopes, Len(scopes)))
  BY ExprKinds
<1> QED
  BY <1>1, <1>2, <1>3, <1>4 DEF TreesOK

\* Giving up drops every tree.
LEMMA TreesRefused ==
    ASSUME TypeOK, GiveUp, UNCHANGED vars \/ \E name \in Names : RejectDecl(name)
    PROVE  TreesOK'
<1>1. scopes' = scopes /\ Len(scopes) \in Nat /\ Len(scopes) >= 1
  BY DEF vars, TypeOK, RejectDecl
<1>2. stack' = <<>> /\ ret' = NoNode /\ built' = Nothing
  BY DEF GiveUp
<1>3. Expr(NoNode, SymbolsIn(scopes, Len(scopes))) /\ StackTrees(<<>>, scopes)
  BY ExprKinds, NoFrames
<1> QED
  BY <1>1, <1>2, <1>3, NothingFits DEF TreesOK

\* An expression fits at every depth.
LEMMA ExprFits ==
    ASSUME NEW n, NEW depth, NEW syms, Expr(n, syms)
    PROVE  Fits(n, depth, syms)
<1>1. NodeOK(n, syms) /\ \A c \in Children(n) : Expr(c, syms)
  BY ExprNode
<1>2. AsCompiled(n, depth) /\ PointsTo(n) \subseteq syms
  BY <1>1 DEF NodeOK, AsCompiled, Expressible
<1> QED
  BY <1>1, <1>2, FitsStep

\* The frames under the top hold trees, and so does the top.
LEMMA TreesBelow ==
    ASSUME TreesOK, stack # <<>>
    PROVE  StackTrees(Below, scopes) /\ FrameTrees(Top, scopes)
BY TreesPopped DEF TreesOK, Below, Top

\* The function on top goes on with these locals, and parses an expression.
LEMMA TreesGoto ==
    ASSUME TreesOK, stack # <<>>, NEW f, FrameTrees(f, scopes'), Grows(scopes, scopes')
    PROVE  /\ StackTrees(Append(Below, f), scopes')
           /\ \A min : StackTrees(Append(Below, f) \o Expression(min), scopes')
<1>1. StackTrees(Below, scopes')
  BY TreesBelow, StackGrows
<1>2. StackTrees(Append(Below, f), scopes')
  BY <1>1, TreesAppended
<1> QED
  BY <1>2, TreesCalled, TreesJoined

\* A call with one argument more is a call.
LEMMA CallWith ==
    ASSUME NEW syms, NEW node, CallNode(node, syms), Expr(ret, syms)
    PROVE  CallNode(WithArgument(node), syms)
<1>0. PICK f \in syms : \E args : /\ f.kind = "FUNCTION" /\ node = <<"FN_CALL", f, args>>
                                /\ \E S : args \in Seq(S)
                                /\ \A i \in DOMAIN args : Expr(args[i], syms)
  BY DEF CallNode
<1>1. PICK args : /\ f.kind = "FUNCTION" /\ node = <<"FN_CALL", f, args>>
                  /\ \E S : args \in Seq(S)
                  /\ \A i \in DOMAIN args : Expr(args[i], syms)
  BY <1>0
<1>2. CASE ret = NoNode
  BY <1>2 DEF WithArgument
<1>3. CASE ret # NoNode
  <2>1. PICK S : args \in Seq(S)
    BY <1>1
  <2> DEFINE T == S \union {ret}
             more == Append(args, ret)
  <2>2. args \in Seq(T) /\ ret \in T /\ Len(args) \in Nat /\ DOMAIN args = 1 .. Len(args)
    BY <2>1
  <2> HIDE DEF T
  <2>3. /\ more \in Seq(T)
        /\ Len(more) = Len(args) + 1
        /\ more[Len(args) + 1] = ret
        /\ \A k \in 1 .. Len(args) : more[k] = args[k]
    BY <2>2, AppendProperties
  <2>4. WithArgument(node) = <<"FN_CALL", f, more>>
    BY <1>1, <1>3 DEF WithArgument
  <2> HIDE DEF more
  <2>5. ASSUME NEW i \in DOMAIN more PROVE Expr(more[i], syms)
    <3>1. i \in 1 .. Len(args) \/ i = Len(args) + 1
      BY <2>2, <2>3
    <3> QED
      BY <1>1, <2>2, <2>3, <3>1
  <2> QED
    BY <1>1, <2>3, <2>4, <2>5 DEF CallNode
<1> QED
  BY <1>2, <1>3

\* A call is an expression.
LEMMA CallIsExpr ==
    ASSUME NEW syms, NEW node, CallNode(node, syms)
    PROVE  Expr(node, syms)
BY ExprKinds DEF CallNode

\* What stands to the left of an operator is an expression.
LEMMA LefthandExpr ==
    ASSUME TreesOK, At("operator"), OperandsTyped
    PROVE  Expr(Lefthand, SymbolsIn(scopes, Len(scopes)))
<1> DEFINE syms == SymbolsIn(scopes, Len(scopes))
<1>1. Expr(ret, syms) /\ Expr(Top.left, syms)
  BY TreesBelow DEF At, TreesOK, FrameTrees
<1> HIDE DEF syms
<1>2. CASE Top.left = NoNode
  BY <1>1, <1>2 DEF Lefthand, syms
<1>3. CASE Top.left # NoNode
  <2>1. Lefthand = <<"BINOP", Top.op, Top.left, ret>>
    BY <1>3 DEF Lefthand
  <2>2. Expr(<<"BINOP", Top.op, Top.left, ret>>, syms)
    BY <1>1, <1>3, ExprKinds DEF OperandsTyped
  <2> QED
    BY <2>1, <2>2 DEF syms
<1> QED
  BY <1>2, <1>3

\* The functions that parse expressions keep the trees.
LEMMA ExpressionsKeepTrees ==
    ASSUME TypeOK, TokensOK, TreesOK, Expressions
    PROVE  TreesOK'
<1> DEFINE syms == SymbolsIn(scopes, Len(scopes))
           Same == UNCHANGED vars /\ built' = built
<1> USE DEF At
<1>1. ASSUME Same, StackTrees(stack', scopes), Expr(ret', syms) PROVE TreesOK'
  BY <1>1, SameTable, TreesAdvance
<1>2. Expr(ret, syms) /\ Expr(NoNode, syms)
  BY ExprKinds DEF TreesOK
<1>3. ASSUME Same, stack # <<>>, stack' = Below, Expr(ret', syms) PROVE TreesOK'
  BY <1>1, <1>3, TreesBelow
<1>4. ASSUME Same, stack # <<>>, NEW f, FrameTrees(f, scopes), Expr(ret', syms),
             \/ stack' = Append(Below, f)
             \/ \E min : stack' = Append(Below, f) \o Expression(min)
      PROVE  TreesOK'
  BY <1>1, <1>4, SameTable, TreesGoto
<1>5. ASSUME Refuse PROVE TreesOK'
  BY <1>5, TreesRefused DEF Refuse
<1>6. CASE Parenthesis
  <2> DEFINE f == [at |-> "closing"]
  <2>1. f.at = "closing"
    OBVIOUS
  <2>2. stack' = Append(Below, f) \o Expression(0) /\ Same /\ ret' = ret /\ stack # <<>>
    BY <1>6 DEF Parenthesis
  <2> HIDE DEF f, syms, Same
  <2>3. FrameTrees(f, scopes)
    BY <2>1 DEF FrameTrees
  <2> QED
    BY <1>2, <1>4, <2>2, <2>3
<1>7. CASE CloseParenthesis \/ EndPostfix
  <2>1. stack' = Below /\ Same /\ ret' = ret /\ stack # <<>>
    BY <1>7 DEF CloseParenthesis, EndPostfix, Return
  <2> HIDE DEF syms, Same
  <2> QED
    BY <1>2, <1>3, <2>1
<1>8. CASE Literal
  <2>1. stack' = Below /\ Same /\ ret' = <<"NUMBER", ahead[1].text>> /\ stack # <<>>
    BY <1>8 DEF Literal, Return
  <2>2. Expr(ret', syms)
    BY <2>1, ExprKinds
  <2> HIDE DEF syms, Same
  <2> QED
    BY <1>3, <2>1, <2>2
<1>9. CASE Name
  <2>1. /\ stack' = Below /\ Same /\ ret' = <<"VARIABLE", Lookup(ahead[1].text)>> /\ stack # <<>>
        /\ Visible(ahead[1].text) /\ NextIs("Identifier")
    BY <1>9 DEF Name, Return
  <2>2. ahead[1].text \in Names
    BY <2>1, ReadyToken, TokenTypes DEF NextIs
  <2>3. Expr(ret', syms)
    BY <2>1, <2>2, LookupOpen, ExprKinds
  <2> HIDE DEF syms, Same
  <2> QED
    BY <1>3, <2>1, <2>3
<1>10. CASE BeginCall
  <2> DEFINE f == [at |-> "call", node |-> <<"FN_CALL", ret[2], <<>>>>]
  <2>1. f.at = "call" /\ f.node = <<"FN_CALL", ret[2], <<>>>>
    OBVIOUS
  <2>2. /\ stack' = Append(Below, f) /\ Same /\ ret' = NoNode /\ stack # <<>>
        /\ ret[1] = "VARIABLE" /\ ret[2].kind = "FUNCTION"
    BY <1>10 DEF BeginCall, Goto
  <2> HIDE DEF f
  <2>3. ret[2] \in syms
    <3>1. NodeOK(ret, syms)
      BY <1>2, ExprNode
    <3> QED
      BY <2>2, <3>1 DEF NodeOK, PointsTo
  <2> HIDE DEF syms
  <2>4. CallNode(<<"FN_CALL", ret[2], <<>>>>, syms)
    <3>1. <<>> \in Seq({}) /\ \A i \in DOMAIN <<>> : FALSE
      OBVIOUS
    <3> QED
      BY <2>2, <2>3, <3>1 DEF CallNode
  <2>5. FrameTrees(f, scopes)
    BY <2>1, <2>4 DEF FrameTrees, syms
  <2> HIDE DEF Same
  <2> QED
    BY <1>2, <1>4, <2>2, <2>5
<1>11. CASE NextArgument
  <2> DEFINE f == [at |-> "call", node |-> WithArgument(Top.node)]
  <2>1. f.at = "call" /\ f.node = WithArgument(Top.node)
    OBVIOUS
  <2>2. /\ stack' = Append(Below, f) \o Expression(0) /\ Same /\ ret' = NoNode /\ stack # <<>>
        /\ Top.at = "call"
    BY <1>11 DEF NextArgument
  <2> HIDE DEF f
  <2>3. CallNode(Top.node, syms)
    BY <2>2, TreesBelow DEF FrameTrees
  <2> HIDE DEF syms
  <2>4. FrameTrees(f, scopes)
    <3>1. CallNode(f.node, syms)
      BY <1>2, <2>1, <2>3, CallWith
    <3> QED
      BY <2>1, <3>1 DEF FrameTrees, syms
  <2> HIDE DEF Same
  <2> QED
    BY <1>2, <1>4, <2>2, <2>4
<1>12. CASE EndCall
  <2> DEFINE f == [at |-> "postfix"]
  <2>1. f.at = "postfix"
    OBVIOUS
  <2>2. /\ stack' = Append(Below, f) /\ Same /\ ret' = WithArgument(Top.node) /\ stack # <<>>
        /\ Top.at = "call"
    BY <1>12 DEF EndCall, Goto
  <2> HIDE DEF f
  <2>3. CallNode(Top.node, syms)
    BY <2>2, TreesBelow DEF FrameTrees
  <2> HIDE DEF syms
  <2>4. Expr(ret', syms)
    BY <1>2, <2>2, <2>3, CallWith, CallIsExpr
  <2>5. FrameTrees(f, scopes)
    BY <2>1 DEF FrameTrees
  <2> HIDE DEF Same
  <2> QED
    BY <1>4, <2>2, <2>4, <2>5
<1>13. CASE Operator
  <2> DEFINE f == [at |-> "operator", min |-> Top.min, left |-> Lefthand, op |-> NextType]
  <2>1. f.at = "operator" /\ f.left = Lefthand
    OBVIOUS
  <2>2. /\ stack' = Append(Below, f) \o Expression(Precedence(NextType) + 1)
        /\ Same /\ ret' = NoNode /\ stack # <<>>
    BY <1>13 DEF Operator
  <2> HIDE DEF f
  <2>3. Expr(Lefthand, syms)
    BY <1>13, LefthandExpr DEF Operator
  <2>4. FrameTrees(f, scopes)
    BY <2>1, <2>3 DEF FrameTrees
  <2> HIDE DEF Same, syms
  <2> QED
    BY <1>2, <1>4, <2>2, <2>4
<1>14. CASE EndExpression
  <2>1. stack' = Below /\ Same /\ ret' = Lefthand /\ stack # <<>>
    BY <1>14 DEF EndExpression, Return
  <2>2. Expr(Lefthand, syms)
    BY <1>14, LefthandExpr DEF EndExpression
  <2> HIDE DEF Same, syms
  <2> QED
    BY <1>3, <2>1, <2>2
<1>15. CASE RefusePrimary \/ RefuseCall \/ RefuseOperands
  BY <1>5, <1>15 DEF RefusePrimary, RefuseCall, RefuseOperands
<1> QED
  BY <1>6, <1>7, <1>8, <1>9, <1>10, <1>11, <1>12, <1>13, <1>14, <1>15 DEF Expressions

\* The head of a function: its frame is the only one, in the global scope.
LEMMA HeadIsAlone ==
    ASSUME TypeOK, StackOK(stack), ScopesOK, phase = "parsing", stack # <<>>,
           Top.at \in FunctionFrames
    PROVE  /\ Len(stack) = 1 /\ Below = <<>>
           /\ Len(scopes) = IF Top.at \in BodyFrames THEN 2 ELSE 1
<1>1. Len(stack) = 1 /\ (InBodyOf(stack) <=> Top.at \in BodyFrames)
  BY InBodyTop
<1>2. Len(scopes) = IF Top.at \in BodyFrames THEN 2 ELSE 1
  BY <1>1 DEF ScopesOK
<1>3. Below = <<>>
  <2>1. Len(Below) = 0 /\ StackOK(Below)
    <3>1. Below = SubSeq(stack, 1, Len(stack) - 1)
      BY DEF Below
    <3>2. Len(Below) = Len(stack) - 1 /\ StackOK(Below)
      BY <3>1, PopKeepsStack
    <3> QED
      BY <1>1, <3>2
  <2>2. PICK S : Below \in Seq(S)
    BY <2>1 DEF StackOK
  <2> QED
    BY <2>1, <2>2
<1> QED
  BY <1>1, <1>2, <1>3

\* A function whose parameter is declared.
LEMMA FunctionSymbols ==
    ASSUME NEW syms, NEW node, FunctionNode(node, syms), NEW sym \in syms, node[3] = <<>>
    PROVE  FunctionNode(<<"FN_DEF", node[2], Append(node[3], sym)>>, syms)
<1>1. PICK s \in syms : \E ps \in Seq(syms) : Len(ps) <= 1 /\ node = <<"FN_DEF", s, ps>>
  BY DEF FunctionNode
<1>2. node[2] = s
  BY <1>1
<1>3. Append(<<>>, sym) = <<sym>> /\ <<sym>> \in Seq(syms) /\ Len(<<sym>>) <= 1
  OBVIOUS
<1>4. <<"FN_DEF", node[2], Append(node[3], sym)>> = <<"FN_DEF", s, <<sym>>>>
  BY <1>2, <1>3
<1>5. \E ps \in Seq(syms) : /\ Len(ps) <= 1
                          /\ <<"FN_DEF", node[2], Append(node[3], sym)>> = <<"FN_DEF", s, ps>>
  BY <1>3, <1>4
<1> QED
  BY <1>5 DEF FunctionNode

\* A function fits where it is defined, outside of every body.
LEMMA FunctionFits ==
    ASSUME NEW syms, NEW node, FunctionNode(node, syms)
    PROVE  Fits(node, 1, syms)
<1>1. PICK s \in syms : \E ps \in Seq(syms) : Len(ps) <= 1 /\ node = <<"FN_DEF", s, ps>>
  BY DEF FunctionNode
<1>2. PICK ps \in Seq(syms) : Len(ps) <= 1 /\ node = <<"FN_DEF", s, ps>>
  BY <1>1
<1>3. node[1] = "FN_DEF" /\ node[2] = s /\ node[3] = ps
  BY <1>2
<1>4. \A i \in DOMAIN ps : ps[i] \in syms
  OBVIOUS
<1>5. AsCompiled(node, 1)
  BY <1>2, <1>3 DEF AsCompiled
<1>6. PointsTo(node) \subseteq syms
  BY <1>3, <1>4 DEF PointsTo
<1>7. Children(node) = {}
  BY <1>3 DEF Children
<1> QED
  BY <1>5, <1>6, <1>7, FitsStep

\* The table is entered or left around a body; the global scope stays.
LEMMA GlobalSymbols ==
    ASSUME TypeOK, Enter \/ Leave
    PROVE  SymbolsIn(scopes', 1) = SymbolsIn(scopes, 1)
<1>1. Len(scopes) \in Nat /\ Len(scopes) >= 1
  BY DEF TypeOK
<1>2. scopes'[1] = scopes[1]
  <2>1. CASE Enter
    <3>1. 1 \in 1 .. Current
      BY <1>1 DEF Current
    <3> QED
      BY <2>1, <3>1, ScopeEntered
  <2>2. CASE Leave
    <3>1. Current > 1 /\ \A i \in 1 .. (Current - 1) : scopes'[i] = scopes[i]
      BY <2>2, ScopeLeft
    <3>2. 1 \in 1 .. (Current - 1)
      BY <1>1, <3>1 DEF Current
    <3> QED
      BY <3>1, <3>2
  <2> QED
    BY <2>1, <2>2
<1>3. \A i \in 1 .. 1 : i = 1
  OBVIOUS
<1> QED
  BY <1>2, <1>3 DEF SymbolsIn

\* The functions that parse declarations and functions keep the trees.
LEMMA DeclarationsKeepTrees ==
    ASSUME TypeOK, TokensOK, StackOK(stack), ScopesOK, TreesOK, Declarations
    PROVE  TreesOK'
<1> DEFINE syms == SymbolsIn(scopes, Len(scopes))
           Same == UNCHANGED vars /\ built' = built
           FnLabels == {"functionOpen", "parameters", "parameterName",
                        "parametersEnd", "block", "body"}
<1> USE DEF At
<1>1. Expr(ret, syms) /\ Expr(NoNode, syms)
  BY ExprKinds DEF TreesOK
<1>2. ASSUME Grows(scopes, scopes'), built' = built, ret' = ret, stack # <<>>,
             NEW f, FrameTrees(f, scopes'),
             \/ stack' = Append(Below, f)
             \/ \E min : stack' = Append(Below, f) \o Expression(min)
      PROVE  TreesOK'
  <2>1. StackTrees(stack', scopes')
    BY <1>2, TreesGoto
  <2>2. SymbolsIn(scopes, Len(scopes)) \subseteq SymbolsIn(scopes', Len(scopes'))
    BY <1>2 DEF Grows
  <2>3. Expr(ret', SymbolsIn(scopes', Len(scopes')))
    BY <1>1, <1>2, <2>2, ExprGrows
  <2> QED
    BY <1>2, <2>1, <2>3, TreesAdvance
<1>3. ASSUME Same, ret' = ret, stack # <<>>, NEW f, FrameTrees(f, scopes),
             \/ stack' = Append(Below, f)
             \/ \E min : stack' = Append(Below, f) \o Expression(min)
      PROVE  TreesOK'
  BY <1>2, <1>3, SameTable
<1>4. ASSUME NextIs("Identifier") PROVE ahead[1].text \in Names
  BY <1>4, ReadyToken, TokenTypes DEF NextIs
<1>5. ASSUME stack # <<>>, Top.at \in FnLabels
      PROVE  FunctionNode(Top.node, SymbolsIn(scopes, 1))
  BY <1>5, TreesBelow DEF FrameTrees
<1>6. ASSUME stack # <<>>, Top.at \in {"functionOpen", "parameters", "parameterName"}
      PROVE  Top.node[3] = <<>>
  BY <1>6, TreesBelow DEF FrameTrees
<1>7. CASE DeclaredType
  <2> DEFINE f == [at |-> "variableName", type |-> ahead[1].text]
  <2>1. f.at = "variableName"
    OBVIOUS
  <2>2. stack' = Append(Below, f) /\ Same /\ ret' = ret /\ stack # <<>>
    BY <1>7 DEF DeclaredType, Goto
  <2> HIDE DEF f, Same
  <2>3. FrameTrees(f, scopes)
    BY <2>1 DEF FrameTrees
  <2> QED
    BY <1>3, <2>2, <2>3
<1>8. CASE ReturnType
  <2> DEFINE f == [at |-> "functionName", type |-> ahead[1].text]
  <2>1. f.at = "functionName"
    OBVIOUS
  <2>2. stack' = Append(Below, f) /\ Same /\ ret' = ret /\ stack # <<>>
    BY <1>8 DEF ReturnType, Goto
  <2> HIDE DEF f, Same
  <2>3. FrameTrees(f, scopes)
    BY <2>1 DEF FrameTrees
  <2> QED
    BY <1>3, <2>2, <2>3
<1>9. CASE DeclareVariable
  <2> DEFINE f == [at |-> "initialiser", name |-> ahead[1].text]
  <2>1. f.at = "initialiser" /\ f.name = ahead[1].text
    OBVIOUS
  <2>2. /\ stack' = Append(Below, f) /\ built' = built /\ ret' = ret /\ stack # <<>>
        /\ Decl(ahead[1].text, Top.type) /\ NextIs("Identifier")
    BY <1>9 DEF DeclareVariable, Goto
  <2> HIDE DEF f
  <2>3. Grows(scopes, scopes') /\ Declares(scopes'[Len(scopes')], ahead[1].text)
    BY <1>4, <2>2, DeclGrows
  <2>4. FrameTrees(f, scopes')
    BY <1>4, <2>1, <2>2, <2>3 DEF FrameTrees
  <2> QED
    BY <1>2, <2>2, <2>3, <2>4
<1>10. CASE Initialiser
  <2> DEFINE f == [at |-> "declared", name |-> Top.name]
  <2>1. f.at = "declared" /\ f.name = Top.name
    OBVIOUS
  <2>2. /\ stack' = Append(Below, f) \o Expression(0) /\ Same /\ ret' = ret /\ stack # <<>>
        /\ Top.at = "initialiser"
    BY <1>10 DEF Initialiser, GotoExpression
  <2> HIDE DEF f, Same
  <2>3. FrameTrees(f, scopes)
    BY <2>1, <2>2, TreesBelow DEF FrameTrees
  <2> QED
    BY <1>3, <2>2, <2>3
<1>11. CASE EndDeclaration
  <2> DEFINE node == <<"DECLARATION", Lookup(Top.name), ret>>
  <2>1. /\ Finish(node) /\ UNCHANGED vars /\ stack # <<>>
        /\ Top.at \in {"initialiser", "declared"}
    BY <1>11 DEF EndDeclaration
  <2>2. Top.name \in Names /\ Declares(scopes[Len(scopes)], Top.name)
    BY <2>1, TreesBelow DEF FrameTrees
  <2>3. Visible(Top.name)
    BY <2>2 DEF Visible, TypeOK
  <2>4. Lookup(Top.name) \in syms
    BY <2>2, <2>3, LookupOpen
  <2>5. /\ Children(node) = {ret} /\ AsCompiled(node, Len(scopes))
        /\ PointsTo(node) = {Lookup(Top.name)}
    BY DEF Children, AsCompiled, PointsTo
  <2> HIDE DEF node
  <2>6. Fits(node, Len(scopes), syms)
    BY <1>1, <2>4, <2>5, FitsStep
  <2> QED
    BY <2>1, <2>6, TreesDone
<1>12. CASE RefuseName
  BY <1>4, <1>12, TreesRefused DEF RefuseName
<1>13. CASE DeclareFunction
  <2> DEFINE f == [at |-> "functionOpen", node |-> <<"FN_DEF", NewSymbol(ahead[1].text), <<>>>>]
  <2>1. f.at = "functionOpen" /\ f.node = <<"FN_DEF", NewSymbol(ahead[1].text), <<>>>>
    OBVIOUS
  <2>2. /\ stack' = Append(Below, f) /\ built' = built /\ ret' = ret /\ stack # <<>>
        /\ DeclFn(ahead[1].text, Top.type) /\ NextIs("Identifier")
        /\ phase = "parsing" /\ Top.at = "functionName"
    BY <1>13 DEF DeclareFunction, Goto
  <2> HIDE DEF f
  <2>3. Grows(scopes, scopes') /\ NewSymbol(ahead[1].text) \in SymbolsIn(scopes', Len(scopes'))
    BY <1>4, <2>2, DeclGrows DEF NewSymbol
  <2>4. Len(scopes') = 1
    <3>1. Len(scopes) = 1
      BY <2>2, HeadIsAlone DEF FunctionFrames, BodyFrames
    <3> QED
      BY <2>3, <3>1 DEF Grows
  <2>5. FrameTrees(f, scopes')
    <3> DEFINE global == SymbolsIn(scopes', 1)
               sym == NewSymbol(ahead[1].text)
    <3>1. sym \in global /\ f.node = <<"FN_DEF", sym, <<>>>>
      BY <2>1, <2>3, <2>4
    <3> HIDE DEF global, sym
    <3>4. <<>> \in Seq(global) /\ Len(<<>>) <= 1
      OBVIOUS
    <3>5. \E ps \in Seq(global) : Len(ps) <= 1 /\ f.node = <<"FN_DEF", sym, ps>>
      BY <3>1, <3>4
    <3>2. FunctionNode(f.node, SymbolsIn(scopes', 1))
      BY <3>1, <3>5 DEF FunctionNode, global
    <3>3. f.node[3] = <<>>
      BY <2>1
    <3> QED
      BY <2>1, <3>2, <3>3 DEF FrameTrees
  <2> QED
    BY <1>2, <2>2, <2>3, <2>5
<1>14. CASE OpenParameters
  <2> DEFINE f == [at |-> "parameters", node |-> Top.node]
  <2>1. f.at = "parameters" /\ f.node = Top.node
    OBVIOUS
  <2>2. stack' = Append(Below, f) /\ Same /\ ret' = ret /\ stack # <<>> /\ Top.at = "functionOpen"
    BY <1>14 DEF OpenParameters, Goto
  <2> HIDE DEF f, Same
  <2>3. FrameTrees(f, scopes)
    BY <1>5, <1>6, <2>1, <2>2 DEF FrameTrees
  <2> QED
    BY <1>3, <2>2, <2>3
<1>15. CASE ParameterType
  <2> DEFINE f == [at |-> "parameterName", type |-> ahead[1].text, node |-> Top.node]
  <2>1. f.at = "parameterName" /\ f.node = Top.node
    OBVIOUS
  <2>2. stack' = Append(Below, f) /\ Same /\ ret' = ret /\ stack # <<>> /\ Top.at = "parameters"
    BY <1>15 DEF ParameterType, Goto
  <2> HIDE DEF f, Same
  <2>3. FrameTrees(f, scopes)
    BY <1>5, <1>6, <2>1, <2>2 DEF FrameTrees
  <2> QED
    BY <1>3, <2>2, <2>3
<1>16. CASE DeclareParameter
  <2> DEFINE node == <<"FN_DEF", Top.node[2], Append(Top.node[3], NewSymbol(ahead[1].text))>>
             f == [at |-> "parametersEnd", node |-> node]
  <2>1. f.at = "parametersEnd" /\ f.node = node
    OBVIOUS
  <2>2. /\ stack' = Append(Below, f) /\ built' = built /\ ret' = ret /\ stack # <<>>
        /\ Decl(ahead[1].text, Top.type) /\ NextIs("Identifier")
        /\ phase = "parsing" /\ Top.at = "parameterName"
    BY <1>16 DEF DeclareParameter, Goto
  <2> HIDE DEF f
  <2>3. Grows(scopes, scopes') /\ NewSymbol(ahead[1].text) \in SymbolsIn(scopes', Len(scopes'))
    BY <1>4, <2>2, DeclGrows DEF NewSymbol
  <2>4. Len(scopes) = 1 /\ Len(scopes') = 1
    <3>1. Len(scopes) = 1
      BY <2>2, HeadIsAlone DEF FunctionFrames, BodyFrames
    <3> QED
      BY <2>3, <3>1 DEF Grows
  <2>5. FunctionNode(Top.node, SymbolsIn(scopes', 1)) /\ Top.node[3] = <<>>
    <3>1. FrameTrees(Top, scopes')
      BY <2>2, <2>3, TreesBelow, FrameGrows
    <3> QED
      BY <2>2, <3>1 DEF FrameTrees
  <2>6. FunctionNode(node, SymbolsIn(scopes', 1))
    BY <2>3, <2>4, <2>5, FunctionSymbols
  <2> HIDE DEF node
  <2>7. FrameTrees(f, scopes')
    BY <2>1, <2>6 DEF FrameTrees
  <2> QED
    BY <1>2, <2>2, <2>3, <2>7
<1>17. CASE CloseParameters
  <2> DEFINE f == [at |-> "block", node |-> Top.node]
  <2>1. f.at = "block" /\ f.node = Top.node
    OBVIOUS
  <2>2. /\ stack' = Append(Below, f) /\ built' = built /\ ret' = ret /\ stack # <<>> /\ Enter
        /\ phase = "parsing" /\ Top.at \in {"parameters", "parametersEnd"}
    BY <1>17 DEF CloseParameters, Goto
  <2> HIDE DEF f
  <2>3. Below = <<>> /\ Len(scopes) = 1
    BY <2>2, HeadIsAlone DEF FunctionFrames, BodyFrames
  <2>4. Len(scopes') = 2 /\ SymbolsIn(scopes', 1) = SymbolsIn(scopes, 1)
    BY <2>2, <2>3, ScopeEntered, GlobalSymbols DEF Current
  <2>5. FrameTrees(f, scopes')
    BY <1>5, <2>1, <2>2, <2>4 DEF FrameTrees
  <2>6. StackTrees(stack', scopes')
    BY <2>2, <2>3, <2>5, NoFrames, TreesAppended
  <2>7. SymbolsIn(scopes, 1) \subseteq SymbolsIn(scopes', 2)
    <3>1. SymbolsIn(scopes', 1) \subseteq SymbolsIn(scopes', 2)
      <4>1. 1 .. 1 \subseteq 1 .. 2
        OBVIOUS
      <4> QED
        BY <4>1 DEF SymbolsIn
    <3> QED
      BY <2>4, <3>1
  <2>8. Expr(ret', SymbolsIn(scopes', Len(scopes')))
    BY <1>1, <2>2, <2>3, <2>4, <2>7, ExprGrows
  <2>9. built.depth = 1 /\ Fits(built.node, 1, SymbolsIn(scopes, 1))
    <3>1. built.depth \in 1 .. 1
      BY <2>3 DEF TreesOK
    <3>2. built.depth = 1
      BY <3>1
    <3> QED
      BY <3>2 DEF TreesOK
  <2> QED
    BY <2>2, <2>4, <2>6, <2>8, <2>9 DEF TreesOK
<1>18. CASE BeginBlock
  <2> DEFINE f == [at |-> "body", node |-> Top.node]
  <2>1. f.at = "body" /\ f.node = Top.node
    OBVIOUS
  <2>2. stack' = Append(Below, f) /\ Same /\ ret' = ret /\ stack # <<>> /\ Top.at = "block"
    BY <1>18 DEF BeginBlock, Goto
  <2> HIDE DEF f, Same
  <2>3. FrameTrees(f, scopes)
    BY <1>5, <2>1, <2>2 DEF FrameTrees
  <2> QED
    BY <1>3, <2>2, <2>3
<1>19. CASE EndBlock
  <2>1. /\ Finish(Top.node) /\ Leave /\ stack # <<>> /\ Top.at = "body" /\ phase = "parsing"
    BY <1>19 DEF EndBlock
  <2>2. Below = <<>> /\ Len(scopes) = 2
    BY <2>1, HeadIsAlone DEF FunctionFrames, BodyFrames
  <2>3. Len(scopes') = 1 /\ SymbolsIn(scopes', 1) = SymbolsIn(scopes, 1)
    BY <2>1, <2>2, ScopeLeft, GlobalSymbols DEF Current
  <2>4. built'.node = Top.node /\ built'.depth = 1 /\ ret' = NoNode /\ stack' = <<>>
    BY <2>1, <2>2, <2>3 DEF Finish
  <2>5. Fits(Top.node, 1, SymbolsIn(scopes', 1))
    BY <1>5, <2>1, <2>3, FunctionFits
  <2>6. Expr(NoNode, SymbolsIn(scopes', 1)) /\ StackTrees(<<>>, scopes')
    BY ExprKinds, NoFrames
  <2> QED
    BY <2>3, <2>4, <2>5, <2>6 DEF TreesOK
<1> QED
  BY <1>7, <1>8, <1>9, <1>10, <1>11, <1>12, <1>13, <1>14, <1>15, <1>16, <1>17, <1>18, <1>19
  DEF Declarations

\* The functions that parse statements and bodies keep the trees.
LEMMA StatementsKeepTrees ==
    ASSUME TypeOK, TokensOK, StackOK(stack), ScopesOK, TreesOK, Statements
    PROVE  TreesOK'
<1> DEFINE syms == SymbolsIn(scopes, Len(scopes))
           Same == UNCHANGED vars /\ ret' = ret
<1> USE DEF At
<1>1. Expr(ret, syms)
  BY DEF TreesOK
<1>2. ASSUME Same, built' = built \/ built' = Nothing, StackTrees(stack', scopes)
      PROVE  TreesOK'
  BY <1>1, <1>2, SameTable, TreesAdvance
\* A construct begins with this frame.
<1>3. ASSUME Same, NEW f, FrameTrees(f, scopes),
             Call(<<f>>) \/ Call(<<f>> \o Expression(0))
      PROVE  TreesOK'
  <2>1. StackTrees(<<f>>, scopes) /\ StackTrees(Expression(0), scopes)
    BY <1>3, TreesOne, TreesCalled
  <2>2. StackTrees(<<f>> \o Expression(0), scopes)
    BY <2>1, TreesJoined
  <2>3. StackTrees(stack, scopes)
    BY DEF TreesOK
  <2>4. StackTrees(stack \o <<f>>, scopes) /\ StackTrees(stack \o (<<f>> \o Expression(0)), scopes)
    BY <2>1, <2>2, <2>3, TreesJoined
  <2>5. built' = Nothing /\ StackTrees(stack', scopes)
    BY <1>3, <2>4 DEF Call
  <2> QED
    BY <1>2, <1>3, <2>5
<1>4. ASSUME phase = "parsing", stack # <<>>, Top.at = "body" PROVE Len(scopes) = 2
  BY <1>4, HeadIsAlone DEF FunctionFrames, BodyFrames
<1>5. CASE BeginReturn
  <2> DEFINE f == [at |-> "returnValue"]
  <2>1. f.at = "returnValue"
    OBVIOUS
  <2>2. Same /\ Call(<<f>>) /\ phase = "parsing" /\ stack # <<>> /\ Top.at = "body"
    BY <1>5 DEF BeginReturn
  <2> HIDE DEF f, Same
  <2>3. FrameTrees(f, scopes)
    BY <1>4, <2>1, <2>2 DEF FrameTrees
  <2> QED
    BY <1>3, <2>2, <2>3
<1>6. CASE ReturnValue
  <2> DEFINE f == [at |-> "returned"]
  <2>1. f.at = "returned"
    OBVIOUS
  <2>2. /\ Same /\ built' = built /\ stack # <<>> /\ Top.at = "returnValue"
        /\ stack' = Append(Below, f) \o Expression(0)
    BY <1>6 DEF ReturnValue, GotoExpression
  <2> HIDE DEF f
  <2>3. FrameTrees(f, scopes)
    BY <2>1, <2>2, TreesBelow DEF FrameTrees
  <2>4. StackTrees(Append(Below, f) \o Expression(0), scopes)
    BY <2>2, <2>3, SameTable, TreesGoto
  <2> QED
    BY <1>2, <2>2, <2>4
<1>7. CASE EndReturn
  <2> DEFINE node == <<"FN_RET", ret>>
  <2>1. /\ Finish(node) /\ UNCHANGED vars /\ stack # <<>>
        /\ Top.at \in {"returnValue", "returned"}
    BY <1>7 DEF EndReturn
  <2>2. Len(scopes) = 2
    BY <2>1, TreesBelow DEF FrameTrees
  <2>3. Children(node) = {ret} /\ AsCompiled(node, 2) /\ PointsTo(node) = {}
    BY DEF Children, AsCompiled, PointsTo
  <2> HIDE DEF node
  <2>4. Fits(node, Len(scopes), syms)
    BY <1>1, <2>2, <2>3, FitsStep
  <2> QED
    BY <2>1, <2>4, TreesDone
<1>8. CASE LocalDeclaration \/ GlobalDeclaration
  <2> DEFINE f == [at |-> "variable"]
  <2>1. f.at = "variable"
    OBVIOUS
  <2>2. Same /\ Call(<<f>>)
    BY <1>8 DEF LocalDeclaration, GlobalDeclaration
  <2> HIDE DEF f, Same
  <2>3. FrameTrees(f, scopes)
    BY <2>1 DEF FrameTrees
  <2> QED
    BY <1>3, <2>2, <2>3
<1>9. CASE Assignment
  <2> DEFINE f == [at |-> "assigned", target |-> Lookup(ahead[1].text)]
  <2>1. f.at = "assigned" /\ f.target = Lookup(ahead[1].text)
    OBVIOUS
  <2>2. /\ Same /\ Call(<<f>> \o Expression(0))
        /\ phase = "parsing" /\ stack # <<>> /\ Top.at = "body"
        /\ NextIs("Identifier") /\ Visible(ahead[1].text)
    BY <1>9 DEF Assignment, IsAssignment
  <2>3. ahead[1].text \in Names
    BY <2>2, ReadyToken, TokenTypes DEF NextIs
  <2> HIDE DEF f, Same
  <2>4. FrameTrees(f, scopes)
    BY <1>4, <2>1, <2>2, <2>3, LookupOpen DEF FrameTrees
  <2> QED
    BY <1>3, <2>2, <2>4
<1>10. CASE EndAssignment
  <2> DEFINE node == <<"ASSIGNMENT", Top.target, ret, IF ret[1] = "FN_CALL" THEN "to target" ELSE "">>
  <2>1. Finish(node) /\ UNCHANGED vars /\ stack # <<>> /\ Top.at = "assigned"
    BY <1>10 DEF EndAssignment
  <2>2. Len(scopes) = 2 /\ Top.target \in syms
    BY <2>1, TreesBelow DEF FrameTrees
  <2>3. Children(node) = {ret} /\ AsCompiled(node, 2) /\ PointsTo(node) = {Top.target}
    BY DEF Children, AsCompiled, PointsTo
  <2> HIDE DEF node
  <2>4. Fits(node, Len(scopes), syms)
    BY <1>1, <2>2, <2>3, FitsStep
  <2> QED
    BY <2>1, <2>4, TreesDone
<1>11. CASE ExpressionStatement
  <2> DEFINE f == [at |-> "statement"]
  <2>1. f.at = "statement"
    OBVIOUS
  <2>2. Same /\ Call(<<f>> \o Expression(0))
    BY <1>11 DEF ExpressionStatement
  <2> HIDE DEF f, Same
  <2>3. FrameTrees(f, scopes)
    BY <2>1 DEF FrameTrees
  <2> QED
    BY <1>3, <2>2, <2>3
<1>12. CASE EndStatement
  <2>1. Finish(ret) /\ UNCHANGED vars /\ stack # <<>>
    BY <1>12 DEF EndStatement
  <2> QED
    BY <1>1, <2>1, ExprFits, TreesDone
<1>13. CASE GlobalFunction
  <2> DEFINE f == [at |-> "functionType"]
  <2>1. f.at = "functionType"
    OBVIOUS
  <2>2. Same /\ Call(<<f>>)
    BY <1>13 DEF GlobalFunction
  <2> HIDE DEF f, Same
  <2>3. FrameTrees(f, scopes)
    BY <2>1 DEF FrameTrees
  <2> QED
    BY <1>3, <2>2, <2>3
<1>14. CASE EndParse
  <2>1. Same /\ built' = built /\ stack' = stack
    BY <1>14 DEF EndParse
  <2> QED
    BY <1>2, <2>1 DEF TreesOK
<1>15. CASE RefuseAssignment
  BY <1>15, TreesRefused DEF RefuseAssignment, Refuse
<1> QED
  BY <1>5, <1>6, <1>7, <1>8, <1>9, <1>10, <1>11, <1>12, <1>13, <1>14, <1>15 DEF Statements

\* The trees that the parser holds are expressions and constructs that fit.
LEMMA TreesInductive == ParserSpec => []TreesOK
<1>1. ParserInit => TreesOK
  <2>1. SUFFICES ASSUME ParserInit PROVE TreesOK
    OBVIOUS
  <2>2. Len(scopes) = 1 /\ stack = <<>> /\ ret = NoNode /\ built = Nothing
    BY <2>1 DEF ParserInit, Init
  <2> QED
    BY <2>2, ExprKinds, NoFrames, NothingFits DEF TreesOK
<1>2. TypeOK /\ TokensOK /\ StackOK(stack) /\ ScopesOK /\ TreesOK /\ [ParserNext]_pvars
        => TreesOK'
  <2> SUFFICES ASSUME TypeOK, TokensOK, StackOK(stack), ScopesOK, TreesOK, [ParserNext]_pvars
               PROVE  TreesOK'
    OBVIOUS
  <2>1. CASE UNCHANGED pvars
    BY <2>1 DEF TreesOK, pvars, parserVars, vars
  <2>2. CASE Supply
    <3>1. UNCHANGED vars /\ stack' = stack /\ ret' = ret /\ built' = Nothing
      BY <2>2 DEF Supply
    <3> QED
      BY <3>1, SameTable, TreesAdvance DEF TreesOK
  <2>3. CASE RefuseToken
    BY <2>3, TreesRefused DEF RefuseToken, Refuse
  <2> QED
    BY <2>1, <2>2, <2>3, ExpressionsKeepTrees, DeclarationsKeepTrees, StatementsKeepTrees
    DEF ParserNext
<1>3. ParserSpec => []TypeOK
  BY ParserUsesTable, TypeCorrect, PTL
<1> QED
  BY <1>1, <1>2, <1>3, TokensInductive, StackInductive, ScopesInductive, PTL
  DEF ParserSpec, pvars

(***************************************************************************)
(* The parser builds the trees that CodeGen compiles, and no others: for   *)
(* every file, every node of what it finishes has the operands, the depth  *)
(* and the parameters that the code generator takes for granted            *)
(* (function.cpp, statement.cpp, expr.cpp).                                *)
(***************************************************************************)
THEOREM TreesCanBeCompiled == ParserSpec => []TreesAsCompiled
<1>1. TreesOK => TreesAsCompiled
  <2>1. SUFFICES ASSUME TreesOK PROVE \A n \in Nodes(built.node) : AsCompiled(n, built.depth)
    BY DEF TreesAsCompiled
  <2>2. PICK S : /\ built.node \in S
                 /\ \A m \in S : AsCompiled(m, built.depth) /\ Children(m) \subseteq S
    BY <2>1 DEF TreesOK, Fits
  <2> QED
    BY <2>2, NodesWithin
<1> QED
  BY <1>1, TreesInductive, PTL

(***************************************************************************)
(* No tree points to a symbol that the end of a scope has freed: whatever  *)
(* a finished construct mentions is declared in one of the scopes that are *)
(* open where it ends (SymbolTable::leave deletes the others' symbols).    *)
(***************************************************************************)
THEOREM TreesMentionOpenScopes == ParserSpec => []MentionsOpenScopes
<1>1. TreesOK => MentionsOpenScopes
  <2>1. SUFFICES ASSUME TreesOK, NEW n \in Nodes(built.node), NEW s \in PointsTo(n)
                 PROVE  \E i \in 1 .. built.depth, name \in Names : scopes[i].symbols[name] = s
    BY DEF MentionsOpenScopes
  <2>2. PICK S : /\ built.node \in S
                 /\ \A m \in S : /\ PointsTo(m) \subseteq SymbolsIn(scopes, built.depth)
                                 /\ Children(m) \subseteq S
    BY <2>1 DEF TreesOK, Fits
  <2>3. n \in S
    BY <2>1, <2>2, NodesWithin
  <2>4. s \in SymbolsIn(scopes, built.depth)
    BY <2>1, <2>2, <2>3
  <2> QED
    BY <2>4 DEF SymbolsIn
<1> QED
  BY <1>1, TreesInductive, PTL

(***************************************************************************)
(* Texts.                                                                  *)
(***************************************************************************)
\* A text around a token.
LEMMA TextSplit ==
    ASSUME NEW S, NEW l \in Seq(S), NEW t \in S, NEW r \in Seq(S),
           NEW s, s = Append(l, t) \o r
    PROVE  /\ s \in Seq(S)
           /\ Len(s) = Len(l) + 1 + Len(r)
           /\ s[Len(l) + 1] = t
           /\ SubSeq(s, 1, Len(l)) = l
           /\ SubSeq(s, Len(l) + 2, Len(s)) = r
<1>1. Len(l) \in Nat /\ Len(r) \in Nat
  OBVIOUS
<1>2. /\ Append(l, t) \in Seq(S)
      /\ Len(Append(l, t)) = Len(l) + 1
      /\ \A i \in 1 .. Len(l) : Append(l, t)[i] = l[i]
      /\ Append(l, t)[Len(l) + 1] = t
  BY AppendProperties
<1>3. /\ s \in Seq(S)
      /\ Len(s) = Len(l) + 1 + Len(r)
      /\ \A i \in 1 .. Len(l) + 1 + Len(r) :
            s[i] = IF i <= Len(l) + 1 THEN Append(l, t)[i] ELSE r[i - (Len(l) + 1)]
  BY <1>2, ConcatProperties
<1>4. s[Len(l) + 1] = t /\ \A i \in 1 .. Len(l) : s[i] = l[i]
  BY <1>1, <1>2, <1>3
<1>5. \A i \in 1 .. Len(r) : s[Len(l) + 1 + i] = r[i]
  <2>1. ASSUME NEW i \in 1 .. Len(r) PROVE s[Len(l) + 1 + i] = r[i]
    <3>1. /\ Len(l) + 1 + i \in 1 .. Len(l) + 1 + Len(r)
          /\ ~(Len(l) + 1 + i <= Len(l) + 1)
          /\ Len(l) + 1 + i - (Len(l) + 1) = i
      BY <1>1
    <3> QED
      BY <1>3, <3>1
  <2> QED
    BY <2>1
<1>6. SubSeq(s, 1, Len(l)) = l
  <2>1. \A i \in 1 .. Len(l) : s[i] \in S
    BY <1>4
  <2>2. /\ SubSeq(s, 1, Len(l)) \in Seq(S)
        /\ Len(SubSeq(s, 1, Len(l))) = IF 1 <= Len(l) THEN Len(l) - 1 + 1 ELSE 0
        /\ \A i \in 1 .. Len(l) - 1 + 1 : SubSeq(s, 1, Len(l))[i] = s[1 + i - 1]
    BY <1>1, <2>1, SubSeqProperties
  <2>3. Len(SubSeq(s, 1, Len(l))) = Len(l)
    BY <1>1, <2>2
  <2>4. \A i \in 1 .. Len(l) : SubSeq(s, 1, Len(l))[i] = l[i]
    BY <1>1, <1>4, <2>2
  <2> QED
    BY <2>2, <2>3, <2>4, SeqEqual
<1>7. SubSeq(s, Len(l) + 2, Len(s)) = r
  <2> DEFINE a == Len(l) + 2
             z == Len(s)
             b == SubSeq(s, a, z)
  <2>1. a \in Int /\ z \in Int /\ z - a + 1 = Len(r) /\ (a <= z <=> Len(r) # 0)
    BY <1>1, <1>3
  <2>2. \A i \in a .. z : s[i] \in S
    BY <1>1, <1>3
  <2>3. \A i \in 1 .. Len(r) : s[a + i - 1] = r[i]
    <3>1. \A i \in 1 .. Len(r) : a + i - 1 = Len(l) + 1 + i
      BY <1>1
    <3> QED
      BY <1>5, <3>1
  <2> HIDE DEF a, z
  <2>4. /\ b \in Seq(S)
        /\ Len(b) = IF a <= z THEN z - a + 1 ELSE 0
        /\ \A i \in 1 .. z - a + 1 : b[i] = s[a + i - 1]
    <3>1. a \in Int /\ z \in Int
      BY <2>1
    <3> QED
      BY ONLY <2>2, <3>1, SubSeqProperties
  <2> HIDE DEF b
  <2>5. Len(b) = Len(r) /\ \A i \in 1 .. Len(b) : b[i] = r[i]
    BY <1>1, <2>1, <2>3, <2>4
  <2>6. b = r
    BY <2>4, <2>5, SeqEqual
  <2> QED
    BY <2>6 DEF a, z, b
<1> QED
  BY <1>3, <1>4, <1>6, <1>7

\* A text between two tokens, behind another.
LEMMA TextBetween ==
    ASSUME NEW S, NEW c \in Seq(S), NEW t \in S, NEW m \in Seq(S), NEW u \in S,
           NEW s, s = Append(Append(c, t) \o m, u)
    PROVE  /\ s \in Seq(S)
           /\ Len(s) = Len(c) + Len(m) + 2
           /\ s[Len(c) + 1] = t
           /\ s[Len(s)] = u
           /\ SubSeq(s, 1, Len(c)) = c
           /\ SubSeq(s, Len(c) + 2, Len(s) - 1) = m
<1> DEFINE x == Append(c, t) \o m
<1>1. Len(c) \in Nat /\ Len(m) \in Nat
  OBVIOUS
<1>2. /\ x \in Seq(S)
      /\ Len(x) = Len(c) + 1 + Len(m)
      /\ x[Len(c) + 1] = t
      /\ SubSeq(x, 1, Len(c)) = c
      /\ SubSeq(x, Len(c) + 2, Len(x)) = m
  BY TextSplit
<1>3. s = Append(x, u)
  OBVIOUS
<1> HIDE DEF x
<1>4. Len(x) \in Nat /\ Len(c) + 1 \in 1 .. Len(x) /\ Len(x) = Len(c) + 1 + Len(m)
  BY <1>1, <1>2
<1>5. /\ s \in Seq(S)
      /\ Len(s) = Len(x) + 1
      /\ \A i \in 1 .. Len(x) : s[i] = x[i]
      /\ s[Len(x) + 1] = u
  <2>1. x \in Seq(S) /\ u \in S
    BY <1>2
  <2>2. /\ Append(x, u) \in Seq(S)
        /\ Len(Append(x, u)) = Len(x) + 1
        /\ \A i \in 1 .. Len(x) : Append(x, u)[i] = x[i]
        /\ Append(x, u)[Len(x) + 1] = u
    BY ONLY <2>1, AppendProperties
  <2> QED
    BY <1>3, <2>2
<1>6. \A i, j \in Int : 1 <= i /\ j <= Len(x) => SubSeq(s, i, j) = SubSeq(x, i, j)
  <2>1. SUFFICES ASSUME NEW i \in Int, NEW j \in Int, 1 <= i, j <= Len(x)
                 PROVE  SubSeq(s, i, j) = SubSeq(x, i, j)
    OBVIOUS
  <2>2. \A k \in i .. j : s[k] = x[k] /\ x[k] \in S
    BY <1>2, <1>4, <1>5, <2>1
  <2>3. /\ SubSeq(s, i, j) \in Seq(S)
        /\ Len(SubSeq(s, i, j)) = IF i <= j THEN j - i + 1 ELSE 0
        /\ \A k \in 1 .. j - i + 1 : SubSeq(s, i, j)[k] = s[i + k - 1]
    <3>1. \A k \in i .. j : s[k] \in S
      BY <2>2
    <3> QED
      BY ONLY i \in Int, j \in Int, <3>1, SubSeqProperties
  <2>4. /\ SubSeq(x, i, j) \in Seq(S)
        /\ Len(SubSeq(x, i, j)) = IF i <= j THEN j - i + 1 ELSE 0
        /\ \A k \in 1 .. j - i + 1 : SubSeq(x, i, j)[k] = x[i + k - 1]
    <3>1. \A k \in i .. j : x[k] \in S
      BY <2>2
    <3> QED
      BY ONLY i \in Int, j \in Int, <3>1, SubSeqProperties
  <2>5. \A k \in 1 .. j - i + 1 : i + k - 1 \in i .. j
    OBVIOUS
  <2>6. \A k \in 1 .. Len(SubSeq(s, i, j)) : k \in 1 .. j - i + 1
    BY <2>3
  <2>7. \A k \in 1 .. Len(SubSeq(s, i, j)) : SubSeq(s, i, j)[k] = SubSeq(x, i, j)[k]
    BY <2>2, <2>3, <2>4, <2>5, <2>6
  <2> QED
    BY <2>3, <2>4, <2>7, SeqEqual
<1>7. SubSeq(s, 1, Len(c)) = c
  BY <1>1, <1>2, <1>4, <1>6
<1>8. SubSeq(s, Len(c) + 2, Len(s) - 1) = m
  <2>1. Len(s) - 1 = Len(x) /\ 1 <= Len(c) + 2 /\ Len(c) + 2 \in Int
    BY <1>1, <1>4, <1>5
  <2> QED
    BY <1>2, <1>4, <1>6, <2>1
<1>9. s[Len(s)] = u /\ s[Len(c) + 1] = t /\ Len(s) = Len(c) + Len(m) + 2
  BY <1>1, <1>2, <1>4, <1>5
<1> QED
  BY <1>5, <1>7, <1>8, <1>9

\* A text behind another grows at its end.
LEMMA TextLonger ==
    ASSUME NEW S, NEW p \in Seq(S), NEW x \in Seq(S), NEW t \in S,
           NEW r, r = p \o x, NEW z, z = Append(x, t)
    PROVE  Append(r, t) = p \o z
<1>1. <<t>> \in Seq(S) /\ r \in Seq(S)
  OBVIOUS
<1>2. Append(r, t) = (p \o x) \o <<t>> /\ z = x \o <<t>>
  BY <1>1, AppendIsConcat
<1> QED
  BY <1>1, <1>2, ConcatAssociative

(***************************************************************************)
(* The rules of the grammar, for a text of any length: the trees that a    *)
(* text has are found at every level from its length on.                   *)
(***************************************************************************)
SumOf(b, s, n) ==
    s \in Seq(Tokens) /\ \A k \in Nat : k >= Len(s) => n \in Readings(b)[k][s].sum

ProductOf(b, s, n) ==
    s \in Seq(Tokens) /\ \A k \in Nat : k >= Len(s) => n \in Readings(b)[k][s].product

PrimaryOf(b, s, n) ==
    s \in Seq(Tokens) /\ \A k \in Nat : k >= Len(s) => n \in Readings(b)[k][s].primary

ArgumentsOf(b, s, args) ==
    s \in Seq(Tokens) /\ \A k \in Nat : k >= Len(s) => args \in Readings(b)[k][s].arguments

\* The parts of a reading.
LEMMA ReadingOf ==
    ASSUME NEW b, NEW known, NEW s
    PROVE  LET R == Reading(b, known, s)
           IN  /\ R.primary = Primaries(b, known, s)
               /\ R.product = Products(R.primary, known, s)
               /\ R.sum = Sums(R.product, known, s)
               /\ R.arguments = ArgumentLists(R.sum, known, s)
BY DEF Reading

\* A level's readings of a text are made of those of the level below.
LEMMA LevelOf ==
    ASSUME NEW b, NEW k \in Nat, k # 0, NEW s \in Seq(Tokens)
    PROVE  LET R     == Readings(b)[k][s]
               known == Readings(b)[k - 1]
           IN  /\ R.primary = Primaries(b, known, s)
               /\ R.product = Products(R.primary, known, s)
               /\ R.sum = Sums(R.product, known, s)
               /\ R.arguments = ArgumentLists(R.sum, known, s)
<1> DEFINE known == Readings(b)[k - 1]
<1>1. k - 1 \in Nat /\ (k - 1) + 1 = k
  OBVIOUS
<1>2. Readings(b)[(k - 1) + 1] = ReadAll(b, known)
  BY <1>1, ReadingsDef
<1>3. Readings(b)[k][s] = Reading(b, known, s)
  BY <1>1, <1>2 DEF ReadAll
<1> QED
  BY <1>3, ReadingOf

\* What is a primary is a product, and what is a product is a sum.
LEMMA PrimaryIsSum ==
    ASSUME NEW b, NEW s, NEW n
    PROVE  /\ ~PrimaryOf(b, <<>>, n)
           /\ PrimaryOf(b, s, n) => ProductOf(b, s, n)
           /\ ProductOf(b, s, n) => SumOf(b, s, n)
<1>1. ~PrimaryOf(b, <<>>, n)
  <2>1. SUFFICES ASSUME PrimaryOf(b, <<>>, n) PROVE FALSE
    OBVIOUS
  <2>2. <<>> \in Seq(Tokens) /\ Len(<<>>) = 0 /\ 0 \in Nat
    OBVIOUS
  <2>3. n \in Readings(b)[0][<<>>].primary
    BY <2>1, <2>2 DEF PrimaryOf
  <2>4. Readings(b)[0][<<>>] = NoReading
    BY <2>2, ReadingsDef
  <2> QED
    BY <2>3, <2>4 DEF NoReading
<1>2. ASSUME NEW k \in Nat, s \in Seq(Tokens)
      PROVE  /\ n \in Readings(b)[k][s].primary => n \in Readings(b)[k][s].product
             /\ n \in Readings(b)[k][s].product => n \in Readings(b)[k][s].sum
  <2>1. CASE k = 0
    <3>1. Readings(b)[k][s] = NoReading
      BY <1>2, <2>1, ReadingsDef
    <3> QED
      BY <3>1 DEF NoReading
  <2>2. CASE k # 0
    BY <1>2, <2>2, LevelOf DEF Products, Sums
  <2> QED
    BY <2>1, <2>2
<1> QED
  BY <1>1, <1>2 DEF PrimaryOf, ProductOf, SumOf

\* A number, or the name of a visible symbol.
LEMMA AtomRule ==
    ASSUME NEW b, NEW t \in Tokens
    PROVE  /\ t.type = "Number" => PrimaryOf(b, <<t>>, <<"NUMBER", t.text>>)
           /\ t.type = "Identifier" /\ t.text \in DOMAIN b =>
                 PrimaryOf(b, <<t>>, <<"VARIABLE", b[t.text]>>)
<1>1. <<t>> \in Seq(Tokens) /\ Len(<<t>>) = 1 /\ <<t>>[1] = t /\ 1 \in DOMAIN <<t>>
  OBVIOUS
<1>2. \A k \in Nat : k >= 1 => k # 0
  OBVIOUS
<1>3. ASSUME t.type = "Number", NEW k \in Nat, k >= Len(<<t>>)
      PROVE  <<"NUMBER", t.text>> \in Readings(b)[k][<<t>>].primary
  <2>1. 1 \in {i \in Places(<<t>>, {"Number"}) : Len(<<t>>) = 1}
    BY <1>1, <1>3 DEF Places
  <2>2. <<"NUMBER", <<t>>[1].text>> \in Atoms(b, <<t>>)
    BY <2>1 DEF Atoms
  <2>3. <<"NUMBER", t.text>> \in Primaries(b, Readings(b)[k - 1], <<t>>)
    BY <1>1, <2>2 DEF Primaries
  <2> QED
    BY <1>1, <1>2, <1>3, <2>3, LevelOf
<1>4. ASSUME t.type = "Identifier", t.text \in DOMAIN b, NEW k \in Nat, k >= Len(<<t>>)
      PROVE  <<"VARIABLE", b[t.text]>> \in Readings(b)[k][<<t>>].primary
  <2>1. 1 \in {i \in Places(<<t>>, {"Identifier"}) : Len(<<t>>) = 1 /\ <<t>>[i].text \in DOMAIN b}
    BY <1>1, <1>4 DEF Places
  <2>2. <<"VARIABLE", b[<<t>>[1].text]>> \in Atoms(b, <<t>>)
    BY <2>1 DEF Atoms
  <2>3. <<"VARIABLE", b[t.text]>> \in Primaries(b, Readings(b)[k - 1], <<t>>)
    BY <1>1, <2>2 DEF Primaries
  <2> QED
    BY <1>1, <1>2, <1>4, <2>3, LevelOf
<1> QED
  BY <1>1, <1>3, <1>4 DEF PrimaryOf

\* An operator between a text and one that binds more tightly.
LEMMA OperationRule ==
    ASSUME NEW b, NEW l, NEW left, NEW t \in Tokens, NEW r, NEW right
    PROVE  /\ SumOf(b, l, left) /\ t.type \in {"Plus", "Minus"} /\ ProductOf(b, r, right) =>
                 SumOf(b, Append(l, t) \o r, <<"BINOP", t.type, left, right>>)
           /\ ProductOf(b, l, left) /\ t.type \in {"Mul", "Div"} /\ PrimaryOf(b, r, right) =>
                 ProductOf(b, Append(l, t) \o r, <<"BINOP", t.type, left, right>>)
<1> DEFINE s == Append(l, t) \o r
           n == <<"BINOP", t.type, left, right>>
<1>1. ASSUME l \in Seq(Tokens), r \in Seq(Tokens)
      PROVE  /\ s \in Seq(Tokens)
             /\ Len(l) \in Nat /\ Len(r) \in Nat
             /\ Len(s) = Len(l) + 1 + Len(r)
             /\ Len(l) + 1 \in DOMAIN s
             /\ s[Len(l) + 1] = t
             /\ \A known : Before(known, s, Len(l) + 1) = known[l]
             /\ \A known : Behind(known, s, Len(l) + 1) = known[r]
  <2>1. /\ s \in Seq(Tokens)
        /\ Len(s) = Len(l) + 1 + Len(r)
        /\ s[Len(l) + 1] = t
        /\ SubSeq(s, 1, Len(l)) = l
        /\ SubSeq(s, Len(l) + 2, Len(s)) = r
    BY <1>1, TextSplit
  <2> HIDE DEF s
  <2>2. /\ Len(l) \in Nat /\ Len(r) \in Nat /\ (Len(l) + 1) - 1 = Len(l)
        /\ (Len(l) + 1) + 1 = Len(l) + 2
    BY <1>1
  <2>3. Len(l) + 1 \in DOMAIN s
    BY <2>1, <2>2
  <2> QED
    BY <2>1, <2>2, <2>3 DEF Before, Behind
<1> HIDE DEF s
<1>2. ASSUME NEW x \in Nat, NEW y \in Nat, NEW k \in Nat, k >= x + 1 + y
      PROVE  k # 0 /\ k - 1 \in Nat /\ k - 1 >= x /\ k - 1 >= y
  BY <1>2
<1>3. ASSUME SumOf(b, l, left), t.type \in {"Plus", "Minus"}, ProductOf(b, r, right)
      PROVE  SumOf(b, s, n)
  <2>1. l \in Seq(Tokens) /\ r \in Seq(Tokens)
    BY <1>3 DEF SumOf, ProductOf
  <2>2. ASSUME NEW k \in Nat, k >= Len(s) PROVE n \in Readings(b)[k][s].sum
    <3> DEFINE known == Readings(b)[k - 1]
               i == Len(l) + 1
    <3>1. k # 0 /\ k - 1 \in Nat /\ k - 1 >= Len(l) /\ k - 1 >= Len(r)
      BY <1>1, <1>2, <2>1, <2>2
    <3>2. left \in known[l].sum /\ right \in known[r].product
      BY <1>3, <3>1 DEF SumOf, ProductOf
    <3>3. i \in Places(s, {"Plus", "Minus"}) /\ s[i].type = t.type
      BY <1>1, <1>3, <2>1 DEF Places
    <3>4. Before(known, s, i) = known[l] /\ Behind(known, s, i) = known[r]
      BY <1>1, <2>1
    <3> HIDE DEF known, i, n
    <3>5. n \in Operations(s[i].type, Before(known, s, i).sum, Behind(known, s, i).product)
      BY <3>2, <3>3, <3>4 DEF Operations, n
    <3>6. \A products : n \in Sums(products, known, s)
      BY <3>3, <3>5 DEF Sums
    <3> QED
      BY <1>1, <2>1, <3>1, <3>6, LevelOf DEF known
  <2> QED
    BY <1>1, <2>1, <2>2 DEF SumOf
<1>4. ASSUME ProductOf(b, l, left), t.type \in {"Mul", "Div"}, PrimaryOf(b, r, right)
      PROVE  ProductOf(b, s, n)
  <2>1. l \in Seq(Tokens) /\ r \in Seq(Tokens)
    BY <1>4 DEF PrimaryOf, ProductOf
  <2>2. ASSUME NEW k \in Nat, k >= Len(s) PROVE n \in Readings(b)[k][s].product
    <3> DEFINE known == Readings(b)[k - 1]
               i == Len(l) + 1
    <3>1. k # 0 /\ k - 1 \in Nat /\ k - 1 >= Len(l) /\ k - 1 >= Len(r)
      BY <1>1, <1>2, <2>1, <2>2
    <3>2. left \in known[l].product /\ right \in known[r].primary
      BY <1>4, <3>1 DEF PrimaryOf, ProductOf
    <3>3. i \in Places(s, {"Mul", "Div"}) /\ s[i].type = t.type
      BY <1>1, <1>4, <2>1 DEF Places
    <3>4. Before(known, s, i) = known[l] /\ Behind(known, s, i) = known[r]
      BY <1>1, <2>1
    <3> HIDE DEF known, i, n
    <3>5. n \in Operations(s[i].type, Before(known, s, i).product, Behind(known, s, i).primary)
      BY <3>2, <3>3, <3>4 DEF Operations, n
    <3>6. \A primaries : n \in Products(primaries, known, s)
      BY <3>3, <3>5 DEF Products
    <3> QED
      BY <1>1, <2>1, <3>1, <3>6, LevelOf DEF known
  <2> QED
    BY <1>1, <2>1, <2>2 DEF ProductOf
<1> QED
  BY <1>3, <1>4 DEF s

\* The arguments of a call.
LEMMA ArgumentsRule ==
    ASSUME NEW b, NEW s, NEW n, SumOf(b, s, n)
    PROVE  /\ ArgumentsOf(b, s, <<n>>)
           /\ \A a, args, t : ArgumentsOf(b, a, args) /\ t \in Tokens /\ t.type = "Comma" =>
                 ArgumentsOf(b, Append(a, t) \o s, Append(args, n))
<1>1. s \in Seq(Tokens)
  BY DEF SumOf
<1>2. ASSUME NEW k \in Nat, k >= Len(s) PROVE <<n>> \in Readings(b)[k][s].arguments
  <2>1. n \in Readings(b)[k][s].sum
    BY <1>2 DEF SumOf
  <2>2. k # 0
    <3>1. SUFFICES ASSUME k = 0 PROVE FALSE
      OBVIOUS
    <3>2. Readings(b)[k][s] = NoReading
      BY <1>1, <3>1, ReadingsDef
    <3> QED
      BY <2>1, <3>2 DEF NoReading
  <2>3. Readings(b)[k][s].arguments = ArgumentLists(Readings(b)[k][s].sum, Readings(b)[k - 1], s)
    BY <1>1, <2>2, LevelOf
  <2> QED
    BY <2>1, <2>3 DEF ArgumentLists
<1>3. ASSUME NEW a, NEW args, NEW t \in Tokens, ArgumentsOf(b, a, args), t.type = "Comma"
      PROVE  ArgumentsOf(b, Append(a, t) \o s, Append(args, n))
  <2> DEFINE x == Append(a, t) \o s
             i == Len(a) + 1
  <2>1. a \in Seq(Tokens)
    BY <1>3 DEF ArgumentsOf
  <2>2. /\ x \in Seq(Tokens)
        /\ Len(x) = Len(a) + 1 + Len(s)
        /\ x[i] = t
        /\ SubSeq(x, 1, Len(a)) = a
        /\ SubSeq(x, Len(a) + 2, Len(x)) = s
    BY <1>1, <2>1, TextSplit
  <2>3. Len(a) \in Nat /\ Len(s) \in Nat /\ i - 1 = Len(a) /\ i + 1 = Len(a) + 2
    BY <1>1, <2>1
  <2> HIDE DEF x
  <2>4. i \in DOMAIN x
    BY <2>2, <2>3
  <2> HIDE DEF i
  <2>5. ASSUME NEW k \in Nat, k >= Len(x) PROVE Append(args, n) \in Readings(b)[k][x].arguments
    <3> DEFINE known == Readings(b)[k - 1]
    <3>1. k # 0 /\ k - 1 \in Nat /\ k - 1 >= Len(a) /\ k - 1 >= Len(s)
      BY <2>2, <2>3, <2>5
    <3>2. args \in known[a].arguments /\ n \in known[s].sum
      BY <1>3, <3>1 DEF SumOf, ArgumentsOf
    <3> HIDE DEF known
    <3>3. i \in Places(x, {"Comma"})
      BY <1>3, <2>2, <2>4 DEF Places
    <3>4. args \in Before(known, x, i).arguments /\ n \in Behind(known, x, i).sum
      BY <2>2, <2>3, <3>2 DEF Before, Behind
    <3>5. \A sums : Append(args, n) \in ArgumentLists(sums, known, x)
      BY <3>3, <3>4 DEF ArgumentLists
    <3> QED
      BY <2>2, <3>1, <3>5, LevelOf DEF known
  <2> QED
    BY <2>2, <2>5 DEF ArgumentsOf, x
<1> QED
  BY <1>1, <1>2, <1>3 DEF ArgumentsOf

\* A sum in parentheses.
LEMMA ParenthesesRule ==
    ASSUME NEW b, NEW t \in Tokens, t.type = "LParen", NEW s, NEW n, SumOf(b, s, n),
           NEW u \in Tokens, u.type = "RParen"
    PROVE  PrimaryOf(b, Append(Append(<<>>, t) \o s, u), n)
<1> DEFINE x == Append(Append(<<>>, t) \o s, u)
<1>1. s \in Seq(Tokens) /\ <<>> \in Seq(Tokens) /\ Len(<<>>) = 0
  BY DEF SumOf
<1>2. /\ x \in Seq(Tokens)
      /\ Len(x) = 0 + Len(s) + 2
      /\ x[0 + 1] = t
      /\ x[Len(x)] = u
      /\ SubSeq(x, 0 + 2, Len(x) - 1) = s
  BY <1>1, TextBetween
<1> HIDE DEF x
<1>3. 1 \in DOMAIN x /\ Len(s) \in Nat /\ x[1] = t /\ SubSeq(x, 1 + 1, Len(x) - 1) = s
  BY <1>1, <1>2
<1>4. ASSUME NEW k \in Nat, k >= Len(x) PROVE n \in Readings(b)[k][x].primary
  <2> DEFINE known == Readings(b)[k - 1]
  <2>1. k # 0 /\ k - 1 \in Nat /\ k - 1 >= Len(s)
    BY <1>2, <1>3, <1>4
  <2>2. n \in known[s].sum
    BY <2>1 DEF SumOf
  <2> HIDE DEF known
  <2>3. 1 \in {i \in Opening(x) : i = 1}
    BY <1>2, <1>3 DEF Opening, Places
  <2>4. n \in Inside(known, x, 1).sum
    BY <1>3, <2>2 DEF Inside
  <2>5. n \in Primaries(b, known, x)
    BY <2>3, <2>4 DEF Primaries
  <2> QED
    BY <1>2, <2>1, <2>5, LevelOf DEF known
<1> QED
  BY <1>2, <1>4 DEF PrimaryOf, x

\* A call without arguments, and one with them.
LEMMA CallRule ==
    ASSUME NEW b, NEW c, NEW v, PrimaryOf(b, c, v), v[1] = "VARIABLE", v[2].kind = "FUNCTION",
           NEW t \in Tokens, t.type = "LParen", NEW u \in Tokens, u.type = "RParen"
    PROVE  /\ PrimaryOf(b, Append(Append(c, t), u), <<"FN_CALL", v[2], <<>>>>)
           /\ \A a, args : ArgumentsOf(b, a, args) =>
                 PrimaryOf(b, Append(Append(c, t) \o a, u), <<"FN_CALL", v[2], args>>)
<1> USE DEF PrimaryOf, ArgumentsOf
<1>1. c \in Seq(Tokens) /\ Len(c) \in Nat
  OBVIOUS
<1>2. ASSUME NEW a \in Seq(Tokens), NEW args,
             \A k \in Nat : k >= Len(a) =>
                args \in IF a = <<>> THEN {<<>>} ELSE Readings(b)[k][a].arguments
      PROVE  PrimaryOf(b, Append(Append(c, t) \o a, u), <<"FN_CALL", v[2], args>>)
  <2> DEFINE x == Append(Append(c, t) \o a, u)
             i == Len(c) + 1
             n == <<"FN_CALL", v[2], args>>
  <2>1. /\ x \in Seq(Tokens)
        /\ Len(x) = Len(c) + Len(a) + 2
        /\ x[i] = t
        /\ x[Len(x)] = u
        /\ SubSeq(x, 1, Len(c)) = c
        /\ SubSeq(x, Len(c) + 2, Len(x) - 1) = a
    BY <1>1, <1>2, TextBetween
  <2> HIDE DEF x
  <2>2. /\ Len(a) \in Nat /\ i \in DOMAIN x /\ i - 1 = Len(c) /\ i + 1 = Len(c) + 2
        /\ (i = Len(x) - 1 <=> Len(a) = 0) /\ (Len(a) = 0 <=> a = <<>>)
    BY <1>1, <1>2, <2>1
  <2> HIDE DEF i
  <2>3. ASSUME NEW k \in Nat, k >= Len(x) PROVE n \in Readings(b)[k][x].primary
    <3> DEFINE known == Readings(b)[k - 1]
    <3>1. k # 0 /\ k - 1 \in Nat /\ k - 1 >= Len(c) /\ k - 1 >= Len(a)
      BY <1>1, <2>1, <2>2, <2>3
    <3>2. v \in known[c].primary
      BY <1>1, <3>1
    <3>3. args \in IF a = <<>> THEN {<<>>} ELSE known[a].arguments
      BY <1>2, <3>1
    <3> HIDE DEF known
    <3>4. i \in Opening(x)
      BY <2>1, <2>2 DEF Opening, Places
    <3>5. v \in Callees(Before(known, x, i).primary)
      BY <2>1, <2>2, <3>2 DEF Callees, Before
    <3>6. args \in IF i = Len(x) - 1 THEN {<<>>} ELSE Inside(known, x, i).arguments
      BY <2>1, <2>2, <3>3 DEF Inside
    <3>7. n \in Calls(known, x)
      BY <3>4, <3>5, <3>6 DEF Calls
    <3> HIDE DEF n
    <3>8. n \in Primaries(b, known, x)
      BY <3>7 DEF Primaries
    <3>9. x \in Seq(Tokens)
      BY <2>1
    <3>10. Readings(b)[k][x].primary = Primaries(b, known, x)
      BY <3>1, <3>9, LevelOf DEF known
    <3> QED
      BY <3>8, <3>10
  <2> QED
    BY <2>1, <2>3 DEF x
<1>3. PrimaryOf(b, Append(Append(c, t), u), <<"FN_CALL", v[2], <<>>>>)
  <2>1. Append(c, t) \o <<>> = Append(c, t)
    BY <1>1, ConcatEmptySeq
  <2>2. <<>> \in Seq(Tokens) /\ \A k \in Nat : <<>> \in IF <<>> = <<>> THEN {<<>>} ELSE Readings(b)[k][<<>>].arguments
    OBVIOUS
  <2>3. PrimaryOf(b, Append(Append(c, t) \o <<>>, u), <<"FN_CALL", v[2], <<>>>>)
    BY <1>2, <2>2
  <2> QED
    BY <2>1, <2>3
<1>4. ASSUME NEW a, NEW args, ArgumentsOf(b, a, args)
      PROVE  PrimaryOf(b, Append(Append(c, t) \o a, u), <<"FN_CALL", v[2], args>>)
  <2>1. a \in Seq(Tokens)
    BY <1>4
  <2>2. a # <<>>
    <3>1. SUFFICES ASSUME a = <<>> PROVE FALSE
      OBVIOUS
    <3>2. Len(a) = 0 /\ 0 \in Nat
      BY <3>1
    <3>3. args \in Readings(b)[0][a].arguments
      BY <1>4, <3>2
    <3>4. Readings(b)[0][a] = NoReading
      BY <2>1, ReadingsDef
    <3> QED
      BY <3>3, <3>4 DEF NoReading
  <2> QED
    BY <1>2, <1>4, <2>1, <2>2
<1> QED
  BY <1>3, <1>4

(***************************************************************************)
(* The frames of an expression, and the tokens each of them has seen: of   *)
(* what is read, a part lies before the frame, a part it has read itself   *)
(* before it called the frame above, and the rest is that one's.           *)
(***************************************************************************)
Bases == {"declared", "assigned", "returned", "statement"}

Inner == {"operator", "postfix", "primary", "closing", "call"}

Busy(f) == f.at \in Bases \union Inner

\* The text is an expression whose operators all bind as tightly as this.
AtLevel(b, level, s, n) ==
    IF level \in {0, 10} THEN SumOf(b, s, n)
    ELSE IF level \in {11, 20} THEN ProductOf(b, s, n)
    ELSE PrimaryOf(b, s, n)

\* What a frame returns, and what it expects of the one above it.
Yields(g) == IF g.at = "operator" THEN g.min ELSE 21

Goal(f) ==
    IF f.at = "postfix" THEN 21
    ELSE IF f.at = "operator"
         THEN IF f.left = NoNode THEN 21 ELSE Precedence(f.op) + 1
         ELSE 0

\* A call whose first argument has not been read, one whose last argument has
\* been, and one that another argument follows.
Opened(b, node, x) ==
    \E c, v : \E t \in Tokens :
        /\ PrimaryOf(b, c, v) /\ v[1] = "VARIABLE" /\ v[2].kind = "FUNCTION"
        /\ t.type = "LParen"
        /\ x = Append(c, t) /\ node = <<"FN_CALL", v[2], <<>>>>

Listed(b, node, x) ==
    \E c, v, a, args : \E t \in Tokens :
        /\ PrimaryOf(b, c, v) /\ v[1] = "VARIABLE" /\ v[2].kind = "FUNCTION"
        /\ t.type = "LParen" /\ ArgumentsOf(b, a, args)
        /\ x = Append(c, t) \o a /\ node = <<"FN_CALL", v[2], args>>

Continued(b, node, x) ==
    \E y : \E u \in Tokens : Listed(b, node, y) /\ u.type = "Comma" /\ x = Append(y, u)

\* An operator and the left operand, which parseExpression has read.
Operand(b, f, x) ==
    \E l : \E t \in Tokens :
        /\ t.type = f.op /\ IsBinop(f.op) /\ Precedence(f.op) >= f.min
        /\ AtLevel(b, Precedence(f.op), l, f.left)
        /\ x = Append(l, t)

\* What a frame has read when it calls.
Waits(b, f, x) ==
    /\ x \in Seq(Tokens)
    /\ f.at \in Bases \union {"postfix"} => x = <<>>
    /\ f.at = "closing" => \E t \in Tokens : t.type = "LParen" /\ x = Append(<<>>, t)
    /\ f.at = "call" => Opened(b, f.node, x) \/ Continued(b, f.node, x)
    /\ f.at = "operator" => /\ f.min \in {0, 11, 21}
                            /\ f.left = NoNode => x = <<>>
                            /\ f.left # NoNode => Operand(b, f, x)

Awaits(b, f, p, q) == f.at # "primary" /\ \E x : q = p \o x /\ Waits(b, f, x)

Chain(b, st, pre) ==
    /\ \E S : st \in Seq(S)
    /\ pre \in [1 .. Len(st) -> Seq(Tokens)]
    /\ \A k \in 1 .. Len(st) :
          /\ st[k].at \in Inner => k > 1 /\ Busy(st[k - 1])
          /\ st[k].at \in Bases => pre[k] = <<>>
          /\ \A j \in 1 .. k - 1 : Busy(st[j]) => st[k].at \in Inner
          /\ k > 1 /\ Busy(st[k - 1]) => /\ Awaits(b, st[k - 1], pre[k - 1], pre[k])
                                         /\ Goal(st[k - 1]) = Yields(st[k])

\* So much lies before the frame on top.
ChainTo(b, st, p) == st # <<>> /\ \E pre : Chain(b, st, pre) /\ pre[Len(st)] = p

TopOf(st) == st[Len(st)]

Under(st) == SubSeq(st, 1, Len(st) - 1)

\* After a product no more of its operators are ahead.
Settled(f, toks) ==
    f.at = "operator" /\ f.left # NoNode /\ f.op \in {"Plus", "Minus"}
        => toks # <<>> /\ toks[1].type \notin {"Mul", "Div"}

\* The frame on top has been called, or a call of its has returned n.
Answered(b, f, p, r, n, toks) ==
    /\ f.at # "primary" /\ n # NoNode /\ Settled(f, toks)
    /\ \E w, s : r = (p \o w) \o s /\ Waits(b, f, w) /\ AtLevel(b, Goal(f), s, n)

Doing(b, f, p, r, n, toks) ==
    \/ f.at = "primary" /\ r = p
    \/ f.at = "call" /\ n = NoNode /\ \E x \in Seq(Tokens) : r = p \o x /\ Opened(b, f.node, x)
    \/ Answered(b, f, p, r, n, toks)

Idle(st) == \A k \in 1 .. Len(st) : ~Busy(st[k])

Parsing(b, st, r, n, toks) ==
    \/ Idle(st)
    \/ Busy(TopOf(st)) /\ \E p : ChainTo(b, st, p) /\ Doing(b, TopOf(st), p, r, n, toks)

\* What has a tree at some level is a text.
LEMMA LevelText ==
    ASSUME NEW b, NEW level, NEW s, NEW n, AtLevel(b, level, s, n)
    PROVE  s \in Seq(Tokens)
BY DEF AtLevel, SumOf, ProductOf, PrimaryOf

\* What binds tightly is a tree at the levels that bind less.
LEMMA LevelWeaker ==
    ASSUME NEW b, NEW s, NEW n
    PROVE  /\ AtLevel(b, 21, s, n) => \A level \in {0, 10, 11, 20, 21} : AtLevel(b, level, s, n)
           /\ AtLevel(b, 11, s, n) => \A level \in {0, 10, 11, 20} : AtLevel(b, level, s, n)
           /\ AtLevel(b, 20, s, n) => \A level \in {0, 10, 11, 20} : AtLevel(b, level, s, n)
           /\ AtLevel(b, 10, s, n) => \A level \in {0, 10} : AtLevel(b, level, s, n)
BY PrimaryIsSum DEF AtLevel

\* Calling a function makes the chain of the waiting texts longer.
LEMMA ChainPushed ==
    ASSUME NEW b, NEW st, NEW pre, Chain(b, st, pre), NEW f, NEW p \in Seq(Tokens),
           \/ f.at \in Bases /\ p = <<>> /\ Idle(st)
           \/ /\ f.at \in Inner /\ st # <<>> /\ Busy(TopOf(st))
              /\ Awaits(b, TopOf(st), pre[Len(st)], p) /\ Goal(TopOf(st)) = Yields(f)
    PROVE  ChainTo(b, Append(st, f), p) /\ TopOf(Append(st, f)) = f
<1>1. PICK S : st \in Seq(S)
  BY DEF Chain
<1> DEFINE T == S \union {f}
           m == Len(st)
           new == Append(st, f)
<1>2. st \in Seq(T) /\ f \in T /\ m \in Nat /\ (st # <<>> => m > 0)
  BY <1>1
<1> HIDE DEF T
<1>3. /\ new \in Seq(T) /\ new # <<>>
      /\ Len(new) = m + 1
      /\ new[m + 1] = f
      /\ \A k \in 1 .. m : new[k] = st[k]
  BY <1>2, AppendProperties
<1> DEFINE q == [k \in 1 .. m + 1 |-> IF k = m + 1 THEN p ELSE pre[k]]
<1>4. /\ q \in [1 .. Len(new) -> Seq(Tokens)]
      /\ q[m + 1] = p
      /\ \A k \in 1 .. m : q[k] = pre[k]
  <2>1. \A k \in 1 .. m + 1 : k # m + 1 => k \in 1 .. m
    BY <1>2
  <2>2. \A k \in 1 .. m : k # m + 1 /\ k \in 1 .. m + 1
    BY <1>2
  <2>3. m + 1 \in 1 .. m + 1
    BY <1>2
  <2>4. \A k \in 1 .. m : pre[k] \in Seq(Tokens)
    BY DEF Chain
  <2> QED
    BY <1>3, <2>1, <2>2, <2>3, <2>4
<1> HIDE DEF q, new
<1>5. ASSUME NEW k \in 1 .. Len(new)
      PROVE  /\ new[k].at \in Inner => k > 1 /\ Busy(new[k - 1])
             /\ new[k].at \in Bases => q[k] = <<>>
             /\ \A j \in 1 .. k - 1 : Busy(new[j]) => new[k].at \in Inner
             /\ k > 1 /\ Busy(new[k - 1]) => /\ Awaits(b, new[k - 1], q[k - 1], q[k])
                                             /\ Goal(new[k - 1]) = Yields(new[k])
  <2>1. CASE k \in 1 .. m
    <3>1. new[k] = st[k] /\ q[k] = pre[k] /\ k \in 1 .. Len(st)
      BY <1>3, <1>4, <2>1
    <3>2. \A j \in 1 .. k - 1 : new[j] = st[j] /\ q[j] = pre[j]
      BY <1>2, <1>3, <1>4, <2>1
    <3>3. k > 1 => k - 1 \in 1 .. k - 1
      OBVIOUS
    <3> QED
      BY <3>1, <3>2, <3>3 DEF Chain
  <2>2. CASE k = m + 1
    <3>1. new[k] = f /\ q[k] = p /\ k - 1 = m /\ (k > 1 <=> m > 0)
      BY <1>2, <1>3, <1>4, <2>2
    <3>2. \A j \in 1 .. m : new[j] = st[j] /\ q[j] = pre[j]
      BY <1>3, <1>4
    <3>3. m > 0 => m \in 1 .. m
      BY <1>2
    <3>4. f.at \in Bases => f.at \notin Inner
      BY DEF Bases, Inner
    <3>5. CASE f.at \in Bases /\ p = <<>> /\ Idle(st)
      BY <3>1, <3>2, <3>3, <3>4, <3>5 DEF Idle
    <3>6. CASE /\ f.at \in Inner /\ st # <<>> /\ Busy(TopOf(st))
               /\ Awaits(b, TopOf(st), pre[Len(st)], p) /\ Goal(TopOf(st)) = Yields(f)
      BY <1>2, <3>1, <3>2, <3>3, <3>4, <3>6 DEF TopOf
    <3> QED
      BY <3>5, <3>6
  <2> QED
    BY <1>2, <1>3, <2>1, <2>2
<1>6. Chain(b, new, q)
  BY <1>3, <1>4, <1>5 DEF Chain
<1>7. ChainTo(b, new, p) /\ TopOf(new) = f
  BY <1>3, <1>4, <1>6 DEF ChainTo, TopOf
<1> QED
  BY <1>7 DEF new

\* A stack that parses no expression has a chain.
LEMMA ChainStarts ==
    ASSUME NEW b, NEW st, \E S : st \in Seq(S), Idle(st)
    PROVE  \E pre : Chain(b, st, pre)
<1>1. Len(st) \in Nat
  OBVIOUS
<1> DEFINE q == [k \in 1 .. Len(st) |-> <<>>]
<1>2. q \in [1 .. Len(st) -> Seq(Tokens)]
  <2>1. <<>> \in Seq(Tokens)
    OBVIOUS
  <2> QED
    BY <2>1
<1> HIDE DEF q
<1>3. \A k \in 1 .. Len(st) : st[k].at \notin Inner /\ st[k].at \notin Bases
  BY DEF Idle, Busy
<1>4. \A k \in 1 .. Len(st) : \A j \in 1 .. k - 1 : ~Busy(st[j])
  BY <1>1 DEF Idle
<1>5. \A k \in 1 .. Len(st) : k > 1 => ~Busy(st[k - 1])
  <2>1. \A k \in 1 .. Len(st) : k > 1 => k - 1 \in 1 .. Len(st)
    BY <1>1
  <2> QED
    BY <2>1 DEF Idle
<1> QED
  BY <1>2, <1>3, <1>4, <1>5 DEF Chain

\* A frame is called by one that waits for it.
LEMMA ChainGrows ==
    ASSUME NEW b, NEW st, NEW p, ChainTo(b, st, p), Busy(TopOf(st)),
           NEW f, f.at \in Inner, Goal(TopOf(st)) = Yields(f),
           NEW r \in Seq(Tokens), Awaits(b, TopOf(st), p, r)
    PROVE  ChainTo(b, Append(st, f), r) /\ TopOf(Append(st, f)) = f
<1>1. PICK pre : Chain(b, st, pre) /\ pre[Len(st)] = p
  BY DEF ChainTo
<1>2. st # <<>> /\ Awaits(b, TopOf(st), pre[Len(st)], r)
  BY <1>1 DEF ChainTo
<1> QED
  BY <1>1, <1>2, ChainPushed

\* The frame that an outermost expression is for.
LEMMA ChainBegins ==
    ASSUME NEW b, NEW st, \E S : st \in Seq(S), Idle(st), NEW f, f.at \in Bases
    PROVE  ChainTo(b, Append(st, f), <<>>) /\ TopOf(Append(st, f)) = f
<1>1. PICK pre : Chain(b, st, pre)
  BY ChainStarts
<1>2. <<>> \in Seq(Tokens)
  OBVIOUS
<1> QED
  BY <1>1, <1>2, ChainPushed

\* The frame below the one on top waits for it.
LEMMA CallerWaits ==
    ASSUME NEW b, NEW st, NEW p, ChainTo(b, st, p), TopOf(st).at \in Inner
    PROVE  /\ Busy(TopOf(Under(st)))
           /\ Goal(TopOf(Under(st))) = Yields(TopOf(st))
           /\ p \in Seq(Tokens)
           /\ \E before : ChainTo(b, Under(st), before) /\ Awaits(b, TopOf(Under(st)), before, p)
<1>1. PICK pre : Chain(b, st, pre) /\ pre[Len(st)] = p /\ st # <<>>
  BY DEF ChainTo
<1>2. PICK S : st \in Seq(S)
  BY <1>1 DEF Chain
<1>3. PICK n \in Nat : n = Len(st) - 1
  BY <1>1, <1>2
<1>4. Len(st) = n + 1 /\ n \in Int /\ \A k \in 1 .. n : st[k] \in S
  BY <1>2, <1>3
<1>5. /\ SubSeq(st, 1, n) \in Seq(S)
      /\ Len(SubSeq(st, 1, n)) = IF 1 <= n THEN n - 1 + 1 ELSE 0
      /\ \A k \in 1 .. n - 1 + 1 : SubSeq(st, 1, n)[k] = st[1 + k - 1]
  <2>1. 1 \in Int
    OBVIOUS
  <2> QED
    BY ONLY <1>4, <2>1, SubSeqProperties
<1> DEFINE bl == Under(st)
<1>6. bl \in Seq(S) /\ Len(bl) = n /\ \A k \in 1 .. n : bl[k] = st[k]
  BY <1>3, <1>5 DEF Under
<1> HIDE DEF bl
<1> DEFINE q == [k \in 1 .. n |-> pre[k]]
<1>7. q \in [1 .. Len(bl) -> Seq(Tokens)] /\ \A k \in 1 .. n : q[k] = pre[k]
  BY <1>1, <1>4, <1>6 DEF Chain
<1> HIDE DEF q
<1>8. ASSUME NEW k \in 1 .. n
      PROVE  /\ bl[k].at \in Inner => k > 1 /\ Busy(bl[k - 1])
             /\ bl[k].at \in Bases => q[k] = <<>>
             /\ \A j \in 1 .. k - 1 : Busy(bl[j]) => bl[k].at \in Inner
             /\ k > 1 /\ Busy(bl[k - 1]) => /\ Awaits(b, bl[k - 1], q[k - 1], q[k])
                                            /\ Goal(bl[k - 1]) = Yields(bl[k])
  <2>1. k \in 1 .. Len(st) /\ bl[k] = st[k] /\ q[k] = pre[k]
    BY <1>4, <1>6, <1>7
  <2>2. \A j \in 1 .. k - 1 : bl[j] = st[j] /\ q[j] = pre[j]
    BY <1>6, <1>7
  <2>3. k > 1 => k - 1 \in 1 .. k - 1
    OBVIOUS
  <2> QED
    BY <1>1, <2>1, <2>2, <2>3 DEF Chain
<1>9. Chain(b, bl, q)
  BY <1>6, <1>7, <1>8 DEF Chain
<1>10. n + 1 \in 1 .. Len(st) /\ pre[n + 1] \in Seq(Tokens) /\ (n + 1) - 1 = n
  BY <1>1, <1>4 DEF Chain
<1>11. n + 1 > 1 /\ Busy(st[n])
  BY <1>1, <1>4, <1>10 DEF Chain, TopOf
<1>12. Awaits(b, st[n], pre[n], pre[n + 1]) /\ Goal(st[n]) = Yields(st[n + 1])
  BY <1>1, <1>10, <1>11 DEF Chain
<1>13. n \in 1 .. n /\ bl # <<>>
  <2>1. n \in 1 .. n /\ n # 0
    BY <1>11
  <2>2. Len(<<>>) = 0
    OBVIOUS
  <2> QED
    BY <1>6, <2>1, <2>2
<1>14. TopOf(bl) = st[n] /\ q[Len(bl)] = pre[n] /\ TopOf(st) = st[n + 1] /\ p = pre[n + 1]
  BY <1>1, <1>4, <1>6, <1>7, <1>13 DEF TopOf
<1>15. ChainTo(b, bl, pre[n])
  BY <1>9, <1>13, <1>14 DEF ChainTo
<1>16. Awaits(b, TopOf(bl), pre[n], p) /\ Busy(TopOf(bl)) /\ Goal(TopOf(bl)) = Yields(TopOf(st))
  BY <1>11, <1>12, <1>14
<1> QED
  BY <1>10, <1>14, <1>15, <1>16 DEF bl

\* The frame on top calls parseExpression, and parsePrimary is on top.
LEMMA ExpressionCalled ==
    ASSUME NEW b, NEW st, NEW p, ChainTo(b, st, p), Busy(TopOf(st)),
           NEW r \in Seq(Tokens), Awaits(b, TopOf(st), p, r),
           NEW min \in {0, 11, 21}, Goal(TopOf(st)) = min
    PROVE  \A n, toks : Parsing(b, st \o Expression(min), r, n, toks)
<1> DEFINE f1 == [at |-> "operator", min |-> min, left |-> NoNode, op |-> ""]
           f2 == [at |-> "postfix"]
           f3 == [at |-> "primary"]
<1>1. /\ f1.at = "operator" /\ f1.left = NoNode /\ f1.min = min
      /\ f2.at = "postfix" /\ f3.at = "primary"
  OBVIOUS
<1>2. Expression(min) = <<f1, f2, f3>>
  BY DEF Expression
<1> HIDE DEF f1, f2, f3
<1>3. PICK S : st \in Seq(S)
  BY DEF ChainTo, Chain
<1>4. st \o Expression(min) = Append(Append(Append(st, f1), f2), f3)
  <2> DEFINE T == S \union {f1, f2, f3}
  <2>1. st \in Seq(T) /\ f1 \in T /\ f2 \in T /\ f3 \in T
    BY <1>3
  <2> HIDE DEF T
  <2>2. st \o <<f1, f2, f3>> = Append(Append(Append(st, f1), f2), f3)
    BY <2>1
  <2> QED
    BY <1>2, <2>2
<1>5. <<>> \in Seq(Tokens) /\ r \o <<>> = r
  BY ConcatEmptySeq
<1>6. /\ f1.at \in Inner /\ Busy(f1) /\ Yields(f1) = min /\ Goal(f1) = 21 /\ Awaits(b, f1, r, r)
      /\ f2.at \in Inner /\ Busy(f2) /\ Yields(f2) = 21 /\ Goal(f2) = 21 /\ Awaits(b, f2, r, r)
      /\ f3.at \in Inner /\ Busy(f3) /\ Yields(f3) = 21
  <2>1. Waits(b, f1, <<>>) /\ Waits(b, f2, <<>>)
    BY <1>1, <1>5 DEF Waits, Bases
  <2>2. Awaits(b, f1, r, r) /\ Awaits(b, f2, r, r)
    BY <1>1, <1>5, <2>1 DEF Awaits
  <2> QED
    BY <1>1, <2>2 DEF Inner, Busy, Yields, Goal
<1> DEFINE s1 == Append(st, f1)
           s2 == Append(s1, f2)
           s3 == Append(s2, f3)
<1>7. ChainTo(b, s1, r) /\ TopOf(s1) = f1
  BY <1>6, ChainGrows
<1> HIDE DEF s1
<1>8. ChainTo(b, s2, r) /\ TopOf(s2) = f2
  BY <1>6, <1>7, ChainGrows
<1> HIDE DEF s2
<1>9. ChainTo(b, s3, r) /\ TopOf(s3) = f3
  BY <1>6, <1>8, ChainGrows
<1> HIDE DEF s3
<1>10. \A n, toks : Parsing(b, s3, r, n, toks)
  <2>1. Busy(TopOf(s3)) /\ TopOf(s3).at = "primary"
    BY <1>1, <1>6, <1>9 DEF ChainTo
  <2>2. \A n, toks : Doing(b, TopOf(s3), r, r, n, toks)
    BY <2>1 DEF Doing
  <2> QED
    BY <1>9, <2>1, <2>2 DEF Parsing
<1> QED
  BY <1>4, <1>10 DEF s1, s2, s3

\* An outermost expression begins.
LEMMA ExpressionBegun ==
    ASSUME NEW b, NEW st, \E S : st \in Seq(S), Idle(st), NEW f, f.at \in Bases
    PROVE  \A n, toks : Parsing(b, Append(st, f) \o Expression(0), <<>>, n, toks)
<1> DEFINE new == Append(st, f)
           none == <<>>
<1>1. none \in Seq(Tokens) /\ none \o none = none /\ none = <<>>
  OBVIOUS
<1>2. ChainTo(b, new, none) /\ TopOf(new) = f
  BY ChainBegins
<1> HIDE DEF new, none
<1>3. Waits(b, f, none)
  BY <1>1 DEF Waits, Bases
<1>4. Awaits(b, f, none, none) /\ Busy(f) /\ Goal(f) = 0
  BY <1>1, <1>3 DEF Awaits, Bases, Busy, Goal
<1>5. \A n, toks : Parsing(b, new \o Expression(0), none, n, toks)
  BY <1>1, <1>2, <1>4, ExpressionCalled
<1> QED
  BY <1>1, <1>5 DEF new

\* The function on top returns: its caller has the tree of what has been read.
LEMMA TreeReturned ==
    ASSUME NEW b, NEW st, NEW p, ChainTo(b, st, p), TopOf(st).at \in Inner,
           NEW y, NEW r, r = p \o y,
           NEW n, n # NoNode, AtLevel(b, Yields(TopOf(st)), y, n), NEW toks,
           Yields(TopOf(st)) = 11 => toks # <<>> /\ toks[1].type \notin {"Mul", "Div"}
    PROVE  Parsing(b, Under(st), r, n, toks)
<1> DEFINE f == TopOf(Under(st))
<1>1. /\ Busy(f) /\ Goal(f) = Yields(TopOf(st))
      /\ \E before : ChainTo(b, Under(st), before) /\ Awaits(b, f, before, p)
  BY CallerWaits
<1>2. PICK before : ChainTo(b, Under(st), before) /\ Awaits(b, f, before, p)
  BY <1>1
<1> HIDE DEF f
<1>3. PICK x : p = before \o x /\ Waits(b, f, x) /\ f.at # "primary"
  BY <1>2 DEF Awaits
<1>4. Settled(f, toks)
  <2>1. f.at = "operator" /\ f.left # NoNode /\ f.op \in {"Plus", "Minus"} => Goal(f) = 11
    BY DEF Goal, Precedence
  <2> QED
    BY <1>1, <2>1 DEF Settled
<1>5. r = (before \o x) \o y
  BY <1>3
<1>6. Answered(b, f, before, r, n, toks)
  BY <1>1, <1>3, <1>4, <1>5 DEF Answered
<1>7. Busy(TopOf(Under(st))) /\ Doing(b, TopOf(Under(st)), before, r, n, toks)
  BY <1>1, <1>2, <1>6 DEF f, Doing, ChainTo
<1> QED
  BY <1>2, <1>7 DEF Parsing

\* The function on top goes on at another point.
LEMMA FrameMoved ==
    ASSUME NEW b, NEW st, NEW p, ChainTo(b, st, p), TopOf(st).at \in Inner,
           NEW f, f.at \in Inner, Yields(f) = Yields(TopOf(st))
    PROVE  /\ ChainTo(b, Append(Under(st), f), p) /\ TopOf(Append(Under(st), f)) = f
           /\ Busy(f) /\ p \in Seq(Tokens)
<1>1. /\ Busy(TopOf(Under(st))) /\ Goal(TopOf(Under(st))) = Yields(TopOf(st))
      /\ p \in Seq(Tokens)
      /\ \E before : ChainTo(b, Under(st), before) /\ Awaits(b, TopOf(Under(st)), before, p)
  BY CallerWaits
<1>2. PICK before : ChainTo(b, Under(st), before) /\ Awaits(b, TopOf(Under(st)), before, p)
  BY <1>1
<1> QED
  BY <1>1, <1>2, ChainGrows DEF Busy

\* It goes on with what it has read itself ...
LEMMA FrameAnswers ==
    ASSUME NEW b, NEW st, NEW p, ChainTo(b, st, p), TopOf(st).at \in Inner,
           NEW f, f.at \in Inner, Yields(f) = Yields(TopOf(st)),
           NEW r, NEW n, NEW toks, Doing(b, f, p, r, n, toks)
    PROVE  Parsing(b, Append(Under(st), f), r, n, toks)
<1> DEFINE new == Append(Under(st), f)
<1>1. ChainTo(b, new, p) /\ TopOf(new) = f /\ Busy(f)
  BY FrameMoved
<1> HIDE DEF new
<1>2. Parsing(b, new, r, n, toks)
  BY <1>1 DEF Parsing, ChainTo
<1> QED
  BY <1>2 DEF new

\* ... or calls parseExpression.
LEMMA FrameCalls ==
    ASSUME NEW b, NEW st, NEW p, ChainTo(b, st, p), TopOf(st).at \in Inner,
           NEW f, f.at \in Inner, Yields(f) = Yields(TopOf(st)),
           NEW x, f.at # "primary", Waits(b, f, x), NEW r, r = p \o x,
           NEW min \in {0, 11, 21}, Goal(f) = min
    PROVE  \A n, toks : Parsing(b, Append(Under(st), f) \o Expression(min), r, n, toks)
<1> DEFINE new == Append(Under(st), f)
<1>1. ChainTo(b, new, p) /\ TopOf(new) = f /\ Busy(f) /\ p \in Seq(Tokens)
  BY FrameMoved
<1> HIDE DEF new
<1>2. r \in Seq(Tokens)
  <2>1. x \in Seq(Tokens)
    BY DEF Waits
  <2> QED
    BY <1>1, <2>1, ConcatProperties
<1>3. Awaits(b, TopOf(new), p, r)
  BY <1>1 DEF Awaits
<1>4. \A n, toks : Parsing(b, new \o Expression(min), r, n, toks)
  BY <1>1, <1>2, <1>3, ExpressionCalled
<1> QED
  BY <1>4 DEF new

\* An argument has been read.
LEMMA ArgumentRead ==
    ASSUME NEW b, NEW node, NEW w, NEW s, Opened(b, node, w) \/ Continued(b, node, w),
           SumOf(b, s, ret), ret # NoNode
    PROVE  Listed(b, WithArgument(node), w \o s)
<1>1. s \in Seq(Tokens)
  BY DEF SumOf
<1>2. CASE Opened(b, node, w)
  <2>1. PICK c, v : \E t \in Tokens :
               /\ PrimaryOf(b, c, v) /\ v[1] = "VARIABLE" /\ v[2].kind = "FUNCTION"
               /\ t.type = "LParen"
               /\ w = Append(c, t) /\ node = <<"FN_CALL", v[2], <<>>>>
    BY <1>2 DEF Opened
  <2>2. PICK t \in Tokens :
               /\ PrimaryOf(b, c, v) /\ v[1] = "VARIABLE" /\ v[2].kind = "FUNCTION"
               /\ t.type = "LParen"
               /\ w = Append(c, t) /\ node = <<"FN_CALL", v[2], <<>>>>
    BY <2>1
  <2>3. WithArgument(node) = <<"FN_CALL", v[2], <<ret>>>>
    BY <2>2 DEF WithArgument
  <2>4. ArgumentsOf(b, s, <<ret>>)
    BY ArgumentsRule
  <2> QED
    BY <2>2, <2>3, <2>4 DEF Listed
<1>3. CASE Continued(b, node, w)
  <2>1. PICK y : \E u \in Tokens : Listed(b, node, y) /\ u.type = "Comma" /\ w = Append(y, u)
    BY <1>3 DEF Continued
  <2>2. PICK u \in Tokens : Listed(b, node, y) /\ u.type = "Comma" /\ w = Append(y, u)
    BY <2>1
  <2>3. PICK c, v, a, args : \E t \in Tokens :
               /\ PrimaryOf(b, c, v) /\ v[1] = "VARIABLE" /\ v[2].kind = "FUNCTION"
               /\ t.type = "LParen" /\ ArgumentsOf(b, a, args)
               /\ y = Append(c, t) \o a /\ node = <<"FN_CALL", v[2], args>>
    BY <2>2 DEF Listed
  <2>4. PICK t \in Tokens :
               /\ PrimaryOf(b, c, v) /\ v[1] = "VARIABLE" /\ v[2].kind = "FUNCTION"
               /\ t.type = "LParen" /\ ArgumentsOf(b, a, args)
               /\ y = Append(c, t) \o a /\ node = <<"FN_CALL", v[2], args>>
    BY <2>3
  <2> DEFINE h == Append(c, t)
  <2>5. h \in Seq(Tokens) /\ a \in Seq(Tokens) /\ Append(a, u) \in Seq(Tokens)
    <3>1. c \in Seq(Tokens) /\ a \in Seq(Tokens)
      BY <2>4 DEF PrimaryOf, ArgumentsOf
    <3> QED
      BY <3>1
  <2> HIDE DEF h
  <2>6. w \o s = h \o (Append(a, u) \o s)
    <3> DEFINE z == Append(a, u)
    <3>1. z \in Seq(Tokens) /\ y = h \o a /\ w = Append(y, u) /\ u \in Tokens
      BY <2>2, <2>4, <2>5 DEF h
    <3>2. w = h \o z
      BY <2>5, <3>1, TextLonger
    <3> HIDE DEF z
    <3>3. h \in Seq(Tokens) /\ z \in Seq(Tokens) /\ s \in Seq(Tokens)
      BY <1>1, <2>5, <3>1
    <3>4. (h \o z) \o s = h \o (z \o s)
      BY ONLY <3>3, ConcatAssociative
    <3> QED
      BY <3>2, <3>4 DEF z
  <2>7. ArgumentsOf(b, Append(a, u) \o s, Append(args, ret))
    BY <2>2, <2>4, ArgumentsRule
  <2>8. WithArgument(node) = <<"FN_CALL", v[2], Append(args, ret)>>
    BY <2>4 DEF WithArgument
  <2> QED
    BY <2>4, <2>6, <2>7, <2>8 DEF Listed, h
<1> QED
  BY <1>2, <1>3

\* The call is complete.
LEMMA CallRead ==
    ASSUME NEW b, NEW node, NEW x, Opened(b, node, x) \/ Listed(b, node, x),
           NEW u \in Tokens, u.type = "RParen"
    PROVE  PrimaryOf(b, Append(x, u), node) /\ node # NoNode
<1>1. CASE Opened(b, node, x)
  <2>1. PICK c, v : \E t \in Tokens :
               /\ PrimaryOf(b, c, v) /\ v[1] = "VARIABLE" /\ v[2].kind = "FUNCTION"
               /\ t.type = "LParen"
               /\ x = Append(c, t) /\ node = <<"FN_CALL", v[2], <<>>>>
    BY <1>1 DEF Opened
  <2>2. PrimaryOf(b, Append(x, u), node)
    BY <2>1, CallRule
  <2> QED
    BY <2>1, <2>2 DEF NoNode
<1>2. CASE Listed(b, node, x)
  <2>1. PICK c, v, a, args : \E t \in Tokens :
               /\ PrimaryOf(b, c, v) /\ v[1] = "VARIABLE" /\ v[2].kind = "FUNCTION"
               /\ t.type = "LParen" /\ ArgumentsOf(b, a, args)
               /\ x = Append(c, t) \o a /\ node = <<"FN_CALL", v[2], args>>
    BY <1>2 DEF Listed
  <2>2. PrimaryOf(b, Append(x, u), node)
    BY <2>1, CallRule
  <2> QED
    BY <2>1, <2>2 DEF NoNode
<1> QED
  BY <1>1, <1>2

\* What parseExpression has parsed when an operand has come back.
LEMMA LefthandRead ==
    ASSUME NEW b, NEW w, NEW s, Top.at = "operator", Waits(b, Top, w),
           AtLevel(b, Goal(Top), s, ret), ret # NoNode
    PROVE  /\ Lefthand # NoNode /\ Top.min \in {0, 11, 21}
           /\ AtLevel(b, Top.min, w \o s, Lefthand)
           /\ \A type : IsBinop(type) /\ (Top.left # NoNode /\ Top.op \in {"Plus", "Minus"} =>
                                             type \notin {"Mul", "Div"})
                  => AtLevel(b, Precedence(type), w \o s, Lefthand)
<1>1. s \in Seq(Tokens) /\ Top.min \in {0, 11, 21}
  BY LevelText DEF Waits
<1>2. /\ Precedence("Plus") = 10 /\ Precedence("Minus") = 10
      /\ Precedence("Mul") = 20 /\ Precedence("Div") = 20
  BY DEF Precedence
<1>3. \A type : IsBinop(type) => type \in {"Plus", "Minus", "Mul", "Div"}
  BY DEF IsBinop
<1>4. CASE Top.left = NoNode
  <2>1. Lefthand = ret /\ w = <<>> /\ w \o s = s /\ AtLevel(b, 21, s, ret)
    BY <1>1, <1>4, ConcatEmptySeq DEF Lefthand, Waits, Goal
  <2>2. \A level \in {0, 10, 11, 20, 21} : AtLevel(b, level, w \o s, Lefthand)
    BY <2>1, LevelWeaker
  <2> QED
    BY <1>1, <1>2, <1>3, <2>1, <2>2
<1>5. CASE Top.left # NoNode
  <2>1. /\ Lefthand = <<"BINOP", Top.op, Top.left, ret>>
        /\ Goal(Top) = Precedence(Top.op) + 1
    BY <1>5 DEF Lefthand, Goal
  <2>2. PICK l : \E t \in Tokens :
               /\ t.type = Top.op /\ IsBinop(Top.op) /\ Precedence(Top.op) >= Top.min
               /\ AtLevel(b, Precedence(Top.op), l, Top.left)
               /\ w = Append(l, t)
    BY <1>5 DEF Waits, Operand
  <2>3. PICK t \in Tokens :
               /\ t.type = Top.op /\ IsBinop(Top.op) /\ Precedence(Top.op) >= Top.min
               /\ AtLevel(b, Precedence(Top.op), l, Top.left)
               /\ w = Append(l, t)
    BY <2>2
  <2>4. Lefthand # NoNode
    BY <2>1 DEF NoNode
  <2>5. CASE Top.op \in {"Plus", "Minus"}
    <3>1. SumOf(b, l, Top.left) /\ ProductOf(b, s, ret) /\ Top.min = 0
      <4>1. Precedence(Top.op) = 10
        BY <1>2, <2>5
      <4> QED
        BY <1>1, <2>1, <2>3, <4>1 DEF AtLevel
    <3>2. SumOf(b, w \o s, Lefthand)
      BY <2>1, <2>3, <2>5, <3>1, OperationRule
    <3>3. AtLevel(b, 0, w \o s, Lefthand) /\ AtLevel(b, 10, w \o s, Lefthand)
      BY <3>2 DEF AtLevel
    <3> QED
      BY <1>2, <1>3, <1>5, <2>4, <2>5, <3>1, <3>3
  <2>6. CASE Top.op \in {"Mul", "Div"}
    <3>1. ProductOf(b, l, Top.left) /\ PrimaryOf(b, s, ret) /\ Top.min \in {0, 11}
      <4>1. Precedence(Top.op) = 20
        BY <1>2, <2>6
      <4> QED
        BY <1>1, <2>1, <2>3, <4>1 DEF AtLevel
    <3>2. ProductOf(b, w \o s, Lefthand)
      BY <2>1, <2>3, <2>6, <3>1, OperationRule
    <3>3. AtLevel(b, 20, w \o s, Lefthand)
      BY <3>2 DEF AtLevel
    <3>4. \A level \in {0, 10, 11, 20} : AtLevel(b, level, w \o s, Lefthand)
      BY <3>3, LevelWeaker
    <3> QED
      BY <1>2, <1>3, <2>4, <3>1, <3>4
  <2> QED
    BY <1>3, <2>3, <2>5, <2>6
<1> QED
  BY <1>4, <1>5

(***************************************************************************)
(* The invariant: what is read of an expression is cut into the texts of   *)
(* the frames, and what the last call returned is the tree of its text.    *)
(***************************************************************************)
TextOK == Parsing(VisibleSymbols, stack, read, ret, ahead)

\* A table that stays the same has the same visible symbols.
LEMMA SameSymbols == ASSUME UNCHANGED vars PROVE VisibleSymbols' = VisibleSymbols
BY DEF vars, VisibleSymbols, Visible, Lookup, Declares

\* An empty stack parses no expression.
LEMMA IdleText ==
    ASSUME NEW b, NEW r, NEW n, NEW toks PROVE Parsing(b, <<>>, r, n, toks)
BY DEF Parsing, Idle

\* The frame on top is one of an expression.
LEMMA BusyTop ==
    ASSUME StackOK(stack), TextOK, stack # <<>>, Busy(Top)
    PROVE  /\ TopOf(stack) = Top /\ Under(stack) = Below
           /\ \E p : ChainTo(VisibleSymbols, stack, p)
                     /\ Doing(VisibleSymbols, Top, p, read, ret, ahead)
<1>1. PICK S : stack \in Seq(S)
  BY DEF StackOK
<1>2. Len(stack) \in 1 .. Len(stack)
  BY <1>1
<1>3. ~Idle(stack)
  BY <1>2 DEF Idle, Top
<1>4. TopOf(stack) = Top /\ Under(stack) = Below
  BY DEF TopOf, Top, Under, Below
<1> QED
  BY <1>3, <1>4 DEF TextOK, Parsing

\* A token that is taken.
LEMMA TextTaken ==
    ASSUME TokensOK, Ready, NextType # "EndOfFile", Take,
           NEW p \in Seq(Tokens), NEW x \in Seq(Tokens), read = p \o x,
           NEW z, z = Append(x, ahead[1])
    PROVE  ahead[1] \in Tokens /\ ahead[1].type = NextType /\ read' = p \o z /\ z \in Seq(Tokens)
<1>1. ahead[1] \in Tokens /\ ahead[1].type = NextType
  BY ReadyToken, TokenTypes
<1>2. read' = Append(read, ahead[1]) /\ z \in Seq(Tokens)
  BY <1>1 DEF Take
<1> QED
  BY <1>1, <1>2, TextLonger

\* What the frame on top has read, when a call of its has returned.
Parts(b, f, p, r, n, w, s) ==
    /\ w \in Seq(Tokens) /\ s \in Seq(Tokens) /\ w \o s \in Seq(Tokens)
    /\ r = p \o (w \o s)
    /\ Waits(b, f, w) /\ AtLevel(b, Goal(f), s, n)

\* The parts of the text of a function that has its answer.
LEMMA AnsweredText ==
    ASSUME NEW b, NEW f, NEW p \in Seq(Tokens), NEW r, NEW n, NEW toks, Answered(b, f, p, r, n, toks)
    PROVE  \E w, s : Parts(b, f, p, r, n, w, s)
<1>1. PICK w, s : r = (p \o w) \o s /\ Waits(b, f, w) /\ AtLevel(b, Goal(f), s, n)
  BY DEF Answered
<1>2. w \in Seq(Tokens) /\ s \in Seq(Tokens)
  BY <1>1, LevelText DEF Waits
<1>3. (p \o w) \o s = p \o (w \o s) /\ w \o s \in Seq(Tokens)
  BY <1>2, ConcatAssociative
<1> QED
  BY <1>1, <1>2, <1>3 DEF Parts

\* The functions that parse expressions keep the text.
LEMMA ExpressionsKeepText ==
    ASSUME TokensOK, StackOK(stack), TextOK, Expressions
    PROVE  TextOK'
<1> DEFINE b == VisibleSymbols
<1> USE DEF At
<1>1. ASSUME UNCHANGED vars, Parsing(b, stack', read', ret', ahead') PROVE TextOK'
  BY <1>1, SameSymbols DEF TextOK
<1>2. ASSUME stack # <<>>, Top.at \in Inner
      PROVE  /\ TopOf(stack) = Top /\ Under(stack) = Below
             /\ \E p : /\ ChainTo(b, stack, p) /\ p \in Seq(Tokens)
                       /\ Doing(b, Top, p, read, ret, ahead)
  <2>1. Busy(Top)
    BY <1>2 DEF Busy
  <2>2. /\ TopOf(stack) = Top /\ Under(stack) = Below
        /\ \E p : ChainTo(b, stack, p) /\ Doing(b, Top, p, read, ret, ahead)
    BY <1>2, <2>1, BusyTop
  <2> QED
    BY <1>2, <2>2, CallerWaits
<1>3. ASSUME Refuse PROVE TextOK'
  <2>1. UNCHANGED vars /\ stack' = <<>>
    BY <1>3 DEF Refuse, GiveUp
  <2> QED
    BY <1>1, <2>1, IdleText
<1>4. <<>> \in Seq(Tokens) /\ \A x \in Seq(Tokens) : x \o <<>> = x /\ <<>> \o x = x
  BY ConcatEmptySeq
<1> HIDE DEF b
<1>5. CASE Parenthesis
  <2> DEFINE f == [at |-> "closing"]
             x == Append(<<>>, ahead[1])
  <2>1. f.at = "closing"
    OBVIOUS
  <2>2. /\ stack # <<>> /\ Top.at = "primary" /\ Ready /\ NextType = "LParen" /\ Take
        /\ stack' = Append(Below, f) \o Expression(0) /\ UNCHANGED vars
    BY <1>5 DEF Parenthesis, NextIs
  <2> HIDE DEF f
  <2>3. Top.at \in Inner
    BY <2>2 DEF Inner
  <2>4. PICK p : ChainTo(b, stack, p) /\ p \in Seq(Tokens) /\ Doing(b, Top, p, read, ret, ahead)
    BY <1>2, <2>2, <2>3
  <2>5. read = p \o <<>>
    BY <1>4, <2>2, <2>4 DEF Doing, Answered
  <2>6. ahead[1] \in Tokens /\ ahead[1].type = NextType /\ read' = p \o x /\ x \in Seq(Tokens)
    BY <1>4, <2>2, <2>4, <2>5, TextTaken
  <2>7. Waits(b, f, x)
    BY <2>1, <2>2, <2>6 DEF Waits, Bases
  <2> HIDE DEF x
  <2>8. f.at \in Inner /\ Yields(f) = Yields(TopOf(stack)) /\ Goal(f) = 0 /\ TopOf(stack).at \in Inner
    BY <1>2, <2>1, <2>2, <2>3 DEF Inner, Yields, Goal
  <2>9. Parsing(b, Append(Under(stack), f) \o Expression(0), read', ret', ahead')
    BY <2>1, <2>4, <2>6, <2>7, <2>8, FrameCalls
  <2> QED
    BY <1>1, <1>2, <2>2, <2>3, <2>9
<1>6. CASE CloseParenthesis
  <2>1. /\ stack # <<>> /\ Top.at = "closing" /\ Ready /\ NextType = "RParen" /\ Take
        /\ stack' = Below /\ UNCHANGED vars /\ ret' = ret
    BY <1>6 DEF CloseParenthesis, NextIs
  <2>2. Top.at \in Inner
    BY <2>1 DEF Inner
  <2>3. PICK p : ChainTo(b, stack, p) /\ p \in Seq(Tokens) /\ Doing(b, Top, p, read, ret, ahead)
    BY <1>2, <2>1, <2>2
  <2>4. Answered(b, Top, p, read, ret, ahead) /\ ret # NoNode
    BY <2>1, <2>3 DEF Doing, Answered
  <2>5. PICK w, s : /\ w \in Seq(Tokens) /\ s \in Seq(Tokens) /\ w \o s \in Seq(Tokens)
                    /\ read = p \o (w \o s)
                    /\ Waits(b, Top, w) /\ AtLevel(b, Goal(Top), s, ret)
    <3>1. \E w, s : Parts(b, Top, p, read, ret, w, s)
        BY <2>3, <2>4, AnsweredText
    <3> QED
      BY <3>1 DEF Parts
  <2> DEFINE y == Append(w \o s, ahead[1])
  <2>6. ahead[1] \in Tokens /\ ahead[1].type = NextType /\ read' = p \o y /\ y \in Seq(Tokens)
    BY <2>1, <2>3, <2>5, TextTaken
  <2>7. PICK t \in Tokens : t.type = "LParen" /\ w = Append(<<>>, t)
    BY <2>1, <2>5 DEF Waits
  <2>8. SumOf(b, s, ret)
    BY <2>1, <2>5 DEF Goal, AtLevel
  <2>9. PrimaryOf(b, y, ret)
    BY <2>1, <2>6, <2>7, <2>8, ParenthesesRule
  <2> HIDE DEF y
  <2>10. Yields(TopOf(stack)) = 21 /\ TopOf(stack).at \in Inner
    BY <1>2, <2>1, <2>2 DEF Yields
  <2>11. AtLevel(b, Yields(TopOf(stack)), y, ret)
    BY <2>9, <2>10 DEF AtLevel
  <2>12. Parsing(b, Under(stack), read', ret, ahead')
    BY <2>3, <2>4, <2>6, <2>10, <2>11, 21 # 11, TreeReturned
  <2> QED
    BY <1>1, <1>2, <2>1, <2>2, <2>12
<1>7. CASE Literal \/ Name
  <2>1. /\ stack # <<>> /\ Top.at = "primary" /\ Ready /\ NextType \in {"Number", "Identifier"} /\ Take
        /\ stack' = Below /\ UNCHANGED vars
        /\ \/ NextType = "Number" /\ ret' = <<"NUMBER", ahead[1].text>>
           \/ /\ NextType = "Identifier" /\ Visible(ahead[1].text)
              /\ ret' = <<"VARIABLE", Lookup(ahead[1].text)>>
    BY <1>7 DEF Literal, Name, NextIs, Return
  <2>2. Top.at \in Inner
    BY <2>1 DEF Inner
  <2>3. PICK p : ChainTo(b, stack, p) /\ p \in Seq(Tokens) /\ Doing(b, Top, p, read, ret, ahead)
    BY <1>2, <2>1, <2>2
  <2>4. read = p \o <<>>
    BY <1>4, <2>1, <2>3 DEF Doing, Answered
  <2> DEFINE x == Append(<<>>, ahead[1])
  <2>5. ahead[1] \in Tokens /\ ahead[1].type = NextType /\ read' = p \o x /\ x \in Seq(Tokens)
    BY <1>4, <2>1, <2>3, <2>4, TextTaken
  <2>6. x = <<ahead[1]>>
    OBVIOUS
  <2> HIDE DEF x
  <2>7. ret' # NoNode
    BY <2>1 DEF NoNode
  <2>8. PrimaryOf(b, x, ret')
    <3>1. CASE NextType = "Number" /\ ret' = <<"NUMBER", ahead[1].text>>
      BY <2>5, <2>6, <3>1, AtomRule
    <3>2. CASE /\ NextType = "Identifier" /\ Visible(ahead[1].text)
               /\ ret' = <<"VARIABLE", Lookup(ahead[1].text)>>
      <4>1. ahead[1].text \in Names
        BY <2>5, <3>2, TokenTypes DEF AnyToken
      <4>2. ahead[1].text \in DOMAIN b /\ b[ahead[1].text] = Lookup(ahead[1].text)
        BY <3>2, <4>1 DEF b, VisibleSymbols
      <4> QED
        BY <2>5, <2>6, <3>2, <4>2, AtomRule
    <3> QED
      BY <2>1, <3>1, <3>2
  <2>9. Yields(TopOf(stack)) = 21 /\ TopOf(stack).at \in Inner
    BY <1>2, <2>1, <2>2 DEF Yields
  <2>10. AtLevel(b, Yields(TopOf(stack)), x, ret')
    BY <2>8, <2>9 DEF AtLevel
  <2>11. Parsing(b, Under(stack), read', ret', ahead')
    BY <2>3, <2>5, <2>7, <2>9, <2>10, 21 # 11, TreeReturned
  <2> QED
    BY <1>1, <1>2, <2>1, <2>2, <2>11
<1>8. CASE EndPostfix
  <2>1. /\ stack # <<>> /\ Top.at = "postfix"
        /\ stack' = Below /\ UNCHANGED vars /\ ret' = ret /\ read' = read /\ ahead' = ahead
    BY <1>8 DEF EndPostfix, Return
  <2>2. Top.at \in Inner
    BY <2>1 DEF Inner
  <2>3. PICK p : ChainTo(b, stack, p) /\ p \in Seq(Tokens) /\ Doing(b, Top, p, read, ret, ahead)
    BY <1>2, <2>1, <2>2
  <2>4. Answered(b, Top, p, read, ret, ahead) /\ ret # NoNode
    BY <2>1, <2>3 DEF Doing, Answered
  <2>5. PICK w, s : /\ w \in Seq(Tokens) /\ s \in Seq(Tokens) /\ w \o s \in Seq(Tokens)
                    /\ read = p \o (w \o s)
                    /\ Waits(b, Top, w) /\ AtLevel(b, Goal(Top), s, ret)
    <3>1. \E w, s : Parts(b, Top, p, read, ret, w, s)
        BY <2>3, <2>4, AnsweredText
    <3> QED
      BY <3>1 DEF Parts
  <2>6. w = <<>> /\ w \o s = s
    BY <1>4, <2>1, <2>5 DEF Waits
  <2>7. Yields(TopOf(stack)) = Goal(Top) /\ Yields(TopOf(stack)) = 21 /\ TopOf(stack).at \in Inner
    BY <1>2, <2>1, <2>2 DEF Yields, Goal
  <2>8. read = p \o s /\ AtLevel(b, Yields(TopOf(stack)), s, ret)
    BY <2>5, <2>6, <2>7
  <2>9. Parsing(b, Under(stack), read, ret, ahead)
    BY <2>3, <2>4, <2>7, <2>8, 21 # 11, TreeReturned
  <2> QED
    BY <1>1, <1>2, <2>1, <2>2, <2>9
<1>9. CASE BeginCall
  <2> DEFINE f == [at |-> "call", node |-> <<"FN_CALL", ret[2], <<>>>>]
  <2>1. f.at = "call" /\ f.node = <<"FN_CALL", ret[2], <<>>>>
    OBVIOUS
  <2>2. /\ stack # <<>> /\ Top.at = "postfix" /\ Ready /\ NextType = "LParen" /\ Take
        /\ stack' = Append(Below, f) /\ UNCHANGED vars /\ ret' = NoNode
        /\ ret[1] = "VARIABLE" /\ ret[2].kind = "FUNCTION"
    BY <1>9 DEF BeginCall, NextIs, Goto
  <2> HIDE DEF f
  <2>3. Top.at \in Inner
    BY <2>2 DEF Inner
  <2>4. PICK p : ChainTo(b, stack, p) /\ p \in Seq(Tokens) /\ Doing(b, Top, p, read, ret, ahead)
    BY <1>2, <2>2, <2>3
  <2>5. Answered(b, Top, p, read, ret, ahead)
    BY <2>2, <2>4 DEF Doing
  <2>6. PICK w, s : /\ w \in Seq(Tokens) /\ s \in Seq(Tokens) /\ w \o s \in Seq(Tokens)
                    /\ read = p \o (w \o s)
                    /\ Waits(b, Top, w) /\ AtLevel(b, Goal(Top), s, ret)
    <3>1. \E w, s : Parts(b, Top, p, read, ret, w, s)
        BY <2>4, <2>5, AnsweredText
    <3> QED
      BY <3>1 DEF Parts
  <2>7. w = <<>> /\ w \o s = s /\ PrimaryOf(b, s, ret)
    BY <1>4, <2>2, <2>6 DEF Waits, Goal, AtLevel
  <2>8. read = p \o s
    BY <2>6, <2>7
  <2> DEFINE x == Append(s, ahead[1])
  <2>9. ahead[1] \in Tokens /\ ahead[1].type = NextType /\ read' = p \o x /\ x \in Seq(Tokens)
    BY <2>2, <2>4, <2>6, <2>8, TextTaken
  <2>10. Opened(b, f.node, x)
    BY <2>1, <2>2, <2>7, <2>9 DEF Opened
  <2> HIDE DEF x
  <2>11. f.at \in Inner /\ Yields(f) = Yields(TopOf(stack)) /\ TopOf(stack).at \in Inner
    BY <1>2, <2>1, <2>2, <2>3 DEF Inner, Yields
  <2>12. Doing(b, f, p, read', ret', ahead')
    BY <2>1, <2>2, <2>9, <2>10 DEF Doing
  <2>13. Parsing(b, Append(Under(stack), f), read', ret', ahead')
    BY <2>4, <2>11, <2>12, FrameAnswers
  <2> QED
    BY <1>1, <1>2, <2>2, <2>3, <2>13
<1>10. CASE NextArgument
  <2> DEFINE f == [at |-> "call", node |-> WithArgument(Top.node)]
  <2>1. f.at = "call" /\ f.node = WithArgument(Top.node)
    OBVIOUS
  <2>2. /\ stack # <<>> /\ Top.at = "call" /\ Ready
        /\ stack' = Append(Below, f) \o Expression(0) /\ UNCHANGED vars
        /\ \/ ret = NoNode /\ read' = read
           \/ ret # NoNode /\ NextType = "Comma" /\ Take
    BY <1>10 DEF NextArgument
  <2> HIDE DEF f
  <2>3. Top.at \in Inner
    BY <2>2 DEF Inner
  <2>4. PICK p : ChainTo(b, stack, p) /\ p \in Seq(Tokens) /\ Doing(b, Top, p, read, ret, ahead)
    BY <1>2, <2>2, <2>3
  <2>5. \E x : read' = p \o x /\ Waits(b, f, x)
    <3>1. CASE ret = NoNode /\ read' = read
      <4>1. PICK x \in Seq(Tokens) : read = p \o x /\ Opened(b, Top.node, x)
        BY <2>2, <2>4, <3>1 DEF Doing, Answered
      <4>2. f.node = Top.node
        BY <2>1, <3>1 DEF WithArgument
      <4>3. Waits(b, f, x)
        BY <2>1, <4>1, <4>2 DEF Waits, Bases
      <4> QED
        BY <3>1, <4>1, <4>3
    <3>2. CASE ret # NoNode /\ NextType = "Comma" /\ Take
      <4>1. Answered(b, Top, p, read, ret, ahead)
        BY <2>2, <2>4, <3>2 DEF Doing
      <4>2. PICK w, s : /\ w \in Seq(Tokens) /\ s \in Seq(Tokens) /\ w \o s \in Seq(Tokens)
                        /\ read = p \o (w \o s)
                        /\ Waits(b, Top, w) /\ AtLevel(b, Goal(Top), s, ret)
        <5>1. \E w, s : Parts(b, Top, p, read, ret, w, s)
                BY <2>4, <4>1, AnsweredText
        <5> QED
          BY <5>1 DEF Parts
      <4> DEFINE y == w \o s
                 x == Append(y, ahead[1])
      <4>3. y \in Seq(Tokens) /\ read = p \o y
        BY <4>2
      <4>4. (Opened(b, Top.node, w) \/ Continued(b, Top.node, w)) /\ SumOf(b, s, ret)
        BY <2>2, <4>2 DEF Waits, Goal, AtLevel
      <4>5. Listed(b, f.node, y)
        BY <2>1, <3>2, <4>4, ArgumentRead
      <4> HIDE DEF y
      <4>6. ahead[1] \in Tokens /\ ahead[1].type = NextType /\ read' = p \o x /\ x \in Seq(Tokens)
        BY <2>2, <2>4, <3>2, <4>3, TextTaken
      <4>7. Continued(b, f.node, x)
        BY <3>2, <4>5, <4>6 DEF Continued
      <4>8. Waits(b, f, x)
        BY <2>1, <4>6, <4>7 DEF Waits, Bases
      <4> QED
        BY <4>6, <4>8
    <3> QED
      BY <2>2, <3>1, <3>2
  <2>6. PICK x : read' = p \o x /\ Waits(b, f, x)
    BY <2>5
  <2>7. f.at \in Inner /\ Yields(f) = Yields(TopOf(stack)) /\ Goal(f) = 0 /\ TopOf(stack).at \in Inner
    BY <1>2, <2>1, <2>2, <2>3 DEF Inner, Yields, Goal
  <2>8. Parsing(b, Append(Under(stack), f) \o Expression(0), read', ret', ahead')
    BY <2>1, <2>4, <2>6, <2>7, FrameCalls
  <2> QED
    BY <1>1, <1>2, <2>2, <2>3, <2>8
<1>11. CASE EndCall
  <2> DEFINE f == [at |-> "postfix"]
  <2>1. f.at = "postfix"
    OBVIOUS
  <2>2. /\ stack # <<>> /\ Top.at = "call" /\ Ready /\ NextType = "RParen" /\ Take
        /\ stack' = Append(Below, f) /\ UNCHANGED vars /\ ret' = WithArgument(Top.node)
    BY <1>11 DEF EndCall, NextIs, Goto
  <2> HIDE DEF f
  <2>3. Top.at \in Inner
    BY <2>2 DEF Inner
  <2>4. PICK p : ChainTo(b, stack, p) /\ p \in Seq(Tokens) /\ Doing(b, Top, p, read, ret, ahead)
    BY <1>2, <2>2, <2>3
  <2>5. \E x \in Seq(Tokens) : read = p \o x /\ (Opened(b, ret', x) \/ Listed(b, ret', x))
    <3>1. CASE ret = NoNode
      <4>1. PICK x \in Seq(Tokens) : read = p \o x /\ Opened(b, Top.node, x)
        BY <2>2, <2>4, <3>1 DEF Doing, Answered
      <4>2. ret' = Top.node
        BY <2>2, <3>1 DEF WithArgument
      <4> QED
        BY <4>1, <4>2
    <3>2. CASE ret # NoNode
      <4>1. Answered(b, Top, p, read, ret, ahead)
        BY <2>2, <2>4, <3>2 DEF Doing
      <4>2. PICK w, s : /\ w \in Seq(Tokens) /\ s \in Seq(Tokens) /\ w \o s \in Seq(Tokens)
                        /\ read = p \o (w \o s)
                        /\ Waits(b, Top, w) /\ AtLevel(b, Goal(Top), s, ret)
        <5>1. \E w, s : Parts(b, Top, p, read, ret, w, s)
                BY <2>4, <4>1, AnsweredText
        <5> QED
          BY <5>1 DEF Parts
      <4>3. (Opened(b, Top.node, w) \/ Continued(b, Top.node, w)) /\ SumOf(b, s, ret)
        BY <2>2, <4>2 DEF Waits, Goal, AtLevel
      <4>4. Listed(b, ret', w \o s)
        BY <2>2, <3>2, <4>3, ArgumentRead
      <4> QED
        BY <4>2, <4>4
    <3> QED
      BY <3>1, <3>2
  <2>6. PICK x \in Seq(Tokens) : read = p \o x /\ (Opened(b, ret', x) \/ Listed(b, ret', x))
    BY <2>5
  <2> DEFINE y == Append(x, ahead[1])
  <2>7. ahead[1] \in Tokens /\ ahead[1].type = NextType /\ read' = p \o y /\ y \in Seq(Tokens)
    BY <2>2, <2>4, <2>6, TextTaken
  <2>8. PrimaryOf(b, y, ret') /\ ret' # NoNode
    BY <2>2, <2>6, <2>7, CallRead
  <2> HIDE DEF y
  <2>9. f.at \in Inner /\ Yields(f) = Yields(TopOf(stack)) /\ Goal(f) = 21 /\ TopOf(stack).at \in Inner
    BY <1>2, <2>1, <2>2, <2>3 DEF Inner, Yields, Goal
  <2>10. Answered(b, f, p, read', ret', ahead')
    <3>1. Waits(b, f, <<>>)
      BY <1>4, <2>1 DEF Waits, Bases
    <3>2. read' = (p \o <<>>) \o y
      BY <1>4, <2>4, <2>7
    <3>3. AtLevel(b, Goal(f), y, ret')
      BY <2>8, <2>9 DEF AtLevel
    <3>4. Settled(f, ahead')
      BY <2>1 DEF Settled
    <3> QED
      BY <2>1, <2>8, <3>1, <3>2, <3>3, <3>4 DEF Answered
  <2>11. Doing(b, f, p, read', ret', ahead')
    BY <2>10 DEF Doing
  <2>12. Parsing(b, Append(Under(stack), f), read', ret', ahead')
    BY <2>4, <2>9, <2>11, FrameAnswers
  <2> QED
    BY <1>1, <1>2, <2>2, <2>3, <2>12
<1>12. ASSUME stack # <<>>, Top.at = "operator"
       PROVE  \E p, y : /\ ChainTo(b, stack, p) /\ p \in Seq(Tokens) /\ y \in Seq(Tokens)
                        /\ read = p \o y
                        /\ Lefthand # NoNode /\ Top.min \in {0, 11, 21}
                        /\ AtLevel(b, Top.min, y, Lefthand)
                        /\ ahead # <<>> /\ IsBinop(ahead[1].type)
                              => AtLevel(b, Precedence(ahead[1].type), y, Lefthand)
  <2>1. Top.at \in Inner
    BY <1>12 DEF Inner
  <2>2. PICK p : ChainTo(b, stack, p) /\ p \in Seq(Tokens) /\ Doing(b, Top, p, read, ret, ahead)
    BY <1>2, <1>12, <2>1
  <2>3. Answered(b, Top, p, read, ret, ahead)
    BY <1>12, <2>2 DEF Doing
  <2>4. PICK w, s : /\ w \in Seq(Tokens) /\ s \in Seq(Tokens) /\ w \o s \in Seq(Tokens)
                    /\ read = p \o (w \o s)
                    /\ Waits(b, Top, w) /\ AtLevel(b, Goal(Top), s, ret)
    <3>1. \E w, s : Parts(b, Top, p, read, ret, w, s)
        BY <2>2, <2>3, AnsweredText
    <3> QED
      BY <3>1 DEF Parts
  <2>5. ret # NoNode /\ Settled(Top, ahead)
    BY <2>3 DEF Answered
  <2>6. /\ Lefthand # NoNode /\ Top.min \in {0, 11, 21}
        /\ AtLevel(b, Top.min, w \o s, Lefthand)
        /\ \A type : IsBinop(type) /\ (Top.left # NoNode /\ Top.op \in {"Plus", "Minus"} =>
                                          type \notin {"Mul", "Div"})
               => AtLevel(b, Precedence(type), w \o s, Lefthand)
    BY <1>12, <2>4, <2>5, LefthandRead
  <2>7. ahead # <<>> /\ IsBinop(ahead[1].type)
            => AtLevel(b, Precedence(ahead[1].type), w \o s, Lefthand)
    BY <1>12, <2>5, <2>6 DEF Settled
  <2> QED
    BY <2>2, <2>4, <2>6, <2>7
<1>13. CASE Operator
  <2> DEFINE f == [at |-> "operator", min |-> Top.min, left |-> Lefthand, op |-> NextType]
  <2>1. f.at = "operator" /\ f.min = Top.min /\ f.left = Lefthand /\ f.op = NextType
    OBVIOUS
  <2>2. /\ stack # <<>> /\ Top.at = "operator" /\ Ready /\ Binds /\ Take
        /\ stack' = Append(Below, f) \o Expression(Precedence(NextType) + 1) /\ UNCHANGED vars
    BY <1>13 DEF Operator
  <2> HIDE DEF f
  <2>3. Top.at \in Inner
    BY <2>2 DEF Inner
  <2>4. PICK p, y : /\ ChainTo(b, stack, p) /\ p \in Seq(Tokens) /\ y \in Seq(Tokens)
                    /\ read = p \o y
                    /\ Lefthand # NoNode /\ Top.min \in {0, 11, 21}
                    /\ AtLevel(b, Top.min, y, Lefthand)
                    /\ ahead # <<>> /\ IsBinop(ahead[1].type)
                          => AtLevel(b, Precedence(ahead[1].type), y, Lefthand)
    BY <1>12, <2>2
  <2> DEFINE x == Append(y, ahead[1])
             min == Precedence(NextType) + 1
  <2>5. /\ IsBinop(NextType) /\ Precedence(NextType) >= Top.min /\ NextType # "EndOfFile"
        /\ ahead # <<>> /\ ahead[1].type = NextType /\ min \in {0, 11, 21}
    <3>1. IsBinop(NextType) /\ Precedence(NextType) >= Top.min /\ ahead # <<>> /\ ahead[1].type = NextType
      BY <2>2, ReadyToken DEF Binds
    <3> QED
      BY <3>1 DEF IsBinop, Precedence
  <2>6. ahead[1] \in Tokens /\ read' = p \o x /\ x \in Seq(Tokens)
    BY <2>2, <2>4, <2>5, TextTaken
  <2>7. Operand(b, f, x)
    BY <2>1, <2>4, <2>5, <2>6 DEF Operand
  <2>8. Waits(b, f, x)
    BY <2>1, <2>4, <2>6, <2>7 DEF Waits, Bases
  <2> HIDE DEF x
  <2>9. f.at \in Inner /\ Yields(f) = Yields(TopOf(stack)) /\ TopOf(stack).at \in Inner /\ f.at # "primary"
    BY <1>2, <2>1, <2>2, <2>3 DEF Inner, Yields
  <2>10. Goal(f) = min
    BY <2>1, <2>4 DEF Goal
  <2> HIDE DEF min
  <2>11. Parsing(b, Append(Under(stack), f) \o Expression(min), read', ret', ahead')
    BY <2>4, <2>5, <2>6, <2>8, <2>9, <2>10, FrameCalls
  <2> QED
    BY <1>1, <1>2, <2>2, <2>3, <2>11 DEF min
<1>14. CASE EndExpression
  <2>1. /\ stack # <<>> /\ Top.at = "operator" /\ Ready /\ ~Binds
        /\ stack' = Below /\ UNCHANGED vars /\ ret' = Lefthand /\ read' = read /\ ahead' = ahead
    BY <1>14 DEF EndExpression, Return
  <2>2. Top.at \in Inner
    BY <2>1 DEF Inner
  <2>3. PICK p, y : /\ ChainTo(b, stack, p) /\ p \in Seq(Tokens) /\ y \in Seq(Tokens)
                    /\ read = p \o y
                    /\ Lefthand # NoNode /\ Top.min \in {0, 11, 21}
                    /\ AtLevel(b, Top.min, y, Lefthand)
    BY <1>12, <2>1
  <2>4. Yields(TopOf(stack)) = Top.min /\ TopOf(stack).at \in Inner
    BY <1>2, <2>1, <2>2 DEF Yields
  <2>5. Yields(TopOf(stack)) = 11 => ahead # <<>> /\ ahead[1].type \notin {"Mul", "Div"}
    <3>1. ahead # <<>> /\ ahead[1].type = NextType
      BY <2>1, ReadyToken
    <3>2. NextType \in {"Mul", "Div"} => IsBinop(NextType) /\ Precedence(NextType) = 20
      BY DEF IsBinop, Precedence
    <3>3. Top.min = 11 => NextType \notin {"Mul", "Div"}
      BY <2>1, <3>2 DEF Binds
    <3> QED
      BY <2>4, <3>1, <3>3
  <2>6. AtLevel(b, Yields(TopOf(stack)), y, Lefthand)
    BY <2>3, <2>4
  <2>7. Parsing(b, Under(stack), read, Lefthand, ahead)
    BY <2>3, <2>4, <2>5, <2>6, TreeReturned
  <2> QED
    BY <1>1, <1>2, <2>1, <2>2, <2>7
<1>15. CASE RefusePrimary \/ RefuseCall \/ RefuseOperands
  BY <1>3, <1>15 DEF RefusePrimary, RefuseCall, RefuseOperands
<1> QED
  BY <1>5, <1>6, <1>7, <1>8, <1>9, <1>10, <1>11, <1>13, <1>14, <1>15 DEF Expressions

\* Below a frame that is not called within an expression, none is parsed.
LEMMA IdleBelow ==
    ASSUME StackOK(stack), TextOK, stack # <<>>, Top.at \notin Inner
    PROVE  /\ Idle(Below) /\ \E S : Below \in Seq(S)
           /\ ~Busy(Top) => Idle(stack)
<1>1. /\ StackOK(Below) /\ Len(Below) = Len(stack) - 1
      /\ \E S : Below \in Seq(S)
  BY PopKeepsStack DEF Below, StackOK
<1>2. PICK S : stack \in Seq(S)
  BY DEF StackOK
<1>3. Len(stack) \in Nat /\ Len(stack) > 0 /\ Top = stack[Len(stack)]
  BY <1>2 DEF Top
<1>4. \A k \in 1 .. Len(Below) : k \in 1 .. Len(stack) - 1 /\ Below[k] = stack[k]
  <2>1. PICK n \in Nat : n = Len(stack) - 1
    BY <1>3
  <2>2. \A k \in 1 .. n : stack[k] \in S
    BY <1>2, <1>3, <2>1
  <2>3. 1 \in Int /\ n \in Int
    BY <2>1
  <2>4. \A k \in 1 .. n - 1 + 1 : SubSeq(stack, 1, n)[k] = stack[1 + k - 1]
    BY ONLY <2>2, <2>3, SubSeqProperties
  <2>5. Len(Below) = n /\ Below = SubSeq(stack, 1, n)
    BY <1>1, <2>1 DEF Below
  <2> QED
    BY <2>1, <2>4, <2>5
<1>5. CASE Idle(stack)
  BY <1>1, <1>3, <1>4, <1>5 DEF Idle
<1>6. CASE ~Idle(stack)
  <2>1. /\ Busy(TopOf(stack))
        /\ \E p : ChainTo(VisibleSymbols, stack, p)
    BY <1>6 DEF TextOK, Parsing
  <2>2. PICK pre : Chain(VisibleSymbols, stack, pre)
    BY <2>1 DEF ChainTo
  <2>3. Len(stack) \in 1 .. Len(stack)
    BY <1>3
  <2>4. \A j \in 1 .. Len(stack) - 1 : ~Busy(stack[j])
    BY <1>3, <2>2, <2>3 DEF Chain
  <2> QED
    BY <1>1, <1>3, <1>4, <2>1, <2>4 DEF Idle, TopOf
<1> QED
  BY <1>5, <1>6

\* Outside of expressions, the functions call each other.
LEMMA IdleMoves ==
    ASSUME NEW st, \E S : st \in Seq(S), Idle(st), NEW f
    PROVE  /\ ~Busy(f) => Idle(Append(st, f)) /\ Idle(st \o <<f>>)
           /\ st \o (<<f>> \o Expression(0)) = Append(st, f) \o Expression(0)
<1>1. PICK S : st \in Seq(S)
  OBVIOUS
<1> DEFINE T == S \union {f}
           new == Append(st, f)
<1>2. st \in Seq(T) /\ f \in T
  BY <1>1
<1> HIDE DEF T
<1>3. /\ Len(new) = Len(st) + 1 /\ Len(st) \in Nat
      /\ new[Len(st) + 1] = f
      /\ \A k \in 1 .. Len(st) : new[k] = st[k]
  BY <1>2, AppendProperties
<1>4. st \o <<f>> = new
  BY <1>2, AppendIsConcat
<1>5. ~Busy(f) => Idle(new)
  <2> HIDE DEF new
  <2>1. \A k \in 1 .. Len(new) : k \in 1 .. Len(st) \/ k = Len(st) + 1
    BY <1>3
  <2> QED
    BY <1>3, <2>1 DEF Idle
<1>6. st \o (<<f>> \o Expression(0)) = Append(st, f) \o Expression(0)
  <2> DEFINE e == Expression(0)
             one == <<f>>
  <2>1. PICK U : e \in Seq(U)
    BY PlainExpression DEF Plain
  <2> HIDE DEF e
  <2> DEFINE V == T \union U
  <2>2. st \in Seq(V) /\ e \in Seq(V) /\ one \in Seq(V)
    BY <1>2, <2>1
  <2> HIDE DEF V, one
  <2>3. (st \o one) \o e = st \o (one \o e)
    BY <2>2, ConcatAssociative
  <2> QED
    BY <1>4, <2>3 DEF one, e
<1> QED
  BY <1>4, <1>5, <1>6

\* A stack that parses no expression owes nothing to the text.
LEMMA IdleIsText == Idle(stack') => TextOK'
BY DEF TextOK, Parsing

\* An empty stack is idle.
LEMMA NoFrame == Idle(<<>>) /\ \E S : <<>> \in Seq(S)
<1>1. <<>> \in Seq({})
  OBVIOUS
<1> QED
  BY <1>1 DEF Idle

\* The functions that parse declarations and functions keep the text.
LEMMA DeclarationsKeepText ==
    ASSUME StackOK(stack), TextOK, Declarations
    PROVE  TextOK'
<1> USE DEF At
<1>1. ASSUME stack # <<>>, Top.at \notin Inner, NEW f, ~Busy(f), Goto(f) PROVE TextOK'
  <2>1. Idle(Append(Below, f))
    BY <1>1, IdleBelow, IdleMoves
  <2> QED
    BY <1>1, <2>1, IdleIsText DEF Goto
<1>2. ASSUME stack # <<>>, Top.at \notin Inner, NEW node, Finish(node) PROVE TextOK'
  BY <1>2, IdleBelow, IdleIsText DEF Finish
<1>3. CASE DeclaredType
  <2> DEFINE f == [at |-> "variableName", type |-> ahead[1].text]
  <2>1. ~Busy(f)
    BY DEF Busy, Bases, Inner
  <2> HIDE DEF f
  <2> QED
    BY <1>1, <1>3, <2>1 DEF DeclaredType, f, Inner
<1>4. CASE DeclareVariable
  <2> DEFINE f == [at |-> "initialiser", name |-> ahead[1].text]
  <2>1. ~Busy(f)
    BY DEF Busy, Bases, Inner
  <2> HIDE DEF f
  <2> QED
    BY <1>1, <1>4, <2>1 DEF DeclareVariable, f, Inner
<1>5. CASE Initialiser
  <2> DEFINE f == [at |-> "declared", name |-> Top.name]
  <2>1. f.at \in Bases
    BY DEF Bases
  <2>2. /\ stack # <<>> /\ Top.at = "initialiser"
        /\ stack' = Append(Below, f) \o Expression(0) /\ read' = <<>>
    BY <1>5 DEF Initialiser, GotoExpression
  <2> HIDE DEF f
  <2>3. Idle(Below) /\ \E S : Below \in Seq(S)
    BY <2>2, IdleBelow DEF Inner
  <2> QED
    BY <2>1, <2>2, <2>3, ExpressionBegun DEF TextOK
<1>6. CASE EndDeclaration
  BY <1>2, <1>6 DEF EndDeclaration, Inner
<1>7. CASE RefuseName
  BY <1>7, NoFrame, IdleIsText DEF RefuseName, GiveUp
<1>8. CASE ReturnType
  <2> DEFINE f == [at |-> "functionName", type |-> ahead[1].text]
  <2>1. ~Busy(f)
    BY DEF Busy, Bases, Inner
  <2> HIDE DEF f
  <2> QED
    BY <1>1, <1>8, <2>1 DEF ReturnType, f, Inner
<1>9. CASE DeclareFunction
  <2> DEFINE f == [at |-> "functionOpen", node |-> <<"FN_DEF", NewSymbol(ahead[1].text), <<>>>>]
  <2>1. ~Busy(f)
    BY DEF Busy, Bases, Inner
  <2> HIDE DEF f
  <2> QED
    BY <1>1, <1>9, <2>1 DEF DeclareFunction, f, Inner
<1>10. CASE OpenParameters
  <2> DEFINE f == [at |-> "parameters", node |-> Top.node]
  <2>1. ~Busy(f)
    BY DEF Busy, Bases, Inner
  <2> HIDE DEF f
  <2> QED
    BY <1>1, <1>10, <2>1 DEF OpenParameters, f, Inner
<1>11. CASE ParameterType
  <2> DEFINE f == [at |-> "parameterName", type |-> ahead[1].text, node |-> Top.node]
  <2>1. ~Busy(f)
    BY DEF Busy, Bases, Inner
  <2> HIDE DEF f
  <2> QED
    BY <1>1, <1>11, <2>1 DEF ParameterType, f, Inner
<1>12. CASE DeclareParameter
  <2> DEFINE f == [at |-> "parametersEnd",
                   node |-> <<"FN_DEF", Top.node[2],
                              Append(Top.node[3], NewSymbol(ahead[1].text))>>]
  <2>1. ~Busy(f)
    BY DEF Busy, Bases, Inner
  <2> HIDE DEF f
  <2> QED
    BY <1>1, <1>12, <2>1 DEF DeclareParameter, f, Inner
<1>13. CASE CloseParameters
  <2> DEFINE f == [at |-> "block", node |-> Top.node]
  <2>1. ~Busy(f)
    BY DEF Busy, Bases, Inner
  <2> HIDE DEF f
  <2> QED
    BY <1>1, <1>13, <2>1 DEF CloseParameters, f, Inner
<1>14. CASE BeginBlock
  <2> DEFINE f == [at |-> "body", node |-> Top.node]
  <2>1. ~Busy(f)
    BY DEF Busy, Bases, Inner
  <2> HIDE DEF f
  <2> QED
    BY <1>1, <1>14, <2>1 DEF BeginBlock, f, Inner
<1>15. CASE EndBlock
  BY <1>2, <1>15 DEF EndBlock, Inner
<1> QED
  BY <1>3, <1>4, <1>5, <1>6, <1>7, <1>8, <1>9, <1>10, <1>11, <1>12, <1>13, <1>14, <1>15
  DEF Declarations

\* The functions that parse statements and bodies keep the text.
LEMMA StatementsKeepText ==
    ASSUME StackOK(stack), TextOK, Statements
    PROVE  TextOK'
<1> USE DEF At
<1>1. ASSUME stack = <<>> \/ ~Busy(Top) PROVE Idle(stack) /\ \E S : stack \in Seq(S)
  <2>1. \E S : stack \in Seq(S)
    BY DEF StackOK
  <2>2. CASE stack = <<>>
    BY <2>1, <2>2, NoFrame
  <2>3. CASE stack # <<>>
    BY <1>1, <2>1, <2>3, IdleBelow DEF Busy
  <2> QED
    BY <2>2, <2>3
<1>2. ASSUME stack = <<>> \/ ~Busy(Top), NEW f, ~Busy(f), Call(<<f>>) PROVE TextOK'
  <2>1. Idle(stack \o <<f>>)
    BY <1>1, <1>2, IdleMoves
  <2> QED
    BY <1>2, <2>1, IdleIsText DEF Call
<1>3. ASSUME stack = <<>> \/ ~Busy(Top), NEW f, f.at \in Bases, read' = <<>>,
             Call(<<f>> \o Expression(0))
      PROVE  TextOK'
  <2>1. Idle(stack) /\ \E S : stack \in Seq(S)
    BY <1>1, <1>3
  <2>2. stack' = Append(stack, f) \o Expression(0)
    BY <1>3, <2>1, IdleMoves DEF Call
  <2> QED
    BY <1>3, <2>1, <2>2, ExpressionBegun DEF TextOK
<1>4. ASSUME stack # <<>>, Top.at \notin Inner, NEW node, Finish(node) PROVE TextOK'
  BY <1>4, IdleBelow, IdleIsText DEF Finish
<1>5. stack # <<>> /\ Top.at = "body" => ~Busy(Top)
  BY DEF Busy, Bases, Inner
<1>6. CASE BeginReturn
  <2> DEFINE f == [at |-> "returnValue"]
  <2>1. ~Busy(f)
    BY DEF Busy, Bases, Inner
  <2> HIDE DEF f
  <2> QED
    BY <1>2, <1>5, <1>6, <2>1 DEF BeginReturn, f
<1>7. CASE ReturnValue
  <2> DEFINE f == [at |-> "returned"]
  <2>1. f.at \in Bases
    BY DEF Bases
  <2>2. /\ stack # <<>> /\ Top.at = "returnValue"
        /\ stack' = Append(Below, f) \o Expression(0) /\ read' = <<>>
    BY <1>7 DEF ReturnValue, GotoExpression
  <2> HIDE DEF f
  <2>3. Idle(Below) /\ \E S : Below \in Seq(S)
    BY <2>2, IdleBelow DEF Inner
  <2> QED
    BY <2>1, <2>2, <2>3, ExpressionBegun DEF TextOK
<1>8. CASE EndReturn
  <2>1. stack # <<>> /\ Top.at \notin Inner /\ Finish(<<"FN_RET", ret>>)
    BY <1>8 DEF EndReturn, Inner
  <2> QED
    BY <1>4, <2>1
<1>9. CASE LocalDeclaration \/ GlobalDeclaration
  <2> DEFINE f == [at |-> "variable"]
  <2>1. ~Busy(f)
    BY DEF Busy, Bases, Inner
  <2> HIDE DEF f
  <2> QED
    BY <1>2, <1>5, <1>9, <2>1 DEF LocalDeclaration, GlobalDeclaration, f
<1>10. CASE Assignment
  <2> DEFINE f == [at |-> "assigned", target |-> Lookup(ahead[1].text)]
  <2>1. f.at \in Bases
    BY DEF Bases
  <2> HIDE DEF f
  <2> QED
    BY <1>3, <1>5, <1>10, <2>1 DEF Assignment, IsAssignment, f
<1>11. CASE RefuseAssignment
  BY <1>11, NoFrame, IdleIsText DEF RefuseAssignment, Refuse, GiveUp
<1>12. CASE EndAssignment
  <2>1. stack # <<>> /\ Top.at \notin Inner
        /\ Finish(<<"ASSIGNMENT", Top.target, ret, IF ret[1] = "FN_CALL" THEN "to target" ELSE "">>)
    BY <1>12 DEF EndAssignment, Inner
  <2> QED
    BY <1>4, <2>1
<1>13. CASE ExpressionStatement
  <2> DEFINE f == [at |-> "statement"]
  <2>1. f.at \in Bases
    BY DEF Bases
  <2> HIDE DEF f
  <2> QED
    BY <1>3, <1>5, <1>13, <2>1 DEF ExpressionStatement, f
<1>14. CASE EndStatement
  BY <1>4, <1>14 DEF EndStatement, Inner
<1>15. CASE GlobalFunction
  <2> DEFINE f == [at |-> "functionType"]
  <2>1. ~Busy(f)
    BY DEF Busy, Bases, Inner
  <2> HIDE DEF f
  <2> QED
    BY <1>2, <1>15, <2>1 DEF GlobalFunction, f
<1>16. CASE EndParse
  BY <1>16, NoFrame, IdleIsText DEF EndParse
<1> QED
  BY <1>6, <1>7, <1>8, <1>9, <1>10, <1>11, <1>12, <1>13, <1>14, <1>15, <1>16 DEF Statements

\* A token more is looked at: what is known of the first one stays true.
LEMMA SupplyKeepsText ==
    ASSUME TokensOK, TextOK, Supply
    PROVE  TextOK'
<1> DEFINE b == VisibleSymbols
<1>1. PICK t \in AnyToken : ahead' = Append(ahead, t)
  BY DEF Supply, Upcoming, AnyToken
<1>2. UNCHANGED vars /\ stack' = stack /\ read' = read /\ ret' = ret
  BY DEF Supply
<1>3. ahead # <<>> => ahead' # <<>> /\ ahead'[1] = ahead[1]
  BY <1>1 DEF TokensOK
<1>4. \A f : Settled(f, ahead) => Settled(f, ahead')
  BY <1>3 DEF Settled
<1>5. \A f, p : Doing(b, f, p, read, ret, ahead) => Doing(b, f, p, read, ret, ahead')
  BY <1>4 DEF Doing, Answered
<1>6. Parsing(b, stack, read, ret, ahead')
  BY <1>5 DEF TextOK, Parsing
<1> QED
  BY <1>2, <1>6, SameSymbols DEF TextOK

\* The frames of an expression hold the trees of the text that they have read.
LEMMA TextInductive == ParserSpec => []TextOK
<1>1. ParserInit => TextOK
  BY NoFrame DEF ParserInit, TextOK, Parsing
<1>2. TokensOK /\ StackOK(stack) /\ TextOK /\ [ParserNext]_pvars => TextOK'
  <2> SUFFICES ASSUME TokensOK, StackOK(stack), TextOK, [ParserNext]_pvars PROVE TextOK'
    OBVIOUS
  <2>1. CASE UNCHANGED pvars
    <3>1. UNCHANGED vars /\ stack' = stack /\ read' = read /\ ret' = ret /\ ahead' = ahead
      BY <2>1 DEF pvars, parserVars
    <3> QED
      BY <3>1, SameSymbols DEF TextOK
  <2>2. CASE RefuseToken
    BY <2>2, NoFrame, IdleIsText DEF RefuseToken, Refuse, GiveUp
  <2> QED
    BY <2>1, <2>2, ExpressionsKeepText, DeclarationsKeepText, StatementsKeepText, SupplyKeepsText
    DEF ParserNext
<1> QED
  BY <1>1, <1>2, TokensInductive, StackInductive, PTL DEF ParserSpec, pvars

\* What an outermost expression has returned is a tree of all its tokens.
LEMMA TreeOfText ==
    ASSUME TokensOK, StackOK(stack), TextOK, stack # <<>>, Top.at \in Bases
    PROVE  ret \in Trees(VisibleSymbols, read)
<1> DEFINE b == VisibleSymbols
<1>1. Busy(Top)
  BY DEF Busy
<1>2. PICK p : ChainTo(b, stack, p) /\ Doing(b, Top, p, read, ret, ahead)
  BY <1>1, BusyTop
<1>3. p = <<>>
  <2>1. PICK pre : Chain(b, stack, pre) /\ pre[Len(stack)] = p
    BY <1>2 DEF ChainTo
  <2>2. Len(stack) \in 1 .. Len(stack)
    BY DEF StackOK
  <2> QED
    BY <2>1, <2>2 DEF Chain, Top
<1>4. Answered(b, Top, p, read, ret, ahead)
  BY <1>2 DEF Doing, Bases
<1>5. PICK w, s : read = (p \o w) \o s /\ Waits(b, Top, w) /\ AtLevel(b, Goal(Top), s, ret)
  BY <1>4 DEF Answered
<1>6. w = <<>> /\ SumOf(b, s, ret) /\ s \in Seq(Tokens)
  BY <1>5, LevelText DEF Waits, Goal, Bases, AtLevel
<1>7. (<<>> \o <<>>) \o s = s
  <2>1. <<>> \o <<>> = <<>>
    OBVIOUS
  <2> QED
    BY <1>6, <2>1, ConcatEmptySeq
<1>8. read = s
  BY <1>3, <1>5, <1>6, <1>7
<1>9. Len(s) \in Nat /\ Len(s) >= Len(s)
  BY <1>6
<1> QED
  BY <1>6, <1>8, <1>9 DEF SumOf, Trees

(***************************************************************************)
(* The grammar is unambiguous.  What tells the readings of a text apart is *)
(* how many parentheses are open behind each of its tokens.                *)
(***************************************************************************)
Turn(t) == IF t.type = "LParen" THEN 1 ELSE IF t.type = "RParen" THEN -1 ELSE 0

IsDepth(s, d, n) ==
    /\ d[0] = 0
    /\ \A i \in Nat : i < n => d[i + 1] = d[i] + Turn(s[i + 1])

\* The parentheses that are open behind the first tokens of a text.
Depth(s) == CHOOSE d : d \in [Nat -> Int] /\ \A n \in Nat : IsDepth(s, d, n)

\* A token opens one, closes one, or neither.
LEMMA TurnType == \A t : Turn(t) \in Int
BY DEF Turn

\* The second text is a part of the first, of n tokens, behind the token at a.
IsPart(s, x, d, e, a, n) ==
    /\ a \in Nat /\ n \in Nat
    /\ \A i \in Nat : d[i] \in Int
    /\ IsDepth(s, d, a + n)
    /\ IsDepth(x, e, n)
    /\ \A i \in 1 .. n : x[i] = s[a + i]

\* Where two texts have the same tokens, their depths differ by what was open before.
LEMMA DepthShift ==
    ASSUME NEW s, NEW x, NEW d, NEW e, NEW a, NEW n, IsPart(s, x, d, e, a, n)
    PROVE  \A i \in 0 .. n : e[i] = d[a + i] - d[a]
<1>0. /\ a \in Nat /\ n \in Nat
      /\ \A i \in Nat : d[i] \in Int
      /\ IsDepth(s, d, a + n)
      /\ IsDepth(x, e, n)
      /\ \A i \in 1 .. n : x[i] = s[a + i]
  BY DEF IsPart
<1> DEFINE T == {i \in Nat : i <= n => e[i] = d[a + i] - d[a]}
<1>1. 0 \in T
  <2>1. a + 0 = a /\ d[a] \in Int /\ e[0] = 0
    BY <1>0 DEF IsDepth
  <2> QED
    BY <2>1
<1>2. ASSUME NEW i \in T PROVE i + 1 \in T
  <2>1. SUFFICES ASSUME i + 1 <= n PROVE e[i + 1] = d[a + (i + 1)] - d[a]
    OBVIOUS
  <2>2. i \in Nat /\ i < n /\ i <= n /\ a + i \in Nat /\ a + i < a + n /\ (a + i) + 1 = a + (i + 1)
        /\ i + 1 \in 1 .. n
    BY <1>0, <2>1
  <2>3. e[i] = d[a + i] - d[a]
    BY <2>2
  <2>4. e[i + 1] = e[i] + Turn(x[i + 1])
    BY <1>0, <2>2 DEF IsDepth
  <2>5. d[a + (i + 1)] = d[a + i] + Turn(s[a + (i + 1)])
    <3>1. d[(a + i) + 1] = d[a + i] + Turn(s[(a + i) + 1])
      BY <1>0, <2>2 DEF IsDepth
    <3> QED
      BY <2>2, <3>1
  <2>6. x[i + 1] = s[a + (i + 1)]
    BY <1>0, <2>2
  <2>7. Turn(x[i + 1]) \in Int /\ d[a + i] \in Int /\ d[a] \in Int
    BY <1>0, <2>2, TurnType
  <2> HIDE DEF T
  <2> QED
    BY <2>3, <2>4, <2>5, <2>6, <2>7
<1> HIDE DEF T
<1>3. T = Nat
  <2>1. T \in SUBSET Nat
    BY DEF T
  <2> QED
    BY <1>1, <1>2, <2>1, AllNaturals
<1> QED
  BY <1>0, <1>3 DEF T

\* There is a depth up to any token.
LEMMA DepthExists ==
    ASSUME NEW s
    PROVE  \A n \in Nat : \E d : (\A i \in Nat : d[i] \in Int) /\ IsDepth(s, d, n)
<1> DEFINE T == {n \in Nat : \E d : (\A i \in Nat : d[i] \in Int) /\ IsDepth(s, d, n)}
<1>1. 0 \in T
  <2>1. IsDepth(s, [i \in Nat |-> 0], 0) /\ \A i \in Nat : [j \in Nat |-> 0][i] \in Int
    BY DEF IsDepth
  <2> QED
    BY <2>1
<1>2. ASSUME NEW n \in T PROVE n + 1 \in T
  <2>1. PICK d : (\A i \in Nat : d[i] \in Int) /\ IsDepth(s, d, n)
    OBVIOUS
  <2> DEFINE e == [i \in Nat |-> IF i = n + 1 THEN d[n] + Turn(s[n + 1]) ELSE d[i]]
  <2>2. n \in Nat /\ Turn(s[n + 1]) \in Int
    BY TurnType
  <2>3. \A i \in Nat : e[i] \in Int
    BY <2>1, <2>2
  <2>4. e[0] = 0
    BY <2>1, <2>2 DEF IsDepth
  <2>5. ASSUME NEW i \in Nat, i < n + 1 PROVE e[i + 1] = e[i] + Turn(s[i + 1])
    <3>1. e[i] = d[i]
      BY <2>2, <2>5
    <3>2. CASE i = n
      BY <2>2, <3>1, <3>2
    <3>3. CASE i # n
      <4>1. i < n /\ i + 1 # n + 1
        BY <2>2, <2>5, <3>3
      <4>2. e[i + 1] = d[i + 1]
        BY <4>1
      <4> QED
        BY <2>1, <3>1, <4>1, <4>2 DEF IsDepth
    <3> QED
      BY <3>2, <3>3
  <2> HIDE DEF e
  <2>6. IsDepth(s, e, n + 1)
    BY <2>4, <2>5 DEF IsDepth
  <2> QED
    BY <2>2, <2>3, <2>6
<1> HIDE DEF T
<1>3. T = Nat
  <2>1. T \in SUBSET Nat
    BY DEF T
  <2> QED
    BY <1>1, <1>2, <2>1, AllNaturals
<1> QED
  BY <1>3 DEF T

\* Depth is one up to every token.
LEMMA DepthDef ==
    ASSUME NEW s
    PROVE  /\ Depth(s) \in [Nat -> Int]
           /\ \A n \in Nat : IsDepth(s, Depth(s), n)
<1> DEFINE g(n) == CHOOSE d : (\A i \in Nat : d[i] \in Int) /\ IsDepth(s, d, n)
           F == [k \in Nat |-> g(k)[k]]
<1>1. \A n \in Nat : (\A i \in Nat : g(n)[i] \in Int) /\ IsDepth(s, g(n), n)
  BY DepthExists
<1> HIDE DEF g
<1>2. F \in [Nat -> Int]
  BY <1>1
<1>3. F[0] = 0
  BY <1>1 DEF IsDepth
<1>4. ASSUME NEW i \in Nat PROVE F[i + 1] = F[i] + Turn(s[i + 1])
  <2>1. /\ i + 1 \in Nat /\ i < i + 1 /\ 0 + i = i /\ 0 \in Nat /\ i \in 0 .. i /\ i = 0 + i
        /\ \A j \in 0 .. i : 0 + j = j
    OBVIOUS
  <2>2. g(i + 1)[i + 1] = g(i + 1)[i] + Turn(s[i + 1])
    BY <1>1, <2>1 DEF IsDepth
  <2>3. g(i)[i] = g(i + 1)[i]
    <3>1. ASSUME NEW p, NEW q, NEW z, z = 0, IsDepth(s, p, i), IsDepth(s, q, i),
                 \A j \in Nat : p[j] \in Int
          PROVE  p[i] = q[i]
      <4>1. IsPart(s, s, p, q, z, i)
        BY <3>1 DEF IsPart
      <4>2. p[z] = 0 /\ p[i] \in Int
        BY <3>1 DEF IsDepth
      <4>3. \A j \in 0 .. i : q[j] = p[z + j] - p[z]
        BY <4>1, DepthShift
      <4>4. q[i] = p[z + i] - p[z]
        BY <2>1, <4>3
      <4> QED
        BY <3>1, <4>2, <4>4
    <3>2. IsDepth(s, g(i + 1), i) /\ IsDepth(s, g(i), i) /\ \A j \in Nat : g(i + 1)[j] \in Int
      BY <1>1, <2>1 DEF IsDepth
    <3> QED
      BY <3>1, <3>2
  <2> QED
    BY <2>1, <2>2, <2>3
<1> HIDE DEF F
<1>5. \A n \in Nat : IsDepth(s, F, n)
  BY <1>3, <1>4 DEF IsDepth
<1> QED
  BY <1>2, <1>5 DEF Depth

\* A text begins outside of all parentheses, and every token turns by one at most.
LEMMA DepthFacts ==
    ASSUME NEW s
    PROVE  /\ Depth(s)[0] = 0
           /\ \A i \in Nat : Depth(s)[i] \in Int
           /\ \A i \in Nat : Depth(s)[i + 1] = Depth(s)[i] + Turn(s[i + 1])
<1>1. \A i \in Nat : i < i + 1 /\ i + 1 \in Nat
  OBVIOUS
<1>2. \A i \in Nat : IsDepth(s, Depth(s), i + 1)
  BY <1>1, DepthDef
<1>3. IsDepth(s, Depth(s), 0)
  BY DepthDef
<1> QED
  BY <1>1, <1>2, <1>3, DepthDef DEF IsDepth

IsText(s, a, z, x) ==
    /\ s \in Seq(Tokens) /\ a \in Nat /\ z \in Nat /\ a <= z /\ z <= Len(s)
    /\ x = SubSeq(s, a + 1, z)

\* A part of a text: its tokens, and what is open behind them.
LEMMA PartOf ==
    ASSUME NEW s, NEW a, NEW z, NEW x, IsText(s, a, z, x)
    PROVE  /\ x \in Seq(Tokens)
           /\ Len(x) = z - a
           /\ \A i \in 1 .. z - a : x[i] = s[a + i]
           /\ \A i \in 0 .. z - a : Depth(x)[i] = Depth(s)[a + i] - Depth(s)[a]
<1> DEFINE b == a + 1
<1>0. /\ s \in Seq(Tokens) /\ a \in Nat /\ z \in Nat /\ a <= z /\ z <= Len(s)
      /\ x = SubSeq(s, b, z)
  BY DEF IsText
<1>1. b \in Int /\ z \in Int /\ Len(s) \in Nat /\ 1 <= b /\ z - b + 1 = z - a /\ (b <= z <=> z - a # 0)
      /\ \A i \in Int : b + i - 1 = a + i
  BY <1>0
<1>2. \A i \in b .. z : s[i] \in Tokens
  BY <1>0, <1>1
<1> HIDE DEF b
<1>3. /\ SubSeq(s, b, z) \in Seq(Tokens)
      /\ Len(SubSeq(s, b, z)) = IF b <= z THEN z - b + 1 ELSE 0
      /\ \A i \in 1 .. z - b + 1 : SubSeq(s, b, z)[i] = s[b + i - 1]
  <2>1. b \in Int /\ z \in Int
    BY <1>1
  <2> QED
    BY ONLY <1>2, <2>1, SubSeqProperties
<1>4. x = SubSeq(s, b, z)
  BY <1>0
<1>5. x \in Seq(Tokens) /\ Len(x) = z - a /\ \A i \in 1 .. z - a : x[i] = s[a + i]
  BY <1>0, <1>1, <1>3, <1>4
<1>6. z - a \in Nat
  BY <1>0
<1>7. IsPart(s, x, Depth(s), Depth(x), a, z - a)
  <2>1. a + (z - a) \in Nat
    BY <1>0
  <2> QED
    BY <1>0, <1>5, <1>6, <2>1, DepthDef, DepthFacts DEF IsPart
<1>8. \A i \in 0 .. z - a : Depth(x)[i] = Depth(s)[a + i] - Depth(s)[a]
  BY <1>7, DepthShift
<1> QED
  BY <1>5, <1>8

(***************************************************************************)
(* A text that has a reading closes what it opens, and nothing else.  The  *)
(* places outside of all parentheses tell its operators.                   *)
(***************************************************************************)
Closed(s) ==
    /\ Len(s) # 0
    /\ Depth(s)[Len(s)] = 0
    /\ \A i \in 0 .. Len(s) : Depth(s)[i] >= 0

Outside(s, types) == {k \in Places(s, types) : Depth(s)[k] = 0}

\* The separators of a text, and what is on either side of one.
Separators == {"Plus", "Minus", "Mul", "Div", "Comma"}

Separated(s, l, r, k) ==
    /\ s \in Seq(Tokens)
    /\ k \in Places(s, Separators)
    /\ l = SubSeq(s, 1, k - 1)
    /\ r = SubSeq(s, k + 1, Len(s))

\* Two closed texts with a separator between them: a closed text, with that separator,
\* and those of the two, outside of its parentheses.
LEMMA SeparatedText ==
    ASSUME NEW s, NEW l, NEW r, NEW k, Separated(s, l, r, k), Closed(l), Closed(r)
    PROVE  /\ Closed(s)
           /\ k \in Outside(s, Separators)
           /\ \A j \in DOMAIN s : Depth(s)[j] = 0 =>
                 /\ j < k => j \in DOMAIN l /\ l[j] = s[j] /\ Depth(l)[j] = 0
                 /\ j > k => \E i \in DOMAIN r : r[i] = s[j] /\ Depth(r)[i] = 0
<1> DEFINE n == Len(s)
           D == Depth(s)
<1>1. /\ s \in Seq(Tokens) /\ n \in Nat /\ k \in 1 .. n /\ k - 1 \in Nat /\ n - k \in Nat
      /\ (k - 1) + 1 = k /\ s[k].type \in Separators
  BY DEF Separated, Places
<1>2. /\ l \in Seq(Tokens)
      /\ Len(l) = k - 1
      /\ \A i \in 1 .. k - 1 : l[i] = s[i]
      /\ \A i \in 0 .. k - 1 : Depth(l)[i] = D[i]
  <2>1. IsText(s, 0, k - 1, l)
    BY <1>1 DEF Separated, IsText
  <2>2. /\ l \in Seq(Tokens)
        /\ Len(l) = k - 1 - 0
        /\ \A i \in 1 .. k - 1 - 0 : l[i] = s[0 + i]
        /\ \A i \in 0 .. k - 1 - 0 : Depth(l)[i] = Depth(s)[0 + i] - Depth(s)[0]
    BY <2>1, PartOf
  <2>3. Depth(s)[0] = 0 /\ \A i \in Nat : Depth(s)[i] \in Int
    BY DepthFacts
  <2> QED
    BY <1>1, <2>2, <2>3
<1>3. /\ r \in Seq(Tokens)
      /\ Len(r) = n - k
      /\ \A i \in 1 .. n - k : r[i] = s[k + i]
      /\ \A i \in 0 .. n - k : Depth(r)[i] = D[k + i] - D[k]
  <2>1. IsText(s, k, n, r)
    BY <1>1 DEF Separated, IsText
  <2> QED
    BY <2>1, PartOf
<1>4. D[0] = 0 /\ \A i \in Nat : D[i] \in Int
  BY DepthFacts
<1>5. D[k - 1] = 0
  <2>1. Depth(l)[k - 1] = 0 /\ k - 1 \in 0 .. k - 1
    BY <1>1, <1>2 DEF Closed
  <2> QED
    BY <1>2, <2>1
<1>6. D[k] = 0
  <2>1. D[(k - 1) + 1] = D[k - 1] + Turn(s[(k - 1) + 1])
    BY <1>1, DepthFacts
  <2>2. Turn(s[k]) = 0
    BY <1>1 DEF Turn, Separators
  <2> QED
    BY <1>1, <1>5, <2>1, <2>2
<1> HIDE DEF D, n
<1>7. \A i \in 0 .. n - k : Depth(r)[i] = D[k + i]
  <2>1. ASSUME NEW i \in 0 .. n - k PROVE Depth(r)[i] = D[k + i]
    <3>1. k + i \in Nat
      BY <1>1
    <3>2. D[k + i] \in Int
      BY <1>4, <3>1
    <3> QED
      BY <1>3, <1>6, <3>2
  <2> QED
    BY <2>1
<1>8. k \in Outside(s, Separators)
  BY <1>1, <1>6 DEF Outside, Separated, D
<1>9. Closed(s)
  <2>1. D[n] = 0
    <3>1. n - k \in 0 .. n - k /\ k + (n - k) = n
      BY <1>1
    <3>2. Depth(r)[n - k] = 0
      BY <1>3 DEF Closed
    <3> QED
      BY <1>7, <3>1, <3>2
  <2>2. ASSUME NEW i \in 0 .. n PROVE D[i] >= 0
    <3>1. CASE i <= k - 1
      <4>1. i \in 0 .. k - 1
        BY <1>1, <3>1
      <4>2. Depth(l)[i] >= 0
        BY <1>2, <4>1 DEF Closed
      <4> QED
        BY <1>2, <4>1, <4>2
    <3>2. CASE i >= k
      <4>1. i - k \in 0 .. n - k /\ k + (i - k) = i
        BY <1>1, <3>2
      <4>2. Depth(r)[i - k] >= 0
        BY <1>3, <4>1 DEF Closed
      <4>3. Depth(r)[i - k] = D[k + (i - k)]
        BY <1>7, <4>1
      <4> QED
        BY <4>1, <4>2, <4>3
    <3> QED
      BY <1>1, <3>1, <3>2
  <2> QED
    BY <1>1, <2>1, <2>2 DEF Closed, D, n
<1>10. ASSUME NEW j \in DOMAIN s, D[j] = 0, j < k
       PROVE  j \in DOMAIN l /\ l[j] = s[j] /\ Depth(l)[j] = 0
  <2>1. j \in 1 .. k - 1 /\ j \in 0 .. k - 1
    BY <1>1, <1>10 DEF n
  <2> QED
    BY <1>2, <1>10, <2>1
<1>11. ASSUME NEW j \in DOMAIN s, D[j] = 0, j > k
       PROVE  \E i \in DOMAIN r : r[i] = s[j] /\ Depth(r)[i] = 0
  <2>1. j - k \in 1 .. n - k /\ j - k \in 0 .. n - k /\ k + (j - k) = j
    BY <1>1, <1>11 DEF n
  <2>2. j - k \in DOMAIN r
    BY <1>3, <2>1
  <2>3. r[j - k] = s[k + (j - k)]
    BY <1>3, <2>1
  <2>4. Depth(r)[j - k] = D[k + (j - k)]
    BY <1>7, <2>1
  <2> QED
    BY <1>11, <2>1, <2>2, <2>3, <2>4
<1> QED
  BY <1>8, <1>9, <1>10, <1>11 DEF D

\* An operator is the last of its kind outside of parentheses: there is one such.
LEMMA SeparatedOnce ==
    ASSUME NEW s, NEW types \in SUBSET Separators,
           NEW k \in Places(s, types), NEW l, NEW r, Separated(s, l, r, k), Closed(l), Closed(r),
           Outside(r, types) = {},
           NEW j \in Places(s, types), NEW l2, NEW r2, Separated(s, l2, r2, j), Closed(l2), Closed(r2),
           Outside(r2, types) = {}
    PROVE  k = j
<1>1. ASSUME NEW a, NEW b, NEW x, NEW y, NEW x2, NEW y2,
             a \in Places(s, types), Separated(s, x, y, a), Closed(x), Closed(y),
             Outside(y, types) = {},
             b \in Places(s, types), Separated(s, x2, y2, b), Closed(x2), Closed(y2)
      PROVE  ~(b > a)
  <2>1. b \in DOMAIN s /\ s[b].type \in types
    BY <1>1 DEF Places
  <2>2. Depth(s)[b] = 0
    <3>1. b \in Outside(s, Separators)
      BY <1>1, SeparatedText
    <3> QED
      BY <3>1 DEF Outside
  <2>3. SUFFICES ASSUME b > a PROVE FALSE
    OBVIOUS
  <2>4. PICK i \in DOMAIN y : y[i] = s[b] /\ Depth(y)[i] = 0
    BY <1>1, <2>1, <2>2, <2>3, SeparatedText
  <2>5. i \in Outside(y, types)
    BY <2>1, <2>4 DEF Outside, Places
  <2> QED
    BY <1>1, <2>5
<1>2. ~(k > j) /\ ~(j > k)
  BY <1>1
<1>3. k \in Int /\ j \in Int
  BY DEF Separated, Places
<1> QED
  BY <1>2, <1>3

\* Parentheses that close at the end of a text, what is before and what is between them.
Wrapped(s, c, m, k) ==
    /\ s \in Seq(Tokens)
    /\ k \in Opening(s)
    /\ c = SubSeq(s, 1, k - 1)
    /\ m = SubSeq(s, k + 1, Len(s) - 1)
    /\ k = 1 \/ Closed(c)
    /\ k = Len(s) - 1 \/ Closed(m)

\* A text in parentheses: inside, none of its tokens is outside of all parentheses.
LEMMA WrappedText ==
    ASSUME NEW s, NEW c, NEW m, NEW k, Wrapped(s, c, m, k)
    PROVE  /\ k \in 1 .. Len(s) - 1
           /\ Closed(s)
           /\ Depth(s)[k - 1] = 0
           /\ \A i \in k .. Len(s) - 1 : Depth(s)[i] >= 1
           /\ \A j \in DOMAIN s : Depth(s)[j] = 0 =>
                 j = Len(s) \/ (j \in DOMAIN c /\ c[j] = s[j] /\ Depth(c)[j] = 0)
<1> DEFINE n == Len(s)
           D == Depth(s)
<1>0. /\ s \in Seq(Tokens)
      /\ k \in Opening(s)
  BY DEF Wrapped
<1>16. k # 1 => Closed(c)
  BY DEF Wrapped
<1>17. k # n - 1 => Closed(m)
  BY DEF Wrapped
<1>1. s \in Seq(Tokens) /\ n \in Nat
  BY <1>0
<1>2. k \in 1 .. n /\ s[k].type = "LParen" /\ s[n].type = "RParen"
  <2>1. k \in Places(s, {"LParen"}) /\ s[n].type = "RParen"
    BY <1>0 DEF Opening
  <2>2. k \in DOMAIN s /\ s[k].type = "LParen"
    BY <2>1 DEF Places
  <2> QED
    BY <1>1, <2>1, <2>2
<1>3. k # n
  BY <1>2
<1>4. /\ k \in Nat /\ k \in 1 .. n - 1 /\ k - 1 \in Nat /\ n - 1 \in Nat /\ (n - 1) - k \in Nat
      /\ (k - 1) + 1 = k /\ (n - 1) + 1 = n
  BY <1>1, <1>2, <1>3
<1>5. D[0] = 0 /\ \A i \in Nat : D[i] \in Int
  BY DepthFacts
<1>6. /\ c \in Seq(Tokens)
      /\ Len(c) = k - 1
      /\ \A i \in 1 .. k - 1 : c[i] = s[i]
      /\ \A i \in 0 .. k - 1 : Depth(c)[i] = D[i]
  <2>0. c = SubSeq(s, 0 + 1, k - 1)
    BY DEF Wrapped
  <2>1. IsText(s, 0, k - 1, c)
    <3>1. 0 \in Nat /\ 0 <= k - 1 /\ k - 1 <= Len(s)
      BY <1>1, <1>4
    <3> QED
      BY <1>1, <1>4, <2>0, <3>1 DEF IsText
  <2>2. /\ c \in Seq(Tokens)
        /\ Len(c) = k - 1 - 0
        /\ \A i \in 1 .. k - 1 - 0 : c[i] = s[0 + i]
        /\ \A i \in 0 .. k - 1 - 0 : Depth(c)[i] = Depth(s)[0 + i] - Depth(s)[0]
    BY <2>1, PartOf
  <2> QED
    BY <1>4, <1>5, <2>2
<1>7. /\ m \in Seq(Tokens)
      /\ Len(m) = (n - 1) - k
      /\ \A i \in 0 .. (n - 1) - k : Depth(m)[i] = D[k + i] - D[k]
  <2>0. m = SubSeq(s, k + 1, n - 1)
    BY DEF Wrapped
  <2>1. IsText(s, k, n - 1, m)
    <3>1. k <= n - 1 /\ n - 1 <= Len(s)
      BY <1>1, <1>4
    <3> QED
      BY <1>1, <1>4, <2>0, <3>1 DEF IsText
  <2> QED
    BY <2>1, PartOf
<1>8. D[k - 1] = 0
  <2>1. CASE k = 1
    BY <1>5, <2>1
  <2>2. CASE k # 1
    <3>1. Closed(c) /\ k - 1 \in 0 .. k - 1
      BY <1>16, <1>4, <2>2
    <3>2. Depth(c)[k - 1] = 0
      BY <1>6, <3>1 DEF Closed
    <3> QED
      BY <1>6, <3>1, <3>2
  <2> QED
    BY <2>1, <2>2
<1>9. D[k] = 1
  <2>1. D[(k - 1) + 1] = D[k - 1] + Turn(s[(k - 1) + 1])
    BY <1>4, DepthFacts
  <2>2. Turn(s[k]) = 1
    BY <1>2 DEF Turn
  <2> QED
    BY <1>4, <1>8, <2>1, <2>2
<1>10. ASSUME NEW i \in 0 .. (n - 1) - k
       PROVE  Depth(m)[i] >= 0 /\ (i = (n - 1) - k => Depth(m)[i] = 0)
  <2>1. CASE k = n - 1
    <3>1. i = 0 /\ Depth(m)[0] = 0
      BY <1>1, <1>4, <2>1, DepthFacts
    <3> QED
      BY <3>1
  <2>2. CASE k # n - 1
    <3>1. Closed(m)
      BY <1>17, <2>2
    <3> QED
      BY <1>7, <3>1 DEF Closed
  <2> QED
    BY <2>1, <2>2
<1> HIDE DEF D, n
<1>11. ASSUME NEW i \in k .. n - 1
       PROVE  D[i] >= 1 /\ (i = n - 1 => D[i] = 1)
  <2>1. i - k \in 0 .. (n - 1) - k /\ k + (i - k) = i /\ i \in Nat /\ (i = n - 1 => i - k = (n - 1) - k)
    BY <1>1, <1>4
  <2>2. Depth(m)[i - k] = D[k + (i - k)] - D[k]
    BY <1>7, <2>1
  <2>3. Depth(m)[i - k] >= 0 /\ (i - k = (n - 1) - k => Depth(m)[i - k] = 0)
    BY <1>10, <2>1
  <2>4. D[i] \in Int /\ Depth(m)[i - k] = D[i] - 1
    BY <1>5, <1>9, <2>1, <2>2
  <2> QED
    BY <2>1, <2>3, <2>4
<1>12. D[n] = 0
  <2>1. D[n - 1] = 1
    <3>1. n - 1 \in k .. n - 1
      BY <1>4
    <3> QED
      BY <1>11, <3>1
  <2>2. D[(n - 1) + 1] = D[n - 1] + Turn(s[(n - 1) + 1])
    BY <1>4, DepthFacts DEF D
  <2>3. Turn(s[n]) = -1
    BY <1>2 DEF Turn
  <2> QED
    BY <1>4, <2>1, <2>2, <2>3
<1>13. ASSUME NEW i \in 0 .. n PROVE D[i] >= 0
  <2>1. CASE i <= k - 1
    <3>1. i \in 0 .. k - 1
      BY <1>4, <2>1
    <3>2. Depth(c)[i] >= 0
      <4>1. CASE k = 1
        <5>1. i = 0 /\ Depth(c)[0] = 0
          BY <3>1, <4>1, DepthFacts
        <5> QED
          BY <5>1
      <4>2. CASE k # 1
        <5>1. Closed(c)
          BY <1>16, <4>2
        <5> QED
          BY <1>6, <3>1, <5>1 DEF Closed
      <4> QED
        BY <4>1, <4>2
    <3> QED
      BY <1>6, <3>1, <3>2
  <2>2. CASE i >= k /\ i # n
    <3>1. i \in k .. n - 1
      BY <1>1, <1>4, <2>2
    <3>2. D[i] >= 1 /\ D[i] \in Int
      BY <1>4, <1>5, <1>11, <3>1
    <3> QED
      BY <3>2
  <2>3. CASE i = n
    BY <1>12, <2>3
  <2> QED
    BY <1>4, <2>1, <2>2, <2>3
<1>14. Closed(s)
  BY <1>1, <1>2, <1>12, <1>13 DEF Closed, D, n
<1>15. ASSUME NEW j \in DOMAIN s, D[j] = 0, j # n
       PROVE  j \in DOMAIN c /\ c[j] = s[j] /\ Depth(c)[j] = 0
  <2>1. j \in 1 .. n
    BY <1>1 DEF n
  <2>2. ~(j \in k .. n - 1)
    BY <1>11, <1>15
  <2>3. j \in 1 .. k - 1 /\ j \in 0 .. k - 1
    BY <1>1, <1>4, <1>15, <2>1, <2>2
  <2> QED
    BY <1>6, <1>15, <2>3
<1> QED
  BY <1>4, <1>8, <1>11, <1>14, <1>15 DEF D, n

\* The parentheses that a text ends with open at one place.
LEMMA WrappedOnce ==
    ASSUME NEW s, NEW c, NEW m, NEW k, Wrapped(s, c, m, k),
           NEW c2, NEW m2, NEW j, Wrapped(s, c2, m2, j)
    PROVE  k = j
<1>1. ASSUME NEW a, NEW b, NEW x, NEW y, NEW x2, NEW y2, Wrapped(s, x, y, a), Wrapped(s, x2, y2, b)
      PROVE  ~(a < b)
  <2>1. a \in 1 .. Len(s) - 1 /\ b \in 1 .. Len(s) - 1
    BY <1>1, WrappedText
  <2>2. Depth(s)[b - 1] = 0
    BY <1>1, WrappedText
  <2>3. \A i \in a .. Len(s) - 1 : Depth(s)[i] >= 1
    BY <1>1, WrappedText
  <2>4. Len(s) \in Nat
    BY <1>1 DEF Wrapped
  <2>5. SUFFICES ASSUME a < b PROVE FALSE
    OBVIOUS
  <2>6. b - 1 \in a .. Len(s) - 1
    BY <2>1, <2>4, <2>5
  <2> QED
    BY <2>2, <2>3, <2>6
<1>2. ~(k < j) /\ ~(j < k)
  BY <1>1
<1>3. k \in 1 .. Len(s) - 1 /\ j \in 1 .. Len(s) - 1
  BY WrappedText
<1> QED
  BY <1>2, <1>3

AtMostOne(S) == \A x, y \in S : x = y

\* A closed text without these separators outside of its parentheses.
Shut(s, types) == Closed(s) /\ Outside(s, types) = {}

\* What is on either side of a token is a text.
LEMMA SideTexts ==
    ASSUME NEW s \in Seq(Tokens), NEW k \in DOMAIN s
    PROVE  /\ SubSeq(s, 1, k - 1) \in Seq(Tokens)
           /\ SubSeq(s, k + 1, Len(s)) \in Seq(Tokens)
           /\ k # Len(s) => SubSeq(s, k + 1, Len(s) - 1) \in Seq(Tokens)
<1>1. Len(s) \in Nat /\ k \in 1 .. Len(s) /\ k \in Nat /\ k - 1 \in Nat /\ 0 <= k - 1 /\ k - 1 <= Len(s)
      /\ k <= Len(s)
  OBVIOUS
<1>2. SubSeq(s, 1, k - 1) \in Seq(Tokens)
  <2>1. SubSeq(s, 1, k - 1) = SubSeq(s, 0 + 1, k - 1)
    OBVIOUS
  <2>2. IsText(s, 0, k - 1, SubSeq(s, 1, k - 1))
    BY <1>1, <2>1 DEF IsText
  <2> QED
    BY <2>2, PartOf
<1>3. SubSeq(s, k + 1, Len(s)) \in Seq(Tokens)
  <2>1. IsText(s, k, Len(s), SubSeq(s, k + 1, Len(s)))
    BY <1>1 DEF IsText
  <2> QED
    BY <2>1, PartOf
<1>4. ASSUME k # Len(s) PROVE SubSeq(s, k + 1, Len(s) - 1) \in Seq(Tokens)
  <2>1. k <= Len(s) - 1 /\ Len(s) - 1 \in Nat /\ Len(s) - 1 <= Len(s)
    BY <1>1, <1>4
  <2>2. IsText(s, k, Len(s) - 1, SubSeq(s, k + 1, Len(s) - 1))
    BY <1>1, <2>1 DEF IsText
  <2> QED
    BY <2>2, PartOf
<1> QED
  BY <1>2, <1>3, <1>4

(***************************************************************************)
(* A text is split at a place: what is behind it does not have an operator *)
(* of the same kind, nor has any side one that binds less.                 *)
(***************************************************************************)
Split(s, same, less, k) ==
    /\ s \in Seq(Tokens)
    /\ k \in Places(s, same)
    /\ Shut(SubSeq(s, 1, k - 1), less)
    /\ Shut(SubSeq(s, k + 1, Len(s)), less \union same)

\* A text is split at one place only, and has no reading that binds more tightly.
LEMMA SplitText ==
    ASSUME NEW s, NEW same \in SUBSET Separators, NEW less \in SUBSET Separators,
           same \intersect less = {}, NEW k, Split(s, same, less, k)
    PROVE  /\ Shut(s, less)
           /\ ~Shut(s, less \union same)
           /\ \A j : Split(s, same, less, j) => j = k
<1> DEFINE l(i) == SubSeq(s, 1, i - 1)
           r(i) == SubSeq(s, i + 1, Len(s))
<1>1. ASSUME NEW j, Split(s, same, less, j)
      PROVE  /\ j \in Places(s, same)
             /\ Separated(s, l(j), r(j), j)
             /\ Closed(l(j)) /\ Outside(l(j), less) = {}
             /\ Closed(r(j)) /\ Outside(r(j), less \union same) = {}
  <2>1. s \in Seq(Tokens) /\ j \in Places(s, same)
    BY <1>1 DEF Split
  <2>2. j \in Places(s, Separators)
    BY <2>1 DEF Places
  <2>3. Separated(s, l(j), r(j), j)
    BY <2>1, <2>2 DEF Separated
  <2>4. Shut(l(j), less) /\ Shut(r(j), less \union same)
    BY <1>1 DEF Split
  <2> QED
    BY <2>1, <2>3, <2>4 DEF Shut
<1> HIDE DEF l, r
<1>2. /\ Closed(s)
      /\ k \in Outside(s, Separators)
      /\ \A j \in DOMAIN s : Depth(s)[j] = 0 =>
            /\ j < k => j \in DOMAIN l(k) /\ l(k)[j] = s[j] /\ Depth(l(k))[j] = 0
            /\ j > k => \E i \in DOMAIN r(k) : r(k)[i] = s[j] /\ Depth(r(k))[i] = 0
  BY <1>1, SeparatedText
<1>3. k \in DOMAIN s /\ s[k].type \in same /\ Depth(s)[k] = 0 /\ s \in Seq(Tokens)
  <2>1. k \in Places(s, same) /\ s \in Seq(Tokens)
    BY DEF Split
  <2> QED
    BY <1>2, <2>1 DEF Places, Outside
<1>4. Outside(s, less) = {}
  <2>1. SUFFICES ASSUME NEW j \in Outside(s, less) PROVE FALSE
    OBVIOUS
  <2>2. j \in DOMAIN s /\ s[j].type \in less /\ Depth(s)[j] = 0
    BY DEF Outside, Places
  <2>3. CASE j < k
    <3>1. j \in Outside(l(k), less)
      BY <1>2, <2>2, <2>3 DEF Outside, Places
    <3> QED
      BY <1>1, <3>1
  <2>4. CASE j > k
    <3>1. PICK i \in DOMAIN r(k) : r(k)[i] = s[j] /\ Depth(r(k))[i] = 0
      BY <1>2, <2>2, <2>4
    <3>2. i \in Outside(r(k), less \union same)
      BY <2>2, <3>1 DEF Outside, Places
    <3> QED
      BY <1>1, <3>2
  <2>5. CASE j = k
    BY <1>3, <2>2, <2>5
  <2>6. j \in Int /\ k \in Int
    BY <1>3, <2>2
  <2> QED
    BY <2>3, <2>4, <2>5, <2>6
<1>5. k \in Outside(s, less \union same)
  BY <1>3 DEF Outside, Places
<1>6. ASSUME NEW j, Split(s, same, less, j) PROVE j = k
  <2>1. ASSUME NEW i, Split(s, same, less, i) PROVE Outside(r(i), same) = {}
    <3>1. Outside(r(i), less \union same) = {}
      BY <1>1, <2>1
    <3>2. Outside(r(i), same) \subseteq Outside(r(i), less \union same)
      BY DEF Outside, Places
    <3> QED
      BY <3>1, <3>2
  <2> QED
    BY <1>1, <1>6, <2>1, SeparatedOnce
<1> QED
  BY <1>2, <1>4, <1>5, <1>6 DEF Shut

(***************************************************************************)
(* A text's readings are clear: there is one at most of each kind.         *)
(***************************************************************************)
Clear(R, s) ==
    /\ AtMostOne(R.primary) /\ AtMostOne(R.product) /\ AtMostOne(R.sum) /\ AtMostOne(R.arguments)
    /\ R.primary # {}   => Shut(s, Separators)
    /\ R.product # {}   => Shut(s, {"Plus", "Minus", "Comma"})
    /\ R.sum # {}       => Shut(s, {"Comma"})
    /\ R.arguments # {} => Shut(s, {})

AllClear(known) == \A s \in Seq(Tokens) : Clear(known[s], s)

\* A product is read in one way: at its last operator.
LEMMA ProductsClear ==
    ASSUME NEW known, AllClear(known), NEW s \in Seq(Tokens), NEW primaries,
           AtMostOne(primaries), primaries # {} => Shut(s, Separators)
    PROVE  /\ AtMostOne(Products(primaries, known, s))
           /\ Products(primaries, known, s) # {} => Shut(s, {"Plus", "Minus", "Comma"})
<1> DEFINE same == {"Mul", "Div"}
           less == {"Plus", "Minus", "Comma"}
           L(k) == Before(known, s, k).product
           R(k) == Behind(known, s, k).primary
           Made(k, n) == \E x \in L(k), y \in R(k) : n = <<"BINOP", s[k].type, x, y>>
<1>1. /\ same \in SUBSET Separators /\ less \in SUBSET Separators
      /\ same \intersect less = {} /\ less \union same = Separators
  BY DEF Separators
<1>2. ASSUME NEW n \in Products(primaries, known, s), n \notin primaries
      PROVE  \E k \in Places(s, same) : Made(k, n)
  BY <1>2 DEF Products, Operations
<1>3. ASSUME NEW k \in Places(s, same)
      PROVE  /\ AtMostOne(L(k)) /\ AtMostOne(R(k))
             /\ L(k) # {} /\ R(k) # {} => Split(s, same, less, k)
  <2>1. k \in DOMAIN s
    BY DEF Places
  <2>2. SubSeq(s, 1, k - 1) \in Seq(Tokens) /\ SubSeq(s, k + 1, Len(s)) \in Seq(Tokens)
    BY <2>1, SideTexts
  <2>3. /\ Clear(Before(known, s, k), SubSeq(s, 1, k - 1))
        /\ Clear(Behind(known, s, k), SubSeq(s, k + 1, Len(s)))
    BY <2>2 DEF AllClear, Before, Behind
  <2>4. /\ AtMostOne(L(k)) /\ AtMostOne(R(k))
        /\ L(k) # {} => Shut(SubSeq(s, 1, k - 1), less)
        /\ R(k) # {} => Shut(SubSeq(s, k + 1, Len(s)), Separators)
    BY <2>3 DEF Clear
  <2> QED
    BY <1>1, <2>4 DEF Split
<1> HIDE DEF L, R, same, less
<1>4. ASSUME NEW k \in Places(s, same), NEW n, Made(k, n) PROVE Split(s, same, less, k)
  BY <1>3, <1>4
<1>5. ASSUME NEW n \in Products(primaries, known, s) PROVE Shut(s, less)
  <2>1. CASE n \in primaries
    <3>1. Closed(s) /\ Outside(s, Separators) = {}
      BY <2>1 DEF Shut
    <3>2. Outside(s, less) \subseteq Outside(s, Separators)
      BY <1>1 DEF Outside, Places
    <3> QED
      BY <3>1, <3>2 DEF Shut
  <2>2. CASE n \notin primaries
    BY <1>1, <1>2, <1>4, <2>2, SplitText
  <2> QED
    BY <2>1, <2>2
<1>6. ASSUME NEW k \in Places(s, same), NEW n, Made(k, n) PROVE primaries = {}
  <2>1. ~Shut(s, Separators)
    BY <1>1, <1>4, <1>6, SplitText
  <2> QED
    BY <2>1
<1>7. ASSUME NEW n \in Products(primaries, known, s), NEW m \in Products(primaries, known, s) PROVE n = m
  <2>1. CASE n \in primaries /\ m \in primaries
    BY <2>1 DEF AtMostOne
  <2>2. CASE n \notin primaries
    <3>1. primaries = {}
      BY <1>2, <1>6, <2>2
    <3>2. PICK k \in Places(s, same) : Made(k, n)
      BY <1>2, <2>2
    <3>3. PICK j \in Places(s, same) : Made(j, m)
      BY <1>2, <3>1
    <3>4. j = k
      BY <1>1, <1>4, <3>2, <3>3, SplitText
    <3> QED
      BY <1>3, <3>2, <3>3, <3>4 DEF AtMostOne
  <2>3. CASE m \notin primaries /\ n \in primaries
    BY <1>2, <1>6, <2>3
  <2> QED
    BY <2>1, <2>2, <2>3
<1> QED
  BY <1>5, <1>7 DEF AtMostOne, less

\* A sum is read in one way: at its last operator.
LEMMA SumsClear ==
    ASSUME NEW known, AllClear(known), NEW s \in Seq(Tokens), NEW products,
           AtMostOne(products), products # {} => Shut(s, {"Plus", "Minus", "Comma"})
    PROVE  /\ AtMostOne(Sums(products, known, s))
           /\ Sums(products, known, s) # {} => Shut(s, {"Comma"})
<1> DEFINE same == {"Plus", "Minus"}
           less == {"Comma"}
           both == {"Plus", "Minus", "Comma"}
           L(k) == Before(known, s, k).sum
           R(k) == Behind(known, s, k).product
           Made(k, n) == \E x \in L(k), y \in R(k) : n = <<"BINOP", s[k].type, x, y>>
<1>1. /\ same \in SUBSET Separators /\ less \in SUBSET Separators
      /\ same \intersect less = {} /\ less \union same = both
  BY DEF Separators
<1>2. ASSUME NEW n \in Sums(products, known, s), n \notin products
      PROVE  \E k \in Places(s, same) : Made(k, n)
  BY <1>2 DEF Sums, Operations
<1>3. ASSUME NEW k \in Places(s, same)
      PROVE  /\ AtMostOne(L(k)) /\ AtMostOne(R(k))
             /\ L(k) # {} /\ R(k) # {} => Split(s, same, less, k)
  <2>1. k \in DOMAIN s
    BY DEF Places
  <2>2. SubSeq(s, 1, k - 1) \in Seq(Tokens) /\ SubSeq(s, k + 1, Len(s)) \in Seq(Tokens)
    BY <2>1, SideTexts
  <2>3. /\ Clear(Before(known, s, k), SubSeq(s, 1, k - 1))
        /\ Clear(Behind(known, s, k), SubSeq(s, k + 1, Len(s)))
    BY <2>2 DEF AllClear, Before, Behind
  <2>4. /\ AtMostOne(L(k)) /\ AtMostOne(R(k))
        /\ L(k) # {} => Shut(SubSeq(s, 1, k - 1), less)
        /\ R(k) # {} => Shut(SubSeq(s, k + 1, Len(s)), both)
    BY <2>3 DEF Clear
  <2> QED
    BY <1>1, <2>4 DEF Split
<1> HIDE DEF L, R, same, less, both
<1>4. ASSUME NEW k \in Places(s, same), NEW n, Made(k, n) PROVE Split(s, same, less, k)
  BY <1>3, <1>4
<1>5. ASSUME NEW n \in Sums(products, known, s) PROVE Shut(s, less)
  <2>1. CASE n \in products
    <3>1. Closed(s) /\ Outside(s, both) = {}
      BY <2>1 DEF Shut, both
    <3>2. Outside(s, less) \subseteq Outside(s, both)
      BY <1>1 DEF Outside, Places
    <3> QED
      BY <3>1, <3>2 DEF Shut
  <2>2. CASE n \notin products
    BY <1>1, <1>2, <1>4, <2>2, SplitText
  <2> QED
    BY <2>1, <2>2
<1>6. ASSUME NEW k \in Places(s, same), NEW n, Made(k, n) PROVE products = {}
  <2>1. ~Shut(s, both)
    BY <1>1, <1>4, <1>6, SplitText
  <2> QED
    BY <2>1 DEF both
<1>7. ASSUME NEW n \in Sums(products, known, s), NEW m \in Sums(products, known, s) PROVE n = m
  <2>1. CASE n \in products /\ m \in products
    BY <2>1 DEF AtMostOne
  <2>2. CASE n \notin products
    <3>1. products = {}
      BY <1>2, <1>6, <2>2
    <3>2. PICK k \in Places(s, same) : Made(k, n)
      BY <1>2, <2>2
    <3>3. PICK j \in Places(s, same) : Made(j, m)
      BY <1>2, <3>1
    <3>4. j = k
      BY <1>1, <1>4, <3>2, <3>3, SplitText
    <3> QED
      BY <1>3, <3>2, <3>3, <3>4 DEF AtMostOne
  <2>3. CASE m \notin products /\ n \in products
    BY <1>2, <1>6, <2>3
  <2> QED
    BY <2>1, <2>2, <2>3
<1> QED
  BY <1>5, <1>7 DEF AtMostOne, less

\* A list of arguments is read in one way: at its last comma.
LEMMA ArgumentsClear ==
    ASSUME NEW known, AllClear(known), NEW s \in Seq(Tokens), NEW sums,
           AtMostOne(sums), sums # {} => Shut(s, {"Comma"})
    PROVE  /\ AtMostOne(ArgumentLists(sums, known, s))
           /\ ArgumentLists(sums, known, s) # {} => Shut(s, {})
<1> DEFINE same == {"Comma"}
           less == {}
           both == {"Comma"}
           base == {<<i>> : i \in sums}
           L(k) == Before(known, s, k).arguments
           R(k) == Behind(known, s, k).sum
           Made(k, n) == \E x \in L(k), y \in R(k) : n = Append(x, y)
<1>1. /\ same \in SUBSET Separators /\ less \in SUBSET Separators
      /\ same \intersect less = {} /\ less \union same = both
  BY DEF Separators
<1>2. ASSUME NEW n \in ArgumentLists(sums, known, s), n \notin base
      PROVE  \E k \in Places(s, same) : Made(k, n)
  BY <1>2 DEF ArgumentLists
<1>3. ASSUME NEW k \in Places(s, same)
      PROVE  /\ AtMostOne(L(k)) /\ AtMostOne(R(k))
             /\ L(k) # {} /\ R(k) # {} => Split(s, same, less, k)
  <2>1. k \in DOMAIN s
    BY DEF Places
  <2>2. SubSeq(s, 1, k - 1) \in Seq(Tokens) /\ SubSeq(s, k + 1, Len(s)) \in Seq(Tokens)
    BY <2>1, SideTexts
  <2>3. /\ Clear(Before(known, s, k), SubSeq(s, 1, k - 1))
        /\ Clear(Behind(known, s, k), SubSeq(s, k + 1, Len(s)))
    BY <2>2 DEF AllClear, Before, Behind
  <2>4. /\ AtMostOne(L(k)) /\ AtMostOne(R(k))
        /\ L(k) # {} => Shut(SubSeq(s, 1, k - 1), less)
        /\ R(k) # {} => Shut(SubSeq(s, k + 1, Len(s)), both)
    BY <2>3 DEF Clear
  <2> QED
    BY <1>1, <2>4 DEF Split
<1> HIDE DEF L, R, same, less, both, base
<1>4. ASSUME NEW k \in Places(s, same), NEW n, Made(k, n) PROVE Split(s, same, less, k)
  BY <1>3, <1>4
<1>5. ASSUME NEW n \in ArgumentLists(sums, known, s) PROVE Shut(s, less)
  <2>1. CASE n \in base
    <3>1. Closed(s) /\ Outside(s, both) = {}
      BY <2>1 DEF Shut, both, base
    <3>2. Outside(s, less) \subseteq Outside(s, both)
      BY <1>1 DEF Outside, Places
    <3> QED
      BY <3>1, <3>2 DEF Shut
  <2>2. CASE n \notin base
    BY <1>1, <1>2, <1>4, <2>2, SplitText
  <2> QED
    BY <2>1, <2>2
<1>6. ASSUME NEW k \in Places(s, same), NEW n, Made(k, n) PROVE base = {}
  <2>1. ~Shut(s, both)
    BY <1>1, <1>4, <1>6, SplitText
  <2> QED
    BY <2>1 DEF both, base
<1>7. ASSUME NEW n \in ArgumentLists(sums, known, s), NEW m \in ArgumentLists(sums, known, s) PROVE n = m
  <2>1. CASE n \in base /\ m \in base
    BY <2>1 DEF AtMostOne, base
  <2>2. CASE n \notin base
    <3>1. base = {}
      BY <1>2, <1>6, <2>2
    <3>2. PICK k \in Places(s, same) : Made(k, n)
      BY <1>2, <2>2
    <3>3. PICK j \in Places(s, same) : Made(j, m)
      BY <1>2, <3>1
    <3>4. j = k
      BY <1>1, <1>4, <3>2, <3>3, SplitText
    <3> QED
      BY <1>3, <3>2, <3>3, <3>4 DEF AtMostOne
  <2>3. CASE m \notin base /\ n \in base
    BY <1>2, <1>6, <2>3
  <2> QED
    BY <2>1, <2>2, <2>3
<1> QED
  BY <1>5, <1>7 DEF AtMostOne, less

\* An atom is a text of one token: closed, and without separators.
LEMMA AtomsClear ==
    ASSUME NEW b, NEW s \in Seq(Tokens)
    PROVE  /\ AtMostOne(Atoms(b, s))
           /\ Atoms(b, s) # {} => Len(s) = 1 /\ Shut(s, Separators)
<1>1. ASSUME NEW n \in Atoms(b, s)
      PROVE  /\ Len(s) = 1
             /\ \/ s[1].type = "Number" /\ n = <<"NUMBER", s[1].text>>
                \/ s[1].type = "Identifier" /\ n = <<"VARIABLE", b[s[1].text]>>
  <2>1. PICK k \in DOMAIN s : /\ Len(s) = 1
                              /\ \/ s[k].type = "Number" /\ n = <<"NUMBER", s[k].text>>
                                 \/ s[k].type = "Identifier" /\ n = <<"VARIABLE", b[s[k].text]>>
    BY DEF Atoms, Places
  <2>2. k = 1
    BY <2>1
  <2> QED
    BY <2>1, <2>2
<1>2. AtMostOne(Atoms(b, s))
  <2>1. ASSUME NEW n \in Atoms(b, s), NEW m \in Atoms(b, s) PROVE n = m
    <3>1. "Number" # "Identifier"
      OBVIOUS
    <3> QED
      BY <1>1, <3>1
  <2> QED
    BY <2>1 DEF AtMostOne
<1>3. ASSUME NEW n \in Atoms(b, s) PROVE Len(s) = 1 /\ Shut(s, Separators)
  <2>1. Len(s) = 1 /\ s[1].type \in {"Number", "Identifier"}
    BY <1>1
  <2>2. Depth(s)[0] = 0
    BY DepthFacts
  <2>3. Depth(s)[1] = 0
    <3>1. Depth(s)[0 + 1] = Depth(s)[0] + Turn(s[0 + 1])
      BY DepthFacts
    <3>2. Turn(s[1]) = 0
      BY <2>1 DEF Turn
    <3> QED
      BY <2>2, <3>1, <3>2
  <2>4. Closed(s)
    <3>1. \A i \in 0 .. 1 : i = 0 \/ i = 1
      OBVIOUS
    <3>2. \A i \in 0 .. 1 : Depth(s)[i] >= 0
      BY <2>2, <2>3, <3>1
    <3> QED
      BY <2>1, <2>3, <3>2 DEF Closed
  <2>5. ASSUME NEW j \in Outside(s, Separators) PROVE FALSE
    <3>1. j \in DOMAIN s /\ s[j].type \in Separators
      BY DEF Outside, Places
    <3>2. j = 1
      BY <2>1, <3>1
    <3> QED
      BY <2>1, <3>1, <3>2 DEF Separators
  <2> QED
    BY <2>1, <2>4, <2>5 DEF Shut
<1> QED
  BY <1>2, <1>3

\* A call, or a sum in parentheses: the parentheses that it ends with are found once.
CalledAt(known, s, k, n) ==
    \E f    \in Callees(Before(known, s, k).primary),
       args \in IF k = Len(s) - 1 THEN {<<>>} ELSE Inside(known, s, k).arguments :
        n = <<"FN_CALL", f[2], args>>

\* What is before and between the parentheses at the end of a text has one reading each.
LEMMA OpeningClear ==
    ASSUME NEW known, AllClear(known), NEW s \in Seq(Tokens), NEW k \in Opening(s)
    PROVE  /\ AtMostOne(Before(known, s, k).primary)
           /\ AtMostOne(Inside(known, s, k).sum)
           /\ AtMostOne(Inside(known, s, k).arguments)
           /\ Before(known, s, k).primary # {} => Shut(SubSeq(s, 1, k - 1), Separators) /\ k # 1
           /\ Inside(known, s, k).sum # {} => Closed(SubSeq(s, k + 1, Len(s) - 1))
           /\ Inside(known, s, k).arguments # {} => Closed(SubSeq(s, k + 1, Len(s) - 1))
<1>1. k \in DOMAIN s /\ s[k].type = "LParen" /\ s[Len(s)].type = "RParen"
  BY DEF Opening, Places
<1>2. k # Len(s)
  BY <1>1
<1>3. SubSeq(s, 1, k - 1) \in Seq(Tokens) /\ SubSeq(s, k + 1, Len(s) - 1) \in Seq(Tokens)
  BY <1>1, <1>2, SideTexts
<1>4. /\ Clear(Before(known, s, k), SubSeq(s, 1, k - 1))
      /\ Clear(Inside(known, s, k), SubSeq(s, k + 1, Len(s) - 1))
  BY <1>3 DEF AllClear, Before, Inside
<1>5. Shut(SubSeq(s, 1, k - 1), Separators) => k # 1
  <2>1. SUFFICES ASSUME k = 1, Closed(SubSeq(s, 1, k - 1)) PROVE FALSE
    BY DEF Shut
  <2>2. SubSeq(s, 1, k - 1) = <<>>
    BY <2>1, SubSeqEmpty
  <2> QED
    BY <2>1, <2>2 DEF Closed
<1> QED
  BY <1>4, <1>5 DEF Clear, Shut

\* A primary is read in one way: as an atom, in parentheses, or as a call.
LEMMA PrimariesClear ==
    ASSUME NEW b, NEW known, AllClear(known), NEW s \in Seq(Tokens)
    PROVE  /\ AtMostOne(Primaries(b, known, s))
           /\ Primaries(b, known, s) # {} => Shut(s, Separators)
<1> DEFINE c(k) == SubSeq(s, 1, k - 1)
           i(k) == SubSeq(s, k + 1, Len(s) - 1)
           Sum(n) == 1 \in Opening(s) /\ n \in Inside(known, s, 1).sum
<1>1. ASSUME NEW n \in Primaries(b, known, s)
      PROVE  n \in Atoms(b, s) \/ Sum(n) \/ \E k \in Opening(s) : CalledAt(known, s, k, n)
  <2>1. CASE n \in Atoms(b, s)
    BY <2>1
  <2>2. CASE n \in Calls(known, s)
    BY <2>2 DEF Calls, CalledAt
  <2>3. CASE n \in UNION {Inside(known, s, k).sum : k \in {j \in Opening(s) : j = 1}}
    BY <2>3
  <2> QED
    BY <2>1, <2>2, <2>3 DEF Primaries
<1>2. ASSUME NEW n, NEW k \in Opening(s), CalledAt(known, s, k, n)
      PROVE  Wrapped(s, c(k), i(k), k) /\ Shut(c(k), Separators) /\ k # 1
  <2>1. Before(known, s, k).primary # {}
    BY <1>2 DEF CalledAt, Callees
  <2>2. k # Len(s) - 1 => Inside(known, s, k).arguments # {}
    BY <1>2 DEF CalledAt
  <2> QED
    BY <2>1, <2>2, OpeningClear DEF Wrapped, Shut
<1>3. ASSUME NEW n, Sum(n) PROVE Wrapped(s, c(1), i(1), 1)
  BY <1>3, OpeningClear DEF Wrapped
<1> HIDE DEF c, i
<1>4. ASSUME NEW k, Wrapped(s, c(k), i(k), k), k = 1 \/ Shut(c(k), Separators)
      PROVE  Shut(s, Separators) /\ Len(s) # 1
  <2>1. /\ k \in 1 .. Len(s) - 1
        /\ Closed(s)
        /\ \A j \in DOMAIN s : Depth(s)[j] = 0 =>
              j = Len(s) \/ (j \in DOMAIN c(k) /\ c(k)[j] = s[j] /\ Depth(c(k))[j] = 0)
    BY <1>4, WrappedText
  <2>2. s[Len(s)].type = "RParen"
    BY <1>4 DEF Wrapped, Opening
  <2>3. ASSUME NEW j \in Outside(s, Separators) PROVE FALSE
    <3>1. j \in DOMAIN s /\ s[j].type \in Separators /\ Depth(s)[j] = 0
      BY DEF Outside, Places
    <3>2. j # Len(s)
      BY <2>2, <3>1 DEF Separators
    <3>3. j \in DOMAIN c(k) /\ c(k)[j] = s[j] /\ Depth(c(k))[j] = 0
      BY <2>1, <3>1, <3>2
    <3>4. j \in Outside(c(k), Separators)
      BY <3>1, <3>3 DEF Outside, Places
    <3>5. k # 1
      <4>1. SUFFICES ASSUME k = 1 PROVE FALSE
        OBVIOUS
      <4>2. c(1) = <<>>
        BY SubSeqEmpty DEF c
      <4> QED
        BY <3>3, <4>1, <4>2
    <3> QED
      BY <1>4, <3>4, <3>5 DEF Shut
  <2>4. Len(s) # 1
    BY <2>1
  <2> QED
    BY <2>1, <2>3, <2>4 DEF Shut
<1>5. ASSUME NEW n \in Primaries(b, known, s) PROVE Shut(s, Separators)
  BY <1>1, <1>2, <1>3, <1>4, <1>5, AtomsClear
<1>6. ASSUME NEW n \in Primaries(b, known, s), NEW m \in Primaries(b, known, s) PROVE n = m
  <2>1. CASE n \in Atoms(b, s)
    <3>1. Len(s) = 1
      BY <2>1, AtomsClear
    <3>2. m \in Atoms(b, s)
      BY <1>1, <1>2, <1>3, <1>4, <3>1
    <3> QED
      BY <2>1, <3>2, AtomsClear DEF AtMostOne
  <2>2. CASE m \in Atoms(b, s)
    <3>1. Len(s) = 1
      BY <2>2, AtomsClear
    <3>2. n \in Atoms(b, s)
      BY <1>1, <1>2, <1>3, <1>4, <3>1
    <3> QED
      BY <2>2, <3>2, AtomsClear DEF AtMostOne
  <2>3. CASE n \notin Atoms(b, s) /\ m \notin Atoms(b, s)
    <3>1. CASE Sum(n)
      <4>1. \A k \in Opening(s) : ~CalledAt(known, s, k, m)
        BY <1>2, <1>3, <3>1, WrappedOnce
      <4>2. Sum(m)
        BY <1>1, <2>3, <4>1
      <4> QED
        BY <3>1, <4>2, OpeningClear DEF AtMostOne
    <3>2. CASE \E k \in Opening(s) : CalledAt(known, s, k, n)
      <4>1. PICK k \in Opening(s) : CalledAt(known, s, k, n)
        BY <3>2
      <4>2. ~Sum(m)
        BY <1>2, <1>3, <4>1, WrappedOnce
      <4>3. PICK j \in Opening(s) : CalledAt(known, s, j, m)
        BY <1>1, <2>3, <4>2
      <4>4. j = k
        BY <1>2, <4>1, <4>3, WrappedOnce
      <4>5. /\ AtMostOne(Callees(Before(known, s, k).primary))
            /\ AtMostOne(IF k = Len(s) - 1 THEN {<<>>} ELSE Inside(known, s, k).arguments)
        BY OpeningClear DEF AtMostOne, Callees
      <4> QED
        BY <4>1, <4>3, <4>4, <4>5 DEF CalledAt, AtMostOne
    <3> QED
      BY <1>1, <2>3, <3>1, <3>2
  <2> QED
    BY <2>1, <2>2, <2>3
<1> QED
  BY <1>5, <1>6 DEF AtMostOne

\* The readings of a text are clear, when those of the shorter texts are.
LEMMA ReadingClear ==
    ASSUME NEW b, NEW known, AllClear(known), NEW s \in Seq(Tokens)
    PROVE  Clear(Reading(b, known, s), s)
<1> DEFINE R == Reading(b, known, s)
<1>1. /\ R.primary = Primaries(b, known, s)
      /\ R.product = Products(R.primary, known, s)
      /\ R.sum = Sums(R.product, known, s)
      /\ R.arguments = ArgumentLists(R.sum, known, s)
  BY ReadingOf
<1> HIDE DEF R
<1>2. AtMostOne(R.primary) /\ (R.primary # {} => Shut(s, Separators))
  BY <1>1, PrimariesClear
<1>3. AtMostOne(R.product) /\ (R.product # {} => Shut(s, {"Plus", "Minus", "Comma"}))
  BY <1>1, <1>2, ProductsClear
<1>4. AtMostOne(R.sum) /\ (R.sum # {} => Shut(s, {"Comma"}))
  BY <1>1, <1>3, SumsClear
<1>5. AtMostOne(R.arguments) /\ (R.arguments # {} => Shut(s, {}))
  BY <1>1, <1>4, ArgumentsClear
<1>6. Clear(R, s)
  BY <1>2, <1>3, <1>4, <1>5 DEF Clear
<1> QED
  BY <1>6 DEF R

\* Every level's readings are clear.
LEMMA LevelsClear ==
    ASSUME NEW b
    PROVE  \A k \in Nat : AllClear(Readings(b)[k])
<1> DEFINE T == {k \in Nat : AllClear(Readings(b)[k])}
<1>1. 0 \in T
  <2>1. ASSUME NEW s \in Seq(Tokens) PROVE Clear(Readings(b)[0][s], s)
    <3>1. Readings(b)[0][s] = NoReading
      BY ReadingsDef
    <3>2. Clear(NoReading, s)
      BY DEF NoReading, Clear, AtMostOne
    <3> QED
      BY <3>1, <3>2
  <2> QED
    BY <2>1 DEF AllClear
<1>2. ASSUME NEW k \in T PROVE k + 1 \in T
  <2>1. k \in Nat /\ AllClear(Readings(b)[k])
    OBVIOUS
  <2>2. Readings(b)[k + 1] = ReadAll(b, Readings(b)[k])
    BY <2>1, ReadingsDef
  <2>3. ASSUME NEW s \in Seq(Tokens) PROVE Clear(Readings(b)[k + 1][s], s)
    <3>1. Readings(b)[k + 1][s] = Reading(b, Readings(b)[k], s)
      BY <2>2 DEF ReadAll
    <3> QED
      BY <2>1, <3>1, ReadingClear
  <2> QED
    BY <2>1, <2>3 DEF AllClear
<1> HIDE DEF T
<1>3. T = Nat
  <2>1. T \in SUBSET Nat
    BY DEF T
  <2> QED
    BY <1>1, <1>2, <2>1, AllNaturals
<1> QED
  BY <1>3 DEF T

(***************************************************************************)
(* The grammar that the parser implements is unambiguous: no text has two  *)
(* trees, whatever the visible names stand for.                            *)
(***************************************************************************)
THEOREM GrammarUnambiguous ==
    ASSUME NEW b, NEW s \in Seq(Tokens)
    PROVE  \A n, m \in Trees(b, s) : n = m
<1>1. Len(s) \in Nat
  OBVIOUS
<1>2. Clear(Readings(b)[Len(s)][s], s)
  BY <1>1, LevelsClear DEF AllClear
<1> QED
  BY <1>2 DEF Clear, AtMostOne, Trees

(***************************************************************************)
(* For every file, what parseExpression returns to a declaration, an       *)
(* assignment, a return or a statement is the tree that the grammar gives  *)
(* to the tokens it has read, and the only one: precedence, association to *)
(* the left, parentheses, and calls in any nesting (expr.cpp, call.cpp).   *)
(***************************************************************************)
THEOREM ExpressionsAreParsed == ParserSpec => []ExpressionTree
<1>1. TokensOK /\ StackOK(stack) /\ TextOK => ExpressionTree
  <2>1. SUFFICES ASSUME TokensOK, StackOK(stack), TextOK, stack # <<>>,
                        Top.at \in {"declared", "assigned", "returned", "statement"}
                 PROVE  Trees(VisibleSymbols, read) = {ret}
    BY DEF ExpressionTree
  <2>2. ret \in Trees(VisibleSymbols, read)
    BY <2>1, TreeOfText DEF Bases
  <2>3. read \in Seq(Tokens)
    BY <2>1 DEF TokensOK
  <2>4. \A n, m \in Trees(VisibleSymbols, read) : n = m
    BY <2>3, GrammarUnambiguous
  <2> QED
    BY <2>2, <2>4
<1> QED
  BY <1>1, TokensInductive, StackInductive, TextInductive, PTL
===============================================================================
