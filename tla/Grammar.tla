-------------------------------- MODULE Grammar --------------------------------
(***************************************************************************)
(* What the parser should build, said without reading from left to right:  *)
(* the grammar of the expressions.  And what the code generator takes for  *)
(* granted of the trees it is given.                                       *)
(*                                                                         *)
(* Trees are as deep as their texts, so both are closures, built level by  *)
(* level by recursive functions on the naturals.                           *)
(***************************************************************************)
EXTENDS Parser

ASSUME GrammarAssumption == MaxTokens \in Nat

-----------------------------------------------------------------------------
(***************************************************************************)
(* The grammar of the expressions:                                         *)
(*                                                                         *)
(*   sum       ->  product  |  sum + product  |  sum - product             *)
(*   product   ->  primary  |  product * primary  |  product / primary     *)
(*   primary   ->  number  |  name  |  ( sum )                             *)
(*                 |  primary ( )  |  primary ( arguments )                *)
(*   arguments ->  sum  |  arguments , sum                                 *)
(*                                                                         *)
(* where the primary that is called is the name of a function, in          *)
(* parentheses or not.  bound has the symbols of the visible names, and    *)
(* known the trees of the shorter texts.                                   *)
(***************************************************************************)
Places(s, types) == {k \in DOMAIN s : s[k].type \in types}

Before(known, s, k) == known[SubSeq(s, 1, k - 1)]

Behind(known, s, k) == known[SubSeq(s, k + 1, Len(s))]

Inside(known, s, k) == known[SubSeq(s, k + 1, Len(s) - 1)]

Operations(op, left, right) == {<<"BINOP", op, l, r>> : l \in left, r \in right}

\* The parentheses that open at these places and close at the end.
Opening(s) == {k \in Places(s, {"LParen"}) : s[Len(s)].type = "RParen"}

Atoms(bound, s) ==
    {<<"NUMBER", s[k].text>> : k \in {i \in Places(s, {"Number"}) : Len(s) = 1}}
      \union {<<"VARIABLE", bound[s[k].text]>> :
                k \in {i \in Places(s, {"Identifier"}) :
                         Len(s) = 1 /\ s[i].text \in DOMAIN bound}}

Callees(nodes) == {n \in nodes : n[1] = "VARIABLE" /\ n[2].kind = "FUNCTION"}

Calls(known, s) ==
    UNION {{<<"FN_CALL", f[2], args>> :
               f    \in Callees(Before(known, s, k).primary),
               args \in IF k = Len(s) - 1 THEN {<<>>} ELSE Inside(known, s, k).arguments} :
             k \in Opening(s)}

Primaries(bound, known, s) ==
    Atoms(bound, s)
      \union Calls(known, s)
      \union UNION {Inside(known, s, k).sum : k \in {i \in Opening(s) : i = 1}}

Products(primaries, known, s) ==
    primaries
      \union UNION {Operations(s[k].type, Before(known, s, k).product,
                               Behind(known, s, k).primary) :
                      k \in Places(s, {"Mul", "Div"})}

Sums(products, known, s) ==
    products
      \union UNION {Operations(s[k].type, Before(known, s, k).sum,
                               Behind(known, s, k).product) :
                      k \in Places(s, {"Plus", "Minus"})}

ArgumentLists(sums, known, s) ==
    {<<n>> : n \in sums}
      \union UNION {{Append(args, n) : args \in Before(known, s, k).arguments,
                                       n    \in Behind(known, s, k).sum} :
                      k \in Places(s, {"Comma"})}

NoReading == [sum |-> {}, product |-> {}, primary |-> {}, arguments |-> {}]

Reading(bound, known, s) ==
    LET primaries == Primaries(bound, known, s)
        products  == Products(primaries, known, s)
        sums      == Sums(products, known, s)
    IN  [sum |-> sums, product |-> products, primary |-> primaries,
         arguments |-> ArgumentLists(sums, known, s)]

\* The readings of all texts, given those of the shorter ones.
ReadAll(bound, known) == [s \in Seq(Tokens) |-> Reading(bound, known, s)]

\* The readings of all texts of up to this many tokens.
Readings(bound) ==
    LET upTo[k \in Nat] ==
          IF k = 0 THEN [s \in Seq(Tokens) |-> NoReading]
          ELSE ReadAll(bound, upTo[k - 1])
    IN  upTo

Trees(bound, s) == Readings(bound)[Len(s)][s].sum

VisibleSymbols == [n \in {m \in Names : Visible(m)} |-> Lookup(n)]

(***************************************************************************)
(* Every expression that parseExpression returns to a declaration, an      *)
(* assignment, a return or a statement has the tree of its tokens, with    *)
(* the symbols that are visible there: the operators' precedence, their    *)
(* association to the left, parentheses, and calls in any nesting.         *)
(***************************************************************************)
ExpressionTree ==
    (phase = "parsing" /\ stack # <<>>
       /\ Top.at \in {"declared", "assigned", "returned", "statement"})
        => Trees(VisibleSymbols, read) = {ret}

-----------------------------------------------------------------------------
Children(n) ==
    CASE n[1] = "BINOP"       -> {n[3], n[4]}
      [] n[1] = "FN_CALL"     -> {n[3][i] : i \in DOMAIN n[3]}
      [] n[1] = "DECLARATION" -> {n[3]}
      [] n[1] = "ASSIGNMENT"  -> {n[3]}
      [] n[1] = "FN_RET"      -> {n[2]}
      [] n[1] \in {"NULL", "NUMBER", "VARIABLE", "FN_DEF"} -> {}

WithChildren(nodes) == nodes \union UNION {Children(n) : n \in nodes}

\* The nodes of a tree, down to a depth that no tree within the bound reaches.
DownTo(node) ==
    LET downTo[k \in Nat] ==
          IF k = 0 THEN {node}
          ELSE WithChildren(downTo[k - 1])
    IN  downTo

Nodes(node) == DownTo(node)[MaxTokens + 2]

\* What CodeGen takes for granted of a node in a construct of this depth.
AsCompiled(n, depth) ==
    /\ n[1] \in {"ASSIGNMENT", "FN_RET"} => depth = 2
    /\ n[1] = "FN_DEF" => depth = 1 /\ Len(n[3]) <= 1
    /\ n[1] = "FN_CALL" => n[2].kind = "FUNCTION"
    /\ n[1] = "BINOP" => n[3][1] # "FN_CALL" /\ n[4][1] # "FN_CALL"

(***************************************************************************)
(* The trees that CodeGen compiles, and no others, are built: assignments  *)
(* and returns only in bodies, functions only outside, with one parameter  *)
(* at most; only functions are called, and no call is an operand.          *)
(***************************************************************************)
TreesAsCompiled == \A n \in Nodes(built.node) : AsCompiled(n, built.depth)

\* The symbols that a node points to.
PointsTo(n) ==
    CASE n[1] \in {"VARIABLE", "FN_CALL", "DECLARATION", "ASSIGNMENT"} -> {n[2]}
      [] n[1] = "FN_DEF" -> {n[2]} \union {n[3][i] : i \in DOMAIN n[3]}
      [] n[1] \in {"NULL", "NUMBER", "BINOP", "FN_RET"} -> {}

(***************************************************************************)
(* A tree points to symbols of scopes that are open where it ends.  Leaving *)
(* a body's scope frees its symbols: global code, and a function's head    *)
(* with its parameter, never point to one of them.                         *)
(***************************************************************************)
MentionsOpenScopes ==
    \A n \in Nodes(built.node) : \A s \in PointsTo(n) :
        \E i \in 1 .. built.depth, name \in Names : scopes[i].symbols[name] = s

\* Every loop of the parser consumes tokens: it reads on until it is done, so
\* it comes to an end on every file.
ReadsOn == <>(phase # "parsing") \/ []<><<Supply>>_<<vars, parserVars>>
===============================================================================
