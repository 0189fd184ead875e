--------------------------------- MODULE Parser ---------------------------------
(***************************************************************************)
(* The recursive-descent parser (src/src/compiler: compiler.cpp's buildAST *)
(* and expectToken, expr.cpp, variable.cpp, function.cpp, statement.cpp,   *)
(* block.cpp), on the symbol table that it fills while it parses.          *)
(*                                                                         *)
(* stack is the C++ stack: a frame says where its function goes on, with   *)
(* the locals that are still needed.  A frame on top whose function has    *)
(* made a call finds the node that the call returned in ret.  A token is   *)
(* chosen when the parser first looks at it, so that the behaviours are    *)
(* the parses of all token sequences; consumed tokens are never looked at  *)
(* again.  Of the tree, only the construct that is just finished is kept.  *)
(*                                                                         *)
(* Left out: locations, the texts of exceptions, and the warnings about    *)
(* signedness and size, which change nothing that is built.                *)
(***************************************************************************)
EXTENDS SymbolTable

CONSTANTS Numbers,    \* literals
          Operators,  \* the binary operators used: Plus, Minus, Mul, Div
          MaxTokens   \* bound: tokens of one expression, a symbol counted as two

ASSUME ParserAssumption == Operators \subseteq {"Plus", "Minus", "Mul", "Div"}

VARIABLES ahead,     \* tokens looked at and not consumed
          stack,     \* the frames of the parse functions, innermost last
          ret,       \* what the last finished call returned
          phase,     \* "parsing", "parsed" or "refused"
          read,      \* history: the tokens of the current outermost expression
          built      \* history: the construct that is just finished and its scope

parserVars == <<ahead, stack, ret, phase, read, built>>

Bare == {"Function", "Return", "Assign", "Semicolon", "Comma",
         "LParen", "RParen", "LCurly", "RCurly"} \union Operators

Tokens == [type : Bare, text : {""}]
              \union [type : {"Identifier"}, text : Names]
              \union [type : {"TypeKeyword"}, text : Types]
              \union [type : {"Number"}, text : Numbers]

EndOfFile == [type |-> "EndOfFile", text |-> ""]

NoNode == <<"NULL">>

Nothing == [node |-> NoNode, depth |-> 1]

ParserInit ==
    /\ Init
    /\ ahead = <<>>
    /\ stack = <<>>
    /\ ret = NoNode
    /\ phase = "parsing"
    /\ read = <<>>
    /\ built = Nothing

-----------------------------------------------------------------------------
(***************************************************************************)
(* Tokens                                                                  *)
(***************************************************************************)
Top == stack[Len(stack)]

Below == SubSeq(stack, 1, Len(stack) - 1)

\* The parse function that runs is at this point.
At(label) == phase = "parsing" /\ stack # <<>> /\ Top.at = label

\* parseStatement looks behind an identifier for an assignment.
Lookahead ==
    IF At("body") /\ ahead # <<>> /\ ahead[1].type = "Identifier" THEN 2 ELSE 1

\* Within the bounds, any token may come next.
Upcoming ==
    {t \in Tokens :
        /\ 2 * (nextSymbolId - FirstId) + Len(read) < MaxTokens \/ t.type = "Semicolon"
        /\ t.type = "TypeKeyword" => nextSymbolId < FirstId + MaxSymbols}
      \union {EndOfFile}

Supply ==
    /\ phase = "parsing"
    /\ Len(ahead) < Lookahead
    /\ \E t \in Upcoming : ahead' = Append(ahead, t)
    /\ built' = Nothing
    /\ UNCHANGED <<vars, stack, ret, phase, read>>

Ready == Len(ahead) >= Lookahead

NextType == ahead[1].type

NextIs(type) == Ready /\ NextType = type

\* pos++, within an expression and elsewhere.
Take == ahead' = Tail(ahead) /\ read' = Append(read, ahead[1])

Skip == ahead' = Tail(ahead) /\ UNCHANGED read

\* A CompilerSyntaxException or another exception: compile() exits, and what
\* the parse functions had is gone.
GiveUp ==
    /\ phase' = "refused"
    /\ ahead' = <<>> /\ stack' = <<>> /\ ret' = NoNode /\ read' = <<>>
    /\ built' = Nothing

Refuse == GiveUp /\ UNCHANGED vars

Goto(frame) == stack' = Append(Below, frame)

\* The frames of a call of parseExpression, down to its first parsePrimary.
Expression(min) ==
    <<[at |-> "operator", min |-> min, left |-> NoNode, op |-> ""],
      [at |-> "postfix"], [at |-> "primary"]>>

\* The frame waits for an expression, and with it a new history begins.
GotoExpression(frame) ==
    /\ stack' = Append(Below, frame) \o Expression(0)
    /\ read' = <<>>

\* The construct is done and is added to a body or to ast_owned.
Finish(node) ==
    /\ stack' = Below
    /\ built' = [node |-> node, depth |-> Len(scopes')]
    /\ ret' = NoNode
    /\ read' = <<>>

-----------------------------------------------------------------------------
(***************************************************************************)
(* Expressions                                                             *)
(***************************************************************************)
Precedence(type) ==
    CASE type \in {"Mul", "Div"}    -> 20
      [] type \in {"Plus", "Minus"} -> 10

IsBinop(type) == type \in {"Plus", "Minus", "Mul", "Div"}

Return(node) == stack' = Below /\ ret' = node

Parenthesis ==
    /\ At("primary") /\ NextIs("LParen")
    /\ Take
    /\ stack' = Append(Below, [at |-> "closing"]) \o Expression(0)
    /\ UNCHANGED <<vars, ret, phase, built>>

CloseParenthesis ==
    /\ At("closing") /\ NextIs("RParen")
    /\ Take
    /\ stack' = Below
    /\ UNCHANGED <<vars, ret, phase, built>>

Literal ==
    /\ At("primary") /\ NextIs("Number")
    /\ Take
    /\ Return(<<"NUMBER", ahead[1].text>>)
    /\ UNCHANGED <<vars, phase, built>>

Name ==
    /\ At("primary") /\ NextIs("Identifier")
    /\ Visible(ahead[1].text)
    /\ Take
    /\ Return(<<"VARIABLE", Lookup(ahead[1].text)>>)
    /\ UNCHANGED <<vars, phase, built>>

RefusePrimary ==
    /\ At("primary") /\ Ready
    /\ NextType \notin {"LParen", "Number"}
    /\ NextType = "Identifier" => ~Visible(ahead[1].text)
    /\ Refuse

\* Only a name can be called, in parentheses or not; parsePostfix leaves a
\* parenthesis behind any other node where it is.
EndPostfix ==
    /\ At("postfix") /\ Ready
    /\ NextType # "LParen" \/ ret[1] # "VARIABLE"
    /\ Return(ret)
    /\ UNCHANGED <<vars, ahead, phase, read, built>>

BeginCall ==
    /\ At("postfix") /\ NextIs("LParen")
    /\ ret[1] = "VARIABLE" /\ ret[2].kind = "FUNCTION"
    /\ Take
    /\ Goto([at |-> "call", node |-> <<"FN_CALL", ret[2], <<>>>>])
    /\ ret' = NoNode
    /\ UNCHANGED <<vars, phase, built>>

RefuseCall ==
    /\ At("postfix") /\ NextIs("LParen")
    /\ ret[1] = "VARIABLE" /\ ret[2].kind # "FUNCTION"
    /\ Refuse

\* The call, with the argument that has just been parsed.
WithArgument(call) ==
    IF ret = NoNode THEN call ELSE <<"FN_CALL", call[2], Append(call[3], ret)>>

NextArgument ==
    /\ At("call") /\ Ready
    /\ IF ret = NoNode
       THEN NextType # "RParen" /\ UNCHANGED <<ahead, read>>
       ELSE NextType = "Comma" /\ Take
    /\ stack' = Append(Below, [at |-> "call", node |-> WithArgument(Top.node)])
                    \o Expression(0)
    /\ ret' = NoNode
    /\ UNCHANGED <<vars, phase, built>>

EndCall ==
    /\ At("call") /\ NextIs("RParen")
    /\ Take
    /\ Goto([at |-> "postfix"])
    /\ ret' = WithArgument(Top.node)
    /\ UNCHANGED <<vars, phase, built>>

\* getType knows no type for a call.
Untyped(node) == node[1] = "FN_CALL"

\* What parseExpression has parsed when the operand in ret has come back.
Lefthand ==
    IF Top.left = NoNode THEN ret ELSE <<"BINOP", Top.op, Top.left, ret>>

RefuseOperands ==
    /\ At("operator")
    /\ Top.left # NoNode /\ (Untyped(Top.left) \/ Untyped(ret))
    /\ Refuse

\* Mutant: the type of the right operand is not asked for.
LeftOperandTyped == Top.left # NoNode => ~Untyped(Top.left)

OperandsTyped == Top.left # NoNode => ~Untyped(Top.left) /\ ~Untyped(ret)

\* The operator belongs to this call of parseExpression.
Binds == IsBinop(NextType) /\ Precedence(NextType) >= Top.min

\* Mutant: the right operand takes operators of the same precedence too.
OperatorToTheRight ==
    /\ At("operator") /\ OperandsTyped
    /\ Ready /\ Binds
    /\ Take
    /\ stack' = Append(Below, [at |-> "operator", min |-> Top.min,
                               left |-> Lefthand, op |-> NextType])
                    \o Expression(Precedence(NextType))
    /\ ret' = NoNode
    /\ UNCHANGED <<vars, phase, built>>

Operator ==
    /\ At("operator") /\ OperandsTyped
    /\ Ready /\ Binds
    /\ Take
    /\ stack' = Append(Below, [at |-> "operator", min |-> Top.min,
                               left |-> Lefthand, op |-> NextType])
                    \o Expression(Precedence(NextType) + 1)
    /\ ret' = NoNode
    /\ UNCHANGED <<vars, phase, built>>

EndExpression ==
    /\ At("operator") /\ OperandsTyped
    /\ Ready /\ ~Binds
    /\ Return(Lefthand)
    /\ UNCHANGED <<vars, ahead, phase, read, built>>

Expressions ==
    \/ Parenthesis \/ CloseParenthesis \/ Literal \/ Name \/ RefusePrimary
    \/ EndPostfix \/ BeginCall \/ RefuseCall \/ NextArgument \/ EndCall
    \/ RefuseOperands \/ Operator \/ EndExpression

-----------------------------------------------------------------------------
(***************************************************************************)
(* Declarations                                                            *)
(***************************************************************************)
\* The symbol that decl or decl_fn returns.
NewSymbol(name) == scopes'[Current].symbols[name]

\* expectToken(TypeKeyword), which parseVarDecl was called for.
DeclaredType ==
    /\ At("variable") /\ NextIs("TypeKeyword")
    /\ Skip
    /\ Goto([at |-> "variableName", type |-> ahead[1].text])
    /\ UNCHANGED <<vars, ret, phase, built>>

\* The name is declared before its initialiser is parsed.
DeclareVariable ==
    /\ At("variableName") /\ NextIs("Identifier")
    /\ Decl(ahead[1].text, Top.type)
    /\ Skip
    /\ Goto([at |-> "initialiser", name |-> ahead[1].text])
    /\ UNCHANGED <<ret, phase, built>>

Initialiser ==
    /\ At("initialiser") /\ NextIs("Assign")
    /\ ahead' = Tail(ahead)
    /\ GotoExpression([at |-> "declared", name |-> Top.name])
    /\ UNCHANGED <<vars, ret, phase, built>>

EndDeclaration ==
    /\ At("initialiser") \/ At("declared")
    /\ NextIs("Semicolon")
    /\ ahead' = Tail(ahead)
    /\ UNCHANGED <<vars, phase>>
    /\ Finish(<<"DECLARATION", Lookup(Top.name), ret>>)

\* The kinds of names that a declaration cannot have: declared in this scope,
\* or a builtin's.
RefuseName ==
    /\ \E label \in {"variableName", "functionName", "parameterName"} : At(label)
    /\ NextIs("Identifier")
    /\ RejectDecl(ahead[1].text)
    /\ GiveUp

ReturnType ==
    /\ At("functionType") /\ NextIs("TypeKeyword")
    /\ Skip
    /\ Goto([at |-> "functionName", type |-> ahead[1].text])
    /\ UNCHANGED <<vars, ret, phase, built>>

DeclareFunction ==
    /\ At("functionName") /\ NextIs("Identifier")
    /\ DeclFn(ahead[1].text, Top.type)
    /\ Skip
    /\ Goto([at |-> "functionOpen",
             node |-> <<"FN_DEF", NewSymbol(ahead[1].text), <<>>>>])
    /\ UNCHANGED <<ret, phase, built>>

OpenParameters ==
    /\ At("functionOpen") /\ NextIs("LParen")
    /\ Skip
    /\ Goto([at |-> "parameters", node |-> Top.node])
    /\ UNCHANGED <<vars, ret, phase, built>>

ParameterType ==
    /\ At("parameters") /\ NextIs("TypeKeyword")
    /\ Skip
    /\ Goto([at |-> "parameterName", type |-> ahead[1].text, node |-> Top.node])
    /\ UNCHANGED <<vars, ret, phase, built>>

\* A parameter is declared in the scope around the function.  matchToken then
\* compares the token only behind the end of the tokens, so it finds no comma
\* and the loop ends.
DeclareParameter ==
    /\ At("parameterName") /\ NextIs("Identifier")
    /\ Decl(ahead[1].text, Top.type)
    /\ Skip
    /\ Goto([at |-> "parametersEnd",
             node |-> <<"FN_DEF", Top.node[2],
                        Append(Top.node[3], NewSymbol(ahead[1].text))>>])
    /\ UNCHANGED <<ret, phase, built>>

\* Mutant: the body's scope takes the parameter from the scope around it.
CloseParametersMoving ==
    /\ At("parametersEnd") /\ NextIs("RParen")
    /\ LET p == Top.node[3][1]
           n == CHOOSE m \in Names : scopes[Current].symbols[m] = p
       IN  scopes' = Append([scopes EXCEPT ![Current].symbols[n] = Undeclared],
                            [symbols    |-> [EmptyMap EXCEPT ![n] = p],
                             nextOffset |-> scopes[Current].nextOffset])
    /\ Skip
    /\ Goto([at |-> "block", node |-> Top.node])
    /\ UNCHANGED <<nextSymbolId, status, ret, phase, built>>

\* Nor does matchToken find the semicolon of a declaration without body: the
\* scope of the body is entered.
CloseParameters ==
    /\ At("parameters") \/ At("parametersEnd")
    /\ NextIs("RParen")
    /\ Enter
    /\ Skip
    /\ Goto([at |-> "block", node |-> Top.node])
    /\ UNCHANGED <<ret, phase, built>>

BeginBlock ==
    /\ At("block") /\ NextIs("LCurly")
    /\ Skip
    /\ Goto([at |-> "body", node |-> Top.node])
    /\ UNCHANGED <<vars, ret, phase, built>>

\* Mutant: the scope of the body stays the current one.
EndBlockStaying ==
    /\ At("body") /\ NextIs("RCurly")
    /\ ahead' = Tail(ahead)
    /\ UNCHANGED <<vars, phase>>
    /\ Finish(Top.node)

\* The body ends, and with it the scope.
EndBlock ==
    /\ At("body") /\ NextIs("RCurly")
    /\ Leave
    /\ ahead' = Tail(ahead)
    /\ UNCHANGED phase
    /\ Finish(Top.node)

Declarations ==
    \/ DeclaredType \/ DeclareVariable \/ Initialiser \/ EndDeclaration
    \/ RefuseName \/ ReturnType \/ DeclareFunction \/ OpenParameters
    \/ ParameterType \/ DeclareParameter \/ CloseParameters
    \/ BeginBlock \/ EndBlock

-----------------------------------------------------------------------------
(***************************************************************************)
(* Statements of a body, and the constructs of the file                    *)
(***************************************************************************)
\* A construct begins.
Call(frames) == stack' = stack \o frames /\ built' = Nothing

BeginReturn ==
    /\ At("body") /\ NextIs("Return")
    /\ Skip
    /\ Call(<<[at |-> "returnValue"]>>)
    /\ UNCHANGED <<vars, ret, phase>>

ReturnValue ==
    /\ At("returnValue") /\ Ready
    /\ NextType \notin {"Semicolon", "RCurly"}
    /\ GotoExpression([at |-> "returned"])
    /\ UNCHANGED <<vars, ahead, ret, phase, built>>

\* Mutant: the token behind a return is taken for its semicolon.
EndReturnTaking ==
    /\ \/ At("returnValue") /\ Ready /\ NextType \in {"Semicolon", "RCurly"}
       \/ At("returned") /\ Ready
    /\ ahead' = Tail(ahead)
    /\ UNCHANGED <<vars, phase>>
    /\ Finish(<<"FN_RET", ret>>)

\* The semicolon of a return may be missing.
EndReturn ==
    /\ \/ At("returnValue") /\ Ready /\ NextType \in {"Semicolon", "RCurly"}
       \/ At("returned") /\ Ready
    /\ ahead' = IF NextType = "Semicolon" THEN Tail(ahead) ELSE ahead
    /\ UNCHANGED <<vars, phase>>
    /\ Finish(<<"FN_RET", ret>>)

\* parseStatement: a declaration.
LocalDeclaration ==
    /\ At("body") /\ NextIs("TypeKeyword")
    /\ Call(<<[at |-> "variable"]>>)
    /\ UNCHANGED <<vars, ahead, ret, phase, read>>

IsAssignment == NextIs("Identifier") /\ ahead[2].type = "Assign"

Assignment ==
    /\ At("body") /\ IsAssignment
    /\ Visible(ahead[1].text)
    /\ ahead' = Tail(Tail(ahead))
    /\ read' = <<>>
    /\ Call(<<[at |-> "assigned", target |-> Lookup(ahead[1].text)]>>
                \o Expression(0))
    /\ UNCHANGED <<vars, ret, phase>>

\* Mutant: parseStatement returns no statement, which parseBlock allows for.
SkipAssignment ==
    /\ At("body") /\ IsAssignment
    /\ ~Visible(ahead[1].text)
    /\ UNCHANGED <<vars, parserVars>>

RefuseAssignment ==
    /\ At("body") /\ IsAssignment
    /\ ~Visible(ahead[1].text)
    /\ Refuse

\* A call on the right is told where its result goes.
EndAssignment ==
    /\ At("assigned") /\ NextIs("Semicolon")
    /\ ahead' = Tail(ahead)
    /\ UNCHANGED <<vars, phase>>
    /\ Finish(<<"ASSIGNMENT", Top.target, ret,
                IF ret[1] = "FN_CALL" THEN "to target" ELSE "">>)

\* Any other token begins an expression: in a body, and in the file.
ExpressionStatement ==
    /\ \/ At("body") /\ Ready /\ ~IsAssignment
          /\ NextType \notin {"RCurly", "EndOfFile", "Return", "TypeKeyword"}
       \/ phase = "parsing" /\ stack = <<>> /\ Ready
          /\ NextType \notin {"EndOfFile", "TypeKeyword", "Function"}
    /\ Call(<<[at |-> "statement"]>> \o Expression(0))
    /\ read' = <<>>
    /\ UNCHANGED <<vars, ahead, ret, phase>>

EndStatement ==
    /\ At("statement") /\ NextIs("Semicolon")
    /\ ahead' = Tail(ahead)
    /\ UNCHANGED <<vars, phase>>
    /\ Finish(ret)

GlobalDeclaration ==
    /\ phase = "parsing" /\ stack = <<>>
    /\ NextIs("TypeKeyword")
    /\ Call(<<[at |-> "variable"]>>)
    /\ UNCHANGED <<vars, ahead, ret, phase, read>>

GlobalFunction ==
    /\ phase = "parsing" /\ stack = <<>>
    /\ NextIs("Function")
    /\ Skip
    /\ Call(<<[at |-> "functionType"]>>)
    /\ UNCHANGED <<vars, ret, phase>>

EndParse ==
    /\ phase = "parsing" /\ stack = <<>>
    /\ NextIs("EndOfFile")
    /\ phase' = "parsed"
    /\ UNCHANGED <<vars, ahead, stack, ret, read, built>>

Statements ==
    \/ BeginReturn \/ ReturnValue \/ EndReturn \/ LocalDeclaration
    \/ Assignment \/ RefuseAssignment \/ EndAssignment
    \/ ExpressionStatement \/ EndStatement
    \/ GlobalDeclaration \/ GlobalFunction \/ EndParse

-----------------------------------------------------------------------------
\* What expectToken asks for at a point where only these tokens may follow.
Expected(label) ==
    CASE label = "closing"                           -> {"RParen"}
      [] label = "variableName"                      -> {"Identifier"}
      [] label = "initialiser"                       -> {"Assign", "Semicolon"}
      [] label \in {"declared", "assigned", "statement"} -> {"Semicolon"}
      [] label = "functionType"                      -> {"TypeKeyword"}
      [] label \in {"functionName", "parameterName"} -> {"Identifier"}
      [] label = "functionOpen"                      -> {"LParen"}
      [] label = "parameters"                        -> {"TypeKeyword", "RParen"}
      [] label = "parametersEnd"                     -> {"RParen"}
      [] label = "block"                             -> {"LCurly"}

RefuseToken ==
    /\ phase = "parsing" /\ stack # <<>> /\ Ready
    /\ \/ /\ Top.at \in {"closing", "variableName", "initialiser", "declared",
                         "assigned", "statement", "functionType", "functionName",
                         "parameterName", "functionOpen", "parameters",
                         "parametersEnd", "block"}
          /\ NextType \notin Expected(Top.at)
       \/ Top.at = "call" /\ ret # NoNode /\ NextType \notin {"Comma", "RParen"}
       \/ Top.at = "body" /\ NextType = "EndOfFile"
    /\ Refuse

ParserNext ==
    \/ Supply \/ Expressions \/ Declarations \/ Statements \/ RefuseToken

\* The parser waits for nothing, and the tokens are there before it starts.
ParserSpec ==
    ParserInit /\ [][ParserNext]_<<vars, parserVars>>
               /\ WF_<<vars, parserVars>>(ParserNext)

-----------------------------------------------------------------------------
ParserTypeOK ==
    /\ TypeOK
    /\ ahead \in Seq(Tokens \union {EndOfFile}) /\ Len(ahead) <= 2
    /\ phase \in {"parsing", "parsed", "refused"}
    /\ read \in Seq(Tokens)
    /\ built.depth \in 1 .. 2
    \* a second scope is open exactly in a body, which is a global function's
    /\ phase # "refused" =>
          Len(scopes) = IF \E i \in DOMAIN stack : stack[i].at \in {"block", "body"}
                        THEN 2 ELSE 1

EndIsAhead == \E i \in DOMAIN ahead : ahead[i] = EndOfFile

(***************************************************************************)
(* The parser does not move beyond the token that ends the file: it would  *)
(* read behind the vector of tokens (pos++ in compiler.cpp and expr.cpp).  *)
(***************************************************************************)
EndOfFileStays ==
    [][EndIsAhead /\ phase' # "refused" => EndIsAhead']_<<vars, parserVars>>
===============================================================================
