------------------------------- MODULE MCLexer -------------------------------
EXTENDS Lexer

\* Of the words, "fn" and a type's name that is the beginning of others.
MCWords == {<<"f", "n">>, <<"n">>}

MCWordType == [w \in MCWords |-> IF w = <<"n">> THEN "TypeKeyword" ELSE "Function"]

MCMarkType == [c \in Marks |-> "Plus"]
===============================================================================
