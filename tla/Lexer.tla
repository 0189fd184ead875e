--------------------------------- MODULE Lexer ---------------------------------
(***************************************************************************)
(* The lexer (Lexer::tokenize, src/src/compiler/lexer.cpp): one scan over  *)
(* the source text, with the place of every token in lines and columns.    *)
(*                                                                         *)
(* A character stands for its class: what matters of a letter is the words *)
(* it is part of.  at says which loop of tokenize runs: the outer one      *)
(* ("token"), or one that collects a number or a word.  Left out: the name *)
(* of the file, which every token gets alike, and bytes that are no ASCII. *)
(***************************************************************************)
EXTENDS Integers, Sequences, FiniteSetsExt

CONSTANTS
    Letters, Digits, Blanks,   \* isalpha, isdigit, isspace without NewLine
    NewLine, Quote, Underscore,
    Marks,        \* the characters that are a token ...
    MarkType,     \* ... and its type
    Unknown,      \* the other characters
    Words,        \* fn, return and the names of types ...
    WordType,     \* ... and their token types
    MaxSource     \* bound: characters of the source

\* No character is in two classes, and a token's type tells marks and words
\* from what is neither.
ASSUME LexerAssumption ==
    /\ LET Classes == <<Letters, Digits, Blanks, Marks, Unknown,
                        {NewLine}, {Quote}, {Underscore}>>
       IN  \A i, j \in DOMAIN Classes : i # j => Classes[i] \intersect Classes[j] = {}
    /\ \A w \in Words : WordType[w] \notin {"Number", "EndOfFile"}
    /\ \A c \in Marks : MarkType[c] \notin {"Number", "EndOfFile", "Identifier"}
                                             \union {WordType[w] : w \in Words}
    /\ MaxSource \in Nat

Spaces == Blanks \union {NewLine}

Chars == Letters \union Digits \union Spaces \union Marks \union Unknown
            \union {Quote, Underscore}

VARIABLES src, pos, line, col,
          at,         \* "token", "number", "word", "done" or "refused"
          text,       \* numstr or str, the token so far
          from,       \* tok_col
          tokens

lexVars == <<src, pos, line, col, at, text, from, tokens>>

LexerInit ==
    /\ src \in UNION {[1 .. n -> Chars] : n \in 0 .. MaxSource}
    /\ pos = 0 /\ line = 1 /\ col = 1
    /\ at = "token" /\ text = <<>> /\ from = 1
    /\ tokens = <<>>

-----------------------------------------------------------------------------
NextIn(class) == pos < Len(src) /\ src[pos + 1] \in class

\* Mutant: a new line does not begin at the first column.
GetAcrossLines ==
    /\ pos' = pos + 1
    /\ line' = IF src[pos + 1] = NewLine THEN line + 1 ELSE line
    /\ col' = col + 1

\* get(), before the end.
Get ==
    /\ pos' = pos + 1
    /\ IF src[pos + 1] = NewLine
       THEN line' = line + 1 /\ col' = 1
       ELSE line' = line /\ col' = col + 1

Push(type, word, c) ==
    tokens' = Append(tokens, [type |-> type, text |-> word,
                              line |-> line', col |-> c])

\* Mutant: the blank is looked at, not taken.
PeekSpace ==
    /\ at = "token" /\ NextIn(Spaces)
    /\ UNCHANGED lexVars

SkipSpace ==
    /\ at = "token" /\ NextIn(Spaces)
    /\ Get
    /\ UNCHANGED <<src, at, text, from, tokens>>

Collect(label) ==
    /\ at' = label /\ text' = <<>> /\ from' = col
    /\ UNCHANGED <<src, pos, line, col, tokens>>

BeginNumber == at = "token" /\ NextIn(Digits) /\ Collect("number")

\* An underscore may follow a digit, and stays in the token's text.
InNumber == NextIn(Digits) \/ (text # <<>> /\ NextIn({Underscore}))

NumberChar ==
    /\ at = "number" /\ InNumber
    /\ text' = Append(text, src[pos + 1])
    /\ Get
    /\ UNCHANGED <<src, at, from, tokens>>

\* Mutant: the loop takes the character that ends the number.
EndNumberTaking ==
    /\ at = "number" /\ ~InNumber
    /\ IF pos < Len(src) THEN Get ELSE UNCHANGED <<pos, line, col>>
    /\ Push("Number", text, from)
    /\ at' = "token"
    /\ UNCHANGED <<src, text, from>>

EndNumber ==
    /\ at = "number" /\ ~InNumber
    /\ UNCHANGED <<src, pos, line, col, text, from>>
    /\ Push("Number", text, from)
    /\ at' = "token"

\* The text of a character literal is the character's code in digits.
CodeOf(c) == <<Quote, c>>

\* Mutant: what stands behind the character is not looked at.
ClosedByAny == pos + 2 <= Len(src)

Closed == pos + 3 <= Len(src) /\ src[pos + 3] = Quote

\* Three calls of get().  A line break in the literal counts as one, and the
\* token is pushed with the line behind it and the column before it.
CharLiteral ==
    /\ at = "token" /\ NextIn({Quote}) /\ Closed
    /\ pos' = pos + 3
    /\ IF src[pos + 2] = NewLine
       THEN line' = line + 1 /\ col' = 2
       ELSE line' = line /\ col' = col + 3
    /\ Push("Number", CodeOf(src[pos + 2]), col)
    /\ UNCHANGED <<src, at, text, from>>

\* CompilerSyntaxException: Expected closing quote.
RefuseQuote ==
    /\ at = "token" /\ NextIn({Quote}) /\ ~Closed
    /\ at' = "refused"
    /\ UNCHANGED <<src, pos, line, col, text, from, tokens>>

BeginWord == at = "token" /\ NextIn(Letters) /\ Collect("word")

\* Mutant: an underscore ends a word.
InPlainWord == NextIn(Letters \union Digits)

InWord == NextIn(Letters \union Digits \union {Underscore})

WordChar ==
    /\ at = "word" /\ InWord
    /\ text' = Append(text, src[pos + 1])
    /\ Get
    /\ UNCHANGED <<src, at, from, tokens>>

EndWord ==
    /\ at = "word" /\ ~InWord
    /\ UNCHANGED <<src, pos, line, col, text, from>>
    /\ Push(IF text \in Words THEN WordType[text] ELSE "Identifier", text, from)
    /\ at' = "token"

Mark ==
    /\ at = "token" /\ NextIn(Marks)
    /\ Get
    /\ Push(MarkType[src[pos + 1]], <<src[pos + 1]>>, col)
    /\ UNCHANGED <<src, at, text, from>>

\* Unknown character: a word does not begin with an underscore.
RefuseChar ==
    /\ at = "token" /\ NextIn(Unknown \union {Underscore})
    /\ at' = "refused"
    /\ UNCHANGED <<src, pos, line, col, text, from, tokens>>

EndTokens ==
    /\ at = "token" /\ pos = Len(src)
    /\ UNCHANGED <<src, pos, line, col, text, from>>
    /\ Push("EndOfFile", <<>>, col)
    /\ at' = "done"

LexerNext ==
    \/ SkipSpace \/ BeginNumber \/ NumberChar \/ EndNumber
    \/ CharLiteral \/ RefuseQuote \/ BeginWord \/ WordChar \/ EndWord
    \/ Mark \/ RefuseChar \/ EndTokens

\* tokenize waits for nothing.
LexerSpec == LexerInit /\ [][LexerNext]_lexVars /\ WF_lexVars(LexerNext)

-----------------------------------------------------------------------------
(***************************************************************************)
(* Where a token stands in the source, from its line and column alone.     *)
(***************************************************************************)
Breaks(p) == {i \in 1 .. p : src[i] = NewLine}

LineAt(p) == 1 + Cardinality(Breaks(p))

ColumnAt(p) == p + 1 - (IF Breaks(p) = {} THEN 0 ELSE Max(Breaks(p)))

\* The literal of a line break is given the line that it ends in.
FirstLine(t) == IF t.text = CodeOf(NewLine) THEN t.line - 1 ELSE t.line

Spelling(t) ==
    IF t.text # <<>> /\ t.text[1] = Quote THEN Append(t.text, Quote) ELSE t.text

\* The line and column of t are those of the place behind p characters.
Places(t, p) == LineAt(p) = FirstLine(t) /\ ColumnAt(p) = t.col

Before(t) == CHOOSE p \in 0 .. Len(src) : Places(t, p)

Behind(t) == Before(t) + Len(Spelling(t))

LexerTypeOK ==
    /\ pos \in 0 .. Len(src)
    /\ at \in {"token", "number", "word", "done", "refused"}
    /\ text \in Seq(Chars) /\ from \in 1 .. MaxSource + 1
    /\ \A i \in DOMAIN tokens :
          tokens[i].type = "EndOfFile" <=> at = "done" /\ i = Len(tokens)

(***************************************************************************)
(* The line and column of a token lead to its spelling in the source, over *)
(* line breaks between tokens and in literals: the diagnostics show the    *)
(* source at that place.                                                   *)
(***************************************************************************)
Located ==
    /\ line = LineAt(pos) /\ col = ColumnAt(pos)
    /\ \A i \in DOMAIN tokens :
         LET t == tokens[i]
         IN  \E p \in 0 .. pos :
                /\ Places(t, p)
                /\ SubSeq(src, p + 1, p + Len(Spelling(t))) = Spelling(t)

\* The character behind a token would not have been part of it.
Longest(t) ==
    Behind(t) < Len(src) =>
        CASE t.type = "Number" /\ t.text[1] # Quote ->
                 src[Behind(t) + 1] \notin Digits \union {Underscore}
          [] t.type \in {"Identifier"} \union {WordType[w] : w \in Words} ->
                 src[Behind(t) + 1] \notin Letters \union Digits \union {Underscore}
          [] OTHER -> TRUE

(***************************************************************************)
(* Nothing is read twice and nothing is lost: the tokens follow each other *)
(* in the source, each as long as it can be, and only spaces lie between   *)
(* them and behind the last one that is read.                              *)
(***************************************************************************)
NothingLost ==
    LET starts == [i \in DOMAIN tokens |-> Before(tokens[i])]
        ends   == [i \in DOMAIN tokens |-> Behind(tokens[i])]
        Read   == UNION {starts[i] + 1 .. ends[i] : i \in DOMAIN tokens}
    IN  at \in {"token", "done", "refused"} =>
            /\ \A i \in 1 .. Len(tokens) - 1 : ends[i] <= starts[i + 1]
            /\ \A k \in 1 .. pos \ Read : src[k] \in Spaces
            /\ \A i \in DOMAIN tokens : ends[i] <= pos /\ Longest(tokens[i])

\* A piece of the source that is a token, or a space between tokens.
IsLexeme(s) ==
    \/ Len(s) = 1 /\ s[1] \in Spaces \union Marks
    \/ Len(s) = 3 /\ s[1] = Quote /\ s[3] = Quote
    \/ s[1] \in Digits /\ \A i \in DOMAIN s : s[i] \in Digits \union {Underscore}
    \/ s[1] \in Letters
          /\ \A i \in DOMAIN s : s[i] \in Letters \union Digits \union {Underscore}

\* From p on, the source can be divided into tokens and spaces.
Divisible[p \in 0 .. Len(src)] ==
    \/ p = Len(src)
    \/ \E q \in p + 1 .. Len(src) : IsLexeme(SubSeq(src, p + 1, q)) /\ Divisible[q]

(***************************************************************************)
(* Taking the longest token each time never spoils a source: one that is   *)
(* refused cannot be divided into tokens in any other way either.          *)
(***************************************************************************)
RefusedForCause == at = "refused" => ~Divisible[0]

\* The scan comes to its end, with or without an exception.
ScanEnds == <>(at \in {"done", "refused"})
===============================================================================
