------------------------------ MODULE LexerProofs ------------------------------
(***************************************************************************)
(* What the lexer makes of a source text, for every text of any length and *)
(* any characters in the classes.                                          *)
(***************************************************************************)
EXTENDS Lexer, FiniteSetTheorems, SequenceTheorems, WellFoundedInduction, TLAPS

LEMMA ClassesApart ==
    /\ \A c \in Letters : c \notin Digits /\ c # NewLine /\ c # Quote /\ c # Underscore
    /\ \A c \in Digits : c # NewLine /\ c # Quote /\ c # Underscore
    /\ \A c \in Marks : c # Quote /\ c # NewLine
    /\ Underscore # NewLine /\ Underscore # Quote /\ Quote # NewLine
<1> DEFINE Classes == <<Letters, Digits, Blanks, Marks, Unknown,
                        {NewLine}, {Quote}, {Underscore}>>
<1>1. \A i, j \in 1 .. 8 : i # j => Classes[i] \intersect Classes[j] = {}
  BY LexerAssumption
<1>2. /\ Classes[1] = Letters /\ Classes[2] = Digits /\ Classes[4] = Marks
      /\ Classes[6] = {NewLine} /\ Classes[7] = {Quote} /\ Classes[8] = {Underscore}
  OBVIOUS
<1> HIDE DEF Classes
<1>3. /\ Letters \intersect Digits = {} /\ Letters \intersect {NewLine} = {}
      /\ Letters \intersect {Quote} = {} /\ Letters \intersect {Underscore} = {}
      /\ Digits \intersect {NewLine} = {}
      /\ Digits \intersect {Quote} = {} /\ Digits \intersect {Underscore} = {}
      /\ Marks \intersect {Quote} = {} /\ Marks \intersect {NewLine} = {}
      /\ {Underscore} \intersect {NewLine} = {} /\ {Underscore} \intersect {Quote} = {}
      /\ {Quote} \intersect {NewLine} = {}
  <2>1. /\ Classes[1] \intersect Classes[2] = {} /\ Classes[1] \intersect Classes[6] = {}
        /\ Classes[1] \intersect Classes[7] = {} /\ Classes[1] \intersect Classes[8] = {}
        /\ Classes[2] \intersect Classes[6] = {}
        /\ Classes[2] \intersect Classes[7] = {} /\ Classes[2] \intersect Classes[8] = {}
        /\ Classes[4] \intersect Classes[7] = {} /\ Classes[4] \intersect Classes[6] = {}
        /\ Classes[8] \intersect Classes[6] = {} /\ Classes[8] \intersect Classes[7] = {}
        /\ Classes[7] \intersect Classes[6] = {}
    BY <1>1
  <2> QED
    BY <1>2, <2>1
<1> QED
  BY <1>3

-----------------------------------------------------------------------------
(***************************************************************************)
(* Lines and columns: no two places of a source have both in common.       *)
(***************************************************************************)
LEMMA BreaksTyped ==
    ASSUME NEW p \in Nat
    PROVE  /\ Breaks(p) \subseteq 1 .. p
           /\ IsFiniteSet(Breaks(p))
           /\ Cardinality(Breaks(p)) \in Nat
<1>1. Breaks(p) \subseteq 1 .. p
  BY DEF Breaks
<1>2. IsFiniteSet(1 .. p)
  BY FS_Interval
<1>3. IsFiniteSet(Breaks(p))
  BY <1>1, <1>2, FS_Subset
<1> QED
  BY <1>1, <1>3, FS_CardinalityType

Less == {ss \in Nat \X Nat : ss[1] < ss[2]}

\* The numbers up to n that have a property have a greatest one.
LEMMA GreatestBelow ==
    ASSUME NEW n \in Nat, NEW T \in SUBSET (0 .. n), T # {}
    PROVE  \E x \in T : \A y \in T : y <= x
<1> DEFINE Distances == {n - x : x \in T}
<1>1. Distances \in SUBSET Nat /\ Distances # {}
  <2>1. \A x \in T : n - x \in Nat
    OBVIOUS
  <2> QED
    BY <2>1
<1>2. IsWellFoundedOn(Less, Nat)
  BY NatLessThanWellFounded DEF OpToRel, Less
<1> HIDE DEF Distances
<1>3. PICK d \in Distances : \A e \in Distances : ~(<<e, d>> \in Less)
  BY <1>1, <1>2, WFMin
<1>4. \A e \in Distances : d <= e
  <2> SUFFICES ASSUME NEW e \in Distances PROVE d <= e
    OBVIOUS
  <2>1. e \in Nat /\ d \in Nat /\ ~(<<e, d>> \in Less)
    BY <1>1, <1>3
  <2>2. ~(e < d)
    BY <2>1 DEF Less
  <2> QED
    BY <2>1, <2>2
<1>5. PICK x \in T : d = n - x
  BY DEF Distances
<1>6. \A y \in T : n - y \in Distances /\ y \in Int
  BY DEF Distances
<1>7. \A y \in T : y <= x
  BY <1>4, <1>5, <1>6
<1> QED
  BY <1>7

LEMMA MaxIs ==
    ASSUME NEW T, NEW x \in T, \A y \in T : y \in Int /\ y <= x
    PROVE  Max(T) = x
<1>1. \A z \in T : (\A y \in T : z >= y) => z = x
  OBVIOUS
<1>2. \A y \in T : x >= y
  OBVIOUS
<1> QED
  BY <1>1, <1>2 DEF Max

LEMMA LastBreak ==
    ASSUME NEW p \in Nat, Breaks(p) # {}
    PROVE  Max(Breaks(p)) \in 1 .. p
<1>1. Breaks(p) \in SUBSET (1 .. p) /\ Breaks(p) \in SUBSET (0 .. p)
  BY BreaksTyped
<1>2. PICK x \in Breaks(p) : \A y \in Breaks(p) : y <= x
  BY <1>1, GreatestBelow
<1>3. \A y \in Breaks(p) : y \in Int
  BY <1>1
<1>4. Max(Breaks(p)) = x
  BY <1>2, <1>3, MaxIs
<1> QED
  BY <1>1, <1>4

LEMMA PlaceTyped ==
    ASSUME NEW p \in Nat
    PROVE  LineAt(p) \in Nat /\ ColumnAt(p) \in 1 .. p + 1
<1>1. LineAt(p) \in Nat
  BY BreaksTyped DEF LineAt
<1>2. CASE Breaks(p) = {}
  BY <1>1, <1>2 DEF ColumnAt
<1>3. CASE Breaks(p) # {}
  <2>1. Max(Breaks(p)) \in 1 .. p
    BY <1>3, LastBreak
  <2> QED
    BY <1>1, <1>3, <2>1 DEF ColumnAt
<1> QED
  BY <1>2, <1>3

\* What get() does to the line and the column.
LEMMA PlaceNext ==
    ASSUME NEW p \in Nat
    PROVE  IF src[p + 1] = NewLine
           THEN LineAt(p + 1) = LineAt(p) + 1 /\ ColumnAt(p + 1) = 1
           ELSE LineAt(p + 1) = LineAt(p) /\ ColumnAt(p + 1) = ColumnAt(p) + 1
<1>1. \A i : i \in 1 .. p + 1 <=> i \in 1 .. p \/ i = p + 1
  OBVIOUS
<1>2. p + 1 \notin Breaks(p)
  BY BreaksTyped
<1>3. CASE src[p + 1] = NewLine
  <2>1. Breaks(p + 1) = Breaks(p) \union {p + 1}
    BY <1>1, <1>3 DEF Breaks
  <2>2. Cardinality(Breaks(p + 1)) = Cardinality(Breaks(p)) + 1
    BY <1>2, <2>1, BreaksTyped, FS_AddElement
  <2>3. \A y \in Breaks(p + 1) : y \in Int /\ y <= p + 1
    BY <2>1, BreaksTyped
  <2>4. Max(Breaks(p + 1)) = p + 1 /\ Breaks(p + 1) # {}
    BY <2>1, <2>3, MaxIs
  <2>5. LineAt(p + 1) = LineAt(p) + 1
    BY <2>2, BreaksTyped DEF LineAt
  <2>6. ColumnAt(p + 1) = 1
    BY <2>4 DEF ColumnAt
  <2> QED
    BY <1>3, <2>5, <2>6
<1>4. CASE src[p + 1] # NewLine
  <2>1. Breaks(p + 1) = Breaks(p)
    BY <1>1, <1>4 DEF Breaks
  <2>2. LineAt(p + 1) = LineAt(p)
    BY <2>1 DEF LineAt
  <2>3. ColumnAt(p + 1) = ColumnAt(p) + 1
    <3>1. Breaks(p) # {} => Max(Breaks(p)) \in 1 .. p
      BY LastBreak
    <3> QED
      BY <2>1, <3>1 DEF ColumnAt
  <2> QED
    BY <1>4, <2>2, <2>3
<1> QED
  BY <1>3, <1>4

LEMMA PlacesInOrder ==
    ASSUME NEW p \in Nat, NEW q \in Nat, p <= q,
           LineAt(p) = LineAt(q), ColumnAt(p) = ColumnAt(q)
    PROVE  p = q
<1>1. Cardinality(Breaks(p)) = Cardinality(Breaks(q))
  BY BreaksTyped DEF LineAt
<1>2. Breaks(p) \in SUBSET Breaks(q)
  <2>1. \A i \in 1 .. p : i \in 1 .. q
    OBVIOUS
  <2> QED
    BY <2>1 DEF Breaks
<1>3. Breaks(q) = Breaks(p)
  BY <1>1, <1>2, BreaksTyped, FS_Subset
<1>4. Breaks(p) # {} => Max(Breaks(p)) \in 1 .. p
  BY LastBreak
<1> QED
  BY <1>3, <1>4 DEF ColumnAt

LEMMA PlacesDiffer ==
    ASSUME NEW p \in Nat, NEW q \in Nat,
           LineAt(p) = LineAt(q), ColumnAt(p) = ColumnAt(q)
    PROVE  p = q
<1>1. p <= q \/ q <= p
  OBVIOUS
<1> QED
  BY <1>1, PlacesInOrder

\* A token's line and column say where it begins.
LEMMA BeforeIs ==
    ASSUME Len(src) \in Nat, NEW t, NEW p \in 0 .. Len(src), Places(t, p)
    PROVE  Before(t) = p
<1>1. \A q \in 0 .. Len(src) : Places(t, q) => q = p
  <2> SUFFICES ASSUME NEW q \in 0 .. Len(src), Places(t, q) PROVE q = p
    OBVIOUS
  <2>1. LineAt(p) = LineAt(q) /\ ColumnAt(p) = ColumnAt(q)
    BY DEF Places
  <2> QED
    BY <2>1, PlacesDiffer
<1>2. (CHOOSE q \in 0 .. Len(src) : Places(t, q)) = p
  BY <1>1
<1> QED
  BY <1>2 DEF Before

-----------------------------------------------------------------------------
(***************************************************************************)
(* Parts of the source.                                                    *)
(***************************************************************************)
Text(p, q) == SubSeq(src, p + 1, q)

LEMMA TextLayout ==
    ASSUME src \in Seq(Chars), NEW p \in Nat, NEW q \in Nat, p <= q, q <= Len(src)
    PROVE  /\ Text(p, q) \in Seq(Chars)
           /\ Len(Text(p, q)) = q - p
           /\ \A k \in 1 .. q - p : Text(p, q)[k] = src[p + k]
<1>1. PICK m \in Int : m = p + 1
  OBVIOUS
<1>2. \A i \in m .. q : src[i] \in Chars
  BY <1>1
<1>3. /\ SubSeq(src, m, q) \in Seq(Chars)
      /\ Len(SubSeq(src, m, q)) = IF m <= q THEN q - m + 1 ELSE 0
      /\ \A k \in 1 .. q - m + 1 : SubSeq(src, m, q)[k] = src[m + k - 1]
  <2>1. q \in Int
    OBVIOUS
  <2> QED
    BY <1>2, <2>1, SubSeqProperties
<1>4. q - m + 1 = q - p /\ \A k \in Int : m + k - 1 = p + k
  BY <1>1
<1>5. (IF m <= q THEN q - m + 1 ELSE 0) = q - p
  BY <1>1
<1> QED
  BY <1>1, <1>3, <1>4, <1>5 DEF Text

\* A part of the source, told by its length and its characters.
LEMMA TextIs ==
    ASSUME src \in Seq(Chars), NEW p \in Nat, NEW q \in Nat, p <= q, q <= Len(src),
           NEW s \in Seq(Chars), Len(s) = q - p,
           \A k \in 1 .. q - p : s[k] = src[p + k]
    PROVE  Text(p, q) = s
<1>1. /\ Text(p, q) \in Seq(Chars)
      /\ Len(Text(p, q)) = Len(s)
      /\ \A k \in 1 .. Len(Text(p, q)) : Text(p, q)[k] = s[k]
  BY TextLayout
<1> QED
  BY <1>1, SeqEqual

LEMMA TextGrows ==
    ASSUME src \in Seq(Chars), NEW p \in Nat, NEW q \in Nat, p <= q, q < Len(src)
    PROVE  Append(Text(p, q), src[q + 1]) = Text(p, q + 1)
<1> DEFINE c == src[q + 1]
           s == Append(Text(p, q), c)
<1>1. /\ Text(p, q) \in Seq(Chars) /\ Len(Text(p, q)) = q - p
      /\ \A k \in 1 .. q - p : Text(p, q)[k] = src[p + k]
  <2>1. q <= Len(src)
    OBVIOUS
  <2> QED
    BY <2>1, TextLayout
<1>2. c \in Chars
  BY LenProperties
<1>3. /\ s \in Seq(Chars) /\ Len(s) = (q - p) + 1
      /\ \A k \in 1 .. q - p : s[k] = Text(p, q)[k]
      /\ s[(q - p) + 1] = c
  <2> DEFINE T == Text(p, q)
  <2> HIDE DEF c, T
  <2>1. T \in Seq(Chars) /\ Len(T) = q - p
    BY <1>1 DEF T
  <2>2. /\ Append(T, c) \in Seq(Chars) /\ Len(Append(T, c)) = Len(T) + 1
        /\ \A k \in 1 .. Len(T) : Append(T, c)[k] = T[k]
        /\ Append(T, c)[Len(T) + 1] = c
    BY <1>2, <2>1, AppendProperties
  <2> QED
    BY <2>1, <2>2 DEF T
<1> HIDE DEF s
<1>4. \A k \in 1 .. (q + 1) - p : s[k] = src[p + k]
  <2> SUFFICES ASSUME NEW k \in 1 .. (q + 1) - p PROVE s[k] = src[p + k]
    OBVIOUS
  <2>1. CASE k \in 1 .. q - p
    BY <1>1, <1>3, <2>1
  <2>2. CASE k = (q - p) + 1
    <3>1. p + k = q + 1
      BY <2>2
    <3> QED
      BY <1>3, <2>2, <3>1
  <2> QED
    BY <2>1, <2>2
<1>5. Len(s) = (q + 1) - p /\ q + 1 \in Nat /\ p <= q + 1 /\ q + 1 <= Len(src)
  BY <1>3
<1>6. Text(p, q + 1) = s
  BY <1>3, <1>4, <1>5, TextIs
<1> QED
  BY <1>6 DEF s

-----------------------------------------------------------------------------
(***************************************************************************)
(* The invariant.  Up to some place, where the token begins that is being  *)
(* collected, the source is what the tokens say and spaces.                *)
(***************************************************************************)
Token ==
    [type : {"Number", "Identifier", "EndOfFile"} \union {MarkType[c] : c \in Marks}
                \union {WordType[w] : w \in Words},
     text : Seq(Chars), line : Nat, col : Nat]

InSource(t) ==
    /\ Before(t) \in 0 .. Len(src)
    /\ Places(t, Before(t))
    /\ Behind(t) \in Before(t) .. Len(src)
    /\ Text(Before(t), Behind(t)) = Spelling(t)
    /\ Longest(t)

Settled(s) ==
    /\ tokens \in Seq(Token)
    /\ \A i \in 1 .. Len(tokens) : InSource(tokens[i]) /\ Behind(tokens[i]) <= s
    /\ \A i \in 1 .. Len(tokens) - 1 : Behind(tokens[i]) <= Before(tokens[i + 1])
    /\ \A k \in 1 .. s : \/ src[k] \in Spaces
                         \/ \E i \in 1 .. Len(tokens) :
                               k \in Before(tokens[i]) + 1 .. Behind(tokens[i])

Scanning ==
    /\ src \in Seq(Chars) /\ Len(src) <= MaxSource
    /\ pos \in 0 .. Len(src)
    /\ line = LineAt(pos) /\ col = ColumnAt(pos)
    /\ at \in {"token", "number", "word", "done", "refused"}
    /\ text \in Seq(Chars) /\ from \in 1 .. MaxSource + 1
    /\ \A i \in 1 .. Len(tokens) :
          tokens[i].type = "EndOfFile" <=> at = "done" /\ i = Len(tokens)

WordChars == Letters \union Digits \union {Underscore}

Collected(s) ==
    /\ line = LineAt(s) /\ from = ColumnAt(s)
    /\ text = Text(s, pos)
    /\ at = "number" =>
          /\ \A k \in 1 .. Len(text) : text[k] \in Digits \union {Underscore}
          /\ IF text = <<>> THEN NextIn(Digits) ELSE text[1] \in Digits
    /\ at = "word" =>
          /\ \A k \in 1 .. Len(text) : text[k] \in WordChars
          /\ IF text = <<>> THEN NextIn(Letters) ELSE text[1] \in Letters

Begins(s) == IF at \in {"number", "word"} THEN Collected(s) ELSE s = pos

LexerInv == Scanning /\ \E s \in 0 .. pos : Begins(s) /\ Settled(s)

\* The source is never changed, and so no place of it either.
LEMMA SourceStays ==
    ASSUME src' = src
    PROVE  /\ \A p : Breaks(p)' = Breaks(p) /\ LineAt(p)' = LineAt(p)
                        /\ ColumnAt(p)' = ColumnAt(p)
           /\ \A p, q : Text(p, q)' = Text(p, q)
           /\ \A t, p : Places(t, p)' = Places(t, p)
           /\ \A t : Before(t)' = Before(t) /\ Behind(t)' = Behind(t)
           /\ \A t : InSource(t)' = InSource(t)
<1>1. \A p : Breaks(p)' = Breaks(p)
  BY DEF Breaks
<1>2. \A p : LineAt(p)' = LineAt(p) /\ ColumnAt(p)' = ColumnAt(p)
  BY <1>1 DEF LineAt, ColumnAt
<1>3. \A t, p : Places(t, p)' = Places(t, p)
  BY <1>2 DEF Places, FirstLine
<1>4. \A p, q : Text(p, q)' = Text(p, q)
  BY DEF Text
<1>5. \A t : Before(t)' = Before(t)
  BY <1>3 DEF Before
<1>6. \A t : Behind(t)' = Behind(t)
  BY <1>5 DEF Behind, Spelling
<1>7. \A t : Longest(t)' = Longest(t)
  BY <1>6 DEF Longest
<1>8. \A t : InSource(t)' = InSource(t)
  BY <1>3, <1>4, <1>5, <1>6, <1>7 DEF InSource, Spelling
<1> QED
  BY <1>1, <1>2, <1>3, <1>4, <1>5, <1>6, <1>8

LEMMA SettledStays ==
    ASSUME NEW s, Settled(s), UNCHANGED <<src, tokens>>
    PROVE  Settled(s)'
BY SourceStays DEF Settled

LEMMA SettledBySpace ==
    ASSUME NEW s \in Nat, Settled(s), src[s + 1] \in Spaces, UNCHANGED <<src, tokens>>
    PROVE  Settled(s + 1)'
<1>1. Settled(s)'
  BY SettledStays
<1>2. \A k \in 1 .. s + 1 : k \in 1 .. s \/ k = s + 1
  OBVIOUS
<1>3. \A i \in 1 .. Len(tokens') : InSource(tokens[i])' /\ Behind(tokens[i])' <= s + 1
  <2> SUFFICES ASSUME NEW i \in 1 .. Len(tokens')
               PROVE  InSource(tokens[i])' /\ Behind(tokens[i])' <= s + 1
    OBVIOUS
  <2>1. InSource(tokens[i])' /\ Behind(tokens[i])' <= s
    BY <1>1 DEF Settled
  <2>2. PICK t : t = tokens'[i] /\ t = tokens[i]
    OBVIOUS
  <2>3. InSource(t)
    BY <2>2, i \in 1 .. Len(tokens), Settled(s) DEF Settled
  <2>4. Before(t) \in 0 .. Len(src) /\ Behind(t) \in Before(t) .. Len(src)
    BY <2>3 DEF InSource
  <2>5. Behind(t) \in Int
    BY <2>4
  <2>6. Behind(t) <= s
    BY <2>2, i \in 1 .. Len(tokens), Settled(s) DEF Settled
  <2>7. Behind(tokens[i])' = Behind(t)
    BY <2>2, SourceStays
  <2> QED
    BY <2>1, <2>5, <2>6, <2>7
<1> QED
  BY <1>1, <1>2, <1>3 DEF Settled

\* A token that begins where the source is settled to settles it to its end.
LEMMA TokenPushed ==
    ASSUME src \in Seq(Chars), src' = src,
           NEW s \in Nat, NEW q \in Nat, s <= q, q <= Len(src), Settled(s),
           NEW t \in Token, tokens' = Append(tokens, t), Places(t, s),
           Text(s, q) = Spelling(t), Len(Spelling(t)) = q - s,
           Behind(t) = q => Longest(t)
    PROVE  Settled(q)'
<1>1. Before(t) = s /\ Behind(t) = q
  <2>1. Before(t) = s
    BY BeforeIs
  <2> QED
    BY <2>1 DEF Behind
<1>2. InSource(t)
  BY <1>1 DEF InSource
<1>3. PICK n \in Nat : n = Len(tokens)
  BY DEF Settled
<1>4. /\ tokens' \in Seq(Token) /\ Len(tokens') = n + 1
      /\ \A i \in 1 .. n : tokens'[i] = tokens[i]
      /\ tokens'[n + 1] = t
  BY <1>3, AppendProperties DEF Settled
<1>5. /\ \A i \in 1 .. n : Before(tokens[i])' = Before(tokens[i])
      /\ \A i \in 1 .. n : Behind(tokens[i])' = Behind(tokens[i])
      /\ \A i \in 1 .. n : InSource(tokens[i])' = InSource(tokens[i])
  <2> SUFFICES ASSUME NEW i \in 1 .. n
               PROVE  /\ Before(tokens[i])' = Before(tokens[i])
                      /\ Behind(tokens[i])' = Behind(tokens[i])
                      /\ InSource(tokens[i])' = InSource(tokens[i])
    OBVIOUS
  <2>1. PICK u : u = tokens[i] /\ u = tokens'[i]
    BY <1>4
  <2>2. Before(u)' = Before(u) /\ Behind(u)' = Behind(u) /\ InSource(u)' = InSource(u)
    BY SourceStays
  <2> QED
    BY <2>1, <2>2
<1>6. Before(tokens[n + 1])' = s /\ Behind(tokens[n + 1])' = q /\ InSource(tokens[n + 1])'
  <2>1. Before(t)' = s /\ Behind(t)' = q /\ InSource(t)'
    BY <1>1, <1>2, SourceStays
  <2>2. (tokens[n + 1])' = t
    BY <1>4
  <2> QED
    BY <2>1, <2>2
<1>7. \A i \in 1 .. n : Behind(tokens[i]) \in Int /\ Behind(tokens[i]) <= s
                          /\ InSource(tokens[i])
  BY <1>3 DEF Settled, InSource
<1>8. \A i \in 1 .. n + 1 : i \in 1 .. n \/ i = n + 1
  OBVIOUS
<1>9. \A i \in 1 .. n + 1 : InSource(tokens[i])' /\ Behind(tokens[i])' <= q
  <2> SUFFICES ASSUME NEW i \in 1 .. n + 1
               PROVE  InSource(tokens[i])' /\ Behind(tokens[i])' <= q
    OBVIOUS
  <2>1. CASE i \in 1 .. n
    <3>1. InSource(tokens[i])' /\ Behind(tokens[i])' = Behind(tokens[i])
      BY <1>5, <1>7, <2>1
    <3>2. Behind(tokens[i]) \in Int /\ Behind(tokens[i]) <= s
      BY <1>7, <2>1
    <3> QED
      BY <3>1, <3>2
  <2>2. CASE i = n + 1
    <3>1. InSource(tokens[i])'
      BY <1>6, <2>2
    <3>2. Behind(tokens[i])' = q
      BY <1>6, <2>2
    <3> QED
      BY <3>1, <3>2
  <2> QED
    BY <1>8, <2>1, <2>2
<1>10. \A i \in 1 .. n : Behind(tokens[i])' <= Before(tokens[i + 1])'
  <2> SUFFICES ASSUME NEW i \in 1 .. n
               PROVE  Behind(tokens[i])' <= Before(tokens[i + 1])'
    OBVIOUS
  <2>1. CASE i = n
    BY <1>5, <1>6, <1>7, <2>1
  <2>2. CASE i # n
    <3>1. i \in 1 .. n - 1 /\ i + 1 \in 1 .. n
      BY <2>2
    <3>2. Behind(tokens[i]) <= Before(tokens[i + 1])
      BY <1>3, <3>1 DEF Settled
    <3> QED
      BY <1>5, <3>1, <3>2
  <2> QED
    BY <2>1, <2>2
<1>11. ASSUME NEW k \in 1 .. q
       PROVE  \/ src[k] \in Spaces
              \/ \E i \in 1 .. n + 1 :
                    k \in Before(tokens[i])' + 1 .. Behind(tokens[i])'
  <2>1. CASE k \in 1 .. s
    <3>1. src[k] \in Spaces \/ \E i \in 1 .. n :
                                  k \in Before(tokens[i]) + 1 .. Behind(tokens[i])
      BY <1>3, <2>1 DEF Settled
    <3>2. \A i \in 1 .. n : i \in 1 .. n + 1
      OBVIOUS
    <3> QED
      BY <1>5, <3>1, <3>2
  <2>2. CASE k \in s + 1 .. q
    <3>1. n + 1 \in 1 .. n + 1
      OBVIOUS
    <3> QED
      BY <1>6, <2>2, <3>1
  <2>3. k \in 1 .. s \/ k \in s + 1 .. q
    OBVIOUS
  <2> QED
    BY <2>1, <2>2, <2>3
<1>12. Len(tokens') - 1 = n
  BY <1>4
<1> QED
  BY <1>4, <1>9, <1>10, <1>11, <1>12 DEF Settled

-----------------------------------------------------------------------------
(***************************************************************************)
(* The steps.                                                              *)
(***************************************************************************)
LEMMA GetMoves ==
    ASSUME Scanning, Get
    PROVE  /\ pos' = pos + 1 /\ pos + 1 \in Nat
           /\ line' = LineAt(pos + 1) /\ col' = ColumnAt(pos + 1)
<1>1. pos \in Nat /\ line = LineAt(pos) /\ col = ColumnAt(pos)
  BY DEF Scanning
<1> QED
  BY <1>1, PlaceNext DEF Get

\* What has to be shown of a step: the place, the collected text, the tokens.
LEMMA StepKeepsInv ==
    ASSUME Scanning, src' = src,
           NEW p \in 0 .. Len(src), pos' = p, line' = LineAt(p), col' = ColumnAt(p),
           at' \in {"token", "number", "word", "done", "refused"},
           text' \in Seq(Chars), from' \in 1 .. MaxSource + 1,
           \A i \in 1 .. Len(tokens') :
               tokens'[i].type = "EndOfFile" <=> at' = "done" /\ i = Len(tokens'),
           NEW s \in 0 .. p, Begins(s)', Settled(s)'
    PROVE  LexerInv'
<1>1. LineAt(p)' = LineAt(p) /\ ColumnAt(p)' = ColumnAt(p)
  BY SourceStays
<1>2. LineAt(pos)' = LineAt(p)' /\ ColumnAt(pos)' = ColumnAt(p)'
  BY DEF LineAt, ColumnAt, Breaks
<1>3. Scanning'
  BY <1>1, <1>2 DEF Scanning
<1> QED
  BY <1>3 DEF LexerInv

\* Nothing but the last token is the end of the file.
LEMMA NoEndYet ==
    ASSUME Scanning, at # "done", UNCHANGED tokens, at' # "done"
    PROVE  \A i \in 1 .. Len(tokens') :
               tokens'[i].type = "EndOfFile" <=> at' = "done" /\ i = Len(tokens')
BY DEF Scanning

LEMMA PushedLast ==
    ASSUME Scanning, at # "done", tokens \in Seq(Token),
           NEW t \in Token, tokens' = Append(tokens, t), t.type = "EndOfFile" <=> at' = "done"
    PROVE  \A i \in 1 .. Len(tokens') :
               tokens'[i].type = "EndOfFile" <=> at' = "done" /\ i = Len(tokens')
<1>1. PICK n \in Nat : n = Len(tokens)
  OBVIOUS
<1>2. /\ Len(tokens') = n + 1 /\ tokens'[n + 1] = t
      /\ \A i \in 1 .. n : tokens'[i] = tokens[i]
  BY <1>1, AppendProperties
<1>3. \A i \in 1 .. n + 1 : (i \in 1 .. n /\ i # n + 1) \/ i = n + 1
  OBVIOUS
<1>4. \A i \in 1 .. n : tokens[i].type # "EndOfFile"
  BY <1>1 DEF Scanning
<1> QED
  BY <1>2, <1>3, <1>4

LEMMA LexerInitInv == LexerInit => LexerInv
<1> SUFFICES ASSUME LexerInit PROVE LexerInv
  OBVIOUS
<1>1. PICK n \in 0 .. MaxSource : src \in [1 .. n -> Chars]
  BY DEF LexerInit
<1>2. n \in Nat /\ n <= MaxSource /\ MaxSource \in Nat
  BY LexerAssumption
<1>3. src \in Seq(Chars)
  BY <1>1, <1>2, SeqDef
<1>4. Len(src) = n
  <2>1. Len(src) \in Nat /\ DOMAIN src = 1 .. Len(src) /\ DOMAIN src = 1 .. n
    BY <1>1, <1>3, LenProperties
  <2>2. PICK m \in Nat : m = Len(src)
    BY <2>1
  <2>3. 1 .. m = 1 .. n
    BY <2>1, <2>2
  <2>4. ~(m < n)
    <3>1. n \in 1 .. n => n \in 1 .. m
      BY <2>3
    <3> QED
      BY <1>2, <2>2, <3>1
  <2>5. ~(n < m)
    <3>1. m \in 1 .. m => m \in 1 .. n
      BY <2>3
    <3> QED
      BY <1>2, <2>2, <3>1
  <2> QED
    BY <1>2, <2>2, <2>4, <2>5
<1>5. line = LineAt(pos) /\ col = ColumnAt(pos)
  <2>1. Breaks(0) = {}
    BY DEF Breaks
  <2>2. Cardinality({}) = 0
    BY FS_EmptySet
  <2>3. LineAt(0) = 1 /\ ColumnAt(0) = 1
    BY <2>1, <2>2 DEF LineAt, ColumnAt
  <2> QED
    BY <2>3 DEF LexerInit
<1>6. <<>> \in Seq(Chars) /\ <<>> \in Seq(Token) /\ Len(<<>>) = 0
  BY EmptySeq
<1>7. Scanning
  BY <1>2, <1>3, <1>4, <1>5, <1>6 DEF LexerInit, Scanning
<1>8. Begins(0) /\ Settled(0) /\ 0 \in 0 .. pos
  BY <1>6 DEF LexerInit, Begins, Settled
<1> QED
  BY <1>7, <1>8 DEF LexerInv

LEMMA SpaceStep ==
    ASSUME LexerInv, SkipSpace
    PROVE  LexerInv'
<1>1. /\ Scanning /\ at = "token" /\ pos < Len(src) /\ src[pos + 1] \in Spaces /\ Get
      /\ UNCHANGED <<src, at, text, from, tokens>>
  BY DEF LexerInv, SkipSpace, NextIn
<1>2. pos \in 0 .. Len(src) /\ Len(src) \in Nat /\ text \in Seq(Chars)
      /\ from \in 1 .. MaxSource + 1
  BY <1>1 DEF Scanning
<1>3. PICK p \in Nat : p = pos + 1
  BY <1>2
<1>4. Settled(pos)
  BY <1>1 DEF LexerInv, Begins
<1>5. Settled(p)'
  <2>1. PICK s \in Nat : s = pos
    BY <1>2
  <2>2. Settled(s) /\ src[s + 1] \in Spaces /\ p = s + 1
    BY <1>1, <1>3, <1>4, <2>1 DEF Settled
  <2>3. Settled(s + 1)'
    BY <1>1, <2>2, SettledBySpace
  <2> QED
    BY <2>2, <2>3
<1>6. pos' = p /\ line' = LineAt(p) /\ col' = ColumnAt(p)
  BY <1>1, <1>3, GetMoves
<1>7. p \in 0 .. Len(src) /\ p \in 0 .. p
  BY <1>1, <1>2, <1>3
<1>8. Begins(p)'
  BY <1>1, <1>6 DEF Begins
<1>9. \A i \in 1 .. Len(tokens') :
         tokens'[i].type = "EndOfFile" <=> at' = "done" /\ i = Len(tokens')
  BY <1>1, NoEndYet
<1> QED
  BY <1>1, <1>2, <1>5, <1>6, <1>7, <1>8, <1>9, StepKeepsInv

LEMMA BeginStep ==
    ASSUME LexerInv, BeginNumber \/ BeginWord
    PROVE  LexerInv'
<1>1. /\ Scanning /\ at = "token" /\ text' = <<>> /\ from' = col
      /\ UNCHANGED <<src, pos, line, col, tokens>>
      /\ \/ at' = "number" /\ NextIn(Digits)
         \/ at' = "word" /\ NextIn(Letters)
  BY DEF LexerInv, BeginNumber, BeginWord, Collect
<1>2. PICK p \in 0 .. Len(src) : p = pos
  BY <1>1 DEF Scanning
<1>3. /\ line = LineAt(p) /\ col = ColumnAt(p) /\ src \in Seq(Chars)
      /\ Len(src) \in Nat /\ Len(src) <= MaxSource /\ MaxSource \in Nat
  BY <1>1, <1>2, LexerAssumption DEF Scanning
<1>4. Settled(p)
  BY <1>1, <1>2 DEF LexerInv, Begins, Settled
<1>5. Settled(p)'
  BY <1>1, <1>4, SettledStays
<1>6. Text(p, p) = <<>> /\ <<>> \in Seq(Chars)
  <2>1. p + 1 \in Int /\ p \in Int /\ p < p + 1
    BY <1>3
  <2> QED
    BY <2>1, SubSeqEmpty, EmptySeq DEF Text
<1>7. (at' = "number" => NextIn(Digits)') /\ (at' = "word" => NextIn(Letters)')
  BY <1>1 DEF NextIn
<1>8. Text(p, p)' = Text(p, p) /\ LineAt(p)' = LineAt(p) /\ ColumnAt(p)' = ColumnAt(p)
  BY <1>1, SourceStays
<1>9. Text(p, pos)' = Text(p, p)'
  BY <1>1, <1>2 DEF Text
<1>10. Collected(p)'
  <2>1. \A k \in 1 .. Len(text') : FALSE
    BY <1>1
  <2>2. text' = Text(p, pos)' /\ line' = LineAt(p)' /\ from' = ColumnAt(p)' /\ text' = <<>>
    BY <1>1, <1>2, <1>3, <1>6, <1>8, <1>9
  <2> QED
    BY <1>7, <2>1, <2>2 DEF Collected
<1>11. Begins(p)'
  BY <1>1, <1>10 DEF Begins
<1>12. from' \in 1 .. MaxSource + 1
  <2>1. ColumnAt(p) \in 1 .. p + 1
    BY <1>3, PlaceTyped
  <2> QED
    BY <1>1, <1>3, <2>1
<1>13. at' \in {"token", "number", "word", "done", "refused"} /\ at' # "done"
  BY <1>1
<1>14. \A i \in 1 .. Len(tokens') :
          tokens'[i].type = "EndOfFile" <=> at' = "done" /\ i = Len(tokens')
  BY <1>1, <1>13, NoEndYet
<1>15. p \in 0 .. p /\ pos' = p /\ line' = LineAt(p) /\ col' = ColumnAt(p)
       /\ text' \in Seq(Chars)
  BY <1>1, <1>2, <1>3, <1>6
<1> QED
  BY <1>1, <1>5, <1>11, <1>12, <1>13, <1>14, <1>15, StepKeepsInv

\* Another character of a number or a word.
LEMMA CollectStep ==
    ASSUME LexerInv, NumberChar \/ WordChar
    PROVE  LexerInv'
<1>1. /\ Scanning /\ at \in {"number", "word"} /\ pos < Len(src)
      /\ text' = Append(text, src[pos + 1]) /\ Get
      /\ UNCHANGED <<src, at, from, tokens>>
      /\ at = "number" => src[pos + 1] \in Digits \union {Underscore}
      /\ at = "word" => src[pos + 1] \in WordChars
      /\ at = "number" => InNumber
  BY DEF LexerInv, NumberChar, WordChar, InNumber, InWord, NextIn, WordChars
<1>2. /\ src \in Seq(Chars) /\ Len(src) \in Nat /\ pos \in Nat /\ pos <= Len(src)
      /\ text \in Seq(Chars) /\ from \in 1 .. MaxSource + 1
  BY <1>1 DEF Scanning
<1>3. PICK s \in 0 .. pos : Collected(s) /\ Settled(s)
  BY <1>1 DEF LexerInv, Begins
<1>4. PICK p \in Nat, q \in Nat : q = pos /\ p = pos + 1
  BY <1>2
<1>5. pos' = p /\ line' = LineAt(p) /\ col' = ColumnAt(p)
  BY <1>1, <1>4, GetMoves
<1> DEFINE c == src[q + 1]
<1>6. c # NewLine /\ c \in Chars
  <2>1. \A l \in WordChars : l # NewLine
    BY ClassesApart DEF WordChars
  <2>2. Digits \union {Underscore} \subseteq WordChars /\ WordChars \subseteq Chars
    BY DEF WordChars, Chars
  <2>3. c \in WordChars
    BY <1>1, <1>4, <2>2
  <2> QED
    BY <2>1, <2>2, <2>3
<1>7. line' = LineAt(s)
  <2>1. LineAt(q + 1) = LineAt(q)
    BY <1>6, PlaceNext
  <2>2. line = LineAt(q) /\ line = LineAt(s)
    BY <1>1, <1>3, <1>4 DEF Scanning, Collected
  <2> QED
    BY <1>4, <1>5, <2>1, <2>2
<1>8. text' = Text(s, p)
  <2>1. text = Text(s, q)
    BY <1>3, <1>4 DEF Collected
  <2>2. Append(Text(s, q), src[q + 1]) = Text(s, q + 1)
    <3>1. s \in Nat /\ s <= q /\ q < Len(src)
      BY <1>1, <1>3, <1>4
    <3> QED
      BY <1>2, <3>1, TextGrows
  <2> QED
    BY <1>1, <1>4, <2>1, <2>2
<1>9. PICK n \in Nat : n = Len(text)
  BY <1>2
<1>10. /\ text' \in Seq(Chars) /\ Len(text') = n + 1
       /\ \A k \in 1 .. n : text'[k] = text[k]
       /\ text'[n + 1] = c
       /\ text' # <<>>
  <2>1. text' = Append(text, c)
    BY <1>1, <1>4
  <2> HIDE DEF c
  <2> QED
    BY <1>2, <1>6, <1>9, <2>1, AppendProperties
<1>11. \A k \in 1 .. n + 1 : k \in 1 .. n \/ k = n + 1
  OBVIOUS
<1>12. at = "number" =>
          /\ \A k \in 1 .. n + 1 : text'[k] \in Digits \union {Underscore}
          /\ text'[1] \in Digits
  <2> SUFFICES ASSUME at = "number"
               PROVE  /\ \A k \in 1 .. n + 1 : text'[k] \in Digits \union {Underscore}
                      /\ text'[1] \in Digits
    OBVIOUS
  <2>1. \A k \in 1 .. n : text[k] \in Digits \union {Underscore}
    BY <1>3, <1>9 DEF Collected
  <2>2. \A k \in 1 .. n + 1 : text'[k] \in Digits \union {Underscore}
    BY <1>1, <1>4, <1>10, <1>11, <2>1
  <2>3. text'[1] \in Digits
    <3>1. CASE text = <<>>
      <4>1. n = 0 /\ c \in Digits
        BY <1>3, <1>4, <1>9, <3>1 DEF Collected, NextIn
      <4>2. text'[1] = c
        BY <1>10, <4>1
      <4> QED
        BY <4>1, <4>2
    <3>2. CASE text # <<>>
      <4>1. text[1] \in Digits
        BY <1>3, <3>2 DEF Collected
      <4>2. 1 \in 1 .. n
        BY <1>2, <1>9, <3>2, EmptySeq
      <4>3. text'[1] = text[1]
        BY <1>10, <4>2
      <4> QED
        BY <4>1, <4>3
    <3> QED
      BY <3>1, <3>2
  <2> QED
    BY <2>2, <2>3
<1>13. at = "word" =>
          /\ \A k \in 1 .. n + 1 : text'[k] \in WordChars
          /\ text'[1] \in Letters
  <2> SUFFICES ASSUME at = "word"
               PROVE  /\ \A k \in 1 .. n + 1 : text'[k] \in WordChars
                      /\ text'[1] \in Letters
    OBVIOUS
  <2>1. \A k \in 1 .. n : text[k] \in WordChars
    BY <1>3, <1>9 DEF Collected
  <2>2. \A k \in 1 .. n + 1 : text'[k] \in WordChars
    BY <1>1, <1>4, <1>10, <1>11, <2>1
  <2>3. text'[1] \in Letters
    <3>1. CASE text = <<>>
      <4>1. n = 0 /\ c \in Letters
        BY <1>3, <1>4, <1>9, <3>1 DEF Collected, NextIn
      <4>2. text'[1] = c
        BY <1>10, <4>1
      <4> QED
        BY <4>1, <4>2
    <3>2. CASE text # <<>>
      <4>1. text[1] \in Letters
        BY <1>3, <3>2 DEF Collected
      <4>2. 1 \in 1 .. n
        BY <1>2, <1>9, <3>2, EmptySeq
      <4>3. text'[1] = text[1]
        BY <1>10, <4>2
      <4> QED
        BY <4>1, <4>3
    <3> QED
      BY <3>1, <3>2
  <2> QED
    BY <2>2, <2>3
<1>14. /\ Text(s, p)' = Text(s, p) /\ LineAt(s)' = LineAt(s) /\ ColumnAt(s)' = ColumnAt(s)
       /\ Text(s, pos)' = Text(s, p)'
  <2>1. Text(s, pos)' = Text(s, p)'
    BY <1>5 DEF Text
  <2> QED
    BY <1>1, <2>1, SourceStays
<1>15. Begins(s)'
  <2>1. from = ColumnAt(s)
    BY <1>3 DEF Collected
  <2>2. text' = Text(s, pos)' /\ line' = LineAt(s)' /\ from' = ColumnAt(s)'
    BY <1>1, <1>7, <1>8, <1>14, <2>1
  <2>3. Collected(s)'
    BY <1>1, <1>10, <1>12, <1>13, <2>2 DEF Collected
  <2> QED
    BY <1>1, <2>3 DEF Begins
<1>16. Settled(s)'
  BY <1>1, <1>3, SettledStays
<1>17. \A i \in 1 .. Len(tokens') :
          tokens'[i].type = "EndOfFile" <=> at' = "done" /\ i = Len(tokens')
  <2>1. at # "done" /\ at' # "done"
    BY <1>1
  <2> QED
    BY <1>1, <2>1, NoEndYet
<1>18. p \in 0 .. Len(src) /\ s \in 0 .. p
       /\ at' \in {"token", "number", "word", "done", "refused"}
       /\ from' \in 1 .. MaxSource + 1
  BY <1>1, <1>2, <1>3, <1>4
<1> QED
  BY <1>1, <1>5, <1>10, <1>15, <1>16, <1>17, <1>18, StepKeepsInv

\* The texts of numbers and words are spelled as they are; those of character
\* literals get their quotes.
LEMMA PlainSpelling ==
    ASSUME NEW t, t.text \in Seq(Chars), t.text # <<>>, t.text[1] # Quote
    PROVE  Spelling(t) = t.text /\ FirstLine(t) = t.line
<1>1. t.text # CodeOf(NewLine)
  BY DEF CodeOf
<1> QED
  BY <1>1 DEF Spelling, FirstLine

LEMMA EndStep ==
    ASSUME LexerInv, EndNumber \/ EndWord
    PROVE  LexerInv'
<1>1. PICK type :
         /\ tokens' = Append(tokens, [type |-> type, text |-> text, line |-> line, col |-> from])
         /\ UNCHANGED <<src, pos, line, col, text, from>> /\ at' = "token"
         /\ \/ at = "number" /\ type = "Number" /\ ~InNumber
            \/ /\ at = "word" /\ ~InWord
               /\ type \in {"Identifier"} \union {WordType[w] : w \in Words}
  <2>1. CASE EndNumber
    BY <2>1 DEF EndNumber, Push
  <2>2. CASE EndWord
    <3> DEFINE ty == IF text \in Words THEN WordType[text] ELSE "Identifier"
    <3>1. ty \in {"Identifier"} \union {WordType[w] : w \in Words}
      OBVIOUS
    <3> QED
      BY <2>2, <3>1 DEF EndWord, Push
  <2> QED
    BY <2>1, <2>2
<1>2. PICK t : t = [type |-> type, text |-> text, line |-> line, col |-> from]
  OBVIOUS
<1>3. /\ Scanning /\ src \in Seq(Chars) /\ Len(src) \in Nat
      /\ pos \in Nat /\ pos <= Len(src) /\ text \in Seq(Chars)
      /\ from \in 1 .. MaxSource + 1 /\ MaxSource \in Nat
  BY LexerAssumption DEF LexerInv, Scanning
<1>4. PICK s \in 0 .. pos : Collected(s) /\ Settled(s)
  BY <1>1 DEF LexerInv, Begins
<1>5. text # <<>>
  BY <1>1, <1>4 DEF Collected, InNumber, InWord, NextIn
<1>6. text[1] # Quote
  BY <1>1, <1>4, <1>5, ClassesApart DEF Collected
<1>7. /\ t.type = type /\ t.text = text /\ t.line = line /\ t.col = from
      /\ tokens' = Append(tokens, t)
  BY <1>1, <1>2
<1>8. Spelling(t) = text /\ FirstLine(t) = line
  BY <1>3, <1>5, <1>6, <1>7, PlainSpelling
<1>9. PICK q \in Nat : q = pos
  BY <1>3
<1>10. Places(t, s) /\ Text(s, q) = Spelling(t) /\ Len(Spelling(t)) = q - s
  <2>1. LineAt(s) = line /\ ColumnAt(s) = from /\ text = Text(s, q)
    BY <1>4, <1>9 DEF Collected
  <2>2. Len(Text(s, q)) = q - s
    <3>1. s \in Nat /\ s <= q /\ q <= Len(src)
      BY <1>3, <1>4, <1>9
    <3> QED
      BY <1>3, <3>1, TextLayout
  <2> QED
    BY <1>7, <1>8, <2>1, <2>2 DEF Places
<1>11. t \in Token
  <2>1. line \in Nat
    <3>1. line = LineAt(q)
      BY <1>3, <1>9 DEF Scanning
    <3> QED
      BY <3>1, PlaceTyped
  <2>2. from \in Nat
    BY <1>3
  <2> QED
    BY <1>1, <1>2, <1>3, <2>1, <2>2 DEF Token
<1>12. Behind(t) = q => Longest(t)
  <2> SUFFICES ASSUME Behind(t) = q PROVE Longest(t)
    OBVIOUS
  <2>1. CASE at = "number"
    <3>1. t.type = "Number" /\ t.text[1] # Quote
      BY <1>1, <1>6, <1>7, <2>1
    <3>2. q < Len(src) => src[q + 1] \notin Digits \union {Underscore}
      BY <1>1, <1>5, <1>9, <2>1 DEF InNumber, NextIn
    <3>3. t.type \notin {"Identifier"} \union {WordType[w] : w \in Words}
      BY <3>1, LexerAssumption
    <3> QED
      BY <3>1, <3>2, <3>3 DEF Longest
  <2>2. CASE at = "word"
    <3>1. t.type \in {"Identifier"} \union {WordType[w] : w \in Words}
      BY <1>1, <1>7, <2>2
    <3>2. t.type # "Number"
      BY <3>1, LexerAssumption
    <3>3. q < Len(src) => src[q + 1] \notin Letters \union Digits \union {Underscore}
      BY <1>1, <1>9, <2>2 DEF InWord, NextIn
    <3> QED
      BY <3>1, <3>2, <3>3 DEF Longest
  <2> QED
    BY <1>1, <2>1, <2>2
<1>13. s \in Nat /\ s <= q /\ q <= Len(src)
  BY <1>3, <1>4, <1>9
<1>14. Settled(q)'
  BY <1>1, <1>3, <1>4, <1>7, <1>10, <1>11, <1>12, <1>13, TokenPushed
<1>15. Begins(q)'
  BY <1>1, <1>9 DEF Begins
<1>16. t.type # "EndOfFile"
  BY <1>1, <1>7, LexerAssumption
<1>17. \A i \in 1 .. Len(tokens') :
          tokens'[i].type = "EndOfFile" <=> at' = "done" /\ i = Len(tokens')
  <2>1. at # "done" /\ at' # "done" /\ tokens \in Seq(Token)
    BY <1>1, <1>4 DEF Settled
  <2> QED
    BY <1>3, <1>7, <1>11, <1>16, <2>1, PushedLast
<1>18. q \in 0 .. Len(src) /\ q \in 0 .. q /\ pos' = q
       /\ line' = LineAt(q) /\ col' = ColumnAt(q)
       /\ at' \in {"token", "number", "word", "done", "refused"}
       /\ text' \in Seq(Chars) /\ from' \in 1 .. MaxSource + 1
  BY <1>1, <1>3, <1>9 DEF Scanning
<1> QED
  BY <1>1, <1>3, <1>14, <1>15, <1>17, <1>18, StepKeepsInv

LEMMA RefuseStep ==
    ASSUME LexerInv, RefuseQuote \/ RefuseChar
    PROVE  LexerInv'
<1>1. /\ at = "token" /\ at' = "refused"
      /\ UNCHANGED <<src, pos, line, col, text, from, tokens>>
  BY DEF RefuseQuote, RefuseChar
<1>2. Scanning /\ Settled(pos)
  BY <1>1 DEF LexerInv, Begins
<1>3. PICK p \in 0 .. Len(src) : p = pos
  BY <1>2 DEF Scanning
<1>4. Settled(p)
  BY <1>2, <1>3 DEF Settled
<1>5. Settled(p)' /\ Begins(p)'
  BY <1>1, <1>3, <1>4, SettledStays DEF Begins
<1>6. \A i \in 1 .. Len(tokens') :
         tokens'[i].type = "EndOfFile" <=> at' = "done" /\ i = Len(tokens')
  BY <1>1, <1>2, NoEndYet
<1>7. p \in 0 .. p /\ pos' = p /\ line' = LineAt(p) /\ col' = ColumnAt(p)
      /\ at' \in {"token", "number", "word", "done", "refused"}
      /\ text' \in Seq(Chars) /\ from' \in 1 .. MaxSource + 1
  BY <1>1, <1>2, <1>3 DEF Scanning
<1> QED
  BY <1>1, <1>2, <1>5, <1>6, <1>7, StepKeepsInv

LEMMA LexerStutter ==
    ASSUME LexerInv, UNCHANGED lexVars
    PROVE  LexerInv'
<1>1. UNCHANGED <<src, pos, line, col, at, text, from, tokens>>
  BY DEF lexVars
<1>2. PICK s \in 0 .. pos : Begins(s) /\ Settled(s) /\ Scanning
  BY DEF LexerInv
<1>3. Settled(s)'
  BY <1>1, <1>2, SettledStays
<1>4. Text(s, pos)' = Text(s, pos) /\ LineAt(s)' = LineAt(s) /\ ColumnAt(s)' = ColumnAt(s)
  BY <1>1 DEF Text, LineAt, ColumnAt, Breaks
<1>5. Begins(s)'
  BY <1>1, <1>2, <1>4 DEF Begins, Collected, NextIn
<1>6. Scanning'
  BY <1>1, <1>2 DEF Scanning, LineAt, ColumnAt, Breaks
<1> QED
  BY <1>1, <1>2, <1>3, <1>5, <1>6 DEF LexerInv

LEMMA MarkStep ==
    ASSUME LexerInv, Mark
    PROVE  LexerInv'
<1>1. /\ at = "token" /\ pos < Len(src) /\ src[pos + 1] \in Marks /\ Get
      /\ tokens' = Append(tokens, [type |-> MarkType[src[pos + 1]], text |-> <<src[pos + 1]>>,
                                   line |-> line', col |-> col])
      /\ UNCHANGED <<src, at, text, from>>
  BY DEF Mark, Push, NextIn
<1>2. /\ Scanning /\ src \in Seq(Chars) /\ Len(src) \in Nat
      /\ pos \in Nat /\ text \in Seq(Chars)
      /\ from \in 1 .. MaxSource + 1 /\ line = LineAt(pos) /\ col = ColumnAt(pos)
  BY DEF LexerInv, Scanning
<1>3. PICK s \in Nat, q \in Nat : s = pos /\ q = pos + 1
  BY <1>2
<1>4. Settled(s) /\ Begins(s)
  BY <1>1, <1>3 DEF LexerInv, Begins, Settled
<1>5. PICK c : c = src[s + 1]
  OBVIOUS
<1>6. c \in Marks /\ c \in Chars /\ c # NewLine /\ c # Quote
  BY <1>1, <1>3, <1>5, ClassesApart DEF Chars
<1>7. pos' = q /\ line' = LineAt(q) /\ col' = ColumnAt(q)
  BY <1>1, <1>2, <1>3, GetMoves
<1>8. line' = LineAt(s) /\ col = ColumnAt(s) /\ line' \in Nat /\ col \in Nat
  <2>1. LineAt(s + 1) = LineAt(s)
    BY <1>5, <1>6, PlaceNext
  <2>2. LineAt(s) \in Nat /\ ColumnAt(s) \in 1 .. s + 1
    BY PlaceTyped
  <2> QED
    BY <1>2, <1>3, <1>7, <2>1, <2>2
<1>9. PICK t : t = [type |-> MarkType[c], text |-> <<c>>, line |-> line', col |-> col]
  OBVIOUS
<1>10. /\ t.type = MarkType[c] /\ t.text = <<c>> /\ t.line = line' /\ t.col = col
       /\ tokens' = Append(tokens, t)
  BY <1>1, <1>3, <1>5, <1>9
<1>11. <<c>> \in Seq(Chars) /\ Len(<<c>>) = 1 /\ <<c>>[1] = c
  BY <1>6
<1>12. t \in Token
  BY <1>6, <1>8, <1>9, <1>11 DEF Token
<1>13. Spelling(t) = <<c>> /\ FirstLine(t) = line'
  <2>1. t.text \in Seq(Chars) /\ t.text # <<>> /\ t.text[1] # Quote
    BY <1>6, <1>10, <1>11
  <2> QED
    BY <1>10, <2>1, PlainSpelling
<1>14. s <= q /\ q <= Len(src) /\ q - s = 1 /\ q = s + 1
  BY <1>1, <1>2, <1>3
<1>15. Text(s, q) = <<c>>
  <2>1. \A k \in 1 .. 1 : <<c>>[k] = src[s + k]
    BY <1>5, <1>11
  <2> QED
    BY <1>2, <1>11, <1>14, <2>1, TextIs
<1>16. Places(t, s) /\ Text(s, q) = Spelling(t) /\ Len(Spelling(t)) = q - s
  BY <1>8, <1>10, <1>11, <1>13, <1>14, <1>15 DEF Places
<1>17. t.type \notin {"Number", "EndOfFile", "Identifier"} \union {WordType[w] : w \in Words}
  BY <1>6, <1>10, LexerAssumption
<1>18. Behind(t) = q => Longest(t)
  BY <1>17 DEF Longest
<1>19. Settled(q)'
  BY <1>1, <1>2, <1>4, <1>10, <1>12, <1>14, <1>16, <1>18, TokenPushed
<1>20. Begins(q)'
  BY <1>1, <1>7 DEF Begins
<1>21. \A i \in 1 .. Len(tokens') :
          tokens'[i].type = "EndOfFile" <=> at' = "done" /\ i = Len(tokens')
  <2>1. at # "done" /\ at' # "done" /\ tokens \in Seq(Token) /\ t.type # "EndOfFile"
    BY <1>1, <1>4, <1>17 DEF Settled
  <2> QED
    BY <1>2, <1>10, <1>12, <2>1, PushedLast
<1>22. q \in 0 .. Len(src) /\ q \in 0 .. q
       /\ at' \in {"token", "number", "word", "done", "refused"}
       /\ text' \in Seq(Chars) /\ from' \in 1 .. MaxSource + 1
  BY <1>1, <1>2, <1>14
<1> QED
  BY <1>1, <1>2, <1>7, <1>19, <1>20, <1>21, <1>22, StepKeepsInv

LEMMA CharLiteralStep ==
    ASSUME LexerInv, CharLiteral
    PROVE  LexerInv'
<1>1. /\ at = "token" /\ src[pos + 1] = Quote /\ pos + 3 <= Len(src) /\ src[pos + 3] = Quote
      /\ pos' = pos + 3
      /\ line' = IF src[pos + 2] = NewLine THEN line + 1 ELSE line
      /\ col' = IF src[pos + 2] = NewLine THEN 2 ELSE col + 3
      /\ tokens' = Append(tokens, [type |-> "Number", text |-> <<Quote, src[pos + 2]>>,
                                   line |-> line', col |-> col])
      /\ UNCHANGED <<src, at, text, from>>
  BY DEF CharLiteral, Push, NextIn, Closed, CodeOf
<1>2. /\ Scanning /\ src \in Seq(Chars) /\ Len(src) \in Nat
      /\ pos \in Nat /\ text \in Seq(Chars)
      /\ from \in 1 .. MaxSource + 1 /\ line = LineAt(pos) /\ col = ColumnAt(pos)
  BY DEF LexerInv, Scanning
<1>3. PICK s \in Nat, q \in Nat : s = pos /\ q = pos + 3
  BY <1>2
<1>4. Settled(s) /\ Begins(s)
  BY <1>1, <1>3 DEF LexerInv, Begins, Settled
<1>5. PICK c : c = src[s + 2]
  OBVIOUS
<1>6. s <= q /\ q <= Len(src) /\ q - s = 3 /\ q = s + 3
  BY <1>1, <1>2, <1>3
<1>7. c \in Chars /\ Quote \in Chars
  <2>1. s + 2 \in 1 .. Len(src)
    BY <1>6
  <2> QED
    BY <1>2, <1>5, <2>1 DEF Chars
<1>8. src[s + 1] = Quote /\ src[s + 3] = Quote /\ Quote # NewLine
  BY <1>1, <1>3, ClassesApart
<1>9. LineAt(s) \in Nat /\ ColumnAt(s) \in Nat
  BY PlaceTyped
<1>10. LineAt(s + 1) = LineAt(s) /\ ColumnAt(s + 1) = ColumnAt(s) + 1
  BY <1>8, PlaceNext
<1>11. IF c = NewLine
       THEN LineAt(s + 2) = LineAt(s) + 1 /\ ColumnAt(s + 2) = 1
       ELSE LineAt(s + 2) = LineAt(s) /\ ColumnAt(s + 2) = ColumnAt(s) + 2
  <2>1. PICK r \in Nat : r = s + 1
    OBVIOUS
  <2>2. r + 1 = s + 2
    BY <2>1
  <2> QED
    BY <1>5, <1>9, <1>10, <2>1, <2>2, PlaceNext
<1>12. IF c = NewLine
       THEN LineAt(q) = LineAt(s) + 1 /\ ColumnAt(q) = 2
       ELSE LineAt(q) = LineAt(s) /\ ColumnAt(q) = ColumnAt(s) + 3
  <2>1. PICK r \in Nat : r = s + 2
    OBVIOUS
  <2>2. r + 1 = s + 3
    BY <2>1
  <2>3. LineAt(q) = LineAt(r) /\ ColumnAt(q) = ColumnAt(r) + 1
    BY <1>6, <1>8, <2>2, PlaceNext
  <2> QED
    BY <1>9, <1>11, <2>1, <2>3
<1>13. pos' = q /\ line' = LineAt(q) /\ col' = ColumnAt(q)
  BY <1>1, <1>2, <1>3, <1>5, <1>12
<1>14. PICK t : t = [type |-> "Number", text |-> <<Quote, c>>, line |-> line', col |-> col]
  OBVIOUS
<1>15. /\ t.type = "Number" /\ t.text = <<Quote, c>> /\ t.line = line' /\ t.col = col
       /\ tokens' = Append(tokens, t)
  BY <1>1, <1>3, <1>5, <1>14
<1>16. <<Quote, c>> \in Seq(Chars) /\ <<Quote, c>>[1] = Quote
  BY <1>7
<1>17. t \in Token
  <2>1. LineAt(q) \in Nat
    BY PlaceTyped
  <2> QED
    BY <1>2, <1>3, <1>9, <1>13, <1>14, <1>16, <2>1 DEF Token
<1>18. Spelling(t) = <<Quote, c, Quote>>
  <2>1. t.text # <<>> /\ t.text[1] = Quote
    BY <1>15, <1>16
  <2>2. Append(<<Quote, c>>, Quote) = <<Quote, c, Quote>>
    <3> DEFINE two   == <<Quote, c>>
               three == <<Quote, c, Quote>>
    <3>1. /\ two \in Seq(Chars) /\ Len(two) = 2 /\ two[1] = Quote /\ two[2] = c
          /\ three \in Seq(Chars) /\ Len(three) = 3
          /\ three[1] = Quote /\ three[2] = c /\ three[3] = Quote
      BY <1>7
    <3> HIDE DEF two, three
    <3>2. /\ Append(two, Quote) \in Seq(Chars) /\ Len(Append(two, Quote)) = Len(two) + 1
          /\ \A k \in 1 .. Len(two) : Append(two, Quote)[k] = two[k]
          /\ Append(two, Quote)[Len(two) + 1] = Quote
      <4>1. two \in Seq(Chars)
        BY <3>1
      <4>2. Quote \in Chars
        BY <1>7
      <4> QED
        BY <4>1, <4>2, AppendProperties
    <3>3. /\ Len(Append(two, Quote)) = 3
          /\ Append(two, Quote)[1] = Quote /\ Append(two, Quote)[2] = c
          /\ Append(two, Quote)[3] = Quote
      BY <3>1, <3>2
    <3>4. \A k \in 1 .. 3 : k = 1 \/ k = 2 \/ k = 3
      OBVIOUS
    <3>5. \A k \in 1 .. 3 : Append(two, Quote)[k] = three[k]
      BY <3>1, <3>3, <3>4
    <3>6. Append(two, Quote) = three
      BY <3>1, <3>2, <3>3, <3>5, SeqEqual
    <3> QED
      BY <3>6 DEF two, three
  <2> QED
    BY <1>15, <2>1, <2>2 DEF Spelling
<1>19. Text(s, q) = <<Quote, c, Quote>>
  <2> DEFINE L == <<Quote, c, Quote>>
  <2>1. L \in Seq(Chars) /\ Len(L) = 3 /\ L[1] = Quote /\ L[2] = c /\ L[3] = Quote
    BY <1>7
  <2> HIDE DEF L
  <2>2. \A k \in 1 .. 3 : L[k] = src[s + k]
    <3>1. \A k \in 1 .. 3 : k \in {1, 2, 3}
      OBVIOUS
    <3> QED
      BY <1>5, <1>8, <2>1, <3>1
  <2>3. Text(s, q) = L
    BY <1>2, <1>6, <2>1, <2>2, TextIs
  <2> QED
    BY <2>3 DEF L
<1>20. FirstLine(t) = LineAt(s)
  <2>1. t.text = CodeOf(NewLine) <=> c = NewLine
    <3>1. <<Quote, c>> = <<Quote, NewLine>> <=> c = NewLine
      OBVIOUS
    <3> QED
      BY <1>15, <3>1 DEF CodeOf
  <2> QED
    BY <1>9, <1>12, <1>13, <1>15, <2>1 DEF FirstLine
<1>21. Places(t, s) /\ Text(s, q) = Spelling(t) /\ Len(Spelling(t)) = q - s
  <2>1. Len(<<Quote, c, Quote>>) = 3
    OBVIOUS
  <2> QED
    BY <1>2, <1>3, <1>6, <1>15, <1>18, <1>19, <1>20, <2>1 DEF Places
<1>22. Behind(t) = q => Longest(t)
  <2>1. t.type \notin {"Identifier"} \union {WordType[w] : w \in Words}
    BY <1>15, LexerAssumption
  <2>2. t.text[1] = Quote
    BY <1>15, <1>16
  <2> QED
    BY <2>1, <2>2 DEF Longest
<1>23. Settled(q)'
  BY <1>1, <1>2, <1>4, <1>6, <1>15, <1>17, <1>21, <1>22, TokenPushed
<1>24. Begins(q)'
  BY <1>1, <1>13 DEF Begins
<1>25. \A i \in 1 .. Len(tokens') :
          tokens'[i].type = "EndOfFile" <=> at' = "done" /\ i = Len(tokens')
  <2>1. at # "done" /\ at' # "done" /\ tokens \in Seq(Token) /\ t.type # "EndOfFile"
    BY <1>1, <1>4, <1>15 DEF Settled
  <2> QED
    BY <1>2, <1>15, <1>17, <2>1, PushedLast
<1>26. q \in 0 .. Len(src) /\ s \in 0 .. q /\ q \in 0 .. q
       /\ at' \in {"token", "number", "word", "done", "refused"}
       /\ text' \in Seq(Chars) /\ from' \in 1 .. MaxSource + 1
  BY <1>1, <1>2, <1>6
<1> QED
  BY <1>1, <1>2, <1>13, <1>23, <1>24, <1>25, <1>26, StepKeepsInv

LEMMA EndTokensStep ==
    ASSUME LexerInv, EndTokens
    PROVE  LexerInv'
<1>1. /\ at = "token" /\ pos = Len(src) /\ at' = "done"
      /\ tokens' = Append(tokens, [type |-> "EndOfFile", text |-> <<>>,
                                   line |-> line, col |-> col])
      /\ UNCHANGED <<src, pos, line, col, text, from>>
  BY DEF EndTokens, Push
<1>2. /\ Scanning /\ src \in Seq(Chars) /\ Len(src) \in Nat /\ text \in Seq(Chars)
      /\ from \in 1 .. MaxSource + 1 /\ line = LineAt(pos) /\ col = ColumnAt(pos)
  BY DEF LexerInv, Scanning
<1>3. PICK s \in Nat : s = pos
  BY <1>1, <1>2
<1>4. Settled(s)
  BY <1>1, <1>3 DEF LexerInv, Begins, Settled
<1>5. PICK t : t = [type |-> "EndOfFile", text |-> <<>>, line |-> line, col |-> col]
  OBVIOUS
<1>6. /\ t.type = "EndOfFile" /\ t.text = <<>> /\ t.line = line /\ t.col = col
      /\ tokens' = Append(tokens, t)
  BY <1>1, <1>5
<1>7. <<>> \in Seq(Chars) /\ Len(<<>>) = 0
  BY EmptySeq
<1>8. t \in Token
  <2>1. LineAt(s) \in Nat /\ ColumnAt(s) \in 1 .. s + 1
    BY PlaceTyped
  <2> QED
    BY <1>2, <1>3, <1>5, <1>7, <2>1 DEF Token
<1>9. Spelling(t) = <<>> /\ FirstLine(t) = line
  BY <1>6 DEF Spelling, FirstLine, CodeOf
<1>10. Text(s, s) = <<>>
  <2>1. s + 1 \in Int /\ s \in Int /\ s < s + 1
    OBVIOUS
  <2> QED
    BY <2>1, SubSeqEmpty DEF Text
<1>11. Places(t, s) /\ Text(s, s) = Spelling(t) /\ Len(Spelling(t)) = s - s
  BY <1>2, <1>3, <1>6, <1>7, <1>9, <1>10 DEF Places
<1>12. Behind(t) = s => Longest(t)
  BY <1>1, <1>3 DEF Longest
<1>13. Settled(s)'
  <2>1. s <= s /\ s <= Len(src)
    BY <1>1, <1>3
  <2> QED
    BY <1>1, <1>2, <1>4, <1>6, <1>8, <1>11, <1>12, <2>1, TokenPushed
<1>14. Begins(s)'
  BY <1>1, <1>3 DEF Begins
<1>15. \A i \in 1 .. Len(tokens') :
          tokens'[i].type = "EndOfFile" <=> at' = "done" /\ i = Len(tokens')
  <2>1. at # "done" /\ at' = "done" /\ tokens \in Seq(Token)
    BY <1>1, <1>4 DEF Settled
  <2> QED
    BY <1>2, <1>6, <1>8, <2>1, PushedLast
<1>16. s \in 0 .. Len(src) /\ s \in 0 .. s /\ pos' = s
       /\ line' = LineAt(s) /\ col' = ColumnAt(s)
       /\ at' \in {"token", "number", "word", "done", "refused"}
       /\ text' \in Seq(Chars) /\ from' \in 1 .. MaxSource + 1
  BY <1>1, <1>2, <1>3
<1> QED
  BY <1>1, <1>2, <1>13, <1>14, <1>15, <1>16, StepKeepsInv

LEMMA LexerInvHolds == LexerSpec => []LexerInv
<1>1. ASSUME LexerInv, [LexerNext]_lexVars PROVE LexerInv'
  <2>1. CASE UNCHANGED lexVars
    BY <1>1, <2>1, LexerStutter
  <2>2. CASE SkipSpace
    BY <1>1, <2>2, SpaceStep
  <2>3. CASE BeginNumber \/ BeginWord
    BY <1>1, <2>3, BeginStep
  <2>4. CASE NumberChar \/ WordChar
    BY <1>1, <2>4, CollectStep
  <2>5. CASE EndNumber \/ EndWord
    BY <1>1, <2>5, EndStep
  <2>6. CASE CharLiteral
    BY <1>1, <2>6, CharLiteralStep
  <2>7. CASE RefuseQuote \/ RefuseChar
    BY <1>1, <2>7, RefuseStep
  <2>8. CASE Mark
    BY <1>1, <2>8, MarkStep
  <2>9. CASE EndTokens
    BY <1>1, <2>9, EndTokensStep
  <2> QED
    BY <1>1, <2>1, <2>2, <2>3, <2>4, <2>5, <2>6, <2>7, <2>8, <2>9 DEF LexerNext
<1> QED
  BY <1>1, LexerInitInv, PTL DEF LexerSpec

-----------------------------------------------------------------------------
(***************************************************************************)
(* The scan's variables have their types, for every source: the position   *)
(* stays within the text, and the end of the file is the last token and    *)
(* no other (Lexer::tokenize).                                             *)
(***************************************************************************)
THEOREM LexerTypeCorrect == LexerSpec => []LexerTypeOK
<1>1. LexerInv => LexerTypeOK
  <2> SUFFICES ASSUME LexerInv PROVE LexerTypeOK
    OBVIOUS
  <2>1. Scanning /\ tokens \in Seq(Token)
    BY DEF LexerInv, Settled
  <2>2. DOMAIN tokens = 1 .. Len(tokens)
    BY <2>1
  <2> QED
    BY <2>1, <2>2 DEF Scanning, LexerTypeOK
<1> QED
  BY <1>1, LexerInvHolds, PTL

(***************************************************************************)
(* Every token of every source is given the line and the column where its  *)
(* spelling begins, and the lexer's own line and column are those of its   *)
(* position (Lexer::get).                                                  *)
(***************************************************************************)
THEOREM TokensAreLocated == LexerSpec => []Located
<1>1. LexerInv => Located
  <2> SUFFICES ASSUME LexerInv PROVE Located
    OBVIOUS
  <2>1. PICK s \in 0 .. pos : Scanning /\ Settled(s)
    BY DEF LexerInv
  <2>2. /\ line = LineAt(pos) /\ col = ColumnAt(pos) /\ pos \in Nat
        /\ tokens \in Seq(Token) /\ DOMAIN tokens = 1 .. Len(tokens)
    BY <2>1 DEF Scanning, Settled
  <2>3. ASSUME NEW i \in DOMAIN tokens
        PROVE  \E p \in 0 .. pos :
                  /\ Places(tokens[i], p)
                  /\ SubSeq(src, p + 1, p + Len(Spelling(tokens[i]))) = Spelling(tokens[i])
    <3>1. PICK t : t = tokens[i]
      OBVIOUS
    <3>2. InSource(t) /\ Behind(t) <= s
      BY <2>1, <2>2, <3>1 DEF Settled
    <3>3. PICK p \in Nat, q \in Nat :
             p = Before(t) /\ q = Behind(t) /\ p <= q /\ q <= pos
      <4>1. Before(t) \in 0 .. Len(src) /\ Behind(t) \in Before(t) .. Len(src)
        BY <3>2 DEF InSource
      <4>2. Before(t) \in Nat /\ Behind(t) \in Nat /\ Before(t) <= Behind(t)
        BY <4>1
      <4>3. Behind(t) <= pos
        BY <2>2, <3>2, <4>2
      <4> QED
        BY <4>2, <4>3
    <3>4. Places(t, p) /\ p \in 0 .. pos /\ q = p + Len(Spelling(t))
      BY <2>2, <3>2, <3>3 DEF InSource, Behind
    <3>5. SubSeq(src, p + 1, q) = Spelling(t)
      BY <3>2, <3>3 DEF InSource, Text
    <3> QED
      BY <3>1, <3>4, <3>5
  <2> QED
    BY <2>2, <2>3 DEF Located
<1> QED
  BY <1>1, LexerInvHolds, PTL

(***************************************************************************)
(* The tokens of every source follow each other in it, each is as long as  *)
(* it can be, and only spaces lie between them: no character is lost or    *)
(* read twice (the loops of Lexer::tokenize).                              *)
(***************************************************************************)
THEOREM NothingIsLost == LexerSpec => []NothingLost
<1>1. LexerInv => NothingLost
  <2> SUFFICES ASSUME LexerInv, at \in {"token", "done", "refused"}
      PROVE  LET starts == [i \in DOMAIN tokens |-> Before(tokens[i])]
                 ends   == [i \in DOMAIN tokens |-> Behind(tokens[i])]
                 Read   == UNION {starts[i] + 1 .. ends[i] : i \in DOMAIN tokens}
             IN  /\ \A i \in 1 .. Len(tokens) - 1 : ends[i] <= starts[i + 1]
                 /\ \A k \in 1 .. pos \ Read : src[k] \in Spaces
                 /\ \A i \in DOMAIN tokens : ends[i] <= pos /\ Longest(tokens[i])
    BY DEF NothingLost
  <2> DEFINE starts == [i \in DOMAIN tokens |-> Before(tokens[i])]
             ends   == [i \in DOMAIN tokens |-> Behind(tokens[i])]
             Read   == UNION {starts[i] + 1 .. ends[i] : i \in DOMAIN tokens}
  <2>1. Settled(pos)
    BY DEF LexerInv, Begins
  <2>2. tokens \in Seq(Token) /\ DOMAIN tokens = 1 .. Len(tokens) /\ Len(tokens) \in Nat
    BY <2>1 DEF Settled
  <2>3. \A i \in 1 .. Len(tokens) : starts[i] = Before(tokens[i]) /\ ends[i] = Behind(tokens[i])
    BY <2>2
  <2> HIDE DEF starts, ends
  <2>4. \A i \in 1 .. Len(tokens) - 1 : ends[i] <= starts[i + 1]
    <3>1. \A i \in 1 .. Len(tokens) - 1 : i \in 1 .. Len(tokens) /\ i + 1 \in 1 .. Len(tokens)
      BY <2>2
    <3> QED
      BY <2>1, <2>3, <3>1 DEF Settled
  <2>5. ASSUME NEW k \in 1 .. pos, k \notin Read PROVE src[k] \in Spaces
    BY <2>1, <2>2, <2>3, <2>5 DEF Settled
  <2>6. ASSUME NEW i \in DOMAIN tokens PROVE ends[i] <= pos /\ Longest(tokens[i])
    BY <2>1, <2>2, <2>3 DEF Settled, InSource
  <2> QED
    BY <2>4, <2>5, <2>6 DEF starts, ends
<1> QED
  BY <1>1, LexerInvHolds, PTL

-----------------------------------------------------------------------------
(***************************************************************************)
(* Refusals.  Divisible is a recursive function; that there is one is      *)
(* shown by the least set of places that has the end of the source and,    *)
(* with a place, all places from which a token leads there.                *)
(***************************************************************************)
Leads(p, q) == IsLexeme(SubSeq(src, p + 1, q))

Backward(S) ==
    /\ Len(src) \in S
    /\ \A p \in 0 .. Len(src) : \A q \in p + 1 .. Len(src) : Leads(p, q) /\ q \in S => p \in S

Least == {p \in 0 .. Len(src) : \A S \in SUBSET (0 .. Len(src)) : Backward(S) => p \in S}

LEMMA DivisibleStep ==
    ASSUME Len(src) \in Nat, NEW p \in 0 .. Len(src)
    PROVE  Divisible[p] <=> \/ p = Len(src)
                            \/ \E q \in p + 1 .. Len(src) : Leads(p, q) /\ Divisible[q]
<1> DEFINE f == [r \in 0 .. Len(src) |-> r \in Least]
           On(g) == g = [r \in 0 .. Len(src) |->
                            \/ r = Len(src)
                            \/ \E q \in r + 1 .. Len(src) : Leads(r, q) /\ g[q]]
<1>1. ASSUME NEW r \in 0 .. Len(src)
      PROVE  r \in Least <=> \/ r = Len(src)
                             \/ \E q \in r + 1 .. Len(src) : Leads(r, q) /\ q \in Least
  <2>1. \A q \in r + 1 .. Len(src) : q \in 0 .. Len(src)
    OBVIOUS
  <2>2. ASSUME r = Len(src) \/ \E q \in r + 1 .. Len(src) : Leads(r, q) /\ q \in Least
        PROVE  r \in Least
    BY <2>1, <2>2 DEF Least, Backward
  <2>3. ASSUME r \in Least
        PROVE  r = Len(src) \/ \E q \in r + 1 .. Len(src) : Leads(r, q) /\ q \in Least
    <3> DEFINE S == {m \in 0 .. Len(src) :
                        \/ m = Len(src)
                        \/ \E q \in m + 1 .. Len(src) : Leads(m, q) /\ q \in Least}
    <3>1. Backward(S)
      <4>1. Len(src) \in S
        OBVIOUS
      <4>2. ASSUME NEW m \in S PROVE m \in Least
        <5>1. \A q \in m + 1 .. Len(src) : q \in 0 .. Len(src)
          OBVIOUS
        <5> QED
          BY <4>2, <5>1 DEF Least, Backward
      <4>3. \A m \in 0 .. Len(src) : \A q \in m + 1 .. Len(src) :
               Leads(m, q) /\ q \in S => m \in S
        BY <4>2
      <4> QED
        BY <4>1, <4>3 DEF Backward
    <3>2. S \in SUBSET (0 .. Len(src))
      OBVIOUS
    <3>3. r \in S
      BY <2>3, <3>1, <3>2 DEF Least
    <3> QED
      BY <3>3
  <2> QED
    BY <2>2, <2>3
<1>2. On(f)
  <2> DEFINE E(r) == \/ r = Len(src)
                     \/ \E q \in r + 1 .. Len(src) : Leads(r, q) /\ f[q]
  <2>1. \A q \in 0 .. Len(src) : f[q] = (q \in Least)
    BY Zenon
  <2>2. ASSUME NEW r \in 0 .. Len(src) PROVE (r \in Least) = E(r)
    <3>1. \A q \in r + 1 .. Len(src) : q \in 0 .. Len(src)
      OBVIOUS
    <3> HIDE DEF f
    <3>2. \A q \in r + 1 .. Len(src) : f[q] = (q \in Least)
      BY <2>1, <3>1, Zenon
    <3>3. r \in Least <=> E(r)
      BY <1>1, <3>2, Zenon
    <3>4. (r \in Least) \in BOOLEAN /\ E(r) \in BOOLEAN
      OBVIOUS
    <3> HIDE DEF E
    <3> QED
      BY <3>3, <3>4
  <2> HIDE DEF E
  <2>3. f = [r \in 0 .. Len(src) |-> E(r)]
    BY <2>2, Zenon
  <2> HIDE DEF f
  <2> QED
    BY <2>3 DEF E
<1>3. Divisible = CHOOSE g : On(g)
  BY DEF Divisible, Leads
<1> HIDE DEF f
<1>4. On(Divisible)
  BY <1>2, <1>3
<1> QED
  BY <1>4

LEMMA DivisibleStays ==
    ASSUME src' = src
    PROVE  Divisible' = Divisible
BY DEF Divisible

\* What a character can begin is decided by its class.
LEMMA OneClass ==
    /\ \A c \in Spaces \union Marks : c \notin Letters \union Digits \union {Quote, Underscore}
    /\ \A c \in Unknown \union {Underscore} :
          c \notin Spaces \union Marks \union Letters \union Digits \union {Quote}
    /\ Quote \notin Spaces \union Marks \union Letters \union Digits
    /\ Letters \intersect Digits = {} /\ Underscore \notin Letters \union Digits
<1> DEFINE Classes == <<Letters, Digits, Blanks, Marks, Unknown,
                        {NewLine}, {Quote}, {Underscore}>>
           Apart(i, j) == Classes[i] \intersect Classes[j] = {}
<1>1. \A i, j \in 1 .. 8 : i # j => Apart(i, j)
  BY LexerAssumption
<1>2. /\ Classes[1] = Letters /\ Classes[2] = Digits /\ Classes[3] = Blanks
      /\ Classes[4] = Marks /\ Classes[5] = Unknown
      /\ Classes[6] = {NewLine} /\ Classes[7] = {Quote} /\ Classes[8] = {Underscore}
  OBVIOUS
<1> HIDE DEF Classes
<1>3. /\ Apart(3, 1) /\ Apart(3, 2) /\ Apart(3, 7) /\ Apart(3, 8)
      /\ Apart(4, 1) /\ Apart(4, 2) /\ Apart(4, 7) /\ Apart(4, 8)
      /\ Apart(6, 1) /\ Apart(6, 2) /\ Apart(6, 7) /\ Apart(6, 8)
  <2> HIDE DEF Apart
  <2> QED
    BY <1>1
<1>4. /\ Apart(5, 1) /\ Apart(5, 2) /\ Apart(5, 3) /\ Apart(5, 4)
      /\ Apart(5, 6) /\ Apart(5, 7)
      /\ Apart(8, 1) /\ Apart(8, 2) /\ Apart(8, 3) /\ Apart(8, 4)
      /\ Apart(8, 6) /\ Apart(8, 7)
      /\ Apart(7, 1) /\ Apart(7, 2) /\ Apart(1, 2)
  <2> HIDE DEF Apart
  <2> QED
    BY <1>1
<1>5. \A c \in Spaces \union Marks : c \notin Letters \union Digits \union {Quote, Underscore}
  BY <1>2, <1>3 DEF Spaces
<1>6. \A c \in Unknown \union {Underscore} :
         c \notin Spaces \union Marks \union Letters \union Digits \union {Quote}
  BY <1>2, <1>4 DEF Spaces
<1> QED
  BY <1>2, <1>4, <1>5, <1>6

\* The tokens and spaces that can be read from p on.
LEMMA LeadsIs ==
    ASSUME src \in Seq(Chars), NEW p \in Nat, NEW q \in p + 1 .. Len(src)
    PROVE  Leads(p, q) <=>
              \/ q = p + 1 /\ src[p + 1] \in Spaces \union Marks
              \/ q = p + 3 /\ src[p + 1] = Quote /\ src[p + 3] = Quote
              \/ /\ src[p + 1] \in Digits
                 /\ \A k \in p + 1 .. q : src[k] \in Digits \union {Underscore}
              \/ src[p + 1] \in Letters /\ \A k \in p + 1 .. q : src[k] \in WordChars
<1> DEFINE s == Text(p, q)
<1>1. Len(src) \in Nat /\ q \in Nat /\ p <= q /\ q <= Len(src)
  OBVIOUS
<1>2. s \in Seq(Chars) /\ Len(s) = q - p /\ \A k \in 1 .. q - p : s[k] = src[p + k]
  BY <1>1, TextLayout
<1> HIDE DEF s
<1>3. DOMAIN s = 1 .. q - p
  BY <1>2
<1>4. s[1] = src[p + 1] /\ (q = p + 3 => s[3] = src[p + 3])
  <2>1. 1 \in 1 .. q - p /\ (q = p + 3 => 3 \in 1 .. q - p)
    BY <1>1
  <2> QED
    BY <1>2, <2>1
<1>5. ASSUME NEW C
      PROVE  (\A k \in DOMAIN s : s[k] \in C) <=> \A k \in p + 1 .. q : src[k] \in C
  <2>1. ASSUME \A k \in 1 .. q - p : src[p + k] \in C, NEW k \in p + 1 .. q
        PROVE  src[k] \in C
    <3>1. k - p \in 1 .. q - p /\ p + (k - p) = k
      BY <1>1
    <3> QED
      BY <2>1, <3>1
  <2>2. \A k \in 1 .. q - p : p + k \in p + 1 .. q
    BY <1>1
  <2> QED
    BY <1>2, <1>3, <2>1, <2>2
<1>6. (Len(s) = 1 <=> q = p + 1) /\ (Len(s) = 3 <=> q = p + 3)
  BY <1>1, <1>2
<1>7. Leads(p, q) <=> IsLexeme(s)
  BY DEF Leads, s, Text
<1>8. IsLexeme(s) <=>
         \/ q = p + 1 /\ s[1] \in Spaces \union Marks
         \/ q = p + 3 /\ s[1] = Quote /\ s[3] = Quote
         \/ s[1] \in Digits /\ \A k \in p + 1 .. q : src[k] \in Digits \union {Underscore}
         \/ s[1] \in Letters /\ \A k \in p + 1 .. q : src[k] \in WordChars
  <2>1. /\ (\A i \in DOMAIN s : s[i] \in Digits \union {Underscore})
            <=> \A k \in p + 1 .. q : src[k] \in Digits \union {Underscore}
        /\ (\A i \in DOMAIN s : s[i] \in Letters \union Digits \union {Underscore})
            <=> \A k \in p + 1 .. q : src[k] \in WordChars
    BY <1>5 DEF WordChars
  <2> QED
    BY <1>6, <2>1 DEF IsLexeme
<1> QED
  BY <1>4, <1>7, <1>8

\* A division of the source that goes through the beginning of a longest run
\* of the characters of a number, or of a word, goes through its end.
LEMMA RunIsDivided ==
    ASSUME src \in Seq(Chars), NEW s \in Nat, NEW q \in s + 1 .. Len(src),
           NEW C, C \in {Digits \union {Underscore}, WordChars},
           \A k \in s + 1 .. q : src[k] \in C,
           q < Len(src) => src[q + 1] \notin C,
           Divisible[s]
    PROVE  Divisible[q]
<1> DEFINE R == {r \in s .. q : Divisible[r]}
<1>1. Len(src) \in Nat /\ q \in Nat /\ s < q /\ q <= Len(src)
  OBVIOUS
<1>2. PICK r \in R : \A m \in R : m <= r
  <2>1. R \in SUBSET (0 .. q) /\ s \in R
    BY <1>1
  <2> HIDE DEF R
  <2> QED
    BY <1>1, <2>1, GreatestBelow
<1>3. r \in Nat /\ s <= r /\ r <= q /\ Divisible[r]
  BY <1>1
<1>4. ASSUME r < q PROVE FALSE
  <2>1. r \in 0 .. Len(src) /\ r # Len(src)
    BY <1>1, <1>3, <1>4
  <2>2. PICK m \in r + 1 .. Len(src) : Leads(r, m) /\ Divisible[m]
    BY <1>1, <1>3, <2>1, DivisibleStep
  <2>3. m \in Nat /\ r < m
    BY <1>1, <1>3
  <2>4. src[r + 1] \in C
    <3>1. r + 1 \in s + 1 .. q
      BY <1>1, <1>3, <1>4
    <3> QED
      BY <3>1
  <2>5. src[r + 1] \notin Spaces \union Marks /\ src[r + 1] # Quote
    BY <2>4, OneClass DEF WordChars
  <2>6. \/ src[r + 1] \in Digits /\ \A k \in r + 1 .. m : src[k] \in Digits \union {Underscore}
        \/ src[r + 1] \in Letters /\ \A k \in r + 1 .. m : src[k] \in WordChars
    BY <1>3, <2>2, <2>5, LeadsIs
  <2>7. \A k \in r + 1 .. m : src[k] \in C
    <3>1. CASE C = WordChars
      BY <2>6, <3>1 DEF WordChars
    <3>2. CASE C = Digits \union {Underscore}
      BY <2>4, <2>6, <3>2, OneClass
    <3> QED
      BY <3>1, <3>2
  <2>8. m <= q
    <3> SUFFICES ASSUME q < m PROVE FALSE
      BY <1>1, <2>3
    <3>1. q + 1 \in r + 1 .. m /\ q < Len(src)
      BY <1>1, <1>3, <2>3
    <3> QED
      BY <2>7, <3>1
  <2>9. m \in s .. q
    BY <1>1, <1>3, <2>3, <2>8
  <2>10. m <= r
    BY <1>2, <2>2, <2>9
  <2> QED
    BY <1>3, <2>3, <2>10
<1>5. r = q
  BY <1>1, <1>3, <1>4
<1> QED
  BY <1>3, <1>5

(***************************************************************************)
(* The invariant of refusals: a division of the whole source would go      *)
(* through the place where the token begins that is being collected.       *)
(***************************************************************************)
Good(s) == Divisible[0] => Divisible[s]

RefusalInv ==
    /\ \E s \in 0 .. pos : Begins(s) /\ Good(s)
    /\ at = "refused" => ~Divisible[0]

\* In the outer loop, a single way to go on keeps the invariant.
LEMMA OneWayOn ==
    ASSUME Scanning, RefusalInv, at = "token", pos < Len(src), src' = src,
           NEW q \in pos + 1 .. Len(src), pos' = q, at' = "token",
           \A r \in pos + 1 .. Len(src) : Leads(pos, r) => r = q
    PROVE  RefusalInv'
<1>1. Good(pos)
  BY DEF RefusalInv, Begins
<1>2. pos \in 0 .. Len(src) /\ Len(src) \in Nat /\ q \in 0 .. q
  BY DEF Scanning
<1>3. Divisible[pos] => Divisible[q]
  <2>1. pos # Len(src)
    BY <1>2
  <2> QED
    BY <1>2, <2>1, DivisibleStep
<1>4. Good(q)'
  BY <1>1, <1>3, DivisibleStays DEF Good
<1>5. Begins(q)'
  BY DEF Begins
<1> QED
  BY <1>2, <1>4, <1>5 DEF RefusalInv

LEMMA RefusalOnOneChar ==
    ASSUME Scanning, RefusalInv, SkipSpace \/ Mark
    PROVE  RefusalInv'
<1>1. /\ at = "token" /\ at' = "token" /\ src' = src /\ pos < Len(src)
      /\ src[pos + 1] \in Spaces \union Marks /\ pos' = pos + 1
  BY DEF SkipSpace, Mark, NextIn, Get
<1>2. pos \in Nat /\ Len(src) \in Nat /\ src \in Seq(Chars)
  BY DEF Scanning
<1>3. PICK q \in pos + 1 .. Len(src) : q = pos + 1
  BY <1>1, <1>2
<1>4. \A r \in pos + 1 .. Len(src) : Leads(pos, r) => r = q
  BY <1>1, <1>2, <1>3, LeadsIs, OneClass
<1> QED
  BY <1>1, <1>3, <1>4, OneWayOn

LEMMA RefusalOnLiteral ==
    ASSUME Scanning, RefusalInv, CharLiteral
    PROVE  RefusalInv'
<1>1. /\ at = "token" /\ at' = "token" /\ src' = src /\ pos + 3 <= Len(src)
      /\ src[pos + 1] = Quote /\ pos' = pos + 3
  BY DEF CharLiteral, NextIn, Closed
<1>2. pos \in Nat /\ Len(src) \in Nat /\ src \in Seq(Chars)
  BY DEF Scanning
<1>3. PICK q \in pos + 1 .. Len(src) : q = pos + 3
  BY <1>1, <1>2
<1>4. \A r \in pos + 1 .. Len(src) : Leads(pos, r) => r = q
  BY <1>1, <1>2, <1>3, LeadsIs, OneClass
<1>5. pos < Len(src)
  BY <1>1, <1>2
<1> QED
  BY <1>1, <1>3, <1>4, <1>5, OneWayOn

\* Where the scan gives up, no token can begin.
LEMMA RefusalOnRefuse ==
    ASSUME Scanning, RefusalInv, RefuseQuote \/ RefuseChar
    PROVE  RefusalInv'
<1>1. /\ at = "token" /\ at' = "refused" /\ src' = src /\ pos' = pos /\ pos < Len(src)
      /\ \/ src[pos + 1] = Quote /\ ~(pos + 3 <= Len(src) /\ src[pos + 3] = Quote)
         \/ src[pos + 1] \in Unknown \union {Underscore}
  BY DEF RefuseQuote, RefuseChar, NextIn, Closed
<1>2. pos \in Nat /\ Len(src) \in Nat /\ src \in Seq(Chars) /\ pos \in 0 .. Len(src)
  BY DEF Scanning
<1>3. \A r \in pos + 1 .. Len(src) : ~Leads(pos, r)
  BY <1>1, <1>2, LeadsIs, OneClass
<1>4. ~Divisible[pos]
  <2>1. pos # Len(src)
    BY <1>1, <1>2
  <2> QED
    BY <1>2, <1>3, <2>1, DivisibleStep
<1>5. ~Divisible[0]
  BY <1>1, <1>4 DEF RefusalInv, Begins, Good
<1>6. ~Divisible'[0] /\ Good(pos)' /\ Begins(pos)'
  BY <1>1, <1>5, DivisibleStays DEF Good, Begins
<1>7. pos \in 0 .. pos
  BY <1>2
<1> QED
  BY <1>1, <1>6, <1>7 DEF RefusalInv

\* Where a number or a word begins does not change while it is collected.
LEMMA RefusalOnCollect ==
    ASSUME LexerInv, LexerInv', RefusalInv,
           BeginNumber \/ BeginWord \/ NumberChar \/ WordChar
    PROVE  RefusalInv'
<1>1. Scanning /\ src' = src /\ at' \in {"number", "word"} /\ at' # "refused"
  BY DEF LexerInv, BeginNumber, BeginWord, Collect, NumberChar, WordChar
<1>2. pos \in Nat /\ line = LineAt(pos) /\ col = ColumnAt(pos)
  BY <1>1 DEF Scanning
<1>3. PICK s \in 0 .. pos :
         Good(s) /\ line' = LineAt(s) /\ from' = ColumnAt(s)
  <2>1. CASE BeginNumber \/ BeginWord
    <3>1. at = "token" /\ line' = line /\ from' = col
      BY <2>1 DEF BeginNumber, BeginWord, Collect
    <3>2. Good(pos) /\ pos \in 0 .. pos
      BY <1>2, <3>1 DEF RefusalInv, Begins
    <3> QED
      BY <1>2, <3>1, <3>2
  <2>2. CASE NumberChar \/ WordChar
    <3>1. /\ at \in {"number", "word"} /\ from' = from /\ Get
          /\ src[pos + 1] \in Letters \union Digits \union {Underscore}
      BY <2>2 DEF NumberChar, WordChar, InNumber, InWord, NextIn
    <3>2. src[pos + 1] # NewLine
      BY <3>1, ClassesApart
    <3>3. line' = line
      BY <3>1, <3>2 DEF Get
    <3>4. PICK s \in 0 .. pos : Collected(s) /\ Good(s)
      BY <3>1 DEF RefusalInv, Begins
    <3> QED
      BY <3>1, <3>3, <3>4 DEF Collected
  <2> QED
    BY <2>1, <2>2
<1>4. PICK m \in 0 .. pos' : Begins(m)'
  BY DEF LexerInv
<1>5. line' = LineAt(m) /\ from' = ColumnAt(m) /\ pos' \in Nat
  <2>1. line' = LineAt(m)' /\ from' = ColumnAt(m)'
    BY <1>1, <1>4 DEF Begins, Collected
  <2>2. LineAt(m)' = LineAt(m) /\ ColumnAt(m)' = ColumnAt(m)
    BY <1>1, SourceStays
  <2>3. pos' \in 0 .. Len(src')
    BY DEF LexerInv, Scanning
  <2> QED
    BY <2>1, <2>2, <2>3
<1>6. m = s
  <2>1. m \in Nat /\ s \in Nat
    BY <1>2, <1>5
  <2> QED
    BY <1>3, <1>5, <2>1, PlacesDiffer
<1>7. Good(m)'
  BY <1>1, <1>3, <1>6, DivisibleStays DEF Good
<1> QED
  BY <1>1, <1>4, <1>7 DEF RefusalInv

\* A number or a word ends where its characters do.
LEMMA RefusalOnEnd ==
    ASSUME Scanning, RefusalInv, EndNumber \/ EndWord
    PROVE  RefusalInv'
<1>1. PICK C \in {Digits \union {Underscore}, WordChars} :
         /\ src' = src /\ pos' = pos /\ text' = text /\ at' = "token"
         /\ at \in {"number", "word"}
         /\ C = (IF at = "number" THEN Digits \union {Underscore} ELSE WordChars)
         /\ ~(text # <<>> /\ NextIn(C))
         /\ at = "number" => ~NextIn(Digits)
         /\ at = "word" => ~NextIn(Letters)
  <2>1. CASE EndNumber
    <3>1. ~(text # <<>> /\ NextIn(Digits \union {Underscore})) /\ ~NextIn(Digits)
      BY <2>1 DEF EndNumber, InNumber, NextIn
    <3> QED
      BY <2>1, <3>1 DEF EndNumber
  <2>2. CASE EndWord
    <3>1. ~NextIn(WordChars) /\ ~NextIn(Letters)
      BY <2>2 DEF EndWord, InWord, NextIn, WordChars
    <3> QED
      BY <2>2, <3>1 DEF EndWord
  <2> QED
    BY <2>1, <2>2
<1>2. pos \in Nat /\ Len(src) \in Nat /\ pos <= Len(src) /\ src \in Seq(Chars)
  BY DEF Scanning
<1>3. PICK s \in 0 .. pos : Collected(s) /\ Good(s)
  BY <1>1 DEF RefusalInv, Begins
<1>4. text = Text(s, pos) /\ text # <<>> /\ \A k \in 1 .. Len(text) : text[k] \in C
  BY <1>1, <1>3 DEF Collected
<1>5. Len(text) = pos - s /\ \A k \in 1 .. pos - s : text[k] = src[s + k]
  <2>1. s \in Nat /\ s <= pos
    BY <1>2
  <2> QED
    BY <1>2, <1>4, <2>1, TextLayout
<1>6. s < pos
  <2>1. text \in Seq(Chars) /\ Len(text) # 0
    BY <1>4, EmptySeq DEF Scanning
  <2> QED
    BY <1>2, <1>5, <2>1
<1>7. ASSUME NEW k \in s + 1 .. pos PROVE src[k] \in C
  <2>1. k - s \in 1 .. pos - s /\ s + (k - s) = k
    BY <1>2
  <2> QED
    BY <1>4, <1>5, <2>1
<1>8. pos < Len(src) => src[pos + 1] \notin C
  BY <1>1, <1>4 DEF NextIn
<1>9. Divisible[s] => Divisible[pos]
  <2>1. s \in Nat /\ pos \in s + 1 .. Len(src)
    BY <1>2, <1>6
  <2> QED
    BY <1>1, <1>2, <1>7, <1>8, <2>1, RunIsDivided
<1>10. Good(pos)'
  BY <1>1, <1>3, <1>9, DivisibleStays DEF Good
<1>11. Begins(pos)' /\ pos \in 0 .. pos'
  BY <1>1, <1>2 DEF Begins
<1> QED
  BY <1>1, <1>10, <1>11 DEF RefusalInv

\* The end of the tokens and a step that changes nothing.
LEMMA RefusalOnRest ==
    ASSUME Scanning, RefusalInv, EndTokens \/ UNCHANGED lexVars
    PROVE  RefusalInv'
<1>1. PICK s \in 0 .. pos : Begins(s) /\ Good(s)
  BY DEF RefusalInv
<1>2. src' = src /\ pos' = pos
  BY DEF EndTokens, lexVars
<1>3. at' = "refused" => at = "refused"
  BY DEF EndTokens, lexVars
<1>4. Good(s)' /\ (at' = "refused" => ~Divisible'[0])
  BY <1>1, <1>2, <1>3, DivisibleStays DEF Good, RefusalInv
<1>5. Begins(s)'
  <2>1. CASE EndTokens
    <3>1. at = "token" /\ at' = "done"
      BY <2>1 DEF EndTokens
    <3> QED
      BY <1>1, <1>2, <3>1 DEF Begins
  <2>2. CASE UNCHANGED lexVars
    <3>1. UNCHANGED <<src, pos, line, col, at, text, from, tokens>>
      BY <2>2 DEF lexVars
    <3>2. LineAt(s)' = LineAt(s) /\ ColumnAt(s)' = ColumnAt(s) /\ Text(s, pos)' = Text(s, pos)
      BY <3>1 DEF LineAt, ColumnAt, Breaks, Text
    <3> QED
      BY <1>1, <3>1, <3>2 DEF Begins, Collected, NextIn
  <2> QED
    BY <2>1, <2>2
<1> QED
  BY <1>1, <1>2, <1>4, <1>5 DEF RefusalInv

(***************************************************************************)
(* A source that Lexer::tokenize refuses, for a character it does not know *)
(* or a quote that is not closed, cannot be divided into tokens and spaces *)
(* in any way: to take the longest number or word never spoils a source.   *)
(***************************************************************************)
THEOREM RefusalsHaveCause == LexerSpec => []RefusedForCause
<1>1. LexerInit => RefusalInv
  <2> SUFFICES ASSUME LexerInit PROVE RefusalInv
    OBVIOUS
  <2>1. pos = 0 /\ at = "token" /\ 0 \in 0 .. pos /\ Begins(0) /\ Good(0)
    BY DEF LexerInit, Begins, Good
  <2> QED
    BY <2>1 DEF RefusalInv
<1>2. ASSUME LexerInv, LexerInv', RefusalInv, [LexerNext]_lexVars PROVE RefusalInv'
  <2>1. Scanning
    BY <1>2 DEF LexerInv
  <2>2. CASE SkipSpace \/ Mark
    BY <1>2, <2>1, <2>2, RefusalOnOneChar
  <2>3. CASE CharLiteral
    BY <1>2, <2>1, <2>3, RefusalOnLiteral
  <2>4. CASE RefuseQuote \/ RefuseChar
    BY <1>2, <2>1, <2>4, RefusalOnRefuse
  <2>5. CASE BeginNumber \/ BeginWord \/ NumberChar \/ WordChar
    BY <1>2, <2>5, RefusalOnCollect
  <2>6. CASE EndNumber \/ EndWord
    BY <1>2, <2>1, <2>6, RefusalOnEnd
  <2>7. CASE EndTokens \/ UNCHANGED lexVars
    BY <1>2, <2>1, <2>7, RefusalOnRest
  <2> QED
    BY <1>2, <2>2, <2>3, <2>4, <2>5, <2>6, <2>7 DEF LexerNext
<1>3. RefusalInv => RefusedForCause
  BY DEF RefusalInv, RefusedForCause
<1> QED
  BY <1>1, <1>2, <1>3, LexerInvHolds, PTL DEF LexerSpec
===============================================================================
