--------------------------- MODULE SqlSplitProofs ---------------------------
(***************************************************************************)
(* splitStatements implements SqlLexer, for every text over any characters. *)
(***************************************************************************)
EXTENDS SqlSplit, FiniteSetTheorems, SequenceTheorems, WellFoundedInduction, TLAPS

-----------------------------------------------------------------------------
(* Texts *)

\* The least number of a set that is not empty.
LEMMA MinOfNaturals ==
    ASSUME NEW S, S \subseteq Nat, S # {}
    PROVE  Min(S) \in S /\ \A y \in S : Min(S) <= y
<1> DEFINE R == OpToRel(<, Nat)
<1>1. IsWellFoundedOn(R, Nat)
  BY NatLessThanWellFounded
<1>2. \A x, y \in Nat : x < y <=> <<x, y>> \in R
  BY DEF OpToRel
<1> HIDE DEF R
<1>3. PICK x \in S : \A y \in S : ~(<<y, x>> \in R)
  BY <1>1, WFMin
<1>4. \A y \in S : x \in Nat /\ y \in Nat /\ ~(y < x)
  BY <1>2, <1>3, Zenon
<1>5. \A y \in S : x <= y
  BY <1>4
<1>6. QED
  BY <1>3, <1>5 DEF Min

\* The lexer and the loop read tags, prefixes and white space alike.
LEMMA SameText ==
    /\ Lexer!Dashes = Dashes /\ Lexer!Quotes = Quotes
    /\ \A s, i, t : Lexer!At(s, i, t) <=> At(s, i, t)
    /\ \A s, i : Lexer!ParseDollarTag(s, i) = ParseDollarTag(s, i)
    /\ \A s, t : Lexer!WithStatement(s, t) = WithStatement(s, t)
    /\ \A S : Lexer!Min(S) = Min(S) /\ Lexer!Cardinality(S) = Cardinality(S)
<1>1. Lexer!Dashes = Dashes /\ Lexer!Quotes = Quotes
  BY DEF Dashes, Quotes, Lexer!Dashes, Lexer!Quotes
<1>2. \A s, i, t : Lexer!At(s, i, t) <=> At(s, i, t)
  BY DEF At, Lexer!At
<1>0. \A S : Lexer!Min(S) = Min(S) /\ Lexer!Max(S) = Max(S)
  BY DEF Min, Lexer!Min, Max, Lexer!Max
<1>3. \A s, i : Lexer!ParseDollarTag(s, i) = ParseDollarTag(s, i)
  BY <1>0 DEF ParseDollarTag, Lexer!ParseDollarTag
<1>4. \A s : Lexer!Trim(s) = Trim(s)
  BY <1>0 DEF Trim, Lexer!Trim
<1>5. \A s, t : Lexer!WithStatement(s, t) = WithStatement(s, t)
  BY <1>4 DEF WithStatement, Lexer!WithStatement
<1>6. \A S : Lexer!Cardinality(S) = Cardinality(S)
  BY DEF Cardinality, Lexer!Cardinality
<1>7. QED
  BY <1>0, <1>1, <1>2, <1>3, <1>5, <1>6

\* A tag stands where it was found and has at least two characters.
LEMMA TagIsThere ==
    ASSUME NEW s \in Seq(Chars), NEW i \in 1 .. Len(s), ParseDollarTag(s, i) # <<>>
    PROVE  LET t == ParseDollarTag(s, i)
           IN /\ t \in Seq(Chars) /\ Len(t) \in Nat /\ Len(t) >= 2
              /\ i + Len(t) - 1 <= Len(s) /\ t = SubSeq(s, i, i + Len(t) - 1)
              /\ s[i] = "$"
<1> DEFINE ends == {j \in i + 1 .. Len(s) :
                       s[j] = "$" /\ \A k \in i + 1 .. j - 1 : s[k] \in WordChars}
           e == Min(ends)
           t == SubSeq(s, i, e)
<1>1. s[i] = "$" /\ ends # {} /\ ParseDollarTag(s, i) = t
  BY DEF ParseDollarTag
<1>2. e \in i + 1 .. Len(s)
  <2>1. ends \subseteq Nat
    OBVIOUS
  <2> HIDE DEF ends
  <2>2. e \in ends
    BY <1>1, <2>1, MinOfNaturals
  <2>3. QED
    BY <2>2 DEF ends
<1> HIDE DEF e
<1>3. /\ i \in Nat /\ e \in Nat /\ Len(s) \in Nat /\ i + 1 <= e /\ e <= Len(s)
      /\ Len(t) = e - i + 1 /\ t \in Seq(Chars)
  BY <1>2
<1> HIDE DEF t
<1>4. Len(t) \in Nat /\ Len(t) >= 2 /\ i + Len(t) - 1 = e
  BY <1>3
<1>5. QED
  BY <1>1, <1>3, <1>4 DEF t

\* One character more.
LEMMA CountOneMore ==
    ASSUME NEW s, NEW c, NEW i \in Nat, NEW j \in Nat, i <= j
    PROVE  /\ Lexer!Count(s, c, i, j - 1) \in Nat
           /\ Lexer!Count(s, c, i, j) =
                 Lexer!Count(s, c, i, j - 1) + (IF s[j] = c THEN 1 ELSE 0)
<1> DEFINE S == {k \in i .. j - 1 : s[k] = c}
           T == {k \in i .. j : s[k] = c}
<1>1. Lexer!Count(s, c, i, j - 1) = Cardinality(S) /\ Lexer!Count(s, c, i, j) = Cardinality(T)
  BY SameText DEF Lexer!Count
<1>2. IsFiniteSet(S)
  <2>1. IsFiniteSet(i .. j - 1)
    BY FS_Interval
  <2>2. S \in SUBSET (i .. j - 1)
    OBVIOUS
  <2> HIDE DEF S
  <2>3. QED
    BY <2>1, <2>2, FS_Subset
<1>3. j \notin S /\ T = IF s[j] = c THEN S \cup {j} ELSE S
  <2>1. \A k : k \in i .. j <=> k \in i .. j - 1 \/ k = j
    OBVIOUS
  <2>2. j \notin i .. j - 1
    OBVIOUS
  <2>3. QED
    BY <2>1, <2>2
<1> HIDE DEF S, T
<1>4. Cardinality(S) \in Nat /\ Cardinality(S \cup {j}) = Cardinality(S) + 1
  BY <1>2, <1>3, FS_CardinalityType, FS_AddElement
<1>5. QED
  BY <1>1, <1>3, <1>4

\* Texts are joined in any order.
LEMMA ThreeTexts ==
    \A x, y, z \in Seq(Chars) : (x \o y) \o z = x \o (y \o z)
<1> TAKE x, y, z \in Seq(Chars)
<1>1. QED
  BY ConcatAssociative

\* One character, and two.
LEMMA ShortTexts ==
    ASSUME NEW s \in Seq(Chars), NEW p \in 1 .. Len(s)
    PROVE  /\ s[p] \in Chars
           /\ SubSeq(s, p, p) = <<s[p]>>
           /\ p < Len(s) => SubSeq(s, p, p + 1) = <<s[p], s[p + 1]>>
<1>1. p \in Nat /\ Len(s) \in Nat /\ 1 <= p /\ p <= Len(s)
  OBVIOUS
<1>2. SubSeq(s, p, p) = <<s[p]>>
  <2> DEFINE v == SubSeq(s, p, p)
             w == <<s[p]>>
  <2>1. v \in Seq(Chars) /\ Len(v) = 1 /\ v[1] = s[p] /\ s[p] \in Chars
    BY <1>1
  <2>2. w \in Seq(Chars) /\ Len(w) = 1 /\ w[1] = s[p]
    BY <2>1
  <2> HIDE DEF v, w
  <2>3. \A k \in 1 .. Len(v) : v[k] = w[k]
    BY <2>1, <2>2
  <2>4. QED
    BY <2>1, <2>2, <2>3, SeqEqual DEF v, w
<1>3. p < Len(s) => SubSeq(s, p, p + 1) = <<s[p], s[p + 1]>>
  <2> SUFFICES ASSUME p < Len(s) PROVE SubSeq(s, p, p + 1) = <<s[p], s[p + 1]>>
    OBVIOUS
  <2> DEFINE v == SubSeq(s, p, p + 1)
             w == <<s[p], s[p + 1]>>
  <2>1. v \in Seq(Chars) /\ Len(v) = 2 /\ v[1] = s[p] /\ v[2] = s[p + 1]
        /\ s[p] \in Chars /\ s[p + 1] \in Chars
    BY <1>1
  <2>2. w \in Seq(Chars) /\ Len(w) = 2 /\ w[1] = s[p] /\ w[2] = s[p + 1]
    BY <2>1
  <2> HIDE DEF v, w
  <2>3. \A k \in 1 .. Len(v) : v[k] = w[k]
    BY <2>1, <2>2
  <2>4. QED
    BY <2>1, <2>2, <2>3, SeqEqual DEF v, w
<1>4. QED
  BY <1>1, <1>2, <1>3

\* Reading on appends to what has been read.
LEMMA ReadOn ==
    ASSUME NEW s \in Seq(Chars), NEW b \in Seq(Chars), NEW i \in 1 .. Len(s),
           NEW p \in i .. Len(s), NEW q \in p .. Len(s)
    PROVE  (b \o SubSeq(s, i, p - 1)) \o SubSeq(s, p, q) = b \o SubSeq(s, i, q)
<1>1. /\ i \in Nat /\ p \in Nat /\ q \in Nat /\ Len(s) \in Nat
      /\ 1 <= i /\ i <= p /\ p <= q /\ q <= Len(s)
  OBVIOUS
<1>2. SubSeq(s, i, p - 1) \o SubSeq(s, p, q) = SubSeq(s, i, q)
  <2>1. PICK k : k = p - 1
    OBVIOUS
  <2>2. k \in i - 1 .. Len(s) /\ q \in k .. Len(s) /\ k + 1 = p /\ i \in 1 .. Len(s) + 1
    BY <1>1, <2>1
  <2>3. SubSeq(s, i, k) \o SubSeq(s, k + 1, q) = SubSeq(s, i, q)
    BY <2>2, ConcatAdjacentSubSeq
  <2>4. QED
    BY <2>1, <2>2, <2>3
<1>3. SubSeq(s, i, p - 1) \in Seq(Chars) /\ SubSeq(s, p, q) \in Seq(Chars)
  <2>1. \A x \in 1 .. Len(s), y \in Nat : y <= Len(s) => SubSeq(s, x, y) \in Seq(Chars)
    OBVIOUS
  <2>2. p - 1 \in Nat /\ p - 1 <= Len(s) /\ p \in 1 .. Len(s)
    BY <1>1
  <2>3. QED
    BY <1>1, <2>1, <2>2
<1> DEFINE u == SubSeq(s, i, p - 1)
           v == SubSeq(s, p, q)
<1>4. u \in Seq(Chars) /\ v \in Seq(Chars)
  BY <1>3
<1> HIDE DEF u, v
<1>5. (b \o u) \o v = b \o (u \o v)
  BY <1>4, ThreeTexts
<1>6. QED
  BY <1>2, <1>5 DEF u, v

-----------------------------------------------------------------------------
(* Lexemes *)

\* Where a lexeme may end, by what it begins with.
LEMMA EndsOfLexeme ==
    ASSUME NEW s \in Seq(Chars), NEW i \in 1 .. Len(s)
    PROVE  LET t == ParseDollarTag(s, i)
               ends == Lexer!LexemeEnds(s, i)
           IN /\ At(s, i, Dashes) => /\ i + 1 <= Len(s) /\ s[i] = "-" /\ s[i + 1] = "-"
                                     /\ ends = {j \in i .. Len(s) : s[j] = "\n"}
              /\ s[i] \in Quotes =>
                    /\ ~At(s, i, Dashes) /\ t = <<>>
                    /\ ends = {j \in i .. Len(s) :
                                 /\ s[j] = s[i] /\ Lexer!Even(Lexer!Count(s, s[i], i, j))
                                 /\ j < Len(s) => s[j + 1] # s[i]}
              /\ t # <<>> => /\ ~At(s, i, Dashes)
                             /\ ends = {j \in i + 2 * Len(t) - 1 .. Len(s) : At(s, j - Len(t) + 1, t)}
              /\ ~At(s, i, Dashes) /\ s[i] \notin Quotes /\ t = <<>> => ends = {i}
              /\ ends \subseteq i .. Len(s)
<1> DEFINE t == ParseDollarTag(s, i)
           ends == Lexer!LexemeEnds(s, i)
           comment == At(s, i, Dashes)
           quote == s[i] \in Quotes
           C == {j \in i .. Len(s) : s[j] = "\n"}
           Q == {j \in i .. Len(s) : /\ s[j] = s[i] /\ Lexer!Even(Lexer!Count(s, s[i], i, j))
                                     /\ j < Len(s) => s[j + 1] # s[i]}
           T == {j \in i + 2 * Len(t) - 1 .. Len(s) : At(s, j - Len(t) + 1, t)}
<1>1. comment => i + 1 <= Len(s) /\ s[i] = "-" /\ s[i + 1] = "-"
  <2> SUFFICES ASSUME comment PROVE i + 1 <= Len(s) /\ s[i] = "-" /\ s[i + 1] = "-"
    OBVIOUS
  <2>1. Len(Dashes) = 2 /\ Dashes = <<"-", "-">>
    BY DEF Dashes
  <2>2. i + 2 - 1 = i + 1
    OBVIOUS
  <2>3. i + 1 <= Len(s) /\ SubSeq(s, i, i + 1) = <<"-", "-">>
    BY <2>1, <2>2 DEF At
  <2>4. SubSeq(s, i, i + 1) = <<s[i], s[i + 1]>>
    BY <2>3, ShortTexts
  <2>5. QED
    BY <2>3, <2>4
<1>2. t # <<>> => s[i] = "$" /\ Len(t) \in Nat /\ Len(t) >= 2
  BY TagIsThere
<1>3. quote => s[i] # "-" /\ s[i] # "$"
  BY DEF Quotes
<1>4. /\ comment => ~quote /\ t = <<>>
      /\ quote => ~comment /\ t = <<>>
      /\ t # <<>> => ~comment /\ ~quote
  <2> HIDE DEF comment, quote, t
  <2>1. QED
    BY <1>1, <1>2, <1>3
<1>5. ends = CASE comment -> C [] quote -> Q [] t # <<>> -> T [] OTHER -> {i}
  BY SameText DEF Lexer!LexemeEnds
<1> HIDE DEF comment, quote, C, Q, T, t, ends
<1>6. /\ comment => ends = C
      /\ quote => ends = Q
      /\ t # <<>> => ends = T
      /\ ~comment /\ ~quote /\ t = <<>> => ends = {i}
  BY <1>4, <1>5
<1>7. /\ C \subseteq i .. Len(s) /\ Q \subseteq i .. Len(s) /\ i \in i .. Len(s)
      /\ t # <<>> => T \subseteq i .. Len(s)
  <2>1. C \subseteq i .. Len(s) /\ Q \subseteq i .. Len(s) /\ i \in i .. Len(s)
    BY DEF C, Q
  <2>2. ASSUME t # <<>>, NEW j \in T PROVE j \in i .. Len(s)
    <3>1. j \in i + 2 * Len(t) - 1 .. Len(s)
      BY <2>2 DEF T
    <3>2. QED
      BY <1>2, <2>2, <3>1
  <2>3. QED
    BY <2>1, <2>2
<1>8. ends \subseteq i .. Len(s)
  BY <1>6, <1>7
<1>9. QED
  BY <1>1, <1>4, <1>6, <1>8 DEF comment, quote, C, Q, T, t, ends

\* A lexeme ends where it first may, or with the text.
LEMMA EndOfLexeme ==
    ASSUME NEW s \in Seq(Chars), NEW i \in 1 .. Len(s)
    PROVE  /\ \A e \in Lexer!LexemeEnds(s, i) :
                 (\A j \in Lexer!LexemeEnds(s, i) : j >= e) => Lexer!LexemeEnd(s, i) = e
           /\ (\A j \in Lexer!LexemeEnds(s, i) : j >= Len(s) + 1) => Lexer!LexemeEnd(s, i) = Len(s)
<1> DEFINE ends == Lexer!LexemeEnds(s, i)
<1>1. ends \subseteq i .. Len(s)
  BY EndsOfLexeme
<1>2. \A j \in ends : j \in Nat /\ j <= Len(s)
  BY <1>1
<1>3. Lexer!LexemeEnd(s, i) = IF ends = {} THEN Len(s) ELSE Min(ends)
  BY SameText DEF Lexer!LexemeEnd
<1> HIDE DEF ends
<1>4. ASSUME NEW e \in ends, \A j \in ends : j >= e
      PROVE  Min(ends) = e
  <2>1. Min(ends) \in ends /\ \A y \in ends : Min(ends) <= y
    BY <1>2, MinOfNaturals
  <2>2. Min(ends) <= e /\ Min(ends) >= e /\ Min(ends) \in Nat /\ e \in Nat
    BY <1>2, <1>4, <2>1
  <2>3. QED
    BY <2>2
<1>5. (\A j \in ends : j >= Len(s) + 1) => ends = {}
  BY <1>2
<1>6. QED
  BY <1>3, <1>4, <1>5 DEF ends
-----------------------------------------------------------------------------
(* The inductive invariant *)

\* The modes within a lexeme.
InLexeme == {"comment", "dollar"} \cup Quotes

SplitTypeOK ==
    /\ sql \in Texts
    /\ pos \in 1 .. Len(sql) + 1
    /\ mode \in {"plain", "returned"} \cup InLexeme
    /\ tag \in Seq(Chars)
    /\ current \in Seq(Chars)
    /\ lexeme \in [start : Nat, before : Seq(Chars)]

\* What the mode stands for: the lexeme that begins at start goes on at pos, and the
\* loop has kept of it what the lexer will.
LexemeGoesOn(start, before) ==
    /\ start \in 1 .. pos - 1
    /\ \A j \in Lexer!LexemeEnds(sql, start) : j >= pos
    /\ mode = "comment" => At(sql, start, Dashes) /\ current = before
    /\ mode # "comment" => /\ ~At(sql, start, Dashes)
                           /\ current = before \o SubSeq(sql, start, pos - 1)
    /\ mode = "dollar" => /\ tag # <<>> /\ tag = ParseDollarTag(sql, start)
                          /\ start + Len(tag) <= pos
                          /\ \A j \in Lexer!LexemeEnds(sql, start) : j >= pos + Len(tag) - 1
    /\ mode \in Quotes => /\ sql[start] = mode
                          /\ ~Lexer!Even(Lexer!Count(sql, mode, start, pos - 1))

SplitInv ==
    /\ SplitTypeOK
    /\ mode = "returned" => pos = Len(sql) + 1
    /\ mode \in InLexeme => LexemeGoesOn(lexeme.start, lexeme.before)

-----------------------------------------------------------------------------
(* The invariant is inductive, and each turn is one of the lexer's *)

\* Texts consist of characters.
LEMMA TextsAreTexts == Texts \subseteq Seq(Chars) /\ "\n" \in Chars
BY TextAssumption

\* The loop opens a lexeme or reads on in it.  The lexer does nothing, or reads the
\* lexeme if the text is over.
LEMMA LexemeIsRead ==
    ASSUME SplitTypeOK, SplitTypeOK', sql' = sql, stmts' = stmts,
           mode # "returned", pos <= Len(sql), mode' \in InLexeme,
           NEW start, NEW before,
           mode = "plain" => start = pos /\ before = current,
           mode \in InLexeme => start = lexeme.start /\ before = lexeme.before,
           lexeme'.start = start, lexeme'.before = before,
           LexemeGoesOn(start, before)'
    PROVE  SplitInv' /\ (Lexer!LexerNext \/ UNCHANGED Lexer!lexerVars)
<1> DEFINE s == sql
<1>1. /\ s \in Seq(Chars) /\ Len(s) \in Nat /\ before \in Seq(Chars)
      /\ pos \in 1 .. Len(s) /\ pos' \in 1 .. Len(s) + 1
      /\ mode \in {"plain", "returned"} \cup InLexeme
  BY TextsAreTexts DEF SplitTypeOK
<1>2. /\ start \in 1 .. pos' - 1
      /\ \A j \in Lexer!LexemeEnds(s, start) : j >= pos'
      /\ mode' = "comment" => At(s, start, Dashes) /\ current' = before
      /\ mode' # "comment" => /\ ~At(s, start, Dashes)
                              /\ current' = before \o SubSeq(s, start, pos' - 1)
      /\ mode' = "dollar" => tag' # <<>> /\ tag' = ParseDollarTag(s, start)
      /\ mode' \in Quotes => s[start] = mode'
  BY DEF LexemeGoesOn
<1>3. start \in 1 .. Len(s)
  <2>1. PICK p : p = pos'
    OBVIOUS
  <2>2. p \in 1 .. Len(s) + 1 /\ start \in 1 .. p - 1
    BY <1>1, <1>2, <2>1
  <2>3. QED
    BY <1>1, <2>2
<1>4. mode' \notin {"plain", "returned"} /\ "plain" \notin InLexeme /\ "returned" \notin InLexeme
  BY DEF InLexeme, Quotes
<1>5. SplitInv'
  BY <1>4 DEF SplitInv
<1>6. /\ start = IF BetweenLexemes THEN pos ELSE lexeme.start
      /\ before = IF BetweenLexemes THEN current ELSE lexeme.before
  BY <1>1, <1>4 DEF BetweenLexemes
<1>7. CASE pos' <= Len(s)
  <2>1. ~BetweenLexemes'
    BY <1>1, <1>4, <1>7 DEF BetweenLexemes
  <2>2. UNCHANGED Lexer!lexerVars
    BY <1>4, <1>6, <2>1 DEF Lexer!lexerVars
  <2>3. QED
    BY <1>5, <2>2
<1>8. CASE pos' = Len(s) + 1
  <2>1. BetweenLexemes'
    BY <1>1, <1>8 DEF BetweenLexemes
  <2>2. Lexer!LexemeEnd(s, start) = Len(s)
    BY <1>1, <1>2, <1>3, <1>8, EndOfLexeme
  <2>3. s[start] # ";"
    <3>1. CASE mode' = "comment"
      BY <1>1, <1>2, <1>3, <3>1, EndsOfLexeme
    <3>2. CASE mode' = "dollar"
      <4>1. ParseDollarTag(s, start) # <<>>
        BY <1>2, <3>2
      <4>2. QED
        BY <1>1, <1>3, <4>1, TagIsThere
    <3>3. CASE mode' \in Quotes
      BY <1>2, <3>3 DEF Quotes
    <3>4. QED
      BY <3>1, <3>2, <3>3 DEF InLexeme
  <2>4. current' = before \o Lexer!KeptOfLexeme(s, start)
    <3>1. CASE mode' = "comment"
      <4>1. At(s, start, Dashes) /\ current' = before
        BY <1>2, <3>1
      <4>2. Lexer!LexemeEnds(s, start) = {j \in start .. Len(s) : s[j] = "\n"}
        BY <1>1, <1>3, <4>1, EndsOfLexeme
      <4>3. s[Len(s)] # "\n"
        BY <1>1, <1>2, <1>3, <1>8, <4>2
      <4>4. Lexer!KeptOfLexeme(s, start) = <<>>
        BY <2>2, <4>1, <4>3, SameText DEF Lexer!KeptOfLexeme
      <4>5. QED
        BY <1>1, <4>1, <4>4, ConcatEmptySeq
    <3>2. CASE mode' # "comment"
      <4>1. ~At(s, start, Dashes) /\ current' = before \o SubSeq(s, start, pos' - 1)
        BY <1>2, <3>2
      <4>2. Lexer!KeptOfLexeme(s, start) = SubSeq(s, start, Len(s))
        BY <2>2, <4>1, SameText DEF Lexer!KeptOfLexeme
      <4>3. pos' - 1 = Len(s)
        BY <1>1, <1>8
      <4>4. QED
        BY <4>1, <4>2, <4>3
    <3>3. QED
      BY <3>1, <3>2
  <2>5. Lexer!ReadLexeme
    <3>1. start <= Len(s) /\ pos' = Lexer!LexemeEnd(s, start) + 1
      BY <1>1, <1>3, <1>8, <2>2
    <3>2. QED
      BY <1>4, <1>6, <2>1, <2>3, <2>4, <3>1 DEF Lexer!ReadLexeme
  <2>6. QED
    BY <1>5, <2>5 DEF Lexer!LexerNext
<1>9. QED
  BY <1>1, <1>7, <1>8

\* The loop reads the end of a lexeme.
LEMMA LexemeIsClosed ==
    ASSUME SplitInv, SplitTypeOK', sql' = sql, stmts' = stmts,
           pos <= Len(sql), mode \in InLexeme, mode' = "plain",
           pos' - 1 \in Lexer!LexemeEnds(sql, lexeme.start),
           \A j \in Lexer!LexemeEnds(sql, lexeme.start) : j >= pos' - 1,
           current' = lexeme.before \o
                         (IF mode = "comment" THEN <<"\n">>
                                              ELSE SubSeq(sql, lexeme.start, pos' - 1))
    PROVE  SplitInv' /\ Lexer!LexerNext
<1> DEFINE s == sql
           start == lexeme.start
           end == Lexer!LexemeEnd(s, start)
<1>1. /\ s \in Seq(Chars) /\ Len(s) \in Nat /\ pos \in 1 .. Len(s) /\ pos' \in 1 .. Len(s) + 1
      /\ SplitTypeOK /\ LexemeGoesOn(lexeme.start, lexeme.before)
  BY TextsAreTexts DEF SplitInv, SplitTypeOK
<1>2. /\ start \in 1 .. Len(s)
      /\ mode = "comment" => At(s, start, Dashes)
      /\ mode # "comment" => ~At(s, start, Dashes)
      /\ mode = "dollar" => tag # <<>> /\ tag = ParseDollarTag(s, start)
      /\ mode \in Quotes => s[start] = mode
  BY <1>1 DEF LexemeGoesOn
<1>3. "plain" \notin InLexeme /\ "returned" \notin InLexeme /\ mode \notin {"plain", "returned"}
  BY DEF InLexeme, Quotes
<1>4. SplitInv'
  BY <1>3 DEF SplitInv
<1>5. end = pos' - 1
  BY <1>1, <1>2, EndOfLexeme
<1>6. s[start] # ";"
  <2>1. CASE mode = "comment"
    BY <1>1, <1>2, <2>1, EndsOfLexeme
  <2>2. CASE mode = "dollar"
    BY <1>1, <1>2, <2>2, TagIsThere
  <2>3. CASE mode \in Quotes
    BY <1>2, <2>3 DEF Quotes
  <2>4. QED
    BY <2>1, <2>2, <2>3 DEF InLexeme
<1>7. current' = lexeme.before \o Lexer!KeptOfLexeme(s, start)
  <2>1. CASE mode = "comment"
    <3>1. At(s, start, Dashes) /\ Lexer!LexemeEnds(s, start) = {j \in start .. Len(s) : s[j] = "\n"}
      BY <1>1, <1>2, <2>1, EndsOfLexeme
    <3>2. s[end] = "\n"
      BY <1>5, <3>1
    <3>3. Lexer!KeptOfLexeme(s, start) = <<"\n">>
      BY <3>1, <3>2, SameText DEF Lexer!KeptOfLexeme
    <3>4. QED
      BY <2>1, <3>3
  <2>2. CASE mode # "comment"
    <3>1. Lexer!KeptOfLexeme(s, start) = SubSeq(s, start, end)
      BY <1>2, <2>2, SameText DEF Lexer!KeptOfLexeme
    <3>2. QED
      BY <1>5, <2>2, <3>1
  <2>3. QED
    BY <2>1, <2>2
<1>8. /\ lexeme.start = IF BetweenLexemes THEN pos ELSE lexeme.start
      /\ lexeme.before = IF BetweenLexemes THEN current ELSE lexeme.before
  BY <1>1, <1>3 DEF BetweenLexemes
<1>9. BetweenLexemes'
  BY DEF BetweenLexemes
<1>10. pos' = end + 1 /\ start <= Len(s)
  <2>1. pos' \in Nat /\ Len(s) \in Nat /\ start \in 1 .. Len(s)
    BY <1>1, <1>2
  <2>2. start <= Len(s)
    BY <2>1
  <2> HIDE DEF end
  <2>3. pos' = end + 1
    <3>1. PICK p \in Nat : p = pos'
      BY <2>1
    <3>2. (p - 1) + 1 = p
      OBVIOUS
    <3>3. QED
      BY <1>5, <3>1, <3>2, Zenon
  <2>4. QED
    BY <2>2, <2>3
<1>11. Lexer!ReadLexeme
  BY <1>3, <1>6, <1>7, <1>8, <1>9, <1>10 DEF Lexer!ReadLexeme
<1>12. QED
  BY <1>4, <1>11 DEF Lexer!LexerNext

\* A turn keeps the types.
LEMMA TurnKeepsTypes ==
    ASSUME SplitTypeOK, NEW n \in Nat, pos + n <= Len(sql) + 1,
           NEW m \in {"plain", "returned"} \cup InLexeme, NEW t \in Seq(Chars), Turn(n, m, t),
           tag' \in Seq(Chars), Opened \/ lexeme' = lexeme
    PROVE  SplitTypeOK'
<1>1. pos' = pos + n /\ mode' = m /\ current' = current \o t /\ sql' = sql
  BY DEF Turn
<1>2. pos \in Nat /\ 1 <= pos /\ Len(sql) \in Nat /\ current \in Seq(Chars)
  BY TextsAreTexts DEF SplitTypeOK
<1>3. pos' \in 1 .. Len(sql) + 1 /\ current' \in Seq(Chars)
  BY <1>1, <1>2, ConcatProperties
<1>4. lexeme' \in [start : Nat, before : Seq(Chars)]
  BY <1>2 DEF Opened, SplitTypeOK
<1>5. QED
  BY <1>1, <1>3, <1>4 DEF SplitTypeOK

\* A character or two.
LEMMA CharactersAreTexts ==
    ASSUME NEW c \in Chars, NEW d \in Chars
    PROVE  <<>> \in Seq(Chars) /\ <<c>> \in Seq(Chars) /\ <<c, d>> \in Seq(Chars)
OBVIOUS

\* Within a comment.
LEMMA CommentStep ==
    ASSUME SplitInv, Comment
    PROVE  SplitInv' /\ (Lexer!LexerNext \/ UNCHANGED Lexer!lexerVars)
<1> DEFINE ends == Lexer!LexemeEnds(sql, lexeme.start)
<1>1. /\ mode = "comment" /\ mode \in InLexeme /\ pos <= Len(sql)
      /\ UNCHANGED <<sql, stmts, tag, lexeme>> /\ pos' = pos + 1
      /\ SplitTypeOK /\ LexemeGoesOn(lexeme.start, lexeme.before)
  BY DEF Comment, Turn, SplitInv, InLexeme
<1>2. /\ sql \in Seq(Chars) /\ Len(sql) \in Nat /\ pos \in 1 .. Len(sql) /\ current \in Seq(Chars)
      /\ pos + 1 <= Len(sql) + 1 /\ "\n" \in Chars /\ tag' \in Seq(Chars)
  BY <1>1, TextsAreTexts DEF SplitTypeOK
<1>3. /\ lexeme.start \in 1 .. pos - 1 /\ lexeme.start \in 1 .. Len(sql)
      /\ \A j \in ends : j >= pos
      /\ At(sql, lexeme.start, Dashes) /\ current = lexeme.before
  BY <1>1, <1>2 DEF LexemeGoesOn
<1>4. ends = {j \in lexeme.start .. Len(sql) : sql[j] = "\n"}
  BY <1>2, <1>3, EndsOfLexeme
<1>5. CASE sql[pos] = "\n"
  <2>1. Turn(1, "plain", <<"\n">>)
    BY <1>5 DEF Comment
  <2>2. SplitTypeOK'
    BY <1>1, <1>2, <2>1, CharactersAreTexts, TurnKeepsTypes
  <2>3. pos' - 1 = pos /\ pos \in ends
    BY <1>1, <1>2, <1>3, <1>4, <1>5
  <2>4. mode' = "plain" /\ current' = lexeme.before \o <<"\n">>
    BY <1>3, <2>1 DEF Turn
  <2>5. QED
    BY <1>1, <1>3, <2>2, <2>3, <2>4, LexemeIsClosed
<1>6. CASE sql[pos] # "\n"
  <2>1. Turn(1, "comment", <<>>)
    BY <1>6 DEF Comment
  <2>2. SplitTypeOK'
    BY <1>1, <1>2, <2>1, CharactersAreTexts, TurnKeepsTypes DEF InLexeme
  <2>3. mode' = "comment" /\ current' = current \o <<>> /\ mode' \in InLexeme
    BY <2>1 DEF Turn, InLexeme
  <2>4. current' = current
    BY <1>2, <2>3, ConcatEmptySeq
  <2>5. \A j \in ends : j >= pos + 1
    BY <1>2, <1>3, <1>4, <1>6
  <2>6. PICK start, before : start = lexeme.start /\ before = lexeme.before
    OBVIOUS
  <2>7. LexemeGoesOn(start, before)'
    <3>1. start \in 1 .. pos' - 1
      BY <1>1, <1>2, <1>3, <2>6
    <3>2. \A j \in Lexer!LexemeEnds(sql, start) : j >= pos'
      BY <1>1, <2>5, <2>6
    <3>3. "comment" \notin Quotes
      BY DEF Quotes
    <3>4. QED
      BY <1>1, <1>3, <2>3, <2>4, <2>6, <3>1, <3>2, <3>3 DEF LexemeGoesOn
  <2>8. QED
    BY <1>1, <2>2, <2>3, <2>6, <2>7, LexemeIsRead DEF InLexeme
<1>7. QED
  BY <1>5, <1>6

\* Within a dollar quote.
LEMMA DollarStep ==
    ASSUME SplitInv, DollarQuoted
    PROVE  SplitInv' /\ (Lexer!LexerNext \/ UNCHANGED Lexer!lexerVars)
<1> DEFINE ends == Lexer!LexemeEnds(sql, lexeme.start)
           n == Len(tag)
<1>1. /\ mode = "dollar" /\ mode \in InLexeme /\ mode # "comment" /\ mode \notin Quotes
      /\ pos <= Len(sql) /\ UNCHANGED <<sql, stmts, lexeme>>
      /\ SplitTypeOK /\ LexemeGoesOn(lexeme.start, lexeme.before)
  BY DEF DollarQuoted, Turn, SplitInv, InLexeme, Quotes
<1>2. /\ sql \in Seq(Chars) /\ Len(sql) \in Nat /\ pos \in 1 .. Len(sql) /\ current \in Seq(Chars)
      /\ tag \in Seq(Chars) /\ lexeme.before \in Seq(Chars)
  BY <1>1, TextsAreTexts DEF SplitTypeOK
<1>3. /\ lexeme.start \in 1 .. pos - 1 /\ lexeme.start \in 1 .. Len(sql)
      /\ ~At(sql, lexeme.start, Dashes)
      /\ current = lexeme.before \o SubSeq(sql, lexeme.start, pos - 1)
      /\ tag # <<>> /\ tag = ParseDollarTag(sql, lexeme.start)
      /\ lexeme.start + n <= pos
      /\ \A j \in ends : j >= pos + n - 1
  <2>1. /\ lexeme.start \in 1 .. pos - 1 /\ ~At(sql, lexeme.start, Dashes)
        /\ current = lexeme.before \o SubSeq(sql, lexeme.start, pos - 1)
        /\ tag # <<>> /\ tag = ParseDollarTag(sql, lexeme.start)
        /\ lexeme.start + n <= pos
        /\ \A j \in ends : j >= pos + n - 1
    BY <1>1 DEF LexemeGoesOn
  <2>2. lexeme.start \in 1 .. Len(sql)
    BY <1>2, <2>1
  <2>3. QED
    BY <2>1, <2>2
<1>4. n \in Nat /\ n >= 2
  BY <1>2, <1>3, TagIsThere
<1>5. ends = {j \in lexeme.start + 2 * n - 1 .. Len(sql) : At(sql, j - n + 1, tag)}
  BY <1>2, <1>3, EndsOfLexeme
<1> HIDE DEF ends
<1>6. CASE At(sql, pos, tag)
  <2>1. Turn(n, "plain", tag) /\ tag' = <<>>
    BY <1>6 DEF DollarQuoted
  <2>2. pos + n - 1 <= Len(sql) /\ tag = SubSeq(sql, pos, pos + n - 1)
    BY <1>6 DEF At
  <2>3. SplitTypeOK'
    <3>1. pos + n <= Len(sql) + 1
      BY <1>2, <1>4, <2>2
    <3>2. tag' \in Seq(Chars)
      BY <2>1
    <3>3. QED
      BY <1>1, <1>2, <1>4, <2>1, <3>1, <3>2, TurnKeepsTypes
  <2>4. /\ mode' = "plain" /\ pos' = pos + n
        /\ current' = (lexeme.before \o SubSeq(sql, lexeme.start, pos - 1)) \o SubSeq(sql, pos, pos + n - 1)
    BY <1>3, <2>1, <2>2 DEF Turn
  <2>5. pos \in lexeme.start .. Len(sql) /\ pos + n - 1 \in pos .. Len(sql) /\ pos + n - 1 \in Nat
    BY <1>2, <1>3, <1>4, <2>2
  <2>6. current' = lexeme.before \o SubSeq(sql, lexeme.start, pos + n - 1)
    BY <1>2, <1>3, <2>4, <2>5, ReadOn
  <2>7. PICK e \in Nat : e = pos + n - 1
    BY <2>5
  <2>8. pos' - 1 = e
    BY <1>2, <1>4, <2>4, <2>7
  <2>9. e \in ends
    <3>1. e - n + 1 = pos /\ e \in lexeme.start + 2 * n - 1 .. Len(sql)
      BY <1>2, <1>3, <1>4, <2>2, <2>7
    <3>2. QED
      BY <1>5, <1>6, <3>1
  <2>10. /\ pos' - 1 \in ends /\ \A j \in ends : j >= pos' - 1
         /\ current' = lexeme.before \o SubSeq(sql, lexeme.start, pos' - 1)
    BY <1>3, <2>6, <2>7, <2>8, <2>9
  <2>11. QED
    BY <1>1, <2>3, <2>4, <2>10, LexemeIsClosed DEF ends
<1>7. CASE ~At(sql, pos, tag)
  <2>1. Turn(1, "dollar", <<sql[pos]>>) /\ tag' = tag
    BY <1>7 DEF DollarQuoted
  <2>2. sql[pos] \in Chars /\ <<sql[pos]>> = SubSeq(sql, pos, pos)
    BY <1>2, ShortTexts
  <2>3. SplitTypeOK'
    <3>1. pos + 1 <= Len(sql) + 1 /\ tag' \in Seq(Chars)
      BY <1>2, <2>1
    <3>2. QED
      BY <1>1, <1>2, <2>1, <2>2, <3>1, CharactersAreTexts, TurnKeepsTypes
  <2>4. /\ mode' = "dollar" /\ pos' = pos + 1
        /\ current' = (lexeme.before \o SubSeq(sql, lexeme.start, pos - 1)) \o SubSeq(sql, pos, pos)
    BY <1>3, <2>1, <2>2 DEF Turn
  <2>5. current' = lexeme.before \o SubSeq(sql, lexeme.start, pos)
    <3>1. pos \in lexeme.start .. Len(sql) /\ pos \in pos .. Len(sql)
      BY <1>2, <1>3
    <3>2. QED
      BY <1>2, <1>3, <2>4, <3>1, ReadOn
  <2>6. \A j \in ends : j >= pos + 1 + n - 1 /\ j >= pos + 1
    <3> SUFFICES ASSUME NEW j \in ends PROVE j >= pos + 1 + n - 1 /\ j >= pos + 1
      OBVIOUS
    <3>1. j \in Int /\ j >= pos + n - 1 /\ At(sql, j - n + 1, tag)
      <4>1. j \in lexeme.start + 2 * n - 1 .. Len(sql) /\ At(sql, j - n + 1, tag)
        BY <1>5
      <4>2. \A a, b : j \in a .. b => j \in Int
        OBVIOUS
      <4>3. QED
        BY <1>3, <4>1, <4>2
    <3>2. j - n + 1 # pos
      BY <1>7, <3>1
    <3>3. QED
      <4> HIDE DEF n
      <4>1. pos \in Nat
        BY <1>2
      <4>2. QED
        BY <1>4, <3>1, <3>2, <4>1
  <2>7. PICK start, before : start = lexeme.start /\ before = lexeme.before
    OBVIOUS
  <2>8. LexemeGoesOn(start, before)'
    <3>1. pos' - 1 = pos
      BY <1>2, <2>4
    <3>2. start \in 1 .. pos' - 1 /\ start + n <= pos'
      BY <1>2, <1>3, <1>4, <2>4, <2>7
    <3>3. \A j \in Lexer!LexemeEnds(sql, start) : j >= pos' /\ j >= pos' + n - 1
      BY <2>4, <2>6, <2>7 DEF ends
    <3>4. current' = before \o SubSeq(sql, start, pos' - 1)
      BY <2>5, <2>7, <3>1
    <3>5. QED
      BY <1>1, <1>3, <2>1, <2>4, <2>7, <3>2, <3>3, <3>4 DEF LexemeGoesOn
  <2>9. QED
    BY <1>1, <2>3, <2>4, <2>7, <2>8, LexemeIsRead DEF InLexeme
<1>8. QED
  BY <1>6, <1>7


\* Two characters stand at p.
LEMMA AtTwo ==
    ASSUME NEW s \in Seq(Chars), NEW p \in 1 .. Len(s), NEW c \in Chars, NEW d \in Chars
    PROVE  At(s, p, <<c, d>>) <=> p < Len(s) /\ s[p] = c /\ s[p + 1] = d
<1>1. p \in Nat /\ Len(s) \in Nat
  OBVIOUS
<1>2. Len(<<c, d>>) = 2 /\ p + 2 - 1 = p + 1 /\ (p + 1 <= Len(s) <=> p < Len(s))
  BY <1>1
<1>3. At(s, p, <<c, d>>) <=> p < Len(s) /\ SubSeq(s, p, p + 1) = <<c, d>>
  BY <1>2 DEF At
<1>4. p < Len(s) => SubSeq(s, p, p + 1) = <<s[p], s[p + 1]>>
  BY ShortTexts
<1>5. QED
  BY <1>3, <1>4

\* One quote more changes whether their number is even, two do not.
LEMMA EvenAndOdd ==
    \A n \in Nat : ~Lexer!Even(n) => Lexer!Even(n + 1) /\ ~Lexer!Even(n + 2)
BY DEF Lexer!Even

\* Where the quoted text that begins at i does not end, and where it does: everything
\* up to p has been read and the number of quotes in it is odd.
LEMMA QuoteGoesOn ==
    ASSUME NEW s \in Seq(Chars), NEW i \in 1 .. Len(s), NEW p \in i + 1 .. Len(s), NEW q \in Quotes,
           s[i] = q, ~Lexer!Even(Lexer!Count(s, q, i, p - 1)),
           \A j \in Lexer!LexemeEnds(s, i) : j >= p
    PROVE  /\ p < Len(s) /\ s[p] = q /\ s[p + 1] = q =>
                 /\ ~Lexer!Even(Lexer!Count(s, q, i, p + 1))
                 /\ \A j \in Lexer!LexemeEnds(s, i) : j >= p + 2
           /\ s[p] # q =>
                 /\ ~Lexer!Even(Lexer!Count(s, q, i, p))
                 /\ \A j \in Lexer!LexemeEnds(s, i) : j >= p + 1
           /\ s[p] = q /\ ~(p < Len(s) /\ s[p + 1] = q) => p \in Lexer!LexemeEnds(s, i)
<1> DEFINE ends == Lexer!LexemeEnds(s, i)
           N(j) == Lexer!Count(s, q, i, j)
<1>1. ends = {j \in i .. Len(s) : /\ s[j] = q /\ Lexer!Even(N(j))
                                  /\ j < Len(s) => s[j + 1] # q}
  BY EndsOfLexeme
<1>2. /\ p \in Nat /\ i \in Nat /\ Len(s) \in Nat /\ i <= p /\ p + 1 \in Nat /\ i <= p + 1
      /\ p + 1 - 1 = p /\ p \in i .. Len(s)
  OBVIOUS
<1>3. N(p - 1) \in Nat /\ N(p) = N(p - 1) + (IF s[p] = q THEN 1 ELSE 0)
  BY <1>2, CountOneMore
<1>4. N(p + 1) = N(p) + (IF s[p + 1] = q THEN 1 ELSE 0)
  <2>1. PICK r \in Nat : r = p + 1
    BY <1>2
  <2>2. N(r) = N(r - 1) + (IF s[r] = q THEN 1 ELSE 0)
    <3>1. i <= r
      BY <1>2, <2>1
    <3>2. QED
      BY <1>2, <3>1, CountOneMore
  <2>3. r - 1 = p
    BY <1>2, <2>1
  <2>4. QED
    BY <2>1, <2>2, <2>3, Zenon
<1>5. ~Lexer!Even(N(p - 1)) /\ \A j \in ends : j >= p
  OBVIOUS
<1>6. \A j \in ends : j \in Int
  BY <1>1
<1> HIDE DEF ends, N
<1>7. PICK n \in Nat : n = N(p - 1)
  BY <1>3
<1>8. N(p) = n + (IF s[p] = q THEN 1 ELSE 0) /\ N(p + 1) = N(p) + (IF s[p + 1] = q THEN 1 ELSE 0)
  BY <1>3, <1>4, <1>7
<1>9. Lexer!Even(n + 1) /\ ~Lexer!Even(n + 2) /\ ~Lexer!Even(n)
  BY <1>5, <1>7, EvenAndOdd
<1>10. ASSUME p < Len(s), s[p] = q, s[p + 1] = q
       PROVE  ~Lexer!Even(N(p + 1)) /\ \A j \in ends : j >= p + 2
  <2>1. N(p + 1) = n + 2
    <3>1. N(p) = n + 1 /\ N(p + 1) = N(p) + 1
      BY <1>8, <1>10
    <3>2. QED
      BY <3>1
  <2>2. ~Lexer!Even(N(p + 1))
    BY <1>9, <2>1
  <2>3. p \notin ends /\ p + 1 \notin ends
    BY <1>1, <1>10, <2>2
  <2>4. \A j \in ends : j >= p + 2
    BY <1>2, <1>5, <1>6, <2>3
  <2>5. QED
    BY <2>2, <2>4
<1>11. ASSUME s[p] # q
       PROVE  ~Lexer!Even(N(p)) /\ \A j \in ends : j >= p + 1
  <2>1. N(p) = n
    BY <1>8, <1>11
  <2>2. p \notin ends
    BY <1>1, <1>11
  <2>3. \A j \in ends : j >= p + 1
    BY <1>2, <1>5, <1>6, <2>2
  <2>4. QED
    BY <1>9, <2>1, <2>3
<1>12. ASSUME s[p] = q, ~(p < Len(s) /\ s[p + 1] = q)
       PROVE  p \in ends
  <2>1. N(p) = n + 1
    BY <1>8, <1>12
  <2>2. QED
    BY <1>1, <1>2, <1>9, <1>12, <2>1
<1>13. QED
  BY <1>10, <1>11, <1>12 DEF ends, N

\* Within quotes.
LEMMA QuotedStep ==
    ASSUME SplitInv, Quoted
    PROVE  SplitInv' /\ (Lexer!LexerNext \/ UNCHANGED Lexer!lexerVars)
<1> DEFINE ends == Lexer!LexemeEnds(sql, lexeme.start)
<1>1. /\ mode \in InLexeme /\ mode # "comment" /\ mode # "dollar" /\ mode \in Quotes
      /\ pos <= Len(sql) /\ UNCHANGED <<sql, stmts, tag, lexeme>>
      /\ SplitTypeOK /\ LexemeGoesOn(lexeme.start, lexeme.before)
      /\ mode # "plain" /\ mode # "returned"
  BY DEF Quoted, Turn, SplitInv, InLexeme, Quotes
<1>2. /\ sql \in Seq(Chars) /\ Len(sql) \in Nat /\ pos \in 1 .. Len(sql) /\ current \in Seq(Chars)
      /\ tag' \in Seq(Chars) /\ lexeme.before \in Seq(Chars)
  BY <1>1, TextsAreTexts DEF SplitTypeOK
<1>3. /\ lexeme.start \in 1 .. pos - 1 /\ ~At(sql, lexeme.start, Dashes)
      /\ current = lexeme.before \o SubSeq(sql, lexeme.start, pos - 1)
      /\ \A j \in ends : j >= pos
      /\ sql[lexeme.start] = mode /\ ~Lexer!Even(Lexer!Count(sql, mode, lexeme.start, pos - 1))
  BY <1>1 DEF LexemeGoesOn
<1>4. /\ lexeme.start \in 1 .. Len(sql) /\ pos \in lexeme.start .. Len(sql)
      /\ pos \in lexeme.start + 1 .. Len(sql)
  BY <1>2, <1>3
<1>5. mode \in Chars /\ sql[pos] \in Chars /\ <<sql[pos]>> = SubSeq(sql, pos, pos)
  <2>1. Quotes \subseteq Chars
    BY TextAssumption
  <2>2. QED
    BY <1>1, <1>2, <2>1, ShortTexts
<1>6. /\ pos < Len(sql) /\ sql[pos] = mode /\ sql[pos + 1] = mode =>
            /\ ~Lexer!Even(Lexer!Count(sql, mode, lexeme.start, pos + 1))
            /\ \A j \in ends : j >= pos + 2
      /\ sql[pos] # mode =>
            /\ ~Lexer!Even(Lexer!Count(sql, mode, lexeme.start, pos))
            /\ \A j \in ends : j >= pos + 1
      /\ sql[pos] = mode /\ ~(pos < Len(sql) /\ sql[pos + 1] = mode) => pos \in ends
  BY <1>1, <1>2, <1>3, <1>4, QuoteGoesOn
<1>7. At(sql, pos, <<mode, mode>>) <=> pos < Len(sql) /\ sql[pos] = mode /\ sql[pos + 1] = mode
  BY <1>2, <1>5, AtTwo
<1>8. PICK start, before : start = lexeme.start /\ before = lexeme.before
  OBVIOUS
<1> HIDE DEF ends
<1>9. CASE At(sql, pos, <<mode, mode>>)
  <2>1. Turn(2, mode, <<mode, mode>>)
    BY <1>9 DEF Quoted
  <2>2. <<mode, mode>> = SubSeq(sql, pos, pos + 1)
    BY <1>2, <1>7, <1>9, ShortTexts
  <2>3. SplitTypeOK'
    <3>1. pos + 2 <= Len(sql) + 1 /\ <<mode, mode>> \in Seq(Chars)
      BY <1>2, <1>5, <1>7, <1>9
    <3>2. QED
      BY <1>1, <1>2, <2>1, <3>1, TurnKeepsTypes
  <2>4. /\ mode' = mode /\ pos' = pos + 2
        /\ current' = (lexeme.before \o SubSeq(sql, lexeme.start, pos - 1)) \o SubSeq(sql, pos, pos + 1)
    BY <1>3, <2>1, <2>2 DEF Turn
  <2>5. pos' - 1 = pos + 1
    BY <1>2, <2>4
  <2>6. current' = lexeme.before \o SubSeq(sql, lexeme.start, pos + 1)
    <3>1. pos + 1 \in pos .. Len(sql)
      BY <1>2, <1>7, <1>9
    <3>2. QED
      BY <1>2, <1>4, <2>4, <3>1, ReadOn
  <2>7. LexemeGoesOn(start, before)'
    <3>1. start \in 1 .. pos' - 1
      BY <1>2, <1>3, <1>8, <2>5
    <3>2. \A j \in Lexer!LexemeEnds(sql, start) : j >= pos'
      BY <1>6, <1>7, <1>8, <1>9, <2>4 DEF ends
    <3>3. current' = before \o SubSeq(sql, start, pos' - 1)
      BY <1>8, <2>5, <2>6
    <3>4. ~Lexer!Even(Lexer!Count(sql, mode, start, pos' - 1))
      BY <1>6, <1>7, <1>8, <1>9, <2>5
    <3>5. QED
      BY <1>1, <1>3, <1>8, <2>4, <3>1, <3>2, <3>3, <3>4 DEF LexemeGoesOn
  <2>8. QED
    <3>1. mode' \in InLexeme /\ lexeme'.start = start /\ lexeme'.before = before
      BY <1>1, <1>8, <2>4
    <3>2. QED
      BY <1>1, <1>8, <2>3, <2>7, <3>1, LexemeIsRead
<1>10. CASE ~At(sql, pos, <<mode, mode>>) /\ sql[pos] = mode
  <2>1. Turn(1, "plain", <<sql[pos]>>)
    BY <1>10 DEF Quoted
  <2>2. SplitTypeOK'
    <3>1. pos + 1 <= Len(sql) + 1 /\ <<sql[pos]>> \in Seq(Chars)
      BY <1>2, <1>5
    <3>2. QED
      BY <1>1, <1>2, <2>1, <3>1, TurnKeepsTypes
  <2>3. /\ mode' = "plain" /\ pos' = pos + 1
        /\ current' = (lexeme.before \o SubSeq(sql, lexeme.start, pos - 1)) \o SubSeq(sql, pos, pos)
    BY <1>3, <1>5, <2>1 DEF Turn
  <2>4. pos' - 1 = pos /\ pos \in pos .. Len(sql)
    BY <1>2, <2>3
  <2>5. current' = lexeme.before \o SubSeq(sql, lexeme.start, pos)
    BY <1>2, <1>4, <2>3, <2>4, ReadOn
  <2>6. /\ pos' - 1 \in ends /\ \A j \in ends : j >= pos' - 1
        /\ current' = lexeme.before \o SubSeq(sql, lexeme.start, pos' - 1)
    BY <1>3, <1>6, <1>7, <1>10, <2>4, <2>5
  <2>7. QED
    BY <1>1, <2>2, <2>3, <2>6, LexemeIsClosed DEF ends
<1>11. CASE ~At(sql, pos, <<mode, mode>>) /\ sql[pos] # mode
  <2>1. Turn(1, mode, <<sql[pos]>>)
    BY <1>11 DEF Quoted
  <2>2. SplitTypeOK'
    <3>1. pos + 1 <= Len(sql) + 1 /\ <<sql[pos]>> \in Seq(Chars)
      BY <1>2, <1>5
    <3>2. QED
      BY <1>1, <1>2, <2>1, <3>1, TurnKeepsTypes
  <2>3. /\ mode' = mode /\ pos' = pos + 1
        /\ current' = (lexeme.before \o SubSeq(sql, lexeme.start, pos - 1)) \o SubSeq(sql, pos, pos)
    BY <1>3, <1>5, <2>1 DEF Turn
  <2>4. pos' - 1 = pos /\ pos \in pos .. Len(sql)
    BY <1>2, <2>3
  <2>5. current' = lexeme.before \o SubSeq(sql, lexeme.start, pos)
    BY <1>2, <1>4, <2>3, <2>4, ReadOn
  <2>6. LexemeGoesOn(start, before)'
    <3>1. start \in 1 .. pos' - 1
      BY <1>2, <1>3, <1>8, <2>4
    <3>2. \A j \in Lexer!LexemeEnds(sql, start) : j >= pos'
      BY <1>6, <1>8, <1>11, <2>3 DEF ends
    <3>3. current' = before \o SubSeq(sql, start, pos' - 1)
      BY <1>8, <2>4, <2>5
    <3>4. ~Lexer!Even(Lexer!Count(sql, mode, start, pos' - 1))
      BY <1>6, <1>8, <1>11, <2>4
    <3>5. QED
      BY <1>1, <1>3, <1>8, <2>3, <3>1, <3>2, <3>3, <3>4 DEF LexemeGoesOn
  <2>7. QED
    <3>1. mode' \in InLexeme /\ lexeme'.start = start /\ lexeme'.before = before
      BY <1>1, <1>8, <2>3
    <3>2. QED
      BY <1>1, <1>8, <2>2, <2>6, <3>1, LexemeIsRead
<1>12. QED
  BY <1>9, <1>10, <1>11

\* What is known outside of comments and quotes.
LEMMA PlainFacts ==
    ASSUME SplitInv, Plain
    PROVE  /\ SplitTypeOK /\ sql \in Seq(Chars) /\ Len(sql) \in Nat /\ pos \in 1 .. Len(sql)
           /\ current \in Seq(Chars) /\ tag \in Seq(Chars)
           /\ mode = "plain" /\ mode # "returned" /\ mode \notin InLexeme /\ pos <= Len(sql)
           /\ sql[pos] \in Chars /\ <<sql[pos]>> = SubSeq(sql, pos, pos) /\ <<sql[pos]>> \in Seq(Chars)
           /\ pos + 1 <= Len(sql) + 1
<1>1. /\ SplitTypeOK /\ sql \in Seq(Chars) /\ Len(sql) \in Nat /\ pos \in 1 .. Len(sql)
      /\ current \in Seq(Chars) /\ tag \in Seq(Chars) /\ mode = "plain" /\ pos <= Len(sql)
  BY TextsAreTexts DEF SplitInv, SplitTypeOK, Plain
<1>2. mode # "returned" /\ mode \notin InLexeme
  BY <1>1 DEF InLexeme, Quotes
<1>3. sql[pos] \in Chars /\ <<sql[pos]>> = SubSeq(sql, pos, pos)
  BY <1>1, ShortTexts
<1>4. <<sql[pos]>> \in Seq(Chars)
  BY <1>3, CharactersAreTexts
<1>5. QED
  BY <1>1, <1>2, <1>3, <1>4

\* A comment begins.
LEMMA OpenCommentStep ==
    ASSUME SplitInv, OpenComment
    PROVE  SplitInv' /\ (Lexer!LexerNext \/ UNCHANGED Lexer!lexerVars)
<1>1. PICK start, before : start = pos /\ before = current
  OBVIOUS
<1> DEFINE ends == Lexer!LexemeEnds(sql, start)
<1>2. /\ Plain /\ At(sql, pos, Dashes) /\ Turn(2, "comment", <<>>) /\ Opened /\ tag' = tag
      /\ UNCHANGED <<sql, stmts>> /\ pos' = pos + 2 /\ mode' = "comment" /\ current' = current \o <<>>
      /\ lexeme'.start = start /\ lexeme'.before = before
  BY <1>1 DEF OpenComment, Turn, Opened
<1>3. /\ SplitTypeOK /\ sql \in Seq(Chars) /\ Len(sql) \in Nat /\ pos \in 1 .. Len(sql)
      /\ current \in Seq(Chars) /\ tag \in Seq(Chars)
      /\ mode = "plain" /\ mode # "returned" /\ mode \notin InLexeme /\ pos <= Len(sql)
  BY <1>2, PlainFacts
<1>4. /\ pos + 1 <= Len(sql) /\ sql[pos] = "-" /\ sql[pos + 1] = "-"
      /\ ends = {j \in pos .. Len(sql) : sql[j] = "\n"}
  BY <1>1, <1>2, <1>3, EndsOfLexeme
<1> HIDE DEF ends
<1>5. \A j \in ends : j >= pos + 2
  <2> SUFFICES ASSUME NEW j \in ends PROVE j >= pos + 2
    OBVIOUS
  <2>1. j \in Int /\ j >= pos /\ sql[j] = "\n"
    BY <1>3, <1>4
  <2>2. j # pos /\ j # pos + 1
    BY <1>4, <2>1
  <2>3. QED
    BY <1>3, <2>1, <2>2
<1>6. current' = current
  BY <1>2, <1>3, ConcatEmptySeq
<1>7. mode' \in InLexeme /\ "comment" \in InLexeme /\ "comment" \notin Quotes
  BY <1>2 DEF InLexeme, Quotes
<1>8. SplitTypeOK'
  <2>1. pos + 2 <= Len(sql) + 1 /\ <<>> \in Seq(Chars) /\ tag' \in Seq(Chars)
    BY <1>2, <1>3, <1>4
  <2>2. QED
    BY <1>2, <1>3, <1>7, <2>1, TurnKeepsTypes
<1>9. LexemeGoesOn(start, before)'
  <2>1. start \in 1 .. pos' - 1
    BY <1>1, <1>2, <1>3
  <2>2. \A j \in Lexer!LexemeEnds(sql, start) : j >= pos'
    BY <1>2, <1>5 DEF ends
  <2>3. QED
    BY <1>1, <1>2, <1>6, <1>7, <2>1, <2>2 DEF LexemeGoesOn
<1>10. QED
  BY <1>1, <1>2, <1>3, <1>7, <1>8, <1>9, LexemeIsRead

\* A quoted text begins.
LEMMA OpenQuoteStep ==
    ASSUME SplitInv, OpenQuote
    PROVE  SplitInv' /\ (Lexer!LexerNext \/ UNCHANGED Lexer!lexerVars)
<1>1. PICK start, before, q : start = pos /\ before = current /\ q = sql[pos]
  OBVIOUS
<1> DEFINE ends == Lexer!LexemeEnds(sql, start)
<1>2. /\ Plain /\ q \in Quotes /\ Turn(1, q, <<sql[pos]>>) /\ Opened /\ tag' = tag
      /\ UNCHANGED <<sql, stmts>> /\ pos' = pos + 1 /\ mode' = q /\ current' = current \o <<sql[pos]>>
      /\ lexeme'.start = start /\ lexeme'.before = before
  BY <1>1 DEF OpenQuote, Turn, Opened
<1>3. /\ SplitTypeOK /\ sql \in Seq(Chars) /\ Len(sql) \in Nat /\ pos \in 1 .. Len(sql)
      /\ current \in Seq(Chars) /\ tag \in Seq(Chars)
      /\ mode = "plain" /\ mode # "returned" /\ mode \notin InLexeme /\ pos <= Len(sql)
      /\ <<sql[pos]>> = SubSeq(sql, pos, pos) /\ <<sql[pos]>> \in Seq(Chars) /\ pos + 1 <= Len(sql) + 1
  BY <1>2, PlainFacts
<1>4. /\ ~At(sql, start, Dashes)
      /\ ends = {j \in start .. Len(sql) :
                    /\ sql[j] = sql[start] /\ Lexer!Even(Lexer!Count(sql, sql[start], start, j))
                    /\ j < Len(sql) => sql[j + 1] # sql[start]}
  BY <1>1, <1>2, <1>3, EndsOfLexeme
<1> HIDE DEF ends
<1>5. ~Lexer!Even(Lexer!Count(sql, q, start, start))
  <2>1. Lexer!Count(sql, q, start, start - 1) = 0
    <3>1. {k \in start .. start - 1 : sql[k] = q} = {}
      BY <1>1, <1>3
    <3>2. QED
      BY <3>1, FS_EmptySet, SameText DEF Lexer!Count
  <2>2. start \in Nat /\ start <= start
    BY <1>1, <1>3
  <2>3. Lexer!Count(sql, q, start, start) =
           Lexer!Count(sql, q, start, start - 1) + (IF sql[start] = q THEN 1 ELSE 0)
    BY <2>2, CountOneMore
  <2>4. Lexer!Count(sql, q, start, start) = 1
    BY <1>1, <2>1, <2>3
  <2>5. QED
    BY <2>4 DEF Lexer!Even
<1>6. \A j \in ends : j >= pos + 1
  <2> SUFFICES ASSUME NEW j \in ends PROVE j >= pos + 1
    OBVIOUS
  <2>1. j \in Int /\ j >= pos /\ Lexer!Even(Lexer!Count(sql, q, start, j))
    BY <1>1, <1>3, <1>4
  <2>2. j # pos
    BY <1>1, <1>5, <2>1
  <2>3. QED
    BY <1>3, <2>1, <2>2
<1>7. mode' \in InLexeme /\ q \in InLexeme /\ q # "comment" /\ q # "dollar"
  BY <1>2 DEF InLexeme, Quotes
<1>8. SplitTypeOK'
  BY <1>2, <1>3, <1>7, TurnKeepsTypes
<1>9. LexemeGoesOn(start, before)'
  <2>1. pos' - 1 = start /\ start \in 1 .. pos' - 1
    BY <1>1, <1>2, <1>3
  <2>2. \A j \in Lexer!LexemeEnds(sql, start) : j >= pos'
    BY <1>2, <1>6 DEF ends
  <2>3. current' = before \o SubSeq(sql, start, pos' - 1)
    BY <1>1, <1>2, <1>3, <2>1
  <2>4. ~Lexer!Even(Lexer!Count(sql, q, start, pos' - 1))
    BY <1>5, <2>1
  <2>5. QED
    BY <1>1, <1>2, <1>4, <1>7, <2>1, <2>2, <2>3, <2>4 DEF LexemeGoesOn
<1>10. QED
  BY <1>1, <1>2, <1>3, <1>7, <1>8, <1>9, LexemeIsRead

\* A dollar-quoted text begins.
LEMMA OpenDollarStep ==
    ASSUME SplitInv, OpenDollarQuote
    PROVE  SplitInv' /\ (Lexer!LexerNext \/ UNCHANGED Lexer!lexerVars)
<1>1. PICK start, before, t : start = pos /\ before = current /\ t = ParseDollarTag(sql, pos)
  OBVIOUS
<1> DEFINE ends == Lexer!LexemeEnds(sql, start)
           n == Len(t)
<1>2. /\ Plain /\ t # <<>> /\ tag' = t /\ Turn(n, "dollar", t) /\ Opened
      /\ UNCHANGED <<sql, stmts>> /\ pos' = pos + n /\ mode' = "dollar" /\ current' = current \o t
      /\ lexeme'.start = start /\ lexeme'.before = before
  BY <1>1 DEF OpenDollarQuote, Turn, Opened
<1>3. /\ SplitTypeOK /\ sql \in Seq(Chars) /\ Len(sql) \in Nat /\ pos \in 1 .. Len(sql)
      /\ current \in Seq(Chars)
      /\ mode = "plain" /\ mode # "returned" /\ mode \notin InLexeme /\ pos <= Len(sql)
  BY <1>2, PlainFacts
<1>4. ParseDollarTag(sql, pos) # <<>>
  BY <1>1, <1>2
<1>5. /\ t \in Seq(Chars) /\ n \in Nat /\ n >= 2
      /\ pos + n - 1 <= Len(sql) /\ t = SubSeq(sql, pos, pos + n - 1)
  BY <1>1, <1>3, <1>4, TagIsThere
<1>6. /\ ~At(sql, pos, Dashes)
      /\ Lexer!LexemeEnds(sql, pos) =
            {j \in pos + 2 * Len(ParseDollarTag(sql, pos)) - 1 .. Len(sql) :
                At(sql, j - Len(ParseDollarTag(sql, pos)) + 1, ParseDollarTag(sql, pos))}
  BY <1>3, <1>4, EndsOfLexeme
<1>7. ends = {j \in pos + 2 * n - 1 .. Len(sql) : At(sql, j - n + 1, t)}
  BY <1>1, <1>6
<1> HIDE DEF ends, n
<1>8. \A j \in ends : j >= pos + n + n - 1 /\ j >= pos + n
  <2> SUFFICES ASSUME NEW j \in ends PROVE j >= pos + n + n - 1 /\ j >= pos + n
    OBVIOUS
  <2>1. j \in pos + 2 * n - 1 .. Len(sql)
    BY <1>7
  <2>2. pos \in Nat
    BY <1>3
  <2>3. QED
    BY <1>3, <1>5, <2>1, <2>2
<1>9. mode' \in InLexeme /\ "dollar" \in InLexeme /\ "dollar" \notin Quotes
  BY <1>2 DEF InLexeme, Quotes
<1>10. SplitTypeOK'
  <2>1. pos + n <= Len(sql) + 1
    BY <1>3, <1>5
  <2>2. tag' \in Seq(Chars)
    BY <1>2, <1>5
  <2>3. QED
    BY <1>2, <1>3, <1>5, <1>9, <2>1, <2>2, TurnKeepsTypes
<1>11. LexemeGoesOn(start, before)'
  <2>1. PICK p : p = pos + n
    OBVIOUS
  <2>2. pos \in Nat /\ p \in Nat
    BY <1>3, <1>5, <2>1
  <2>3. /\ start \in 1 .. p - 1 /\ start + n <= p /\ p - 1 = pos + n - 1
    BY <1>1, <1>3, <1>5, <2>1, <2>2
  <2>4. \A j \in Lexer!LexemeEnds(sql, start) : j >= p /\ j >= p + n - 1
    BY <1>8, <2>1 DEF ends
  <2>5. current' = before \o SubSeq(sql, start, p - 1)
    BY <1>1, <1>2, <1>5, <2>3
  <2>6. pos' = p
    BY <1>2, <2>1
  <2>7. QED
    BY <1>1, <1>2, <1>6, <1>9, <2>3, <2>4, <2>5, <2>6 DEF LexemeGoesOn, n
<1>12. QED
  BY <1>1, <1>2, <1>3, <1>9, <1>10, <1>11, LexemeIsRead

\* A statement ends.
LEMMA SeparatorStep ==
    ASSUME SplitInv, Separator
    PROVE  SplitInv' /\ Lexer!LexerNext
<1>1. /\ Plain /\ sql[pos] = ";" /\ pos' = pos + 1 /\ current' = <<>>
      /\ stmts' = WithStatement(stmts, current) /\ UNCHANGED <<sql, mode, tag, lexeme>>
  BY DEF Separator
<1>2. /\ SplitTypeOK /\ Len(sql) \in Nat /\ pos \in 1 .. Len(sql) /\ pos <= Len(sql)
      /\ mode = "plain" /\ mode # "returned" /\ mode \notin InLexeme
  BY <1>1, PlainFacts
<1>3. SplitInv'
  <2>1. pos' \in 1 .. Len(sql) + 1
    <3>1. pos + 1 \in 1 .. Len(sql) + 1
      BY <1>2
    <3>2. QED
      BY <1>1, <3>1
  <2>2. current' \in Seq(Chars)
    BY <1>1, TextsAreTexts, CharactersAreTexts
  <2>3. QED
    BY <1>1, <1>2, <2>1, <2>2 DEF SplitInv, SplitTypeOK
<1>4. BetweenLexemes /\ BetweenLexemes'
  BY <1>1, <1>2 DEF BetweenLexemes
<1>5. Lexer!ReadSeparator
  BY <1>1, <1>2, <1>4, SameText DEF Lexer!ReadSeparator
<1>6. QED
  BY <1>3, <1>5 DEF Lexer!LexerNext

\* A character that stands for itself.
LEMMA OtherCharacterStep ==
    ASSUME SplitInv, OtherCharacter
    PROVE  SplitInv' /\ Lexer!LexerNext
<1>1. /\ Plain /\ ~At(sql, pos, Dashes) /\ ParseDollarTag(sql, pos) = <<>>
      /\ sql[pos] \notin Quotes /\ sql[pos] # ";"
      /\ Turn(1, "plain", <<sql[pos]>>) /\ UNCHANGED <<sql, stmts, tag, lexeme>>
      /\ pos' = pos + 1 /\ mode' = "plain" /\ current' = current \o <<sql[pos]>>
  BY DEF OtherCharacter, Turn
<1>2. /\ SplitTypeOK /\ sql \in Seq(Chars) /\ Len(sql) \in Nat /\ pos \in 1 .. Len(sql)
      /\ current \in Seq(Chars) /\ tag \in Seq(Chars)
      /\ mode = "plain" /\ mode # "returned" /\ mode \notin InLexeme /\ pos <= Len(sql)
      /\ <<sql[pos]>> = SubSeq(sql, pos, pos) /\ <<sql[pos]>> \in Seq(Chars) /\ pos + 1 <= Len(sql) + 1
  BY <1>1, PlainFacts
<1>3. SplitInv'
  <2>1. SplitTypeOK'
    BY <1>1, <1>2, TurnKeepsTypes
  <2>2. QED
    BY <1>1, <1>2, <2>1 DEF SplitInv
<1>4. BetweenLexemes /\ BetweenLexemes'
  BY <1>1, <1>2 DEF BetweenLexemes
<1>5. Lexer!LexemeEnds(sql, pos) = {pos}
  BY <1>1, <1>2, EndsOfLexeme
<1>6. Lexer!LexemeEnd(sql, pos) = pos
  <2>1. pos \in Lexer!LexemeEnds(sql, pos) /\ \A j \in Lexer!LexemeEnds(sql, pos) : j >= pos
    BY <1>2, <1>5
  <2>2. QED
    BY <1>2, <2>1, EndOfLexeme
<1>7. Lexer!KeptOfLexeme(sql, pos) = <<sql[pos]>>
  BY <1>1, <1>2, <1>6, SameText DEF Lexer!KeptOfLexeme
<1>8. Lexer!ReadLexeme
  BY <1>1, <1>2, <1>4, <1>6, <1>7 DEF Lexer!ReadLexeme
<1>9. QED
  BY <1>3, <1>8 DEF Lexer!LexerNext

\* The loop is over.
LEMMA ReturnStep ==
    ASSUME SplitInv, ReturnStatements
    PROVE  SplitInv' /\ Lexer!LexerNext
<1>1. /\ mode # "returned" /\ pos > Len(sql) /\ mode' = "returned"
      /\ stmts' = WithStatement(stmts, current) /\ UNCHANGED <<sql, pos, tag, current, lexeme>>
  BY DEF ReturnStatements
<1>2. SplitTypeOK /\ Len(sql) \in Nat /\ pos \in 1 .. Len(sql) + 1
  BY TextsAreTexts DEF SplitInv, SplitTypeOK
<1>3. SplitInv'
  <2>1. pos = Len(sql) + 1
    BY <1>1, <1>2
  <2>2. SplitTypeOK'
    BY <1>1, <1>2 DEF SplitTypeOK
  <2>3. mode' \notin InLexeme
    BY <1>1 DEF InLexeme, Quotes
  <2>4. QED
    BY <1>1, <2>1, <2>2, <2>3 DEF SplitInv
<1>4. BetweenLexemes /\ BetweenLexemes'
  BY <1>1 DEF BetweenLexemes
<1>5. Lexer!ReturnAll
  BY <1>1, <1>4, SameText DEF Lexer!ReturnAll
<1>6. QED
  BY <1>3, <1>5 DEF Lexer!LexerNext

\* The loop begins where the lexer does.
LEMMA SplitInitially ==
    ASSUME SplitInit
    PROVE  SplitInv /\ Lexer!LexerInit
<1>1. sql \in Texts /\ sql \in Seq(Chars) /\ Len(sql) \in Nat /\ mode = "plain" /\ pos = 1
  BY TextsAreTexts DEF SplitInit
<1>2. SplitTypeOK
  <2>1. 1 \in 1 .. Len(sql) + 1 /\ <<>> \in Seq(Chars)
    BY <1>1
  <2>2. QED
    BY <1>1, <2>1 DEF SplitInit, SplitTypeOK
<1>3. mode # "returned" /\ mode \notin InLexeme
  BY <1>1 DEF InLexeme, Quotes
<1>4. BetweenLexemes
  BY <1>1 DEF BetweenLexemes
<1>5. Lexer!LexerInit
  BY <1>3, <1>4 DEF SplitInit, Lexer!LexerInit
<1>6. QED
  BY <1>2, <1>3, <1>5 DEF SplitInv

\* Every turn.
LEMMA SplitStep ==
    ASSUME SplitInv, [SplitNext]_splitVars
    PROVE  SplitInv' /\ (Lexer!LexerNext \/ UNCHANGED Lexer!lexerVars)
<1>1. CASE Comment
  BY <1>1, CommentStep
<1>2. CASE DollarQuoted
  BY <1>2, DollarStep
<1>3. CASE Quoted
  BY <1>3, QuotedStep
<1>4. CASE OpenComment
  BY <1>4, OpenCommentStep
<1>5. CASE OpenQuote
  BY <1>5, OpenQuoteStep
<1>6. CASE OpenDollarQuote
  BY <1>6, OpenDollarStep
<1>7. CASE Separator
  BY <1>7, SeparatorStep
<1>8. CASE OtherCharacter
  BY <1>8, OtherCharacterStep
<1>9. CASE ReturnStatements
  BY <1>9, ReturnStep
<1>10. CASE UNCHANGED splitVars
  <2>1. UNCHANGED <<sql, pos, mode, tag, current, stmts, lexeme>>
    BY <1>10 DEF splitVars
  <2>2. SplitInv'
    BY <2>1 DEF SplitInv, SplitTypeOK, LexemeGoesOn
  <2>3. UNCHANGED Lexer!lexerVars
    BY <2>1 DEF Lexer!lexerVars, BetweenLexemes
  <2>4. QED
    BY <2>2, <2>3
<1>11. QED
  BY <1>1, <1>2, <1>3, <1>4, <1>5, <1>6, <1>7, <1>8, <1>9, <1>10 DEF SplitNext

\* What the three booleans and the tag of splitStatements stand for: the lexeme opened
\* last has not ended before the next character, all of it (of a comment: nothing) is in
\* the current statement, an open quote has been met an odd number of times since, and
\* the tag of a dollar quote not again.
THEOREM SplitInvariant == SplitSpec => []SplitInv
<1>1. SplitInit => SplitInv
  BY SplitInitially
<1>2. SplitInv /\ [SplitNext]_splitVars => SplitInv'
  BY SplitStep
<1>3. QED
  BY <1>1, <1>2, PTL DEF SplitSpec

\* splitStatements, reading character by character, cuts every text where the lexer does,
\* which reads lexeme by lexeme, and returns the statements the lexer returns.
THEOREM SplitImplementsLexer == SplitSpec => SplitsLikeTheLexer
<1>1. SplitInit => Lexer!LexerInit
  BY SplitInitially
<1>2. SplitInv /\ [SplitNext]_splitVars => [Lexer!LexerNext]_Lexer!lexerVars
  BY SplitStep
<1>3. QED
  BY <1>1, <1>2, SplitInvariant, PTL DEF SplitSpec, SplitsLikeTheLexer, Lexer!LexerSpec
=============================================================================
