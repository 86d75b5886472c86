------------------------------ MODULE SqlLexer ------------------------------
(***************************************************************************)
(* What splitStatements (postgres/migrate.go) promises: the text is a       *)
(* sequence of lexemes, read one by one.  A comment ends with its line, a   *)
(* quoted text with the first closing quote that is not doubled, a dollar-  *)
(* quoted text with the next occurrence of its tag, and each with the end   *)
(* of the text at the latest; any other character is a lexeme of its own.   *)
(* Of a comment nothing is kept but the end of its line, of every other     *)
(* lexeme all.  The separators between the lexemes end the statements.      *)
(***************************************************************************)
EXTENDS SqlText

VARIABLES text,      \* the text of a migration
          at,        \* where the next lexeme begins
          kept,      \* what is kept of the statement so far
          done,      \* the statements so far
          returned   \* the statements have been returned

lexerVars == <<text, at, kept, done, returned>>

Even(n) == n % 2 = 0
Count(s, c, i, j) == Cardinality({k \in i .. j : s[k] = c})

\* Where a lexeme that begins at i may end.
LexemeEnds(s, i) ==
    LET tag == ParseDollarTag(s, i)
    IN CASE At(s, i, Dashes) -> {j \in i .. Len(s) : s[j] = "\n"}
         [] s[i] \in Quotes -> {j \in i .. Len(s) : /\ s[j] = s[i] /\ Even(Count(s, s[i], i, j))
                                                    /\ j < Len(s) => s[j + 1] # s[i]}
         [] tag # <<>> -> {j \in i + 2 * Len(tag) - 1 .. Len(s) : At(s, j - Len(tag) + 1, tag)}
         [] OTHER -> {i}

LexemeEnd(s, i) == IF LexemeEnds(s, i) = {} THEN Len(s) ELSE Min(LexemeEnds(s, i))

KeptOfLexeme(s, i) ==
    LET end == LexemeEnd(s, i)
    IN CASE ~At(s, i, Dashes) -> SubSeq(s, i, end)
         [] At(s, i, Dashes) /\ s[end] = "\n" -> <<"\n">>
         [] OTHER -> <<>>

LexerInit ==
    /\ text \in Texts
    /\ at = 1
    /\ kept = <<>>
    /\ done = <<>>
    /\ returned = FALSE

ReadLexeme ==
    /\ ~returned
    /\ at <= Len(text) /\ text[at] # ";"
    /\ at' = LexemeEnd(text, at) + 1
    /\ kept' = kept \o KeptOfLexeme(text, at)
    /\ UNCHANGED <<text, done, returned>>

ReadSeparator ==
    /\ ~returned
    /\ at <= Len(text) /\ text[at] = ";"
    /\ at' = at + 1
    /\ kept' = <<>>
    /\ done' = WithStatement(done, kept)
    /\ UNCHANGED <<text, returned>>

ReturnAll ==
    /\ ~returned
    /\ at > Len(text)
    /\ done' = WithStatement(done, kept)
    /\ returned' = TRUE
    /\ UNCHANGED <<text, at, kept>>

LexerNext == ReadLexeme \/ ReadSeparator \/ ReturnAll

LexerSpec == LexerInit /\ [][LexerNext]_lexerVars
=============================================================================
