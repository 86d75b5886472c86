------------------------------ MODULE SqlText ------------------------------
(***************************************************************************)
(* The texts of migrations, as splitStatements (postgres/migrate.go) and    *)
(* the lexer it is compared with see them: sequences of characters, of      *)
(* which a few are special, some are white space and some may stand in the  *)
(* name of a dollar tag.                                                    *)
(***************************************************************************)
EXTENDS Integers, Sequences, FiniteSetsExt

CONSTANTS Chars,      \* characters
          WordChars,  \* letters, digits and the underscore
          Spaces,     \* white space
          Texts       \* the texts migrations may have

Quotes == {"'", "\""}
Dashes == <<"-", "-">>

ASSUME TextAssumption ==
    /\ Quotes \cup {"-", "$", ";", "\n"} \cup WordChars \cup Spaces \subseteq Chars
    /\ Texts \subseteq Seq(Chars)

\* strings.HasPrefix(s[i:], t)
At(s, i, t) == i + Len(t) - 1 <= Len(s) /\ SubSeq(s, i, i + Len(t) - 1) = t

\* strings.TrimSpace
Trim(s) ==
    LET ink == {i \in 1 .. Len(s) : s[i] \notin Spaces}
    IN IF ink = {} THEN <<>> ELSE SubSeq(s, Min(ink), Max(ink))

\* A statement ends: it is added unless there is nothing in it.
WithStatement(stmts, current) ==
    IF Trim(current) = <<>> THEN stmts ELSE Append(stmts, Trim(current))

\* parseDollarTag: the tag that starts at i, or the empty sequence.
ParseDollarTag(s, i) ==
    LET ends == {j \in i + 1 .. Len(s) :
                    s[j] = "$" /\ \A k \in i + 1 .. j - 1 : s[k] \in WordChars}
    IN IF s[i] = "$" /\ ends # {} THEN SubSeq(s, i, Min(ends)) ELSE <<>>
=============================================================================
