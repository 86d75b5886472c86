------------------------------ MODULE SqlSplit ------------------------------
(***************************************************************************)
(* splitStatements (postgres/migrate.go): cut the text of a migration into  *)
(* the statements that applyMigration executes one by one.  One action for  *)
(* each way through the body of its loop; what the code keeps in three      *)
(* booleans and a tag is mode and tag here.  It is compared with SqlLexer,  *)
(* which reads whole lexemes.                                               *)
(*                                                                         *)
(* Right before some definitions stands a faulty variant of them, used only *)
(* to show that the properties notice the fault.                            *)
(***************************************************************************)
EXTENDS SqlText

VARIABLES sql,      \* the text
          pos,      \* the next character
          mode,     \* "plain", "comment", "dollar", the open quote, or "returned"
          tag,      \* dollarTag
          current,  \* the statement so far
          stmts,    \* the statements so far
          lexeme    \* ghost: where the latest lexeme was opened, and current then

splitVars == <<sql, pos, mode, tag, current, stmts, lexeme>>

SplitInit ==
    /\ sql \in Texts
    /\ pos = 1
    /\ mode = "plain"
    /\ tag = <<>> /\ current = <<>> /\ stmts = <<>>
    /\ lexeme = [start |-> 1, before |-> <<>>]

-----------------------------------------------------------------------------
\* A turn of the loop reads n characters and writes t.
Turn(n, m, t) ==
    /\ pos' = pos + n
    /\ mode' = m
    /\ current' = current \o t
    /\ UNCHANGED <<sql, stmts>>

\* Faulty: the end of the line goes with the comment and joins two lines.
CommentJoiningLines ==
    /\ mode = "comment" /\ pos <= Len(sql)
    /\ Turn(1, IF sql[pos] = "\n" THEN "plain" ELSE "comment", <<>>)
    /\ UNCHANGED <<tag, lexeme>>

Comment ==
    /\ mode = "comment" /\ pos <= Len(sql)
    /\ IF sql[pos] = "\n" THEN Turn(1, "plain", <<"\n">>) ELSE Turn(1, "comment", <<>>)
    /\ UNCHANGED <<tag, lexeme>>

DollarQuoted ==
    /\ mode = "dollar" /\ pos <= Len(sql)
    /\ \/ At(sql, pos, tag) /\ Turn(Len(tag), "plain", tag) /\ tag' = <<>>
       \/ ~At(sql, pos, tag) /\ Turn(1, "dollar", <<sql[pos]>>) /\ UNCHANGED tag
    /\ UNCHANGED lexeme

\* A doubled quote stands for itself.
Quoted ==
    /\ mode \in Quotes /\ pos <= Len(sql)
    /\ \/ At(sql, pos, <<mode, mode>>) /\ Turn(2, mode, <<mode, mode>>)
       \/ /\ ~At(sql, pos, <<mode, mode>>)
          /\ Turn(1, IF sql[pos] = mode THEN "plain" ELSE mode, <<sql[pos]>>)
    /\ UNCHANGED <<tag, lexeme>>

\* Outside of comments and quotes.
Plain == mode = "plain" /\ pos <= Len(sql)
Opened == lexeme' = [start |-> pos, before |-> current]

OpenComment ==
    /\ Plain /\ At(sql, pos, Dashes)
    /\ Turn(2, "comment", <<>>)
    /\ Opened /\ UNCHANGED tag

OpenQuote ==
    /\ Plain /\ sql[pos] \in Quotes
    /\ Turn(1, sql[pos], <<sql[pos]>>)
    /\ Opened /\ UNCHANGED tag

OpenDollarQuote ==
    /\ Plain /\ ParseDollarTag(sql, pos) # <<>>
    /\ tag' = ParseDollarTag(sql, pos)
    /\ Turn(Len(tag'), "dollar", tag')
    /\ Opened

Separator ==
    /\ Plain /\ sql[pos] = ";"
    /\ pos' = pos + 1
    /\ stmts' = WithStatement(stmts, current)
    /\ current' = <<>>
    /\ UNCHANGED <<sql, mode, tag, lexeme>>

OtherCharacter ==
    /\ Plain /\ ~At(sql, pos, Dashes) /\ ParseDollarTag(sql, pos) = <<>>
    /\ sql[pos] \notin Quotes \cup {";"}
    /\ Turn(1, "plain", <<sql[pos]>>)
    /\ UNCHANGED <<tag, lexeme>>

\* After the loop: the last statement needs no separator.
ReturnStatements ==
    /\ mode # "returned" /\ pos > Len(sql)
    /\ stmts' = WithStatement(stmts, current)
    /\ mode' = "returned"
    /\ UNCHANGED <<sql, pos, tag, current, lexeme>>

SplitNext ==
    \/ Comment \/ DollarQuoted \/ Quoted
    \/ OpenComment \/ OpenQuote \/ OpenDollarQuote \/ Separator \/ OtherCharacter
    \/ ReturnStatements

SplitSpec == SplitInit /\ [][SplitNext]_splitVars
-----------------------------------------------------------------------------
(* Properties *)

\* The lexer reads a lexeme when the loop has read its last character; until then
\* it is where the lexeme was opened.
BetweenLexemes == mode \in {"plain", "returned"} \/ pos > Len(sql)
Lexer == INSTANCE SqlLexer WITH
            text <- sql,
            at <- IF BetweenLexemes THEN pos ELSE lexeme.start,
            kept <- IF BetweenLexemes THEN current ELSE lexeme.before,
            done <- stmts,
            returned <- mode = "returned"

\* splitStatements cuts where a lexer of the same language does, drops the
\* comments and nothing else: no separator inside a quote, a comment or a dollar
\* quote ends a statement, and a tag, a doubled quote or a comment that straddles
\* the end of the text does no harm.
SplitsLikeTheLexer == Lexer!LexerSpec
=============================================================================
