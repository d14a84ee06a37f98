------------------------------ MODULE SqlText ------------------------------
(***************************************************************************)
(* The functions on SQL text (utils/sys_sql.rs): the text a SELECT is      *)
(* looked up by, whether a caching rule matches it, and the pattern its    *)
(* executions are grouped by.                                              *)
(***************************************************************************)
EXTENDS Integers, SequencesExt

-----------------------------------------------------------------------------
(***************************************************************************)
(* Comments and keys.  A text is a sequence of characters; "\n" stands for *)
(* the white space other than the blank.                                   *)
(***************************************************************************)
Opens(t) == IsPrefix(<<"/", "*">>, t)

Closes(t) == IsPrefix(<<"*", "/">>, t)

\* Mutant of Past: the second character of the bracket is not consumed.
PastOne(t) == Tail(t)

Past(t) == SubSeq(t, 3, Len(t))

RECURSIVE Kept(_, _)
Kept(t, skip) ==
  IF t = <<>> THEN <<>>
  ELSE IF Opens(t) THEN Kept(Past(t), TRUE)
  ELSE IF skip /\ Closes(t) THEN Kept(Past(t), FALSE)
  ELSE (IF skip THEN <<>> ELSE <<Head(t)>>) \o Kept(Tail(t), skip)

White == {" ", "\n"}

Trim(t) ==
  LET Ink == {i \in DOMAIN t : t[i] \notin White}
  IN  IF Ink = {} THEN <<>> ELSE SubSeq(t, Min(Ink), Max(Ink))

remove_comments(t) == Trim(Kept(t, FALSE))

\* Mutant of Escape: only the quote is escaped.
EscapeQuote(c) == IF c = "\"" THEN <<"\\", c>> ELSE <<c>>

\* What {:?} writes for a character; tabs and control characters are like "\n".
Escape(c) ==
  CASE c \in {"\"", "\\"} -> <<"\\", c>>
    [] c = "\n" -> <<"\\", "n">>
    [] OTHER -> <<c>>

Escaped(t) == FlattenSeq([i \in DOMAIN t |-> Escape(t[i])])

LookupKey(t) == remove_comments(t)

StoreKey(t) == Escaped(t)
-----------------------------------------------------------------------------
(***************************************************************************)
(* Rules.  A statement is the sequence of its tokens, in upper case, the   *)
(* literals too; a token "broken" stands for text that cannot be           *)
(* tokenized.                                                              *)
(***************************************************************************)
Tok(kind, v) == [kind |-> kind, v |-> v]

Tokenize(s) == IF \E i \in DOMAIN s : s[i].kind = "broken" THEN <<>> ELSE s

trim_tokens(tokens) == SelectSeq(tokens, LAMBDA t : t.kind \notin {"eof", "blank"})

SameToken(a, b) ==
  \/ a = b
  \/ a.kind = b.kind /\ a.kind \in {"escaped", "blank"}
  \/ "placeholder" \in {a.kind, b.kind}

\* Mutant of is_pattern_match: a statement that goes on after the pattern matches.
MatchesPrefix(tokens1, s) ==
  LET tokens2 == trim_tokens(Tokenize(s))
  IN  Len(tokens1) <= Len(tokens2) /\ \A i \in DOMAIN tokens1 : SameToken(tokens1[i], tokens2[i])

is_pattern_match(tokens1, s) ==
  LET tokens2 == trim_tokens(Tokenize(s))
  IN  Len(tokens1) = Len(tokens2) /\ \A i \in DOMAIN tokens1 : SameToken(tokens1[i], tokens2[i])

\* A rule keeps the trimmed tokens of its template.
RuleMatches(template, s) == is_pattern_match(trim_tokens(Tokenize(template)), s)
-----------------------------------------------------------------------------
(***************************************************************************)
(* Patterns.  An expression is a tree; kinds "column", "value", "in" and   *)
(* "nested" (in brackets) are left as they are.                            *)
(***************************************************************************)
Hole == [kind |-> "value", v |-> "?"]

\* Mutants of replace_expr: the lower end of a BETWEEN is kept; AND is treated like
\* every other operator.
RECURSIVE ReplaceKeepsLow(_)
ReplaceKeepsLow(e) ==
  CASE e.kind = "binary" ->
         [e EXCEPT !.left = ReplaceKeepsLow(@),
                   !.right = IF e.op = "AND" THEN ReplaceKeepsLow(@) ELSE Hole]
    [] e.kind = "between" -> [e EXCEPT !.expr = ReplaceKeepsLow(@), !.high = Hole]
    [] e.kind = "unary" -> [e EXCEPT !.expr = ReplaceKeepsLow(@)]
    [] OTHER -> e

RECURSIVE ReplaceConjunct(_)
ReplaceConjunct(e) ==
  CASE e.kind = "binary" -> [e EXCEPT !.left = ReplaceConjunct(@), !.right = Hole]
    [] e.kind = "between" -> [e EXCEPT !.expr = ReplaceConjunct(@), !.low = Hole, !.high = Hole]
    [] e.kind = "unary" -> [e EXCEPT !.expr = ReplaceConjunct(@)]
    [] OTHER -> e

RECURSIVE replace_expr(_)
replace_expr(e) ==
  CASE e.kind = "binary" ->
         [e EXCEPT !.left = replace_expr(@),
                   !.right = IF e.op = "AND" THEN replace_expr(@) ELSE Hole]
    [] e.kind = "between" -> [e EXCEPT !.expr = replace_expr(@), !.low = Hole, !.high = Hole]
    [] e.kind = "unary" -> [e EXCEPT !.expr = replace_expr(@)]
    [] OTHER -> e

\* A statement that is no query, or cannot be parsed, has no pattern.
NoPattern == [kind |-> "none"]

sql_to_pattern(s) ==
  CASE s.kind = "select" /\ s.where # NoPattern -> [s EXCEPT !.where = replace_expr(@)]
    [] s.kind \in {"select", "union"} -> s
    [] OTHER -> NoPattern

\* The tokens Display writes for an expression ...
RECURSIVE Display(_)
Display(e) ==
  CASE e.kind = "column" -> <<Tok("word", e.v)>>
    [] e = Hole -> <<Tok("placeholder", "?")>>
    [] e.kind = "value" -> <<Tok("number", e.v)>>
    [] e.kind = "binary" -> Display(e.left) \o <<Tok("word", e.op)>> \o Display(e.right)
    [] e.kind = "between" -> Display(e.expr) \o <<Tok("word", "BETWEEN")>> \o Display(e.low)
                               \o <<Tok("word", "AND")>> \o Display(e.high)
    [] e.kind = "unary" -> <<Tok("word", e.op)>> \o Display(e.expr)
    [] e.kind = "nested" -> <<Tok("op", "(")>> \o Display(e.expr) \o <<Tok("op", ")")>>
    [] e.kind = "in" -> Display(e.expr) \o <<Tok("word", "IN"), Tok("op", "(")>>
                          \o Display(e.list) \o <<Tok("op", ")")>>

\* ... and for a statement: to_string() writes an alias with AS, and no semicolon.
Printed(s) ==
  <<Tok("word", "SELECT"), Tok("word", "T")>>
    \o (IF s.alias THEN <<Tok("word", "AS"), Tok("word", "X")>> ELSE <<>>)
    \o <<Tok("word", "WHERE")>> \o Display(s.where)
=============================================================================
