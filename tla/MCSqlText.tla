----------------------------- MODULE MCSqlText -----------------------------
(***************************************************************************)
(* The functions on SQL text for TLC, against reference definitions: every *)
(* text of at most MaxLen characters of one alphabet, every template and   *)
(* statement of at most MaxTokens tokens, and every WHERE clause of at     *)
(* most MaxAtoms conditions.  A behaviour writes one of the three.         *)
(***************************************************************************)
EXTENDS SqlText

CONSTANTS MaxLen, MaxTokens, MaxAtoms

VARIABLES text, template, stmt, where, atoms

rules == <<template, stmt>>
clauses == <<where, atoms>>
vars == <<text, rules, clauses>>

Init ==
  /\ text = <<>> /\ template = <<>> /\ stmt = <<>>
  /\ where = NoPattern /\ atoms = 0

NoText == text = <<>>
NoRule == template = <<>> /\ stmt = <<>>
NoClause == atoms = 0
-----------------------------------------------------------------------------
(***************************************************************************)
(* Comments: a text, in characters.                                        *)
(***************************************************************************)
\* Comments and strings; executable comments; what {:?} escapes; line comments.
Alphabets == {{"/", "*", "\"", " ", "a"}, {"/", "*", "!", "'", " "},
              {"\\", "\"", "\n", " ", "n"}, {"/", "*", "#", "\n", "a"}}

Write ==
  /\ NoRule /\ NoClause /\ Len(text) < MaxLen
  /\ \E A \in Alphabets : \E c \in A :
       ToSet(text) \subseteq A /\ text' = Append(text, c)
  /\ UNCHANGED <<rules, clauses>>

OpenAt(t) == {i \in 1 .. Len(t) - 1 : t[i] = "/" /\ t[i + 1] = "*"}
CloseAt(t, from) == {i \in from .. Len(t) - 1 : t[i] = "*" /\ t[i + 1] = "/"}

Comment == "/**/"

\* The text with each comment replaced by the mark Comment: from an opening bracket to
\* the next closing one.
RECURSIVE Marked(_)
Marked(t) ==
  IF OpenAt(t) = {} THEN t
  ELSE LET i == Min(OpenAt(t))
           C == CloseAt(t, i + 2)
       IN  SubSeq(t, 1, i - 1) \o <<Comment>>
             \o (IF C = {} THEN <<>> ELSE Marked(SubSeq(t, Min(C) + 2, Len(t))))

Without(t) == Trim(SelectSeq(Marked(t), LAMBDA c : c # Comment))

\* An opening bracket inside a comment.
Nested(t) == \E i, j \in OpenAt(t) : i + 2 <= j /\ CloseAt(SubSeq(t, 1, j), i + 2) = {}

\* A comment with no white space next to it, between two other characters.
Glued(t) ==
  LET s == Marked(t)
  IN  \E i \in 2 .. Len(s) - 1 :
        s[i] = Comment /\ s[i - 1] \notin White /\ s[i + 1] \notin White

\* Brackets MySQL takes for something else than a comment: it executes a comment that
\* starts with "!", and may find a bracket in a string or behind the sign of a line
\* comment ("--" is another).
NoComment(t) ==
  \E i \in OpenAt(t) : (i + 2 \in DOMAIN t /\ t[i + 2] = "!")
                       \/ ToSet(t) \cap {"'", "\"", "#"} # {}

\* What MySQL reads: a comment is a blank, and so is all white space in a row.
Meaning(t) ==
  LET Spaced == [i \in DOMAIN Marked(t) |->
                   IF Marked(t)[i] \in White \cup {Comment} THEN " " ELSE Marked(t)[i]]
      Add(s, c) == IF c = " " /\ (s = <<>> \/ Last(s) = " ") THEN s ELSE Append(s, c)
  IN  Trim(FoldLeft(Add, <<>>, Spaced))

\* The only text {:?} may have written as t.
RECURSIVE Unescaped(_)
Unescaped(t) ==
  IF Len(t) < 2 THEN t
  ELSE IF Head(t) = "\\"
       THEN <<IF t[2] = "n" THEN "\n" ELSE t[2]>> \o Unescaped(SubSeq(t, 3, Len(t)))
       ELSE <<Head(t)>> \o Unescaped(Tail(t))

\* The comments of a text are removed from it, and nothing else but the white space
\* around it, as long as none has an opening bracket inside (sys_sql.rs:307-328).
CommentsRemoved == Nested(text) \/ remove_comments(text) = Without(text)

\* A hit is the reply to the same statement: the statement stored under the key a
\* text is looked up by (sys_assistant_client.rs:169 against serve/mod.rs:275, 314)
\* means to MySQL what the text means.  Not so where a comment holds an opening bracket,
\* joins what stands around it, or is none to MySQL; nor where the text has a backslash,
\* which it is looked up by as it is, and which stands in a stored key for what {:?} has
\* escaped: x='a\\tb' has the key of x='a\tb', another string.
HitIsSameStatement ==
  LET key == LookupKey(text)
      other == Unescaped(key)
  IN  StoreKey(other) = key /\ "\\" \notin ToSet(key)
        /\ ~Nested(text) /\ ~Glued(text) /\ ~NoComment(text)
        => Meaning(other) = Meaning(text)

\* A statement that is stored is found again exactly when it has no comments, no white
\* space around it, and nothing in it that {:?} escapes: a quote, a backslash, or a
\* line break, tab or other control character (the same lines).
FoundAgain ==
  LookupKey(text) = StoreKey(text)
    <=> /\ OpenAt(text) = {} /\ Trim(text) = text
        /\ ToSet(text) \cap {"\"", "\\", "\n"} = {}

-----------------------------------------------------------------------------
(***************************************************************************)
(* Rules: a template and a statement, in tokens.                           *)
(***************************************************************************)
Blank == Tok("blank", "")
Question == Tok("placeholder", "?")
Broken == Tok("broken", "")

\* What a rule and a statement are made of, one token of each kind or two.
Ordinary == {Tok("word", "A"), Tok("number", "A"), Tok("number", "1"), Blank}
TemplateTokens == Ordinary \cup {Question, Tok("escaped", "X"), Broken}
StmtTokens == Ordinary \cup {Tok("escaped", "X"), Tok("escaped", "Y"), Question, Broken}

\* The template is written first.
Edit ==
  /\ NoText /\ NoClause /\ stmt = <<>> /\ Len(template) < MaxTokens
  /\ \E t \in TemplateTokens : template' = Append(template, t)
  /\ UNCHANGED <<text, stmt, clauses>>

Type ==
  /\ NoText /\ NoClause /\ Len(stmt) < MaxTokens
  /\ \E t \in StmtTokens : stmt' = Append(stmt, t)
  /\ UNCHANGED <<text, template, clauses>>

Solid(s) == SelectSeq(s, LAMBDA t : t # Blank)

Has(s, token) == \E i \in DOMAIN s : s[i] = token

\* The statements a template stands for: each question mark is any one token.
RECURSIVE Instances(_)
Instances(t) ==
  IF t = <<>> THEN {<<>>}
  ELSE {<<token>> \o rest : token \in IF Head(t) = Question THEN StmtTokens ELSE {Head(t)},
                            rest \in Instances(Tail(t))}

Ordered(s) == ~Has(s, Broken) /\ \A i \in DOMAIN s : s[i].kind # "escaped"

\* A rule matches what its template becomes when each question mark is replaced by one
\* token, whatever the spacing of the two, and nothing else (sys_sql.rs:50-114,
\* meta.rs:67-76): for a statement without question marks of its own, and where neither
\* holds an E'...' literal.  Text that cannot be tokenized has no tokens: a template of
\* that kind matches all statements of that kind, and nothing with tokens (sys_sql.rs:51-53,
\* 65; meta.rs:67-69).
MatchIsSubstitution ==
  /\ Ordered(template) /\ Ordered(stmt) /\ ~Has(stmt, Question)
       => (RuleMatches(template, stmt) <=> Solid(stmt) \in Instances(Solid(template)))
  /\ Has(template, Broken) /\ Solid(stmt) # <<>>
       => (RuleMatches(template, stmt) <=> Has(stmt, Broken))

-----------------------------------------------------------------------------
(***************************************************************************)
(* Patterns: a WHERE clause, as the parser nests it.                       *)
(***************************************************************************)
Column(c) == [kind |-> "column", v |-> c]
Value(n) == [kind |-> "value", v |-> n]
Binary(op, l, r) == [kind |-> "binary", op |-> op, left |-> l, right |-> r]
Unary(op, e) == [kind |-> "unary", op |-> op, expr |-> e]

Columns == {Column("a"), Column("b")}
Values == {Value("1"), Value("2")}

Compared == {Binary("=", c, v) : c \in Columns, v \in Values}

\* Conditions on a column whose operands are one token each.
Plain ==
  Compared \cup {Unary("NOT", e) : e \in Compared}
    \cup {[kind |-> "between", expr |-> c, low |-> Value("1"), high |-> v] :
             c \in Columns, v \in Values}

\* The others: a negative number, a column on the right, IN and brackets.
Atoms ==
  Plain \cup {Binary("=", Column("a"), Unary("-", Value("1"))),
              Binary("=", Value("1"), Column("a")),
              [kind |-> "in", expr |-> Column("a"), list |-> Value("1")],
              [kind |-> "nested", expr |-> Binary("=", Column("a"), Value("1"))]}

Clause(e) ==
  /\ NoText /\ NoRule /\ atoms < MaxAtoms
  /\ where' = e /\ atoms' = atoms + 1
  /\ UNCHANGED <<text, rules>>

First == atoms = 0 /\ \E x \in Atoms : Clause(x)

\* AND binds closer than OR, and both to the left.
And ==
  atoms > 0 /\ \E x \in Atoms :
    Clause(IF where.kind = "binary" /\ where.op = "OR"
           THEN [where EXCEPT !.right = Binary("AND", @, x)] ELSE Binary("AND", where, x))

Or == atoms > 0 /\ \E x \in Atoms : Clause(Binary("OR", where, x))

Select(e, alias) == [kind |-> "select", where |-> e, alias |-> alias]

\* A statement as a client may write it: as Display does, or with a bare alias, or with
\* a semicolon, which the parser both forgets.
Written(s, bare, semicolon) ==
  SelectSeq(Printed(s), LAMBDA t : ~bare \/ t # Tok("word", "AS"))
    \o (IF semicolon THEN <<Tok("op", ";")>> ELSE <<>>)

\* An expression with its numbers exchanged.
RECURSIVE Renumbered(_)
Renumbered(e) ==
  CASE e.kind = "value" -> Value(IF e.v = "1" THEN "2" ELSE "1")
    [] e.kind = "binary" -> [e EXCEPT !.left = Renumbered(@), !.right = Renumbered(@)]
    [] e.kind = "between" -> [e EXCEPT !.low = Renumbered(@), !.high = Renumbered(@)]
    [] e.kind \in {"unary", "nested"} -> [e EXCEPT !.expr = Renumbered(@)]
    [] e.kind = "in" -> [e EXCEPT !.list = Renumbered(@)]
    [] OTHER -> e

\* The conditions an expression joins, and whether it joins them with AND only.
RECURSIVE Joined(_)
Joined(e) ==
  IF e.kind = "binary" /\ e.op \in {"AND", "OR"} THEN Joined(e.left) \cup Joined(e.right)
  ELSE {e}

RECURSIVE OnlyAnd(_)
OnlyAnd(e) == e.kind = "binary" /\ e.op \in {"AND", "OR"} => e.op = "AND" /\ OnlyAnd(e.left)

\* Executions that differ in the values their columns are compared with are grouped:
\* they have one pattern, joined by AND or by OR (sys_sql.rs:187-227).
PatternForgetsValues ==
  (\A x \in Joined(where) : x.kind \notin {"in", "nested"} /\ (x.kind = "binary" => x.left \in Columns))
    => \A alias \in BOOLEAN :
         sql_to_pattern(Select(Renumbered(where), alias)) = sql_to_pattern(Select(where, alias))

\* The pattern a statement is listed under, made a caching rule, matches the statement
\* only if it is written as sqlparser prints it: not if an alias has no AS, or a
\* semicolon ends it (sys_sql.rs:137-227 against 50-114 and meta.rs:67-76).  Then it does
\* match, if the conditions are joined by AND and each value is one token.
PatternIsItsRule ==
  OnlyAnd(where) /\ Joined(where) \subseteq Plain
    => \A alias, bare, semicolon \in BOOLEAN :
         LET s == Select(where, alias)
         IN  RuleMatches(Printed(sql_to_pattern(s)), Written(s, bare, semicolon))
               <=> ~semicolon /\ ~(alias /\ bare)
-----------------------------------------------------------------------------
Next == Write \/ Edit \/ Type \/ First \/ And \/ Or

Spec == Init /\ [][Next]_vars
=============================================================================
