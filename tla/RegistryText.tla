---------------------------- MODULE RegistryText ----------------------------
(***************************************************************************)
(* What a Registry delivers and stores against the text it reads: the pairs*)
(* are written out again, and the text is read in one go.                  *)
(***************************************************************************)
EXTENDS Registry

\* What is built from the values of S in one step, and the values nested up to
\* n times.
Built(S) ==
  [type : {"number"}, num : Int, str : {<<>>}, items : {<<>>}]
  \cup [type : {"string"}, num : {0}, str : Seq(Chars), items : {<<>>}]
  \cup [type : {"list"}, num : {0}, str : {<<>>}, items : Seq(S)]
  \cup [type : {"expression"}, num : {0}, str : Seq(Chars), items : Seq(S)]
ValuesUpTo[n \in Nat] == IF n = 0 THEN {} ELSE Built(ValuesUpTo[n - 1])

\* The tokens a value is written with, if write has those of the items.
Items(items, write) ==
  FlattenSeq([k \in DOMAIN items |-> <<Plain("COMMA")>> \o write[items[k]]])
Enclosed(t, s) == <<Plain(t)>> \o (IF s = <<>> THEN s ELSE Tail(s)) \o <<Plain(ClosingToken(t))>>
Ident(str, line) == <<Token("IDENT", 0, str, line)>>
ValueTokens(v, ps, write) ==
  CASE v.type = "number"     -> <<Token("NUM", v.num, <<>>, 0)>>
    [] v.type = "string"     -> Ident(v.str, 0)
    [] v.type = "list"       -> Enclosed(ps.list, Items(v.items, write))
    [] v.type = "expression" -> Ident(v.str, 0) \o Enclosed(ps.expr, Items(v.items, write))
RenderUpTo(ps) ==
  LET render[n \in Nat] == [v \in ValuesUpTo[n] |-> ValueTokens(v, ps, render[n - 1])]
  IN render

\* Those of a value or a pair in the text, where nothing is nested deeper than
\* the calls of the parser, and those of a history.
Render(v, ps) == RenderUpTo(ps)[2 * Len(lex.text) + 2][v]
RenderPair(p, ps) == Ident(p.key, p.line) \o <<Plain("ASSIGN")>> \o Render(p.val, ps)
Written(s, ps) ==
  FlattenSeq([k \in DOMAIN s |-> IF s[k].tok = "PAIR" THEN RenderPair(s[k], ps) ELSE <<s[k]>>])

\* The tokens from a lexer, one after the other, up to END or an exception: a
\* token that was put back, and one for each character and for the end at most.
From(g, rest) == IF g.err THEN <<Plain("exception")>>
                 ELSE IF g.tok = "END" THEN <<TokenOf(g)>>
                 ELSE <<TokenOf(g)>> \o rest[g]
RestUpTo[n \in Nat] ==
  [l \in LexerObjects |-> IF n = 0 THEN <<>> ELSE From(GetToken(l), RestUpTo[n - 1])]
Rest(l) == RestUpTo[Len(l.text) + 2][l]
FromStart == NewLexer(lex.text, lex.style)

Same(x, y) == /\ x.tok = y.tok /\ x.num = y.num /\ x.str = y.str
              /\ x.line \in {0, y.line}
\* Where commas are optional the rendering of a pair does not tell them.
Seen(s, ps) ==
  IF ps.commas = "required" THEN s
  ELSE FlattenSeq([k \in DOMAIN s |-> IF s[k].tok = "COMMA" THEN <<>> ELSE <<s[k]>>])

Agree(s, t, ps) ==
  LET x == Seen(s, ps)
      y == Seen(t, ps)
  IN Len(x) = Len(y) /\ \A k \in DOMAIN x : Same(x[k], y[k])

\* However peek_token(), putback(), expect() and sections read by the registry
\* alternate, every token of the text is delivered once and in order: what was
\* delivered, with each pair written out from the value and the line stored
\* for it, followed by what the lexer still has to deliver is the text read
\* in one go.  In particular parse_list() and parse_term() put back what they
\* read too far, and nothing else, at any depth of nesting.  A file counts as
\* read when its end was seen.
TextAccounted ==
  LET ps == GrammarOf(lex).parser
      ended == given # <<>> /\ Last(given).tok = "END"
  IN /\ ~lex.err => Agree(Written(given, ps) \o (IF ended THEN <<>> ELSE Rest(lex)),
                          Rest(FromStart), ps)
     /\ filename => ended

\* What each character of a C style text is in, code or a comment or a string,
\* found in one pass: after place k, if m was found before it.
NextMode(t, quote, m, k) ==
  LET c == t[k]
      n == IF k < Len(t) THEN t[k + 1] ELSE EOF
  IN CASE m = "code"   -> CASE c = "/" /\ n = "/" -> "line"
                            [] c = "/" /\ n = "*" -> "open"
                            [] c = quote          -> "string"
                            [] OTHER              -> "code"
       [] m = "line"   -> IF c = "\n" THEN "code" ELSE "line"
       [] m = "open"   -> "block"
       [] m = "block"  -> IF c = "*" /\ n = "/" THEN "close" ELSE "block"
       [] m = "close"  -> "code"
       [] m = "string" -> CASE c = "\\"  -> "escape"
                            [] c = quote -> "code"
                            [] OTHER     -> "string"
       [] m = "escape" -> "string"
Modes(t, quote) ==
  LET mode[k \in 1..Len(t) + 1] ==
        IF k = 1 THEN "code" ELSE NextMode(t, quote, mode[k - 1], k - 1)
  IN mode

Comment == {"line", "open", "block", "close"}
Commented(mode, k) == mode[k] \in Comment \/ (mode[k] = "code" /\ mode[k + 1] \in Comment)
Blanked(t, quote) ==
  LET mode == Modes(t, quote)
  IN [k \in DOMAIN t |-> IF t[k] # "\n" /\ Commented(mode, k) THEN " " ELSE t[k]]

\* The comments of a C style text can be blanked out and leave the same tokens
\* on the same lines: no comment swallows text after it, and nothing that looks
\* like one inside a string is one.
CommentsBlank ==
  lex.style.comments = "c" /\ lex.pos = 0 =>
    Rest([FromStart EXCEPT !.text = Blanked(@, QuoteChar(lex))]) = Rest(FromStart)
=============================================================================
