------------------------------- MODULE Parser -------------------------------
(***************************************************************************)
(* The parser of the registry (include/nanonet/registry.h,                 *)
(* src/registry.cpp): key/value pairs whose values are numbers, strings,   *)
(* lists and expressions, nested to any depth.  An operator takes the      *)
(* lexer and returns it as it is left, with the value.                     *)
(***************************************************************************)
EXTENDS Lexer, Values

\* parser_style_t, its default, and the two grammars with names.
ParserStyle(commas, list, expr) == [commas |-> commas, list |-> list, expr |-> expr]
Grammar(ps, ls) == [parser |-> ps, lexer |-> ls]
DefaultGrammar == Grammar(ParserStyle("required", "LB", "LP"), DefaultLexerStyle)
ConfigStyle == Grammar(ParserStyle("optional", "LB", "LP"), LexerStyle("c", "double"))
MatlabStyle ==
  Grammar(ParserStyle("optional", "LBRACKET", "LP"), LexerStyle("percent", "single"))

Result(l, v) == [lex |-> l, val |-> v]

\* Mutation: the token after an identifier that is no expression is lost.
BareIdent_Taken(h, s) == Result(h, StringValue(s))

\* An identifier followed by another token than an expression's delimiter.
BareIdent(h, s) == Result(Putback(h), StringValue(s))

\* An exception has left the lexer l.
Failed(l) == Result(l, NoValue)

\* A call of parse_term(), or of parse_list() up to a closing token, before
\* its first element or after one.
Calls == [close : Tokens \cup {""}, first : BOOLEAN, lex : LexerObjects]
Term(l) == [close |-> "", first |-> TRUE, lex |-> l]
List(l, close, first) == [close |-> close, first |-> first, lex |-> l]

\* The element of a list begins at g, or after it.
ElementStart(g, ps, first) ==
  IF ~first /\ ps.commas = "required" THEN ExpectCurrent(g, "COMMA")
  ELSE IF first \/ g.tok # "COMMA" THEN Putback(g) ELSE g

\* parse_list() and parse_term(); run makes the calls in them.  What is read
\* next is handed on as a parameter: g a token, r the result of a call.
WithFirst(x, r) == IF r.lex.err THEN r ELSE Result(r.lex, ListValue(<<x>> \o r.val.items))
ListGrown(r, close, run) ==
  IF r.lex.err THEN r ELSE WithFirst(r.val, run[List(r.lex, close, FALSE)])
ListElement(l, close, run) ==
  IF l.err THEN Failed(l) ELSE ListGrown(run[Term(l)], close, run)
ListAt(g, c, ps, run) ==
  IF g.err THEN Failed(g)
  ELSE IF g.tok = c.close THEN Result(g, ListValue(<<>>))
  ELSE ListElement(ElementStart(g, ps, c.first), c.close, run)

ExpressionOf(head, tail) ==
  IF tail.lex.err THEN tail ELSE Result(tail.lex, Expression(head, tail.val.items))
AfterIdent(h, head, ps, run) ==
  IF h.err THEN Failed(h)
  ELSE IF h.tok # ps.expr THEN BareIdent(h, head)
  ELSE ExpressionOf(head, run[List(h, ClosingToken(ps.expr), TRUE)])
TermOf(g, ps, run) ==
  CASE g.tok = "NUM"    -> Result(g, NumValue(g.num))
    [] g.tok = "STRING" -> Result(g, StringValue(g.str))
    [] g.tok = "IDENT"  -> AfterIdent(GetToken(g), g.str, ps, run)
    [] g.tok = ps.list  -> run[List(g, ClosingToken(ps.list), TRUE)]
    [] OTHER            -> Failed(Throw(g))
TermAt(g, ps, run) == IF g.err THEN Failed(g) ELSE TermOf(g, ps, run)

Called(c, ps, run) == IF c.close = "" THEN TermAt(GetToken(c.lex), ps, run)
                                      ELSE ListAt(GetToken(c.lex), c, ps, run)

\* Calls nested to depth n at most.  Of two, one in the other, the first or the
\* second takes a token: no text has deeper ones than 2 * Len(l.text) + 2.
Run(ps) ==
  LET run[n \in Nat] ==
        [c \in Calls |-> IF n = 0 THEN Failed(Throw(c.lex)) ELSE Called(c, ps, run[n - 1])]
  IN run
ParseTerm(l, ps) == Run(ps)[2 * Len(l.text) + 2][Term(l)]

\* parse_pair(): state, the key, the value and the line of the key.  A token
\* that is no identifier makes the parser false and has been taken.
Pair(key, more, r) ==
  [lex |-> r.lex, more |-> more, key |-> key.str, val |-> r.val, line |-> key.line]
PairValue(a, ps) == IF a.err THEN Failed(a) ELSE ParseTerm(a, ps)
PairAt(g, ps) == IF g.err \/ g.tok # "IDENT" THEN Pair(g, FALSE, Failed(g))
                 ELSE Pair(g, TRUE, PairValue(Expect(g, "ASSIGN"), ps))
ParsePair(l, ps) == PairAt(GetToken(l), ps)
=============================================================================
