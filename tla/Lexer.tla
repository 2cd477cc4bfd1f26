-------------------------------- MODULE Lexer --------------------------------
(***************************************************************************)
(* The lexer of the registry (include/nanonet/registry.h, src/registry.cpp)*)
(* as operators on a lexer object: the stream it reads is a text and the   *)
(* number of characters taken from it, the other fields are its members.   *)
(* An exception leaves err = TRUE; nobody uses a lexer after that.         *)
(*                                                                         *)
(* A character stands for its class: "a", "b", "n", "t" for the letters,   *)
(* "0", "1", "5" for the digits, "!" for what no token contains.  A number *)
(* is counted in tenths; exponents are left out.                           *)
(*                                                                         *)
(* A loop of the code is a recursive function of the number of turns it    *)
(* may still take; every turn takes a character, so that there are more    *)
(* turns than the text is long only if there is no end to them.            *)
(***************************************************************************)
EXTENDS Integers, Sequences, FiniteSets, SequencesExt

Space == {" ", "\n"}
Letter == {"a", "b", "n", "t"}
DigitValue == [c \in {"0", "1", "5"} |->
                 CASE c = "0" -> 0 [] c = "1" -> 1 [] c = "5" -> 5]
Digit == DOMAIN DigitValue
EOF == "eof"

\* char_token(): it throws for any other character, quotes included.
CharToken == [c \in {"(", ")", "{", "}", "[", "]", "/", "#", "%", ",", "=", "*"} |->
  CASE c = "(" -> "LP" [] c = ")" -> "RP" [] c = "{" -> "LB" [] c = "}" -> "RB"
    [] c = "[" -> "LBRACKET" [] c = "]" -> "RBRACKET" [] c = "/" -> "SLASH"
    [] c = "#" -> "HASH" [] c = "%" -> "PERCENT" [] c = "," -> "COMMA"
    [] c = "=" -> "ASSIGN" [] c = "*" -> "ASTERISKS"]

Chars == Space \cup Letter \cup Digit \cup DOMAIN CharToken
         \cup {"\"", "'", "\\", ".", "+", "-", "_", "!"}

\* The enumeration of the tokens: a closing delimiter follows its opening one.
TokenOrder == <<"END", "LP", "RP", "LB", "RB", "LBRACKET", "RBRACKET",
  "ASTERISKS", "SLASH", "HASH", "PERCENT", "ASSIGN", "COMMA",
  "DOUBLE_QUOTE", "SINGLE_QUOTE", "STRING", "IDENT", "NUM">>
Tokens == {TokenOrder[k] : k \in DOMAIN TokenOrder}
ClosingToken(t) ==
  TokenOrder[(CHOOSE k \in DOMAIN TokenOrder : TokenOrder[k] = t) + 1]

\* lexer_style_t and its default.
LexerStyle(comments, quotes) == [comments |-> comments, quotes |-> quotes]
DefaultLexerStyle == LexerStyle("hash", "double")
Styles == [comments : {"hash", "percent", "c"}, quotes : {"double", "single"}]
QuoteChar(l) == IF l.style.quotes = "single" THEN "'" ELSE "\""
CommentChar(l) == IF l.style.comments = "hash" THEN "#" ELSE "%"

LexerFields ==
  [text : Seq(Chars), pos : Nat, style : Styles, tok : Tokens, str : Seq(Chars),
   num : Int, line : Nat, hold : BOOLEAN, err : BOOLEAN]
LexerObjects == {l \in LexerFields : l.pos <= Len(l.text)}
NewLexer(text, style) ==
  [text |-> text, pos |-> 0, style |-> style, tok |-> "END", str |-> <<>>,
   num |-> 0, line |-> 1, hold |-> FALSE, err |-> FALSE]

-----------------------------------------------------------------------------
\* The stream.  is.peek(); the first place from k on of a character in S, and
\* of one not in S (one past the end if there is none); the ends of lines from
\* place i to place j.
Peek(l) == IF l.pos < Len(l.text) THEN l.text[l.pos + 1] ELSE EOF
FirstOf(t, places) == IF places = {} THEN Len(t) + 1 ELSE Min(places)
FirstIn(t, k, S) == FirstOf(t, {i \in k..Len(t) : t[i] \in S})
FirstOutside(t, k, S) == FirstOf(t, {i \in k..Len(t) : t[i] \notin S})
Newlines(t, i, j) == Cardinality({k \in i..j : t[k] = "\n"})

\* Take the characters before place k, counting the lines.
SkipTo(l, k) ==
  [l EXCEPT !.pos = k - 1, !.line = @ + Newlines(l.text, l.pos + 1, k - 1)]

Throw(l) == [l EXCEPT !.err = TRUE]
Return(l, t) == [l EXCEPT !.tok = t]
Char(l) == IF l.text[l.pos] \in DOMAIN CharToken
           THEN Return(l, CharToken[l.text[l.pos]])
           ELSE Throw(l)

\* Mutation: the end of a line comment is not counted.
SkipLine_Uncounted(l) ==
  LET k == FirstIn(l.text, l.pos + 1, {"\n"})
  IN [l EXCEPT !.pos = IF k > Len(l.text) THEN k - 1 ELSE k]

\* The rest of the line, its end included.
SkipLine(l) ==
  LET k == FirstIn(l.text, l.pos + 1, {"\n"})
  IN SkipTo(l, IF k > Len(l.text) THEN k ELSE k + 1)

\* Mutation: the character after an asterisk is taken without a look at it.
SkipBlock_Blind(l) ==
  LET t == l.text
      Ends == {k \in l.pos + 1 .. Len(t) - 1 :
                 t[k] = "*" /\ t[k + 1] = "/" /\ (k > l.pos + 1 => t[k - 1] # "*")}
  IN SkipTo(l, IF Ends = {} THEN Len(t) + 1 ELSE Min(Ends) + 2)

\* munch_till_asterisks_slash(): the end of the text ends a comment, too.
SkipBlock(l) ==
  LET t == l.text
      Ends == {k \in l.pos + 1 .. Len(t) - 1 : t[k] = "*" /\ t[k + 1] = "/"}
  IN SkipTo(l, IF Ends = {} THEN Len(t) + 1 ELSE Min(Ends) + 2)

\* The quoted string whose opening quote was just taken; quoted is the rest of
\* the loop.
Take(l, k, x) == [l EXCEPT !.pos = @ + k, !.str = Append(@, x)]
QuotedFrom(l, quoted) ==
  LET c == Peek(l)
      d == IF l.pos + 1 < Len(l.text) THEN l.text[l.pos + 2] ELSE EOF
  IN CASE c \in {EOF, "\n"} -> Throw(l)
       [] c = QuoteChar(l)  -> Return([l EXCEPT !.pos = @ + 1], "STRING")
       [] c = "\\"          -> IF d \in {QuoteChar(l), "n", "\\"}
                               THEN quoted[Take(l, 2, IF d = "n" THEN "\n" ELSE d)]
                               ELSE Throw(l)
       [] OTHER             -> quoted[Take(l, 1, c)]
QuotedUpTo[n \in Nat] ==
  [l \in LexerObjects |-> IF n = 0 THEN Throw(l) ELSE QuotedFrom(l, QuotedUpTo[n - 1])]
Quoted(l) == QuotedUpTo[Len(l.text) + 1][l]

\* is >> num_value_ from the character just taken, which is put back first:
\* an optional sign, digits and at most one point; it needs a digit.
Whole(t, s, p) ==
  LET whole[n \in 0..p - s] ==
        IF n = 0 THEN 0 ELSE 10 * whole[n - 1] + DigitValue[t[s + n - 1]]
  IN whole[p - s]
Number(l) ==
  LET t == l.text
      s == IF t[l.pos] \in {"+", "-"} THEN l.pos + 1 ELSE l.pos
      p == FirstOutside(t, s, Digit)
      e == IF p <= Len(t) /\ t[p] = "." THEN FirstOutside(t, p + 1, Digit) ELSE p
      tenth == IF e > p + 1 THEN DigitValue[t[p + 1]] ELSE 0
      sign == IF t[l.pos] = "-" THEN -1 ELSE 1
  IN IF p > s \/ e > p + 1
     THEN Return([l EXCEPT !.pos = e - 1, !.num = sign * (10 * Whole(t, s, p) + tenth)], "NUM")
     ELSE Throw(l)

\* The identifier whose first letter was just taken.
Identifier(l) ==
  LET k == FirstOutside(l.text, l.pos + 1, Letter \cup Digit \cup {"_"})
  IN Return([l EXCEPT !.pos = k - 1, !.str = SubSeq(l.text, l.pos, k - 1)], "IDENT")

\* get_token() with hold not set: white space, then a token or a comment
\* and what follows it, which scan finds.
SkipSpace(l) == SkipTo(l, FirstOutside(l.text, l.pos + 1, Space))
LexToken(l, scan) ==
  LET c == Peek(l)
      m == [l EXCEPT !.pos = @ + 1]
  IN CASE c = EOF -> Return(l, "END")
       [] c \in {"#", "%"} ->
            IF l.style.comments = "c" \/ CommentChar(l) # c
            THEN Char(m) ELSE scan[SkipLine(m)]
       [] c = "/" ->
            CASE Peek(m) = EOF -> Return(m, "SLASH")
              [] Peek(m) = "/" -> IF l.style.comments = "hash"
                                  THEN Return(m, "SLASH") ELSE scan[SkipLine(m)]
              [] Peek(m) = "*" -> IF l.style.comments # "c"
                                  THEN Return(m, "ASTERISKS")
                                  ELSE scan[SkipBlock([m EXCEPT !.pos = @ + 1])]
              [] OTHER -> Throw(m)
       [] c \in {"=", "(", ")", "{", "}", "[", "]", ","} -> Char(m)
       [] c \in {"\"", "'"} ->
            IF QuoteChar(l) # c THEN Char(m) ELSE Quoted([m EXCEPT !.str = <<>>])
       [] c \in Digit \cup {".", "+", "-"} -> Number(m)
       [] c \in Letter -> Identifier(m)
       [] OTHER -> Throw(m)
ScanUpTo[n \in Nat] ==
  [l \in LexerObjects |-> IF n = 0 THEN Throw(l) ELSE LexToken(SkipSpace(l), ScanUpTo[n - 1])]
Scan(l) == ScanUpTo[Len(l.text) + 1][l]

-----------------------------------------------------------------------------
GetToken(l) == IF l.hold THEN [l EXCEPT !.hold = FALSE] ELSE Scan(l)
Putback(l) == [l EXCEPT !.hold = TRUE]

\* peek_token(): an exception leaves before the putback().
PutbackUnlessThrown(g) == IF g.err THEN g ELSE Putback(g)
PeekToken(l) == IF l.hold THEN l ELSE PutbackUnlessThrown(GetToken(l))

\* expect() for a token that was read already, for the next one, and for an
\* identifier.
ExpectCurrent(l, t) == IF l.err \/ l.tok = t THEN l ELSE Throw(l)
Expect(l, t) == ExpectCurrent(GetToken(l), t)
ExpectName(g, s) == IF g.err \/ g.str = s THEN g ELSE Throw(g)
ExpectIdent(l, s) == ExpectName(Expect(l, "IDENT"), s)

\* get_double(), get_nonneg() and get_positive().
AtLeast(g, n) == IF g.err \/ g.num >= n THEN g ELSE Throw(g)
GetDouble(l) == Expect(l, "NUM")
GetNonneg(l) == AtLeast(GetDouble(l), 0)
GetPositive(l) == AtLeast(GetDouble(l), 1)
=============================================================================
