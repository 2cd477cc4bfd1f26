------------------------------ MODULE Registry ------------------------------
(***************************************************************************)
(* A registry (include/nanonet/registry.h, src/registry.cpp): pairs read   *)
(* from a file or from sections of a stream into the Store.                *)
(*                                                                         *)
(* A client owns a lexer on a text and takes tokens from it before,        *)
(* between and after the calls of read_from() that let the registry read a *)
(* section of it; or it names a file with that text.  read_from() is one   *)
(* step per pair.  An exception ends the use of the lexer; what the        *)
(* registry has stored by then stays.                                      *)
(***************************************************************************)
EXTENDS Parser, Store

CONSTANTS
  Texts,     \* what the stream, or the file, contains
  Grammars,  \* the grammars in use, one for a lexer style
  MaxPairs   \* bound on the pairs added so far for an add_any() by the client

ASSUME TextsAssumption == \A t \in Texts : t \in Seq(Chars)
ASSUME GrammarsAssumption ==
  \A g \in Grammars : /\ g.lexer \in Styles
                       /\ g.parser.list \in {"LP", "LB", "LBRACKET"}
                       /\ g.parser.expr \in {"LP", "LB", "LBRACKET"}
ASSUME MaxPairsAssumption == MaxPairs \in Nat

VARIABLES
  lex,       \* the lexer in use
  filename,  \* last_filename(): the file was read completely
  call,      \* the read_from() in progress
  given      \* the tokens delivered by the lexer and not put back, those of
             \* a pair as one entry (history)

vars == <<lex, kv_map, filename, call, given, pairs>>

Idle == [on |-> FALSE, throws |-> FALSE, file |-> FALSE]
GrammarOf(l) == CHOOSE g \in Grammars : g.lexer = l.style

\* A token with its value and line; line 0 is a line nobody keeps.  To a
\* value a quoted string and an identifier are the same.
Token(tok, num, str, line) == [tok |-> tok, num |-> num, str |-> str, line |-> line]
Plain(t) == Token(t, 0, <<>>, 0)
TokenOf(l) == CASE l.tok = "NUM" -> Token("NUM", l.num, <<>>, l.line)
                [] l.tok \in {"STRING", "IDENT"} -> Token("IDENT", 0, l.str, l.line)
                [] OTHER -> Token(l.tok, 0, <<>>, l.line)

PairRead(p) == [tok |-> "PAIR", key |-> p.key, val |-> p.val, line |-> p.line]

Init == /\ \E t \in Texts, g \in Grammars : lex = NewLexer(t, g.lexer)
        /\ StoreInit /\ filename = FALSE /\ call = Idle
        /\ given = <<>>

-----------------------------------------------------------------------------
\* The client has the lexer and has not seen its end.
ClientTurn == /\ ~call.on /\ ~lex.err
              /\ given # <<>> => Last(given).tok # "END"
Untouched == UNCHANGED <<kv_map, filename, call, pairs>>

Taken(l) == /\ lex' = l
            /\ given' = IF l.err THEN given ELSE Append(given, TokenOf(l))
            /\ Untouched

ClientGets == ClientTurn /\ \E l \in {GetToken(lex)} : Taken(l)

\* get_double(), get_nonneg() or get_positive(); read_numbers() repeats the
\* first one.
ClientGetsNumber ==
  /\ ClientTurn
  /\ \E l \in {GetDouble(lex), GetNonneg(lex), GetPositive(lex)} : Taken(l)

\* A client that has looked at the next token expects it.
ClientExpects ==
  /\ ClientTurn /\ lex.hold
  /\ \E l \in {Expect(lex, lex.tok)}
              \cup (IF lex.tok = "IDENT" THEN {ExpectIdent(lex, lex.str)} ELSE {}) : Taken(l)

ClientPeeks == ClientTurn /\ lex' = PeekToken(lex) /\ UNCHANGED given /\ Untouched

\* putback() of the token taken last, if the lexer did not end with a file.
ClientPutsBack ==
  /\ ~call.on /\ ~lex.err /\ ~lex.hold /\ given # <<>> /\ ~filename
  /\ lex' = Putback(lex) /\ given' = Front(given) /\ Untouched

\* read_from() of a section: with the lexer's own style, as in the
\* constructor of a registry from a stream.
ReadFrom(throws) ==
  /\ ClientTurn
  /\ call' = [on |-> TRUE, throws |-> throws, file |-> FALSE]
  /\ UNCHANGED <<lex, kv_map, filename, given, pairs>>

\* read_from() of a file: a new lexer, set to the style of the grammar, if
\* the file can be opened.
ReadFile(throws) ==
  /\ ClientTurn /\ given = <<>>
  /\ \/ /\ lex' = [NewLexer(lex.text, DefaultLexerStyle) EXCEPT !.style = lex.style]
        /\ call' = [on |-> TRUE, throws |-> throws, file |-> TRUE]
     \/ lex' = Throw(lex) /\ UNCHANGED call
  /\ UNCHANGED <<kv_map, filename, given, pairs>>

\* One turn of the loop of read_from(): a pair is parsed and added.
ReadPair ==
  /\ call.on
  /\ \E p \in {ParsePair(lex, GrammarOf(lex).parser)} :
       LET bad == p.lex.err \/ Redefined(p.key, call.throws)
       IN /\ p.more
          /\ lex' = IF bad THEN Throw(p.lex) ELSE p.lex
          /\ call' = IF bad THEN Idle ELSE call
          /\ given' = IF p.lex.err THEN given ELSE Append(given, PairRead(p))
          /\ IF p.lex.err THEN UNCHANGED <<kv_map, pairs>>
                          ELSE Added(p.key, p.val, p.line, call.throws)
          /\ UNCHANGED filename

\* No key follows: the token is put back, and a file must end here.
Ended(p) == IF p.lex.err THEN p.lex
            ELSE IF call.file THEN Expect(Putback(p.lex), "END") ELSE Putback(p.lex)
ReadEnds ==
  /\ call.on
  /\ \E p \in {ParsePair(lex, GrammarOf(lex).parser)} : ~p.more /\ lex' = Ended(p)
  /\ filename' = (filename \/ (call.file /\ ~lex'.err))
  /\ given' = IF call.file /\ ~lex'.err THEN Append(given, TokenOf(lex')) ELSE given
  /\ call' = Idle
  /\ UNCHANGED <<kv_map, pairs>>

\* add_any() by the client, before it reads (a bound, like MaxPairs), and
\* clear().
ClientAdds(throws) ==
  /\ ~call.on /\ lex.pos = 0 /\ Len(pairs) < MaxPairs
  /\ Added(<<"a">>, NumValue(-10), 0, throws)
  /\ UNCHANGED <<lex, filename, call, given>>
Clear == /\ ~call.on /\ kv_map # << >>
         /\ Cleared
         /\ UNCHANGED <<lex, filename, call, given>>

Next == \/ ClientGets \/ ClientGetsNumber \/ ClientExpects \/ ClientPeeks \/ ClientPutsBack
        \/ \E throws \in BOOLEAN : ReadFrom(throws) \/ ReadFile(throws) \/ ClientAdds(throws)
        \/ ReadPair \/ ReadEnds \/ Clear

Spec == Init /\ [][Next]_vars

-----------------------------------------------------------------------------
\* The line number in messages and in defined_at() is the line of the text
\* the lexer has reached: comments of all kinds, strings and tokens that were
\* put back count every line once.
LinesRight == ~lex.err => lex.line = 1 + Newlines(lex.text, 1, lex.pos)
=============================================================================
