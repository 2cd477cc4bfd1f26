----------------------------- MODULE MC_Registry -----------------------------
(* An instance of Registry for TLC: every text of up to ShortLength         *)
(* characters, comments and strings of CommentLength characters of their    *)
(* own, and longer texts put together from parts of a configuration.        *)
EXTENDS RegistryText

CONSTANTS ShortLength, CommentLength, LongLength

Characters == {" ", "\n", "#", "%", "/", "*", "=", "{", ",", "\"", "'", "a", "1", "-", "!"}

CommentCharacters == {"/", "*", "\n", "\"", "\\"}

Parts == {<<"a", "=">>, <<"b">>, <<"{">>, <<"}">>, <<",">>, <<"(">>, <<")">>,
          <<" ", "1", "}">>, <<",", "{", "}">>}
Beginnings == {<<"a", "=", "{", "1">>, <<"a", "=", "[", "1">>,
               <<"a", "=", "{", "{", "1", ",", "1", "}">>, <<"b", "=", "t", "\n">>,
               <<"a", "=", "5", ".", "1", "#", "/", "/", "{", "\n">>, <<"a", "=", "b", "(">>}

MCTexts == SeqOf(Characters, ShortLength)
           \cup {<<"a", "/", "*">> \o Append(p, "a") : p \in SeqOf(CommentCharacters, CommentLength)}
           \cup {<<"a", "=", "\"">> \o p : p \in SeqOf(CommentCharacters, CommentLength)}
           \cup {b \o FlattenSeq(p) : b \in Beginnings, p \in SeqOf(Parts, LongLength)}
MCGrammars == {DefaultGrammar, ConfigStyle, MatlabStyle}
=============================================================================
