---------------------------- MODULE MC_Algorithms ----------------------------
(* An instance of Algorithms for TLC. *)
EXTENDS Algorithms

MCCharacters == {"a", "A", "u", " ", "\n", ",", ":"}
MCUrlSymbols == {"http://", "a", ":", "/"}
\* In half seconds: about half a minute, an hour and two hours.
MCTimes == {0, 1, 5, 59, 61, 7139, 7140, 7194, 7195, 7199, 7200, 14399}
\* Around the length of the buffer.
MCMessages == {<<>>, <<"a">>, <<"a", "u">>, <<"a", "u", "A">>, <<"a", " ", " ", "u", "A">>}
=============================================================================
