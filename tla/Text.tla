-------------------------------- MODULE Text --------------------------------
(***************************************************************************)
(* The text functions of include/nanonet/util.h and src/util.cpp.  A text  *)
(* is a sequence of characters; "a" and "A" stand for the ASCII letters,   *)
(* "u" and "U" for letters outside ASCII, "1" for the digits.  An          *)
(* exception is the result Thrown, any other result is in a sequence.      *)
(***************************************************************************)
EXTENDS Integers, Sequences, SequencesExt

Thrown == <<>>

\* The place of the first character from k on that P holds for, or one past
\* the end.
FirstFrom(t, k, P(_)) == LET f == SelectInSubSeq(t, k, Len(t), P)
                         IN IF f = 0 THEN Len(t) + 1 ELSE f
From(t, k) == SubSeq(t, k, Len(t))

\* The characters of s that are in S.
Kept(s, S) == FlattenSeq([k \in DOMAIN s |-> IF s[k] \in S THEN <<s[k]>> ELSE <<>>])

-----------------------------------------------------------------------------
\* getline() with at most maxsize characters, from a stream of which pos
\* characters were taken; ok is the state of the stream after it.
\* Mutation: only the end of a line ends it.
Getline_Unlimited(t, pos, maxsize) ==
  LET stop == FirstFrom(t, pos + 1, LAMBDA c : c = "\n")
  IN [s |-> SubSeq(t, pos + 1, stop - 1), pos |-> stop, ok |-> stop <= Len(t)]

Getline(t, pos, maxsize) ==
  LET stop == FirstFrom(t, pos + 1, LAMBDA c : c = "\n")
  IN IF stop > pos + maxsize
     THEN [s |-> SubSeq(t, pos + 1, pos + maxsize), pos |-> pos + maxsize, ok |-> TRUE]
     ELSE [s |-> SubSeq(t, pos + 1, stop - 1), pos |-> stop, ok |-> stop <= Len(t)]

\* The lines seen by while( getline( ... ) ).
LinesFrom(t, pos, maxsize) ==
  LET lines[p \in 0..Len(t) + 1] == LET g == Getline(t, p, maxsize)
                                    IN IF g.ok THEN <<g.s>> \o lines[g.pos] ELSE <<>>
  IN lines[pos]

\* trim() returns its argument; chop() removes the white space at the end.
Trim(s) == s
Chop(s) ==
  SubSeq(s, 1, SelectLastInSeq(s, LAMBDA c : c \notin {" ", "\t", "\n", "\r"}))

\* splitter::get_next() until it is exhausted, from place k on: split().
\* Mutation: an empty rest is not returned.
SplitFrom_NoLast(t, k, sep) ==
  LET parts[j \in 1..Len(t) + 2] ==
        LET e == FirstFrom(t, j, LAMBDA c : c = sep)
        IN IF j > Len(t) THEN <<>> ELSE <<SubSeq(t, j, e - 1)>> \o parts[e + 1]
  IN parts[k]

SplitFrom(t, k, sep) ==
  LET parts[j \in 1..Len(t) + 1] ==
        LET e == FirstFrom(t, j, LAMBDA c : c = sep)
        IN <<SubSeq(t, j, e - 1)>> \o (IF e > Len(t) THEN <<>> ELSE parts[e + 1])
  IN parts[k]
Split(t, sep) == SplitFrom(t, 1, sep)

\* boost::algorithm::split() on any of the separators.
Nth(S, i) == CHOOSE k \in S : Cardinality({j \in S : j < k}) = i - 1
SplitAny(t, seps) ==
  LET cuts == {0, Len(t) + 1} \cup {k \in DOMAIN t : t[k] \in seps}
  IN [i \in 1..Cardinality(cuts) - 1 |->
        SubSeq(t, Nth(cuts, i) + 1, Nth(cuts, i + 1) - 1)]

SplitPair(t, seps) == LET v == SplitAny(t, seps)
                      IN IF Len(v) = 2 THEN <<v>> ELSE Thrown

\* split_colon_blank(): up to the first colon, and what follows it without
\* the blanks before.
SplitColonBlank(t) ==
  LET colon == FirstFrom(t, 1, LAMBDA c : c = ":")
      second == FirstFrom(t, colon + 1, LAMBDA c : c \notin {" ", "\t"})
  IN IF colon > Len(t) THEN Thrown
     ELSE << <<SubSeq(t, 1, colon - 1), From(t, second)>> >>

\* canonical() and utf8_canonical(): what is no letter, digit or extra
\* character is removed; the case is that of convert (1 upper, -1 lower).
ToUpper(c) == CASE c = "a" -> "A" [] OTHER -> c
WideUpper(c) == CASE c = "a" -> "A" [] c = "u" -> "U" [] OTHER -> c
WideLower(c) == CASE c = "A" -> "a" [] c = "U" -> "u" [] OTHER -> c
Canonical(s, extra) ==
  Kept([k \in DOMAIN s |-> ToUpper(s[k])], {"a", "A", "1"} \cup extra)
Utf8Canonical(s, extra, convert) ==
  LET kept == Kept(s, {"a", "A", "u", "U", "1"} \cup extra)
  IN [k \in DOMAIN kept |-> CASE convert = 1  -> WideUpper(kept[k])
                              [] convert = -1 -> WideLower(kept[k])
                              [] convert = 0  -> kept[k]]
=============================================================================
