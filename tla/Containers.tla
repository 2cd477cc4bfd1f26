----------------------------- MODULE Containers -----------------------------
(***************************************************************************)
(* include/nanonet/container-util.h: capped_vector and the algorithms on   *)
(* ranges.  An iterator is the number of elements before it, the end of a  *)
(* range of n elements is n.                                               *)
(***************************************************************************)
EXTENDS Integers, Sequences, SequencesExt

\* A capped_vector: an array whose first size elements are used; end() is the
\* end of the array.
NewCapped(max, any) == [size |-> 0, v |-> [k \in 0..max - 1 |-> any]]
CappedFull(c) == c.size >= Cardinality(DOMAIN c.v)
CappedEmpty(c) == c.size = 0
PushBack(c, x) == [size |-> c.size + 1, v |-> [c.v EXCEPT ![c.size] = x]]
PopBack(c) == [c EXCEPT !.size = @ - 1]
CappedAt(c, i) == c.v[i]
CappedFront(c) == c.v[0]
CappedEnd(c) == Cardinality(DOMAIN c.v)

\* An rvector has a size from its construction on; its [] asserts the index,
\* at() throws.
RvectorInRange(v, i) == i < Len(v)

-----------------------------------------------------------------------------
\* distance_at_least() for random access iterators and by counting.
DistanceAtLeastRandom(i, j, dist) == j - i >= dist
DistanceAtLeastInput(i, j, dist) == \E d \in 1..j - i : d >= dist

\* safe_advance() for random access and for forward iterators.
\* Mutation: the end is reached one step too late.
SafeAdvanceRandom_Beyond(i, end, d) == IF end - i >= d - 1 THEN i + d ELSE end

SafeAdvanceRandom(i, end, d) == IF end - i > d THEN i + d ELSE end

SafeAdvanceForward(i, end, d) ==
  LET place[j \in 0..d] == IF j = 0 THEN i
                           ELSE IF place[j - 1] = end THEN end ELSE place[j - 1] + 1
  IN place[d]

\* check_strictly_ascending() of s with a stride: whether it returns.
CheckStrictlyAscending(s, stride) ==
  LET returns[i \in 0..Len(s)] ==
        LET j == SafeAdvanceRandom(i, Len(s), stride)
        IN i = Len(s) \/ j = Len(s) \/ (s[i + 1] < s[j + 1] /\ returns[j])
  IN returns[0]

NextIsEnd(i, end) == i # end /\ i + 1 = end

\* all_equal(): the loop stops at the first other element.
AllEqual(s, x) == SelectInSeq(s, LAMBDA y : y # x) = 0

\* erase_if(): it stays in place after an erase, and goes on otherwise.
EraseIf(s, P) ==
  LET Turn(r) == IF r.s[r.i + 1] \in P THEN [r EXCEPT !.s = RemoveAt(@, r.i + 1)]
                 ELSE [r EXCEPT !.i = @ + 1]
      after[k \in 0..Len(s)] == IF k = 0 THEN [s |-> s, i |-> 0] ELSE Turn(after[k - 1])
  IN after[Len(s)].s

\* write_sequence() and flatten().
Closing(open) == CASE open = "{" -> <<"}">> [] open = "[" -> <<"]">>
                   [] open = "(" -> <<")">> [] open = "<" -> <<">">> [] OTHER -> <<>>
WriteSequence(s, open, separator) ==
  (IF open = "" THEN <<>> ELSE <<open>>)
  \o FlattenSeq([k \in DOMAIN s |-> IF k < Len(s) THEN <<s[k], separator>> ELSE <<s[k]>>])
  \o Closing(open)
Flatten(c) == FlattenSeq(c)
=============================================================================
