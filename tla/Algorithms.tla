----------------------------- MODULE Algorithms -----------------------------
(***************************************************************************)
(* The sequential algorithms of the library, each on inputs that grow step *)
(* by step: a text that is typed (Text, Http), a capped_vector that is     *)
(* pushed and popped (Containers), items that are written one after the    *)
(* other (Xdr), a rate_estimator that is updated (Numbers), a syslogger    *)
(* that is set up and written to (Syslogger).  unit says which of them a   *)
(* behaviour is about.                                                     *)
(***************************************************************************)
EXTENDS Http, Xdr, Containers, Numbers, Syslogger

CONSTANTS
  Characters,  \* of a text
  UrlSymbols,  \* of a URL
  MaxText,     \* bound on the length of a text and a URL
  Capacity,    \* of the capped_vector
  Elements,    \* its elements, some integers
  MaxItems,    \* bound on the items written
  Times,       \* times, in units
  Messages,    \* texts to be logged
  MaxEvents    \* bound on what is done to a logger

\* The characters that the functions on texts tell apart; the elements of a
\* vector are compared.
ASSUME CharactersAssumption ==
  Characters \subseteq {"a", "A", "u", "U", "1", ",", ":", " ", "\t", "\r", "\n"}
ASSUME VectorAssumption == Capacity \in Nat /\ Elements \subseteq Int

VARIABLES
  unit,   \* the algorithms in use
  text,   \* the text or URL
  cv,     \* the capped_vector
  stack   \* what was pushed and not popped (history)

xdrVars == <<items, out, taken, got>>
logVars == <<log, events>>
vars == <<unit, text, cv, stack, xdrVars, rate, times, logVars>>

Init == /\ unit \in {"text", "url", "vector", "xdr", "rate", "log"}
        /\ text = <<>>
        /\ cv = NewCapped(Capacity, 0) /\ stack = <<>>
        /\ XdrInit
        /\ RateInit
        /\ LogInit({1}) /\ (log.echo => unit = "log")

Type == /\ unit \in {"text", "url"} /\ Len(text) < MaxText
        /\ \E c \in IF unit = "url" THEN UrlSymbols ELSE Characters :
             text' = Append(text, c)
        /\ UNCHANGED <<unit, cv, stack, xdrVars, rate, times, logVars>>

Push == /\ unit = "vector" /\ ~CappedFull(cv)
        /\ \E x \in Elements : cv' = PushBack(cv, x) /\ stack' = Append(stack, x)
        /\ UNCHANGED <<unit, text, xdrVars, rate, times, logVars>>
Pop == /\ unit = "vector" /\ ~CappedEmpty(cv)
       /\ cv' = PopBack(cv) /\ stack' = Front(stack)
       /\ UNCHANGED <<unit, text, xdrVars, rate, times, logVars>>

\* The integers next to the ends of their type and to a carry.
Interesting(signed, size) ==
  {v \in UNION {x - 1..x + 1 : x \in {SmallestInteger(signed, size), 0, ByteBase,
                                      LargestInteger(signed, size)}} :
     v >= SmallestInteger(signed, size) /\ v <= LargestInteger(signed, size)}
Write == /\ unit = "xdr" /\ Len(items) < MaxItems
         /\ \/ \E signed \in BOOLEAN, size \in Sizes : \E v \in Interesting(signed, size) :
                 Written(IntegerItem(signed, size, v))
            \/ Written(RawItem(<<1, 0, 1, 0>>))
            \/ \E n \in 0..5 : Written(StringItem([k \in 1..n |-> 1]))
         /\ UNCHANGED <<unit, text, cv, stack, rate, times, logVars>>
Read == /\ unit = "xdr" /\ ReadNext
        /\ UNCHANGED <<unit, text, cv, stack, rate, times, logVars>>

Update == /\ unit = "rate" /\ Len(times) < MaxItems + 1
          /\ RateNext(Times)
          /\ UNCHANGED <<unit, text, cv, stack, xdrVars, logVars>>

Log == /\ unit = "log" /\ Len(events) < MaxEvents
       /\ LogNext(Messages, {<<<<"a">>, <<"u">>>>}, {Err, 7}, {-1, 0})
       /\ UNCHANGED <<unit, text, cv, stack, xdrVars, rate, times>>

Next == Type \/ Push \/ Pop \/ Write \/ Read \/ Update \/ Log
Spec == Init /\ [][Next]_vars

-----------------------------------------------------------------------------
\* The lines a loop over getline() sees, for any limit: every line is cut
\* into pieces of maxsize characters and a shorter, maybe empty last one; of
\* a last line that does not end only the full pieces are seen.
Pieces(line, maxsize, ended) ==
  [k \in 1..Len(line) \div maxsize + (IF ended THEN 1 ELSE 0) |->
     SubSeq(line, (k - 1) * maxsize + 1, Min({k * maxsize, Len(line)}))]
LinesCut ==
  unit = "text" =>
    \A maxsize \in 1..3 :
      LET lines == SplitAny(text, {"\n"})
      IN LinesFrom(text, 0, maxsize) =
           FlattenSeq([k \in DOMAIN lines |-> Pieces(lines[k], maxsize, k < Len(lines))])

\* The two implementations of split() agree; a pair and a header line are
\* cut at their separator and nothing but blanks is lost; chop() removes white
\* space only; both ways to a canonical form lead to the same one.
PartsRight ==
  unit = "text" =>
    LET hh == SplitColonBlank(text)
        first == hh[1][1]
        second == hh[1][2]
        kept == Chop(text)
        extra == {",", ":"}
        upper == Utf8Canonical(text, extra, 1)
    IN /\ Split(text, ",") = SplitAny(text, {","})
       /\ SplitPair(text, {","}) # Thrown
            <=> Cardinality({k \in DOMAIN text : text[k] = ","}) = 1
       /\ hh = Thrown <=> ~Contains(text, ":")
       /\ hh # Thrown =>
            /\ ~Contains(first, ":") /\ IsPrefix(first \o <<":">>, text)
            /\ IsSuffix(second, text) /\ (second # <<>> => second[1] \notin {" ", "\t"})
            /\ \A k \in Len(first) + 2..Len(text) - Len(second) : text[k] \in {" ", "\t"}
       /\ IsPrefix(kept, text) /\ (kept # <<>> => Last(kept) \notin Blanks)
       /\ Blank(From(text, Len(kept) + 1))
       /\ Canonical(text, extra) = Kept(upper, {"A", "1"} \cup extra)
       /\ Utf8Canonical(upper, extra, -1) = Utf8Canonical(text, extra, -1)
       /\ Utf8Canonical(text, extra, 0) = Kept(text, Characters \ Blanks)

\* A URL is accepted if it can be read as http://host[:port]path in some way,
\* and then it is read in that way.  A client gets the body that follows the
\* headers a server writes, whatever its first lines look like.  A server reads
\* a request with plain line ends up to its empty line; the same request as
\* wget1() sends it, with "\r", throws whatever follows: its last line is not
\* empty (trim() keeps the "\r") and has no colon.
UrlRight ==
  unit = "url" =>
    LET Host(s) == s # <<>> /\ ~Contains(s, ":") /\ ~Contains(s, "/")
        Port(s) == s # <<>> /\ ~Contains(s, "/")
        Path(s) == s # <<>> /\ s[1] = "/"
        Readings ==
          {u \in {[host |-> SubSeq(text, 2, i), port |-> <<"80">>,
                   path |-> From(text, i + 1)] : i \in DOMAIN text}
               : Host(u.host) /\ Path(u.path)}
          \cup
          {u \in {[host |-> SubSeq(text, 2, p[1] - 1), port |-> SubSeq(text, p[1] + 1, p[2]),
                   path |-> From(text, p[2] + 1)] :
                    p \in {k \in DOMAIN text : text[k] = ":"} \X DOMAIN text}
               : Host(u.host) /\ Port(u.port) /\ Path(u.path)}
        http == text # <<>> /\ text[1] = "http://"
    IN {ParseUrl(text)} = IF http /\ Readings # {} THEN {<<u>> : u \in Readings}
                          ELSE {Thrown}

BodyRight ==
  unit = "text" =>
    LET lines == SplitAny(text, {"\n"})
        request == RequestLines([host |-> <<"a">>, port |-> <<"80">>, path |-> <<"/">>])
        plain == [k \in DOMAIN request |-> Front(request[k])]
    IN /\ WgetBody(Header200(<<"text">>) \o lines) = lines
       /\ WgetBody(Header404(<<"a">>) \o lines) = lines
       /\ ParseGetRequest(plain \o lines) =
            <<[version |-> <<"1.0">>, host |-> <<"a", ":", "80">>, abs_path |-> <<"/">>,
               user_agent |-> <<"KISS">>, accept |-> <<>>]>>
       /\ ParseGetRequest(request \o lines) = Thrown

HttpRight == UrlRight /\ BodyRight

\* A capped_vector is a stack of at most Capacity elements, and the algorithms
\* on ranges do the same for all kinds of iterators, at their ends and with
\* strides longer than the range.
ContainersRight ==
  unit = "vector" =>
    LET n == Len(stack)
    IN /\ cv.size = n /\ n <= Capacity
       /\ \A k \in 1..n : RvectorInRange(stack, k - 1) /\ CappedAt(cv, k - 1) = stack[k]
       /\ n > 0 => CappedFront(cv) = stack[1]
       /\ \A i \in 0..n, d \in 1..n + 1 :
            /\ SafeAdvanceRandom(i, n, d) = SafeAdvanceForward(i, n, d)
            /\ DistanceAtLeastRandom(i, n, d) <=> DistanceAtLeastInput(i, n, d)
            /\ NextIsEnd(i, n) <=> i # n /\ SafeAdvanceForward(i, n, 1) = n
            /\ CheckStrictlyAscending(stack, d) <=>
                 \A k \in {j \in 1..n - d : j % d = 1 % d} : stack[k] < stack[k + d]
       /\ \A P \in SUBSET Elements :
            EraseIf(stack, P) = Kept(stack, Elements \ P)
       /\ \A x \in Elements : AllEqual(stack, x) <=> EraseIf(stack, {x}) = <<>>
       /\ LET w == WriteSequence([k \in 1..n |-> "a"], "{", ",")
          IN n > 0 => Len(SplitAny(w, {","})) = n
       /\ Flatten([k \in 1..n |-> <<stack[k]>>]) = stack
==============================================================================
