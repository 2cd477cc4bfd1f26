--------------------------- MODULE RegistryProofs ---------------------------
(***************************************************************************)
(* Proofs about Registry and RegistryText, for all texts over the          *)
(* characters of Lexer and all grammars.  First the Store, whoever adds the*)
(* pairs, for all keys and values.  Then the lexer and the parser: every   *)
(* operator leaves a lexer that is Later in its text, and knows its line,  *)
(* or an exception; what is parsed is a value; so a step of the registry is*)
(* one of the Store.  Last the tokens: what lies between the lexer that an *)
(* operator takes and the one it leaves is what its result is written with,*)
(* and so the history of deliveries accounts for the text; that the bounds *)
(* the model sets to loops and recursion are never met; and that comments  *)
(* are white space, by the twin of a lexer whose text has them blank.      *)
(***************************************************************************)
EXTENDS RegistryText, SequenceTheorems, FiniteSetTheorems, WellFoundedInduction, TLAPS

-----------------------------------------------------------------------------
(* What is stored *)

PairsOf(K, V) == [key : K, val : V, line : Nat, throws : BOOLEAN]

\* Pair i of a history s was stored when it came: it redefined nothing it may not redefine.
Accepted(s, i) == s[i].throws => \A j \in 1..i - 1 : s[j].key # s[i].key

\* No accepted definition of the same key came after pair i.
Latest(s, i) == \A j \in i + 1..Len(s) : Accepted(s, j) => s[j].key # s[i].key

KeysKnown == \A k : k \in DOMAIN kv_map <=> \E i \in 1..Len(pairs) : pairs[i].key = k

LastWins ==
  \A i \in 1..Len(pairs) :
    Accepted(pairs, i) /\ Latest(pairs, i)
      => kv_map[pairs[i].key] = [val |-> pairs[i].val, line |-> pairs[i].line]

StoredValues(V) == \A k \in DOMAIN kv_map : kv_map[k].val \in V

\* StoreRight, by its parts.
LEMMA StoreParts ==
  ASSUME NEW K, NEW V, pairs \in Seq(PairsOf(K, V))
  PROVE  StoreRight <=> KeysKnown /\ LastWins
<1>1. DOMAIN pairs = 1..Len(pairs)
  OBVIOUS
<1>2. KeysKnown <=> DOMAIN kv_map = {p.key : p \in Range(pairs)}
  BY <1>1 DEF KeysKnown, Range
<1>3. QED
  BY <1>1, <1>2 DEF StoreRight, LastWins, Accepted, Latest

\* The history after add_any() of p.
LEMMA PairsGrow ==
  ASSUME NEW K, NEW V, pairs \in Seq(PairsOf(K, V)), NEW p \in PairsOf(K, V),
         pairs' = Append(pairs, p)
  PROVE  /\ pairs' \in Seq(PairsOf(K, V))
         /\ Len(pairs) \in Nat /\ Len(pairs') = Len(pairs) + 1
         /\ pairs'[Len(pairs) + 1] = p
         /\ \A i \in 1..Len(pairs) : pairs'[i] = pairs[i]
OBVIOUS

\* add_any() keeps what was accepted before, and refuses exactly a pair that
\* must not redefine its key but would.
LEMMA AcceptedGrows ==
  ASSUME NEW K, NEW V, pairs \in Seq(PairsOf(K, V)), NEW p \in PairsOf(K, V),
         pairs' = Append(pairs, p), KeysKnown
  PROVE  /\ \A i \in 1..Len(pairs) : Accepted(pairs', i) <=> Accepted(pairs, i)
         /\ Accepted(pairs', Len(pairs) + 1) <=> ~Redefined(p.key, p.throws)
<1> DEFINE n == Len(pairs)
<1>1. /\ n \in Nat /\ pairs'[n + 1] = p
      /\ \A i \in 1..n : pairs'[i] = pairs[i]
  BY PairsGrow
<1>2. ASSUME NEW i \in 1..n PROVE Accepted(pairs', i) <=> Accepted(pairs, i)
  <2>1. /\ pairs'[i] = pairs[i]
        /\ \A j \in 1..i - 1 : j \in 1..n /\ pairs'[j] = pairs[j]
    BY <1>1
  <2>2. QED
    BY <2>1 DEF Accepted
<1>3. Accepted(pairs', n + 1) <=> ~Redefined(p.key, p.throws)
  <2>1. \A j \in 1..(n + 1) - 1 : j \in 1..n /\ pairs'[j] = pairs[j]
    BY <1>1
  <2>2. \A j \in 1..n : j \in 1..(n + 1) - 1
    BY <1>1
  <2>3. Accepted(pairs', n + 1) <=> (p.throws => \A j \in 1..n : pairs[j].key # p.key)
    BY <1>1, <2>1, <2>2 DEF Accepted
  <2>4. p.key \in DOMAIN kv_map <=> \E j \in 1..n : pairs[j].key = p.key
    BY DEF KeysKnown
  <2>5. QED
    BY <2>3, <2>4 DEF Redefined
<1>4. QED
  BY <1>2, <1>3

\* A refused pair changes nothing, in the store or in what is expected of it.
LEMMA RefusedPair ==
  ASSUME NEW K, NEW V, pairs \in Seq(PairsOf(K, V)), NEW p \in PairsOf(K, V),
         pairs' = Append(pairs, p), Redefined(p.key, p.throws), kv_map' = kv_map,
         KeysKnown, LastWins
  PROVE  KeysKnown' /\ LastWins'
<1> DEFINE n == Len(pairs)
<1>1. /\ n \in Nat /\ Len(pairs') = n + 1 /\ pairs'[n + 1] = p
      /\ \A i \in 1..n : pairs'[i] = pairs[i]
  BY PairsGrow
<1>2. p.key \in DOMAIN kv_map
  BY DEF Redefined
<1>3. KeysKnown'
  <2> SUFFICES ASSUME NEW k
               PROVE  k \in DOMAIN kv_map' <=> \E i \in 1..Len(pairs') : pairs'[i].key = k
    BY DEF KeysKnown
  <2>1. (\E i \in 1..n : pairs[i].key = k) => \E i \in 1..n + 1 : pairs'[i].key = k
    BY <1>1
  <2>2. ASSUME NEW i \in 1..n + 1, pairs'[i].key = k PROVE k \in DOMAIN kv_map
    <3>1. CASE i = n + 1
      BY <1>1, <1>2, <2>2, <3>1
    <3>2. CASE i # n + 1
      <4>1. i \in 1..n /\ pairs[i].key = k
        BY <1>1, <2>2, <3>2
      <4>2. QED
        BY <4>1 DEF KeysKnown
    <3>3. QED
      BY <3>1, <3>2
  <2>3. QED
    BY <1>1, <2>1, <2>2 DEF KeysKnown
<1>4. LastWins'
  <2> SUFFICES ASSUME NEW i \in 1..Len(pairs'), Accepted(pairs', i), Latest(pairs', i)
               PROVE  kv_map'[pairs'[i].key] = [val |-> pairs'[i].val, line |-> pairs'[i].line]
    BY DEF LastWins
  <2>1. i # n + 1
    BY AcceptedGrows
  <2>2. i \in 1..n /\ pairs'[i] = pairs[i] /\ Accepted(pairs, i)
    BY <1>1, <2>1, AcceptedGrows
  <2>3. Latest(pairs, i)
    <3> SUFFICES ASSUME NEW j \in i + 1..n, Accepted(pairs, j) PROVE pairs[j].key # pairs[i].key
      BY DEF Latest
    <3>1. j \in 1..n /\ j \in i + 1..Len(pairs') /\ pairs'[j] = pairs[j]
      BY <1>1, <2>2
    <3>2. Accepted(pairs', j)
      BY <3>1, AcceptedGrows
    <3>3. QED
      BY <2>2, <3>1, <3>2 DEF Latest
  <2>4. QED
    BY <2>2, <2>3 DEF LastWins
<1>5. QED
  BY <1>3, <1>4

\* An accepted pair replaces the value of its key and of no other.
LEMMA AcceptedPair ==
  ASSUME NEW K, NEW V, pairs \in Seq(PairsOf(K, V)), NEW p \in PairsOf(K, V),
         pairs' = Append(pairs, p), ~Redefined(p.key, p.throws),
         kv_map' = [k \in DOMAIN kv_map \cup {p.key} |->
                      IF k = p.key THEN [val |-> p.val, line |-> p.line] ELSE kv_map[k]],
         KeysKnown, LastWins
  PROVE  KeysKnown' /\ LastWins'
<1> DEFINE n == Len(pairs)
<1>1. /\ n \in Nat /\ Len(pairs') = n + 1 /\ pairs'[n + 1] = p
      /\ \A i \in 1..n : pairs'[i] = pairs[i]
  BY PairsGrow
<1>2. /\ DOMAIN kv_map' = DOMAIN kv_map \cup {p.key}
      /\ kv_map'[p.key] = [val |-> p.val, line |-> p.line]
      /\ \A k \in DOMAIN kv_map : k # p.key => kv_map'[k] = kv_map[k]
  OBVIOUS
<1>3. KeysKnown'
  <2> SUFFICES ASSUME NEW k
               PROVE  k \in DOMAIN kv_map' <=> \E i \in 1..Len(pairs') : pairs'[i].key = k
    BY DEF KeysKnown
  <2>1. (\E i \in 1..n : pairs[i].key = k) => \E i \in 1..n + 1 : pairs'[i].key = k
    BY <1>1
  <2>2. ASSUME k = p.key PROVE \E i \in 1..n + 1 : pairs'[i].key = k
    <3>1. n + 1 \in 1..n + 1
      BY <1>1
    <3>2. QED
      BY <1>1, <2>2, <3>1
  <2>3. ASSUME NEW i \in 1..n + 1, pairs'[i].key = k PROVE k \in DOMAIN kv_map'
    <3>1. CASE i = n + 1
      BY <1>1, <1>2, <2>3, <3>1
    <3>2. CASE i # n + 1
      <4>1. i \in 1..n /\ pairs[i].key = k
        BY <1>1, <2>3, <3>2
      <4>2. QED
        BY <1>2, <4>1 DEF KeysKnown
    <3>3. QED
      BY <3>1, <3>2
  <2>4. k \in DOMAIN kv_map => \E i \in 1..n : pairs[i].key = k
    BY DEF KeysKnown
  <2>5. QED
    BY <1>1, <1>2, <2>1, <2>2, <2>3, <2>4
<1>4. LastWins'
  <2> SUFFICES ASSUME NEW i \in 1..Len(pairs'), Accepted(pairs', i), Latest(pairs', i)
               PROVE  kv_map'[pairs'[i].key] = [val |-> pairs'[i].val, line |-> pairs'[i].line]
    BY DEF LastWins
  <2>1. CASE i = n + 1
    BY <1>1, <1>2, <2>1
  <2>2. CASE i # n + 1
    <3>1. i \in 1..n /\ pairs'[i] = pairs[i] /\ Accepted(pairs, i)
      BY <1>1, <2>2, AcceptedGrows
    <3>2. pairs[i].key # p.key
      <4>1. n + 1 \in i + 1..Len(pairs') /\ Accepted(pairs', n + 1)
        BY <1>1, <3>1, AcceptedGrows
      <4>2. QED
        BY <1>1, <3>1, <4>1 DEF Latest
    <3>3. Latest(pairs, i)
      <4> SUFFICES ASSUME NEW j \in i + 1..n, Accepted(pairs, j) PROVE pairs[j].key # pairs[i].key
        BY DEF Latest
      <4>1. j \in 1..n /\ j \in i + 1..Len(pairs') /\ pairs'[j] = pairs[j]
        BY <1>1, <3>1
      <4>2. Accepted(pairs', j)
        BY <4>1, AcceptedGrows
      <4>3. QED
        BY <3>1, <4>1, <4>2 DEF Latest
    <3>4. pairs[i].key \in DOMAIN kv_map
      BY <3>1 DEF KeysKnown
    <3>5. QED
      BY <1>2, <3>1, <3>2, <3>3, <3>4 DEF LastWins
  <2>3. QED
    BY <2>1, <2>2
<1>5. QED
  BY <1>3, <1>4

\* The history and the values in the store, with StoreRight by its parts.
StoreInv(K, V) == /\ pairs \in Seq(PairsOf(K, V))
                  /\ KeysKnown /\ LastWins /\ StoredValues(V)

\* Nothing is stored at first, and after clear().
LEMMA EmptyStore ==
  ASSUME NEW K, NEW V, StoreInit
  PROVE  StoreInv(K, V)
<1>1. pairs = <<>> /\ Len(pairs) = 0 /\ DOMAIN kv_map = {}
  BY DEF StoreInit
<1>2. QED
  BY <1>1 DEF StoreInv, KeysKnown, LastWins, StoredValues

\* add_any() and clear() preserve it.
LEMMA StoreStep ==
  ASSUME NEW K, NEW V, StoreInv(K, V), [StoreNext(K, V)]_<<kv_map, pairs>>
  PROVE  StoreInv(K, V)'
<1>1. CASE Cleared
  <2>1. pairs' = <<>> /\ Len(pairs') = 0 /\ DOMAIN kv_map' = {}
    BY <1>1 DEF Cleared
  <2>2. QED
    BY <2>1 DEF StoreInv, KeysKnown, LastWins, StoredValues
<1>2. ASSUME NEW key \in K, NEW val \in V, NEW line \in Nat, NEW throws \in BOOLEAN,
             Added(key, val, line, throws)
      PROVE  StoreInv(K, V)'
  <2> DEFINE p == [key |-> key, val |-> val, line |-> line, throws |-> throws]
  <2>1. p \in PairsOf(K, V) /\ p.val \in V
    BY DEF PairsOf
  <2>2. kv_map' = Stored(p) /\ pairs' = Append(pairs, p)
    BY <1>2 DEF Added
  <2> HIDE DEF p
  <2>3. pairs \in Seq(PairsOf(K, V)) /\ KeysKnown /\ LastWins /\ StoredValues(V)
    BY DEF StoreInv
  <2>4. pairs' \in Seq(PairsOf(K, V))
    BY <2>1, <2>2, <2>3
  <2>5. CASE Redefined(p.key, p.throws)
    <3>1. kv_map' = kv_map
      BY <2>2, <2>5 DEF Stored
    <3>2. KeysKnown' /\ LastWins'
      BY <2>1, <2>2, <2>3, <2>5, <3>1, RefusedPair
    <3>3. StoredValues(V)'
      BY <2>3, <3>1 DEF StoredValues
    <3>4. QED
      BY <2>4, <3>2, <3>3 DEF StoreInv
  <2>6. CASE ~Redefined(p.key, p.throws)
    <3>1. kv_map' = [k \in DOMAIN kv_map \cup {p.key} |->
                       IF k = p.key THEN [val |-> p.val, line |-> p.line] ELSE kv_map[k]]
      BY <2>2, <2>6 DEF Stored
    <3>2. KeysKnown' /\ LastWins'
      BY <2>1, <2>2, <2>3, <2>6, <3>1, AcceptedPair
    <3>3. StoredValues(V)'
      BY <2>1, <2>3, <3>1 DEF StoredValues
    <3>4. QED
      BY <2>4, <3>2, <3>3 DEF StoreInv
  <2>7. QED
    BY <2>5, <2>6
<1>3. CASE UNCHANGED <<kv_map, pairs>>
  BY <1>3 DEF StoreInv, KeysKnown, LastWins, StoredValues
<1>4. QED
  BY <1>1, <1>2, <1>3 DEF StoreNext

\* However definitions that may and that may not redefine a key are mixed, and
\* wherever a read ends, a key has the value and the line of its last accepted
\* definition; for all keys and values.
THEOREM StoreIsRight ==
  ASSUME NEW K, NEW V
  PROVE  StoreSpec(K, V) => []StoreRight
<1>1. StoreInit => StoreInv(K, V)
  BY EmptyStore
<1>2. StoreInv(K, V) /\ [StoreNext(K, V)]_<<kv_map, pairs>> => StoreInv(K, V)'
  BY StoreStep
<1>3. StoreInv(K, V) => StoreRight
  BY StoreParts DEF StoreInv
<1>4. QED
  BY <1>1, <1>2, <1>3, PTL DEF StoreSpec

-----------------------------------------------------------------------------
(* Typed access *)

\* V consists of values as the parser builds them, and the elements of a list
\* in V are in V again.
Closed(V) == \A v \in V : /\ v.type \in {"number", "string", "list", "expression"}
                          /\ v.num \in Int /\ v.items \in Seq(V)

\* The assumption is met by the numbers and the lists of numbers, as it is by any
\* set of values the parser builds that has the elements of its lists.
LEMMA NumbersAreClosed ==
  LET D == {NumValue(n) : n \in Int}
  IN Closed(D \cup {ListValue(s) : s \in Seq(D)})
<1> DEFINE D == {NumValue(n) : n \in Int}
           V == D \cup {ListValue(s) : s \in Seq(D)}
<1>1. D \subseteq V
  OBVIOUS
<1>2. \A s \in Seq(D) : s \in Seq(V)
  BY <1>1
<1>3. \A v \in D : v.type = "number" /\ v.num \in Int /\ v.items = <<>>
  BY DEF NumValue, Value
<1>4. \A s \in Seq(D) :
        ListValue(s).type = "list" /\ ListValue(s).num = 0 /\ ListValue(s).items = s
  BY DEF ListValue, Value
<1>5. <<>> \in Seq(V)
  OBVIOUS
<1>6. \A s \in Seq(D) : /\ ListValue(s).type \in {"number", "string", "list", "expression"}
                         /\ ListValue(s).num \in Int /\ ListValue(s).items \in Seq(V)
  BY <1>2, <1>4
<1>7. \A v \in D : /\ v.type \in {"number", "string", "list", "expression"}
                   /\ v.num \in Int /\ v.items \in Seq(V)
  BY <1>3, <1>5
<1>8. Closed(V)
  <2> SUFFICES ASSUME NEW v \in V
               PROVE  /\ v.type \in {"number", "string", "list", "expression"}
                      /\ v.num \in Int /\ v.items \in Seq(V)
    BY DEF Closed
  <2>1. CASE v \in D
    BY <1>7, <2>1
  <2>2. CASE \E s \in Seq(D) : v = ListValue(s)
    BY <1>6, <2>2
  <2>3. QED
    BY <2>1, <2>2
<1>9. QED
  BY <1>8

\* A step that may throw, and one that comes after it.
LEMMA OnlyRight ==
  ASSUME NEW P \in BOOLEAN, NEW x
  PROVE  /\ Only(P, x) # Thrown <=> P
         /\ P => Only(P, x) = <<x>>
BY DEF Only, Thrown

\* get_any() finds what is stored.
LEMMA GetAnyRight ==
  ASSUME NEW key
  PROVE  /\ IsSet(key) => GetAny(key) = <<kv_map[key].val>> /\ GetAny(key) # Thrown
         /\ ~IsSet(key) => GetAny(key) = Thrown
BY DEF GetAny, Thrown

\* get() of a type succeeds for a value that is stored with that type.
LEMMA GetRight ==
  ASSUME NEW key, NEW T
  PROVE  /\ Get(key, T) # Thrown <=> IsSet(key) /\ kv_map[key].val.type = T
         /\ Get(key, T) # Thrown => Get(key, T) = <<kv_map[key].val>>
<1> DEFINE v == kv_map[key].val
<1>1. CASE IsSet(key)
  <2>1. Get(key, T) = Convert(v, T)
    BY <1>1, GetAnyRight DEF Get, Then
  <2>2. QED
    BY <1>1, <2>1, OnlyRight DEF Convert
<1>2. CASE ~IsSet(key)
  BY <1>2, GetAnyRight DEF Get, Then
<1>3. QED
  BY <1>1, <1>2

\* The checks of numbers.
LEMMA SignsFound ==
  ASSUME NEW key, IsSet(key) => kv_map[key].val.num \in Int
  PROVE  /\ CheckPositive(key) # Thrown <=>
              IsSet(key) /\ kv_map[key].val.type = "number" /\ kv_map[key].val.num > 0
         /\ CheckNonneg(key) # Thrown <=>
              IsSet(key) /\ kv_map[key].val.type = "number" /\ kv_map[key].val.num >= 0
<1> DEFINE v == kv_map[key].val
<1>1. CASE IsSet(key) /\ v.type = "number"
  <2>1. Get(key, "number") = <<v>> /\ Get(key, "number") # Thrown
    BY <1>1, GetRight
  <2>2. /\ CheckPositive(key) = Only(v.num > 0, v)
        /\ CheckNonneg(key) = Only(v.num >= 0, v)
    BY <2>1 DEF CheckPositive, CheckNonneg, Then
  <2>3. QED
    BY <1>1, <2>2 DEF Only, Thrown
<1>2. CASE ~(IsSet(key) /\ v.type = "number")
  <2>1. Get(key, "number") = Thrown
    BY <1>2, GetRight
  <2>2. QED
    BY <1>2, <2>1 DEF CheckPositive, CheckNonneg, Then
<1>3. QED
  BY <1>1, <1>2

\* check_long() finds the integers between its bounds.
LEMMA LongFound ==
  ASSUME NEW key, NEW lo \in Int, NEW hi \in Int,
         IsSet(key) => kv_map[key].val.num \in Int
  PROVE  CheckLongKey(key, lo, hi) # Thrown <=>
           /\ IsSet(key) /\ kv_map[key].val.type = "number"
           /\ kv_map[key].val.num % 10 = 0
           /\ kv_map[key].val.num >= 10 * lo /\ kv_map[key].val.num <= 10 * hi
<1> DEFINE v == kv_map[key].val
<1>1. CASE IsSet(key) /\ v.type = "number"
  <2>1. Get(key, "number") = <<v>> /\ Get(key, "number") # Thrown
    BY <1>1, GetRight
  <2>2. CheckLongKey(key, lo, hi) = CheckLong(v, lo, hi)
    BY <2>1 DEF CheckLongKey, Then
  <2>3. QED
    BY <1>1, <2>2 DEF CheckLong, Only, Thrown
<1>2. CASE ~(IsSet(key) /\ v.type = "number")
  <2>1. Get(key, "number") = Thrown
    BY <1>2, GetRight
  <2>2. QED
    BY <1>2, <2>1 DEF CheckLongKey, Then
<1>3. QED
  BY <1>1, <1>2

\* The conversion of a list, and the vectors that are made with it.
ListFits(v, T, n) == /\ v.type = "list" /\ HasLength(v.items, n)
                     /\ \A k \in DOMAIN v.items : v.items[k].type = T
\* convert() to a list finds the lists of that type and length.
LEMMA ConvertListRight ==
  ASSUME NEW v, NEW T, NEW n
  PROVE  ConvertList(v, T, n) # Thrown <=> ListFits(v, T, n)
<1>1. CASE v.type = "list"
  <2>1. Convert(v, "list") = <<v>> /\ Convert(v, "list") # Thrown
    BY <1>1, OnlyRight DEF Convert
  <2>2. ConvertList(v, T, n) =
          Only(HasLength(v.items, n) /\ \A k \in DOMAIN v.items : v.items[k].type = T,
               v.items)
    BY <2>1 DEF ConvertList, Then
  <2>3. QED
    BY <1>1, <2>2 DEF ListFits, Only, Thrown
<1>2. CASE v.type # "list"
  <2>1. Convert(v, "list") = Thrown
    BY <1>2 DEF Convert, Only
  <2>2. QED
    BY <1>2, <2>1 DEF ConvertList, ListFits, Then
<1>3. QED
  BY <1>1, <1>2

\* The lookups of lists find the lists that fit and no other value.
LEMMA VectorsFound ==
  ASSUME NEW key, NEW n
  PROVE  LET v == kv_map[key].val
         IN /\ CheckVectorDouble(key, n) # Thrown <=> IsSet(key) /\ ListFits(v, "number", n)
            /\ CheckVectorString(key, n) # Thrown <=> IsSet(key) /\ ListFits(v, "string", n)
            /\ CheckVectorAny(key, n) # Thrown <=>
                 IsSet(key) /\ v.type = "list" /\ HasLength(v.items, n)
<1> DEFINE v == kv_map[key].val
<1>1. CASE IsSet(key)
  <2>1. /\ CheckVectorDouble(key, n) = ConvertList(v, "number", n)
        /\ CheckVectorString(key, n) = ConvertList(v, "string", n)
    BY <1>1, GetAnyRight DEF CheckVectorDouble, CheckVectorString, Then
  <2>2. CASE v.type = "list"
    <3>1. CheckVectorAny(key, n) = Only(HasLength(v.items, n), v.items)
      BY <1>1, <2>2, GetRight DEF CheckVectorAny, Then
    <3>2. QED
      BY <1>1, <2>1, <2>2, <3>1, ConvertListRight DEF Only, Thrown
  <2>3. CASE v.type # "list"
    <3>1. CheckVectorAny(key, n) = Thrown
      BY <1>1, <2>3, GetRight DEF CheckVectorAny, Then
    <3>2. QED
      BY <1>1, <2>1, <2>3, <3>1, ConvertListRight
  <2>4. QED
    BY <2>2, <2>3
<1>2. CASE ~IsSet(key)
  <2>1. GetAny(key) = Thrown /\ Get(key, "list") = Thrown
    BY <1>2, GetAnyRight, GetRight
  <2>2. QED
    BY <1>2, <2>1 DEF CheckVectorDouble, CheckVectorString, CheckVectorAny, Then
<1>3. QED
  BY <1>1, <1>2

\* A row by itself, as the code looks at it.
RowFits(items, k, columns) ==
  /\ ListFits(items[k], "number", -1) /\ HasLength(items[k].items, columns)
  /\ columns = -2 /\ k > 1 => Len(items[k].items) = Len(items[1].items)

\* A sequence by its elements.
LEMMA RangeOf ==
  ASSUME NEW V, NEW s \in Seq(V)
  PROVE  /\ DOMAIN s = 1..Len(s) /\ Len(s) \in Nat
         /\ \A k \in 1..Len(s) : s[k] \in V /\ s[k] \in Range(s)
         /\ \A x \in Range(s) : \E k \in 1..Len(s) : x = s[k]
BY DEF Range

\* Comparing every row with the first one is comparing all of them.
LEMMA RowsFit ==
  ASSUME NEW V, Closed(V), NEW items \in Seq(V), NEW columns \in -2..2
  PROVE  (\A k \in DOMAIN items : RowFits(items, k, columns)) <=>
           /\ \A x \in Range(items) :
                Numbers(x) /\ (columns < 0 \/ Len(x.items) = columns)
           /\ columns = -2 => \A x, y \in Range(items) : Len(x.items) = Len(y.items)
<1> DEFINE n == Len(items)
<1>1. /\ DOMAIN items = 1..n /\ n \in Nat
      /\ \A k \in 1..n : items[k] \in V /\ items[k] \in Range(items)
      /\ \A x \in Range(items) : \E k \in 1..n : x = items[k]
  BY RangeOf
<1>2. ASSUME NEW x \in V PROVE Numbers(x) <=> ListFits(x, "number", -1)
  <2>1. x.items \in Seq(V)
    BY <1>2 DEF Closed
  <2>2. Numbers(x) <=> x.type = "list" /\ \A k \in DOMAIN x.items : x.items[k].type = "number"
    BY <2>1, RangeOf DEF Numbers
  <2>3. QED
    BY <2>2 DEF ListFits, HasLength
<1>3. ASSUME NEW x \in V
      PROVE  HasLength(x.items, columns) <=> columns < 0 \/ Len(x.items) = columns
  BY DEF HasLength
<1>4. ASSUME \A k \in 1..n : RowFits(items, k, columns), columns = -2,
             NEW x \in Range(items), NEW y \in Range(items)
      PROVE  Len(x.items) = Len(y.items)
  <2>1. \A z \in Range(items) : Len(z.items) = Len(items[1].items)
    <3> SUFFICES ASSUME NEW z \in Range(items) PROVE Len(z.items) = Len(items[1].items)
      OBVIOUS
    <3>1. PICK k \in 1..n : z = items[k]
      BY <1>1
    <3>2. CASE k = 1
      BY <3>1, <3>2
    <3>3. CASE k > 1
      BY <1>4, <3>1, <3>3 DEF RowFits
    <3>4. QED
      BY <3>1, <3>2, <3>3, <1>1
  <2>2. QED
    BY <2>1
<1>5. ASSUME \A k \in 1..n : RowFits(items, k, columns), NEW x \in Range(items)
      PROVE  Numbers(x) /\ (columns < 0 \/ Len(x.items) = columns)
  <2>1. PICK k \in 1..n : x = items[k]
    BY <1>1
  <2>2. x \in V /\ ListFits(x, "number", -1) /\ HasLength(x.items, columns)
    BY <1>1, <1>5, <2>1 DEF RowFits
  <2>3. QED
    BY <1>2, <1>3, <2>2
<1>6. ASSUME \A x \in Range(items) :
               Numbers(x) /\ (columns < 0 \/ Len(x.items) = columns),
             columns = -2 => \A x, y \in Range(items) : Len(x.items) = Len(y.items),
             NEW k \in 1..n
      PROVE  RowFits(items, k, columns)
  <2>1. /\ items[k] \in V /\ items[k] \in Range(items) /\ items[1] \in Range(items)
    <3>1. 1 \in 1..n
      BY <1>1
    <3>2. QED
      BY <1>1, <3>1
  <2>2. ListFits(items[k], "number", -1) /\ HasLength(items[k].items, columns)
    BY <1>2, <1>3, <1>6, <2>1
  <2>3. columns = -2 => Len(items[k].items) = Len(items[1].items)
    BY <1>6, <2>1
  <2>4. QED
    BY <2>2, <2>3 DEF RowFits
<1>7. QED
  BY <1>1, <1>4, <1>5, <1>6

\* check_vector_vector_double() finds exactly the lists of the asked shape.
LEMMA NestedFound ==
  ASSUME NEW V, Closed(V), NEW key, IsSet(key) => kv_map[key].val \in V,
         NEW rows \in -1..2, NEW columns \in -2..2
  PROVE  CheckVectorVectorDouble(key, rows, columns) # Thrown
           <=> IsSet(key) /\ Shape(kv_map[key].val, rows, columns)
<1> DEFINE v == kv_map[key].val
<1>1. CASE IsSet(key) /\ v.type = "list"
  <2>1. v \in V /\ v.items \in Seq(V)
    BY <1>1 DEF Closed
  <2>2. CheckVectorVectorDouble(key, rows, columns) = ConvertNested(v, rows, columns)
    BY <1>1, GetAnyRight DEF CheckVectorVectorDouble, Then
  <2>3. Convert(v, "list") = <<v>> /\ Convert(v, "list") # Thrown
    BY <1>1, OnlyRight DEF Convert
  <2> HIDE DEF v
  <2>4. \A k : RowFits(v.items, k, columns) <=>
                 /\ ConvertList(v.items[k], "number", -1) # Thrown
                 /\ HasLength(v.items[k].items, columns)
                 /\ columns = -2 /\ k > 1 => Len(v.items[k].items) = Len(v.items[1].items)
    BY ConvertListRight DEF RowFits
  <2>5. ConvertNested(v, rows, columns) # Thrown <=>
          HasLength(v.items, rows) /\ \A k \in DOMAIN v.items : RowFits(v.items, k, columns)
    BY <2>3, <2>4, OnlyRight DEF ConvertNested, Then, Only, Thrown
  <2>6. HasLength(v.items, rows) <=> rows = -1 \/ Len(v.items) = rows
    BY DEF HasLength
  <2>7. (\A k \in DOMAIN v.items : RowFits(v.items, k, columns)) <=>
           /\ \A x \in Range(v.items) :
                Numbers(x) /\ (columns < 0 \/ Len(x.items) = columns)
           /\ columns = -2 => \A x, y \in Range(v.items) : Len(x.items) = Len(y.items)
    BY <2>1, RowsFit
  <2>8. Shape(v, rows, columns) <=>
          HasLength(v.items, rows) /\ \A k \in DOMAIN v.items : RowFits(v.items, k, columns)
    BY <1>1, <2>6, <2>7 DEF Shape, v
  <2>9. QED
    BY <1>1, <2>2, <2>5, <2>8 DEF v
<1>2. CASE IsSet(key) /\ v.type # "list"
  <2>1. CheckVectorVectorDouble(key, rows, columns) = ConvertNested(v, rows, columns)
    BY <1>2, GetAnyRight DEF CheckVectorVectorDouble, Then
  <2>2. Convert(v, "list") = Thrown
    BY <1>2 DEF Convert, Only
  <2>3. ConvertNested(v, rows, columns) = Thrown
    BY <2>2 DEF ConvertNested, Then
  <2>4. QED
    BY <1>2, <2>1, <2>3 DEF Shape
<1>3. CASE ~IsSet(key)
  BY <1>3, GetAnyRight DEF CheckVectorVectorDouble, Then
<1>4. QED
  BY <1>1, <1>2, <1>3

\* is_set_and_true(), and the lookups with a default.
LEMMA DefaultsRight ==
  ASSUME NEW key, IsSet(key) => kv_map[key].val.num \in Int
  PROVE  /\ IsSet(key) => GetDefault(key, "list of double", NoValue) = Thrown
                            \/ kv_map[key].val.type = "list of double"
         /\ ~IsSet(key) => /\ GetDefault(key, "number", NoValue) = <<NoValue>>
                           /\ GetDefaultBool(key, NoValue) = <<NoValue>>
                           /\ GetDefaultLong(key, NoValue, 0, 1) = <<NoValue>>
         /\ IsSetAndTrue(key) = Thrown
              <=> IsSet(key) /\ GetDefaultBool(key, NoValue) = Thrown
         /\ GetDefaultLong(key, NumValue(10), 0, 1) # Thrown =>
              GetDefault(key, "number", NumValue(10))[1].num \in {0, 10}
<1>1. IsSet(key) => GetDefault(key, "list of double", NoValue) = Thrown
                      \/ kv_map[key].val.type = "list of double"
  BY GetRight DEF GetDefault
<1>2. ~IsSet(key) => /\ GetDefault(key, "number", NoValue) = <<NoValue>>
                     /\ GetDefaultBool(key, NoValue) = <<NoValue>>
                     /\ GetDefaultLong(key, NoValue, 0, 1) = <<NoValue>>
  BY DEF GetDefault, GetDefaultBool, GetDefaultLong
<1>3. IsSetAndTrue(key) = Thrown <=> IsSet(key) /\ GetDefaultBool(key, NoValue) = Thrown
  <2>1. CASE IsSet(key)
    <3>1. IsSetAndTrue(key) = Then(CheckBool(key), LAMBDA v : <<v.str = <<"t">>>>)
      BY <2>1 DEF IsSetAndTrue
    <3>2. IsSetAndTrue(key) = Thrown <=> CheckBool(key) = Thrown
      BY <3>1 DEF Then, Thrown
    <3>3. QED
      BY <2>1, <3>2 DEF GetDefaultBool
  <2>2. CASE ~IsSet(key)
    BY <2>2 DEF IsSetAndTrue, Thrown
  <2>3. QED
    BY <2>1, <2>2
<1>4. ASSUME GetDefaultLong(key, NumValue(10), 0, 1) # Thrown
      PROVE  GetDefault(key, "number", NumValue(10))[1].num \in {0, 10}
  <2>1. CASE IsSet(key)
    <3> DEFINE v == kv_map[key].val
    <3>1. CheckLongKey(key, 0, 1) # Thrown
      BY <1>4, <2>1 DEF GetDefaultLong
    <3>2. /\ v.type = "number" /\ v.num \in Int /\ v.num % 10 = 0
          /\ v.num >= 10 * 0 /\ v.num <= 10 * 1
      BY <2>1, <3>1, LongFound
    <3>3. v.num \in {0, 10}
      BY <3>2
    <3>4. GetDefault(key, "number", NumValue(10)) = <<v>>
      BY <2>1, <3>2, GetRight DEF GetDefault
    <3>5. QED
      BY <3>3, <3>4
  <2>2. CASE ~IsSet(key)
    <3>1. GetDefault(key, "number", NumValue(10)) = <<NumValue(10)>>
      BY <2>2 DEF GetDefault
    <3>2. NumValue(10).num = 10
      BY DEF NumValue, Value
    <3>3. QED
      BY <3>1, <3>2
  <2>3. QED
    BY <2>1, <2>2
<1>5. QED
  BY <1>1, <1>2, <1>3, <1>4

\* The lookups agree on any store of values as the parser builds them.
LEMMA LookupsAgree ==
  ASSUME NEW V, Closed(V), StoredValues(V)
  PROVE  LookupsRight
<1> SUFFICES ASSUME NEW key
             PROVE  NestedAgree(key) /\ VectorsAgree(key) /\ ChecksAgree(key)
                      /\ DefaultsAgree(key)
  BY DEF LookupsRight
<1> DEFINE v == kv_map[key].val
<1>1. IsSet(key) => /\ v \in V /\ v.num \in Int /\ v.items \in Seq(V)
                    /\ v.type # "list of double"
  BY DEF StoredValues, IsSet, Closed
<1>2. NestedAgree(key)
  BY <1>1, NestedFound DEF NestedAgree
<1>3. VectorsAgree(key)
  <2> SUFFICES ASSUME NEW n \in -1..2, IsSet(key)
               PROVE  /\ ListFits(v, "number", n) \/ ListFits(v, "string", n)
                           => v.type = "list" /\ HasLength(v.items, n)
                      /\ ListFits(v, "number", n) /\ ListFits(v, "string", n)
                           => v.items = <<>>
                      /\ ListFits(v, "number", n) => Numbers(v)
    BY VectorsFound DEF VectorsAgree
  <2>0. v.items \in Seq(V)
    BY <1>1
  <2>1. v.items \in Seq(V) /\ DOMAIN v.items = 1..Len(v.items) /\ Len(v.items) \in Nat
    BY <2>0, RangeOf
  <2>2. ASSUME ListFits(v, "number", n), ListFits(v, "string", n) PROVE v.items = <<>>
    <3>1. \A k \in 1..Len(v.items) : v.items[k].type = "number" /\ v.items[k].type = "string"
      BY <2>1, <2>2 DEF ListFits
    <3>2. Len(v.items) = 0
      <4>1. 1 \notin 1..Len(v.items)
        BY <3>1
      <4>2. QED
        BY <2>1, <4>1
    <3>3. QED
      BY <2>1, <3>2, EmptySeq
  <2>3. ListFits(v, "number", n) => Numbers(v)
    BY <2>1, RangeOf DEF ListFits, Numbers
  <2>4. QED
    BY <2>2, <2>3 DEF ListFits
<1>4. ChecksAgree(key)
  <2>1. IsSet(key) => kv_map[key].val.num \in Int
    BY <1>1
  <2>2. /\ CheckPositive(key) # Thrown <=> IsSet(key) /\ v.type = "number" /\ v.num > 0
        /\ CheckNonneg(key) # Thrown <=> IsSet(key) /\ v.type = "number" /\ v.num >= 0
        /\ CheckLongKey(key, 0, 65535) # Thrown =>
             IsSet(key) /\ v.type = "number" /\ v.num >= 10 * 0
    BY <2>1, SignsFound, LongFound
  <2>3. Get(key, "number") # Thrown <=> IsSet(key) /\ v.type = "number"
    BY GetRight
  <2>4. IsSet(key) => (v.num > 0 => v.num >= 0) /\ (v.num >= 10 * 0 => v.num >= 0)
    BY <2>1
  <2>5. CheckPort(key) = CheckLongKey(key, 0, 65535)
    BY DEF CheckPort
  <2> HIDE DEF v
  <2>6. QED
    BY <2>2, <2>3, <2>4, <2>5 DEF ChecksAgree
<1>5. DefaultsAgree(key)
  BY <1>1, DefaultsRight DEF DefaultsAgree
<1>6. QED
  BY <1>2, <1>3, <1>4, <1>5

\* A value of the asked type and shape is found by every lookup that may find it
\* and by no other, and a default is taken for undefined keys only; whatever was
\* added, for lists of any length and nested to any depth.
THEOREM LookupsAreRight ==
  ASSUME NEW K, NEW V, Closed(V)
  PROVE  StoreSpec(K, V) => []LookupsRight
<1>1. StoreInit => StoreInv(K, V)
  BY EmptyStore
<1>2. StoreInv(K, V) /\ [StoreNext(K, V)]_<<kv_map, pairs>> => StoreInv(K, V)'
  BY StoreStep
<1>3. StoreInv(K, V) => LookupsRight
  BY LookupsAgree DEF StoreInv
<1>4. QED
  BY <1>1, <1>2, <1>3, PTL DEF StoreSpec

-----------------------------------------------------------------------------
(* Induction *)

LEMMA LeastNatural ==
  ASSUME NEW T, T \subseteq Nat, T # {}
  PROVE  \E x \in T : \A y \in T : x <= y
<1> DEFINE R == OpToRel(<, Nat)
<1>1. IsWellFoundedOn(R, Nat)
  BY NatLessThanWellFounded
<1>2. \A y, z \in Nat : y < z => <<y, z>> \in R
  BY DEF OpToRel
<1> HIDE DEF R
<1>3. PICK x \in T : \A y \in T : ~ (<<y, x>> \in R)
  BY <1>1, WFMin
<1>4. \A y \in T : y \in Nat /\ x \in Nat /\ ~ (y < x)
  BY <1>2, <1>3
<1>5. \A y \in T : x <= y
  BY <1>4
<1>6. QED
  BY <1>3, <1>5

\* Induction over the natural numbers, for a set.
LEMMA SetInduction ==
  ASSUME NEW S, 0 \in S, \A n \in Nat : n \in S => n + 1 \in S
  PROVE  Nat \subseteq S
<1> SUFFICES ASSUME NEW m \in Nat, m \notin S PROVE FALSE
  OBVIOUS
<1> DEFINE T == {n \in Nat : n \notin S}
<1>1. T \subseteq Nat /\ T # {}
  OBVIOUS
<1> HIDE DEF T
<1>2. PICK x \in T : \A y \in T : x <= y
  BY <1>1, LeastNatural
<1>3. x \in Nat /\ x \notin S
  BY DEF T
<1>4. x # 0 /\ x - 1 \in Nat /\ x - 1 < x /\ (x - 1) + 1 = x
  BY <1>3
<1>5. x - 1 \notin S
  BY <1>3, <1>4
<1>6. x - 1 \in T
  BY <1>4, <1>5 DEF T
<1>7. QED
  BY <1>2, <1>3, <1>4, <1>6

\* Steps that stay in V, and a function that follows them from base on.
StepsIn(V, step) == \A n \in Nat : \A v \in V : step[n][v] \in V
Follows(f, V, base, step) ==
  f \in [Nat -> V] /\ f[0] = base /\ \A n \in Nat : f[n + 1] = step[n][f[n]]

\* Recursion over the natural numbers, for a step that is a function.
LEMMA Recursion ==
  ASSUME NEW V, NEW base \in V, NEW step, StepsIn(V, step)
  PROVE  \E f : Follows(f, V, base, step)
<1>0. \A n \in Nat : \A v \in V : step[n][v] \in V
  BY DEF StepsIn
<1> DEFINE Starts(n, f) == f \in [0..n -> V] /\ f[0] = base
             /\ \A k \in 0..n : k # n => f[k + 1] = step[k][f[k]]
           S == {n \in Nat : \E f : Starts(n, f)}
<1>1. \A n \in Nat : n \in S => n + 1 \in S
  <2>1. ASSUME NEW n \in Nat, NEW f, Starts(n, f) PROVE \E g : Starts(n + 1, g)
    <3> DEFINE g == [k \in 0..n + 1 |-> IF k = n + 1 THEN step[n][f[n]] ELSE f[k]]
    <3>1. step[n][f[n]] \in V
      BY <1>0, <2>1
    <3>2. g \in [0..n + 1 -> V] /\ g[0] = base
      BY <2>1, <3>1
    <3>3. \A k \in 0..n + 1 : k # n + 1 => g[k + 1] = step[k][g[k]]
      BY <2>1
    <3> HIDE DEF g
    <3>4. QED
      BY <3>2, <3>3
  <2> HIDE DEF Starts
  <2>2. QED
    BY <2>1
<1>2. 0 \in S
  <2> DEFINE f == [k \in 0..0 |-> base]
  <2>1. Starts(0, f)
    OBVIOUS
  <2>2. QED
    BY <2>1
<1>3. Nat \subseteq S
  <2> HIDE DEF S
  <2>1. QED
    BY <1>1, <1>2, SetInduction
\* Two of them agree.
<1>4. ASSUME NEW m \in Nat, NEW n \in Nat, NEW f, NEW g, Starts(m, f), Starts(n, g)
      PROVE  \A k \in Nat : k <= m /\ k <= n => f[k] = g[k]
  <2> DEFINE A == {k \in Nat : k <= m /\ k <= n => f[k] = g[k]}
  <2>1. 0 \in A
    BY <1>4
  <2>2. \A k \in Nat : k \in A => k + 1 \in A
    BY <1>4
  <2> HIDE DEF A
  <2>3. Nat \subseteq A
    BY <2>1, <2>2, SetInduction
  <2>4. QED
    BY <2>3 DEF A
<1>5. \A n \in Nat : \E f : Starts(n, f)
  BY <1>3
<1> DEFINE F(n) == CHOOSE f : Starts(n, f)
           h == [n \in Nat |-> F(n)[n]]
<1> HIDE DEF Starts, S
<1>6. \A n \in Nat : Starts(n, F(n))
  BY <1>5
<1>7. h \in [Nat -> V]
  <2>1. ASSUME NEW n \in Nat PROVE F(n)[n] \in V
    <3>1. F(n) \in [0..n -> V]
      BY <1>6 DEF Starts
    <3> HIDE DEF F
    <3>2. QED
      BY <3>1
  <2>2. QED
    BY <2>1
<1>8. h[0] = base
  BY <1>6 DEF Starts
<1>9. ASSUME NEW n \in Nat PROVE h[n + 1] = step[n][h[n]]
  <2> DEFINE f == F(n)
             g == F(n + 1)
  <2>1. Starts(n, f) /\ Starts(n + 1, g)
    BY <1>6
  <2>2. h[n] = f[n] /\ h[n + 1] = g[n + 1]
    OBVIOUS
  <2> HIDE DEF f, g, h
  <2>3. f[n] = g[n]
    BY <1>4, <2>1
  <2>4. g[n + 1] = step[n][g[n]]
    BY <2>1 DEF Starts
  <2>5. QED
    BY <2>2, <2>3, <2>4
<1>10. QED
  BY <1>7, <1>8, <1>9 DEF Follows

-----------------------------------------------------------------------------
(* The lines of a text *)

\* The lexer is where its fields say: on a place of its text, and on the line
\* of that place unless it has thrown.
LineKnown(l) == ~l.err => l.line = 1 + Newlines(l.text, 1, l.pos)

\* m is a lexer on the text of l: it still knows its line, or has thrown.
OnText(l, m) == /\ l \in LexerObjects /\ m \in LexerObjects /\ m.text = l.text /\ m.style = l.style
                /\ LineKnown(l) => LineKnown(m)
\* It is l later, and it is l after some steps of get_token().
Later(l, m) == OnText(l, m) /\ m.pos >= l.pos
Goes(l, m) == Later(l, m) /\ m.hold = l.hold

LEMMA LinesCounted ==
  ASSUME NEW t, NEW i \in Int, NEW j \in Int
  PROVE  Newlines(t, i, j) \in Nat
<1>1. IsFiniteSet(i..j)
  BY FS_Interval
<1>2. {k \in i..j : t[k] = "\n"} \subseteq i..j
  OBVIOUS
<1>3. IsFiniteSet({k \in i..j : t[k] = "\n"})
  BY <1>1, <1>2, FS_Subset
<1>4. QED
  BY <1>3, FS_CardinalityType DEF Newlines

LEMMA LinesAdd ==
  ASSUME NEW t, NEW i \in Int, NEW j \in Int, NEW n \in Int, i <= j + 1, j <= n
  PROVE  Newlines(t, i, n) = Newlines(t, i, j) + Newlines(t, j + 1, n)
<1> DEFINE A == {k \in i..j : t[k] = "\n"}
           B == {k \in j + 1..n : t[k] = "\n"}
<1>1. IsFiniteSet(A) /\ IsFiniteSet(B)
  <2>1. IsFiniteSet(i..j) /\ IsFiniteSet(j + 1..n)
    BY FS_Interval
  <2>2. A \subseteq i..j /\ B \subseteq j + 1..n
    OBVIOUS
  <2> HIDE DEF A, B
  <2>3. QED
    BY <2>1, <2>2, FS_Subset
<1>2. A \cap B = {} /\ A \cup B = {k \in i..n : t[k] = "\n"}
  OBVIOUS
<1>3. Cardinality(A) \in Nat /\ Cardinality(B) \in Nat
  BY <1>1, FS_CardinalityType
<1>4. Newlines(t, i, n) = Cardinality(A \cup B)
  BY <1>2 DEF Newlines
<1>5. Newlines(t, i, j) = Cardinality(A) /\ Newlines(t, j + 1, n) = Cardinality(B)
  BY DEF Newlines
<1> HIDE DEF A, B
<1>6. Cardinality(A \cup B) = Cardinality(A) + Cardinality(B) - Cardinality(A \cap B)
  BY <1>1, FS_Union
<1>7. Cardinality(A \cap B) = 0
  BY <1>2, FS_EmptySet
<1>8. QED
  BY <1>3, <1>4, <1>5, <1>6, <1>7

LEMMA LinesNone ==
  ASSUME NEW t, NEW i \in Int, NEW j \in Int, \A k \in i..j : t[k] # "\n"
  PROVE  Newlines(t, i, j) = 0
<1>1. {k \in i..j : t[k] = "\n"} = {}
  OBVIOUS
<1>2. QED
  BY <1>1, FS_EmptySet DEF Newlines

LEMMA FirstOfPlaces ==
  ASSUME NEW t \in Seq(Chars), NEW k \in Nat, k <= Len(t) + 1, NEW T, T \subseteq k..Len(t)
  PROVE  /\ FirstOf(t, T) \in k..Len(t) + 1
         /\ \A i \in T : FirstOf(t, T) <= i
         /\ FirstOf(t, T) <= Len(t) => FirstOf(t, T) \in T
<1>0. Len(t) \in Nat
  BY LenProperties
<1>1. CASE T = {}
  BY <1>0, <1>1 DEF FirstOf
<1>2. CASE T # {}
  <2>1. T \subseteq Nat
    BY <1>0
  <2>2. \E x \in T : \A y \in T : x <= y
    BY <1>2, <2>1, LeastNatural
  <2>3. Min(T) \in T /\ \A y \in T : Min(T) <= y
    BY <2>2 DEF Min
  <2>4. FirstOf(t, T) = Min(T)
    BY <1>2 DEF FirstOf
  <2>5. Min(T) \in k..Len(t)
    BY <2>3
  <2> HIDE DEF Min
  <2>6. QED
    BY <1>0, <2>3, <2>4, <2>5
<1>3. QED
  BY <1>1, <1>2

LEMMA LexerTypes ==
  ASSUME NEW l \in LexerObjects
  PROVE  /\ l.text \in Seq(Chars) /\ Len(l.text) \in Nat /\ l.pos \in 0..Len(l.text)
         /\ l.style \in Styles /\ l.tok \in Tokens /\ l.str \in Seq(Chars)
         /\ l.num \in Int /\ l.line \in Nat /\ l.hold \in BOOLEAN /\ l.err \in BOOLEAN
BY DEF LexerObjects, LexerFields

\* The lexer goes on to a place that no end of a line lies before.
LEMMA PassedOnLine ==
  ASSUME NEW l \in LexerObjects, NEW m \in LexerFields, m.text = l.text,
         m.pos \in l.pos..Len(l.text),
         \A i \in l.pos + 1..m.pos : l.text[i] # "\n",
         m.line = l.line, m.style = l.style, m.hold = l.hold, ~m.err => ~l.err
  PROVE  Goes(l, m)
<1>1. l.pos \in Nat /\ m.pos \in Nat /\ l.line \in Nat /\ Len(l.text) \in Nat
  BY LexerTypes
<1>2. Newlines(l.text, l.pos + 1, m.pos) = 0
  BY <1>1, LinesNone
<1>3. Newlines(l.text, 1, m.pos) = Newlines(l.text, 1, l.pos) + Newlines(l.text, l.pos + 1, m.pos)
  BY <1>1, LinesAdd
<1>4. Newlines(l.text, 1, l.pos) \in Nat
  BY <1>1, LinesCounted
<1>5. LineKnown(l) => LineKnown(m)
  BY <1>1, <1>2, <1>3, <1>4 DEF LineKnown
<1>6. m \in LexerObjects
  BY <1>1 DEF LexerObjects
<1>7. QED
  BY <1>5, <1>6 DEF Goes, Later, OnText

LEMMA LaterSelf ==
  ASSUME NEW l \in LexerObjects
  PROVE  Later(l, l)
<1>1. l.pos \in Nat
  BY DEF LexerObjects, LexerFields
<1>2. QED
  BY <1>1 DEF Later, OnText

LEMMA LaterLater ==
  ASSUME NEW l, NEW m, NEW n, Later(l, m), Later(m, n)
  PROVE  Later(l, n)
<1>1. l.pos \in Nat /\ m.pos \in Nat /\ n.pos \in Nat
  BY DEF Later, OnText, LexerObjects, LexerFields
<1>2. QED
  BY <1>1 DEF Later, OnText

LEMMA GoesGoes ==
  ASSUME NEW l, NEW m, NEW n, Goes(l, m), Goes(m, n)
  PROVE  Goes(l, n)
BY LaterLater DEF Goes

LEMMA SkipToRight ==
  ASSUME NEW l \in LexerObjects, NEW k \in l.pos + 1..Len(l.text) + 1
  PROVE  Goes(l, SkipTo(l, k)) /\ SkipTo(l, k).pos = k - 1
<1> DEFINE m == SkipTo(l, k)
           n == Newlines(l.text, l.pos + 1, k - 1)
<1>1. l.pos \in Nat /\ l.line \in Nat /\ Len(l.text) \in Nat
  BY LexerTypes
<1>2. n \in Nat
  BY <1>1, LinesCounted
<1>3. /\ m \in LexerObjects /\ m.pos = k - 1 /\ m.line = l.line + n
      /\ m.text = l.text /\ m.style = l.style /\ m.err = l.err /\ m.hold = l.hold
  <2> HIDE DEF n
  <2>1. m = [l EXCEPT !.pos = k - 1, !.line = @ + n]
    BY DEF SkipTo, n
  <2>2. k - 1 \in Nat /\ l.line + n \in Nat /\ k - 1 <= Len(l.text)
    BY <1>1, <1>2
  <2> HIDE DEF m
  <2>3. QED
    BY <1>1, <2>1, <2>2 DEF LexerObjects, LexerFields
<1>4. Newlines(l.text, 1, k - 1) = Newlines(l.text, 1, l.pos) + n
  BY <1>1, LinesAdd
<1>5. Newlines(l.text, 1, l.pos) \in Nat
  BY <1>1, LinesCounted
<1> HIDE DEF m, n
<1>6. LineKnown(l) => LineKnown(m)
  BY <1>1, <1>2, <1>3, <1>4, <1>5 DEF LineKnown
<1>7. QED
  BY <1>1, <1>3, <1>6 DEF Goes, Later, OnText, m

-----------------------------------------------------------------------------
(* The tokens *)

LEMMA FirstInRight ==
  ASSUME NEW t \in Seq(Chars), NEW k \in Nat, k <= Len(t) + 1, NEW S
  PROVE  /\ FirstIn(t, k, S) \in k..Len(t) + 1
         /\ FirstIn(t, k, S) <= Len(t) => t[FirstIn(t, k, S)] \in S
<1> DEFINE T == {i \in k..Len(t) : t[i] \in S}
<1>1. T \subseteq k..Len(t)
  OBVIOUS
<1>2. FirstIn(t, k, S) = FirstOf(t, T)
  BY DEF FirstIn
<1>3. \A i \in T : t[i] \in S
  OBVIOUS
<1> HIDE DEF T
<1>4. FirstOf(t, T) \in k..Len(t) + 1 /\ (FirstOf(t, T) <= Len(t) => FirstOf(t, T) \in T)
  BY <1>1, FirstOfPlaces
<1>5. QED
  BY <1>2, <1>3, <1>4

LEMMA FirstOutsideRight ==
  ASSUME NEW t \in Seq(Chars), NEW k \in Nat, k <= Len(t) + 1, NEW S
  PROVE  /\ FirstOutside(t, k, S) \in k..Len(t) + 1
         /\ \A i \in k..FirstOutside(t, k, S) - 1 : t[i] \in S
<1> DEFINE T == {i \in k..Len(t) : t[i] \notin S}
           e == FirstOutside(t, k, S)
<1>1. T \subseteq k..Len(t)
  OBVIOUS
<1>2. e = FirstOf(t, T)
  BY DEF FirstOutside
<1>3. \A i \in k..Len(t) : i \notin T => t[i] \in S
  OBVIOUS
<1> HIDE DEF T, e
<1>4. e \in k..Len(t) + 1 /\ \A i \in T : e <= i
  BY <1>1, <1>2, FirstOfPlaces
<1>5. Len(t) \in Nat
  BY LenProperties
<1>6. \A i \in k..e - 1 : i \in k..Len(t) /\ ~(e <= i)
  BY <1>4, <1>5
<1>7. \A i \in k..e - 1 : t[i] \in S
  BY <1>3, <1>4, <1>6
<1>8. QED
  BY <1>4, <1>7 DEF e

LEMMA SkipSpaceRight ==
  ASSUME NEW l \in LexerObjects
  PROVE  Goes(l, SkipSpace(l))
BY LexerTypes, FirstOutsideRight, SkipToRight DEF SkipSpace

LEMMA SkipLineRight ==
  ASSUME NEW l \in LexerObjects
  PROVE  Goes(l, SkipLine(l))
<1> DEFINE k == FirstIn(l.text, l.pos + 1, {"\n"})
           q == IF k > Len(l.text) THEN k ELSE k + 1
<1>1. k \in l.pos + 1..Len(l.text) + 1
  BY LexerTypes, FirstInRight
<1>2. SkipLine(l) = SkipTo(l, q)
  BY DEF SkipLine
<1> HIDE DEF k
<1>3. q \in l.pos + 1..Len(l.text) + 1
  BY <1>1, LexerTypes
<1> HIDE DEF q
<1>4. QED
  BY <1>2, <1>3, SkipToRight

LEMMA SkipBlockRight ==
  ASSUME NEW l \in LexerObjects
  PROVE  Goes(l, SkipBlock(l))
<1> DEFINE t == l.text
           Ends == {k \in l.pos + 1 .. Len(t) - 1 : t[k] = "*" /\ t[k + 1] = "/"}
           q == IF Ends = {} THEN Len(t) + 1 ELSE Min(Ends) + 2
<1>1. SkipBlock(l) = SkipTo(l, q)
  BY DEF SkipBlock
<1>2. Ends \subseteq l.pos + 1 .. Len(t) - 1
  OBVIOUS
<1> HIDE DEF Ends
<1>3. Ends # {} => Min(Ends) \in Ends
  <2> SUFFICES ASSUME Ends # {} PROVE Min(Ends) \in Ends
    OBVIOUS
  <2>1. Ends \subseteq Nat
    BY <1>2, LexerTypes
  <2>2. \E x \in Ends : \A y \in Ends : x <= y
    BY <2>1, LeastNatural
  <2>3. QED
    BY <2>2 DEF Min
<1>4. q \in l.pos + 1..Len(t) + 1
  <2>1. Ends # {} => Min(Ends) \in l.pos + 1 .. Len(t) - 1
    BY <1>2, <1>3
  <2> HIDE DEF Min
  <2>2. l.pos \in 0..Len(t) /\ Len(t) \in Nat
    BY LexerTypes
  <2>3. QED
    BY <2>1, <2>2
<1> HIDE DEF q
<1>5. QED
  BY <1>1, <1>4, SkipToRight

\* What changes neither the place nor the line.
LEMMA ThrowRight ==
  ASSUME NEW l \in LexerObjects
  PROVE  Goes(l, Throw(l)) /\ Later(l, Throw(l)) /\ Throw(l).err
<1> DEFINE m == Throw(l)
<1>1. /\ m \in LexerObjects /\ m.text = l.text /\ m.style = l.style /\ m.pos = l.pos
      /\ m.hold = l.hold /\ m.err /\ l.pos \in Nat
  BY DEF Throw, LexerObjects, LexerFields
<1> HIDE DEF m
<1>2. QED
  BY <1>1 DEF Goes, Later, OnText, LineKnown, m

LEMMA ReturnRight ==
  ASSUME NEW l \in LexerObjects, NEW t \in Tokens
  PROVE  Goes(l, Return(l, t))
BY DEF Return, Goes, Later, OnText, LexerObjects, LexerFields, LineKnown

LEMMA HoldRight ==
  ASSUME NEW l \in LexerObjects
  PROVE  /\ Later(l, [l EXCEPT !.hold = FALSE]) /\ Later(l, Putback(l))
         /\ Putback(l).err = l.err
<1> DEFINE m == [l EXCEPT !.hold = FALSE]
           n == Putback(l)
<1>1. /\ m \in LexerObjects /\ m.text = l.text /\ m.style = l.style /\ m.pos = l.pos
      /\ m.err = l.err /\ m.line = l.line /\ l.pos \in Nat
  BY DEF LexerObjects, LexerFields
<1>2. /\ n \in LexerObjects /\ n.text = l.text /\ n.style = l.style /\ n.pos = l.pos
      /\ n.err = l.err /\ n.line = l.line
  BY DEF Putback, LexerObjects, LexerFields
<1> HIDE DEF m, n
<1>3. QED
  BY <1>1, <1>2 DEF Later, OnText, LineKnown, m, n

LEMMA TokensKnown ==
  /\ {"END", "LP", "RP", "LB", "RB", "LBRACKET", "RBRACKET", "ASTERISKS", "SLASH"} \subseteq Tokens
  /\ {"HASH", "PERCENT", "ASSIGN", "COMMA", "DOUBLE_QUOTE", "SINGLE_QUOTE"} \subseteq Tokens
  /\ {"STRING", "IDENT", "NUM"} \subseteq Tokens
<1>1. DOMAIN TokenOrder = 1..18
  BY DEF TokenOrder
<1>2. \A k \in 1..18 : TokenOrder[k] \in Tokens
  BY <1>1 DEF Tokens
<1>3. /\ TokenOrder[1] = "END" /\ TokenOrder[2] = "LP" /\ TokenOrder[3] = "RP"
      /\ TokenOrder[4] = "LB" /\ TokenOrder[5] = "RB" /\ TokenOrder[6] = "LBRACKET"
      /\ TokenOrder[7] = "RBRACKET" /\ TokenOrder[8] = "ASTERISKS" /\ TokenOrder[9] = "SLASH"
  BY DEF TokenOrder
<1>4. /\ TokenOrder[10] = "HASH" /\ TokenOrder[11] = "PERCENT" /\ TokenOrder[12] = "ASSIGN"
      /\ TokenOrder[13] = "COMMA" /\ TokenOrder[14] = "DOUBLE_QUOTE"
      /\ TokenOrder[15] = "SINGLE_QUOTE" /\ TokenOrder[16] = "STRING"
      /\ TokenOrder[17] = "IDENT" /\ TokenOrder[18] = "NUM"
  BY DEF TokenOrder
<1>5. QED
  BY <1>2, <1>3, <1>4

LEMMA CharRight ==
  ASSUME NEW l \in LexerObjects
  PROVE  Goes(l, Char(l))
<1> DEFINE c == l.text[l.pos]
<1>1. DOMAIN CharToken = {"(", ")", "{", "}", "[", "]", "/", "#", "%", ",", "=", "*"}
  BY DEF CharToken
<1>2. /\ CharToken["("] = "LP" /\ CharToken[")"] = "RP" /\ CharToken["{"] = "LB"
      /\ CharToken["}"] = "RB" /\ CharToken["["] = "LBRACKET" /\ CharToken["]"] = "RBRACKET"
  BY DEF CharToken
<1>3. /\ CharToken["/"] = "SLASH" /\ CharToken["#"] = "HASH" /\ CharToken["%"] = "PERCENT"
      /\ CharToken[","] = "COMMA" /\ CharToken["="] = "ASSIGN"
      /\ CharToken["*"] = "ASTERISKS"
  BY DEF CharToken
<1>4. Char(l) = IF c \in DOMAIN CharToken THEN Return(l, CharToken[c]) ELSE Throw(l)
  BY DEF Char
<1> HIDE DEF c
<1>5. c \in DOMAIN CharToken => CharToken[c] \in Tokens
  BY <1>1, <1>2, <1>3, TokensKnown
<1>6. QED
  BY <1>4, <1>5, ReturnRight, ThrowRight

\* A character is taken that is no end of a line.
LEMMA TakenRight ==
  ASSUME NEW l \in LexerObjects, l.pos < Len(l.text), l.text[l.pos + 1] # "\n"
  PROVE  /\ Goes(l, [l EXCEPT !.pos = @ + 1])
         /\ [l EXCEPT !.pos = @ + 1].pos = l.pos + 1
<1> DEFINE m == [l EXCEPT !.pos = @ + 1]
<1>0. l.pos \in Nat /\ Len(l.text) \in Nat
  BY LexerTypes
<1>1. /\ m \in LexerFields /\ m.pos = l.pos + 1 /\ m.text = l.text /\ m.line = l.line
      /\ m.style = l.style /\ m.err = l.err /\ m.hold = l.hold
  BY DEF LexerObjects, LexerFields
<1> HIDE DEF m
<1>2. m.pos \in l.pos..Len(l.text) /\ \A i \in l.pos + 1..m.pos : l.text[i] # "\n"
  BY <1>0, <1>1
<1>3. QED
  BY <1>1, <1>2, PassedOnLine DEF m

LEMMA IdentifierRight ==
  ASSUME NEW l \in LexerObjects, l.pos >= 1
  PROVE  Goes(l, Identifier(l))
<1> DEFINE t == l.text
           W == Letter \cup Digit \cup {"_"}
           k == FirstOutside(t, l.pos + 1, W)
           u == SubSeq(t, l.pos, k - 1)
           m == [l EXCEPT !.pos = k - 1, !.str = u]
<1>1. /\ t \in Seq(Chars) /\ Len(t) \in Nat /\ l.pos \in 1..Len(t)
  BY LexerTypes
<1>2. "\n" \notin W
  BY DEF Letter, Digit, DigitValue
<1>3. Identifier(l) = Return(m, "IDENT")
  BY DEF Identifier
<1> HIDE DEF W
<1>4. k \in l.pos + 1..Len(t) + 1
  BY <1>1, FirstOutsideRight
<1>5. \A i \in l.pos + 1..k - 1 : t[i] \in W
  BY <1>1, FirstOutsideRight
<1> HIDE DEF k
<1>6. k - 1 \in l.pos..Len(t) /\ k - 1 \in Nat /\ l.pos \in Int
  BY <1>1, <1>4
<1>7. u \in Seq(Chars)
  <2>1. \A i \in l.pos..k - 1 : t[i] \in Chars
    BY <1>1, <1>6, ElementOfSeq
  <2>2. QED
    BY <1>6, <2>1, SubSeqProperties
<1> HIDE DEF u
<1>8. /\ m \in LexerFields /\ m.pos = k - 1 /\ m.text = t /\ m.line = l.line
      /\ m.style = l.style /\ m.err = l.err /\ m.hold = l.hold
  BY <1>6, <1>7 DEF LexerObjects, LexerFields
<1> HIDE DEF m
<1>9. \A i \in l.pos + 1..m.pos : t[i] # "\n"
  BY <1>2, <1>5, <1>8
<1>10. Goes(l, m)
  BY <1>6, <1>8, <1>9, PassedOnLine
<1>11. Goes(m, Return(m, "IDENT"))
  BY <1>10, ReturnRight, TokensKnown DEF Goes, Later, OnText
<1>12. QED
  BY <1>3, <1>10, <1>11, GoesGoes

LEMMA DigitsKnown == \A c \in Digit : DigitValue[c] \in Nat
<1>1. Digit = {"0", "1", "5"}
  BY DEF Digit, DigitValue
<1>2. DigitValue["0"] = 0 /\ DigitValue["1"] = 1 /\ DigitValue["5"] = 5
  BY DEF DigitValue
<1>3. QED
  BY <1>1, <1>2

\* A row of digits is read as an integer.
LEMMA WholeRight ==
  ASSUME NEW t, NEW s \in Int, NEW p \in Int, s <= p, \A i \in s..p - 1 : t[i] \in Digit
  PROVE  Whole(t, s, p) \in Int
<1> DEFINE Body(w) == [n \in 0..p - s |->
                         IF n = 0 THEN 0 ELSE 10 * w[n - 1] + DigitValue[t[s + n - 1]]]
           whole == CHOOSE w : w = Body(w)
           d == [n \in Nat |-> IF n < p - s THEN DigitValue[t[s + n]] ELSE 0]
           step == [n \in Nat |-> [v \in Int |-> 10 * v + d[n]]]
<1>1. \A n \in Nat : d[n] \in Int
  <2> SUFFICES ASSUME NEW n \in Nat PROVE d[n] \in Int
    OBVIOUS
  <2>1. CASE n < p - s
    <3>1. s + n \in s..p - 1
      BY <2>1
    <3>2. t[s + n] \in Digit
      BY <3>1
    <3>3. d[n] = DigitValue[t[s + n]]
      BY <2>1
    <3>4. QED
      BY <3>2, <3>3, DigitsKnown
  <2>2. CASE ~(n < p - s)
    BY <2>2
  <2>3. QED
    BY <2>1, <2>2
<1>2. StepsIn(Int, step)
  <2> HIDE DEF d
  <2>1. QED
    BY <1>1 DEF StepsIn
<1>3. PICK f : Follows(f, Int, 0, step)
  <2> HIDE DEF step
  <2>1. QED
    BY <1>2, Recursion
<1>4. /\ f \in [Nat -> Int] /\ f[0] = 0
      /\ \A n \in Nat : f[n + 1] = 10 * f[n] + d[n]
  <2> HIDE DEF d
  <2>1. /\ f \in [Nat -> Int] /\ f[0] = 0
        /\ \A n \in Nat : f[n + 1] = step[n][f[n]]
    BY <1>3 DEF Follows
  <2>2. \A n \in Nat : f[n] \in Int
    BY <2>1
  <2>3. QED
    BY <2>1, <2>2
<1> DEFINE g == [n \in 0..p - s |-> f[n]]
<1>5. g = Body(g)
  <2> SUFFICES ASSUME NEW n \in 0..p - s PROVE g[n] = Body(g)[n]
    OBVIOUS
  <2>1. CASE n = 0
    BY <1>4, <2>1
  <2>2. CASE n # 0
    <3>1. n - 1 \in Nat /\ n - 1 \in 0..p - s /\ n - 1 < p - s /\ (n - 1) + 1 = n
      BY <2>2
    <3>2. f[n] = 10 * f[n - 1] + d[n - 1]
      BY <1>4, <3>1
    <3>3. d[n - 1] = DigitValue[t[s + (n - 1)]] /\ s + (n - 1) = s + n - 1
      BY <3>1
    <3> HIDE DEF d
    <3>4. QED
      BY <2>2, <3>1, <3>2, <3>3
  <2>3. QED
    BY <2>1, <2>2
<1>6. whole = Body(whole)
  <2> HIDE DEF Body, g
  <2>1. QED
    BY <1>5
<1>7. \A n \in 0..p - s : whole[n] \in Int
  <2> DEFINE S == {n \in Nat : n <= p - s => whole[n] \in Int}
  <2> HIDE DEF whole, d
  <2>1. whole[0] = 0
    BY <1>6
  <2>2. ASSUME NEW n \in Nat, n + 1 <= p - s, whole[n] \in Int PROVE whole[n + 1] \in Int
    <3>1. n + 1 \in 0..p - s /\ n + 1 # 0 /\ (n + 1) - 1 = n
      BY <2>2
    <3>2. whole[n + 1] = 10 * whole[n] + DigitValue[t[s + (n + 1) - 1]]
      BY <1>6, <3>1
    <3>3. s + (n + 1) - 1 \in s..p - 1
      BY <2>2
    <3>4. DigitValue[t[s + (n + 1) - 1]] \in Nat
      BY <3>3, DigitsKnown
    <3>5. QED
      BY <2>2, <3>2, <3>4
  <2>3. 0 \in S /\ \A n \in Nat : n \in S => n + 1 \in S
    BY <2>1, <2>2
  <2> HIDE DEF S
  <2>4. Nat \subseteq S
    BY <2>3, SetInduction
  <2>5. QED
    BY <2>4 DEF S
<1>8. Whole(t, s, p) = whole[p - s]
  BY DEF Whole
<1> HIDE DEF whole
<1>9. p - s \in 0..p - s
  OBVIOUS
<1>10. QED
  BY <1>7, <1>8, <1>9

LEMMA NumberRight ==
  ASSUME NEW l \in LexerObjects, l.pos >= 1
  PROVE  Goes(l, Number(l))
<1> DEFINE t == l.text
           s == IF t[l.pos] \in {"+", "-"} THEN l.pos + 1 ELSE l.pos
           p == FirstOutside(t, s, Digit)
           e == IF p <= Len(t) /\ t[p] = "." THEN FirstOutside(t, p + 1, Digit) ELSE p
           tenth == IF e > p + 1 THEN DigitValue[t[p + 1]] ELSE 0
           sign == IF t[l.pos] = "-" THEN -1 ELSE 1
           n == sign * (10 * Whole(t, s, p) + tenth)
           m == [l EXCEPT !.pos = e - 1, !.num = n]
<1>1. /\ t \in Seq(Chars) /\ Len(t) \in Nat /\ l.pos \in 1..Len(t)
  BY LexerTypes
<1>2. Number(l) = IF p > s \/ e > p + 1 THEN Return(m, "NUM") ELSE Throw(l)
  BY DEF Number
<1>3. "\n" \notin Digit
  BY DEF Digit, DigitValue
<1>4. s \in l.pos..Len(t) + 1 /\ s \in Nat /\ s \in Int
  BY <1>1
<1> HIDE DEF s, e
<1>5. p \in s..Len(t) + 1 /\ p \in Nat
  BY <1>1, <1>4, FirstOutsideRight
<1>6. \A i \in s..p - 1 : t[i] \in Digit
  BY <1>1, <1>4, FirstOutsideRight
<1> HIDE DEF p
<1>7. /\ e \in p..Len(t) + 1 /\ e \in Nat
      /\ \A i \in p + 1..e - 1 : t[i] \in Digit
      /\ e > p => t[p] = "."
  <2>1. CASE p <= Len(t) /\ t[p] = "."
    <3>1. e = FirstOutside(t, p + 1, Digit)
      BY <2>1 DEF e
    <3>2. p + 1 \in Nat /\ p + 1 <= Len(t) + 1
      BY <1>1, <1>5, <2>1
    <3>3. e \in p + 1..Len(t) + 1
      BY <1>1, <3>1, <3>2, FirstOutsideRight
    <3>4. \A i \in p + 1..e - 1 : t[i] \in Digit
      BY <1>1, <3>1, <3>2, FirstOutsideRight
    <3>5. QED
      BY <1>5, <2>1, <3>3, <3>4
  <2>2. CASE ~(p <= Len(t) /\ t[p] = ".")
    <3>1. e = p
      BY <2>2 DEF e
    <3>2. QED
      BY <1>5, <3>1
  <2>3. QED
    BY <2>1, <2>2
<1>8. n \in Int
  <2>1. Whole(t, s, p) \in Int
    BY <1>4, <1>5, <1>6, WholeRight
  <2>2. tenth \in Int
    <3>1. e > p + 1 => p + 1 \in p + 1..e - 1
      BY <1>5, <1>7
    <3>2. QED
      BY <1>7, <3>1, DigitsKnown
  <2>3. sign \in Int
    OBVIOUS
  <2> HIDE DEF tenth, sign
  <2>4. 10 * Whole(t, s, p) + tenth \in Int
    BY <2>1, <2>2
  <2>5. QED
    BY <2>3, <2>4
<1> HIDE DEF n
<1>9. CASE p > s \/ e > p + 1
  <2>1. e - 1 \in l.pos..Len(t) /\ e - 1 \in Nat
    BY <1>1, <1>4, <1>5, <1>7, <1>9
  <2>2. /\ m \in LexerFields /\ m.pos = e - 1 /\ m.text = t /\ m.line = l.line
        /\ m.style = l.style /\ m.err = l.err /\ m.hold = l.hold
    BY <1>8, <2>1 DEF LexerObjects, LexerFields
  <2> HIDE DEF m
  <2>3. \A i \in l.pos + 1..m.pos : t[i] # "\n"
    <3> SUFFICES ASSUME NEW i \in l.pos + 1..e - 1 PROVE t[i] # "\n"
      BY <2>2
    <3>1. i \in s..p - 1 \/ (i = p /\ e > p) \/ i \in p + 1..e - 1
      BY <1>1, <1>4, <1>5, <1>7 DEF s
    <3>2. QED
      BY <1>3, <1>6, <1>7, <3>1
  <2>4. Goes(l, m)
    BY <2>1, <2>2, <2>3, PassedOnLine
  <2>5. Goes(m, Return(m, "NUM"))
    BY <2>4, ReturnRight, TokensKnown DEF Goes, Later, OnText
  <2>6. QED
    BY <1>2, <1>9, <2>4, <2>5, GoesGoes
<1>10. CASE ~(p > s \/ e > p + 1)
  BY <1>2, <1>10, ThrowRight
<1>11. QED
  BY <1>9, <1>10

-----------------------------------------------------------------------------
(* The loops of the lexer *)

\* What a loop, or the rest of one, makes of a lexer.
Loops == {f \in [LexerObjects -> LexerObjects] : \A l \in LexerObjects : Goes(l, f[l])}

\* A character is appended to the string.
LEMMA TakeRight ==
  ASSUME NEW l \in LexerObjects, NEW k \in 1..2, l.pos + k <= Len(l.text),
         \A i \in l.pos + 1..l.pos + k : l.text[i] # "\n", NEW x \in Chars
  PROVE  Goes(l, Take(l, k, x))
<1> DEFINE m == Take(l, k, x)
           s == Append(l.str, x)
<1>1. l.pos \in Nat /\ Len(l.text) \in Nat /\ l.str \in Seq(Chars)
  BY LexerTypes
<1>2. s \in Seq(Chars) /\ l.pos + k \in Nat /\ l.pos + k \in l.pos..Len(l.text)
  BY <1>1
<1>3. m = [l EXCEPT !.pos = @ + k, !.str = s]
  BY DEF Take
<1> HIDE DEF s, m
<1>4. /\ m \in LexerFields /\ m.pos = l.pos + k /\ m.text = l.text /\ m.line = l.line
      /\ m.style = l.style /\ m.err = l.err /\ m.hold = l.hold
  BY <1>2, <1>3 DEF LexerObjects, LexerFields
<1>5. QED
  BY <1>2, <1>4, PassedOnLine DEF m

LEMMA CharsKnown ==
  /\ EOF \notin Chars /\ {"\n", "n", "\"", "'", "\\"} \subseteq Chars
  /\ "\n" \notin {"\"", "'", "\\", "n"}
BY DEF EOF, Chars, Space, Letter, Digit, DigitValue, CharToken

LEMMA PeekRight ==
  ASSUME NEW l \in LexerObjects
  PROVE  Peek(l) # EOF => /\ l.pos < Len(l.text) /\ l.pos + 1 \in 1..Len(l.text)
                          /\ Peek(l) = l.text[l.pos + 1] /\ Peek(l) \in Chars
<1>1. l.text \in Seq(Chars) /\ Len(l.text) \in Nat /\ l.pos \in 0..Len(l.text)
  BY LexerTypes
<1>2. QED
  BY <1>1, ElementOfSeq DEF Peek

LEMMA QuotedFromRight ==
  ASSUME NEW l \in LexerObjects, NEW f \in Loops
  PROVE  Goes(l, QuotedFrom(l, f))
<1> DEFINE c == Peek(l)
           d == IF l.pos + 1 < Len(l.text) THEN l.text[l.pos + 2] ELSE EOF
           x == IF d = "n" THEN "\n" ELSE d
           q == QuoteChar(l)
<1>1. QuotedFrom(l, f) =
        CASE c \in {EOF, "\n"} -> Throw(l)
          [] c = q -> Return([l EXCEPT !.pos = @ + 1], "STRING")
          [] c = "\\" -> IF d \in {q, "n", "\\"} THEN f[Take(l, 2, x)] ELSE Throw(l)
          [] OTHER -> f[Take(l, 1, c)]
  BY DEF QuotedFrom
<1>2. q \in {"'", "\""}
  BY DEF QuoteChar
<1>3. c # EOF => l.pos < Len(l.text) /\ c = l.text[l.pos + 1] /\ c \in Chars
  BY PeekRight
<1>4. l.text \in Seq(Chars) /\ Len(l.text) \in Nat /\ l.pos \in 0..Len(l.text)
  BY LexerTypes
<1>5. d # EOF => l.pos + 2 \in 1..Len(l.text) /\ d = l.text[l.pos + 2]
  BY <1>4
<1> HIDE DEF c, q, d
<1>6. CASE c \in {EOF, "\n"}
  <2>1. QuotedFrom(l, f) = Throw(l)
    BY <1>1, <1>2, <1>6, CharsKnown
  <2>2. QED
    BY <2>1, ThrowRight
<1>7. CASE c \notin {EOF, "\n"} /\ c = q
  <2> DEFINE m == [l EXCEPT !.pos = @ + 1]
  <2>1. QuotedFrom(l, f) = Return(m, "STRING")
    BY <1>1, <1>2, <1>7, CharsKnown
  <2>2. Goes(l, m)
    BY <1>3, <1>7, TakenRight
  <2> HIDE DEF m
  <2>3. Goes(m, Return(m, "STRING"))
    BY <2>2, ReturnRight, TokensKnown DEF Goes, Later, OnText
  <2>4. QED
    BY <2>1, <2>2, <2>3, GoesGoes
<1>8. CASE c \notin {EOF, "\n", q} /\ c = "\\"
  <2>1. CASE d \in {q, "n", "\\"}
    <3>1. QuotedFrom(l, f) = f[Take(l, 2, x)]
      BY <1>1, <1>8, <2>1
    <3>2. x \in Chars /\ d # EOF /\ d # "\n"
      BY <1>2, <2>1, CharsKnown
    <3>3. \A i \in l.pos + 1..l.pos + 2 : l.text[i] # "\n"
      <4>1. \A i \in l.pos + 1..l.pos + 2 : i = l.pos + 1 \/ i = l.pos + 2
        BY <1>4
      <4>2. QED
        BY <1>3, <1>5, <1>8, <3>2, <4>1
    <3>4. l.pos + 2 <= Len(l.text)
      BY <1>4, <1>5, <3>2
    <3> HIDE DEF x
    <3>5. Goes(l, Take(l, 2, x))
      BY <3>2, <3>3, <3>4, TakeRight
    <3>6. Goes(Take(l, 2, x), f[Take(l, 2, x)])
      BY <3>5 DEF Goes, Later, OnText, Loops
    <3>7. QED
      BY <3>1, <3>5, <3>6, GoesGoes
  <2>2. CASE d \notin {q, "n", "\\"}
    <3>1. QuotedFrom(l, f) = Throw(l)
      BY <1>1, <1>8, <2>2
    <3>2. QED
      BY <3>1, ThrowRight
  <2>3. QED
    BY <2>1, <2>2
<1>9. CASE c \notin {EOF, "\n", q, "\\"}
  <2>1. QuotedFrom(l, f) = f[Take(l, 1, c)]
    BY <1>1, <1>9
  <2>2. \A i \in l.pos + 1..l.pos + 1 : l.text[i] # "\n"
    BY <1>3, <1>4, <1>9
  <2>3. l.pos + 1 <= Len(l.text) /\ c \in Chars
    BY <1>3, <1>4, <1>9
  <2>4. Goes(l, Take(l, 1, c))
    BY <2>2, <2>3, TakeRight
  <2>5. Goes(Take(l, 1, c), f[Take(l, 1, c)])
    BY <2>4 DEF Goes, Later, OnText, Loops
  <2>6. QED
    BY <2>1, <2>4, <2>5, GoesGoes
<1>10. QED
  BY <1>6, <1>7, <1>8, <1>9

\* The loop over the characters of a string, however long, is such a function.
LEMMA QuotedLoop ==
  /\ \A n \in Nat : QuotedUpTo[n] \in Loops
  /\ QuotedUpTo[0] = [l \in LexerObjects |-> Throw(l)]
  /\ \A n \in Nat : QuotedUpTo[n + 1] = [l \in LexerObjects |-> QuotedFrom(l, QuotedUpTo[n])]
<1> DEFINE Body(f) == [n \in Nat |->
              [l \in LexerObjects |-> IF n = 0 THEN Throw(l) ELSE QuotedFrom(l, f[n - 1])]]
           base == [l \in LexerObjects |-> Throw(l)]
           Again(f) == [l \in LexerObjects |-> QuotedFrom(l, f)]
           step == [n \in Nat |-> [f \in Loops |-> Again(f)]]
<1>1. base \in Loops
  BY ThrowRight DEF Loops, Goes, Later, OnText
<1>2. \A f \in Loops : Again(f) \in Loops
  BY QuotedFromRight DEF Loops, Goes, Later, OnText
<1> HIDE DEF Again, base
<1>3. StepsIn(Loops, step)
  BY <1>2 DEF StepsIn
<1>4. PICK g : Follows(g, Loops, base, step)
  <2> HIDE DEF step
  <2>1. QED
    BY <1>1, <1>3, Recursion
<1>5. /\ g \in [Nat -> Loops] /\ g[0] = base
      /\ \A n \in Nat : g[n + 1] = Again(g[n])
  <2>1. \A n \in Nat : g[n] \in Loops
    BY <1>4 DEF Follows
  <2>2. QED
    BY <1>4, <2>1 DEF Follows
<1>6. g = Body(g)
  <2> SUFFICES ASSUME NEW n \in Nat PROVE g[n] = Body(g)[n]
    BY <1>5
  <2>1. CASE n = 0
    <3>1. Body(g)[0] = base
      BY DEF base
    <3>2. QED
      BY <1>5, <2>1, <3>1
  <2>2. CASE n # 0
    <3>1. n - 1 \in Nat /\ (n - 1) + 1 = n
      BY <2>2
    <3>2. g[n] = Again(g[n - 1])
      BY <1>5, <3>1
    <3>3. Body(g)[n] = Again(g[n - 1])
      BY <2>2 DEF Again
    <3>4. QED
      BY <3>2, <3>3
  <2>3. QED
    BY <2>1, <2>2
<1>7. QuotedUpTo = Body(QuotedUpTo)
  <2>1. QuotedUpTo = CHOOSE f : f = Body(f)
    BY DEF QuotedUpTo
  <2> HIDE DEF Body
  <2>2. QED
    BY <1>6, <2>1
<1>8. QuotedUpTo[0] = base
  BY <1>7 DEF base
<1>9. ASSUME NEW n \in Nat PROVE QuotedUpTo[n + 1] = Again(QuotedUpTo[n])
  <2>1. n + 1 \in Nat /\ n + 1 # 0 /\ (n + 1) - 1 = n
    OBVIOUS
  <2>2. QuotedUpTo[n + 1] = Body(QuotedUpTo)[n + 1]
    BY <1>7
  <2>3. QED
    BY <2>1, <2>2 DEF Again
<1> DEFINE S == {n \in Nat : QuotedUpTo[n] \in Loops}
<1>10. 0 \in S
  BY <1>1, <1>8
<1>11. \A n \in Nat : n \in S => n + 1 \in S
  BY <1>2, <1>9
<1> HIDE DEF S
<1>12. Nat \subseteq S
  BY <1>10, <1>11, SetInduction
<1>13. QED
  BY <1>8, <1>9, <1>12 DEF S, base, Again

LEMMA QuotedRight ==
  ASSUME NEW l \in LexerObjects
  PROVE  Goes(l, Quoted(l))
<1>1. Len(l.text) + 1 \in Nat
  BY LexerTypes
<1>2. QuotedUpTo[Len(l.text) + 1] \in Loops
  BY <1>1, QuotedLoop
<1>3. QED
  BY <1>2 DEF Quoted, Loops

\* The tokens that begin with a character that is taken.
LEMMA StyleKnown ==
  ASSUME NEW l \in LexerObjects
  PROVE  QuoteChar(l) \in {"'", "\""} /\ CommentChar(l) \in {"#", "%"}
BY DEF QuoteChar, CommentChar

LEMMA SlashRight ==
  ASSUME NEW m \in LexerObjects, NEW f \in Loops
  PROVE  /\ Goes(m, f[SkipLine(m)])
         /\ Peek(m) = "*" => Goes(m, f[SkipBlock([m EXCEPT !.pos = @ + 1])])
<1>1. Goes(m, f[SkipLine(m)])
  <2>1. Goes(m, SkipLine(m))
    BY SkipLineRight
  <2>2. Goes(SkipLine(m), f[SkipLine(m)])
    BY <2>1 DEF Goes, Later, OnText, Loops
  <2>3. QED
    BY <2>1, <2>2, GoesGoes
<1>2. ASSUME Peek(m) = "*" PROVE Goes(m, f[SkipBlock([m EXCEPT !.pos = @ + 1])])
  <2> DEFINE k == [m EXCEPT !.pos = @ + 1]
  <2>1. m.pos < Len(m.text) /\ m.text[m.pos + 1] # "\n"
    BY <1>2, PeekRight DEF EOF
  <2>2. Goes(m, k)
    BY <2>1, TakenRight
  <2> HIDE DEF k
  <2>3. Goes(k, SkipBlock(k))
    BY <2>2, SkipBlockRight DEF Goes, Later, OnText
  <2>4. Goes(SkipBlock(k), f[SkipBlock(k)])
    BY <2>3 DEF Goes, Later, OnText, Loops
  <2>5. Goes(m, f[SkipBlock(k)])
    BY <2>2, <2>3, <2>4, GoesGoes
  <2>6. QED
    BY <2>5 DEF k
<1>3. QED
  BY <1>1, <1>2

\* A character at least is taken, or the text has ended, or the lexer has thrown.
Takes(l, m) == Goes(l, m) /\ (m.tok = "END" \/ m.err \/ m.pos > l.pos)

LEMMA TakesOne ==
  ASSUME NEW l, NEW m, Goes(l, m), m.pos = l.pos + 1, NEW r, Goes(m, r)
  PROVE  Takes(l, r)
<1>1. l.pos \in Nat /\ m.pos \in Nat /\ r.pos \in Nat
  BY DEF Goes, Later, OnText, LexerObjects, LexerFields
<1>2. QED
  BY <1>1, GoesGoes DEF Takes, Goes, Later

LEMMA LexTokenRight ==
  ASSUME NEW l \in LexerObjects, NEW f \in Loops
  PROVE  Takes(l, LexToken(l, f))
<1> DEFINE c == Peek(l)
           m == [l EXCEPT !.pos = @ + 1]
           r == LexToken(l, f)
           slash == CASE Peek(m) = EOF -> Return(m, "SLASH")
                      [] Peek(m) = "/" -> IF l.style.comments = "hash"
                                          THEN Return(m, "SLASH") ELSE f[SkipLine(m)]
                      [] Peek(m) = "*" -> IF l.style.comments # "c"
                                          THEN Return(m, "ASTERISKS")
                                          ELSE f[SkipBlock([m EXCEPT !.pos = @ + 1])]
                      [] OTHER -> Throw(m)
           plain == {"=", "(", ")", "{", "}", "[", "]", ","}
           digits == Digit \cup {".", "+", "-"}
<1>1. r = CASE c = EOF -> Return(l, "END")
            [] c \in {"#", "%"} ->
                 IF l.style.comments = "c" \/ CommentChar(l) # c
                 THEN Char(m) ELSE f[SkipLine(m)]
            [] c = "/" -> slash
            [] c \in plain -> Char(m)
            [] c \in {"\"", "'"} ->
                 IF QuoteChar(l) # c THEN Char(m) ELSE Quoted([m EXCEPT !.str = <<>>])
            [] c \in digits -> Number(m)
            [] c \in Letter -> Identifier(m)
            [] OTHER -> Throw(m)
  BY DEF LexToken
<1>2. c # EOF => l.pos < Len(l.text) /\ c = l.text[l.pos + 1]
  BY PeekRight
<1>3. /\ "\n" \notin plain /\ "\n" \notin digits /\ "\n" \notin Letter
      /\ "\n" \notin {"#", "%", "/", "\"", "'"}
      /\ EOF \notin plain /\ EOF \notin digits /\ EOF \notin Letter
      /\ EOF \notin {"#", "%", "/", "\"", "'"}
  BY DEF Letter, Digit, DigitValue, EOF
<1>4. /\ plain \cap {"#", "%", "/"} = {} /\ plain \cap {"\"", "'"} = {}
      /\ digits \cap {"#", "%", "/", "\"", "'"} = {} /\ digits \cap plain = {}
      /\ Letter \cap {"#", "%", "/", "\"", "'"} = {} /\ Letter \cap plain = {}
      /\ Letter \cap digits = {}
  BY DEF Letter, Digit, DigitValue
<1> HIDE DEF c, plain, digits, r, slash
<1>5. c \notin {EOF, "\n"} => Goes(l, m) /\ m.pos = l.pos + 1 /\ m.pos >= 1
  <2>1. l.pos \in Nat
    BY LexerTypes
  <2> HIDE DEF m
  <2>2. c \notin {EOF, "\n"} => Goes(l, m) /\ m.pos = l.pos + 1
    BY <1>2, TakenRight DEF m
  <2>3. QED
    BY <2>1, <2>2
<1>6. c # EOF => Takes(l, Throw(m))
  <2>1. c # EOF => /\ m \in LexerObjects /\ m.text = l.text /\ m.style = l.style
                   /\ m.hold = l.hold /\ m.pos = l.pos + 1 /\ l.pos \in Nat
    BY <1>2, LexerTypes DEF LexerObjects, LexerFields
  <2> HIDE DEF m
  <2>2. c # EOF => Goes(m, Throw(m)) /\ Throw(m).err
    BY <2>1, ThrowRight
  <2>3. c # EOF => Throw(m).pos \in Nat
    BY <2>2 DEF Goes, Later, OnText, LexerObjects, LexerFields
  <2>4. QED
    BY <2>1, <2>2, <2>3 DEF Takes, Goes, Later, OnText, LineKnown
<1> HIDE DEF m
<1>7. ASSUME c \notin {EOF, "\n"}
      PROVE  /\ Takes(l, Char(m)) /\ Takes(l, f[SkipLine(m)])
             /\ Takes(l, Number(m)) /\ Takes(l, Identifier(m)) /\ Takes(l, Throw(m))
             /\ \A t \in Tokens : Takes(l, Return(m, t))
             /\ Takes(l, Quoted([m EXCEPT !.str = <<>>]))
  <2>1. m \in LexerObjects /\ m.pos >= 1 /\ Goes(l, m)
    BY <1>5, <1>7 DEF Goes, Later, OnText
  <2>2. /\ Goes(m, Char(m)) /\ Goes(m, f[SkipLine(m)]) /\ Goes(m, Number(m))
        /\ Goes(m, Identifier(m)) /\ Goes(m, Throw(m))
    BY <2>1, CharRight, SlashRight, NumberRight, IdentifierRight, ThrowRight
  <2>3. \A t \in Tokens : Goes(m, Return(m, t))
    BY <2>1, ReturnRight
  <2> DEFINE k == [m EXCEPT !.str = <<>>]
  <2>4. Goes(m, k)
    <3>1. <<>> \in Seq(Chars)
      OBVIOUS
    <3>2. /\ k \in LexerObjects /\ k.text = m.text /\ k.style = m.style /\ k.pos = m.pos
          /\ k.hold = m.hold /\ k.err = m.err /\ k.line = m.line /\ m.pos \in Nat
      BY <2>1, <3>1 DEF LexerObjects, LexerFields
    <3> HIDE DEF k
    <3>3. QED
      BY <2>1, <3>2 DEF Goes, Later, OnText, LineKnown
  <2> HIDE DEF k
  <2>5. Goes(k, Quoted(k))
    BY <2>4, QuotedRight DEF Goes, Later, OnText
  <2>6. Goes(m, Quoted(k))
    BY <2>1, <2>4, <2>5, GoesGoes
  <2>7. \A r1 : Goes(m, r1) => Takes(l, r1)
    BY <1>5, <1>7, TakesOne
  <2>8. QED
    BY <2>1, <2>2, <2>3, <2>6, <2>7 DEF k
<1>8. CASE c = EOF
  <2>1. r = Return(l, "END")
    BY <1>1, <1>8, <1>3
  <2>2. QED
    <3>1. Goes(l, r) /\ r.tok = "END"
      BY <2>1, ReturnRight, TokensKnown DEF Return, LexerObjects, LexerFields
    <3>2. QED
      BY <3>1 DEF r, Takes
<1>9. CASE c \in {"#", "%"}
  <2>1. r = Char(m) \/ r = f[SkipLine(m)]
    BY <1>1, <1>3, <1>4, <1>9
  <2>2. QED
    BY <1>3, <1>7, <1>9, <2>1 DEF r
<1>10. CASE c = "/"
  <2>1. r = slash
    BY <1>1, <1>3, <1>4, <1>10
  <2>2. m \in LexerObjects /\ Goes(l, m)
    BY <1>3, <1>5, <1>10 DEF Goes, Later, OnText
  <2>3. \/ slash = Return(m, "SLASH") \/ slash = Return(m, "ASTERISKS") \/ slash = Throw(m)
        \/ slash = f[SkipLine(m)]
        \/ Peek(m) = "*" /\ slash = f[SkipBlock([m EXCEPT !.pos = @ + 1])]
    BY DEF slash, EOF
  <2>4. Peek(m) = "*" => Takes(l, f[SkipBlock([m EXCEPT !.pos = @ + 1])])
    BY <1>3, <1>5, <1>10, <2>2, SlashRight, TakesOne
  <2>5. QED
    BY <1>3, <1>7, <1>10, <2>1, <2>3, <2>4, TokensKnown DEF r
<1>11. CASE c \in plain
  <2>1. r = Char(m)
    BY <1>1, <1>3, <1>4, <1>11
  <2>2. QED
    BY <1>3, <1>7, <1>11, <2>1 DEF r
<1>12. CASE c \in {"\"", "'"}
  <2>1. r = Char(m) \/ r = Quoted([m EXCEPT !.str = <<>>])
    BY <1>1, <1>3, <1>4, <1>12
  <2>2. QED
    BY <1>3, <1>7, <1>12, <2>1 DEF r
<1>13. CASE c \in digits
  <2>1. r = Number(m)
    BY <1>1, <1>3, <1>4, <1>13
  <2>2. QED
    BY <1>3, <1>7, <1>13, <2>1 DEF r
<1>14. CASE c \in Letter
  <2>1. r = Identifier(m)
    BY <1>1, <1>3, <1>4, <1>14
  <2>2. QED
    BY <1>3, <1>7, <1>14, <2>1 DEF r
<1>15. CASE c \notin {EOF, "#", "%", "/", "\"", "'"} /\ c \notin plain /\ c \notin digits /\ c \notin Letter
  <2>1. r = Throw(m)
    BY <1>1, <1>15
  <2>2. QED
    BY <1>6, <1>15, <2>1 DEF r
<1>16. QED
  BY <1>8, <1>9, <1>10, <1>11, <1>12, <1>13, <1>14, <1>15

LEMMA ScanFromRight ==
  ASSUME NEW l \in LexerObjects, NEW f \in Loops
  PROVE  Takes(l, LexToken(SkipSpace(l), f))
<1>1. Goes(l, SkipSpace(l))
  BY SkipSpaceRight
<1>2. SkipSpace(l) \in LexerObjects
  BY <1>1 DEF Goes, Later, OnText
<1>3. Takes(SkipSpace(l), LexToken(SkipSpace(l), f))
  BY <1>2, LexTokenRight
<1>4. /\ l.pos \in Nat /\ SkipSpace(l).pos \in Nat
      /\ LexToken(SkipSpace(l), f) \in LexerObjects
  BY <1>2, <1>3, LexerTypes DEF Takes, Goes, Later, OnText
<1>5. LexToken(SkipSpace(l), f).pos \in Nat
  BY <1>4, LexerTypes
<1>6. QED
  BY <1>1, <1>3, <1>4, <1>5, GoesGoes DEF Takes, Goes, Later

\* So is the loop over comments.
LEMMA ScanLoop ==
  /\ \A n \in Nat : ScanUpTo[n] \in Loops
  /\ ScanUpTo[0] = [l \in LexerObjects |-> Throw(l)]
  /\ \A n \in Nat :
       ScanUpTo[n + 1] = [l \in LexerObjects |-> LexToken(SkipSpace(l), ScanUpTo[n])]
<1> DEFINE Body(f) == [n \in Nat |->
              [l \in LexerObjects |-> IF n = 0 THEN Throw(l) ELSE LexToken(SkipSpace(l), f[n - 1])]]
           base == [l \in LexerObjects |-> Throw(l)]
           Again(f) == [l \in LexerObjects |-> LexToken(SkipSpace(l), f)]
           step == [n \in Nat |-> [f \in Loops |-> Again(f)]]
<1>1. base \in Loops
  BY ThrowRight DEF Loops, Goes, Later, OnText
<1>2. \A f \in Loops : Again(f) \in Loops
  BY ScanFromRight DEF Loops, Takes, Goes, Later, OnText
<1> HIDE DEF Again, base
<1>3. StepsIn(Loops, step)
  BY <1>2 DEF StepsIn
<1>4. PICK g : Follows(g, Loops, base, step)
  <2> HIDE DEF step
  <2>1. QED
    BY <1>1, <1>3, Recursion
<1>5. /\ g \in [Nat -> Loops] /\ g[0] = base
      /\ \A n \in Nat : g[n + 1] = Again(g[n])
  <2>1. \A n \in Nat : g[n] \in Loops
    BY <1>4 DEF Follows
  <2>2. QED
    BY <1>4, <2>1 DEF Follows
<1>6. g = Body(g)
  <2> SUFFICES ASSUME NEW n \in Nat PROVE g[n] = Body(g)[n]
    BY <1>5
  <2>1. CASE n = 0
    <3>1. Body(g)[0] = base
      BY DEF base
    <3>2. QED
      BY <1>5, <2>1, <3>1
  <2>2. CASE n # 0
    <3>1. n - 1 \in Nat /\ (n - 1) + 1 = n
      BY <2>2
    <3>2. g[n] = Again(g[n - 1])
      BY <1>5, <3>1
    <3>3. Body(g)[n] = Again(g[n - 1])
      BY <2>2 DEF Again
    <3>4. QED
      BY <3>2, <3>3
  <2>3. QED
    BY <2>1, <2>2
<1>7. ScanUpTo = Body(ScanUpTo)
  <2>1. ScanUpTo = CHOOSE f : f = Body(f)
    BY DEF ScanUpTo
  <2> HIDE DEF Body
  <2>2. QED
    BY <1>6, <2>1
<1>8. ScanUpTo[0] = base
  BY <1>7 DEF base
<1>9. ASSUME NEW n \in Nat PROVE ScanUpTo[n + 1] = Again(ScanUpTo[n])
  <2>1. n + 1 \in Nat /\ n + 1 # 0 /\ (n + 1) - 1 = n
    OBVIOUS
  <2>2. ScanUpTo[n + 1] = Body(ScanUpTo)[n + 1]
    BY <1>7
  <2>3. QED
    BY <2>1, <2>2 DEF Again
<1> DEFINE S == {n \in Nat : ScanUpTo[n] \in Loops}
<1>10. 0 \in S
  BY <1>1, <1>8
<1>11. \A n \in Nat : n \in S => n + 1 \in S
  BY <1>2, <1>9
<1> HIDE DEF S
<1>12. Nat \subseteq S
  BY <1>10, <1>11, SetInduction
<1>13. QED
  BY <1>8, <1>9, <1>12 DEF S, base, Again

\* get_token() takes the lexer to a later place of its text, on the line that it
\* has counted.
LEMMA GetTokenRight ==
  ASSUME NEW l \in LexerObjects
  PROVE  /\ Later(l, GetToken(l)) /\ GetToken(l).hold = FALSE
         /\ ~l.hold => Takes(l, GetToken(l))
<1> DEFINE n == Len(l.text)
<1>1. n \in Nat /\ l.hold \in BOOLEAN
  BY LexerTypes
<1> HIDE DEF n
<1>2. ScanUpTo[n] \in Loops
  BY <1>1, ScanLoop
<1>3. Scan(l) = LexToken(SkipSpace(l), ScanUpTo[n])
  BY <1>1, ScanLoop DEF Scan, n
<1>4. Takes(l, Scan(l))
  BY <1>2, <1>3, ScanFromRight
<1>5. CASE l.hold
  <2> DEFINE m == [l EXCEPT !.hold = FALSE]
  <2>1. GetToken(l) = m
    BY <1>5 DEF GetToken
  <2>2. m.hold = FALSE
    BY DEF LexerObjects, LexerFields
  <2>3. QED
    BY <1>5, <2>1, <2>2, HoldRight
<1>6. CASE ~l.hold
  <2>1. GetToken(l) = Scan(l) /\ l.hold = FALSE
    BY <1>1, <1>6 DEF GetToken
  <2>2. QED
    BY <1>4, <2>1 DEF Takes, Goes
<1>7. QED
  BY <1>1, <1>5, <1>6

LEMMA ExpectRight ==
  ASSUME NEW l \in LexerObjects, NEW t, NEW s
  PROVE  /\ Later(l, ExpectCurrent(l, t)) /\ Later(l, Expect(l, t))
         /\ Later(l, ExpectIdent(l, s)) /\ Later(l, PeekToken(l))
<1>1. \A m \in LexerObjects : Later(m, ExpectCurrent(m, t)) /\ Later(m, ExpectName(m, s))
  <2>1. \A m \in LexerObjects : Later(m, m)
    BY LaterSelf
  <2>2. QED
    BY <2>1, ThrowRight DEF ExpectCurrent, ExpectName
<1>2. \A m \in LexerObjects : \A k \in Tokens : Later(m, ExpectCurrent(m, k))
  <2>1. \A m \in LexerObjects : Later(m, m)
    BY LaterSelf
  <2>2. QED
    BY <2>1, ThrowRight DEF ExpectCurrent
<1>3. Later(l, GetToken(l)) /\ GetToken(l) \in LexerObjects
  BY GetTokenRight DEF Later, OnText
<1>4. Later(l, Expect(l, t))
  BY <1>1, <1>3, LaterLater DEF Expect
<1>5. Later(l, Expect(l, "IDENT")) /\ Expect(l, "IDENT") \in LexerObjects
  BY <1>2, <1>3, LaterLater, TokensKnown DEF Expect, Later, OnText
<1>6. Later(l, ExpectIdent(l, s))
  BY <1>1, <1>5, LaterLater DEF ExpectIdent
<1>7. Later(l, PeekToken(l))
  <2>1. Later(l, l)
    BY LaterSelf
  <2>2. Later(GetToken(l), Putback(GetToken(l)))
    BY <1>3, HoldRight
  <2>3. QED
    BY <1>3, <2>1, <2>2, LaterLater DEF PeekToken, PutbackUnlessThrown
<1>8. QED
  BY <1>1, <1>4, <1>6, <1>7

LEMMA GetNumberRight ==
  ASSUME NEW l \in LexerObjects
  PROVE  Later(l, GetDouble(l)) /\ Later(l, GetNonneg(l)) /\ Later(l, GetPositive(l))
<1>1. Later(l, GetDouble(l)) /\ GetDouble(l) \in LexerObjects
  BY ExpectRight DEF GetDouble, Later, OnText
<1>2. \A m \in LexerObjects : \A n \in Int : Later(m, AtLeast(m, n))
  <2>1. \A m \in LexerObjects : Later(m, m)
    BY LaterSelf
  <2>2. QED
    BY <2>1, ThrowRight DEF AtLeast
<1>3. QED
  BY <1>1, <1>2, LaterLater DEF GetNonneg, GetPositive

-----------------------------------------------------------------------------
(* The values of the parser *)

\* The values of any depth.
AllValues == UNION {ValuesUpTo[n] : n \in Nat}

\* The values up to depth n exist for every n: there are approximations of
\* ValuesUpTo up to every n, and any two agree.
LEMMA DepthsExist ==
  ValuesUpTo[0] = {} /\ \A n \in Nat : ValuesUpTo[n + 1] = Built(ValuesUpTo[n])
<1> DEFINE Body(f) == [n \in Nat |-> IF n = 0 THEN {} ELSE Built(f[n - 1])]
           Starts(n, f) == /\ f = [k \in 0..n |-> f[k]] /\ f[0] = {}
                           /\ \A k \in 0..n : k # n => f[k + 1] = Built(f[k])
           S == {n \in Nat : \E f : Starts(n, f)}
<1>1. ASSUME NEW n \in Nat, NEW f, Starts(n, f) PROVE \E g : Starts(n + 1, g)
  <2> DEFINE g == [k \in 0..n + 1 |-> IF k = n + 1 THEN Built(f[n]) ELSE f[k]]
  <2>1. g[0] = {} /\ g = [k \in 0..n + 1 |-> g[k]]
    BY <1>1
  <2>2. \A k \in 0..n + 1 : k # n + 1 => g[k + 1] = Built(g[k])
    <3>1. ASSUME NEW k \in 0..n PROVE g[k + 1] = Built(g[k])
      <4>1. g[k] = f[k]
        OBVIOUS
      <4>2. CASE k = n
        <5>1. n + 1 \in 0..n + 1
          OBVIOUS
        <5>2. g[n + 1] = Built(f[n])
          BY <5>1
        <5> HIDE DEF g
        <5>3. QED
          BY <4>1, <4>2, <5>2
      <4>3. CASE k # n
        <5>1. k + 1 \in 0..n + 1 /\ k + 1 # n + 1 /\ f[k + 1] = Built(f[k])
          BY <1>1, <4>3
        <5>2. g[k + 1] = f[k + 1]
          BY <5>1
        <5> HIDE DEF g
        <5>3. QED
          BY <4>1, <5>1, <5>2
      <4>4. QED
        BY <4>2, <4>3
    <3>2. \A k \in 0..n + 1 : k # n + 1 => k \in 0..n
      OBVIOUS
    <3> HIDE DEF g
    <3>3. QED
      BY <3>1, <3>2
  <2> HIDE DEF g
  <2>3. QED
    BY <2>1, <2>2
<1>2. 0 \in S
  <2> DEFINE f == [k \in 0..0 |-> {}]
  <2>1. Starts(0, f)
    OBVIOUS
  <2> HIDE DEF f
  <2>2. QED
    BY <2>1
<1>3. Nat \subseteq S
  <2> HIDE DEF Starts
  <2>1. \A n \in Nat : n \in S => n + 1 \in S
    BY <1>1
  <2> HIDE DEF S
  <2>2. QED
    BY <1>2, <2>1, SetInduction
<1>4. ASSUME NEW m \in Nat, NEW n \in Nat, NEW f, NEW g, Starts(m, f), Starts(n, g)
      PROVE  \A k \in Nat : k <= m /\ k <= n => f[k] = g[k]
  <2> DEFINE A == {k \in Nat : k <= m /\ k <= n => f[k] = g[k]}
  <2>1. 0 \in A
    BY <1>4
  <2>2. ASSUME NEW k \in Nat, k \in A, k + 1 <= m, k + 1 <= n PROVE f[k + 1] = g[k + 1]
    <3>1. k \in 0..m /\ k # m /\ k \in 0..n /\ k # n
      BY <2>2
    <3>2. f[k + 1] = Built(f[k]) /\ g[k + 1] = Built(g[k])
      BY <1>4, <3>1
    <3>3. QED
      BY <2>2, <3>2
  <2>3. \A k \in Nat : k \in A => k + 1 \in A
    BY <2>2
  <2> HIDE DEF A
  <2>4. Nat \subseteq A
    BY <2>1, <2>3, SetInduction
  <2>5. QED
    BY <2>4 DEF A
<1>5. \A n \in Nat : \E f : Starts(n, f)
  BY <1>3
<1> DEFINE F(n) == CHOOSE f : Starts(n, f)
           h == [n \in Nat |-> F(n)[n]]
<1> HIDE DEF Starts, S
<1>6. \A n \in Nat : Starts(n, F(n))
  BY <1>5
<1>7. h[0] = {}
  BY <1>6 DEF Starts
<1>8. ASSUME NEW n \in Nat PROVE h[n + 1] = Built(h[n])
  <2> DEFINE f == F(n)
             g == F(n + 1)
  <2>1. Starts(n, f) /\ Starts(n + 1, g)
    BY <1>6
  <2>2. h[n] = f[n] /\ h[n + 1] = g[n + 1]
    OBVIOUS
  <2> HIDE DEF f, g, h
  <2>3. f[n] = g[n]
    BY <1>4, <2>1
  <2>4. g[n + 1] = Built(g[n])
    BY <2>1 DEF Starts
  <2>5. QED
    BY <2>2, <2>3, <2>4
<1>9. h = Body(h)
  <2>1. \A n \in Nat : n # 0 => n - 1 \in Nat /\ (n - 1) + 1 = n
    OBVIOUS
  <2>2. h = [n \in Nat |-> h[n]]
    OBVIOUS
  <2> HIDE DEF h
  <2>3. \A n \in Nat : n # 0 => h[n] = Built(h[n - 1])
    BY <1>8, <2>1
  <2>4. QED
    BY <1>7, <2>2, <2>3
<1>10. ValuesUpTo = Body(ValuesUpTo)
  <2>1. ValuesUpTo = CHOOSE f : f = Body(f)
    BY DEF ValuesUpTo
  <2> HIDE DEF Body, h
  <2>2. QED
    BY <1>9, <2>1
<1>11. QED
  <2>1. \A n \in Nat : n + 1 \in Nat /\ n + 1 # 0 /\ (n + 1) - 1 = n
    OBVIOUS
  <2>2. QED
    BY <1>10, <2>1

LEMMA BuiltGrows ==
  ASSUME NEW S, NEW T, S \subseteq T
  PROVE  Built(S) \subseteq Built(T)
<1>1. \A w \in Seq(S) : w \in Seq(T)
  BY SeqMonotonic
<1>2. Seq(S) \subseteq Seq(T)
  BY <1>1
<1>3. QED
  BY <1>2, Zenon DEF Built

LEMMA DepthsGrow ==
  ASSUME NEW m \in Nat, NEW n \in Nat, m <= n
  PROVE  ValuesUpTo[m] \subseteq ValuesUpTo[n]
<1> DEFINE G == {k \in Nat : ValuesUpTo[k] \subseteq ValuesUpTo[k + 1]}
           S == {k \in Nat : ValuesUpTo[m] \subseteq ValuesUpTo[m + k]}
<1>1. 0 \in G
  BY DepthsExist
<1>2. ASSUME NEW k \in Nat, k \in G PROVE k + 1 \in G
  <2>1. k + 1 \in Nat
    OBVIOUS
  <2>2. /\ ValuesUpTo[k + 1] = Built(ValuesUpTo[k])
        /\ ValuesUpTo[(k + 1) + 1] = Built(ValuesUpTo[k + 1])
    BY <2>1, DepthsExist
  <2>3. Built(ValuesUpTo[k]) \subseteq Built(ValuesUpTo[k + 1])
    BY <1>2, BuiltGrows
  <2>4. QED
    BY <2>1, <2>2, <2>3
<1> HIDE DEF G
<1>3. Nat \subseteq G
  BY <1>1, <1>2, SetInduction
<1>4. 0 \in S
  OBVIOUS
<1>5. ASSUME NEW k \in Nat, k \in S PROVE k + 1 \in S
  <2>1. ValuesUpTo[m] \subseteq ValuesUpTo[m + k]
    BY <1>5
  <2>2. ValuesUpTo[m + k] \subseteq ValuesUpTo[(m + k) + 1]
    BY <1>3 DEF G
  <2>3. m + (k + 1) = (m + k) + 1
    OBVIOUS
  <2>4. QED
    BY <2>1, <2>2, <2>3
<1> HIDE DEF S
<1>6. Nat \subseteq S
  BY <1>4, <1>5, SetInduction
<1>7. n - m \in S
  BY <1>6
<1>8. m + (n - m) = n
  OBVIOUS
<1>9. QED
  BY <1>7, <1>8 DEF S

\* The elements of a sequence have a depth in common.
LEMMA DepthOfSeq ==
  ASSUME NEW v \in Seq(AllValues)
  PROVE  \E n \in Nat : v \in Seq(ValuesUpTo[n])
<1> DEFINE S == {k \in Nat : k <= Len(v) =>
                   \E n \in Nat : \A i \in 1..k : v[i] \in ValuesUpTo[n]}
<1>0. Len(v) \in Nat /\ \A i \in 1..Len(v) : v[i] \in AllValues
  BY ElementOfSeq, LenProperties
<1>1. 0 \in S
  OBVIOUS
<1>2. ASSUME NEW k \in Nat, k \in S PROVE k + 1 \in S
  <2>0. k + 1 \in Nat
    OBVIOUS
  <2> SUFFICES ASSUME k + 1 <= Len(v)
               PROVE  \E n \in Nat : \A i \in 1..k + 1 : v[i] \in ValuesUpTo[n]
    BY <2>0, Zenon
  <2>1. PICK n \in Nat : \A i \in 1..k : v[i] \in ValuesUpTo[n]
    BY <1>0, <1>2
  <2>2. v[k + 1] \in AllValues
    BY <1>0
  <2>3. PICK m \in Nat : v[k + 1] \in ValuesUpTo[m]
    BY <2>2 DEF AllValues
  <2> DEFINE q == IF m <= n THEN n ELSE m
  <2>4. q \in Nat /\ m <= q /\ n <= q
    OBVIOUS
  <2> HIDE DEF q
  <2>5. ValuesUpTo[m] \subseteq ValuesUpTo[q] /\ ValuesUpTo[n] \subseteq ValuesUpTo[q]
    BY <2>4, DepthsGrow
  <2>6. \A i \in 1..k + 1 : i \in 1..k \/ i = k + 1
    OBVIOUS
  <2>7. \A i \in 1..k + 1 : v[i] \in ValuesUpTo[q]
    BY <2>1, <2>3, <2>5, <2>6
  <2>8. QED
    BY <2>4, <2>7
<1> HIDE DEF S
<1>3. Nat \subseteq S
  BY <1>1, <1>2, SetInduction
<1>4. PICK n \in Nat : \A i \in 1..Len(v) : v[i] \in ValuesUpTo[n]
  <2>1. Len(v) \in S /\ Len(v) <= Len(v)
    BY <1>0, <1>3
  <2>2. QED
    BY <2>1, Zenon DEF S
<1>5. v \in Seq(ValuesUpTo[n])
  <2>1. v = [i \in 1..Len(v) |-> v[i]] /\ v \in [1..Len(v) -> AllValues]
    BY LenProperties
  <2>2. v \in [1..Len(v) -> ValuesUpTo[n]]
    BY <1>4, <2>1
  <2>3. QED
    BY <1>0, <2>2, SeqDef
<1>6. QED
  BY <1>5

\* What a step builds, from the values of S.
LEMMA BuiltOf ==
  ASSUME NEW S
  PROVE  /\ \A n \in Int : NumValue(n) \in Built(S)
         /\ \A s \in Seq(Chars) : StringValue(s) \in Built(S)
         /\ \A v \in Seq(S) : ListValue(v) \in Built(S)
         /\ \A h \in Seq(Chars) : \A v \in Seq(S) : Expression(h, v) \in Built(S)
  BY DEF Built, NumValue, StringValue, ListValue, Expression, Value

\* Nothing else.
LEMMA BuiltOnly ==
  ASSUME NEW S, NEW v \in Built(S)
  PROVE  \/ \E n \in Int : v = NumValue(n)
         \/ \E s \in Seq(Chars) : v = StringValue(s)
         \/ \E w \in Seq(S) : v = ListValue(w)
         \/ \E h \in Seq(Chars), w \in Seq(S) : v = Expression(h, w)
<1>1. CASE v \in [type : {"number"}, num : Int, str : {<<>>}, items : {<<>>}]
  <2>1. v.num \in Int /\ v = NumValue(v.num)
    BY <1>1 DEF NumValue, Value
  <2>2. QED
    BY <2>1
<1>2. CASE v \in [type : {"string"}, num : {0}, str : Seq(Chars), items : {<<>>}]
  <2>1. v.str \in Seq(Chars) /\ v = StringValue(v.str)
    BY <1>2 DEF StringValue, Value
  <2>2. QED
    BY <2>1
<1>3. CASE v \in [type : {"list"}, num : {0}, str : {<<>>}, items : Seq(S)]
  <2>1. v.items \in Seq(S) /\ v = ListValue(v.items)
    BY <1>3 DEF ListValue, Value
  <2>2. QED
    BY <2>1
<1>4. CASE v \in [type : {"expression"}, num : {0}, str : Seq(Chars), items : Seq(S)]
  <2>1. v.str \in Seq(Chars) /\ v.items \in Seq(S) /\ v = Expression(v.str, v.items)
    BY <1>4 DEF Expression, Value
  <2>2. QED
    BY <2>1
<1>5. QED
  BY <1>1, <1>2, <1>3, <1>4 DEF Built

LEMMA ValuesBuilt ==
  /\ \A n \in Int : NumValue(n) \in AllValues
  /\ \A s \in Seq(Chars) : StringValue(s) \in AllValues
  /\ \A v \in Seq(AllValues) : ListValue(v) \in AllValues
  /\ \A h \in Seq(Chars) : \A v \in Seq(AllValues) : Expression(h, v) \in AllValues
<1>1. ValuesUpTo[0 + 1] = Built(ValuesUpTo[0]) /\ 0 + 1 \in Nat
  BY DepthsExist
<1>2. Built(ValuesUpTo[0]) \subseteq AllValues
  BY <1>1 DEF AllValues
<1>3. \A n \in Int : NumValue(n) \in AllValues
  BY <1>2, BuiltOf
<1>4. \A s \in Seq(Chars) : StringValue(s) \in AllValues
  BY <1>2, BuiltOf
<1>5. ASSUME NEW v \in Seq(AllValues)
      PROVE  /\ ListValue(v) \in AllValues
             /\ \A h \in Seq(Chars) : Expression(h, v) \in AllValues
  <2>1. PICK n \in Nat : v \in Seq(ValuesUpTo[n])
    BY DepthOfSeq
  <2>2. ValuesUpTo[n + 1] = Built(ValuesUpTo[n]) /\ n + 1 \in Nat
    BY DepthsExist
  <2>3. Built(ValuesUpTo[n]) \subseteq AllValues
    BY <2>2 DEF AllValues
  <2>4. QED
    BY <2>1, <2>3, BuiltOf
<1>6. QED
  BY <1>3, <1>4, <1>5

\* The parts of a value are values.
LEMMA ValueParts ==
  ASSUME NEW v \in AllValues
  PROVE  /\ v.type \in {"number", "string", "list", "expression"}
         /\ v.num \in Int /\ v.items \in Seq(AllValues)
<1> DEFINE S == {n \in Nat : \A x \in ValuesUpTo[n] :
                   /\ x.type \in {"number", "string", "list", "expression"}
                   /\ x.num \in Int /\ x.items \in Seq(AllValues)}
<1>1. 0 \in S
  BY DepthsExist
<1>2. ASSUME NEW n \in Nat, n \in S PROVE n + 1 \in S
  <2> SUFFICES ASSUME NEW x \in Built(ValuesUpTo[n])
               PROVE  /\ x.type \in {"number", "string", "list", "expression"}
                      /\ x.num \in Int /\ x.items \in Seq(AllValues)
    BY DepthsExist
  <2>1. \A w \in Seq(ValuesUpTo[n]) : w \in Seq(AllValues)
    <3>1. ValuesUpTo[n] \subseteq AllValues
      BY DEF AllValues
    <3>2. QED
      BY <3>1, SeqMonotonic
  <2>2. <<>> \in Seq(AllValues)
    OBVIOUS
  <2>4. CASE \E i \in Int : x = NumValue(i)
    BY <2>2, <2>4 DEF NumValue, Value
  <2>5. CASE \E s \in Seq(Chars) : x = StringValue(s)
    BY <2>2, <2>5 DEF StringValue, Value
  <2>6. CASE \E w \in Seq(ValuesUpTo[n]) : x = ListValue(w)
    BY <2>1, <2>6 DEF ListValue, Value
  <2>7. CASE \E h \in Seq(Chars), w \in Seq(ValuesUpTo[n]) : x = Expression(h, w)
    BY <2>1, <2>7 DEF Expression, Value
  <2>8. QED
    BY <2>4, <2>5, <2>6, <2>7, BuiltOnly
<1> HIDE DEF S
<1>3. Nat \subseteq S
  BY <1>1, <1>2, SetInduction
<1>4. PICK n \in Nat : v \in ValuesUpTo[n]
  BY DEF AllValues
<1>5. QED
  BY <1>3, <1>4 DEF S

-----------------------------------------------------------------------------
(* The calls of the parser *)

Results == [lex : LexerObjects, val : AllValues \cup {NoValue}]

\* r is the result of a call that found the lexer as l: a value, or an
\* exception.
Parsed(l, r) == r \in Results /\ Later(l, r.lex) /\ (~r.lex.err => r.val \in AllValues)

\* What the calls, nested to some depth, return.
Runs == {f \in [Calls -> Results] : \A c \in Calls : Parsed(c.lex, f[c])}

Openings == {"LP", "LB", "LBRACKET"}

Closings == {"RP", "RB", "RBRACKET"}

LEMMA ClosingExactly ==
  ASSUME NEW t \in Openings
  PROVE  ClosingToken(t) \in Closings /\ ClosingToken(t) \in Tokens /\ t \in Tokens
<1>0. DOMAIN TokenOrder = 1..18
  BY DEF TokenOrder
<1>1. /\ \A k \in 1..18 : TokenOrder[k] = "LP" => k = 2
      /\ \A k \in 1..18 : TokenOrder[k] = "LB" => k = 4
      /\ \A k \in 1..18 : TokenOrder[k] = "LBRACKET" => k = 6
      /\ TokenOrder[2] = "LP" /\ TokenOrder[4] = "LB" /\ TokenOrder[6] = "LBRACKET"
      /\ TokenOrder[3] = "RP" /\ TokenOrder[5] = "RB" /\ TokenOrder[7] = "RBRACKET"
  BY DEF TokenOrder
<1> DEFINE k == CHOOSE k \in DOMAIN TokenOrder : TokenOrder[k] = t
<1>2. k \in 1..18 /\ TokenOrder[k] = t
  <2>1. \E i \in DOMAIN TokenOrder : TokenOrder[i] = t
    BY <1>0, <1>1 DEF Openings
  <2>2. QED
    BY <1>0, <2>1
<1>3. ClosingToken(t) = TokenOrder[k + 1]
  BY DEF ClosingToken
<1> HIDE DEF k
<1>4. ClosingToken(t) \in Closings
  <2>1. CASE t = "LP"
    <3>1. k = 2
      BY <1>1, <1>2, <2>1
    <3>2. QED
      BY <1>1, <1>3, <3>1 DEF Closings
  <2>2. CASE t = "LB"
    <3>1. k = 4
      BY <1>1, <1>2, <2>2
    <3>2. QED
      BY <1>1, <1>3, <3>1 DEF Closings
  <2>3. CASE t = "LBRACKET"
    <3>1. k = 6
      BY <1>1, <1>2, <2>3
    <3>2. QED
      BY <1>1, <1>3, <3>1 DEF Closings
  <2>4. QED
    BY <2>1, <2>2, <2>3 DEF Openings
<1>5. QED
  BY <1>4, TokensKnown DEF Closings, Openings

LEMMA ParsedLater ==
  ASSUME NEW l, NEW m, NEW r, Later(l, m), Parsed(m, r)
  PROVE  Parsed(l, r)
BY LaterLater DEF Parsed

LEMMA ResultRight ==
  ASSUME NEW l, NEW m, NEW v \in AllValues, Later(l, m)
  PROVE  Parsed(l, Result(m, v))
BY DEF Parsed, Results, Result, Later, OnText

LEMMA FailedRight ==
  ASSUME NEW l, NEW m, Later(l, m), m.err
  PROVE  Parsed(l, Failed(m))
BY DEF Parsed, Results, Result, Later, OnText, Failed

\* The calls inside a call.
LEMMA CallsRight ==
  ASSUME NEW f \in Runs, NEW l \in LexerObjects
  PROVE  /\ Parsed(l, f[Term(l)])
         /\ \A t \in Tokens : \A b \in BOOLEAN : Parsed(l, f[List(l, t, b)])
<1>1. Term(l) \in Calls /\ Term(l).lex = l
  BY DEF Term, Calls
<1>2. \A t \in Tokens : \A b \in BOOLEAN : List(l, t, b) \in Calls /\ List(l, t, b).lex = l
  BY DEF List, Calls
<1>3. QED
  BY <1>1, <1>2 DEF Runs

LEMMA WithFirstRight ==
  ASSUME NEW l, NEW r, Parsed(l, r), NEW x \in AllValues
  PROVE  Parsed(l, WithFirst(x, r))
<1>1. CASE r.lex.err
  BY <1>1 DEF WithFirst
<1>2. CASE ~r.lex.err
  <2> DEFINE s == <<x>> \o r.val.items
  <2>1. r.val.items \in Seq(AllValues)
    BY <1>2, ValueParts DEF Parsed
  <2>2. <<x>> \in Seq(AllValues)
    OBVIOUS
  <2>3. s \in Seq(AllValues)
    BY <2>1, <2>2, ConcatProperties
  <2>4. WithFirst(x, r) = Result(r.lex, ListValue(s))
    BY <1>2 DEF WithFirst
  <2> HIDE DEF s
  <2>5. ListValue(s) \in AllValues
    BY <2>3, ValuesBuilt
  <2>6. QED
    BY <2>4, <2>5, ResultRight DEF Parsed
<1>3. QED
  BY <1>1, <1>2

LEMMA ListAtRight ==
  ASSUME NEW l, NEW g, Later(l, g), NEW c, c.close \in Tokens, NEW ps, NEW f \in Runs
  PROVE  Parsed(l, ListAt(g, c, ps, f))
<1> DEFINE h == ElementStart(g, ps, c.first)
           r == f[Term(h)]
           tail == f[List(r.lex, c.close, FALSE)]
<1>1. g \in LexerObjects
  BY DEF Later, OnText
<1>2. CASE g.err
  <2>1. ListAt(g, c, ps, f) = Failed(g)
    BY <1>2 DEF ListAt
  <2>2. QED
    BY <1>2, <2>1, FailedRight
<1>3. CASE ~g.err /\ g.tok = c.close
  <2>1. ListAt(g, c, ps, f) = Result(g, ListValue(<<>>))
    BY <1>3 DEF ListAt
  <2>2. <<>> \in Seq(AllValues)
    OBVIOUS
  <2>3. ListValue(<<>>) \in AllValues
    BY <2>2, ValuesBuilt
  <2>4. QED
    BY <2>1, <2>3, ResultRight
<1>4. CASE ~g.err /\ g.tok # c.close
  <2>1. ListAt(g, c, ps, f) = IF h.err THEN Failed(h)
                              ELSE IF r.lex.err THEN r ELSE WithFirst(r.val, tail)
    BY <1>4 DEF ListAt, ListElement, ListGrown
  <2>2. Later(g, h)
    <3>1. Later(g, g)
      BY <1>1, LaterSelf
    <3>2. "COMMA" \in Tokens
      BY TokensKnown
    <3>3. Later(g, Putback(g)) /\ Later(g, ExpectCurrent(g, "COMMA"))
      BY <1>1, <3>2, HoldRight, ExpectRight
    <3>4. QED
      BY <3>1, <3>3 DEF ElementStart
  <2>3. Later(l, h) /\ h \in LexerObjects
    BY <2>2, LaterLater DEF Later, OnText
  <2> HIDE DEF h
  <2>4. Parsed(l, r)
    BY <2>3, CallsRight, ParsedLater
  <2> HIDE DEF r
  <2>5. Later(l, r.lex) /\ r.lex \in LexerObjects /\ (~r.lex.err => r.val \in AllValues)
    BY <2>4 DEF Parsed, Later, OnText
  <2>6. Parsed(l, tail)
    <3>1. FALSE \in BOOLEAN
      OBVIOUS
    <3>2. Parsed(r.lex, tail)
      BY <2>5, <3>1, CallsRight
    <3>3. QED
      BY <2>5, <3>2, ParsedLater
  <2> HIDE DEF tail
  <2>7. ~r.lex.err => Parsed(l, WithFirst(r.val, tail))
    BY <2>5, <2>6, WithFirstRight
  <2>8. QED
    BY <2>1, <2>3, <2>4, <2>7, FailedRight
<1>5. QED
  BY <1>2, <1>3, <1>4

LEMMA AfterIdentRight ==
  ASSUME NEW l, NEW h, Later(l, h), NEW head \in Seq(Chars), NEW ps, ps.expr \in Openings,
         NEW f \in Runs
  PROVE  Parsed(l, AfterIdent(h, head, ps, f))
<1> DEFINE tail == f[List(h, ClosingToken(ps.expr), TRUE)]
<1>1. h \in LexerObjects
  BY DEF Later, OnText
<1>2. CASE h.err
  <2>1. AfterIdent(h, head, ps, f) = Failed(h)
    BY <1>2 DEF AfterIdent
  <2>2. QED
    BY <1>2, <2>1, FailedRight
<1>3. CASE ~h.err /\ h.tok # ps.expr
  <2>1. AfterIdent(h, head, ps, f) = Result(Putback(h), StringValue(head))
    BY <1>3 DEF AfterIdent, BareIdent
  <2>2. Later(l, Putback(h))
    BY <1>1, HoldRight, LaterLater
  <2>3. StringValue(head) \in AllValues
    BY ValuesBuilt
  <2>4. QED
    BY <2>1, <2>2, <2>3, ResultRight
<1>4. CASE ~h.err /\ h.tok = ps.expr
  <2>1. AfterIdent(h, head, ps, f) = ExpressionOf(head, tail)
    BY <1>4 DEF AfterIdent
  <2>2. Parsed(l, tail)
    <3>1. TRUE \in BOOLEAN /\ ClosingToken(ps.expr) \in Tokens
      BY ClosingExactly
    <3>2. Parsed(h, tail)
      BY <1>1, <3>1, CallsRight
    <3>3. QED
      BY <3>2, ParsedLater
  <2> HIDE DEF tail
  <2>3. CASE tail.lex.err
    BY <2>1, <2>2, <2>3 DEF ExpressionOf
  <2>4. CASE ~tail.lex.err
    <3>1. tail.val.items \in Seq(AllValues)
      BY <2>2, <2>4, ValueParts DEF Parsed
    <3>2. Expression(head, tail.val.items) \in AllValues
      BY <3>1, ValuesBuilt
    <3>3. AfterIdent(h, head, ps, f) = Result(tail.lex, Expression(head, tail.val.items))
      BY <2>1, <2>4 DEF ExpressionOf
    <3>4. QED
      BY <2>2, <3>2, <3>3, ResultRight DEF Parsed
  <2>5. QED
    BY <2>3, <2>4
<1>5. QED
  BY <1>2, <1>3, <1>4

LEMMA TermAtRight ==
  ASSUME NEW l, NEW g, Later(l, g), NEW ps, ps.list \in Openings, ps.expr \in Openings,
         NEW f \in Runs
  PROVE  Parsed(l, TermAt(g, ps, f))
<1>1. /\ g \in LexerObjects /\ g.num \in Int /\ g.str \in Seq(Chars)
  BY LexerTypes DEF Later, OnText
<1>2. CASE g.err
  <2>1. TermAt(g, ps, f) = Failed(g)
    BY <1>2 DEF TermAt, TermOf
  <2>2. QED
    BY <1>2, <2>1, FailedRight
<1>3. CASE ~g.err /\ g.tok = "NUM"
  <2>1. TermAt(g, ps, f) = Result(g, NumValue(g.num))
    BY <1>3 DEF TermAt, TermOf, Openings
  <2>2. NumValue(g.num) \in AllValues
    BY <1>1, ValuesBuilt
  <2>3. QED
    BY <2>1, <2>2, ResultRight
<1>4. CASE ~g.err /\ g.tok = "STRING"
  <2>1. TermAt(g, ps, f) = Result(g, StringValue(g.str))
    BY <1>4 DEF TermAt, TermOf, Openings
  <2>2. StringValue(g.str) \in AllValues
    BY <1>1, ValuesBuilt
  <2>3. QED
    BY <2>1, <2>2, ResultRight
<1>5. CASE ~g.err /\ g.tok = "IDENT"
  <2>1. TermAt(g, ps, f) = AfterIdent(GetToken(g), g.str, ps, f)
    BY <1>5 DEF TermAt, TermOf, Openings
  <2>2. Later(l, GetToken(g))
    BY <1>1, GetTokenRight, LaterLater
  <2>3. QED
    BY <1>1, <2>1, <2>2, AfterIdentRight
<1>6. CASE ~g.err /\ g.tok = ps.list
  <2>1. TermAt(g, ps, f) = f[List(g, ClosingToken(ps.list), TRUE)]
    BY <1>6 DEF TermAt, TermOf, Openings
  <2>2. TRUE \in BOOLEAN /\ ClosingToken(ps.list) \in Tokens
    BY ClosingExactly
  <2>3. Parsed(g, f[List(g, ClosingToken(ps.list), TRUE)])
    BY <1>1, <2>2, CallsRight
  <2>4. QED
    BY <2>1, <2>3, ParsedLater
<1>7. CASE ~g.err /\ g.tok \notin {"NUM", "STRING", "IDENT", ps.list}
  <2>1. TermAt(g, ps, f) = Failed(Throw(g))
    BY <1>7 DEF TermAt, TermOf
  <2>2. Later(l, Throw(g)) /\ Throw(g).err
    BY <1>1, ThrowRight, LaterLater
  <2>3. QED
    BY <2>1, <2>2, FailedRight
<1>8. QED
  BY <1>2, <1>3, <1>4, <1>5, <1>6, <1>7

LEMMA CalledRight ==
  ASSUME NEW c \in Calls, NEW ps, ps.list \in Openings, ps.expr \in Openings, NEW f \in Runs
  PROVE  Parsed(c.lex, Called(c, ps, f))
<1>1. c.lex \in LexerObjects /\ c.close \in Tokens \cup {""}
  BY DEF Calls
<1>2. Later(c.lex, GetToken(c.lex))
  BY <1>1, GetTokenRight
<1>3. CASE c.close = ""
  BY <1>2, <1>3, TermAtRight DEF Called
<1>4. CASE c.close # ""
  BY <1>1, <1>2, <1>4, ListAtRight DEF Called
<1>5. QED
  BY <1>3, <1>4

\* Calls nested to any depth return what they should.
LEMMA RunRight ==
  ASSUME NEW ps, ps.list \in Openings, ps.expr \in Openings
  PROVE  /\ \A n \in Nat : Run(ps)[n] \in Runs
         /\ Run(ps)[0] = [c \in Calls |-> Failed(Throw(c.lex))]
         /\ \A n \in Nat : Run(ps)[n + 1] = [c \in Calls |-> Called(c, ps, Run(ps)[n])]
<1> DEFINE Body(f) == [n \in Nat |->
              [c \in Calls |-> IF n = 0 THEN Failed(Throw(c.lex)) ELSE Called(c, ps, f[n - 1])]]
           run == Run(ps)
           base == [c \in Calls |-> Failed(Throw(c.lex))]
           Again(f) == [c \in Calls |-> Called(c, ps, f)]
           step == [n \in Nat |-> [f \in Runs |-> Again(f)]]
<1>1. base \in Runs
  <2>1. \A c \in Calls : c.lex \in LexerObjects
    BY DEF Calls
  <2>2. \A c \in Calls : Later(c.lex, Throw(c.lex)) /\ Throw(c.lex).err
    BY <2>1, ThrowRight
  <2>3. \A c \in Calls : Parsed(c.lex, Failed(Throw(c.lex)))
    BY <2>2, FailedRight
  <2>4. \A c \in Calls : Failed(Throw(c.lex)) \in Results
    BY <2>3 DEF Parsed
  <2>5. QED
    BY <2>3, <2>4 DEF Runs
<1>2. \A f \in Runs : Again(f) \in Runs
  <2> SUFFICES ASSUME NEW f \in Runs PROVE Again(f) \in Runs
    OBVIOUS
  <2>1. \A c \in Calls : Parsed(c.lex, Called(c, ps, f))
    BY CalledRight
  <2>2. \A c \in Calls : Called(c, ps, f) \in Results
    BY <2>1 DEF Parsed
  <2>3. QED
    BY <2>1, <2>2 DEF Runs
<1> HIDE DEF Again, base
<1>3. StepsIn(Runs, step)
  BY <1>2 DEF StepsIn
<1>4. PICK g : Follows(g, Runs, base, step)
  <2> HIDE DEF step
  <2>1. QED
    BY <1>1, <1>3, Recursion
<1>5. /\ g \in [Nat -> Runs] /\ g[0] = base
      /\ \A n \in Nat : g[n + 1] = Again(g[n])
  <2>1. \A n \in Nat : g[n] \in Runs
    BY <1>4 DEF Follows
  <2>2. QED
    BY <1>4, <2>1 DEF Follows
<1>6. g = Body(g)
  <2> SUFFICES ASSUME NEW n \in Nat PROVE g[n] = Body(g)[n]
    BY <1>5
  <2>1. CASE n = 0
    <3>1. Body(g)[0] = base
      BY DEF base
    <3>2. QED
      BY <1>5, <2>1, <3>1
  <2>2. CASE n # 0
    <3>1. n - 1 \in Nat /\ (n - 1) + 1 = n
      BY <2>2
    <3>2. g[n] = Again(g[n - 1])
      BY <1>5, <3>1
    <3>3. Body(g)[n] = Again(g[n - 1])
      BY <2>2 DEF Again
    <3>4. QED
      BY <3>2, <3>3
  <2>3. QED
    BY <2>1, <2>2
<1>7. run = Body(run)
  <2>1. run = CHOOSE f : f = Body(f)
    BY DEF Run
  <2> HIDE DEF Body, run
  <2>2. QED
    BY <1>6, <2>1
<1> HIDE DEF run
<1>8. run[0] = base
  BY <1>7 DEF base
<1>9. ASSUME NEW n \in Nat PROVE run[n + 1] = Again(run[n])
  <2>1. n + 1 \in Nat /\ n + 1 # 0 /\ (n + 1) - 1 = n
    OBVIOUS
  <2>2. run[n + 1] = Body(run)[n + 1]
    BY <1>7
  <2>3. QED
    BY <2>1, <2>2 DEF Again
<1> DEFINE S == {n \in Nat : run[n] \in Runs}
<1>10. 0 \in S
  BY <1>1, <1>8
<1>11. \A n \in Nat : n \in S => n + 1 \in S
  BY <1>2, <1>9
<1> HIDE DEF S
<1>12. Nat \subseteq S
  BY <1>10, <1>11, SetInduction
<1>13. QED
  BY <1>8, <1>9, <1>12 DEF S, run, base, Again

LEMMA ParseTermRight ==
  ASSUME NEW l \in LexerObjects, NEW ps, ps.list \in Openings, ps.expr \in Openings
  PROVE  Parsed(l, ParseTerm(l, ps))
<1>1. 2 * Len(l.text) + 2 \in Nat
  BY LexerTypes
<1>2. Run(ps)[2 * Len(l.text) + 2] \in Runs
  BY <1>1, RunRight
<1>3. QED
  BY <1>2, CallsRight DEF ParseTerm

\* A pair that was parsed: the lexer is later, and unless it has thrown there is
\* a key, a value and a line.
LEMMA ParsePairRight ==
  ASSUME NEW l \in LexerObjects, NEW ps, ps.list \in Openings, ps.expr \in Openings,
         NEW p, p = ParsePair(l, ps)
  PROVE  /\ Later(l, p.lex) /\ p.key \in Seq(Chars) /\ p.line \in Nat
         /\ p.more /\ ~p.lex.err => p.val \in AllValues
<1> DEFINE g == GetToken(l)
           a == Expect(g, "ASSIGN")
           r == PairValue(a, ps)
<1>1. Later(l, g) /\ g \in LexerObjects
  BY GetTokenRight DEF Later, OnText
<1>2. g.str \in Seq(Chars) /\ g.line \in Nat
  BY <1>1, LexerTypes
<1>3. p = IF g.err \/ g.tok # "IDENT"
          THEN [lex |-> g, more |-> FALSE, key |-> g.str, val |-> NoValue, line |-> g.line]
          ELSE [lex |-> r.lex, more |-> TRUE, key |-> g.str, val |-> r.val, line |-> g.line]
  BY DEF ParsePair, PairAt, Pair, Failed, Result
<1>4. Parsed(l, r)
  <2>1. "ASSIGN" \in Tokens
    BY TokensKnown
  <2> HIDE DEF g
  <2>2. Later(g, a)
    BY <1>1, <2>1, ExpectRight
  <2>3. Later(l, a) /\ a \in LexerObjects
    BY <1>1, <2>2, LaterLater DEF Later, OnText
  <2> HIDE DEF a
  <2>4. CASE a.err
    BY <2>3, <2>4, FailedRight DEF PairValue
  <2>5. CASE ~a.err
    <3>1. Parsed(a, ParseTerm(a, ps))
      BY <2>3, ParseTermRight
    <3>2. QED
      BY <2>3, <2>5, <3>1, ParsedLater DEF PairValue
  <2>6. QED
    BY <2>4, <2>5
<1> HIDE DEF g, r
<1>5. CASE g.err \/ g.tok # "IDENT"
  BY <1>1, <1>2, <1>3, <1>5
<1>6. CASE ~(g.err \/ g.tok # "IDENT")
  BY <1>2, <1>3, <1>4, <1>6 DEF Parsed
<1>7. QED
  BY <1>5, <1>6

-----------------------------------------------------------------------------
(* The registry *)

Keys == Seq(Chars)

\* The lexer in use knows its line and has the style of a grammar.
RegistryInv ==
  /\ lex \in LexerObjects /\ LineKnown(lex)
  /\ \E g \in Grammars : g.lexer = lex.style
  /\ call.throws \in BOOLEAN

LEMMA GrammarKnown ==
  ASSUME NEW l, \E g \in Grammars : g.lexer = l.style
  PROVE  GrammarOf(l).parser.list \in Openings /\ GrammarOf(l).parser.expr \in Openings
<1>1. GrammarOf(l) \in Grammars
  BY DEF GrammarOf
<1>2. QED
  BY <1>1, GrammarsAssumption DEF Openings

LEMMA NewLexerRight ==
  ASSUME NEW t \in Seq(Chars), NEW style \in Styles
  PROVE  LineKnown(NewLexer(t, style)) /\ NewLexer(t, style) \in LexerObjects
<1> DEFINE l == NewLexer(t, style)
<1>1. Len(t) \in Nat /\ <<>> \in Seq(Chars)
  BY LenProperties
<1>2. l \in LexerObjects
  BY <1>1, TokensKnown DEF NewLexer, LexerObjects, LexerFields
<1>3. Newlines(t, 1, 0) = 0
  BY LinesNone
<1>4. LineKnown(l)
  BY <1>3 DEF LineKnown, NewLexer
<1>5. QED
  BY <1>2, <1>4

LEMMA RegistryStarts ==
  ASSUME Init
  PROVE  RegistryInv
<1>1. PICK t \in Texts, g \in Grammars : lex = NewLexer(t, g.lexer)
  BY DEF Init
<1>2. t \in Seq(Chars) /\ g.lexer \in Styles
  BY TextsAssumption, GrammarsAssumption
<1>3. LineKnown(lex) /\ lex \in LexerObjects
  BY <1>1, <1>2, NewLexerRight
<1>4. lex.style = g.lexer
  BY <1>1 DEF NewLexer
<1>5. call.throws = FALSE
  BY DEF Init, Idle
<1>6. QED
  BY <1>3, <1>4, <1>5 DEF RegistryInv

\* Whatever the client or the registry does, the lexer goes on in its text, or
\* it throws.
LEMMA LexerGoesOn ==
  ASSUME RegistryInv, Next
  PROVE  OnText(lex, lex')
<1>0. lex \in LexerObjects /\ LineKnown(lex) /\ Later(lex, lex)
  BY LaterSelf DEF RegistryInv
<1>1. CASE ClientGets
  BY <1>0, <1>1, GetTokenRight DEF ClientGets, Taken, Later
<1>2. CASE ClientGetsNumber
  BY <1>0, <1>2, GetNumberRight DEF ClientGetsNumber, Taken, Later
<1>3. CASE ClientExpects
  <2>1. PICK l \in {Expect(lex, lex.tok)}
                   \cup (IF lex.tok = "IDENT" THEN {ExpectIdent(lex, lex.str)} ELSE {}) :
               lex' = l
    BY <1>3 DEF ClientExpects, Taken
  <2>2. lex' = Expect(lex, lex.tok) \/ lex' = ExpectIdent(lex, lex.str)
    BY <2>1
  <2>3. Later(lex, Expect(lex, lex.tok)) /\ Later(lex, ExpectIdent(lex, lex.str))
    BY <1>0, ExpectRight
  <2>4. QED
    BY <2>2, <2>3 DEF Later
<1>4. CASE ClientPeeks
  <2>1. lex' = PeekToken(lex)
    BY <1>4 DEF ClientPeeks
  <2>2. "END" \in Tokens
    BY TokensKnown
  <2>3. Later(lex, PeekToken(lex))
    BY <1>0, <2>2, ExpectRight
  <2>4. QED
    BY <2>1, <2>3 DEF Later
<1>5. CASE ClientPutsBack
  BY <1>0, <1>5, HoldRight DEF ClientPutsBack, Later
<1>6. CASE \E throws \in BOOLEAN : ReadFrom(throws) \/ ReadFile(throws) \/ ClientAdds(throws)
  <2>1. PICK throws \in BOOLEAN : ReadFrom(throws) \/ ReadFile(throws) \/ ClientAdds(throws)
    BY <1>6
  <2>2. CASE ReadFile(throws)
    <3> DEFINE w == NewLexer(lex.text, DefaultLexerStyle)
               n == [w EXCEPT !.style = lex.style]
    <3>1. lex' = n \/ lex' = Throw(lex)
      BY <2>2 DEF ReadFile
    <3>2. lex.text \in Seq(Chars) /\ lex.style \in Styles
      BY <1>0, LexerTypes
    <3>3. DefaultLexerStyle \in Styles
      BY DEF DefaultLexerStyle, LexerStyle, Styles
    <3>4. LineKnown(w) /\ w \in LexerObjects
      BY <3>2, <3>3, NewLexerRight
    <3>5. w.text = lex.text
      BY DEF NewLexer
    <3> HIDE DEF w
    <3>6. OnText(lex, n)
      BY <1>0, <3>2, <3>4, <3>5 DEF OnText, LexerObjects, LexerFields, LineKnown
    <3>7. OnText(lex, Throw(lex))
      BY <1>0, ThrowRight DEF Later
    <3>8. QED
      BY <3>1, <3>6, <3>7
  <2>3. CASE ReadFrom(throws) \/ ClientAdds(throws)
    BY <1>0, <2>3 DEF ReadFrom, ClientAdds, Later
  <2>4. QED
    BY <2>1, <2>2, <2>3
<1>7. CASE ReadPair
  <2>1. PICK p \in {ParsePair(lex, GrammarOf(lex).parser)} : lex' = p.lex \/ lex' = Throw(p.lex)
    BY <1>7 DEF ReadPair
  <2>2. Later(lex, p.lex) /\ p.lex \in LexerObjects
    BY <1>0, <2>1, GrammarKnown, ParsePairRight DEF RegistryInv, Later, OnText
  <2>3. Later(p.lex, Throw(p.lex))
    BY <2>2, ThrowRight
  <2>4. QED
    BY <2>1, <2>2, <2>3, LaterLater DEF Later
<1>8. CASE ReadEnds
  <2>1. PICK p \in {ParsePair(lex, GrammarOf(lex).parser)} : lex' = Ended(p)
    BY <1>8 DEF ReadEnds
  <2>2. Later(lex, p.lex) /\ p.lex \in LexerObjects
    BY <1>0, <2>1, GrammarKnown, ParsePairRight DEF RegistryInv, Later, OnText
  <2> DEFINE q == Putback(p.lex)
  <2>3. Later(lex, q) /\ q \in LexerObjects
    BY <2>2, HoldRight, LaterLater DEF Later, OnText
  <2>4. Later(lex, Expect(q, "END"))
    <3>1. "END" \in Tokens
      BY TokensKnown
    <3> HIDE DEF q
    <3>2. Later(q, Expect(q, "END"))
      BY <2>3, <3>1, ExpectRight
    <3>3. QED
      BY <2>3, <3>2, LaterLater
  <2>5. Ended(p) \in {p.lex, Expect(q, "END"), q}
    BY DEF Ended
  <2> HIDE DEF q
  <2>6. QED
    BY <2>1, <2>2, <2>3, <2>4, <2>5 DEF Later
<1>9. CASE Clear
  BY <1>0, <1>9 DEF Clear, Later
<1>10. QED
  BY <1>1, <1>2, <1>3, <1>4, <1>5, <1>6, <1>7, <1>8, <1>9 DEF Next

LEMMA CallKnown ==
  ASSUME call.throws \in BOOLEAN, Next
  PROVE  call'.throws \in BOOLEAN
<1>1. Idle.throws \in BOOLEAN
  BY DEF Idle
<1>2. QED
  BY <1>1 DEF Next, ClientGets, ClientGetsNumber, ClientExpects, ClientPeeks, ClientPutsBack,
     Taken, Untouched, ReadFrom, ReadFile, ClientAdds, ReadPair, ReadEnds, Clear

LEMMA RegistryStep ==
  ASSUME RegistryInv, [Next]_vars
  PROVE  RegistryInv'
<1>1. CASE Next
  <2>1. OnText(lex, lex')
    BY <1>1, LexerGoesOn
  <2>2. LineKnown(lex') /\ lex' \in LexerObjects /\ lex'.style = lex.style
    BY <2>1 DEF RegistryInv, OnText
  <2>3. call'.throws \in BOOLEAN
    BY <1>1, CallKnown DEF RegistryInv
  <2>4. LineKnown(lex)'
    BY <2>2 DEF LineKnown
  <2>5. QED
    BY <2>2, <2>3, <2>4 DEF RegistryInv
<1>2. CASE UNCHANGED vars
  BY <1>2 DEF vars, RegistryInv, LineKnown
<1>3. QED
  BY <1>1, <1>2

\* A step adds a pair to the store, clears it, or leaves it alone.
LEMMA StoreTouched ==
  ASSUME RegistryInv, [Next]_vars
  PROVE  [StoreNext(Keys, AllValues)]_<<kv_map, pairs>>
<1>1. CASE ReadPair
  <2>1. PICK p \in {ParsePair(lex, GrammarOf(lex).parser)} :
          /\ p.more
          /\ IF p.lex.err THEN UNCHANGED <<kv_map, pairs>>
                          ELSE Added(p.key, p.val, p.line, call.throws)
    BY <1>1 DEF ReadPair
  <2>2. /\ p.key \in Keys /\ p.line \in Nat /\ (p.more /\ ~p.lex.err => p.val \in AllValues)
    BY <2>1, GrammarKnown, ParsePairRight DEF RegistryInv, Keys
  <2>3. call.throws \in BOOLEAN
    BY DEF RegistryInv
  <2>4. QED
    BY <2>1, <2>2, <2>3, Zenon DEF StoreNext
<1>2. CASE \E throws \in BOOLEAN : ClientAdds(throws)
  <2>1. PICK throws \in BOOLEAN : Added(<<"a">>, NumValue(-10), 0, throws)
    BY <1>2 DEF ClientAdds
  <2>2. <<"a">> \in Keys
    BY DEF Keys, Chars, Letter
  <2>3. NumValue(-10) \in AllValues
    BY ValuesBuilt
  <2>4. QED
    BY <2>1, <2>2, <2>3 DEF StoreNext
<1>3. CASE Clear
  BY <1>3 DEF Clear, StoreNext
<1>4. CASE UNCHANGED vars
  BY <1>4 DEF vars
<1>5. CASE ClientGets \/ ClientGetsNumber \/ ClientExpects \/ ClientPeeks \/ ClientPutsBack
           \/ ReadEnds \/ \E throws \in BOOLEAN : ReadFrom(throws) \/ ReadFile(throws)
  BY <1>5 DEF ClientGets, ClientGetsNumber, ClientExpects, ClientPeeks, ClientPutsBack,
     Taken, Untouched, ReadEnds, ReadFrom, ReadFile
<1>6. QED
  BY <1>1, <1>2, <1>3, <1>4, <1>5 DEF Next

\* RegistryInv and the store are what a step needs to know.
LEMMA RegistryIsSafe ==
  Spec => [](RegistryInv /\ StoreInv(Keys, AllValues))
<1>1. Init => RegistryInv /\ StoreInv(Keys, AllValues)
  BY RegistryStarts, EmptyStore DEF Init
<1>2. RegistryInv /\ StoreInv(Keys, AllValues) /\ [Next]_vars
        => (RegistryInv /\ StoreInv(Keys, AllValues))'
  BY RegistryStep, StoreTouched, StoreStep
<1>3. QED
  BY <1>1, <1>2, PTL DEF Spec

\* The lexer's line is the line of the text it has reached, in every text and
\* with every grammar: comments of all kinds, strings, and tokens put back by
\* the client or by the parser count every line once.
THEOREM LinesAreRight ==
  Spec => []LinesRight
<1>1. RegistryInv => LinesRight
  BY DEF RegistryInv, LineKnown, LinesRight
<1>2. QED
  BY <1>1, RegistryIsSafe, PTL

\* A registry is a store: whatever the texts contain, and however the client's
\* calls and the pairs of its sections alternate, every step adds one pair with
\* a value of the parser, clears the store, or leaves it alone.  read_from()
\* refines add_any() and clear().
THEOREM RegistryIsAStore ==
  Spec => StoreSpec(Keys, AllValues)
<1>1. Init => StoreInit
  BY DEF Init
<1>2. RegistryInv /\ [Next]_vars => [StoreNext(Keys, AllValues)]_<<kv_map, pairs>>
  BY StoreTouched
<1>3. QED
  BY <1>1, <1>2, RegistryIsSafe, PTL DEF Spec, StoreSpec

\* So a key read from any text has the value and the line of its last accepted
\* definition, wherever the read ends.
THEOREM ReadingIsRight ==
  Spec => []StoreRight
<1>1. StoreInv(Keys, AllValues) => StoreRight
  BY StoreParts DEF StoreInv
<1>2. QED
  BY <1>1, RegistryIsSafe, PTL

\* And the lookups agree on the values read, nested to any depth.
THEOREM ValuesReadAreRight ==
  Spec => []LookupsRight
<1>1. Closed(AllValues)
  BY ValueParts DEF Closed
<1>2. StoreInv(Keys, AllValues) => LookupsRight
  BY <1>1, LookupsAgree DEF StoreInv
<1>3. QED
  BY <1>2, RegistryIsSafe, PTL

-----------------------------------------------------------------------------
(* The tokens of a text *)

TokenRecords ==
  [tok : Tokens \cup {"exception"}, num : Int, str : Seq(Chars), line : Nat]

LEMMA PlainRight ==
  ASSUME NEW t \in Tokens \cup {"exception"}
  PROVE  Plain(t) \in TokenRecords
  BY DEF Plain, Token, TokenRecords

LEMMA TokenOfRight ==
  ASSUME NEW l \in LexerObjects
  PROVE  TokenOf(l) \in TokenRecords /\ TokenOf(l).tok \in Tokens
<1> USE LexerTypes DEF TokenOf, Token, TokenRecords
<1>1. CASE l.tok = "NUM"
  BY <1>1
<1>2. CASE l.tok \in {"STRING", "IDENT"}
  <2>1. TokenOf(l) = [tok |-> "IDENT", num |-> 0, str |-> l.str, line |-> l.line]
    BY <1>2
  <2>2. "IDENT" \in Tokens
    BY TokensKnown
  <2>3. QED
    BY <2>1, <2>2
<1>3. CASE l.tok \notin {"NUM", "STRING", "IDENT"}
  <2>1. TokenOf(l) = [tok |-> l.tok, num |-> 0, str |-> <<>>, line |-> l.line]
    BY <1>3
  <2>2. QED
    BY <2>1
<1>4. QED
  BY <1>1, <1>2, <1>3

\* The tokens from g on, if rest has those after it.
LEMMA FromRight ==
  ASSUME NEW g \in LexerObjects, NEW rest \in [LexerObjects -> Seq(TokenRecords)]
  PROVE  From(g, rest) \in Seq(TokenRecords)
<1>1. <<Plain("exception")>> \in Seq(TokenRecords)
  BY PlainRight
<1>2. TokenOf(g) \in TokenRecords
  BY TokenOfRight
<1>3. <<TokenOf(g)>> \in Seq(TokenRecords)
  BY <1>2
<1>4. rest[g] \in Seq(TokenRecords)
  OBVIOUS
<1>5. <<TokenOf(g)>> \o rest[g] \in Seq(TokenRecords)
  BY <1>3, <1>4, ConcatProperties
<1>6. QED
  BY <1>1, <1>3, <1>5 DEF From

RestFunctions == [LexerObjects -> Seq(TokenRecords)]

LEMMA RestLoop ==
  /\ \A n \in Nat : RestUpTo[n] \in RestFunctions
  /\ \A n \in Nat : RestUpTo[n + 1] = [l \in LexerObjects |-> From(GetToken(l), RestUpTo[n])]
<1> DEFINE base == [l \in LexerObjects |-> <<>>]
           Turn(f) == [l \in LexerObjects |-> From(GetToken(l), f)]
           step == [n \in Nat |-> [f \in RestFunctions |-> Turn(f)]]
           Body(u) == [n \in Nat |-> [l \in LexerObjects |->
                         IF n = 0 THEN <<>> ELSE From(GetToken(l), u[n - 1])]]
<1>1. base \in RestFunctions
  BY DEF RestFunctions
<1>2. ASSUME NEW f \in RestFunctions PROVE Turn(f) \in RestFunctions
  <2>1. \A l \in LexerObjects : GetToken(l) \in LexerObjects
    BY GetTokenRight DEF Later, OnText
  <2>2. \A l \in LexerObjects : From(GetToken(l), f) \in Seq(TokenRecords)
    BY <2>1, FromRight DEF RestFunctions
  <2>3. QED
    BY <2>2 DEF RestFunctions
<1>3. StepsIn(RestFunctions, step)
  BY <1>2 DEF StepsIn
<1>4. \E u : Follows(u, RestFunctions, base, step)
  <2> HIDE DEF base, step
  <2>1. QED
    BY <1>1, <1>3, Recursion
<1>5. PICK u : Follows(u, RestFunctions, base, step)
  BY <1>4
<1>6. u \in [Nat -> RestFunctions] /\ u[0] = base /\ \A n \in Nat : u[n + 1] = Turn(u[n])
  BY <1>5 DEF Follows
<1>7. u = Body(u)
  <2>1. \A n \in Nat : n # 0 => n - 1 \in Nat /\ (n - 1) + 1 = n
    OBVIOUS
  <2>2. \A n \in Nat : n # 0 => u[n] = Turn(u[n - 1])
    BY <1>6, <2>1
  <2>3. ASSUME NEW n \in Nat
        PROVE u[n] = [l \in LexerObjects |-> IF n = 0 THEN <<>> ELSE From(GetToken(l), u[n - 1])]
    <3>1. CASE n = 0
      BY <1>6, <3>1
    <3>2. CASE n # 0
      BY <2>2, <3>2
    <3>3. QED
      BY <3>1, <3>2
  <2>4. QED
    BY <1>6, <2>3
<1>8. RestUpTo = Body(RestUpTo)
  <2>1. RestUpTo = CHOOSE f : f = Body(f)
    BY DEF RestUpTo
  <2> HIDE DEF Body
  <2>2. QED
    BY <1>7, <2>1
<1> DEFINE S == {n \in Nat : RestUpTo[n] \in RestFunctions}
<1>9. RestUpTo[0] = base
  BY <1>8
<1>10. ASSUME NEW n \in Nat PROVE RestUpTo[n + 1] = Turn(RestUpTo[n])
  <2>1. n + 1 \in Nat /\ n + 1 # 0 /\ (n + 1) - 1 = n
    OBVIOUS
  <2>2. QED
    BY <1>8, <2>1
<1>11. \A n \in Nat : n \in S => n + 1 \in S
  <2> HIDE DEF Turn
  <2>1. QED
    BY <1>2, <1>10
<1>12. 0 \in S
  BY <1>1, <1>9
<1> HIDE DEF S
<1>13. Nat \subseteq S
  BY <1>11, <1>12, SetInduction
<1>14. QED
  BY <1>10, <1>13 DEF S

\* There is no token after it.
Ends(g) == g.err \/ g.tok = "END"

\* The tokens that can be left.
Left(l) == Len(l.text) - l.pos + (IF l.hold THEN 1 ELSE 0)

LEMMA LeftRight ==
  ASSUME NEW l \in LexerObjects
  PROVE  Left(l) \in 0..Len(l.text) + 1 /\ Len(l.text) \in Nat
  BY LexerTypes DEF Left

\* A token that was put back is given first.
LEMMA HeldToken ==
  ASSUME NEW l \in LexerObjects, l.hold
  PROVE  /\ GetToken(l).pos = l.pos /\ GetToken(l).hold = FALSE /\ GetToken(l).text = l.text
         /\ TokenOf(GetToken(l)) = TokenOf(l)
  BY DEF GetToken, LexerObjects, LexerFields, TokenOf

LEMMA TokensGoOn ==
  ASSUME NEW l \in LexerObjects
  PROVE  /\ GetToken(l) \in LexerObjects /\ GetToken(l).text = l.text
         /\ Ends(GetToken(l)) \/ Left(GetToken(l)) < Left(l)
<1> DEFINE g == GetToken(l)
<1>1. /\ g \in LexerObjects /\ g.text = l.text /\ g.hold = FALSE
      /\ l.hold => g.pos = l.pos
      /\ ~l.hold => g.tok = "END" \/ g.err \/ g.pos > l.pos
  BY GetTokenRight, HeldToken DEF Takes, Later, OnText
<1> HIDE DEF g
<1>2. /\ l.hold \in BOOLEAN /\ l.pos \in Nat /\ g.pos \in Nat /\ Len(l.text) \in Nat
  BY <1>1, LexerTypes
<1>3. Ends(g) \/ Left(g) < Left(l)
  BY <1>1, <1>2 DEF Left, Ends
<1>4. QED
  BY <1>1, <1>3 DEF g

\* Where the tokens that can be left are counted, more turns find no more.
LEMMA RestEnough ==
  \A n \in Nat : \A l \in LexerObjects : \A m \in Nat :
    Left(l) < n /\ n <= m => RestUpTo[m][l] = RestUpTo[n][l]
<1> DEFINE S == {n \in Nat : \A l \in LexerObjects : \A m \in Nat :
                   Left(l) < n /\ n <= m => RestUpTo[m][l] = RestUpTo[n][l]}
<1>1. 0 \in S
  BY LeftRight
<1>2. ASSUME NEW n \in Nat, n \in S PROVE n + 1 \in S
  <2> SUFFICES ASSUME NEW l \in LexerObjects, NEW m \in Nat, Left(l) < n + 1, n + 1 <= m
               PROVE  RestUpTo[m][l] = RestUpTo[n + 1][l]
    OBVIOUS
  <2> DEFINE g == GetToken(l)
             k == m - 1
  <2>1. k \in Nat /\ k + 1 = m /\ n <= k
    OBVIOUS
  <2> HIDE DEF k
  <2>2. /\ RestUpTo[k + 1][l] = From(g, RestUpTo[k])
        /\ RestUpTo[n + 1][l] = From(g, RestUpTo[n])
    BY <2>1, RestLoop
  <2>3. g \in LexerObjects /\ (Ends(g) \/ Left(g) < Left(l))
    BY TokensGoOn
  <2> HIDE DEF g
  <2>4. CASE Ends(g)
    BY <2>1, <2>2, <2>4 DEF From, Ends
  <2>5. CASE Left(g) < Left(l)
    <3>1. Left(g) \in Int /\ Left(l) \in Int
      BY <2>3, LeftRight
    <3>2. Left(g) < n
      BY <2>5, <3>1
    <3>3. RestUpTo[k][g] = RestUpTo[n][g]
      BY <1>2, <2>1, <2>3, <3>2
    <3>4. QED
      BY <2>1, <2>2, <3>3 DEF From
  <2>6. QED
    BY <2>3, <2>4, <2>5
<1> HIDE DEF S
<1>3. Nat \subseteq S
  BY <1>1, <1>2, SetInduction
<1>4. QED
  BY <1>3 DEF S

\* The rest of a text: the next token, and the rest after it.
LEMMA RestRight ==
  ASSUME NEW l \in LexerObjects, NEW g, g = GetToken(l)
  PROVE  /\ Rest(l) \in Seq(TokenRecords)
         /\ g.err => Rest(l) = <<Plain("exception")>>
         /\ ~g.err /\ g.tok = "END" => Rest(l) = <<TokenOf(g)>>
         /\ ~Ends(g) => Rest(l) = <<TokenOf(g)>> \o Rest(g)
<1> DEFINE n == Len(l.text) + 1
<1>1. /\ n \in Nat /\ n + 1 = Len(l.text) + 2 /\ Left(l) < n + 1 /\ Left(l) \in Int
      /\ n + 1 \in Nat /\ n <= n + 1 /\ Left(l) <= n
  BY LeftRight
<1> HIDE DEF n
<1>2. RestUpTo[n + 1] \in RestFunctions /\ RestUpTo[n + 1][l] = From(g, RestUpTo[n])
  BY <1>1, RestLoop
<1>3. Rest(l) = From(g, RestUpTo[n]) /\ Rest(l) \in Seq(TokenRecords)
  BY <1>1, <1>2 DEF Rest, RestFunctions
<1>4. g \in LexerObjects /\ g.text = l.text /\ (Ends(g) \/ Left(g) < Left(l))
  BY TokensGoOn
<1>5. ASSUME ~Ends(g) PROVE Rest(l) = <<TokenOf(g)>> \o Rest(g)
  <2>1. Left(g) \in Int /\ Left(g) < n
    BY <1>1, <1>4, <1>5, LeftRight
  <2>2. RestUpTo[n + 1][g] = RestUpTo[n][g]
    BY <1>1, <1>4, <2>1, RestEnough
  <2>3. Rest(g) = RestUpTo[n][g]
    BY <1>1, <1>4, <2>2 DEF Rest
  <2>4. QED
    BY <1>3, <1>5, <2>3 DEF From, Ends
<1>6. QED
  BY <1>3, <1>5 DEF From

LEMMA PutbackRest ==
  ASSUME NEW l \in LexerObjects
  PROVE  Putback(GetToken(l)) \in LexerObjects /\ Rest(Putback(GetToken(l))) = Rest(l)
<1> DEFINE g == GetToken(l)
           h == Putback(g)
<1>1. g \in LexerObjects /\ g.hold = FALSE
  BY GetTokenRight, TokensGoOn
<1> HIDE DEF g
<1>2. h \in LexerObjects
  BY <1>1, HoldRight DEF Later, OnText
<1>3. GetToken(h) = g
  BY <1>1 DEF GetToken, Putback, LexerObjects, LexerFields
<1> HIDE DEF h
<1>4. Rest(h) = Rest(l)
  <2>1. CASE g.err
    BY <1>2, <1>3, <2>1, RestRight DEF g
  <2>2. CASE ~g.err /\ g.tok = "END"
    BY <1>2, <1>3, <2>2, RestRight DEF g
  <2>3. CASE ~Ends(g)
    BY <1>2, <1>3, <2>3, RestRight DEF g
  <2>4. QED
    BY <2>1, <2>2, <2>3 DEF Ends
<1>5. QED
  BY <1>2, <1>4 DEF g, h

LEMMA PeekRest ==
  ASSUME NEW l \in LexerObjects, ~PeekToken(l).err
  PROVE  Rest(PeekToken(l)) = Rest(l)
<1>1. CASE l.hold
  BY <1>1 DEF PeekToken
<1>2. CASE ~l.hold
  BY <1>2, PutbackRest DEF PeekToken, PutbackUnlessThrown
<1>3. QED
  BY <1>1, <1>2, LexerTypes

-----------------------------------------------------------------------------
(* Sequences of sequences, one after the other *)

\* f adds up the elements of s.
AddsUp(f, V, s) == /\ f \in [Nat -> Seq(V)] /\ f[0] = <<>>
                   /\ \A i \in 1..Len(s) : f[i] = f[i - 1] \o s[i]

LEMMA FlatFollows ==
  ASSUME NEW V, NEW s \in Seq(Seq(V))
  PROVE  \E f : AddsUp(f, V, s) /\ FlattenSeq(s) = f[Len(s)]
<1> DEFINE N == Len(s)
           T == Seq(V)
           Turn(n, v) == IF n + 1 <= N THEN v \o s[n + 1] ELSE v
           step == [n \in Nat |-> [v \in T |-> Turn(n, v)]]
<1>1. N \in Nat /\ \A i \in 1..N : s[i] \in T
  BY ElementOfSeq, LenProperties
<1>2. <<>> \in T
  OBVIOUS
<1>3. \A n \in Nat : n + 1 <= N => n + 1 \in 1..N
  BY <1>1
<1>4. \A n \in Nat : \A v \in T : Turn(n, v) \in T
  BY <1>1, <1>3, ConcatProperties
<1>5. StepsIn(T, step)
  BY <1>4 DEF StepsIn
<1>6. \E f : Follows(f, T, <<>>, step)
  <2> HIDE DEF step, T
  <2>1. QED
    BY <1>2, <1>5, Recursion
<1>7. PICK f : Follows(f, T, <<>>, step)
  BY <1>6
<1>8. f \in [Nat -> T] /\ f[0] = <<>> /\ \A n \in Nat : f[n + 1] = Turn(n, f[n])
  BY <1>7 DEF Follows
<1>9. ASSUME NEW i \in 1..N PROVE f[i] = f[i - 1] \o s[i]
  <2>1. i - 1 \in Nat /\ (i - 1) + 1 = i /\ i <= N
    BY <1>1
  <2>2. f[(i - 1) + 1] = Turn(i - 1, f[i - 1])
    BY <1>8, <2>1
  <2>3. QED
    BY <2>1, <2>2
<1>10. AddsUp(f, V, s)
  BY <1>8, <1>9 DEF AddsUp
<1>13. 1 <= N => f[1] = s[1]
  <2> SUFFICES ASSUME 1 <= N PROVE f[1] = s[1]
    OBVIOUS
  <2>1. 1 \in 1..N /\ 1 - 1 = 0
    BY <1>1
  <2>2. f[1] = f[1 - 1] \o s[1] /\ s[1] \in Seq(V)
    BY <1>1, <1>9, <2>1
  <2>3. f[1] = <<>> \o s[1]
    BY <1>8, <2>1, <2>2
  <2>4. QED
    BY <2>2, <2>3, ConcatEmptySeq
<1>11. FlattenSeq(s) = f[N]
  <2>1. CASE N = 0
    <3>1. s = <<>>
      BY <2>1, EmptySeq
    <3>2. QED
      BY <1>8, <2>1, <3>1 DEF FlattenSeq
  <2>2. CASE N # 0
    <3> DEFINE Body(u) == [i \in 1..N |-> IF i = 1 THEN s[i] ELSE u[i - 1] \o s[i]]
               C == CHOOSE u : u = Body(u)
               g == [i \in 1..N |-> f[i]]
    <3>1. g = Body(g)
      <4>1. f[1] = s[1]
        BY <1>1, <1>13, <2>2
      <4>2. \A i \in 1..N : i # 1 => i - 1 \in 1..N
        BY <1>1
      <4>3. \A i \in 1..N : i # 1 => g[i] = g[i - 1] \o s[i]
        BY <1>9, <4>2
      <4>4. \A i \in 1..N : g[i] = IF i = 1 THEN s[i] ELSE g[i - 1] \o s[i]
        BY <4>1, <4>3
      <4>5. QED
        BY <4>4
    <3>2. FlattenSeq(s) = C[N]
      BY <2>2 DEF FlattenSeq
    <3>3. C = Body(C)
      <4> HIDE DEF Body, g
      <4>1. QED
        BY <3>1
    <3> DEFINE S == {n \in Nat : n \in 1..N => C[n] = f[n]}
    <3>4. 0 \in S
      OBVIOUS
    <3>5. ASSUME NEW n \in Nat, n \in S PROVE n + 1 \in S
      <4> SUFFICES ASSUME n + 1 \in 1..N PROVE C[n + 1] = f[n + 1]
        OBVIOUS
      <4>1. C[n + 1] = IF n + 1 = 1 THEN s[n + 1] ELSE C[(n + 1) - 1] \o s[n + 1]
        <5> HIDE DEF C
        <5>1. QED
          BY <3>3
      <4> HIDE DEF C, Body
      <4>2. f[n + 1] = f[n] \o s[n + 1]
        <5>1. n + 1 <= N
          BY <1>1
        <5>2. f[n + 1] = Turn(n, f[n])
          BY <1>8
        <5>3. QED
          BY <5>1, <5>2
      <4>3. CASE n = 0
        BY <1>1, <1>13, <4>1, <4>3
      <4>4. CASE n # 0
        <5>1. n \in 1..N /\ n + 1 # 1 /\ (n + 1) - 1 = n
          BY <1>1, <4>4
        <5>2. C[n] = f[n]
          BY <3>5, <5>1
        <5>3. C[n + 1] = C[n] \o s[n + 1]
          BY <4>1, <5>1
        <5>4. QED
          BY <4>2, <5>2, <5>3
      <4>5. QED
        BY <4>3, <4>4
    <3> HIDE DEF S, C
    <3>6. Nat \subseteq S
      BY <3>4, <3>5, SetInduction
    <3>7. N \in 1..N /\ N \in S
      BY <1>1, <2>2, <3>6
    <3>8. QED
      BY <3>2, <3>7 DEF S
  <2>3. QED
    BY <2>1, <2>2
<1>12. QED
  BY <1>10, <1>11

LEMMA FlatAppend ==
  ASSUME NEW V, NEW s \in Seq(Seq(V)), NEW x \in Seq(V)
  PROVE  FlattenSeq(s) \in Seq(V) /\ FlattenSeq(Append(s, x)) = FlattenSeq(s) \o x
<1> DEFINE t == Append(s, x)
<1>1. /\ t \in Seq(Seq(V)) /\ Len(t) = Len(s) + 1 /\ Len(s) \in Nat /\ t[Len(s) + 1] = x
      /\ \A i \in 1..Len(s) : t[i] = s[i]
  BY AppendProperties, LenProperties
<1> HIDE DEF t
<1>2. PICK f : AddsUp(f, V, s) /\ FlattenSeq(s) = f[Len(s)]
  BY FlatFollows
<1>3. PICK g : AddsUp(g, V, t) /\ FlattenSeq(t) = g[Len(t)]
  BY <1>1, FlatFollows
<1> DEFINE S == {n \in Nat : n <= Len(s) => g[n] = f[n]}
<1>4. 0 \in S
  BY <1>2, <1>3 DEF AddsUp
<1>5. ASSUME NEW n \in Nat, n \in S PROVE n + 1 \in S
  <2> SUFFICES ASSUME n + 1 <= Len(s) PROVE g[n + 1] = f[n + 1]
    OBVIOUS
  <2>1. n + 1 \in 1..Len(s) /\ n + 1 \in 1..Len(t) /\ (n + 1) - 1 = n
    BY <1>1
  <2>2. f[n + 1] = f[n] \o s[n + 1] /\ g[n + 1] = g[n] \o t[n + 1]
    BY <1>2, <1>3, <2>1 DEF AddsUp
  <2>3. f[n] = g[n] /\ t[n + 1] = s[n + 1]
    BY <1>1, <1>5, <2>1
  <2>4. QED
    BY <2>2, <2>3
<1> HIDE DEF S
<1>6. Nat \subseteq S
  BY <1>4, <1>5, SetInduction
<1>7. g[Len(s)] = f[Len(s)]
  <2>1. Len(s) \in S /\ Len(s) <= Len(s)
    BY <1>1, <1>6
  <2>2. QED
    BY <2>1 DEF S
<1>8. g[Len(s) + 1] = g[Len(s)] \o x
  <2>1. Len(s) + 1 \in 1..Len(t) /\ (Len(s) + 1) - 1 = Len(s)
    BY <1>1
  <2>2. QED
    BY <1>1, <1>3, <2>1 DEF AddsUp
<1>9. FlattenSeq(s) \in Seq(V)
  BY <1>1, <1>2 DEF AddsUp
<1>10. QED
  BY <1>1, <1>2, <1>3, <1>7, <1>8, <1>9 DEF t

LEMMA FlatEmpty == FlattenSeq(<<>>) = <<>>
  BY EmptySeq DEF FlattenSeq

LEMMA FlatConcat ==
  ASSUME NEW V, NEW s \in Seq(Seq(V)), NEW t \in Seq(Seq(V))
  PROVE  FlattenSeq(s \o t) = FlattenSeq(s) \o FlattenSeq(t)
<1> DEFINE W == Seq(V)
           S == {n \in Nat : \A u \in Seq(W) : Len(u) = n =>
                   FlattenSeq(s \o u) = FlattenSeq(s) \o FlattenSeq(u)}
<1>1. 0 \in S
  <2> SUFFICES ASSUME NEW u \in Seq(W), Len(u) = 0
               PROVE  FlattenSeq(s \o u) = FlattenSeq(s) \o FlattenSeq(u)
    OBVIOUS
  <2>1. u = <<>> /\ s \o u = s
    BY EmptySeq, ConcatEmptySeq
  <2>2. FlattenSeq(s) \in Seq(V) /\ FlattenSeq(u) = <<>>
    BY <2>1, FlatFollows, FlatEmpty, FlatAppend, EmptySeq
  <2>3. QED
    BY <2>1, <2>2, ConcatEmptySeq
<1>2. ASSUME NEW n \in Nat, n \in S PROVE n + 1 \in S
  <2> SUFFICES ASSUME NEW u \in Seq(W), Len(u) = n + 1
               PROVE  FlattenSeq(s \o u) = FlattenSeq(s) \o FlattenSeq(u)
    OBVIOUS
  <2>1. u # <<>>
    BY EmptySeq
  <2>2. PICK v \in Seq(W), x \in W : u = Append(v, x)
    BY <2>1, SequenceEmptyOrAppend
  <2>3. Len(v) = n
    BY <2>2, AppendProperties, LenProperties
  <2>4. FlattenSeq(s \o v) = FlattenSeq(s) \o FlattenSeq(v)
    BY <1>2, <2>3
  <2>5. s \o v \in Seq(W) /\ s \o u = Append(s \o v, x)
    <3>1. <<x>> \in Seq(W)
      OBVIOUS
    <3>2. s \o v \in Seq(W)
      BY ConcatProperties
    <3>3. s \o u = s \o (v \o <<x>>)
      BY <2>2, AppendIsConcat
    <3>4. s \o (v \o <<x>>) = (s \o v) \o <<x>>
      BY <3>1, ConcatAssociative
    <3>5. QED
      BY <3>2, <3>3, <3>4, AppendIsConcat
  <2>6. FlattenSeq(s \o u) = (FlattenSeq(s) \o FlattenSeq(v)) \o x
    BY <2>4, <2>5, FlatAppend
  <2>7. FlattenSeq(u) = FlattenSeq(v) \o x
    BY <2>2, FlatAppend
  <2>8. FlattenSeq(s) \in Seq(V) /\ FlattenSeq(v) \in Seq(V) /\ x \in Seq(V)
    BY FlatAppend, EmptySeq
  <2> DEFINE a == FlattenSeq(s)
             b == FlattenSeq(v)
  <2> HIDE DEF a, b, S, W
  <2>9. (a \o b) \o x = a \o (b \o x)
    BY <2>8, ConcatAssociative DEF a, b
  <2>10. QED
    BY <2>6, <2>7, <2>9 DEF a, b
<1> HIDE DEF S
<1>3. Nat \subseteq S
  BY <1>1, <1>2, SetInduction
<1>4. Len(t) \in S
  BY <1>3, LenProperties
<1>5. QED
  BY <1>4 DEF S

\* What f makes of the elements of s, one after the other.
Mapped(s, f) == [k \in DOMAIN s |-> f[s[k]]]
Each(s, f) == FlattenSeq(Mapped(s, f))

LEMMA MapRight ==
  ASSUME NEW S, NEW W, NEW f \in [S -> W], NEW s \in Seq(S)
  PROVE  /\ Mapped(s, f) \in Seq(W) /\ Len(Mapped(s, f)) = Len(s)
         /\ \A k \in 1..Len(s) : Mapped(s, f)[k] = f[s[k]]
<1>1. DOMAIN s = 1..Len(s) /\ Len(s) \in Nat /\ \A k \in 1..Len(s) : s[k] \in S
  BY LenProperties, ElementOfSeq
<1>2. \A k \in 1..Len(s) : f[s[k]] \in W
  BY <1>1
<1>3. [k \in 1..Len(s) |-> f[s[k]]] \in [1..Len(s) -> W]
  BY <1>2
<1> DEFINE m == [k \in 1..Len(s) |-> f[s[k]]]
<1>4. m \in Seq(W)
  BY <1>1, <1>3, SeqDef
<1>5. DOMAIN m = 1..Len(s)
  OBVIOUS
<1> HIDE DEF m
<1>6. Len(m) = Len(s)
  BY <1>1, <1>4, <1>5, LenProperties
<1>7. m = Mapped(s, f)
  BY <1>1 DEF Mapped, m
<1>8. \A k \in 1..Len(s) : m[k] = f[s[k]]
  BY DEF m
<1>9. QED
  BY <1>4, <1>6, <1>7, <1>8

LEMMA MapConcat ==
  ASSUME NEW S, NEW W, NEW f \in [S -> W], NEW s \in Seq(S), NEW t \in Seq(S)
  PROVE  Mapped(s \o t, f) = Mapped(s, f) \o Mapped(t, f)
<1> DEFINE u == s \o t
           a == Mapped(s, f)
           b == Mapped(t, f)
           c == Mapped(u, f)
<1>1. /\ u \in Seq(S) /\ Len(u) = Len(s) + Len(t) /\ Len(s) \in Nat /\ Len(t) \in Nat
      /\ \A i \in 1..Len(s) + Len(t) : u[i] = IF i <= Len(s) THEN s[i] ELSE t[i - Len(s)]
  BY ConcatProperties, LenProperties
<1>0. \A r \in Seq(S) : /\ Mapped(r, f) \in Seq(W) /\ Len(Mapped(r, f)) = Len(r)
                        /\ \A k \in 1..Len(r) : Mapped(r, f)[k] = f[r[k]]
  BY MapRight
<1> HIDE DEF u
<1>2. /\ a \in Seq(W) /\ Len(a) = Len(s) /\ b \in Seq(W) /\ Len(b) = Len(t)
      /\ c \in Seq(W) /\ Len(c) = Len(u)
      /\ \A i \in 1..Len(s) : a[i] = f[s[i]]
      /\ \A i \in 1..Len(t) : b[i] = f[t[i]]
  BY <1>0, <1>1
<1>3. \A i \in 1..Len(u) : c[i] = f[u[i]]
  BY <1>0, <1>1
<1> HIDE DEF a, b, c
<1>7. /\ a \o b \in Seq(W) /\ Len(a \o b) = Len(a) + Len(b)
      /\ \A i \in 1..Len(a) + Len(b) : (a \o b)[i] = IF i <= Len(a) THEN a[i] ELSE b[i - Len(a)]
  <2>1. \A y, z \in Seq(W) :
          /\ y \o z \in Seq(W) /\ Len(y \o z) = Len(y) + Len(z)
          /\ \A i \in 1..Len(y) + Len(z) : (y \o z)[i] = IF i <= Len(y) THEN y[i] ELSE z[i - Len(y)]
    BY ConcatProperties
  <2>2. a \in Seq(W) /\ b \in Seq(W)
    BY <1>2
  <2>3. QED
    BY <2>1, <2>2
<1>4. /\ a \o b \in Seq(W) /\ Len(a \o b) = Len(s) + Len(t)
      /\ \A i \in 1..Len(s) + Len(t) : (a \o b)[i] = IF i <= Len(s) THEN a[i] ELSE b[i - Len(s)]
  BY <1>2, <1>7
<1>5. ASSUME NEW i \in 1..Len(c) PROVE c[i] = (a \o b)[i]
  <2>0. i \in 1..Len(s) + Len(t) /\ i \in 1..Len(u)
    BY <1>1, <1>2
  <2>1. CASE i <= Len(s)
    <3>1. i \in 1..Len(s)
      BY <2>0, <2>1
    <3>2. u[i] = s[i] /\ (a \o b)[i] = a[i]
      BY <1>1, <1>4, <2>0, <2>1
    <3>3. QED
      BY <1>2, <1>3, <2>0, <3>1, <3>2
  <2>2. CASE ~(i <= Len(s))
    <3>1. i - Len(s) \in 1..Len(t)
      BY <1>1, <2>0, <2>2
    <3>2. u[i] = t[i - Len(s)] /\ (a \o b)[i] = b[i - Len(s)]
      BY <1>1, <1>4, <2>0, <2>2
    <3>3. QED
      BY <1>2, <1>3, <2>0, <3>1, <3>2
  <2>3. QED
    BY <2>1, <2>2
<1>6. c = a \o b
  BY <1>1, <1>2, <1>4, <1>5, SeqEqual
<1>8. QED
  BY <1>6 DEF a, b, c, u

LEMMA MapOne ==
  ASSUME NEW S, NEW W, NEW f \in [S -> W], NEW x \in S
  PROVE  Mapped(<<x>>, f) = <<f[x]>>
<1> DEFINE s == <<x>>
           m == Mapped(s, f)
           y == <<f[x]>>
<1>1. s \in Seq(S) /\ Len(s) = 1 /\ s[1] = x
  OBVIOUS
<1>2. f[x] \in W
  OBVIOUS
<1>3. y \in Seq(W) /\ Len(y) = 1 /\ y[1] = f[x]
  BY <1>2
<1> HIDE DEF s
<1>5. m \in Seq(W) /\ Len(m) = 1 /\ \A k \in 1..1 : m[k] = f[s[k]]
  BY <1>1, MapRight
<1> HIDE DEF m, y
<1>6. \A k \in 1..Len(m) : m[k] = y[k]
  BY <1>1, <1>3, <1>5
<1>7. QED
  BY <1>3, <1>5, <1>6, SeqEqual DEF m, s, y

LEMMA EachRight ==
  ASSUME NEW S, NEW V, NEW f \in [S -> Seq(V)]
  PROVE  /\ Each(<<>>, f) = <<>>
         /\ \A x \in S : Each(<<x>>, f) = f[x]
         /\ \A s \in Seq(S) : Each(s, f) \in Seq(V)
         /\ \A s \in Seq(S), t \in Seq(S) : Each(s \o t, f) = Each(s, f) \o Each(t, f)
<1>1. Each(<<>>, f) = <<>>
  <2>1. Mapped(<<>>, f) = <<>>
    BY DEF Mapped
  <2>2. QED
    BY <2>1, FlatEmpty DEF Each
<1>2. ASSUME NEW x \in S PROVE Each(<<x>>, f) = f[x]
  <2>1. /\ f[x] \in Seq(V) /\ <<>> \in Seq(Seq(V))
        /\ Append(<<>>, f[x]) = <<f[x]>> /\ <<>> \o f[x] = f[x]
    BY ConcatEmptySeq
  <2>2. Mapped(<<x>>, f) = <<f[x]>>
    BY MapOne
  <2>3. FlattenSeq(<<f[x]>>) = FlattenSeq(<<>>) \o f[x]
    BY <2>1, FlatAppend
  <2>4. QED
    BY <2>1, <2>2, <2>3, FlatEmpty DEF Each
<1>3. ASSUME NEW s \in Seq(S) PROVE Each(s, f) \in Seq(V)
  <2> DEFINE W == Seq(V)
             m == Mapped(s, f)
  <2>1. m \in Seq(W)
    BY MapRight
  <2> HIDE DEF m
  <2>2. FlattenSeq(m) \in Seq(V)
    <3>1. <<>> \in Seq(V)
      OBVIOUS
    <3>2. QED
      BY <2>1, <3>1, FlatAppend
  <2>3. QED
    BY <2>2 DEF Each, m
<1>4. ASSUME NEW s \in Seq(S), NEW t \in Seq(S)
      PROVE  Each(s \o t, f) = Each(s, f) \o Each(t, f)
  <2> DEFINE W == Seq(V)
             a == Mapped(s, f)
             b == Mapped(t, f)
  <2>1. a \in Seq(W) /\ b \in Seq(W)
    BY MapRight
  <2>2. Mapped(s \o t, f) = a \o b
    BY MapConcat
  <2> HIDE DEF a, b
  <2>3. FlattenSeq(a \o b) = FlattenSeq(a) \o FlattenSeq(b)
    BY <2>1, FlatConcat
  <2>4. QED
    BY <2>2, <2>3 DEF Each, a, b
<1>5. QED
  BY <1>1, <1>2, <1>3, <1>4

-----------------------------------------------------------------------------
(* Tokens that agree *)

Kept == [x \in TokenRecords |-> IF x.tok = "COMMA" THEN <<>> ELSE <<x>>]

LEMMA SeenRight ==
  ASSUME NEW ps
  PROVE  /\ \A s \in Seq(TokenRecords) : Seen(s, ps) \in Seq(TokenRecords)
         /\ \A s \in Seq(TokenRecords), t \in Seq(TokenRecords) :
              Seen(s \o t, ps) = Seen(s, ps) \o Seen(t, ps)
         /\ \A x \in TokenRecords :
              Seen(<<x>>, ps) = IF x.tok = "COMMA" /\ ps.commas # "required" THEN <<>> ELSE <<x>>
<1> DEFINE T == TokenRecords
<1> HIDE DEF T
<1>1. Kept \in [T -> Seq(T)]
  BY DEF Kept, T
<1>2. ASSUME NEW s \in Seq(T) PROVE Seen(s, ps) = IF ps.commas = "required" THEN s ELSE Each(s, Kept)
  <2>1. \A k \in DOMAIN s : s[k] \in T
    BY LenProperties, ElementOfSeq
  <2>2. \A k \in DOMAIN s : (IF s[k].tok = "COMMA" THEN <<>> ELSE <<s[k]>>) = Kept[s[k]]
    BY <2>1 DEF Kept, T
  <2>3. [k \in DOMAIN s |-> IF s[k].tok = "COMMA" THEN <<>> ELSE <<s[k]>>]
          = Mapped(s, Kept)
    BY <2>2, Zenon DEF Mapped
  <2>4. QED
    BY <2>3, Zenon DEF Seen, Each
<1>3. CASE ps.commas = "required"
  <2>1. \A s \in Seq(T), t \in Seq(T) : s \o t \in Seq(T)
    BY ConcatProperties
  <2>2. \A x \in T : <<x>> \in Seq(T)
    OBVIOUS
  <2>3. QED
    BY <1>2, <1>3, <2>1, <2>2 DEF T
<1>4. CASE ps.commas # "required"
  <2>1. \A s \in Seq(T), t \in Seq(T) : s \o t \in Seq(T)
    BY ConcatProperties
  <2>2. \A x \in T : <<x>> \in Seq(T)
    OBVIOUS
  <2>3. /\ \A x \in T : Each(<<x>>, Kept) = Kept[x]
        /\ \A s \in Seq(T) : Each(s, Kept) \in Seq(T)
        /\ \A s \in Seq(T), t \in Seq(T) : Each(s \o t, Kept) = Each(s, Kept) \o Each(t, Kept)
    BY <1>1, EachRight
  <2>4. \A s \in Seq(T) : Seen(s, ps) = Each(s, Kept)
    BY <1>2, <1>4
  <2>5. \A x \in T : Kept[x] = IF x.tok = "COMMA" THEN <<>> ELSE <<x>>
    BY DEF Kept, T
  <2>6. QED
    BY <1>4, <2>1, <2>2, <2>3, <2>4, <2>5 DEF T
<1>5. QED
  BY <1>3, <1>4

LEMMA SameRight ==
  /\ \A x \in TokenRecords : Same(x, x)
  /\ \A x, y, z \in TokenRecords : Same(x, y) /\ Same(y, z) => Same(x, z)
  BY DEF Same, TokenRecords

\* s and t have the same tokens.
AllSame(s, t) == Len(s) = Len(t) /\ \A k \in DOMAIN s : Same(s[k], t[k])

LEMMA AllSameRight ==
  ASSUME NEW s \in Seq(TokenRecords), NEW t \in Seq(TokenRecords)
  PROVE  /\ AllSame(s, s)
         /\ \A u \in Seq(TokenRecords) : AllSame(s, t) /\ AllSame(t, u) => AllSame(s, u)
         /\ \A u, v \in Seq(TokenRecords) :
              AllSame(s, t) /\ AllSame(u, v) => AllSame(s \o u, t \o v)
<1> DEFINE T == TokenRecords
<1> HIDE DEF T
<1>0. \A a \in Seq(T) : /\ DOMAIN a = 1..Len(a) /\ Len(a) \in Nat
                        /\ \A k \in 1..Len(a) : a[k] \in T
  BY LenProperties, ElementOfSeq
<1>1. AllSame(s, s)
  BY <1>0, SameRight DEF AllSame, T
<1>2. ASSUME NEW u \in Seq(T), AllSame(s, t), AllSame(t, u) PROVE AllSame(s, u)
  BY <1>0, <1>2, SameRight DEF AllSame, T
<1>3. ASSUME NEW u \in Seq(T), NEW v \in Seq(T), AllSame(s, t), AllSame(u, v)
      PROVE  AllSame(s \o u, t \o v)
  <2> DEFINE a == s \o u
             b == t \o v
  <2>1. /\ a \in Seq(T) /\ Len(a) = Len(s) + Len(u)
        /\ \A i \in 1..Len(s) + Len(u) : a[i] = IF i <= Len(s) THEN s[i] ELSE u[i - Len(s)]
    BY ConcatProperties DEF T
  <2>2. /\ b \in Seq(T) /\ Len(b) = Len(t) + Len(v)
        /\ \A i \in 1..Len(t) + Len(v) : b[i] = IF i <= Len(t) THEN t[i] ELSE v[i - Len(t)]
    BY ConcatProperties DEF T
  <2> HIDE DEF a, b
  <2>3. /\ Len(s) = Len(t) /\ Len(u) = Len(v) /\ Len(s) \in Nat /\ Len(u) \in Nat
        /\ \A k \in 1..Len(s) : Same(s[k], t[k])
        /\ \A k \in 1..Len(u) : Same(u[k], v[k])
    BY <1>0, <1>3 DEF AllSame, T
  <2>4. ASSUME NEW i \in 1..Len(s) + Len(u) PROVE Same(a[i], b[i])
    <3>1. CASE i <= Len(s)
      <4>1. i \in 1..Len(s) /\ a[i] = s[i] /\ b[i] = t[i]
        BY <2>1, <2>2, <2>3, <3>1
      <4>2. QED
        BY <2>3, <4>1
    <3>2. CASE ~(i <= Len(s))
      <4>1. i - Len(s) \in 1..Len(u) /\ a[i] = u[i - Len(s)] /\ b[i] = v[i - Len(s)]
        BY <2>1, <2>2, <2>3, <3>2
      <4>2. QED
        BY <2>3, <4>1
    <3>3. QED
      BY <3>1, <3>2
  <2>5. DOMAIN a = 1..Len(s) + Len(u) /\ Len(a) = Len(b)
    BY <1>0, <2>1, <2>2, <2>3
  <2>6. AllSame(a, b)
    BY <2>4, <2>5 DEF AllSame
  <2>7. QED
    BY <2>6 DEF a, b
<1>4. QED
  BY <1>1, <1>2, <1>3 DEF T

LEMMA AgreeIs ==
  ASSUME NEW s, NEW t, NEW ps
  PROVE  Agree(s, t, ps) <=> AllSame(Seen(s, ps), Seen(t, ps))
  BY DEF Agree, AllSame

TokenSeqs == Seq(TokenRecords)

LEMMA TokenSeqsRight ==
  /\ <<>> \in TokenSeqs
  /\ \A x \in TokenRecords : <<x>> \in TokenSeqs
  /\ \A s, t \in TokenSeqs : s \o t \in TokenSeqs
  /\ \A s \in TokenSeqs : s \o <<>> = s /\ <<>> \o s = s
  /\ \A s, t, u \in TokenSeqs : (s \o t) \o u = s \o (t \o u)
<1>1. \A s, t \in TokenSeqs : s \o t \in TokenSeqs
  BY ConcatProperties DEF TokenSeqs
<1>2. \A s \in TokenSeqs : s \o <<>> = s /\ <<>> \o s = s
  BY ConcatEmptySeq DEF TokenSeqs
<1>3. \A s, t, u \in TokenSeqs : (s \o t) \o u = s \o (t \o u)
  BY ConcatAssociative DEF TokenSeqs
<1>4. <<>> \in TokenSeqs /\ \A x \in TokenRecords : <<x>> \in TokenSeqs
  BY DEF TokenSeqs
<1>5. QED
  BY <1>1, <1>2, <1>3, <1>4

LEMMA AgreeRight ==
  ASSUME NEW ps
  PROVE  /\ \A s \in TokenSeqs : Agree(s, s, ps)
         /\ \A s, t, u \in TokenSeqs : Agree(s, t, ps) /\ Agree(t, u, ps) => Agree(s, u, ps)
         /\ \A s, t, u, v \in TokenSeqs :
              Agree(s, t, ps) /\ Agree(u, v, ps) => Agree(s \o u, t \o v, ps)
<1>1. \A s \in TokenSeqs : Seen(s, ps) \in TokenSeqs
  BY SeenRight DEF TokenSeqs
<1>2. \A s, t \in TokenSeqs : Seen(s \o t, ps) = Seen(s, ps) \o Seen(t, ps)
  BY SeenRight DEF TokenSeqs
<1>3. \A s \in TokenSeqs : AllSame(s, s)
  BY AllSameRight DEF TokenSeqs
<1>4. \A s, t, u \in TokenSeqs : AllSame(s, t) /\ AllSame(t, u) => AllSame(s, u)
  BY AllSameRight DEF TokenSeqs
<1>5. \A s, t, u, v \in TokenSeqs : AllSame(s, t) /\ AllSame(u, v) => AllSame(s \o u, t \o v)
  BY AllSameRight DEF TokenSeqs
<1>6. \A s \in TokenSeqs : Agree(s, s, ps)
  BY <1>1, <1>3, AgreeIs
<1>7. ASSUME NEW s \in TokenSeqs, NEW t \in TokenSeqs, NEW u \in TokenSeqs,
             Agree(s, t, ps), Agree(t, u, ps)
      PROVE  Agree(s, u, ps)
  <2>1. AllSame(Seen(s, ps), Seen(t, ps)) /\ AllSame(Seen(t, ps), Seen(u, ps))
    BY <1>7, AgreeIs
  <2>2. AllSame(Seen(s, ps), Seen(u, ps))
    BY <1>1, <1>4, <2>1
  <2>3. QED
    BY <2>2, AgreeIs
<1>8. ASSUME NEW s \in TokenSeqs, NEW t \in TokenSeqs, NEW u \in TokenSeqs, NEW v \in TokenSeqs,
             Agree(s, t, ps), Agree(u, v, ps)
      PROVE  Agree(s \o u, t \o v, ps)
  <2>1. AllSame(Seen(s, ps), Seen(t, ps)) /\ AllSame(Seen(u, ps), Seen(v, ps))
    BY <1>8, AgreeIs
  <2>2. AllSame(Seen(s, ps) \o Seen(u, ps), Seen(t, ps) \o Seen(v, ps))
    BY <1>1, <1>5, <2>1
  <2>3. AllSame(Seen(s \o u, ps), Seen(t \o v, ps))
    BY <1>2, <2>2
  <2>4. QED
    BY <2>3, AgreeIs
<1>9. QED
  BY <1>6, <1>7, <1>8

\* One token agrees with the same one, an optional comma with nothing.
LEMMA AgreeOne ==
  ASSUME NEW ps, NEW x \in TokenRecords
  PROVE  /\ \A y \in TokenRecords : Same(x, y) => Agree(<<x>>, <<y>>, ps)
         /\ x.tok = "COMMA" /\ ps.commas # "required" => Agree(<<x>>, <<>>, ps)
<1>0. /\ <<>> \in TokenSeqs /\ AllSame(<<>>, <<>>)
      /\ \A z \in TokenRecords :
           Seen(<<z>>, ps) = IF z.tok = "COMMA" /\ ps.commas # "required" THEN <<>> ELSE <<z>>
  <2>1. <<>> \in TokenSeqs
    BY TokenSeqsRight
  <2>2. AllSame(<<>>, <<>>)
    BY DEF AllSame
  <2>3. QED
    BY <2>1, <2>2, SeenRight
<1>1. ASSUME NEW y \in TokenRecords, Same(x, y) PROVE Agree(<<x>>, <<y>>, ps)
  <2>1. x.tok = y.tok
    BY <1>1 DEF Same
  <2>2. CASE x.tok = "COMMA" /\ ps.commas # "required"
    BY <1>0, <2>1, <2>2, AgreeIs
  <2>3. CASE ~(x.tok = "COMMA" /\ ps.commas # "required")
    <3>1. Seen(<<x>>, ps) = <<x>> /\ Seen(<<y>>, ps) = <<y>>
      BY <1>0, <2>1, <2>3
    <3>2. AllSame(<<x>>, <<y>>)
      BY <1>1 DEF AllSame
    <3>3. QED
      BY <3>1, <3>2, AgreeIs
  <2>4. QED
    BY <2>2, <2>3
<1>2. ASSUME x.tok = "COMMA", ps.commas # "required" PROVE Agree(<<x>>, <<>>, ps)
  <2>1. Seen(<<x>>, ps) = <<>>
    BY <1>0, <1>2
  <2>2. Seen(<<>>, ps) = <<>>
    <3>1. CASE ps.commas = "required"
      BY <3>1 DEF Seen
    <3>2. CASE ps.commas # "required"
      BY <3>2, FlatEmpty DEF Seen
    <3>3. QED
      BY <3>1, <3>2
  <2>3. QED
    BY <1>0, <2>1, <2>2, AgreeIs
<1>3. QED
  BY <1>1, <1>2

-----------------------------------------------------------------------------
(* What is read *)

\* From l to m the tokens s are read.
Reads(l, s, m, ps) == Agree(s \o Rest(m), Rest(l), ps)

LEMMA RestIsTokens ==
  ASSUME NEW l \in LexerObjects
  PROVE  Rest(l) \in TokenSeqs
  BY RestRight DEF TokenSeqs

LEMMA ReadsReads ==
  ASSUME NEW ps, NEW l \in LexerObjects, NEW m \in LexerObjects, NEW k \in LexerObjects,
         NEW s \in TokenSeqs, NEW t \in TokenSeqs, Reads(l, s, m, ps), Reads(m, t, k, ps)
  PROVE  Reads(l, s \o t, k, ps)
<1> DEFINE a == Rest(l)
           b == Rest(m)
           c == Rest(k)
<1>1. a \in TokenSeqs /\ b \in TokenSeqs /\ c \in TokenSeqs
  BY RestIsTokens
<1>2. Agree(s \o b, a, ps) /\ Agree(t \o c, b, ps)
  BY DEF Reads
<1> HIDE DEF a, b, c
<1>3. t \o c \in TokenSeqs /\ s \o b \in TokenSeqs /\ s \o (t \o c) \in TokenSeqs
  BY <1>1, TokenSeqsRight
<1>4. Agree(s \o (t \o c), s \o b, ps)
  BY <1>1, <1>2, <1>3, AgreeRight
<1>5. Agree(s \o (t \o c), a, ps)
  BY <1>1, <1>2, <1>3, <1>4, AgreeRight
<1>6. s \o (t \o c) = (s \o t) \o c
  BY <1>1, TokenSeqsRight
<1>7. QED
  BY <1>5, <1>6 DEF Reads, a, c

LEMMA ReadsNothing ==
  ASSUME NEW ps, NEW l \in LexerObjects, NEW m \in LexerObjects, Rest(m) = Rest(l)
  PROVE  Reads(l, <<>>, m, ps)
<1>1. Rest(l) \in TokenSeqs
  BY RestIsTokens
<1>2. <<>> \o Rest(m) = Rest(l)
  BY <1>1, TokenSeqsRight
<1>3. QED
  BY <1>1, <1>2, AgreeRight DEF Reads

LEMMA ReadsToken ==
  ASSUME NEW ps, NEW l \in LexerObjects, NEW g, g = GetToken(l), ~Ends(g),
         NEW x \in TokenRecords, Same(x, TokenOf(g))
  PROVE  Reads(l, <<x>>, g, ps)
<1>1. g \in LexerObjects
  BY TokensGoOn
<1>2. Rest(g) \in TokenSeqs /\ TokenOf(g) \in TokenRecords
  BY <1>1, RestIsTokens, TokenOfRight
<1> DEFINE y == TokenOf(g)
           c == Rest(g)
<1>3. Rest(l) = <<y>> \o c
  BY RestRight
<1> HIDE DEF y, c
<1>4. <<x>> \in TokenSeqs /\ <<y>> \in TokenSeqs
  BY <1>2, TokenSeqsRight DEF y
<1>5. Agree(<<x>>, <<y>>, ps)
  BY <1>2, AgreeOne DEF y
<1>6. Agree(c, c, ps)
  BY <1>2, AgreeRight DEF c
<1>7. Agree(<<x>> \o c, <<y>> \o c, ps)
  BY <1>2, <1>4, <1>5, <1>6, AgreeRight DEF c
<1>8. QED
  BY <1>3, <1>7 DEF Reads, c

LEMMA ReadsComma ==
  ASSUME NEW ps, NEW l \in LexerObjects, ps.commas # "required"
  PROVE  Reads(l, <<Plain("COMMA")>>, l, ps)
<1> DEFINE c == Rest(l)
           x == Plain("COMMA")
<1>1. x \in TokenRecords /\ x.tok = "COMMA"
  BY PlainRight, TokensKnown DEF Plain, Token
<1>2. c \in TokenSeqs
  BY RestIsTokens
<1> HIDE DEF c, x
<1>3. <<x>> \in TokenSeqs /\ <<>> \in TokenSeqs /\ <<>> \o c = c
  BY <1>1, <1>2, TokenSeqsRight
<1>4. Agree(<<x>>, <<>>, ps) /\ Agree(c, c, ps)
  BY <1>1, <1>2, AgreeOne, AgreeRight
<1>5. Agree(<<x>> \o c, <<>> \o c, ps)
  BY <1>2, <1>3, <1>4, AgreeRight
<1>6. QED
  BY <1>3, <1>5 DEF Reads, c, x

\* A token without a value is read as it is.
LEMMA PlainToken ==
  ASSUME NEW g \in LexerObjects, g.tok \notin {"NUM", "STRING", "IDENT"}
  PROVE  Plain(g.tok) \in TokenRecords /\ Same(Plain(g.tok), TokenOf(g))
<1>1. Plain(g.tok) \in TokenRecords
  BY LexerTypes, PlainRight
<1>2. Same(Plain(g.tok), TokenOf(g))
  BY DEF Plain, TokenOf, Token, Same
<1>3. QED
  BY <1>1, <1>2

\* Before an element of a list a comma is read, but for the first one.
LEMMA StartRead ==
  ASSUME NEW ps, NEW l \in LexerObjects, NEW g, g = GetToken(l), ~g.err, NEW first \in BOOLEAN,
         NEW e, e = ElementStart(g, ps, first), ~e.err
  PROVE  e \in LexerObjects /\ Reads(l, IF first THEN <<>> ELSE <<Plain("COMMA")>>, e, ps)
<1> DEFINE x == Plain("COMMA")
<1>0. x \in TokenRecords /\ <<>> \in TokenSeqs
  BY PlainRight, TokensKnown, TokenSeqsRight
<1>1. g \in LexerObjects /\ Putback(g) \in LexerObjects /\ Rest(Putback(g)) = Rest(l)
  BY TokensGoOn, PutbackRest
<1>2. Reads(l, <<>>, Putback(g), ps)
  BY <1>1, ReadsNothing
<1>3. ASSUME g.tok = "COMMA" PROVE Reads(l, <<x>>, g, ps)
  <2>1. ~Ends(g)
    BY <1>3 DEF Ends
  <2>2. Same(x, TokenOf(g))
    BY <1>1, <1>3, PlainToken
  <2> HIDE DEF x
  <2>3. QED
    BY <1>0, <2>1, <2>2, ReadsToken
<1>4. CASE first
  BY <1>1, <1>2, <1>4 DEF ElementStart
<1>5. CASE ~first /\ ps.commas = "required"
  <2>1. e = ExpectCurrent(g, "COMMA")
    BY <1>5 DEF ElementStart
  <2>2. Throw(g).err
    BY <1>1, ThrowRight
  <2>3. g.tok = "COMMA" /\ e = g
    BY <2>1, <2>2 DEF ExpectCurrent
  <2>4. QED
    BY <1>1, <1>3, <1>5, <2>3
<1>6. CASE ~first /\ ps.commas # "required" /\ g.tok = "COMMA"
  BY <1>1, <1>3, <1>6 DEF ElementStart
<1>7. CASE ~first /\ ps.commas # "required" /\ g.tok # "COMMA"
  <2>1. e = Putback(g)
    BY <1>7 DEF ElementStart
  <2>2. Reads(e, <<x>>, e, ps)
    BY <1>1, <1>7, <2>1, ReadsComma
  <2> HIDE DEF x
  <2>3. <<x>> \in TokenSeqs /\ <<>> \o <<x>> = <<x>>
    BY <1>0, TokenSeqsRight
  <2>4. Reads(l, <<>> \o <<x>>, e, ps)
    BY <1>0, <1>1, <1>2, <2>1, <2>2, <2>3, ReadsReads
  <2>5. QED
    BY <1>1, <1>7, <2>1, <2>3, <2>4 DEF x
<1>8. QED
  BY <1>4, <1>5, <1>6, <1>7

-----------------------------------------------------------------------------
(* Values written out *)

\* The items of a list, a comma before each.
LEMMA ItemsRight ==
  ASSUME NEW S, NEW write \in [S -> TokenSeqs]
  PROVE  /\ Items(<<>>, write) = <<>>
         /\ \A w \in Seq(S) : Items(w, write) \in TokenSeqs
         /\ \A x \in S : \A w \in Seq(S) :
              Items(<<x>> \o w, write) = (<<Plain("COMMA")>> \o write[x]) \o Items(w, write)
<1> DEFINE c == <<Plain("COMMA")>>
           f == [x \in S |-> c \o write[x]]
<1>1. c \in TokenSeqs
  BY PlainRight, TokensKnown, TokenSeqsRight
<1> HIDE DEF c
<1>2. f \in [S -> Seq(TokenRecords)]
  <2>1. \A x \in S : c \o write[x] \in TokenSeqs
    BY <1>1, TokenSeqsRight
  <2>2. QED
    BY <2>1 DEF TokenSeqs
<1>3. ASSUME NEW w \in Seq(S) PROVE Items(w, write) = Each(w, f)
  <2>1. \A k \in DOMAIN w : w[k] \in S
    BY LenProperties, ElementOfSeq
  <2>2. \A k \in DOMAIN w : c \o write[w[k]] = f[w[k]]
    BY <2>1
  <2>3. [k \in DOMAIN w |-> c \o write[w[k]]] = Mapped(w, f)
    BY <2>2, Zenon DEF Mapped
  <2> HIDE DEF f
  <2>4. QED
    BY <2>3, Zenon DEF Items, Each, c
<1>4. \A x \in S : f[x] = c \o write[x]
  OBVIOUS
<1> HIDE DEF f
<1>5. /\ Each(<<>>, f) = <<>> /\ \A x \in S : Each(<<x>>, f) = f[x]
      /\ \A s \in Seq(S) : Each(s, f) \in Seq(TokenRecords)
      /\ \A s \in Seq(S), t \in Seq(S) : Each(s \o t, f) = Each(s, f) \o Each(t, f)
  BY <1>2, EachRight
<1>6. <<>> \in Seq(S) /\ \A x \in S : <<x>> \in Seq(S)
  OBVIOUS
<1>7. \A x \in S : \A w \in Seq(S) : <<x>> \o w \in Seq(S)
  BY <1>6, ConcatProperties
<1>8. \A x \in S : \A w \in Seq(S) : Each(<<x>> \o w, f) = f[x] \o Each(w, f)
  BY <1>5, <1>6
<1>9. Items(<<>>, write) = <<>>
  BY <1>3, <1>5, <1>6
<1>10. \A w \in Seq(S) : Items(w, write) \in TokenSeqs
  BY <1>3, <1>5 DEF TokenSeqs
<1>11. \A x \in S : \A w \in Seq(S) :
         Items(<<x>> \o w, write) = (c \o write[x]) \o Items(w, write)
  BY <1>3, <1>4, <1>7, <1>8
<1>12. QED
  BY <1>9, <1>10, <1>11 DEF c

\* Without the first comma.
Inner(s) == IF s = <<>> THEN s ELSE Tail(s)

LEMMA InnerRight ==
  /\ Inner(<<>>) = <<>>
  /\ \A s \in TokenSeqs : Inner(s) \in TokenSeqs
  /\ \A x \in TokenRecords : \A s \in TokenSeqs : Inner(<<x>> \o s) = s
<1>1. \A s \in TokenSeqs : Inner(s) \in TokenSeqs
  BY HeadTailProperties DEF TokenSeqs, Inner
<1>2. ASSUME NEW x \in TokenRecords, NEW s \in TokenSeqs PROVE Inner(<<x>> \o s) = s
  <2> DEFINE T == TokenRecords
             a == <<x>>
             b == a \o s
  <2>1. a \in Seq(T) /\ Len(a) = 1 /\ s \in Seq(T) /\ Len(s) \in Nat
    BY LenProperties DEF TokenSeqs
  <2> HIDE DEF a
  <2>2. /\ b \in Seq(T) /\ Len(b) = 1 + Len(s)
        /\ \A i \in 1..Len(a) + Len(s) : b[i] = IF i <= Len(a) THEN a[i] ELSE s[i - Len(a)]
    BY <2>1, ConcatProperties
  <2> HIDE DEF b, T
  <2>3. b # <<>>
    BY <2>1, <2>2, EmptySeq
  <2> DEFINE c == Tail(b)
  <2>4. c \in Seq(T) /\ Len(c) = Len(s) /\ \A i \in 1..Len(c) : c[i] = b[i + 1]
    BY <2>1, <2>2, <2>3, HeadTailProperties
  <2> HIDE DEF c
  <2>5. ASSUME NEW i \in 1..Len(c) PROVE c[i] = s[i]
    <3>1. /\ i + 1 \in 1..Len(a) + Len(s) /\ ~(i + 1 <= Len(a)) /\ (i + 1) - Len(a) = i
      BY <2>1, <2>4
    <3>2. b[i + 1] = s[(i + 1) - Len(a)]
      BY <2>2, <3>1
    <3>3. QED
      BY <2>4, <3>1, <3>2
  <2>6. c = s
    BY <2>1, <2>4, <2>5, SeqEqual
  <2>7. QED
    BY <2>3, <2>6 DEF Inner, a, b, c
<1>3. QED
  BY <1>1, <1>2 DEF Inner

\* The delimiters of lists and expressions, and those that close them.
\* A delimited sequence.
LEMMA EnclosedRight ==
  ASSUME NEW t \in Openings, NEW s \in TokenSeqs
  PROVE  /\ Enclosed(t, s) \in TokenSeqs
         /\ Enclosed(t, s) = <<Plain(t)>> \o (Inner(s) \o <<Plain(ClosingToken(t))>>)
<1> DEFINE x == Plain(t)
           y == Plain(ClosingToken(t))
           i == Inner(s)
<1>1. x \in TokenRecords /\ y \in TokenRecords
  BY ClosingExactly, PlainRight
<1>2. i \in TokenSeqs
  BY InnerRight
<1>3. Enclosed(t, s) = (<<x>> \o i) \o <<y>>
  BY DEF Enclosed, Inner
<1> HIDE DEF x, y, i
<1>4. /\ <<x>> \in TokenSeqs /\ <<y>> \in TokenSeqs /\ <<x>> \o i \in TokenSeqs
      /\ (<<x>> \o i) \o <<y>> \in TokenSeqs
      /\ (<<x>> \o i) \o <<y>> = <<x>> \o (i \o <<y>>)
  BY <1>1, <1>2, TokenSeqsRight
<1>5. QED
  BY <1>3, <1>4 DEF x, y, i

\* The tokens of each kind of value.
LEMMA ValueTokensAre ==
  ASSUME NEW ps, NEW write
  PROVE  /\ \A n \in Int :
              ValueTokens(NumValue(n), ps, write) = <<Token("NUM", n, <<>>, 0)>>
         /\ \A s \in Seq(Chars) : ValueTokens(StringValue(s), ps, write) = Ident(s, 0)
         /\ \A w : ValueTokens(ListValue(w), ps, write) = Enclosed(ps.list, Items(w, write))
         /\ \A s \in Seq(Chars) : \A w : ValueTokens(Expression(s, w), ps, write)
              = Ident(s, 0) \o Enclosed(ps.expr, Items(w, write))
<1>1. \A n \in Int : ValueTokens(NumValue(n), ps, write) = <<Token("NUM", n, <<>>, 0)>>
  BY DEF ValueTokens, NumValue, Value
<1>2. \A s \in Seq(Chars) : ValueTokens(StringValue(s), ps, write) = Ident(s, 0)
  BY DEF ValueTokens, StringValue, Value
<1>3. \A w : ValueTokens(ListValue(w), ps, write) = Enclosed(ps.list, Items(w, write))
  BY DEF ValueTokens, ListValue, Value
<1>4. \A s \in Seq(Chars) : \A w : ValueTokens(Expression(s, w), ps, write)
              = Ident(s, 0) \o Enclosed(ps.expr, Items(w, write))
  BY DEF ValueTokens, Expression, Value
<1>5. QED
  BY <1>1, <1>2, <1>3, <1>4

LEMMA ValueTokensRight ==
  ASSUME NEW ps, ps.list \in Openings, ps.expr \in Openings, NEW S,
         NEW write \in [S -> TokenSeqs], NEW v \in Built(S)
  PROVE  ValueTokens(v, ps, write) \in TokenSeqs
<1>1. ASSUME NEW w \in Seq(S), NEW t \in Openings PROVE Enclosed(t, Items(w, write)) \in TokenSeqs
  BY ItemsRight, EnclosedRight
<1>2. ASSUME NEW s \in Seq(Chars) PROVE Ident(s, 0) \in TokenSeqs
  <2>1. Token("IDENT", 0, s, 0) \in TokenRecords
    BY TokensKnown DEF Token, TokenRecords
  <2>2. QED
    BY <2>1, TokenSeqsRight DEF Ident
<1>3. ASSUME NEW n \in Int, v = NumValue(n) PROVE ValueTokens(v, ps, write) \in TokenSeqs
  <2>1. Token("NUM", n, <<>>, 0) \in TokenRecords
    BY TokensKnown DEF Token, TokenRecords
  <2>2. ValueTokens(v, ps, write) = <<Token("NUM", n, <<>>, 0)>>
    BY <1>3, ValueTokensAre
  <2> HIDE DEF Token
  <2>3. QED
    BY <2>1, <2>2, TokenSeqsRight
<1>4. ASSUME NEW s \in Seq(Chars), v = StringValue(s) PROVE ValueTokens(v, ps, write) \in TokenSeqs
  BY <1>2, <1>4, ValueTokensAre
<1>5. ASSUME NEW w \in Seq(S), v = ListValue(w) PROVE ValueTokens(v, ps, write) \in TokenSeqs
  BY <1>1, <1>5, ValueTokensAre
<1>6. ASSUME NEW s \in Seq(Chars), NEW w \in Seq(S), v = Expression(s, w)
      PROVE  ValueTokens(v, ps, write) \in TokenSeqs
  <2>1. ValueTokens(v, ps, write) = Ident(s, 0) \o Enclosed(ps.expr, Items(w, write))
    BY <1>6, ValueTokensAre
  <2>2. Ident(s, 0) \in TokenSeqs /\ Enclosed(ps.expr, Items(w, write)) \in TokenSeqs
    BY <1>1, <1>2
  <2>3. QED
    BY <2>1, <2>2, TokenSeqsRight
<1>7. QED
  BY <1>3, <1>4, <1>5, <1>6, BuiltOnly

\* Whoever writes the items the same way writes the value the same way.
LEMMA ValueTokensSame ==
  ASSUME NEW ps, NEW S, NEW v \in Built(S), NEW write, NEW other,
         \A x \in S : write[x] = other[x]
  PROVE  ValueTokens(v, ps, write) = ValueTokens(v, ps, other)
<1>1. ASSUME NEW w \in Seq(S) PROVE Items(w, write) = Items(w, other)
  <2>1. \A k \in DOMAIN w : w[k] \in S
    BY LenProperties, ElementOfSeq
  <2> DEFINE c == <<Plain("COMMA")>>
  <2> HIDE DEF c
  <2>2. \A k \in DOMAIN w : c \o write[w[k]] = c \o other[w[k]]
    BY <2>1
  <2>3. [k \in DOMAIN w |-> c \o write[w[k]]] = [k \in DOMAIN w |-> c \o other[w[k]]]
    BY <2>2
  <2>4. QED
    BY <2>3, Zenon DEF Items, c
<1>2. ASSUME NEW n \in Int, v = NumValue(n)
      PROVE  ValueTokens(v, ps, write) = ValueTokens(v, ps, other)
  <2>1. /\ ValueTokens(v, ps, write) = <<Token("NUM", n, <<>>, 0)>>
        /\ ValueTokens(v, ps, other) = <<Token("NUM", n, <<>>, 0)>>
    BY <1>2, ValueTokensAre
  <2>2. QED
    BY <2>1
<1>3. ASSUME NEW s \in Seq(Chars), v = StringValue(s)
      PROVE  ValueTokens(v, ps, write) = ValueTokens(v, ps, other)
  <2>1. ValueTokens(v, ps, write) = Ident(s, 0) /\ ValueTokens(v, ps, other) = Ident(s, 0)
    BY <1>3, ValueTokensAre
  <2>2. QED
    BY <2>1
<1>4. ASSUME NEW w \in Seq(S), v = ListValue(w)
      PROVE  ValueTokens(v, ps, write) = ValueTokens(v, ps, other)
  <2>1. /\ ValueTokens(v, ps, write) = Enclosed(ps.list, Items(w, write))
        /\ ValueTokens(v, ps, other) = Enclosed(ps.list, Items(w, other))
    BY <1>4, ValueTokensAre
  <2>2. QED
    BY <1>1, <2>1
<1>5. ASSUME NEW s \in Seq(Chars), NEW w \in Seq(S), v = Expression(s, w)
      PROVE  ValueTokens(v, ps, write) = ValueTokens(v, ps, other)
  <2>1. /\ ValueTokens(v, ps, write) = Ident(s, 0) \o Enclosed(ps.expr, Items(w, write))
        /\ ValueTokens(v, ps, other) = Ident(s, 0) \o Enclosed(ps.expr, Items(w, other))
    BY <1>5, ValueTokensAre
  <2>2. QED
    BY <1>1, <2>1
<1>6. QED
  BY <1>2, <1>3, <1>4, <1>5, BuiltOnly

Writes(n) == [ValuesUpTo[n] -> TokenSeqs]

LEMMA RenderLoop ==
  ASSUME NEW ps, ps.list \in Openings, ps.expr \in Openings
  PROVE  /\ \A n \in Nat : RenderUpTo(ps)[n] \in Writes(n)
         /\ \A n \in Nat : \A v \in ValuesUpTo[n + 1] :
              RenderUpTo(ps)[n + 1][v] = ValueTokens(v, ps, RenderUpTo(ps)[n])
<1> DEFINE Turn(n, h) == [v \in ValuesUpTo[n] |-> ValueTokens(v, ps, h)]
           V == UNION {Writes(n) : n \in Nat}
           base == [v \in ValuesUpTo[0] |-> <<>>]
           step == [n \in Nat |-> [h \in V |-> IF h \in Writes(n) THEN Turn(n + 1, h) ELSE base]]
           Body(u) == [n \in Nat |-> [v \in ValuesUpTo[n] |-> ValueTokens(v, ps, u[n - 1])]]
           R == RenderUpTo(ps)
<1>1. ASSUME NEW n \in Nat, NEW h \in Writes(n) PROVE Turn(n + 1, h) \in Writes(n + 1)
  <2>1. ValuesUpTo[n + 1] = Built(ValuesUpTo[n])
    BY DepthsExist
  <2>2. \A v \in ValuesUpTo[n + 1] : ValueTokens(v, ps, h) \in TokenSeqs
    BY <2>1, ValueTokensRight DEF Writes
  <2>3. QED
    BY <2>2 DEF Writes
<1>2. base \in Writes(0) /\ base \in V
  <2>1. base \in Writes(0)
    BY TokenSeqsRight DEF Writes
  <2>2. QED
    BY <2>1
<1>3. StepsIn(V, step)
  <2>1. \A n \in Nat : \A h \in Writes(n) : Turn(n + 1, h) \in V
    BY <1>1
  <2> HIDE DEF base, V, Turn
  <2>2. QED
    BY <1>2, <2>1 DEF StepsIn
<1>4. PICK u : Follows(u, V, base, step)
  <2> HIDE DEF V, base, step
  <2>1. QED
    BY <1>2, <1>3, Recursion
<1>5. u \in [Nat -> V] /\ u[0] = base /\ \A n \in Nat : u[n + 1] = step[n][u[n]]
  BY <1>4 DEF Follows
<1>6. \A n \in Nat : u[n] \in Writes(n) => u[n + 1] = Turn(n + 1, u[n])
  <2> HIDE DEF base, Turn, V
  <2>1. \A n \in Nat : u[n] \in V
    BY <1>5
  <2>2. QED
    BY <1>5, <2>1
<1> DEFINE S == {n \in Nat : u[n] \in Writes(n)}
<1>7. 0 \in S
  BY <1>2, <1>5
<1>8. \A n \in Nat : n \in S => n + 1 \in S
  <2> HIDE DEF Turn
  <2>1. QED
    BY <1>1, <1>6
<1>9. Nat \subseteq S
  <2> HIDE DEF S
  <2>1. QED
    BY <1>7, <1>8, SetInduction
<1>10. \A n \in Nat : u[n + 1] = Turn(n + 1, u[n])
  BY <1>6, <1>9
<1> HIDE DEF step, V
<1>11. u = Body(u)
  <2>1. ASSUME NEW n \in Nat PROVE u[n] = [v \in ValuesUpTo[n] |-> ValueTokens(v, ps, u[n - 1])]
    <3>1. CASE n = 0
      <4>1. ValuesUpTo[0] = {}
        BY DepthsExist
      <4>2. [v \in ValuesUpTo[0] |-> <<>>] = [v \in ValuesUpTo[0] |-> ValueTokens(v, ps, u[0 - 1])]
        BY <4>1
      <4>3. QED
        BY <1>5, <3>1, <4>2
    <3>2. CASE n # 0
      <4>1. n - 1 \in Nat /\ (n - 1) + 1 = n
        BY <3>2
      <4>2. u[(n - 1) + 1] = Turn((n - 1) + 1, u[n - 1])
        BY <1>10, <4>1
      <4>3. QED
        BY <4>1, <4>2
    <3>3. QED
      BY <3>1, <3>2
  <2>2. u = [n \in Nat |-> u[n]]
    BY <1>5
  <2>3. QED
    BY <2>1, <2>2
<1>12. R = Body(R)
  <2>1. R = CHOOSE f : f = Body(f)
    BY DEF RenderUpTo
  <2> HIDE DEF Body, R
  <2>2. QED
    BY <1>11, <2>1
<1> HIDE DEF R
<1>13. R[0] \in Writes(0)
  <2>1. R[0] = [v \in ValuesUpTo[0] |-> ValueTokens(v, ps, R[0 - 1])]
    BY <1>12
  <2>2. ValuesUpTo[0] = {}
    BY DepthsExist
  <2>3. QED
    BY <2>1, <2>2 DEF Writes
<1>14. ASSUME NEW n \in Nat PROVE R[n + 1] = Turn(n + 1, R[n])
  <2>1. n + 1 \in Nat /\ (n + 1) - 1 = n
    OBVIOUS
  <2>2. R[n + 1] = [v \in ValuesUpTo[n + 1] |-> ValueTokens(v, ps, R[(n + 1) - 1])]
    BY <1>12, <2>1
  <2>3. QED
    BY <2>1, <2>2
<1> DEFINE Q == {n \in Nat : R[n] \in Writes(n)}
<1>15. 0 \in Q
  BY <1>13
<1>16. \A n \in Nat : n \in Q => n + 1 \in Q
  <2> HIDE DEF Turn
  <2>1. QED
    BY <1>1, <1>14
<1>17. Nat \subseteq Q
  <2> HIDE DEF Q
  <2>1. QED
    BY <1>15, <1>16, SetInduction
<1>18. QED
  <2>1. \A n \in Nat : R[n] \in Writes(n)
    BY <1>17
  <2>2. \A n \in Nat : \A v \in ValuesUpTo[n + 1] : R[n + 1][v] = ValueTokens(v, ps, R[n])
    BY <1>14
  <2>3. QED
    BY <2>1, <2>2 DEF R

\* However deep the values are written, one has the same tokens.
LEMMA RenderSame ==
  ASSUME NEW ps, ps.list \in Openings, ps.expr \in Openings
  PROVE  \A n \in Nat : \A m \in Nat : n <= m =>
           \A v \in ValuesUpTo[n] : RenderUpTo(ps)[m][v] = RenderUpTo(ps)[n][v]
<1> DEFINE R == RenderUpTo(ps)
           S == {n \in Nat : \A m \in Nat : n <= m =>
                   \A v \in ValuesUpTo[n] : R[m][v] = R[n][v]}
<1>0. \A n \in Nat : \A v \in ValuesUpTo[n + 1] : R[n + 1][v] = ValueTokens(v, ps, R[n])
  BY RenderLoop
<1> HIDE DEF R
<1>1. 0 \in S
  BY DepthsExist
<1>2. ASSUME NEW n \in Nat, n \in S PROVE n + 1 \in S
  <2> SUFFICES ASSUME NEW m \in Nat, n + 1 <= m, NEW v \in ValuesUpTo[n + 1]
               PROVE  R[m][v] = R[n + 1][v]
    OBVIOUS
  <2> DEFINE k == m - 1
  <2>1. k \in Nat /\ k + 1 = m /\ n <= k /\ n + 1 <= k + 1 /\ n + 1 \in Nat /\ k + 1 \in Nat
    OBVIOUS
  <2> HIDE DEF k
  <2>2. v \in Built(ValuesUpTo[n]) /\ v \in ValuesUpTo[k + 1]
    BY <2>1, DepthsExist, DepthsGrow
  <2>3. R[n + 1][v] = ValueTokens(v, ps, R[n]) /\ R[k + 1][v] = ValueTokens(v, ps, R[k])
    BY <1>0, <2>1, <2>2
  <2>4. \A x \in ValuesUpTo[n] : R[k][x] = R[n][x]
    BY <1>2, <2>1
  <2>5. ValueTokens(v, ps, R[k]) = ValueTokens(v, ps, R[n])
    BY <2>2, <2>4, ValueTokensSame
  <2>6. QED
    BY <2>1, <2>3, <2>5
<1> HIDE DEF S
<1>3. Nat \subseteq S
  BY <1>1, <1>2, SetInduction
<1>4. QED
  BY <1>3 DEF S, R

\* The tokens of any value.
Shown(ps) == [v \in AllValues |-> RenderUpTo(ps)[CHOOSE n \in Nat : v \in ValuesUpTo[n]][v]]

LEMMA ShownRight ==
  ASSUME NEW ps, ps.list \in Openings, ps.expr \in Openings
  PROVE  /\ Shown(ps) \in [AllValues -> TokenSeqs]
         /\ \A n \in Nat : \A v \in ValuesUpTo[n] : RenderUpTo(ps)[n][v] = Shown(ps)[v]
         /\ \A v \in AllValues : Shown(ps)[v] = ValueTokens(v, ps, Shown(ps))
<1> DEFINE R == RenderUpTo(ps)
           D(v) == CHOOSE n \in Nat : v \in ValuesUpTo[n]
           H == Shown(ps)
<1>0. \A n \in Nat : \A m \in Nat : n <= m => \A v \in ValuesUpTo[n] : R[m][v] = R[n][v]
  BY RenderSame
<1>1. \A v \in AllValues : D(v) \in Nat /\ v \in ValuesUpTo[D(v)]
  BY DEF AllValues
<1>2. \A v \in AllValues : H[v] = R[D(v)][v]
  BY DEF Shown
<1>3. \A n \in Nat : R[n] \in Writes(n)
  BY RenderLoop
<1>4. ASSUME NEW v \in AllValues PROVE R[D(v)][v] \in TokenSeqs
  BY <1>1, <1>3 DEF Writes
<1>5. H \in [AllValues -> TokenSeqs]
  BY <1>4 DEF Shown
<1>6. ASSUME NEW n \in Nat, NEW v \in ValuesUpTo[n] PROVE v \in AllValues /\ R[n][v] = H[v]
  <2>1. v \in AllValues
    BY DEF AllValues
  <2> DEFINE m == D(v)
  <2>2. m \in Nat /\ v \in ValuesUpTo[m] /\ H[v] = R[m][v]
    BY <1>1, <1>2, <2>1
  <2> HIDE DEF m, H, R
  <2>3. CASE m <= n
    BY <1>0, <2>1, <2>2, <2>3
  <2>4. CASE n <= m
    BY <1>0, <2>1, <2>2, <2>4
  <2>5. QED
    BY <2>1, <2>2, <2>3, <2>4
<1> HIDE DEF H, D
<1>7. ASSUME NEW v \in AllValues PROVE H[v] = ValueTokens(v, ps, H)
  <2>1. PICK m \in Nat : v \in ValuesUpTo[m]
    BY DEF AllValues
  <2>2. v \in ValuesUpTo[m + 1] /\ m + 1 \in Nat /\ ValuesUpTo[m + 1] = Built(ValuesUpTo[m])
    BY <2>1, DepthsExist, DepthsGrow
  <2>3. R[m + 1][v] = ValueTokens(v, ps, R[m])
    BY <2>2, RenderLoop
  <2>4. \A x \in ValuesUpTo[m] : R[m][x] = H[x]
    BY <1>6
  <2>5. ValueTokens(v, ps, R[m]) = ValueTokens(v, ps, H)
    BY <2>2, <2>4, ValueTokensSame
  <2>6. H[v] = R[m + 1][v]
    BY <1>6, <2>2
  <2>7. QED
    BY <2>3, <2>5, <2>6
<1>8. QED
  BY <1>5, <1>6, <1>7 DEF H

-----------------------------------------------------------------------------
(* What the parser reads *)

LEMMA ListParts ==
  ASSUME NEW n \in Nat, NEW v \in ValuesUpTo[n]
  PROVE  /\ v \in AllValues /\ v.items \in Seq(ValuesUpTo[n])
         /\ v.type = "list" => v = ListValue(v.items)
<1>1. n # 0
  BY DepthsExist
<1> DEFINE k == n - 1
<1>2. k \in Nat /\ k + 1 = n /\ k <= n
  BY <1>1
<1> HIDE DEF k
<1>3. v \in Built(ValuesUpTo[k]) /\ ValuesUpTo[k] \subseteq ValuesUpTo[n]
  BY <1>2, DepthsExist, DepthsGrow
<1>4. \A w \in Seq(ValuesUpTo[k]) : w \in Seq(ValuesUpTo[n])
  BY <1>3, SeqMonotonic
<1>5. v \in AllValues
  BY DEF AllValues
<1>6. v.items \in Seq(ValuesUpTo[n]) /\ (v.type = "list" => v = ListValue(v.items))
  <2>0. <<>> \in Seq(ValuesUpTo[n])
    OBVIOUS
  <2>1. CASE \E i \in Int : v = NumValue(i)
    BY <2>0, <2>1 DEF NumValue, Value
  <2>2. CASE \E s \in Seq(Chars) : v = StringValue(s)
    BY <2>0, <2>2 DEF StringValue, Value
  <2>3. CASE \E w \in Seq(ValuesUpTo[k]) : v = ListValue(w)
    BY <1>4, <2>3 DEF ListValue, Value
  <2>4. CASE \E h \in Seq(Chars), w \in Seq(ValuesUpTo[k]) : v = Expression(h, w)
    BY <1>4, <2>4 DEF Expression, Value
  <2>5. QED
    BY <1>3, <2>1, <2>2, <2>3, <2>4, BuiltOnly
<1>7. QED
  BY <1>5, <1>6

\* The tokens of the items of a list, from the first one on or after it.
ItemsRead(w, first, ps) ==
  IF first THEN Inner(Items(w, Shown(ps))) ELSE Items(w, Shown(ps))

\* A call of the parser has read a value of depth n, and the tokens of it.
TermRead(l, r, n, ps) ==
  ~r.lex.err => r.val \in ValuesUpTo[n] /\ Reads(l, Shown(ps)[r.val], r.lex, ps)
ListRead(l, close, first, r, n, ps) ==
  ~r.lex.err => /\ r.val \in ValuesUpTo[n] /\ r.val.type = "list"
                /\ Reads(l, ItemsRead(r.val.items, first, ps) \o <<Plain(close)>>, r.lex, ps)
RunReads(run, n, ps) ==
  /\ \A l \in LexerObjects : TermRead(l, run[Term(l)], n, ps)
  /\ \A l \in LexerObjects, close \in Closings, first \in BOOLEAN :
       ListRead(l, close, first, run[List(l, close, first)], n, ps)

LEMMA ShownKinds ==
  ASSUME NEW ps, ps.list \in Openings, ps.expr \in Openings
  PROVE  /\ \A n \in Int : Shown(ps)[NumValue(n)] = <<Token("NUM", n, <<>>, 0)>>
         /\ \A s \in Seq(Chars) : Shown(ps)[StringValue(s)] = Ident(s, 0)
         /\ \A w \in Seq(AllValues) :
              Shown(ps)[ListValue(w)] = Enclosed(ps.list, Items(w, Shown(ps)))
         /\ \A s \in Seq(Chars) : \A w \in Seq(AllValues) :
              Shown(ps)[Expression(s, w)] = Ident(s, 0) \o Enclosed(ps.expr, Items(w, Shown(ps)))
<1> DEFINE H == Shown(ps)
<1>1. \A v \in AllValues : H[v] = ValueTokens(v, ps, H)
  BY ShownRight
<1> HIDE DEF H
<1>2. \A n \in Int : H[NumValue(n)] = <<Token("NUM", n, <<>>, 0)>>
  <2>1. \A n \in Int : H[NumValue(n)] = ValueTokens(NumValue(n), ps, H)
    BY <1>1, ValuesBuilt
  <2>2. QED
    BY <2>1, ValueTokensAre
<1>3. \A s \in Seq(Chars) : H[StringValue(s)] = Ident(s, 0)
  <2>1. \A s \in Seq(Chars) : H[StringValue(s)] = ValueTokens(StringValue(s), ps, H)
    BY <1>1, ValuesBuilt
  <2>2. QED
    BY <2>1, ValueTokensAre
<1>4. \A w \in Seq(AllValues) : H[ListValue(w)] = Enclosed(ps.list, Items(w, H))
  <2>1. \A w \in Seq(AllValues) : H[ListValue(w)] = ValueTokens(ListValue(w), ps, H)
    BY <1>1, ValuesBuilt
  <2>2. QED
    BY <2>1, ValueTokensAre
<1>5. \A s \in Seq(Chars) : \A w \in Seq(AllValues) :
        H[Expression(s, w)] = Ident(s, 0) \o Enclosed(ps.expr, Items(w, H))
  <2>1. \A s \in Seq(Chars) : \A w \in Seq(AllValues) :
          H[Expression(s, w)] = ValueTokens(Expression(s, w), ps, H)
    BY <1>1, ValuesBuilt
  <2>2. QED
    BY <2>1, ValueTokensAre
<1>6. QED
  BY <1>2, <1>3, <1>4, <1>5 DEF H

ListValues == {v \in AllValues : v = ListValue(v.items)}

\* A delimiter and the list after it.
LEMMA EnclosedRead ==
  ASSUME NEW ps, ps.list \in Openings, ps.expr \in Openings, NEW n \in Nat,
         NEW l \in LexerObjects, NEW g, g = GetToken(l), ~g.err, NEW t \in Openings, g.tok = t,
         NEW run \in Runs, RunReads(run, n, ps),
         NEW r, r = run[List(g, ClosingToken(t), TRUE)], ~r.lex.err
  PROVE  /\ r.lex \in LexerObjects /\ r.val \in ValuesUpTo[n]
         /\ r.val \in ListValues /\ r.val.items \in Seq(ValuesUpTo[n])
         /\ r.val.items \in Seq(AllValues)
         /\ Enclosed(t, Items(r.val.items, Shown(ps))) \in TokenSeqs
         /\ Reads(l, Enclosed(t, Items(r.val.items, Shown(ps))), r.lex, ps)
<1> DEFINE close == ClosingToken(t)
           H == Shown(ps)
           w == r.val.items
           i == Items(w, H)
<1>1. close \in Closings /\ close \in Tokens /\ TRUE \in BOOLEAN
  BY ClosingExactly
<1>2. g \in LexerObjects
  BY TokensGoOn
<1>3. ListRead(g, close, TRUE, r, n, ps)
  BY <1>1, <1>2 DEF RunReads
<1>4. r.lex \in LexerObjects
  <2>1. Parsed(g, r)
    BY <1>1, <1>2, CallsRight
  <2>2. QED
    BY <2>1 DEF Parsed, Results
<1> HIDE DEF close
<1>5. /\ r.val \in ValuesUpTo[n] /\ r.val.type = "list"
      /\ Reads(g, Inner(i) \o <<Plain(close)>>, r.lex, ps)
  BY <1>3 DEF ListRead, ItemsRead
<1>6. r.val = ListValue(w) /\ w \in Seq(ValuesUpTo[n])
  BY <1>5, ListParts
<1>7. w \in Seq(AllValues)
  <2>1. ValuesUpTo[n] \subseteq AllValues
    BY DEF AllValues
  <2>2. QED
    BY <1>6, <2>1, SeqMonotonic
<1>8. i \in TokenSeqs
  BY <1>7, ItemsRight, ShownRight
<1> HIDE DEF i, w
<1>9. /\ Enclosed(t, i) \in TokenSeqs
      /\ Enclosed(t, i) = <<Plain(t)>> \o (Inner(i) \o <<Plain(close)>>)
  BY <1>8, EnclosedRight DEF close
<1>10. Plain(t) \in TokenRecords /\ Plain(close) \in TokenRecords
  BY <1>1, ClosingExactly, PlainRight
<1>11. /\ <<Plain(t)>> \in TokenSeqs /\ Inner(i) \o <<Plain(close)>> \in TokenSeqs
  BY <1>8, <1>10, InnerRight, TokenSeqsRight
<1>12. Reads(l, <<Plain(t)>>, g, ps)
  <2>1. t \notin {"NUM", "STRING", "IDENT", "END"}
    BY DEF Openings
  <2>2. ~Ends(g)
    BY <2>1 DEF Ends
  <2>3. Same(Plain(t), TokenOf(g))
    BY <1>2, <2>1, PlainToken
  <2>4. QED
    BY <1>10, <2>2, <2>3, ReadsToken
<1>13. Reads(l, Enclosed(t, i), r.lex, ps)
  <2> DEFINE a == <<Plain(t)>>
             b == Inner(i) \o <<Plain(close)>>
             m == r.lex
  <2>1. Reads(l, a, g, ps) /\ Reads(g, b, m, ps) /\ a \in TokenSeqs /\ b \in TokenSeqs
    BY <1>5, <1>11, <1>12
  <2>2. m \in LexerObjects /\ Enclosed(t, i) = a \o b
    BY <1>4, <1>9
  <2> HIDE DEF a, b, m
  <2>3. Reads(l, a \o b, m, ps)
    BY <1>2, <2>1, <2>2, ReadsReads
  <2>4. QED
    BY <2>2, <2>3 DEF m
<1>14. r.val \in ListValues
  BY <1>5, <1>6, ListParts DEF ListValues, w
<1>15. QED
  BY <1>4, <1>5, <1>6, <1>7, <1>9, <1>13, <1>14 DEF i, w

LEMMA TokenRead ==
  ASSUME NEW ps, NEW l \in LexerObjects, NEW g, g = GetToken(l), ~g.err
  PROVE  /\ g.tok = "NUM" => Reads(l, <<Token("NUM", g.num, <<>>, 0)>>, g, ps)
         /\ g.tok \in {"STRING", "IDENT"} =>
              \A n \in {0, g.line} : /\ Ident(g.str, n) \in TokenSeqs
                                     /\ Reads(l, Ident(g.str, n), g, ps)
<1>1. g \in LexerObjects
  BY TokensGoOn
<1>2. g.num \in Int /\ g.str \in Seq(Chars) /\ g.line \in Nat
  BY <1>1, LexerTypes
<1>3. ASSUME g.tok = "NUM" PROVE Reads(l, <<Token("NUM", g.num, <<>>, 0)>>, g, ps)
  <2> DEFINE x == Token("NUM", g.num, <<>>, 0)
  <2>1. x \in TokenRecords
    BY <1>2, TokensKnown DEF Token, TokenRecords
  <2>2. Same(x, TokenOf(g))
    BY <1>3 DEF Token, TokenOf, Same
  <2>3. ~Ends(g)
    BY <1>3 DEF Ends
  <2> HIDE DEF x
  <2>4. Reads(l, <<x>>, g, ps)
    BY <2>1, <2>2, <2>3, ReadsToken
  <2>5. QED
    BY <2>4 DEF x
<1>4. ASSUME g.tok \in {"STRING", "IDENT"}, NEW n \in {0, g.line}
      PROVE Ident(g.str, n) \in TokenSeqs /\ Reads(l, Ident(g.str, n), g, ps)
  <2> DEFINE x == Token("IDENT", 0, g.str, n)
  <2>1. x \in TokenRecords
    BY <1>2, TokensKnown DEF Token, TokenRecords
  <2>2. Same(x, TokenOf(g))
    BY <1>4 DEF Token, TokenOf, Same
  <2>3. ~Ends(g)
    BY <1>4 DEF Ends
  <2> HIDE DEF x
  <2>4. Reads(l, <<x>>, g, ps) /\ <<x>> \in TokenSeqs
    BY <2>1, <2>2, <2>3, ReadsToken, TokenSeqsRight
  <2>5. QED
    BY <2>4 DEF x, Ident
<1>5. QED
  BY <1>3, <1>4

LEMMA TermReads ==
  ASSUME NEW ps, ps.list \in Openings, ps.expr \in Openings, NEW n \in Nat,
         NEW run \in Runs, RunReads(run, n, ps), NEW l \in LexerObjects,
         NEW r, r = TermAt(GetToken(l), ps, run)
  PROVE  TermRead(l, r, n + 1, ps)
<1> SUFFICES ASSUME ~r.lex.err
             PROVE  r.val \in ValuesUpTo[n + 1] /\ Reads(l, Shown(ps)[r.val], r.lex, ps)
  BY DEF TermRead
<1>0. ps.list \notin {"NUM", "STRING", "IDENT"}
  BY DEF Openings
<1> DEFINE g == GetToken(l)
           V == ValuesUpTo[n]
<1>1. ~g.err
  BY DEF TermAt, Failed, Result
<1>2. g \in LexerObjects /\ r = TermOf(g, ps, run)
  BY <1>1, TokensGoOn DEF TermAt
<1>3. /\ g.num \in Int /\ g.str \in Seq(Chars) /\ 0 \in {0, g.line}
      /\ ValuesUpTo[n + 1] = Built(V) /\ V \subseteq ValuesUpTo[n + 1]
  BY <1>2, LexerTypes, DepthsExist, DepthsGrow
<1>4. /\ g.tok = "NUM" => Reads(l, <<Token("NUM", g.num, <<>>, 0)>>, g, ps)
      /\ g.tok \in {"STRING", "IDENT"} =>
           Ident(g.str, 0) \in TokenSeqs /\ Reads(l, Ident(g.str, 0), g, ps)
  BY <1>1, <1>3, TokenRead
<1>5. g = GetToken(l)
  OBVIOUS
<1> HIDE DEF g, V
<1>6. CASE g.tok = "NUM"
  <2>1. r = Result(g, NumValue(g.num))
    BY <1>0, <1>2, <1>6 DEF TermOf
  <2>2. r.val = NumValue(g.num) /\ r.lex = g
    BY <2>1 DEF Result
  <2>3. r.val \in ValuesUpTo[n + 1]
    BY <1>3, <2>2, BuiltOf
  <2>4. Shown(ps)[r.val] = <<Token("NUM", g.num, <<>>, 0)>>
    BY <1>3, <2>2, ShownKinds
  <2>5. QED
    BY <1>4, <1>6, <2>2, <2>3, <2>4
<1>7. CASE g.tok = "STRING"
  <2>1. r = Result(g, StringValue(g.str))
    BY <1>0, <1>2, <1>7 DEF TermOf
  <2>2. r.val = StringValue(g.str) /\ r.lex = g
    BY <2>1 DEF Result
  <2>3. r.val \in ValuesUpTo[n + 1]
    BY <1>3, <2>2, BuiltOf
  <2>4. Shown(ps)[r.val] = Ident(g.str, 0)
    BY <1>3, <2>2, ShownKinds
  <2>5. QED
    BY <1>4, <1>7, <2>2, <2>3, <2>4
<1>8. CASE g.tok = "IDENT"
  <2> DEFINE h == GetToken(g)
  <2>1. r = AfterIdent(h, g.str, ps, run)
    BY <1>0, <1>2, <1>8 DEF TermOf
  <2>2. ~h.err
    <3> HIDE DEF h
    <3> SUFFICES ASSUME h.err PROVE FALSE
      OBVIOUS
    <3>1. r = Failed(h)
      BY <2>1 DEF AfterIdent
    <3>2. r.lex = h
      BY <3>1 DEF Failed, Result
    <3>3. QED
      BY <3>2
  <2>3. h \in LexerObjects /\ h = GetToken(g)
    BY <1>2, TokensGoOn
  <2>4. CASE h.tok # ps.expr
    <3>1. r = Result(Putback(h), StringValue(g.str))
      BY <2>1, <2>2, <2>4 DEF AfterIdent, BareIdent
    <3>2. r.val = StringValue(g.str) /\ r.lex = Putback(h)
      BY <3>1 DEF Result
    <3>3. r.val \in ValuesUpTo[n + 1]
      BY <1>3, <3>2, BuiltOf
    <3>4. Shown(ps)[r.val] = Ident(g.str, 0)
      BY <1>3, <3>2, ShownKinds
    <3>5. Putback(h) \in LexerObjects /\ Reads(g, <<>>, Putback(h), ps)
      BY <1>2, PutbackRest, ReadsNothing
    <3> DEFINE a == Ident(g.str, 0)
               m == Putback(h)
    <3> HIDE DEF a, m
    <3>6. a \in TokenSeqs /\ a \o <<>> = a /\ <<>> \in TokenSeqs /\ Reads(l, a, g, ps)
      BY <1>4, <1>8, TokenSeqsRight DEF a
    <3>7. Reads(l, a \o <<>>, m, ps)
      BY <1>2, <3>5, <3>6, ReadsReads DEF m
    <3>8. QED
      BY <3>2, <3>3, <3>4, <3>6, <3>7 DEF a, m
  <2>5. CASE h.tok = ps.expr
    <3> DEFINE close == ClosingToken(ps.expr)
               q == run[List(h, close, TRUE)]
               w == q.val.items
               b == Enclosed(ps.expr, Items(w, Shown(ps)))
               a == Ident(g.str, 0)
    <3>1. r = ExpressionOf(g.str, q)
      BY <2>1, <2>2, <2>5 DEF AfterIdent
    <3>2. ~q.lex.err
      BY <3>1 DEF ExpressionOf
    <3>3. r.lex = q.lex /\ r.val = Expression(g.str, w)
      BY <3>1, <3>2 DEF ExpressionOf, Result
    <3> HIDE DEF h
    <3>4. /\ q.lex \in LexerObjects /\ w \in Seq(V) /\ w \in Seq(AllValues)
          /\ b \in TokenSeqs /\ Reads(g, b, q.lex, ps)
      BY <1>2, <2>2, <2>3, <2>5, <3>2, EnclosedRead DEF V
    <3>5. r.val \in ValuesUpTo[n + 1]
      BY <1>3, <3>3, <3>4, BuiltOf
    <3>6. Shown(ps)[r.val] = a \o b
      BY <1>3, <3>3, <3>4, ShownKinds
    <3>7. a \in TokenSeqs /\ Reads(l, a, g, ps)
      BY <1>4, <1>8
    <3> DEFINE m == q.lex
    <3>8. Reads(g, b, m, ps) /\ m \in LexerObjects
      BY <3>4
    <3> HIDE DEF a, b, m
    <3>9. Reads(l, a \o b, m, ps)
      BY <1>2, <3>4, <3>7, <3>8, ReadsReads
    <3>10. QED
      BY <3>3, <3>5, <3>6, <3>9 DEF m
  <2>6. QED
    BY <2>4, <2>5
<1>9. CASE g.tok = ps.list /\ g.tok \notin {"NUM", "STRING", "IDENT"}
  <2> DEFINE close == ClosingToken(ps.list)
             q == run[List(g, close, TRUE)]
             w == q.val.items
  <2>1. r = q
    BY <1>2, <1>9 DEF TermOf
  <2>2. ~q.lex.err
    BY <2>1
  <2>3. /\ q.val \in V /\ q.val = ListValue(w) /\ w \in Seq(AllValues)
        /\ Reads(l, Enclosed(ps.list, Items(w, Shown(ps))), q.lex, ps)
    <3> DEFINE b == Enclosed(ps.list, Items(w, Shown(ps)))
    <3>1. /\ q.lex \in LexerObjects /\ w \in Seq(AllValues)
          /\ b \in TokenSeqs /\ Reads(l, b, q.lex, ps)
      BY <1>1, <1>5, <1>9, <2>2, EnclosedRead
    <3>2. q.val \in V
      BY <1>1, <1>5, <1>9, <2>2, EnclosedRead DEF V
    <3>3. q.val \in ListValues
      BY <1>1, <1>5, <1>9, <2>2, EnclosedRead
    <3>4. q.val = ListValue(w)
      BY <3>3 DEF ListValues
    <3>5. QED
      BY <3>1, <3>2, <3>4
  <2> HIDE DEF q
  <2>4. Shown(ps)[q.val] = Enclosed(ps.list, Items(w, Shown(ps)))
    <3> HIDE DEF w
    <3>1. QED
      BY <2>3, ShownKinds
  <2>5. QED
    BY <1>3, <2>1, <2>3, <2>4
<1>10. CASE g.tok # ps.list /\ g.tok \notin {"NUM", "STRING", "IDENT"}
  <2>1. r = Failed(Throw(g))
    BY <1>2, <1>10 DEF TermOf
  <2>2. r.lex.err
    BY <1>2, <2>1, ThrowRight DEF Failed, Result
  <2>3. QED
    BY <2>2
<1>11. QED
  BY <1>6, <1>7, <1>8, <1>9, <1>10

LEMMA ListReads ==
  ASSUME NEW ps, ps.list \in Openings, ps.expr \in Openings, NEW n \in Nat,
         NEW run \in Runs, RunReads(run, n, ps), NEW l \in LexerObjects,
         NEW close \in Closings, NEW first \in BOOLEAN,
         NEW r, r = ListAt(GetToken(l), List(l, close, first), ps, run)
  PROVE  ListRead(l, close, first, r, n + 1, ps)
<1> SUFFICES ASSUME ~r.lex.err
             PROVE  /\ r.val \in ValuesUpTo[n + 1] /\ r.val.type = "list"
                    /\ Reads(l, ItemsRead(r.val.items, first, ps) \o <<Plain(close)>>, r.lex, ps)
  BY DEF ListRead
<1> DEFINE g == GetToken(l)
           c == List(l, close, first)
           V == ValuesUpTo[n]
           z == <<Plain(close)>>
           H == Shown(ps)
<1>1. c.close = close /\ c.first = first
  BY DEF List
<1> HIDE DEF c
<1>2. ~g.err
  BY DEF ListAt, Failed, Result
<1>3. g \in LexerObjects /\ g = GetToken(l)
  BY TokensGoOn
<1>4. ValuesUpTo[n + 1] = Built(V) /\ V \subseteq ValuesUpTo[n + 1] /\ V \subseteq AllValues
  BY DepthsExist, DepthsGrow DEF AllValues
<1>5. close \in Tokens /\ Plain(close) \in TokenRecords /\ z \in TokenSeqs
  <2>1. close \in Tokens
    BY TokensKnown DEF Closings
  <2>2. QED
    BY <2>1, PlainRight, TokenSeqsRight
<1>6. H \in [AllValues -> TokenSeqs]
  BY ShownRight
<1> HIDE DEF g, V, H
<1>7. CASE g.tok = close
  <2>1. r = Result(g, ListValue(<<>>))
    BY <1>1, <1>2, <1>7 DEF ListAt, g, c
  <2>2. r.lex = g /\ r.val = ListValue(<<>>) /\ r.val.items = <<>> /\ r.val.type = "list"
    BY <2>1 DEF Result, ListValue, Value
  <2>3. <<>> \in Seq(V)
    OBVIOUS
  <2>4. r.val \in ValuesUpTo[n + 1]
    BY <1>4, <2>2, <2>3, BuiltOf
  <2>5. ItemsRead(r.val.items, first, ps) = <<>>
    BY <1>6, <2>2, ItemsRight, InnerRight DEF ItemsRead, H
  <2>6. <<>> \o z = z
    BY <1>5, TokenSeqsRight
  <2>7. Reads(l, z, g, ps)
    <3>1. close \notin {"NUM", "STRING", "IDENT", "END"}
      BY DEF Closings
    <3>2. ~Ends(g)
      BY <1>2, <1>7, <3>1 DEF Ends
    <3>3. Same(Plain(close), TokenOf(g))
      BY <1>3, <1>7, <3>1, PlainToken
    <3>4. QED
      BY <1>3, <1>5, <3>2, <3>3, ReadsToken
  <2> HIDE DEF z
  <2>8. QED
    BY <2>2, <2>4, <2>5, <2>6, <2>7 DEF z
<1>8. CASE g.tok # close
  <2> DEFINE e == ElementStart(g, ps, first)
             p == run[Term(e)]
             q == run[List(p.lex, close, FALSE)]
             k == IF first THEN <<>> ELSE <<Plain("COMMA")>>
             w == q.val.items
             x == p.val
             m == p.lex
             j == q.lex
  <2>1. r = ListElement(e, close, run)
    BY <1>1, <1>2, <1>8 DEF ListAt, g, c
  <2>2. ~e.err /\ r = ListGrown(p, close, run)
    BY <2>1 DEF ListElement, Failed, Result
  <2>3. ~p.lex.err /\ r = WithFirst(x, q)
    BY <2>2 DEF ListGrown
  <2>4. ~q.lex.err /\ r = Result(q.lex, ListValue(<<x>> \o w))
    BY <2>3 DEF WithFirst
  <2>5. r.lex = j /\ r.val = ListValue(<<x>> \o w)
    BY <2>4 DEF Result
  <2>6. e \in LexerObjects /\ Reads(l, k, e, ps)
    BY <1>2, <1>3, <2>2, StartRead
  <2>7. e = ElementStart(g, ps, first)
    OBVIOUS
  <2> HIDE DEF e
  <2>8. x \in V /\ Reads(e, H[x], m, ps)
    <3>1. TermRead(e, p, n, ps)
      BY <2>6 DEF RunReads
    <3>2. QED
      BY <2>3, <3>1 DEF TermRead, V, H
  <2>9. m \in LexerObjects
    BY <2>6, CallsRight DEF Parsed, Results
  <2>10. p.lex = m /\ p.val = x
    OBVIOUS
  <2> HIDE DEF p, m, x
  <2>11. /\ q.val \in V /\ Reads(m, ItemsRead(w, FALSE, ps) \o z, j, ps)
    <3>1. ListRead(m, close, FALSE, q, n, ps)
      BY <2>9, <2>10 DEF RunReads
    <3>2. QED
      BY <2>4, <3>1 DEF ListRead, V
  <2>12. j \in LexerObjects
    <3>1. Parsed(m, q)
      BY <1>5, <2>9, <2>10, CallsRight
    <3>2. QED
      BY <3>1 DEF Parsed, Results
  <2>13. w \in Seq(V)
    BY <2>11, ListParts DEF V
  <2> HIDE DEF q, w, j, z, k
  <2>14. /\ <<x>> \o w \in Seq(V) /\ x \in AllValues /\ w \in Seq(AllValues)
    <3>1. <<x>> \in Seq(V)
      BY <2>8
    <3>2. <<x>> \o w \in Seq(V)
      BY <2>13, <3>1, ConcatProperties
    <3>3. w \in Seq(AllValues)
      BY <1>4, <2>13, SeqMonotonic
    <3>4. QED
      BY <1>4, <2>8, <3>2, <3>3
  <2>15. r.val \in ValuesUpTo[n + 1]
    BY <1>4, <2>5, <2>14, BuiltOf
  <2>16. r.val.type = "list" /\ r.val.items = <<x>> \o w
    BY <2>5 DEF ListValue, Value
  <2> DEFINE comma == Plain("COMMA")
             i == Items(w, H)
             y == H[x]
  <2>17. Items(<<x>> \o w, H) = (<<comma>> \o y) \o i /\ i \in TokenSeqs /\ y \in TokenSeqs
    BY <1>6, <2>14, ItemsRight
  <2>18. comma \in TokenRecords
    BY PlainRight, TokensKnown
  <2>19. Reads(e, y, m, ps) /\ Reads(m, i \o z, j, ps)
    BY <2>8, <2>11 DEF ItemsRead, H
  <2>20. first => k = <<>>
    BY DEF k
  <2>21. ~first => k = <<comma>>
    BY DEF k
  <2>22. ItemsRead(<<x>> \o w, first, ps)
           = IF first THEN Inner((<<comma>> \o y) \o i) ELSE (<<comma>> \o y) \o i
    BY <2>17 DEF ItemsRead, H
  <2> HIDE DEF comma, i, y
  <2>23. /\ <<>> \in TokenSeqs /\ <<comma>> \in TokenSeqs /\ i \o z \in TokenSeqs
         /\ y \o i \in TokenSeqs /\ y \o (i \o z) \in TokenSeqs
    BY <1>5, <2>17, <2>18, TokenSeqsRight
  <2>24. k \in TokenSeqs
    BY <2>20, <2>21, <2>23
  <2>25. ItemsRead(<<x>> \o w, first, ps) \o z = k \o (y \o (i \o z))
    <3>1. (<<comma>> \o y) \o i = <<comma>> \o (y \o i)
      BY <2>17, <2>23, TokenSeqsRight
    <3>2. (y \o i) \o z = y \o (i \o z)
      BY <1>5, <2>17, TokenSeqsRight
    <3>3. CASE first
      <4>1. ItemsRead(<<x>> \o w, first, ps) = y \o i
        BY <2>18, <2>22, <2>23, <3>1, <3>3, InnerRight
      <4>2. <<>> \o (y \o (i \o z)) = y \o (i \o z)
        BY <2>23, TokenSeqsRight
      <4>3. QED
        BY <2>20, <3>2, <3>3, <4>1, <4>2
    <3>4. CASE ~first
      <4>1. ItemsRead(<<x>> \o w, first, ps) = <<comma>> \o (y \o i)
        BY <2>22, <3>1, <3>4
      <4>2. (<<comma>> \o (y \o i)) \o z = <<comma>> \o ((y \o i) \o z)
        BY <1>5, <2>23, TokenSeqsRight
      <4>3. QED
        BY <2>21, <3>2, <3>4, <4>1, <4>2
    <3>5. QED
      BY <3>3, <3>4
  <2>26. Reads(e, y \o (i \o z), j, ps)
    BY <2>6, <2>9, <2>12, <2>17, <2>19, <2>23, ReadsReads
  <2>27. Reads(l, k \o (y \o (i \o z)), j, ps)
    BY <2>6, <2>12, <2>23, <2>24, <2>26, ReadsReads
  <2>28. QED
    BY <2>5, <2>15, <2>16, <2>25, <2>27 DEF z
<1>9. QED
  BY <1>7, <1>8

\* The calls of the parser, nested to any depth.
LEMMA CallsRead ==
  ASSUME NEW ps, ps.list \in Openings, ps.expr \in Openings
  PROVE  \A n \in Nat : RunReads(Run(ps)[n], n, ps)
<1> DEFINE R == Run(ps)
           S == {n \in Nat : RunReads(R[n], n, ps)}
<1>1. /\ \A n \in Nat : R[n] \in Runs
      /\ R[0] = [c \in Calls |-> Failed(Throw(c.lex))]
      /\ \A n \in Nat : R[n + 1] = [c \in Calls |-> Called(c, ps, R[n])]
  BY RunRight
<1>2. \A l \in LexerObjects :
        /\ Term(l) \in Calls
        /\ \A close \in Closings, first \in BOOLEAN : List(l, close, first) \in Calls
  BY TokensKnown DEF Term, List, Calls, Closings
<1> HIDE DEF R
<1>3. 0 \in S
  <2>1. \A c \in Calls : R[0][c].lex = Throw(c.lex)
    BY <1>1 DEF Failed, Result
  <2>2. \A l \in LexerObjects : R[0][Term(l)].lex.err
    BY <1>2, <2>1, ThrowRight DEF Term
  <2>3. \A l \in LexerObjects, close \in Closings, first \in BOOLEAN :
          R[0][List(l, close, first)].lex.err
    BY <1>2, <2>1, ThrowRight DEF List
  <2>4. RunReads(R[0], 0, ps)
    BY <2>2, <2>3 DEF RunReads, TermRead, ListRead
  <2>5. QED
    BY <2>4
<1>4. ASSUME NEW n \in Nat, n \in S PROVE n + 1 \in S
  <2> DEFINE run == R[n]
  <2>1. run \in Runs /\ RunReads(run, n, ps)
    BY <1>1, <1>4
  <2>2. \A c \in Calls : R[n + 1][c] = Called(c, ps, run)
    BY <1>1
  <2> HIDE DEF run
  <2>3. ASSUME NEW l \in LexerObjects PROVE TermRead(l, R[n + 1][Term(l)], n + 1, ps)
    <3>1. R[n + 1][Term(l)] = TermAt(GetToken(l), ps, run)
      BY <1>2, <2>2 DEF Called, Term
    <3>2. QED
      BY <2>1, <3>1, TermReads
  <2>4. ASSUME NEW l \in LexerObjects, NEW close \in Closings, NEW first \in BOOLEAN
        PROVE  ListRead(l, close, first, R[n + 1][List(l, close, first)], n + 1, ps)
    <3> DEFINE c == List(l, close, first)
    <3>0. c.close = close /\ c.lex = l /\ close # "" /\ c \in Calls
      BY <1>2 DEF List, Closings
    <3> HIDE DEF c
    <3>1. R[n + 1][c] = ListAt(GetToken(l), c, ps, run)
      BY <2>2, <3>0 DEF Called
    <3>2. QED
      BY <2>1, <3>1, ListReads DEF c
  <2>5. RunReads(R[n + 1], n + 1, ps)
    BY <2>3, <2>4 DEF RunReads
  <2>6. QED
    BY <2>5
<1> HIDE DEF S
<1>5. Nat \subseteq S
  BY <1>3, <1>4, SetInduction
<1>6. QED
  BY <1>5 DEF S, R

\* The bound on the depth of the values in a text.
Deepest(t) == 2 * Len(t) + 2

LEMMA ParseTermReads ==
  ASSUME NEW l \in LexerObjects, NEW ps, ps.list \in Openings, ps.expr \in Openings
  PROVE  TermRead(l, ParseTerm(l, ps), Deepest(l.text), ps)
<1> DEFINE n == 2 * Len(l.text) + 2
<1>1. n \in Nat
  BY LexerTypes
<1> HIDE DEF n
<1>2. RunReads(Run(ps)[n], n, ps)
  BY <1>1, CallsRead
<1>3. TermRead(l, Run(ps)[n][Term(l)], n, ps)
  BY <1>2 DEF RunReads
<1>4. QED
  BY <1>3 DEF ParseTerm, Deepest, n

\* A pair is read with the tokens of its key, of the sign and of its value; or
\* a token was taken that is no key.
LEMMA ParsePairReads ==
  ASSUME NEW l \in LexerObjects, NEW ps, ps.list \in Openings, ps.expr \in Openings,
         NEW p, p = ParsePair(l, ps)
  PROVE  /\ p.more /\ ~p.lex.err =>
              LET s == (Ident(p.key, p.line) \o <<Plain("ASSIGN")>>) \o Shown(ps)[p.val]
              IN /\ p.val \in ValuesUpTo[Deepest(l.text)]
                 /\ s \in TokenSeqs /\ Reads(l, s, p.lex, ps)
         /\ ~p.more => p.lex = GetToken(l) /\ (p.lex.err \/ p.lex.tok # "IDENT")
<1> DEFINE g == GetToken(l)
           h == GetToken(g)
           a == Expect(g, "ASSIGN")
           r == PairValue(a, ps)
           i == Ident(g.str, g.line)
           v == Shown(ps)[r.val]
           y == <<Plain("ASSIGN")>>
<1>1. CASE g.err \/ g.tok # "IDENT"
  <2>1. p = Pair(g, FALSE, Failed(g))
    BY <1>1 DEF ParsePair, PairAt
  <2>2. p.more = FALSE /\ p.lex = g
    BY <2>1 DEF Pair, Failed, Result
  <2>3. QED
    BY <1>1, <2>2
<1>2. CASE ~g.err /\ g.tok = "IDENT"
  <2>1. p = Pair(g, TRUE, r)
    BY <1>2 DEF ParsePair, PairAt
  <2>2. p.more = TRUE /\ p.lex = r.lex /\ p.key = g.str /\ p.val = r.val /\ p.line = g.line
    BY <2>1 DEF Pair
  <2> HIDE DEF r
  <2>3. ASSUME ~r.lex.err
        PROVE  /\ r.val \in ValuesUpTo[Deepest(l.text)]
               /\ (i \o y) \o v \in TokenSeqs /\ Reads(l, (i \o y) \o v, r.lex, ps)
    <3>1. ~a.err /\ r = ParseTerm(a, ps)
      <4> HIDE DEF a
      <4>1. ~a.err
        BY <2>3 DEF PairValue, Failed, Result, r
      <4>2. QED
        BY <4>1 DEF PairValue, r
    <3>2. g \in LexerObjects /\ g.text = l.text /\ h \in LexerObjects /\ h.text = g.text
      BY TokensGoOn
    <3>3. g = GetToken(l) /\ h = GetToken(g)
      OBVIOUS
    <3> HIDE DEF g
    <3>4. h.tok = "ASSIGN" /\ ~h.err /\ a = h
      <4>1. a = ExpectCurrent(h, "ASSIGN") /\ Throw(h).err
        BY <3>2, ThrowRight DEF Expect
      <4> HIDE DEF a, h
      <4>2. QED
        BY <3>1, <4>1 DEF ExpectCurrent
    <3> HIDE DEF a, h
    <3>5. Reads(l, i, g, ps) /\ i \in TokenSeqs
      <4>1. g.line \in {0, g.line} /\ g.tok \in {"STRING", "IDENT"}
        BY <1>2
      <4>2. QED
        BY <1>2, <3>3, <4>1, TokenRead
    <3>6. Plain("ASSIGN") \in TokenRecords /\ y \in TokenSeqs
      BY PlainRight, TokensKnown, TokenSeqsRight
    <3>7. Reads(g, y, h, ps)
      <4>1. ~Ends(h) /\ Same(Plain("ASSIGN"), TokenOf(h))
        BY <3>2, <3>4, PlainToken DEF Ends
      <4> DEFINE x == Plain("ASSIGN")
      <4> HIDE DEF x
      <4>2. Reads(g, <<x>>, h, ps)
        BY <3>2, <3>3, <3>6, <4>1, ReadsToken DEF x
      <4>3. QED
        BY <4>2 DEF x
    <3>8. r.val \in ValuesUpTo[Deepest(l.text)] /\ Reads(h, v, r.lex, ps)
      <4>1. TermRead(h, r, Deepest(l.text), ps)
        BY <3>1, <3>2, <3>4, ParseTermReads
      <4>2. QED
        BY <2>3, <4>1 DEF TermRead
    <3>9. r.lex \in LexerObjects
      <4>1. Parsed(h, r)
        BY <3>1, <3>2, <3>4, ParseTermRight
      <4>2. QED
        BY <4>1 DEF Parsed, Results
    <3>10. v \in TokenSeqs
      <4>1. Deepest(l.text) \in Nat
        BY LexerTypes DEF Deepest
      <4>2. r.val \in AllValues
        BY <3>8, <4>1, ListParts
      <4>3. QED
        BY <4>2, ShownRight
    <3> DEFINE m == r.lex
    <3>11. m \in LexerObjects /\ Reads(h, v, m, ps)
      BY <3>8, <3>9
    <3> HIDE DEF i, v, y, m
    <3>12. i \o y \in TokenSeqs /\ (i \o y) \o v \in TokenSeqs
      BY <3>5, <3>6, <3>10, TokenSeqsRight
    <3>13. Reads(l, i \o y, h, ps)
      BY <3>2, <3>5, <3>6, <3>7, ReadsReads
    <3>14. Reads(l, (i \o y) \o v, m, ps)
      BY <3>2, <3>10, <3>11, <3>12, <3>13, ReadsReads
    <3>15. QED
      BY <3>8, <3>12, <3>14 DEF m
  <2>4. QED
    BY <2>2, <2>3
<1>3. QED
  BY <1>1, <1>2

-----------------------------------------------------------------------------
(* The history *)

\* What can be delivered: tokens, and pairs with values of depth d.
Entries(d) ==
  {x \in TokenRecords : x.tok \in Tokens}
  \cup [tok : {"PAIR"}, key : Seq(Chars), val : ValuesUpTo[d], line : Nat]
EntryTokens(x, ps) ==
  IF x.tok = "PAIR" THEN (Ident(x.key, x.line) \o <<Plain("ASSIGN")>>) \o Shown(ps)[x.val]
  ELSE <<x>>
EntryWrites(d, ps) == [x \in Entries(d) |-> EntryTokens(x, ps)]

LEMMA NoPairs == "PAIR" \notin Tokens
<1>1. DOMAIN TokenOrder = 1..18
  BY DEF TokenOrder
<1>2. \A k \in 1..18 : TokenOrder[k] # "PAIR"
  BY DEF TokenOrder
<1>3. QED
  BY <1>1, <1>2 DEF Tokens

LEMMA EntriesRight ==
  ASSUME NEW d \in Nat, NEW ps, ps.list \in Openings, ps.expr \in Openings
  PROVE  /\ EntryWrites(d, ps) \in [Entries(d) -> TokenSeqs]
         /\ \A x \in Entries(d) : EntryWrites(d, ps)[x] = EntryTokens(x, ps)
         /\ \A x \in TokenRecords : x.tok \in Tokens =>
              x \in Entries(d) /\ EntryTokens(x, ps) = <<x>>
<1>1. ASSUME NEW x \in TokenRecords, x.tok \in Tokens
      PROVE  x \in Entries(d) /\ EntryTokens(x, ps) = <<x>> /\ <<x>> \in TokenSeqs
  <2>1. x.tok # "PAIR"
    BY <1>1, NoPairs
  <2>2. x \in Entries(d)
    BY <1>1 DEF Entries
  <2>3. EntryTokens(x, ps) = <<x>>
    BY <2>1 DEF EntryTokens
  <2>4. QED
    BY <2>2, <2>3, TokenSeqsRight
<1>2. ASSUME NEW x \in [tok : {"PAIR"}, key : Seq(Chars), val : ValuesUpTo[d], line : Nat]
      PROVE  EntryTokens(x, ps) \in TokenSeqs
  <2>1. x.tok = "PAIR" /\ x.key \in Seq(Chars) /\ x.val \in ValuesUpTo[d] /\ x.line \in Nat
    BY <1>2
  <2> DEFINE i == Ident(x.key, x.line)
             y == <<Plain("ASSIGN")>>
             v == Shown(ps)[x.val]
  <2>2. i \in TokenSeqs
    <3>1. Token("IDENT", 0, x.key, x.line) \in TokenRecords
      BY <2>1, TokensKnown DEF Token, TokenRecords
    <3>2. QED
      BY <3>1, TokenSeqsRight DEF Ident
  <2>3. y \in TokenSeqs
    BY PlainRight, TokensKnown, TokenSeqsRight
  <2>4. v \in TokenSeqs
    BY <2>1, ListParts, ShownRight
  <2>5. EntryTokens(x, ps) = (i \o y) \o v
    BY <2>1 DEF EntryTokens
  <2> HIDE DEF i, y, v
  <2>6. QED
    BY <2>2, <2>3, <2>4, <2>5, TokenSeqsRight
<1>3. \A x \in Entries(d) : EntryTokens(x, ps) \in TokenSeqs
  BY <1>1, <1>2 DEF Entries
<1>4. QED
  BY <1>1, <1>3 DEF EntryWrites

\* A history ends with the end of the text.
HasEnd(s) == s # <<>> /\ Last(s).tok = "END"

\* The grammar of a lexer, the lexer at the start of its text, and the tokens
\* of a history on it.
Start(l) == NewLexer(l.text, l.style)
Style(l) == GrammarOf(l).parser
Wrote(s, l) == Each(s, EntryWrites(Deepest(l.text), Style(l)))

Histories(l) == Seq(Entries(Deepest(l.text)))
StyleKnownOf(l) == Style(l).list \in Openings /\ Style(l).expr \in Openings

Accounted(l, s) ==
  ~l.err => IF HasEnd(s) THEN Agree(Wrote(s, l), Rest(Start(l)), Style(l))
                         ELSE Reads(Start(l), Wrote(s, l), l, Style(l))

LEMMA SameText ==
  ASSUME NEW l, NEW m, OnText(l, m)
  PROVE  /\ Start(m) = Start(l) /\ Style(m) = Style(l) /\ Histories(m) = Histories(l)
         /\ Deepest(m.text) = Deepest(l.text)
         /\ \A s : Wrote(s, m) = Wrote(s, l)
  BY DEF OnText, Start, Style, Histories, Wrote, GrammarOf

LEMMA StartRight ==
  ASSUME NEW l \in LexerObjects
  PROVE  /\ Start(l) \in LexerObjects /\ Rest(Start(l)) \in TokenSeqs
         /\ Deepest(l.text) \in Nat
<1>1. Start(l) \in LexerObjects
  BY LexerTypes, NewLexerRight DEF Start
<1>2. Deepest(l.text) \in Nat
  BY LexerTypes DEF Deepest
<1>3. QED
  BY <1>1, <1>2, RestIsTokens

LEMMA WroteRight ==
  ASSUME NEW l \in LexerObjects, StyleKnownOf(l)
  PROVE  /\ Wrote(<<>>, l) = <<>>
         /\ \A s \in Histories(l) : Wrote(s, l) \in TokenSeqs
         /\ \A s \in Histories(l) : \A x \in Entries(Deepest(l.text)) :
              /\ EntryTokens(x, Style(l)) \in TokenSeqs
              /\ Append(s, x) \in Histories(l)
              /\ Wrote(Append(s, x), l) = Wrote(s, l) \o EntryTokens(x, Style(l))
<1> DEFINE d == Deepest(l.text)
           ps == Style(l)
           f == EntryWrites(d, ps)
           S == Entries(d)
<1>1. d \in Nat
  BY StartRight
<1>2. ps.list \in Openings /\ ps.expr \in Openings
  BY DEF StyleKnownOf
<1> HIDE DEF d, ps
<1>3. f \in [S -> TokenSeqs] /\ \A x \in S : f[x] = EntryTokens(x, ps)
  BY <1>1, <1>2, EntriesRight
<1>4. f \in [S -> Seq(TokenRecords)]
  BY <1>3 DEF TokenSeqs
<1> HIDE DEF f, S
<1>5. /\ Each(<<>>, f) = <<>> /\ \A x \in S : Each(<<x>>, f) = f[x]
      /\ \A s \in Seq(S) : Each(s, f) \in Seq(TokenRecords)
      /\ \A s \in Seq(S), t \in Seq(S) : Each(s \o t, f) = Each(s, f) \o Each(t, f)
  BY <1>4, EachRight
<1>6. ASSUME NEW s \in Seq(S), NEW x \in S
      PROVE  /\ EntryTokens(x, ps) \in TokenSeqs /\ Append(s, x) \in Seq(S)
             /\ Each(Append(s, x), f) = Each(s, f) \o EntryTokens(x, ps)
  <2>1. <<x>> \in Seq(S)
    OBVIOUS
  <2>2. Append(s, x) = s \o <<x>> /\ Append(s, x) \in Seq(S)
    BY AppendIsConcat, AppendProperties
  <2>3. Each(s \o <<x>>, f) = Each(s, f) \o Each(<<x>>, f)
    BY <1>5, <2>1
  <2>4. Each(<<x>>, f) = EntryTokens(x, ps) /\ EntryTokens(x, ps) \in TokenSeqs
    BY <1>3, <1>5
  <2>5. QED
    BY <2>2, <2>3, <2>4
<1>7. QED
  BY <1>5, <1>6 DEF Wrote, Histories, TokenSeqs, f, S, d, ps

LEMMA LastOfAppend ==
  ASSUME NEW S, NEW s \in Seq(S), NEW x \in S
  PROVE  /\ Last(Append(s, x)) = x
         /\ HasEnd(Append(s, x)) <=> x.tok = "END"
         /\ Append(s, x) # <<>> /\ Front(Append(s, x)) = s
<1> DEFINE t == Append(s, x)
<1>1. /\ t \in Seq(S) /\ t # <<>> /\ Len(t) = Len(s) + 1 /\ Len(s) \in Nat
      /\ t[Len(s) + 1] = x /\ \A i \in 1..Len(s) : t[i] = s[i]
  BY AppendProperties, LenProperties
<1> HIDE DEF t
<1>2. Last(t) = x
  BY <1>1 DEF Last
<1>3. Front(t) = s
  <2> DEFINE u == SubSeq(t, 1, Len(s))
  <2>1. \A i \in 1..Len(s) : t[i] \in S
    BY <1>1, ElementOfSeq
  <2>2. u \in Seq(S) /\ Len(u) = Len(s)
    <3>1. /\ u \in Seq(S) /\ Len(u) = IF 1 <= Len(s) THEN Len(s) - 1 + 1 ELSE 0
      BY <1>1, <2>1, SubSeqProperties
    <3>2. QED
      BY <1>1, <3>1
  <2>3. \A i \in 1..Len(s) - 1 + 1 : u[i] = t[1 + i - 1]
    BY <1>1, <2>1, SubSeqProperties
  <2> HIDE DEF u
  <2>4. ASSUME NEW i \in 1..Len(u) PROVE u[i] = s[i]
    <3>1. i \in 1..Len(s) /\ i \in 1..Len(s) - 1 + 1 /\ 1 + i - 1 = i
      BY <1>1, <2>2
    <3>2. QED
      BY <1>1, <2>3, <3>1
  <2>5. u = s
    BY <2>2, <2>4, SeqEqual
  <2>6. QED
    BY <1>1, <2>5 DEF Front, u
<1>4. QED
  BY <1>1, <1>2, <1>3 DEF HasEnd, t

\* A history goes on with an entry that was read, but for the end.
LEMMA EntryAdded ==
  ASSUME NEW l \in LexerObjects, StyleKnownOf(l), ~l.err, NEW m, OnText(l, m),
         NEW s \in Histories(l), ~HasEnd(s), Accounted(l, s),
         NEW x \in Entries(Deepest(l.text)), x.tok # "END",
         Reads(l, EntryTokens(x, Style(l)), m, Style(l))
  PROVE  Accounted(m, Append(s, x))
<1> DEFINE ps == Style(l)
           a == Start(l)
           w == Wrote(s, l)
           e == EntryTokens(x, ps)
           t == Append(s, x)
<1>1. /\ w \in TokenSeqs /\ e \in TokenSeqs /\ Wrote(t, l) = w \o e
  BY WroteRight
<1>2. a \in LexerObjects /\ m \in LexerObjects
  BY StartRight DEF OnText
<1>3. Reads(a, w, l, ps)
  BY DEF Accounted
<1>4. ~HasEnd(t)
  BY LastOfAppend DEF Histories
<1>5. Start(m) = a /\ Style(m) = ps /\ Wrote(t, m) = Wrote(t, l)
  BY SameText
<1>6. Reads(l, e, m, ps)
  OBVIOUS
<1> HIDE DEF ps, a, w, e, t
<1>7. Reads(a, w \o e, m, ps)
  BY <1>1, <1>2, <1>3, <1>6, ReadsReads
<1>8. Accounted(m, t)
  BY <1>1, <1>4, <1>5, <1>7 DEF Accounted
<1>9. QED
  BY <1>8 DEF t

\* It goes on with the next token.
LEMMA TokenAdded ==
  ASSUME NEW l \in LexerObjects, StyleKnownOf(l), ~l.err, NEW g, g = GetToken(l), ~g.err,
         NEW s \in Histories(l), ~HasEnd(s), Accounted(l, s)
  PROVE  /\ TokenOf(g) \in Entries(Deepest(l.text))
         /\ Append(s, TokenOf(g)) \in Histories(g) /\ Accounted(g, Append(s, TokenOf(g)))
<1> DEFINE d == Deepest(l.text)
           ps == Style(l)
           x == TokenOf(g)
           t == Append(s, x)
<1>1. g \in LexerObjects /\ OnText(l, g)
  BY TokensGoOn, GetTokenRight DEF Later
<1>2. d \in Nat /\ ps.list \in Openings /\ ps.expr \in Openings
  BY StartRight DEF StyleKnownOf
<1>3. x \in TokenRecords /\ x.tok \in Tokens
  BY <1>1, TokenOfRight
<1>4. x \in Entries(d) /\ EntryTokens(x, ps) = <<x>>
  <2> HIDE DEF x, d, ps
  <2>1. QED
    BY <1>2, <1>3, EntriesRight
<1>5. t \in Histories(g)
  <2>1. t \in Histories(l)
    BY <1>4, WroteRight
  <2>2. QED
    BY <1>1, <2>1, SameText
<1>6. x.tok = "END" <=> g.tok = "END"
  BY DEF TokenOf, Token
<1>7. CASE g.tok = "END"
  <2> DEFINE a == Start(l)
             w == Wrote(s, l)
  <2>1. Rest(l) = <<x>>
    BY <1>7, RestRight
  <2>2. Wrote(t, l) = w \o <<x>>
    BY <1>4, WroteRight
  <2>3. Agree(w \o <<x>>, Rest(a), ps)
    BY <2>1 DEF Accounted, Reads
  <2>4. Start(g) = a /\ Style(g) = ps /\ Wrote(t, g) = Wrote(t, l)
    BY <1>1, SameText
  <2>5. HasEnd(t)
    BY <1>4, <1>6, <1>7, LastOfAppend DEF Histories
  <2> HIDE DEF a, w, t, ps, x
  <2>6. Accounted(g, t)
    BY <2>2, <2>3, <2>4, <2>5 DEF Accounted
  <2>7. QED
    BY <1>4, <1>5, <2>6 DEF t, x, d
<1>8. CASE g.tok # "END"
  <2>1. Same(x, x)
    BY <1>3, SameRight
  <2>2. ~Ends(g)
    BY <1>8 DEF Ends
  <2> HIDE DEF x
  <2>3. Reads(l, <<x>>, g, ps)
    BY <1>3, <2>1, <2>2, ReadsToken DEF x
  <2>4. Accounted(g, t)
    BY <1>1, <1>4, <1>6, <1>8, <2>3, EntryAdded
  <2>5. QED
    BY <1>4, <1>5, <2>4 DEF x
<1>9. QED
  BY <1>7, <1>8

\* A lexer with the same tokens ahead has the same history.
LEMMA NothingAdded ==
  ASSUME NEW l, NEW m, ~l.err, OnText(l, m), NEW s, ~HasEnd(s), Accounted(l, s),
         m.err \/ Rest(m) = Rest(l)
  PROVE  Accounted(m, s)
  BY SameText DEF Accounted, Reads

\* The token taken last is put back.
LEMMA TokenRemoved ==
  ASSUME NEW l \in LexerObjects, StyleKnownOf(l), ~l.err, ~l.hold,
         NEW s \in Histories(l), Accounted(l, Append(s, TokenOf(l))), ~HasEnd(s)
  PROVE  Accounted(Putback(l), s)
<1> DEFINE ps == Style(l)
           d == Deepest(l.text)
           x == TokenOf(l)
           t == Append(s, x)
           m == Putback(l)
           a == Start(l)
           w == Wrote(s, l)
           c == Rest(l)
<1>1. x \in TokenRecords /\ x.tok \in Tokens /\ (x.tok = "END" <=> l.tok = "END")
  BY TokenOfRight DEF TokenOf, Token
<1>2. x \in Entries(d) /\ EntryTokens(x, ps) = <<x>>
  <2>1. d \in Nat /\ ps.list \in Openings /\ ps.expr \in Openings
    BY StartRight DEF StyleKnownOf
  <2> HIDE DEF x, d, ps
  <2>2. QED
    BY <1>1, <2>1, EntriesRight
<1>3. OnText(l, m) /\ m \in LexerObjects /\ m.err = l.err
  BY HoldRight DEF Later, OnText
<1>4. GetToken(m) = l
  <2>1. l.hold = FALSE
    BY LexerTypes
  <2>2. QED
    BY <2>1 DEF GetToken, Putback, LexerObjects, LexerFields
<1>5. Wrote(t, l) = w \o <<x>> /\ w \in TokenSeqs
  BY <1>2, WroteRight
<1>6. HasEnd(t) <=> l.tok = "END"
  BY <1>1, <1>2, LastOfAppend DEF Histories
<1>7. Start(m) = a /\ Style(m) = ps /\ Wrote(s, m) = w
  BY <1>3, SameText
<1>8. /\ l.tok = "END" => Rest(m) = <<x>>
      /\ l.tok # "END" => Rest(m) = <<x>> \o c
  BY <1>3, <1>4, RestRight DEF Ends
<1>9. /\ l.tok = "END" => Agree(w \o <<x>>, Rest(a), ps)
      /\ l.tok # "END" => Agree((w \o <<x>>) \o c, Rest(a), ps)
  BY <1>5, <1>6 DEF Accounted, Reads
<1>10. c \in TokenSeqs /\ <<x>> \in TokenSeqs
  BY <1>1, RestIsTokens, TokenSeqsRight
<1> HIDE DEF x, t, m, a, w, c, ps, d
<1>11. (w \o <<x>>) \o c = w \o (<<x>> \o c)
  BY <1>5, <1>10, TokenSeqsRight
<1>12. Agree(w \o Rest(m), Rest(a), ps)
  BY <1>8, <1>9, <1>11
<1>13. Accounted(m, s)
  BY <1>7, <1>12 DEF Accounted, Reads
<1>14. QED
  BY <1>13 DEF m

LEMMA FrontRight ==
  ASSUME NEW S, NEW s \in Seq(S), s # <<>>
  PROVE  /\ Front(s) \in Seq(S) /\ Last(s) \in S /\ s = Append(Front(s), Last(s))
         /\ Len(Front(s)) = Len(s) - 1 /\ Len(s) \in Nat \ {0}
         /\ \A k \in 1..Len(s) - 1 : Front(s)[k] = s[k]
<1>1. PICK t \in Seq(S), x \in S : s = Append(t, x)
  BY SequenceEmptyOrAppend
<1>2. Last(s) = x /\ Front(s) = t
  BY <1>1, LastOfAppend
<1>3. Len(s) = Len(t) + 1 /\ Len(t) \in Nat /\ \A i \in 1..Len(t) : s[i] = t[i]
  BY <1>1, AppendProperties, LenProperties
<1>4. QED
  BY <1>1, <1>2, <1>3

-----------------------------------------------------------------------------
(* The registry and the history *)

HistoryTyped == given \in Histories(lex)

\* Nothing follows the end.
EndIsLast == \A k \in 1..Len(given) - 1 : given[k].tok # "END"

\* The registry is done with a file at its end, and reads from nothing else
\* that has ended.
FileAtEnd == filename => HasEnd(given) /\ ~call.on
CallBeforeEnd == call.on => ~HasEnd(given) /\ ~lex.err

\* What the lexer gave last is what the client can put back.
LastIsTaken ==
  ~call.on /\ ~lex.hold /\ ~lex.err /\ given # <<>> /\ ~filename => Last(given) = TokenOf(lex)

TextInv == /\ HistoryTyped /\ EndIsLast /\ FileAtEnd /\ CallBeforeEnd /\ LastIsTaken
           /\ Accounted(lex, given)

LEMMA StyleOfLexer ==
  ASSUME RegistryInv
  PROVE  lex \in LexerObjects /\ StyleKnownOf(lex)
  BY GrammarKnown DEF RegistryInv, StyleKnownOf, Style

LEMMA TextStarts ==
  ASSUME Init
  PROVE  TextInv
<1>1. RegistryInv
  BY RegistryStarts
<1>2. PICK t \in Texts, g \in Grammars : lex = NewLexer(t, g.lexer)
  BY DEF Init
<1>3. given = <<>> /\ filename = FALSE /\ call.on = FALSE
  BY DEF Init, Idle
<1>4. lex \in LexerObjects /\ StyleKnownOf(lex)
  BY <1>1, StyleOfLexer
<1>5. Start(lex) = lex
  BY <1>2 DEF Start, NewLexer
<1>6. HistoryTyped
  <2>1. <<>> \in Histories(lex)
    BY DEF Histories
  <2>2. QED
    BY <1>3, <2>1 DEF HistoryTyped
<1>7. Len(given) = 0 /\ ~HasEnd(given)
  BY <1>3, EmptySeq DEF HasEnd
<1>8. EndIsLast
  BY <1>7 DEF EndIsLast
<1>9. Accounted(lex, given)
  <2>1. Wrote(given, lex) = <<>>
    BY <1>3, <1>4, WroteRight
  <2>2. Reads(lex, <<>>, lex, Style(lex))
    BY <1>4, ReadsNothing
  <2>3. QED
    BY <1>5, <1>7, <2>1, <2>2 DEF Accounted
<1>10. QED
  BY <1>3, <1>6, <1>8, <1>9 DEF TextInv, FileAtEnd, CallBeforeEnd, LastIsTaken

\* An entry is added to a history without an end.
LEMMA GivenGrows ==
  ASSUME RegistryInv, TextInv, OnText(lex, lex'), ~HasEnd(given),
         NEW x \in Entries(Deepest(lex.text)), given' = Append(given, x)
  PROVE  /\ HistoryTyped' /\ EndIsLast'
         /\ Last(given') = x /\ given' # <<>>
         /\ HasEnd(given') <=> x.tok = "END"
<1> DEFINE S == Entries(Deepest(lex.text))
<1>1. given \in Seq(S)
  BY DEF TextInv, HistoryTyped, Histories
<1>2. /\ Append(given, x) \in Seq(S) /\ Len(Append(given, x)) = Len(given) + 1
      /\ Len(given) \in Nat /\ \A i \in 1..Len(given) : Append(given, x)[i] = given[i]
  <2> HIDE DEF S
  <2>0. x \in S
    BY DEF S
  <2>1. QED
    BY <1>1, <2>0, AppendProperties, LenProperties
<1>3. Last(given') = x /\ given' # <<>> /\ (HasEnd(given') <=> x.tok = "END")
  BY <1>1, LastOfAppend
<1>4. HistoryTyped'
  <2>1. given' \in Histories(lex)
    BY <1>2 DEF Histories
  <2>2. QED
    BY <2>1, SameText DEF HistoryTyped
<1>5. EndIsLast'
  <2> SUFFICES ASSUME NEW k \in 1..Len(given') - 1 PROVE given'[k].tok # "END"
    BY DEF EndIsLast
  <2>1. k \in 1..Len(given) /\ given'[k] = given[k]
    BY <1>2
  <2>2. CASE k = Len(given)
    <3>1. given # <<>>
      BY <1>2, <2>1, EmptySeq
    <3>2. Last(given) = given[k]
      BY <2>2 DEF Last
    <3>3. QED
      BY <2>1, <3>1, <3>2 DEF HasEnd
  <2>3. CASE k # Len(given)
    <3>1. k \in 1..Len(given) - 1
      BY <1>2, <2>1, <2>3
    <3>2. QED
      BY <2>1, <3>1 DEF TextInv, EndIsLast
  <2>4. QED
    BY <2>2, <2>3
<1>6. QED
  BY <1>3, <1>4, <1>5

\* A step that leaves the history alone.
LEMMA GivenStays ==
  ASSUME RegistryInv, TextInv, OnText(lex, lex'), given' = given
  PROVE  HistoryTyped' /\ EndIsLast'
<1>1. HistoryTyped'
  BY SameText DEF TextInv, HistoryTyped
<1>2. EndIsLast'
  BY DEF TextInv, EndIsLast
<1>3. QED
  BY <1>1, <1>2

LEMMA TurnKnown ==
  ASSUME TextInv, ClientTurn
  PROVE  ~call.on /\ ~lex.err /\ ~HasEnd(given) /\ ~filename
  BY DEF ClientTurn, TextInv, FileAtEnd, HasEnd

\* The client takes the next token, or the lexer throws.
LEMMA TakenStep ==
  ASSUME RegistryInv, TextInv, ClientTurn, NEW l, OnText(lex, l),
         l.err \/ l = GetToken(lex), Taken(l)
  PROVE  TextInv'
<1>0. /\ lex' = l /\ call' = call /\ filename' = filename
      /\ given' = IF l.err THEN given ELSE Append(given, TokenOf(l))
  BY DEF Taken, Untouched
<1>1. ~call.on /\ ~lex.err /\ ~HasEnd(given) /\ ~filename
  BY TurnKnown
<1>2. lex \in LexerObjects /\ StyleKnownOf(lex)
  BY StyleOfLexer
<1>3. FileAtEnd' /\ CallBeforeEnd'
  BY <1>0, <1>1 DEF FileAtEnd, CallBeforeEnd
<1>4. CASE l.err
  <2>1. HistoryTyped' /\ EndIsLast'
    BY <1>0, <1>4, GivenStays
  <2>2. LastIsTaken' /\ Accounted(lex', given')
    BY <1>0, <1>4 DEF LastIsTaken, Accounted
  <2>3. QED
    BY <1>3, <2>1, <2>2 DEF TextInv
<1>5. CASE ~l.err
  <2>1. l = GetToken(lex) /\ given' = Append(given, TokenOf(l))
    BY <1>0, <1>5
  <2>2. given \in Histories(lex) /\ Accounted(lex, given)
    BY DEF TextInv, HistoryTyped
  <2>3. /\ TokenOf(l) \in Entries(Deepest(lex.text))
        /\ Accounted(l, Append(given, TokenOf(l)))
    BY <1>1, <1>2, <1>5, <2>1, <2>2, TokenAdded
  <2>4. HistoryTyped' /\ EndIsLast' /\ Last(given') = TokenOf(l)
    BY <1>0, <1>1, <2>1, <2>3, GivenGrows
  <2>5. LastIsTaken'
    BY <1>0, <2>4 DEF LastIsTaken
  <2>6. QED
    BY <1>0, <1>3, <2>1, <2>3, <2>4, <2>5 DEF TextInv
<1>6. QED
  BY <1>4, <1>5

LEMMA ExpectedOrThrown ==
  ASSUME NEW l \in LexerObjects, NEW t, NEW s
  PROVE  /\ Expect(l, t) = GetToken(l) \/ Expect(l, t).err
         /\ ExpectIdent(l, s) = GetToken(l) \/ ExpectIdent(l, s).err
         /\ \A m \in {GetDouble(l), GetNonneg(l), GetPositive(l)} : m = GetToken(l) \/ m.err
<1> DEFINE g == GetToken(l)
<1>1. g \in LexerObjects /\ Throw(g).err
  BY TokensGoOn, ThrowRight
<1> HIDE DEF g
<1>2. \A u : ExpectCurrent(g, u) = g \/ ExpectCurrent(g, u).err
  BY <1>1 DEF ExpectCurrent
<1>3. \A u : Expect(l, u) = g \/ Expect(l, u).err
  BY <1>2 DEF Expect, g
<1>4. ExpectIdent(l, s) = g \/ ExpectIdent(l, s).err
  <2> DEFINE e == Expect(l, "IDENT")
  <2>1. e = g \/ e.err
    BY <1>3
  <2> HIDE DEF e
  <2>2. ExpectName(e, s) = g \/ ExpectName(e, s).err
    BY <1>1, <2>1 DEF ExpectName
  <2>3. QED
    BY <2>2 DEF ExpectIdent, e
<1>5. \A n : AtLeast(GetDouble(l), n) = g \/ AtLeast(GetDouble(l), n).err
  <2> DEFINE e == GetDouble(l)
  <2>1. e = g \/ e.err
    BY <1>3 DEF GetDouble
  <2> HIDE DEF e
  <2>2. \A n : AtLeast(e, n) = g \/ AtLeast(e, n).err
    BY <1>1, <2>1 DEF AtLeast
  <2>3. QED
    BY <2>2 DEF e
<1>6. QED
  BY <1>3, <1>4, <1>5 DEF GetDouble, GetNonneg, GetPositive, g

LEMMA ClientTakes ==
  ASSUME RegistryInv, TextInv, ClientGets \/ ClientGetsNumber \/ ClientExpects
  PROVE  TextInv'
<1>1. lex \in LexerObjects
  BY StyleOfLexer
<1>2. ASSUME NEW l, ClientTurn, Taken(l), Later(lex, l), l = GetToken(lex) \/ l.err
      PROVE  TextInv'
  <2>1. OnText(lex, l)
    BY <1>2 DEF Later
  <2>2. QED
    BY <1>2, <2>1, TakenStep
<1>3. CASE ClientGets
  BY <1>1, <1>2, <1>3, GetTokenRight DEF ClientGets
<1>4. CASE ClientGetsNumber
  <2>1. PICK l \in {GetDouble(lex), GetNonneg(lex), GetPositive(lex)} : ClientTurn /\ Taken(l)
    BY <1>4 DEF ClientGetsNumber
  <2>2. Later(lex, l)
    BY <1>1, <2>1, GetNumberRight
  <2>3. l = GetToken(lex) \/ l.err
    BY <1>1, <2>1, ExpectedOrThrown
  <2>4. QED
    BY <1>2, <2>1, <2>2, <2>3
<1>5. CASE ClientExpects
  <2>1. PICK l \in {Expect(lex, lex.tok), ExpectIdent(lex, lex.str)} : ClientTurn /\ Taken(l)
    BY <1>5 DEF ClientExpects
  <2>2. Later(lex, l)
    BY <1>1, <2>1, ExpectRight
  <2>3. l = GetToken(lex) \/ l.err
    BY <1>1, <2>1, ExpectedOrThrown
  <2>4. QED
    BY <1>2, <2>1, <2>2, <2>3
<1>6. QED
  BY <1>3, <1>4, <1>5

LEMMA PeekStep ==
  ASSUME RegistryInv, TextInv, ClientPeeks
  PROVE  TextInv'
<1>0. /\ lex' = PeekToken(lex) /\ given' = given /\ call' = call /\ filename' = filename
      /\ ClientTurn
  BY DEF ClientPeeks, Untouched
<1>1. ~call.on /\ ~lex.err /\ ~HasEnd(given) /\ ~filename
  BY <1>0, TurnKnown
<1>2. lex \in LexerObjects
  BY StyleOfLexer
<1>3. OnText(lex, lex')
  BY <1>0, <1>2, ExpectRight DEF Later
<1>4. HistoryTyped' /\ EndIsLast'
  BY <1>0, <1>3, GivenStays
<1>5. lex'.hold \/ lex'.err
  BY <1>0, <1>2, TokensGoOn DEF PeekToken, PutbackUnlessThrown, Putback, LexerObjects, LexerFields
<1>6. FileAtEnd' /\ CallBeforeEnd' /\ LastIsTaken'
  BY <1>0, <1>1, <1>5 DEF FileAtEnd, CallBeforeEnd, LastIsTaken
<1>7. Accounted(lex', given')
  <2>1. lex'.err \/ Rest(lex') = Rest(lex)
    BY <1>0, <1>2, PeekRest
  <2>2. Accounted(lex, given)
    BY DEF TextInv
  <2>3. QED
    BY <1>0, <1>1, <1>3, <2>1, <2>2, NothingAdded
<1>8. QED
  BY <1>4, <1>6, <1>7 DEF TextInv

LEMMA PutbackStep ==
  ASSUME RegistryInv, TextInv, ClientPutsBack
  PROVE  TextInv'
<1>0. /\ ~call.on /\ ~lex.err /\ ~lex.hold /\ given # <<>> /\ ~filename
      /\ lex' = Putback(lex) /\ given' = Front(given) /\ call' = call /\ filename' = filename
  BY DEF ClientPutsBack, Untouched
<1>1. lex \in LexerObjects /\ StyleKnownOf(lex)
  BY StyleOfLexer
<1>2. OnText(lex, lex') /\ lex'.hold
  BY <1>0, <1>1, HoldRight DEF Later, Putback, LexerObjects, LexerFields
<1> DEFINE S == Entries(Deepest(lex.text))
           f == Front(given)
<1>3. /\ f \in Seq(S) /\ given = Append(f, Last(given))
      /\ Len(f) = Len(given) - 1 /\ Len(given) \in Nat \ {0}
      /\ \A k \in 1..Len(given) - 1 : f[k] = given[k]
  <2>1. given \in Seq(S)
    BY DEF TextInv, HistoryTyped, Histories
  <2> HIDE DEF S
  <2>2. QED
    BY <1>0, <2>1, FrontRight
<1>4. Last(given) = TokenOf(lex)
  BY <1>0 DEF TextInv, LastIsTaken
<1>5. ~HasEnd(f)
  <2> SUFFICES ASSUME f # <<>> PROVE Last(f).tok # "END"
    BY DEF HasEnd
  <2>1. Len(f) # 0
    BY <1>3, EmptySeq
  <2>2. Len(f) \in 1..Len(given) - 1 /\ Last(f) = f[Len(f)]
    BY <1>3, <2>1 DEF Last
  <2>3. QED
    BY <1>3, <2>2 DEF TextInv, EndIsLast
<1>6. HistoryTyped'
  <2>1. given' \in Histories(lex)
    BY <1>0, <1>3 DEF Histories
  <2>2. QED
    BY <1>2, <2>1, SameText DEF HistoryTyped
<1>7. EndIsLast'
  <2>1. \A k \in 1..Len(f) - 1 : k \in 1..Len(given) - 1
    BY <1>3
  <2>2. \A k \in 1..Len(f) - 1 : f[k].tok # "END"
    BY <1>3, <2>1 DEF TextInv, EndIsLast
  <2>3. QED
    BY <1>0, <2>2 DEF EndIsLast
<1>8. FileAtEnd' /\ CallBeforeEnd' /\ LastIsTaken'
  BY <1>0, <1>2 DEF FileAtEnd, CallBeforeEnd, LastIsTaken
<1>9. Accounted(lex', given')
  <2>1. Accounted(lex, given)
    BY DEF TextInv
  <2>2. f \in Histories(lex) /\ Accounted(lex, Append(f, TokenOf(lex)))
    BY <1>3, <1>4, <2>1 DEF Histories
  <2>3. Accounted(Putback(lex), f)
    BY <1>0, <1>1, <1>5, <2>2, TokenRemoved
  <2>4. QED
    BY <1>0, <2>3
<1>10. QED
  BY <1>6, <1>7, <1>8, <1>9 DEF TextInv

\* A call begins where the client is, or at the start of a file.
LEMMA CallStep ==
  ASSUME RegistryInv, TextInv, NEW throws \in BOOLEAN, ReadFrom(throws) \/ ReadFile(throws),
         OnText(lex, lex')
  PROVE  TextInv'
<1>0. ClientTurn /\ given' = given /\ filename' = filename
  BY DEF ReadFrom, ReadFile
<1>1. ~call.on /\ ~lex.err /\ ~HasEnd(given) /\ ~filename
  BY <1>0, TurnKnown
<1>2. lex \in LexerObjects /\ StyleKnownOf(lex)
  BY StyleOfLexer
<1>3. HistoryTyped' /\ EndIsLast'
  BY <1>0, GivenStays
<1>4. CASE lex'.err /\ call' = call
  BY <1>0, <1>1, <1>3, <1>4
     DEF TextInv, FileAtEnd, CallBeforeEnd, LastIsTaken, Accounted
<1>5. CASE call'.on /\ ~lex'.err /\ Accounted(lex', given')
  BY <1>0, <1>1, <1>3, <1>5
     DEF TextInv, FileAtEnd, CallBeforeEnd, LastIsTaken
<1>6. CASE ReadFrom(throws)
  <2>1. lex' = lex /\ call'.on
    BY <1>6 DEF ReadFrom
  <2>2. QED
    BY <1>0, <1>1, <1>5, <2>1 DEF TextInv
<1>7. CASE ReadFile(throws)
  <2>0. given = <<>>
    BY <1>7 DEF ReadFile
  <2>1. CASE lex' = Throw(lex) /\ call' = call
    BY <1>2, <1>4, <2>1, ThrowRight
  <2>2. CASE lex' = [NewLexer(lex.text, DefaultLexerStyle) EXCEPT !.style = lex.style] /\ call'.on
    <3>1. lex' = Start(lex)
      BY <2>2 DEF Start, NewLexer
    <3>2. ~lex'.err
      BY <3>1 DEF Start, NewLexer
    <3>3. Start(lex') = lex' /\ lex' \in LexerObjects /\ StyleKnownOf(lex')
      BY <1>2, <3>1, SameText DEF OnText, StyleKnownOf
    <3>4. Wrote(given', lex') = <<>>
      BY <1>0, <2>0, <3>3, WroteRight
    <3>5. Reads(lex', <<>>, lex', Style(lex'))
      BY <3>3, ReadsNothing
    <3>6. Accounted(lex', given')
      BY <1>0, <1>1, <3>3, <3>4, <3>5 DEF Accounted
    <3>7. QED
      BY <1>5, <2>2, <3>2, <3>6
  <2>3. QED
    BY <1>7, <2>1, <2>2 DEF ReadFile
<1>8. QED
  BY <1>6, <1>7

\* A pair is read and stored.
LEMMA PairStep ==
  ASSUME RegistryInv, TextInv, ReadPair, OnText(lex, lex')
  PROVE  TextInv'
<1> DEFINE ps == Style(lex)
           d == Deepest(lex.text)
<1>1. PICK p \in {ParsePair(lex, ps)} :
        LET bad == p.lex.err \/ Redefined(p.key, call.throws)
        IN /\ p.more
           /\ lex' = IF bad THEN Throw(p.lex) ELSE p.lex
           /\ call' = IF bad THEN Idle ELSE call
           /\ given' = IF p.lex.err THEN given ELSE Append(given, PairRead(p))
           /\ filename' = filename
  BY DEF ReadPair, Style
<1>2. call.on /\ ~lex.err /\ ~HasEnd(given) /\ ~filename
  BY DEF ReadPair, TextInv, CallBeforeEnd, FileAtEnd
<1>3. lex \in LexerObjects /\ StyleKnownOf(lex) /\ ps.list \in Openings /\ ps.expr \in Openings
  BY StyleOfLexer DEF StyleKnownOf
<1>4. p = ParsePair(lex, ps) /\ p.more
  BY <1>1
<1> HIDE DEF ps
<1>5. Later(lex, p.lex) /\ p.key \in Seq(Chars) /\ p.line \in Nat
  BY <1>3, <1>4, ParsePairRight
<1>6. CASE p.lex.err
  <2>1. lex' = Throw(p.lex) /\ call' = Idle /\ given' = given
    BY <1>1, <1>6
  <2>2. lex'.err
    BY <1>5, <2>1, ThrowRight DEF Later, OnText
  <2>3. HistoryTyped' /\ EndIsLast'
    BY <2>1, GivenStays
  <2>4. QED
    BY <1>1, <1>2, <2>1, <2>2, <2>3
       DEF TextInv, FileAtEnd, CallBeforeEnd, LastIsTaken, Accounted, Idle
<1>7. CASE ~p.lex.err
  <2> DEFINE x == PairRead(p)
             e == EntryTokens(x, ps)
  <2>1. /\ p.val \in ValuesUpTo[d]
        /\ Reads(lex, (Ident(p.key, p.line) \o <<Plain("ASSIGN")>>) \o Shown(ps)[p.val], p.lex, ps)
    BY <1>3, <1>4, <1>7, ParsePairReads
  <2>2. /\ x \in Entries(d) /\ x.tok = "PAIR" /\ x.key = p.key /\ x.val = p.val
        /\ x.line = p.line
    BY <1>5, <2>1 DEF PairRead, Entries
  <2>3. Reads(lex, e, p.lex, ps)
    <3> HIDE DEF x
    <3>1. e = (Ident(p.key, p.line) \o <<Plain("ASSIGN")>>) \o Shown(ps)[p.val]
      BY <2>2 DEF EntryTokens
    <3>2. QED
      BY <2>1, <3>1
  <2>4. given' = Append(given, x)
    BY <1>1, <1>7
  <2> HIDE DEF x
  <2>5. HistoryTyped' /\ EndIsLast' /\ ~HasEnd(given')
    BY <1>2, <2>2, <2>4, GivenGrows
  <2>6. Accounted(p.lex, Append(given, x))
    <3>1. OnText(lex, p.lex)
      BY <1>5 DEF Later
    <3>2. given \in Histories(lex) /\ Accounted(lex, given)
      BY DEF TextInv, HistoryTyped
    <3>3. x.tok # "END"
      BY <2>2
    <3>4. QED
      BY <1>2, <1>3, <2>2, <2>3, <3>1, <3>2, <3>3, EntryAdded DEF ps
  <2>7. CASE Redefined(p.key, call.throws)
    <3>1. lex' = Throw(p.lex) /\ call' = Idle
      BY <1>1, <2>7
    <3>2. lex'.err
      BY <1>5, <3>1, ThrowRight DEF Later, OnText
    <3>3. QED
      BY <1>1, <1>2, <2>5, <3>1, <3>2
         DEF TextInv, FileAtEnd, CallBeforeEnd, LastIsTaken, Accounted, Idle
  <2>8. CASE ~Redefined(p.key, call.throws)
    <3>1. lex' = p.lex /\ call' = call
      BY <1>1, <1>7, <2>8
    <3>2. QED
      BY <1>1, <1>2, <1>7, <2>4, <2>5, <2>6, <3>1
         DEF TextInv, FileAtEnd, CallBeforeEnd, LastIsTaken
  <2>9. QED
    BY <2>7, <2>8
<1>8. QED
  BY <1>6, <1>7

\* A call ends before the token that is no key, or at the end of the file.
LEMMA EndStep ==
  ASSUME RegistryInv, TextInv, ReadEnds, OnText(lex, lex')
  PROVE  TextInv'
<1> DEFINE ps == Style(lex)
           g == GetToken(lex)
<1>1. PICK p \in {ParsePair(lex, ps)} : ~p.more /\ lex' = Ended(p)
  BY DEF ReadEnds, Style
<1>2. /\ filename' = (filename \/ (call.file /\ ~lex'.err)) /\ call' = Idle
      /\ given' = IF call.file /\ ~lex'.err THEN Append(given, TokenOf(lex')) ELSE given
  BY DEF ReadEnds
<1>3. call.on /\ ~lex.err /\ ~HasEnd(given) /\ ~filename /\ ~call'.on
  BY <1>2 DEF ReadEnds, TextInv, CallBeforeEnd, FileAtEnd, Idle
<1>4. lex \in LexerObjects /\ StyleKnownOf(lex) /\ ps.list \in Openings /\ ps.expr \in Openings
  BY StyleOfLexer DEF StyleKnownOf
<1>5. p = ParsePair(lex, ps) /\ ~p.more
  BY <1>1
<1> HIDE DEF ps
<1>6. p.lex = g
  BY <1>4, <1>5, ParsePairReads
<1>7. g \in LexerObjects
  BY <1>4, TokensGoOn
<1>8. given \in Histories(lex) /\ Accounted(lex, given)
  BY DEF TextInv, HistoryTyped
<1>9. CASE lex'.err
  <2>1. given' = given /\ ~filename'
    BY <1>2, <1>3, <1>9
  <2>2. HistoryTyped' /\ EndIsLast'
    BY <2>1, GivenStays
  <2>3. QED
    BY <1>3, <1>9, <2>1, <2>2
       DEF TextInv, FileAtEnd, CallBeforeEnd, LastIsTaken, Accounted
<1>10. CASE ~lex'.err /\ ~call.file
  <2>1. given' = given /\ ~filename'
    BY <1>2, <1>3, <1>10
  <2>2. HistoryTyped' /\ EndIsLast'
    BY <2>1, GivenStays
  <2>3. lex' = Putback(g) \/ (lex' = g /\ g.err)
    BY <1>1, <1>6, <1>10 DEF Ended
  <2>4. lex' = Putback(g)
    BY <1>10, <2>3
  <2>5. Rest(lex') = Rest(lex)
    BY <1>4, <2>4, PutbackRest
  <2>6. lex'.hold
    BY <1>7, <2>4 DEF Putback, LexerObjects, LexerFields
  <2>7. Accounted(lex', given')
    BY <1>3, <1>8, <2>1, <2>5, NothingAdded
  <2>8. QED
    BY <1>3, <2>1, <2>2, <2>6, <2>7
       DEF TextInv, FileAtEnd, CallBeforeEnd, LastIsTaken
<1>11. CASE ~lex'.err /\ call.file
  <2> DEFINE b == Putback(g)
  <2>0. b.err = g.err /\ b.hold /\ b.tok = g.tok
    BY <1>7 DEF Putback, LexerObjects, LexerFields
  <2>1. lex' = Expect(b, "END") /\ ~g.err
    BY <1>1, <1>6, <1>11 DEF Ended
  <2>2. GetToken(b) = g
    <3>1. g.hold = FALSE
      BY <1>4, GetTokenRight
    <3> HIDE DEF g
    <3>2. QED
      BY <1>7, <3>1 DEF GetToken, Putback, LexerObjects, LexerFields
  <2>3. lex' = ExpectCurrent(g, "END")
    BY <2>1, <2>2 DEF Expect
  <2>4. g.err \/ g.tok = "END" \/ lex'.err
    <3>1. CASE g.err \/ g.tok = "END"
      BY <3>1
    <3>2. CASE ~(g.err \/ g.tok = "END")
      <4>1. lex' = Throw(g)
        BY <2>3, <3>2 DEF ExpectCurrent
      <4>2. QED
        BY <1>7, <4>1, ThrowRight
    <3>3. QED
      BY <3>1, <3>2
  <2>5. lex' = g /\ g.tok = "END"
    BY <1>11, <2>1, <2>3, <2>4 DEF ExpectCurrent
  <2>6. given' = Append(given, TokenOf(g)) /\ filename'
    BY <1>2, <1>11, <2>5
  <2>7. /\ TokenOf(g) \in Entries(Deepest(lex.text))
        /\ Accounted(g, Append(given, TokenOf(g)))
    BY <1>3, <1>4, <1>8, <2>1, TokenAdded
  <2>8. TokenOf(g).tok = "END"
    BY <2>5 DEF TokenOf, Token
  <2>9. HistoryTyped' /\ EndIsLast' /\ HasEnd(given')
    <3> DEFINE x == TokenOf(g)
    <3> HIDE DEF x
    <3>1. x \in Entries(Deepest(lex.text)) /\ x.tok = "END" /\ given' = Append(given, x)
      BY <2>6, <2>7, <2>8 DEF x
    <3>2. QED
      BY <1>3, <3>1, GivenGrows
  <2>10. Accounted(lex', given')
    BY <2>5, <2>6, <2>7
  <2>11. QED
    BY <1>3, <2>6, <2>9, <2>10
       DEF TextInv, FileAtEnd, CallBeforeEnd, LastIsTaken
<1>12. QED
  BY <1>9, <1>10, <1>11

LEMMA TextStep ==
  ASSUME RegistryInv, TextInv, [Next]_vars
  PROVE  TextInv'
<1>1. CASE UNCHANGED <<lex, filename, call, given>>
  BY <1>1 DEF TextInv, HistoryTyped, EndIsLast, FileAtEnd, CallBeforeEnd, LastIsTaken
<1>2. CASE Next
  <2>1. OnText(lex, lex')
    BY <1>2, LexerGoesOn
  <2>2. CASE ClientGets \/ ClientGetsNumber \/ ClientExpects
    BY <2>2, ClientTakes
  <2>3. CASE ClientPeeks
    BY <2>3, PeekStep
  <2>4. CASE ClientPutsBack
    BY <2>4, PutbackStep
  <2>5. CASE \E throws \in BOOLEAN : ReadFrom(throws) \/ ReadFile(throws)
    BY <2>1, <2>5, CallStep
  <2>6. CASE ReadPair
    BY <2>1, <2>6, PairStep
  <2>7. CASE ReadEnds
    BY <2>1, <2>7, EndStep
  <2>8. CASE Clear \/ \E throws \in BOOLEAN : ClientAdds(throws)
    BY <1>1, <2>8 DEF Clear, ClientAdds
  <2>9. QED
    BY <1>2, <2>2, <2>3, <2>4, <2>5, <2>6, <2>7, <2>8 DEF Next
<1>3. QED
  BY <1>1, <1>2 DEF vars

\* The history as TextAccounted writes it out.
LEMMA WrittenIs ==
  ASSUME lex \in LexerObjects, StyleKnownOf(lex), NEW s \in Histories(lex)
  PROVE  Written(s, Style(lex)) = Wrote(s, lex)
<1> DEFINE ps == Style(lex)
           d == Deepest(lex.text)
           f == EntryWrites(d, ps)
           W(x) == IF x.tok = "PAIR" THEN RenderPair(x, ps) ELSE <<x>>
<1>1. d \in Nat /\ ps.list \in Openings /\ ps.expr \in Openings
  BY StartRight DEF StyleKnownOf
<1>2. s \in Seq(Entries(d))
  BY DEF Histories
<1>3. ASSUME NEW x \in Entries(d) PROVE W(x) = f[x]
  <2>1. f[x] = EntryTokens(x, ps)
    BY <1>1, EntriesRight
  <2>2. CASE x.tok = "PAIR"
    <3>1. x.val \in ValuesUpTo[d]
      BY <2>2, NoPairs DEF Entries
    <3>2. RenderUpTo(ps)[d][x.val] = Shown(ps)[x.val]
      BY <1>1, <3>1, ShownRight
    <3>3. Render(x.val, ps) = Shown(ps)[x.val]
      BY <3>2 DEF Render, Deepest
    <3>4. QED
      BY <2>1, <2>2, <3>3 DEF RenderPair, EntryTokens
  <2>3. QED
    BY <2>1, <2>2 DEF EntryTokens
<1>4. \A k \in DOMAIN s : s[k] \in Entries(d)
  <2> HIDE DEF d
  <2>1. QED
    BY <1>2, ElementOfSeq, LenProperties
<1> HIDE DEF d, f, ps
<1>5. [k \in DOMAIN s |-> W(s[k])] = [k \in DOMAIN s |-> f[s[k]]]
  BY <1>3, <1>4
<1>6. Written(s, ps) = FlattenSeq([k \in DOMAIN s |-> W(s[k])])
  BY DEF Written
<1>7. Wrote(s, lex) = FlattenSeq([k \in DOMAIN s |-> f[s[k]]])
  BY DEF Wrote, Each, Mapped, f, d, ps
<1>8. QED
  BY <1>5, <1>6, <1>7 DEF ps

LEMMA TextInvAccounts ==
  ASSUME RegistryInv, TextInv
  PROVE  TextAccounted
<1> DEFINE ps == Style(lex)
           w == Written(given, ps)
           e == given # <<>> /\ Last(given).tok = "END"
<1>1. lex \in LexerObjects /\ StyleKnownOf(lex)
  BY StyleOfLexer
<1>2. given \in Histories(lex)
  BY DEF TextInv, HistoryTyped
<1>3. w = Wrote(given, lex) /\ w \in TokenSeqs
  BY <1>1, <1>2, WrittenIs, WroteRight
<1>4. e <=> HasEnd(given)
  BY DEF HasEnd
<1>5. FromStart = Start(lex)
  BY DEF FromStart, Start
<1>6. Accounted(lex, given) /\ (filename => HasEnd(given))
  BY DEF TextInv, FileAtEnd
<1>7. w \o <<>> = w
  BY <1>3, TokenSeqsRight
<1> HIDE DEF w, e
<1>8. ~lex.err => Agree(w \o (IF e THEN <<>> ELSE Rest(lex)), Rest(FromStart), ps)
  <2>1. CASE e
    BY <1>3, <1>4, <1>5, <1>6, <1>7, <2>1 DEF Accounted
  <2>2. CASE ~e
    BY <1>3, <1>4, <1>5, <1>6, <2>2 DEF Accounted, Reads
  <2>3. QED
    BY <2>1, <2>2
<1>9. QED
  BY <1>4, <1>6, <1>8 DEF TextAccounted, Style, w, e

\* Every token of the text is delivered once and in order, to the client or to
\* the registry: what peek_token(), putback(), parse_list(), parse_term() and
\* read_from() put back is what they read too far, a stored value written out
\* is what its pair says in the text, nested to any depth, and a file that was
\* read was read to its end.
THEOREM TextIsAccounted ==
  Spec => []TextAccounted
<1>1. Init => TextInv
  BY TextStarts
<1>2. RegistryInv /\ TextInv /\ [Next]_vars => TextInv'
  BY TextStep
<1>3. RegistryInv /\ TextInv => TextAccounted
  BY TextInvAccounts
<1>4. QED
  BY <1>1, <1>2, <1>3, RegistryIsSafe, PTL DEF Spec

-----------------------------------------------------------------------------
(* No loop is cut short *)

\* f and g do the same with a lexer that is l after one character or more.
Agreed(f, g, l) ==
  \A m \in LexerObjects : m.text = l.text /\ m.pos > l.pos => f[m] = g[m]

LEMMA QuotedAhead ==
  ASSUME NEW l \in LexerObjects, NEW f, NEW g, Agreed(f, g, l)
  PROVE  QuotedFrom(l, f) = QuotedFrom(l, g)
<1> DEFINE c == Peek(l)
           d == IF l.pos + 1 < Len(l.text) THEN l.text[l.pos + 2] ELSE EOF
           x == IF d = "n" THEN "\n" ELSE d
           q == QuoteChar(l)
           Reading(h) ==
             CASE c \in {EOF, "\n"} -> Throw(l)
               [] c = q -> Return([l EXCEPT !.pos = @ + 1], "STRING")
               [] c = "\\" -> IF d \in {q, "n", "\\"} THEN h[Take(l, 2, x)] ELSE Throw(l)
               [] OTHER -> h[Take(l, 1, c)]
<1>1. QuotedFrom(l, f) = Reading(f) /\ QuotedFrom(l, g) = Reading(g)
  BY DEF QuotedFrom
<1>2. q \in {"'", "\""}
  BY DEF QuoteChar
<1>3. c # EOF => l.pos < Len(l.text) /\ c = l.text[l.pos + 1] /\ c \in Chars
  BY PeekRight
<1>4. l.text \in Seq(Chars) /\ Len(l.text) \in Nat /\ l.pos \in 0..Len(l.text)
  BY LexerTypes
<1>5. d # EOF => l.pos + 2 \in 1..Len(l.text) /\ d = l.text[l.pos + 2]
  BY <1>4
<1> HIDE DEF c, q, d
<1>6. ASSUME NEW k \in 1..2, NEW y \in Chars, l.pos + k <= Len(l.text),
             \A i \in l.pos + 1..l.pos + k : l.text[i] # "\n"
      PROVE  f[Take(l, k, y)] = g[Take(l, k, y)]
  <2> DEFINE m == Take(l, k, y)
  <2>1. Goes(l, m)
    BY <1>6, TakeRight
  <2>2. m.pos = l.pos + k
    BY DEF Take, LexerObjects, LexerFields
  <2> HIDE DEF m
  <2>3. m \in LexerObjects /\ m.text = l.text /\ m.pos > l.pos
    BY <1>4, <2>1, <2>2 DEF Goes, Later, OnText
  <2>4. QED
    BY <2>3 DEF Agreed, m
<1>7. CASE c \in {EOF, "\n"}
  <2>1. Reading(f) = Throw(l) /\ Reading(g) = Throw(l)
    BY <1>2, <1>7, CharsKnown
  <2>2. QED
    BY <1>1, <2>1
<1>8. CASE c \notin {EOF, "\n"} /\ c = q
  <2> DEFINE m == Return([l EXCEPT !.pos = @ + 1], "STRING")
  <2>1. Reading(f) = m /\ Reading(g) = m
    BY <1>2, <1>8, CharsKnown
  <2>2. QED
    BY <1>1, <2>1
<1>9. CASE c \notin {EOF, "\n", q} /\ c = "\\"
  <2>1. CASE d \in {q, "n", "\\"}
    <3>1. Reading(f) = f[Take(l, 2, x)] /\ Reading(g) = g[Take(l, 2, x)]
      BY <1>9, <2>1
    <3>2. x \in Chars /\ d # EOF /\ d # "\n"
      BY <1>2, <2>1, CharsKnown
    <3>3. \A i \in l.pos + 1..l.pos + 2 : l.text[i] # "\n"
      <4>1. \A i \in l.pos + 1..l.pos + 2 : i = l.pos + 1 \/ i = l.pos + 2
        BY <1>4
      <4>2. QED
        BY <1>3, <1>5, <1>9, <3>2, <4>1
    <3>4. l.pos + 2 <= Len(l.text)
      BY <1>4, <1>5, <3>2
    <3> HIDE DEF x, Reading
    <3>5. f[Take(l, 2, x)] = g[Take(l, 2, x)]
      BY <1>6, <3>2, <3>3, <3>4
    <3>6. QED
      BY <1>1, <3>1, <3>5
  <2>2. CASE d \notin {q, "n", "\\"}
    <3>1. Reading(f) = Throw(l) /\ Reading(g) = Throw(l)
      BY <1>9, <2>2
    <3>2. QED
      BY <1>1, <3>1
  <2>3. QED
    BY <2>1, <2>2
<1>10. CASE c \notin {EOF, "\n", q, "\\"}
  <2>1. Reading(f) = f[Take(l, 1, c)] /\ Reading(g) = g[Take(l, 1, c)]
    BY <1>10
  <2>2. \A i \in l.pos + 1..l.pos + 1 : l.text[i] # "\n"
    BY <1>3, <1>4, <1>10
  <2>3. l.pos + 1 <= Len(l.text) /\ c \in Chars
    BY <1>3, <1>4, <1>10
  <2> HIDE DEF Reading
  <2>4. f[Take(l, 1, c)] = g[Take(l, 1, c)]
    BY <1>6, <2>2, <2>3
  <2>5. QED
    BY <1>1, <2>1, <2>4
<1>11. QED
  BY <1>7, <1>8, <1>9, <1>10

\* More turns than characters left change nothing.
LEMMA QuotedSettles ==
  \A n \in Nat : \A l \in LexerObjects : \A m \in Nat :
    Len(l.text) - l.pos < n /\ n <= m => QuotedUpTo[m][l] = QuotedUpTo[n][l]
<1> DEFINE S == {n \in Nat : \A l \in LexerObjects : \A m \in Nat :
                   Len(l.text) - l.pos < n /\ n <= m => QuotedUpTo[m][l] = QuotedUpTo[n][l]}
<1>1. 0 \in S
  BY LexerTypes
<1>2. ASSUME NEW n \in Nat, n \in S PROVE n + 1 \in S
  <2>0. n + 1 \in Nat
    OBVIOUS
  <2> SUFFICES ASSUME NEW l \in LexerObjects, NEW m \in Nat,
                      Len(l.text) - l.pos < n + 1, n + 1 <= m
               PROVE  QuotedUpTo[m][l] = QuotedUpTo[n + 1][l]
    BY <2>0
  <2> DEFINE k == m - 1
  <2>1. k \in Nat /\ k + 1 = m /\ n <= k
    OBVIOUS
  <2> HIDE DEF k
  <2>2. /\ QuotedUpTo[k + 1][l] = QuotedFrom(l, QuotedUpTo[k])
        /\ QuotedUpTo[n + 1][l] = QuotedFrom(l, QuotedUpTo[n])
    BY <2>1, QuotedLoop
  <2>3. Agreed(QuotedUpTo[k], QuotedUpTo[n], l)
    <3> SUFFICES ASSUME NEW r \in LexerObjects, r.text = l.text, r.pos > l.pos
                 PROVE  QuotedUpTo[k][r] = QuotedUpTo[n][r]
      BY DEF Agreed
    <3>1. l.pos \in Int /\ r.pos \in Int /\ Len(l.text) \in Int
      BY LexerTypes
    <3>2. Len(r.text) - r.pos < n
      BY <3>1
    <3>3. QED
      BY <1>2, <2>1, <3>2
  <2>4. QED
    BY <2>1, <2>2, <2>3, QuotedAhead
<1> HIDE DEF S
<1>3. Nat \subseteq S
  BY <1>1, <1>2, SetInduction
<1>4. QED
  BY <1>3 DEF S

\* The loops without a bound.
ReadQuoted == [l \in LexerObjects |-> Quoted(l)]
ReadToken == [l \in LexerObjects |-> Scan(l)]

LEMMA QuotedEnds ==
  ASSUME NEW l \in LexerObjects
  PROVE  Quoted(l) = QuotedFrom(l, ReadQuoted)
<1> DEFINE n == Len(l.text)
<1>1. n \in Nat /\ l.pos \in Nat
  BY LexerTypes
<1>2. Quoted(l) = QuotedUpTo[n + 1][l]
  BY DEF Quoted
<1>3. Agreed(QuotedUpTo[n], ReadQuoted, l)
  <2> SUFFICES ASSUME NEW r \in LexerObjects, r.text = l.text, r.pos > l.pos
               PROVE  QuotedUpTo[n][r] = ReadQuoted[r]
    BY DEF Agreed
  <2>1. ReadQuoted[r] = QuotedUpTo[n + 1][r]
    BY DEF ReadQuoted, Quoted
  <2>2. r.pos \in Nat
    BY LexerTypes
  <2>3. Len(r.text) - r.pos < n /\ n <= n + 1 /\ n + 1 \in Nat
    BY <1>1, <2>2
  <2> HIDE DEF n
  <2>4. QED
    BY <1>1, <2>1, <2>3, QuotedSettles
<1> HIDE DEF n
<1>4. QuotedUpTo[n + 1][l] = QuotedFrom(l, QuotedUpTo[n])
  BY <1>1, QuotedLoop
<1>5. QED
  BY <1>2, <1>3, <1>4, QuotedAhead

LEMMA LexAhead ==
  ASSUME NEW l \in LexerObjects, NEW f, NEW g, Agreed(f, g, l)
  PROVE  LexToken(l, f) = LexToken(l, g)
<1> DEFINE c == Peek(l)
           m == [l EXCEPT !.pos = @ + 1]
           k == [m EXCEPT !.pos = @ + 1]
<1>1. c # EOF => l.pos < Len(l.text) /\ c = l.text[l.pos + 1]
  BY PeekRight
<1>2. "\n" \notin {"#", "%", "/", "*"} /\ EOF \notin {"#", "%", "/", "*"}
  BY DEF EOF
<1>3. c \notin {EOF, "\n"} => m \in LexerObjects /\ m.text = l.text /\ m.pos = l.pos + 1
  BY <1>1, TakenRight DEF Goes, Later, OnText
<1>4. l.pos \in Nat
  BY LexerTypes
<1>5. \A r : r \in LexerObjects /\ r.text = l.text /\ r.pos >= l.pos + 1 => f[r] = g[r]
  <2>1. \A r \in LexerObjects : r.pos \in Nat
    BY LexerTypes
  <2>2. QED
    BY <1>4, <2>1 DEF Agreed
<1> HIDE DEF c, m
<1>6. c \in {"#", "%", "/"} => f[SkipLine(m)] = g[SkipLine(m)]
  <2> SUFFICES ASSUME c \in {"#", "%", "/"} PROVE f[SkipLine(m)] = g[SkipLine(m)]
    OBVIOUS
  <2>1. m \in LexerObjects /\ m.text = l.text /\ m.pos = l.pos + 1
    BY <1>2, <1>3
  <2>2. Later(m, SkipLine(m))
    BY <2>1, SkipLineRight DEF Goes
  <2>3. QED
    BY <1>5, <2>1, <2>2 DEF Later, OnText
<1>7. c = "/" /\ Peek(m) = "*" => f[SkipBlock(k)] = g[SkipBlock(k)]
  <2> SUFFICES ASSUME c = "/", Peek(m) = "*" PROVE f[SkipBlock(k)] = g[SkipBlock(k)]
    OBVIOUS
  <2>1. m \in LexerObjects /\ m.text = l.text /\ m.pos = l.pos + 1
    BY <1>2, <1>3
  <2>2. m.pos < Len(m.text) /\ m.text[m.pos + 1] # "\n"
    BY <1>2, <2>1, PeekRight
  <2>3. Goes(m, k) /\ k.pos = m.pos + 1
    BY <2>1, <2>2, TakenRight
  <2> HIDE DEF k
  <2>4. k \in LexerObjects /\ k.text = l.text
    BY <2>1, <2>3 DEF Goes, Later, OnText
  <2> DEFINE r == SkipBlock(k)
  <2>5. Later(k, r)
    BY <2>4, SkipBlockRight DEF Goes
  <2> HIDE DEF r
  <2>6. r \in LexerObjects /\ r.text = l.text /\ r.pos >= k.pos
    BY <2>4, <2>5 DEF Later, OnText
  <2>7. r.pos \in Nat
    BY <2>6, LexerTypes
  <2>8. r.pos >= l.pos + 1
    BY <1>4, <2>1, <2>3, <2>6, <2>7
  <2>9. QED
    BY <1>5, <2>6, <2>8 DEF r
<1> DEFINE Slash(h) ==
             CASE Peek(m) = EOF -> Return(m, "SLASH")
               [] Peek(m) = "/" -> IF l.style.comments = "hash"
                                   THEN Return(m, "SLASH") ELSE h[SkipLine(m)]
               [] Peek(m) = "*" -> IF l.style.comments # "c"
                                   THEN Return(m, "ASTERISKS") ELSE h[SkipBlock(k)]
               [] OTHER -> Throw(m)
           Hash(h) == IF l.style.comments = "c" \/ CommentChar(l) # c
                      THEN Char(m) ELSE h[SkipLine(m)]
           quote == IF QuoteChar(l) # c THEN Char(m) ELSE Quoted([m EXCEPT !.str = <<>>])
           Lexed(hash, slash) ==
             CASE c = EOF -> Return(l, "END")
               [] c \in {"#", "%"} -> hash
               [] c = "/" -> slash
               [] c \in {"=", "(", ")", "{", "}", "[", "]", ","} -> Char(m)
               [] c \in {"\"", "'"} -> quote
               [] c \in Digit \cup {".", "+", "-"} -> Number(m)
               [] c \in Letter -> Identifier(m)
               [] OTHER -> Throw(m)
<1>8. LexToken(l, f) = Lexed(Hash(f), Slash(f)) /\ LexToken(l, g) = Lexed(Hash(g), Slash(g))
  BY DEF LexToken, c, m
<1>9. c \in {"#", "%"} => Hash(f) = Hash(g)
  BY <1>6
<1>10. c = "/" => Slash(f) = Slash(g)
  <2>1. CASE c = "/" /\ Peek(m) = "/"
    BY <1>2, <1>6, <2>1
  <2>2. CASE c = "/" /\ Peek(m) = "*"
    BY <1>2, <1>7, <2>2
  <2>3. CASE Peek(m) \notin {"/", "*"}
    BY <2>3
  <2>4. QED
    BY <2>1, <2>2, <2>3
<1> HIDE DEF Hash, Slash, quote
<1>11. \A x, y, z : c \notin {"#", "%"} => Lexed(x, z) = Lexed(y, z)
  OBVIOUS
<1>12. \A x, y, z : c # "/" => Lexed(z, x) = Lexed(z, y)
  OBVIOUS
<1> HIDE DEF Lexed
<1>13. CASE c \in {"#", "%"}
  <2>1. c # "/"
    BY <1>13
  <2>2. QED
    BY <1>8, <1>9, <1>12, <1>13, <2>1
<1>14. CASE c \notin {"#", "%"}
  <2>1. CASE c = "/"
    BY <1>8, <1>10, <1>11, <1>14, <2>1
  <2>2. CASE c # "/"
    BY <1>8, <1>11, <1>12, <1>14, <2>2
  <2>3. QED
    BY <2>1, <2>2
<1>15. QED
  BY <1>13, <1>14

LEMMA ScanSettles ==
  \A n \in Nat : \A l \in LexerObjects : \A m \in Nat :
    Len(l.text) - l.pos < n /\ n <= m => ScanUpTo[m][l] = ScanUpTo[n][l]
<1> DEFINE S == {n \in Nat : \A l \in LexerObjects : \A m \in Nat :
                   Len(l.text) - l.pos < n /\ n <= m => ScanUpTo[m][l] = ScanUpTo[n][l]}
<1>1. 0 \in S
  BY LexerTypes
<1>2. ASSUME NEW n \in Nat, n \in S PROVE n + 1 \in S
  <2>0. n + 1 \in Nat
    OBVIOUS
  <2> SUFFICES ASSUME NEW l \in LexerObjects, NEW m \in Nat,
                      Len(l.text) - l.pos < n + 1, n + 1 <= m
               PROVE  ScanUpTo[m][l] = ScanUpTo[n + 1][l]
    BY <2>0
  <2> DEFINE k == m - 1
             h == SkipSpace(l)
  <2>1. k \in Nat /\ k + 1 = m /\ n <= k
    OBVIOUS
  <2> HIDE DEF k
  <2>2. /\ ScanUpTo[k + 1][l] = LexToken(h, ScanUpTo[k])
        /\ ScanUpTo[n + 1][l] = LexToken(h, ScanUpTo[n])
    BY <2>1, ScanLoop
  <2>3. h \in LexerObjects /\ h.text = l.text /\ h.pos >= l.pos
    BY SkipSpaceRight DEF Goes, Later, OnText
  <2> HIDE DEF h
  <2>4. Agreed(ScanUpTo[k], ScanUpTo[n], h)
    <3> SUFFICES ASSUME NEW r \in LexerObjects, r.text = l.text, r.pos > h.pos
                 PROVE  ScanUpTo[k][r] = ScanUpTo[n][r]
      BY <2>3 DEF Agreed
    <3>1. l.pos \in Int /\ r.pos \in Int /\ h.pos \in Int /\ Len(l.text) \in Int
      BY <2>3, LexerTypes
    <3>2. Len(r.text) - r.pos < n
      BY <2>3, <3>1
    <3>3. QED
      BY <1>2, <2>1, <3>2
  <2>5. QED
    BY <2>1, <2>2, <2>3, <2>4, LexAhead
<1> HIDE DEF S
<1>3. Nat \subseteq S
  BY <1>1, <1>2, SetInduction
<1>4. QED
  BY <1>3 DEF S

LEMMA ScanEnds ==
  ASSUME NEW l \in LexerObjects
  PROVE  Scan(l) = LexToken(SkipSpace(l), ReadToken)
<1> DEFINE n == Len(l.text)
           h == SkipSpace(l)
<1>1. n \in Nat /\ l.pos \in Nat
  BY LexerTypes
<1>2. Scan(l) = ScanUpTo[n + 1][l]
  BY DEF Scan
<1>3. h \in LexerObjects /\ h.text = l.text /\ h.pos \in Nat
  <2>1. h \in LexerObjects /\ h.text = l.text
    BY SkipSpaceRight DEF Goes, Later, OnText
  <2>2. QED
    BY <2>1, LexerTypes
<1> HIDE DEF h
<1>4. Agreed(ScanUpTo[n], ReadToken, h)
  <2> SUFFICES ASSUME NEW r \in LexerObjects, r.text = l.text, r.pos > h.pos
               PROVE  ScanUpTo[n][r] = ReadToken[r]
    BY <1>3 DEF Agreed
  <2>1. ReadToken[r] = ScanUpTo[n + 1][r]
    BY DEF ReadToken, Scan
  <2>2. r.pos \in Nat
    BY LexerTypes
  <2>3. Len(r.text) - r.pos < n /\ n <= n + 1 /\ n + 1 \in Nat
    BY <1>1, <1>3, <2>2
  <2> HIDE DEF n
  <2>4. QED
    BY <1>1, <2>1, <2>3, ScanSettles
<1> HIDE DEF n
<1>5. ScanUpTo[n + 1][l] = LexToken(h, ScanUpTo[n])
  BY <1>1, ScanLoop DEF h
<1>6. LexToken(h, ScanUpTo[n]) = LexToken(h, ReadToken)
  BY <1>3, <1>4, LexAhead
<1>7. QED
  BY <1>2, <1>5, <1>6 DEF h

\* The tokens ahead of a lexer, the end or the exception included.
Ahead(l) == Len(Rest(l))

LEMMA AheadRight ==
  ASSUME NEW l \in LexerObjects, NEW g, g = GetToken(l)
  PROVE  /\ Ahead(l) \in Nat \ {0} /\ (Ends(g) => Ahead(l) = 1)
         /\ ~Ends(g) => Ahead(g) \in Nat \ {0} /\ Ahead(g) = Ahead(l) - 1
         /\ Putback(g) \in LexerObjects /\ Ahead(Putback(g)) = Ahead(l)
<1>1. g \in LexerObjects
  BY TokensGoOn
<1>2. Putback(g) \in LexerObjects /\ Ahead(Putback(g)) = Ahead(l)
  BY PutbackRest DEF Ahead
<1>3. \A m \in LexerObjects : Rest(m) \in Seq(TokenRecords) /\ Len(Rest(m)) \in Nat
  BY RestRight, LenProperties
<1>4. CASE Ends(g)
  <2>1. \E x : Rest(l) = <<x>>
    BY <1>4, RestRight DEF Ends
  <2>2. Len(Rest(l)) = 1
    BY <2>1
  <2>3. QED
    BY <1>2, <1>4, <2>2 DEF Ahead
<1>5. CASE ~Ends(g)
  <2> DEFINE x == TokenOf(g)
             c == Rest(g)
  <2>1. Rest(l) = <<x>> \o c /\ c \in Seq(TokenRecords) /\ x \in TokenRecords
    BY <1>1, <1>3, <1>5, RestRight, TokenOfRight
  <2> HIDE DEF x, c
  <2>2. Len(<<x>> \o c) = 1 + Len(c) /\ Len(c) \in Nat
    BY <2>1
  <2>3. Ahead(l) = 1 + Ahead(g) /\ Ahead(g) \in Nat
    BY <2>1, <2>2 DEF Ahead, c
  <2>4. Ahead(g) # 0
    <3>1. PICK h : h = GetToken(g)
      OBVIOUS
    <3>2. CASE Ends(h)
      <4>1. \E y : Rest(g) = <<y>>
        BY <1>1, <3>1, <3>2, RestRight DEF Ends
      <4>2. QED
        BY <4>1 DEF Ahead
    <3>3. CASE ~Ends(h)
      <4> DEFINE y == TokenOf(h)
                 d == Rest(h)
      <4>1. h \in LexerObjects
        BY <1>1, <3>1, TokensGoOn
      <4>2. Rest(g) = <<y>> \o d /\ d \in Seq(TokenRecords) /\ y \in TokenRecords
        BY <1>1, <1>3, <3>1, <3>3, <4>1, RestRight, TokenOfRight
      <4> HIDE DEF y, d
      <4>3. Len(<<y>> \o d) = 1 + Len(d) /\ Len(d) \in Nat
        BY <4>2
      <4>4. QED
        BY <4>2, <4>3 DEF Ahead
    <3>4. QED
      BY <3>2, <3>3
  <2>5. QED
    BY <1>2, <1>5, <2>3, <2>4
<1>6. QED
  BY <1>4, <1>5

\* There are no more of them than characters, a token that was put back, and
\* the end.
LEMMA AheadBound ==
  \A l \in LexerObjects : Ahead(l) <= Left(l) + 1
<1> DEFINE S == {n \in Nat : \A l \in LexerObjects : Left(l) <= n => Ahead(l) <= Left(l) + 1}
<1>1. ASSUME NEW l \in LexerObjects, NEW g, g = GetToken(l),
             ~Ends(g) => Ahead(g) <= Left(g) + 1
      PROVE  Ahead(l) <= Left(l) + 1
  <2>1. Left(l) \in Nat
    BY LeftRight
  <2>2. CASE Ends(g)
    BY <1>1, <2>1, <2>2, AheadRight
  <2>3. CASE ~Ends(g)
    <3>1. g \in LexerObjects /\ Left(g) < Left(l)
      BY <1>1, <2>3, TokensGoOn
    <3>2. Left(g) \in Nat /\ Ahead(g) \in Nat /\ Ahead(l) \in Nat /\ Ahead(g) = Ahead(l) - 1
      BY <1>1, <2>3, <3>1, LeftRight, AheadRight
    <3>3. QED
      BY <1>1, <2>1, <2>3, <3>1, <3>2
  <2>4. QED
    BY <2>2, <2>3
<1>2. 0 \in S
  <2> SUFFICES ASSUME NEW l \in LexerObjects, Left(l) <= 0 PROVE Ahead(l) <= Left(l) + 1
    OBVIOUS
  <2>1. PICK g : g = GetToken(l)
    OBVIOUS
  <2>2. Ends(g)
    <3>1. g \in LexerObjects /\ (Ends(g) \/ Left(g) < Left(l))
      BY <2>1, TokensGoOn
    <3>2. Left(g) \in Nat /\ Left(l) \in Nat
      BY <3>1, LeftRight
    <3>3. QED
      BY <3>1, <3>2
  <2>3. QED
    BY <1>1, <2>1, <2>2
<1>3. ASSUME NEW n \in Nat, n \in S PROVE n + 1 \in S
  <2>0. n + 1 \in Nat
    OBVIOUS
  <2> SUFFICES ASSUME NEW l \in LexerObjects, Left(l) <= n + 1 PROVE Ahead(l) <= Left(l) + 1
    BY <2>0
  <2>1. PICK g : g = GetToken(l)
    OBVIOUS
  <2>2. ASSUME ~Ends(g) PROVE Ahead(g) <= Left(g) + 1
    <3>1. g \in LexerObjects /\ Left(g) < Left(l)
      BY <2>1, <2>2, TokensGoOn
    <3>2. Left(g) \in Nat /\ Left(l) \in Nat
      BY <3>1, LeftRight
    <3>3. Left(g) <= n
      BY <3>1, <3>2
    <3>4. QED
      BY <1>3, <3>1, <3>3
  <2>3. QED
    BY <1>1, <2>1, <2>2
<1> HIDE DEF S
<1>4. Nat \subseteq S
  BY <1>2, <1>3, SetInduction
<1>5. ASSUME NEW l \in LexerObjects PROVE Ahead(l) <= Left(l) + 1
  <2>1. Left(l) \in S /\ Left(l) <= Left(l)
    BY <1>4, LeftRight
  <2>2. QED
    BY <2>1 DEF S
<1>6. QED
  BY <1>5

\* A call that returns a value has taken a token.
TakesToken(run) ==
  \A l \in LexerObjects :
    /\ ~run[Term(l)].lex.err => Ahead(run[Term(l)].lex) < Ahead(l)
    /\ \A close \in Closings, first \in BOOLEAN :
         ~run[List(l, close, first)].lex.err => Ahead(run[List(l, close, first)].lex) < Ahead(l)

\* The lexer before an element.
LEMMA StartAhead ==
  ASSUME NEW l \in LexerObjects, NEW g, g = GetToken(l), ~g.err, NEW first, NEW ps,
         NEW e, e = ElementStart(g, ps, first), ~e.err
  PROVE  e \in LexerObjects /\ Ahead(e) \in Nat /\ Ahead(e) <= Ahead(l)
<1>1. g \in LexerObjects
  BY TokensGoOn
<1>2. e = Putback(g) \/ (e = g /\ g.tok = "COMMA")
  <2>1. e \in {ExpectCurrent(g, "COMMA"), Putback(g)} \/ (e = g /\ g.tok = "COMMA")
    BY DEF ElementStart
  <2>2. e = ExpectCurrent(g, "COMMA") => e = g /\ g.tok = "COMMA"
    <3>1. Throw(g).err
      BY <1>1, ThrowRight
    <3>2. QED
      BY <3>1 DEF ExpectCurrent
  <2>3. QED
    BY <2>1, <2>2
<1>3. CASE e = Putback(g)
  BY <1>3, AheadRight
<1>4. CASE e = g /\ g.tok = "COMMA"
  <2>1. ~Ends(g)
    BY <1>4 DEF Ends
  <2>2. Ahead(g) \in Nat /\ Ahead(l) \in Nat /\ Ahead(g) = Ahead(l) - 1
    BY <2>1, AheadRight
  <2>3. QED
    BY <1>1, <1>4, <2>2
<1>5. QED
  BY <1>2, <1>3, <1>4

LEMMA TermTakes ==
  ASSUME NEW ps, ps.list \in Openings, ps.expr \in Openings, NEW run \in Runs, TakesToken(run),
         NEW l \in LexerObjects, NEW r, r = TermAt(GetToken(l), ps, run), ~r.lex.err
  PROVE  Ahead(r.lex) < Ahead(l)
<1> DEFINE g == GetToken(l)
<1>0. ps.list \notin {"NUM", "STRING", "IDENT", "END"} /\ ps.expr # "END"
  BY DEF Openings
<1>1. ~g.err
  BY DEF TermAt, Failed, Result
<1>2. g \in LexerObjects /\ r = TermOf(g, ps, run) /\ g = GetToken(l)
  BY <1>1, TokensGoOn DEF TermAt
<1>3. /\ ClosingToken(ps.list) \in Closings /\ ClosingToken(ps.expr) \in Closings
      /\ \A m \in LexerObjects, close \in Closings : run[List(m, close, TRUE)].lex \in LexerObjects
  <2>1. \A close \in Closings : close \in Tokens
    BY TokensKnown DEF Closings
  <2>2. QED
    BY <2>1, ClosingExactly, CallsRight DEF Parsed, Results
<1>4. g.tok # "END" => Ahead(g) \in Nat /\ Ahead(l) \in Nat /\ Ahead(g) < Ahead(l)
  BY <1>1, <1>2, AheadRight DEF Ends
<1> HIDE DEF g
<1>5. CASE g.tok \in {"NUM", "STRING"}
  <2>1. r = Result(g, NumValue(g.num)) \/ r = Result(g, StringValue(g.str))
    BY <1>0, <1>2, <1>5 DEF TermOf
  <2>2. r.lex = g
    BY <2>1 DEF Result
  <2>3. QED
    BY <1>4, <1>5, <2>2
<1>6. CASE g.tok = "IDENT"
  <2>1. PICK h : h = GetToken(g)
    OBVIOUS
  <2>2. r = AfterIdent(h, g.str, ps, run)
    BY <1>0, <1>2, <1>6, <2>1 DEF TermOf
  <2>3. ~h.err /\ h \in LexerObjects
    <3>1. h.err => r.lex = h
      BY <2>2 DEF AfterIdent, Failed, Result
    <3>2. QED
      BY <1>2, <2>1, <3>1, TokensGoOn
  <2>4. CASE h.tok # ps.expr
    <3>1. r.lex = Putback(h)
      BY <2>2, <2>3, <2>4 DEF AfterIdent, BareIdent, Result
    <3>2. QED
      BY <1>2, <1>4, <1>6, <2>1, <3>1, AheadRight
  <2>5. CASE h.tok = ps.expr
    <3> DEFINE q == run[List(h, ClosingToken(ps.expr), TRUE)]
    <3>1. r = ExpressionOf(g.str, q)
      BY <2>2, <2>3, <2>5 DEF AfterIdent
    <3> HIDE DEF q
    <3>2. r.lex = q.lex
      BY <3>1 DEF ExpressionOf, Result
    <3>3. Ahead(q.lex) < Ahead(h) /\ q.lex \in LexerObjects
      BY <1>3, <2>3, <3>2 DEF TakesToken, q
    <3>4. ~Ends(h)
      BY <1>0, <2>3, <2>5 DEF Ends
    <3>5. Ahead(h) \in Nat /\ Ahead(h) < Ahead(g) /\ Ahead(q.lex) \in Nat
      BY <1>2, <2>1, <3>3, <3>4, AheadRight
    <3>6. QED
      BY <1>4, <1>6, <3>2, <3>3, <3>5
  <2>6. QED
    BY <2>4, <2>5
<1>7. CASE g.tok = ps.list
  <2> DEFINE q == run[List(g, ClosingToken(ps.list), TRUE)]
  <2>1. r = q
    BY <1>0, <1>2, <1>7 DEF TermOf
  <2>2. Ahead(q.lex) < Ahead(g) /\ q.lex \in LexerObjects
    BY <1>2, <1>3, <2>1 DEF TakesToken
  <2> HIDE DEF q
  <2>3. Ahead(q.lex) \in Nat
    BY <2>2, AheadRight
  <2>4. QED
    BY <1>0, <1>4, <1>7, <2>1, <2>2, <2>3
<1>8. CASE g.tok \notin {"NUM", "STRING", "IDENT", ps.list}
  <2>1. r = Failed(Throw(g))
    BY <1>2, <1>8 DEF TermOf
  <2>2. r.lex.err
    BY <1>2, <2>1, ThrowRight DEF Failed, Result
  <2>3. QED
    BY <2>2
<1>9. QED
  BY <1>5, <1>6, <1>7, <1>8

LEMMA ListTakes ==
  ASSUME NEW ps, NEW run \in Runs, TakesToken(run), NEW l \in LexerObjects,
         NEW close \in Closings, NEW first \in BOOLEAN,
         NEW r, r = ListAt(GetToken(l), List(l, close, first), ps, run), ~r.lex.err
  PROVE  Ahead(r.lex) < Ahead(l)
<1> DEFINE g == GetToken(l)
           c == List(l, close, first)
<1>1. c.close = close /\ c.first = first
  BY DEF List
<1> HIDE DEF c
<1>2. ~g.err
  BY DEF ListAt, Failed, Result
<1>3. g \in LexerObjects /\ g = GetToken(l) /\ close \in Tokens /\ close # "END"
  BY TokensGoOn, TokensKnown DEF Closings
<1> HIDE DEF g
<1>4. CASE g.tok = close
  <2>1. r.lex = g
    BY <1>1, <1>2, <1>4 DEF ListAt, Result, g, c
  <2>2. ~Ends(g)
    BY <1>2, <1>3, <1>4 DEF Ends
  <2>3. QED
    BY <1>3, <2>1, <2>2, AheadRight
<1>5. CASE g.tok # close
  <2> DEFINE e == ElementStart(g, ps, first)
             p == run[Term(e)]
             q == run[List(p.lex, close, FALSE)]
  <2>1. r = ListElement(e, close, run)
    BY <1>1, <1>2, <1>5 DEF ListAt, g, c
  <2> HIDE DEF e
  <2>2. ~e.err /\ r = ListGrown(p, close, run)
    BY <2>1 DEF ListElement, Failed, Result
  <2>3. ~p.lex.err /\ r = WithFirst(p.val, q)
    BY <2>2 DEF ListGrown
  <2>4. ~q.lex.err /\ r.lex = q.lex
    <3> HIDE DEF q, p
    <3>1. QED
      BY <2>3 DEF WithFirst, Result
  <2>5. e \in LexerObjects /\ Ahead(e) \in Nat /\ Ahead(e) <= Ahead(l)
    BY <1>2, <1>3, <2>2, StartAhead DEF e
  <2>6. p.lex \in LexerObjects /\ Ahead(p.lex) < Ahead(e)
    BY <2>3, <2>5, CallsRight DEF TakesToken, Parsed, Results
  <2>7. q.lex \in LexerObjects /\ Ahead(q.lex) < Ahead(p.lex)
    <3>1. Parsed(p.lex, q)
      BY <1>3, <2>6, CallsRight
    <3>2. QED
      BY <2>4, <2>6, <3>1 DEF TakesToken, Parsed, Results
  <2> HIDE DEF p, q
  <2>8. Ahead(p.lex) \in Nat /\ Ahead(q.lex) \in Nat /\ Ahead(l) \in Nat
    BY <2>6, <2>7, AheadRight
  <2>9. QED
    BY <2>4, <2>5, <2>6, <2>7, <2>8
<1>6. QED
  BY <1>4, <1>5

LEMMA CallsAre ==
  \A l \in LexerObjects :
    /\ Term(l) \in Calls /\ Term(l).close = "" /\ Term(l).lex = l
    /\ \A close \in Closings, first \in BOOLEAN :
         /\ List(l, close, first) \in Calls /\ List(l, close, first).close # ""
         /\ List(l, close, first).lex = l
<1>1. Closings \subseteq Tokens /\ "" \notin Closings
  BY TokensKnown DEF Closings
<1>2. QED
  BY <1>1 DEF Term, List, Calls

LEMMA CallsTake ==
  ASSUME NEW ps, ps.list \in Openings, ps.expr \in Openings
  PROVE  \A n \in Nat : TakesToken(Run(ps)[n])
<1> DEFINE R == Run(ps)
           S == {n \in Nat : TakesToken(R[n])}
<1>1. /\ \A n \in Nat : R[n] \in Runs
      /\ R[0] = [c \in Calls |-> Failed(Throw(c.lex))]
      /\ \A n \in Nat : R[n + 1] = [c \in Calls |-> Called(c, ps, R[n])]
  BY RunRight
<1> HIDE DEF R
<1>2. 0 \in S
  <2>1. \A c \in Calls : R[0][c].lex = Throw(c.lex)
    BY <1>1 DEF Failed, Result
  <2>2. \A c \in Calls : c.lex \in LexerObjects => R[0][c].lex.err
    BY <2>1, ThrowRight
  <2>3. TakesToken(R[0])
    BY <2>2, CallsAre DEF TakesToken
  <2>4. QED
    BY <2>3
<1>3. ASSUME NEW n \in Nat, n \in S PROVE n + 1 \in S
  <2> DEFINE run == R[n]
  <2>1. run \in Runs /\ TakesToken(run)
    BY <1>1, <1>3
  <2>2. \A c \in Calls : R[n + 1][c] = Called(c, ps, run)
    BY <1>1
  <2> HIDE DEF run
  <2>3. ASSUME NEW l \in LexerObjects, ~R[n + 1][Term(l)].lex.err
        PROVE  Ahead(R[n + 1][Term(l)].lex) < Ahead(l)
    <3> DEFINE c == Term(l)
    <3>1. c \in Calls /\ c.close = "" /\ c.lex = l
      BY CallsAre
    <3> HIDE DEF c
    <3>2. R[n + 1][c] = TermAt(GetToken(l), ps, run)
      BY <2>2, <3>1 DEF Called
    <3>3. QED
      BY <2>1, <2>3, <3>2, TermTakes DEF c
  <2>4. ASSUME NEW l \in LexerObjects, NEW close \in Closings, NEW first \in BOOLEAN,
               ~R[n + 1][List(l, close, first)].lex.err
        PROVE  Ahead(R[n + 1][List(l, close, first)].lex) < Ahead(l)
    <3> DEFINE c == List(l, close, first)
    <3>1. c \in Calls /\ c.close # "" /\ c.lex = l
      BY CallsAre
    <3> HIDE DEF c
    <3>2. R[n + 1][c] = ListAt(GetToken(l), c, ps, run)
      BY <2>2, <3>1 DEF Called
    <3>3. QED
      BY <2>1, <2>4, <3>2, ListTakes DEF c
  <2>5. TakesToken(R[n + 1])
    BY <2>3, <2>4 DEF TakesToken
  <2>6. QED
    BY <2>5
<1> HIDE DEF S
<1>4. Nat \subseteq S
  BY <1>2, <1>3, SetInduction
<1>5. QED
  BY <1>4 DEF S, R

\* The calls a call makes have fewer tokens ahead, or are an element's; f and h
\* agree on those of a value, and of a list up to close.
AgreeInside(f, h, l) ==
  \A m \in LexerObjects, close \in Closings :
    Ahead(m) < Ahead(l) => f[List(m, close, TRUE)] = h[List(m, close, TRUE)]
AgreeAfter(f, h, l, close) ==
  \A m \in LexerObjects :
    /\ Ahead(m) <= Ahead(l) => f[Term(m)] = h[Term(m)]
    /\ Ahead(m) < Ahead(l) => f[List(m, close, FALSE)] = h[List(m, close, FALSE)]

LEMMA TermAhead ==
  ASSUME NEW ps, ps.list \in Openings, ps.expr \in Openings, NEW f, NEW h,
         NEW l \in LexerObjects, AgreeInside(f, h, l)
  PROVE  TermAt(GetToken(l), ps, f) = TermAt(GetToken(l), ps, h)
<1> DEFINE g == GetToken(l)
<1>0. ps.list \notin {"NUM", "STRING", "IDENT", "END"} /\ ps.expr # "END"
  BY DEF Openings
<1>1. g \in LexerObjects /\ g = GetToken(l)
  BY TokensGoOn
<1>2. ClosingToken(ps.list) \in Closings /\ ClosingToken(ps.expr) \in Closings
  BY ClosingExactly
<1>3. ~g.err /\ g.tok # "END" => Ahead(g) \in Nat /\ Ahead(l) \in Nat /\ Ahead(g) < Ahead(l)
  BY <1>1, AheadRight DEF Ends
<1> HIDE DEF g
<1>4. ASSUME ~g.err, g.tok = ps.list PROVE TermOf(g, ps, f) = TermOf(g, ps, h)
  <2>1. f[List(g, ClosingToken(ps.list), TRUE)] = h[List(g, ClosingToken(ps.list), TRUE)]
    BY <1>0, <1>1, <1>2, <1>3, <1>4 DEF AgreeInside
  <2>2. /\ TermOf(g, ps, f) = f[List(g, ClosingToken(ps.list), TRUE)]
        /\ TermOf(g, ps, h) = h[List(g, ClosingToken(ps.list), TRUE)]
    BY <1>0, <1>4 DEF TermOf
  <2>3. QED
    BY <2>1, <2>2
<1>5. ASSUME ~g.err, g.tok = "IDENT" PROVE TermOf(g, ps, f) = TermOf(g, ps, h)
  <2>1. PICK k : k = GetToken(g)
    OBVIOUS
  <2>2. /\ TermOf(g, ps, f) = AfterIdent(k, g.str, ps, f)
        /\ TermOf(g, ps, h) = AfterIdent(k, g.str, ps, h)
    BY <1>0, <1>5, <2>1 DEF TermOf
  <2>3. CASE k.err
    <3>1. /\ AfterIdent(k, g.str, ps, f) = Failed(k)
          /\ AfterIdent(k, g.str, ps, h) = Failed(k)
      BY <2>3 DEF AfterIdent
    <3>2. QED
      BY <2>2, <3>1
  <2>6. CASE ~k.err /\ k.tok # ps.expr
    <3>1. /\ AfterIdent(k, g.str, ps, f) = BareIdent(k, g.str)
          /\ AfterIdent(k, g.str, ps, h) = BareIdent(k, g.str)
      BY <2>6 DEF AfterIdent
    <3>2. QED
      BY <2>2, <3>1
  <2>4. CASE ~k.err /\ k.tok = ps.expr
    <3>1. ~Ends(k)
      BY <1>0, <2>4 DEF Ends
    <3>2. k \in LexerObjects /\ Ahead(k) \in Nat /\ Ahead(k) < Ahead(g)
      BY <1>1, <2>1, <3>1, TokensGoOn, AheadRight
    <3>3. Ahead(k) < Ahead(l)
      BY <1>3, <1>5, <3>2
    <3>4. f[List(k, ClosingToken(ps.expr), TRUE)] = h[List(k, ClosingToken(ps.expr), TRUE)]
      BY <1>2, <3>2, <3>3 DEF AgreeInside
    <3>5. QED
      BY <2>2, <2>4, <3>4 DEF AfterIdent
  <2>5. QED
    BY <2>3, <2>4, <2>6
<1>6. ASSUME g.tok \notin {"IDENT", ps.list} PROVE TermOf(g, ps, f) = TermOf(g, ps, h)
  BY <1>0, <1>6 DEF TermOf
<1>7. ~g.err => TermOf(g, ps, f) = TermOf(g, ps, h)
  BY <1>4, <1>5, <1>6
<1>8. TermAt(g, ps, f) = TermAt(g, ps, h)
  BY <1>7 DEF TermAt
<1>9. QED
  BY <1>8 DEF g

LEMMA ListAhead ==
  ASSUME NEW ps, NEW f \in Runs, NEW h, TakesToken(f), NEW l \in LexerObjects,
         NEW close \in Closings, NEW first \in BOOLEAN, AgreeAfter(f, h, l, close)
  PROVE  ListAt(GetToken(l), List(l, close, first), ps, f)
           = ListAt(GetToken(l), List(l, close, first), ps, h)
<1> DEFINE g == GetToken(l)
           e == ElementStart(g, ps, first)
           p == f[Term(e)]
           c == List(l, close, first)
<1>1. c.close = close /\ c.first = first
  BY DEF List
<1>2. ASSUME ~g.err, ~e.err PROVE ListElement(e, close, f) = ListElement(e, close, h)
  <2>1. e \in LexerObjects /\ Ahead(e) \in Nat /\ Ahead(e) <= Ahead(l)
    BY <1>2, StartAhead
  <2> HIDE DEF e
  <2>2. p = h[Term(e)]
    BY <2>1 DEF AgreeAfter
  <2>3. ListGrown(p, close, f) = ListGrown(p, close, h)
    <3>1. CASE p.lex.err
      <4> HIDE DEF p
      <4>1. QED
        BY <3>1 DEF ListGrown
    <3>2. CASE ~p.lex.err
      <4>1. p.lex \in LexerObjects /\ Ahead(p.lex) < Ahead(e)
        BY <2>1, <3>2, CallsRight DEF TakesToken, Parsed, Results
      <4> HIDE DEF p
      <4>2. Ahead(p.lex) \in Nat /\ Ahead(l) \in Nat
        BY <4>1, AheadRight
      <4>3. Ahead(p.lex) < Ahead(l)
        BY <2>1, <4>1, <4>2
      <4>4. f[List(p.lex, close, FALSE)] = h[List(p.lex, close, FALSE)]
        BY <4>1, <4>3 DEF AgreeAfter
      <4>5. QED
        BY <4>4 DEF ListGrown
    <3>3. QED
      BY <3>1, <3>2
  <2>4. QED
    BY <2>2, <2>3 DEF ListElement
<1>3. e.err => ListElement(e, close, f) = ListElement(e, close, h)
  <2> HIDE DEF e
  <2>1. QED
    BY DEF ListElement
<1>4. ~g.err => ListElement(e, close, f) = ListElement(e, close, h)
  BY <1>2, <1>3
<1> HIDE DEF g, c
<1>5. ListAt(g, c, ps, f) = ListAt(g, c, ps, h)
  BY <1>1, <1>4 DEF ListAt
<1>6. QED
  BY <1>5 DEF g, c

\* How deep the calls may get from here.
Settled(f, h, n) ==
  \A l \in LexerObjects :
    /\ 2 * Ahead(l) - 1 <= n => f[Term(l)] = h[Term(l)]
    /\ \A close \in Closings, first \in BOOLEAN :
         2 * Ahead(l) <= n => f[List(l, close, first)] = h[List(l, close, first)]

LEMMA RunSettles ==
  ASSUME NEW ps, ps.list \in Openings, ps.expr \in Openings
  PROVE  \A n \in Nat : \A m \in Nat : n <= m => Settled(Run(ps)[m], Run(ps)[n], n)
<1> DEFINE R == Run(ps)
           S == {n \in Nat : \A m \in Nat : n <= m => Settled(R[m], R[n], n)}
<1>1. /\ \A n \in Nat : R[n] \in Runs
      /\ \A n \in Nat : R[n + 1] = [c \in Calls |-> Called(c, ps, R[n])]
  BY RunRight
<1>2. \A n \in Nat : TakesToken(R[n])
  BY CallsTake
<1>3. \A l \in LexerObjects : Ahead(l) \in Nat /\ Ahead(l) >= 1
  BY AheadRight
<1> HIDE DEF R
<1>4. 0 \in S
  <2>1. ASSUME NEW m \in Nat PROVE Settled(R[m], R[0], 0)
    BY <1>3 DEF Settled
  <2>2. QED
    BY <2>1
<1>5. ASSUME NEW n \in Nat, n \in S PROVE n + 1 \in S
  <2>0. n + 1 \in Nat
    OBVIOUS
  <2> SUFFICES ASSUME NEW m \in Nat, n + 1 <= m PROVE Settled(R[m], R[n + 1], n + 1)
    BY <2>0
  <2>1. PICK k \in Nat : k + 1 = m /\ n <= k
    <3>1. m - 1 \in Nat /\ (m - 1) + 1 = m /\ n <= m - 1
      OBVIOUS
    <3>2. QED
      BY <3>1
  <2> DEFINE f == R[k]
             h == R[n]
  <2>2. f \in Runs /\ TakesToken(f) /\ Settled(f, h, n)
    BY <1>1, <1>2, <1>5, <2>1
  <2>3. \A c \in Calls : R[m][c] = Called(c, ps, f) /\ R[n + 1][c] = Called(c, ps, h)
    BY <1>1, <2>1
  <2> HIDE DEF f, h
  <2>4. ASSUME NEW l \in LexerObjects, 2 * Ahead(l) - 1 <= n + 1
        PROVE  R[m][Term(l)] = R[n + 1][Term(l)]
    <3>1. ASSUME NEW r \in LexerObjects, NEW close \in Closings, Ahead(r) < Ahead(l)
          PROVE  f[List(r, close, TRUE)] = h[List(r, close, TRUE)]
      <4>1. 2 * Ahead(r) <= n
        BY <1>3, <2>4, <3>1
      <4>2. QED
        BY <2>2, <4>1 DEF Settled
    <3>2. AgreeInside(f, h, l)
      BY <3>1 DEF AgreeInside
    <3>3. TermAt(GetToken(l), ps, f) = TermAt(GetToken(l), ps, h)
      BY <3>2, TermAhead
    <3> DEFINE c == Term(l)
    <3>4. c \in Calls /\ c.close = "" /\ c.lex = l
      BY CallsAre
    <3> HIDE DEF c
    <3>5. R[m][c] = TermAt(GetToken(l), ps, f) /\ R[n + 1][c] = TermAt(GetToken(l), ps, h)
      BY <2>3, <3>4 DEF Called
    <3>6. QED
      BY <3>3, <3>5 DEF c
  <2>5. ASSUME NEW l \in LexerObjects, NEW close \in Closings, NEW first \in BOOLEAN,
               2 * Ahead(l) <= n + 1
        PROVE  R[m][List(l, close, first)] = R[n + 1][List(l, close, first)]
    <3>1. ASSUME NEW r \in LexerObjects, Ahead(r) <= Ahead(l) PROVE f[Term(r)] = h[Term(r)]
      <4>1. 2 * Ahead(r) - 1 <= n
        BY <1>3, <2>5, <3>1
      <4>2. QED
        BY <2>2, <4>1 DEF Settled
    <3>2. ASSUME NEW r \in LexerObjects, Ahead(r) < Ahead(l)
          PROVE  f[List(r, close, FALSE)] = h[List(r, close, FALSE)]
      <4>1. 2 * Ahead(r) <= n
        BY <1>3, <2>5, <3>2
      <4>2. QED
        BY <2>2, <4>1 DEF Settled
    <3>3. AgreeAfter(f, h, l, close)
      BY <3>1, <3>2 DEF AgreeAfter
    <3> DEFINE c == List(l, close, first)
    <3>4. ListAt(GetToken(l), c, ps, f) = ListAt(GetToken(l), c, ps, h)
      BY <2>2, <3>3, ListAhead
    <3>5. c \in Calls /\ c.close # "" /\ c.lex = l
      BY CallsAre
    <3> HIDE DEF c
    <3>6. R[m][c] = ListAt(GetToken(l), c, ps, f) /\ R[n + 1][c] = ListAt(GetToken(l), c, ps, h)
      BY <2>3, <3>5 DEF Called
    <3>7. QED
      BY <3>4, <3>6 DEF c
  <2>6. QED
    BY <2>4, <2>5 DEF Settled
<1> HIDE DEF S
<1>6. Nat \subseteq S
  BY <1>4, <1>5, SetInduction
<1>7. QED
  BY <1>6 DEF S, R

\* The loops of the lexer and the calls of the parser are bounded in the model
\* and not in the code.  No bound is met: a string and the search for a token
\* go on with the next turn of the same loop, and a value, from where the
\* lexer has no token put back, is what calls nested to any greater depth
\* find.  So every exception of the model is one of the code.
THEOREM NothingIsCutShort ==
  ASSUME NEW l \in LexerObjects, NEW g \in Grammars
  PROVE  /\ Quoted(l) = QuotedFrom(l, ReadQuoted)
         /\ Scan(l) = LexToken(SkipSpace(l), ReadToken)
         /\ ~l.hold => \A n \in Nat : n >= 2 * Len(l.text) + 2 =>
              Run(g.parser)[n][Term(l)] = ParseTerm(l, g.parser)
<1>1. Quoted(l) = QuotedFrom(l, ReadQuoted) /\ Scan(l) = LexToken(SkipSpace(l), ReadToken)
  BY QuotedEnds, ScanEnds
<1>2. ASSUME ~l.hold, NEW n \in Nat, n >= 2 * Len(l.text) + 2
      PROVE  Run(g.parser)[n][Term(l)] = ParseTerm(l, g.parser)
  <2> DEFINE d == 2 * Len(l.text) + 2
             ps == g.parser
  <2>1. Len(l.text) \in Nat /\ l.pos \in Nat /\ d \in Nat /\ d <= n
    BY <1>2, LexerTypes
  <2>2. ps.list \in Openings /\ ps.expr \in Openings
    BY GrammarsAssumption DEF Openings
  <2>3. Left(l) <= Len(l.text) /\ Left(l) \in Nat
    BY <1>2, <2>1, LeftRight DEF Left
  <2>4. 2 * Ahead(l) - 1 <= d
    <3>1. Ahead(l) \in Nat
      BY AheadRight
    <3>2. Ahead(l) <= Left(l) + 1
      BY AheadBound
    <3>3. QED
      BY <2>1, <2>3, <3>1, <3>2
  <2>5. ParseTerm(l, ps) = Run(ps)[d][Term(l)]
    BY DEF ParseTerm
  <2> HIDE DEF d, ps
  <2>6. Settled(Run(ps)[n], Run(ps)[d], d)
    BY <2>1, <2>2, RunSettles
  <2>7. Run(ps)[n][Term(l)] = Run(ps)[d][Term(l)]
    BY <2>4, <2>6 DEF Settled
  <2>8. QED
    BY <2>5, <2>7 DEF ps
<1>3. QED
  BY <1>1, <1>2

-----------------------------------------------------------------------------
(* Comments are white space *)

Quotes == {"'", "\""}
ModeNames == {"code", "line", "open", "block", "close", "string", "escape"}

LEMMA NextModeRight ==
  ASSUME NEW t, NEW q, NEW m \in ModeNames, NEW k
  PROVE  NextMode(t, q, m, k) \in ModeNames
<1> DEFINE c == t[k]
           n == IF k < Len(t) THEN t[k + 1] ELSE EOF
<1>1. CASE m = "code"
  <2>1. NextMode(t, q, m, k) = CASE c = "/" /\ n = "/" -> "line"
                                 [] c = "/" /\ n = "*" -> "open"
                                 [] c = q              -> "string"
                                 [] OTHER              -> "code"
    BY <1>1 DEF NextMode
  <2> HIDE DEF c, n
  <2>2. CASE c = "/" /\ n = "/"
    BY <2>1, <2>2 DEF ModeNames
  <2>3. CASE c = "/" /\ n = "*"
    BY <2>1, <2>3 DEF ModeNames
  <2>4. CASE c = q
    BY <2>1, <2>4 DEF ModeNames
  <2>5. QED
    BY <2>1, <2>2, <2>3, <2>4 DEF ModeNames
<1>2. CASE m # "code"
  BY <1>2 DEF NextMode, ModeNames
<1>3. QED
  BY <1>1, <1>2

LEMMA ModesAre ==
  ASSUME NEW t \in Seq(Chars), NEW q
  PROVE  /\ Modes(t, q)[1] = "code"
         /\ \A k \in 1..Len(t) : Modes(t, q)[k + 1] = NextMode(t, q, Modes(t, q)[k], k)
<1> DEFINE N == Len(t)
           Body(w) == [k \in 1..N + 1 |-> IF k = 1 THEN "code" ELSE NextMode(t, q, w[k - 1], k - 1)]
           step == [n \in Nat |-> [m \in ModeNames |-> NextMode(t, q, m, n + 1)]]
           mode == CHOOSE w : w = Body(w)
<1>1. N \in Nat
  BY LenProperties
<1>2. Modes(t, q) = mode
  BY DEF Modes
<1>3. StepsIn(ModeNames, step)
  BY NextModeRight DEF StepsIn
<1>4. "code" \in ModeNames
  BY DEF ModeNames
<1>5. PICK f : Follows(f, ModeNames, "code", step)
  <2> HIDE DEF step
  <2>1. QED
    BY <1>3, <1>4, Recursion
<1>6. /\ f[0] = "code" /\ \A n \in Nat : f[n + 1] = NextMode(t, q, f[n], n + 1)
  <2>1. /\ f \in [Nat -> ModeNames] /\ f[0] = "code" /\ \A n \in Nat : f[n + 1] = step[n][f[n]]
    BY <1>5 DEF Follows
  <2>2. \A n \in Nat : f[n] \in ModeNames
    BY <2>1
  <2>3. QED
    BY <2>1, <2>2
<1> DEFINE g == [k \in 1..N + 1 |-> f[k - 1]]
<1>7. g = Body(g)
  <2>1. ASSUME NEW k \in 1..N + 1
        PROVE  f[k - 1] = IF k = 1 THEN "code" ELSE NextMode(t, q, g[k - 1], k - 1)
    <3>1. CASE k = 1
      BY <1>6, <3>1
    <3>2. CASE k # 1
      <4>1. k - 2 \in Nat /\ (k - 2) + 1 = k - 1 /\ k - 1 \in 1..N + 1 /\ (k - 1) - 1 = k - 2
        BY <1>1, <3>2
      <4>2. f[(k - 2) + 1] = NextMode(t, q, f[k - 2], (k - 2) + 1)
        BY <1>6, <4>1
      <4>3. g[k - 1] = f[k - 2]
        BY <4>1
      <4> HIDE DEF g
      <4>4. QED
        BY <3>2, <4>1, <4>2, <4>3
    <3>3. QED
      BY <3>1, <3>2
  <2>2. QED
    BY <2>1
<1>8. mode = Body(mode)
  <2> HIDE DEF Body, g
  <2>1. QED
    BY <1>7
<1> HIDE DEF mode, g
<1>9. mode[1] = "code"
  BY <1>1, <1>8
<1>10. ASSUME NEW k \in 1..N PROVE mode[k + 1] = NextMode(t, q, mode[k], k)
  <2>1. k + 1 \in 1..N + 1 /\ k + 1 # 1 /\ (k + 1) - 1 = k
    BY <1>1
  <2>2. QED
    BY <1>8, <2>1
<1>11. QED
  BY <1>2, <1>9, <1>10

\* A mode goes on as long as no character ends it.
LEMMA ModeStays ==
  ASSUME NEW t \in Seq(Chars), NEW q, NEW a \in Nat, NEW c \in Int, 1 <= a, c <= Len(t),
         NEW m, Modes(t, q)[a] = m,
         \A i \in a..c : NextMode(t, q, m, i) = m
  PROVE  \A i \in a..c + 1 : Modes(t, q)[i] = m
<1> DEFINE mode == Modes(t, q)
           S == {n \in Nat : a + n <= c + 1 => mode[a + n] = m}
<1>1. Len(t) \in Nat /\ \A k \in 1..Len(t) : mode[k + 1] = NextMode(t, q, mode[k], k)
  BY ModesAre, LenProperties
<1> HIDE DEF mode
<1>2. 0 \in S
  BY DEF mode
<1>3. ASSUME NEW n \in Nat, n \in S PROVE n + 1 \in S
  <2>0. n + 1 \in Nat
    OBVIOUS
  <2> SUFFICES ASSUME a + (n + 1) <= c + 1 PROVE mode[a + (n + 1)] = m
    BY <2>0
  <2>1. a + n \in 1..Len(t) /\ a + n \in a..c /\ (a + n) + 1 = a + (n + 1) /\ a + n <= c + 1
    BY <1>1
  <2>2. mode[a + n] = m
    BY <1>3, <2>1
  <2>3. mode[(a + n) + 1] = NextMode(t, q, m, a + n)
    BY <1>1, <2>1, <2>2
  <2>4. QED
    BY <2>1, <2>3
<1> HIDE DEF S
<1>4. Nat \subseteq S
  BY <1>2, <1>3, SetInduction
<1>5. ASSUME NEW i \in a..c + 1 PROVE mode[i] = m
  <2>1. i - a \in Nat /\ a + (i - a) = i /\ a + (i - a) <= c + 1
    OBVIOUS
  <2>2. i - a \in S
    BY <1>4, <2>1
  <2>3. a + (i - a) <= c + 1 => mode[a + (i - a)] = m
    BY <2>2 DEF S
  <2>4. QED
    BY <2>1, <2>3
<1>6. QED
  BY <1>5 DEF mode

\* What comes next, by the mode.
LEMMA NextModes ==
  ASSUME NEW t, NEW q \in Quotes, NEW k
  PROVE  /\ t[k] \notin {"/", q} => NextMode(t, q, "code", k) = "code"
         /\ t[k] = "\n" => NextMode(t, q, "line", k) = "code"
         /\ t[k] # "\n" => NextMode(t, q, "line", k) = "line"
         /\ NextMode(t, q, "open", k) = "block" /\ NextMode(t, q, "close", k) = "code"
         /\ t[k] = "*" /\ k < Len(t) /\ t[k + 1] = "/" => NextMode(t, q, "block", k) = "close"
         /\ ~(t[k] = "*" /\ k < Len(t) /\ t[k + 1] = "/") => NextMode(t, q, "block", k) = "block"
         /\ t[k] = "\\" => NextMode(t, q, "string", k) = "escape"
         /\ t[k] = q => NextMode(t, q, "string", k) = "code"
         /\ t[k] \notin {q, "\\"} => NextMode(t, q, "string", k) = "string"
         /\ NextMode(t, q, "escape", k) = "string"
<1>1. t[k] \notin {"/", q} => NextMode(t, q, "code", k) = "code"
  BY DEF NextMode
<1>2. /\ t[k] = "\n" => NextMode(t, q, "line", k) = "code"
      /\ t[k] # "\n" => NextMode(t, q, "line", k) = "line"
      /\ NextMode(t, q, "open", k) = "block" /\ NextMode(t, q, "close", k) = "code"
      /\ NextMode(t, q, "escape", k) = "string"
  BY DEF NextMode
<1>3. /\ t[k] = "*" /\ k < Len(t) /\ t[k + 1] = "/" => NextMode(t, q, "block", k) = "close"
      /\ ~(t[k] = "*" /\ k < Len(t) /\ t[k + 1] = "/") => NextMode(t, q, "block", k) = "block"
  BY DEF NextMode, EOF
<1> DEFINE c == t[k]
<1>4. NextMode(t, q, "string", k) = CASE c = "\\" -> "escape"
                                      [] c = q    -> "code"
                                      [] OTHER    -> "string"
  BY DEF NextMode
<1> HIDE DEF c
<1>5. /\ c = "\\" => NextMode(t, q, "string", k) = "escape"
      /\ c = q => NextMode(t, q, "string", k) = "code"
      /\ c \notin {q, "\\"} => NextMode(t, q, "string", k) = "string"
  <2>0. q # "\\"
    BY DEF Quotes
  <2>1. CASE c = "\\"
    BY <1>4, <2>0, <2>1
  <2>2. CASE c = q
    BY <1>4, <2>0, <2>2
  <2>3. CASE c \notin {q, "\\"}
    BY <1>4, <2>3
  <2>4. QED
    BY <2>1, <2>2, <2>3
<1>6. QED
  BY <1>1, <1>2, <1>3, <1>5 DEF c

\* A slash, by the character behind it.
LEMMA SlashModes ==
  ASSUME NEW t, NEW q, q # "/", NEW k, t[k] = "/"
  PROVE  /\ k < Len(t) /\ t[k + 1] = "/" => NextMode(t, q, "code", k) = "line"
         /\ k < Len(t) /\ t[k + 1] = "*" => NextMode(t, q, "code", k) = "open"
         /\ ~(k < Len(t) /\ t[k + 1] \in {"/", "*"}) => NextMode(t, q, "code", k) = "code"
<1> DEFINE n == IF k < Len(t) THEN t[k + 1] ELSE EOF
<1>1. NextMode(t, q, "code", k) = CASE t[k] = "/" /\ n = "/" -> "line"
                                    [] t[k] = "/" /\ n = "*" -> "open"
                                    [] t[k] = q              -> "string"
                                    [] OTHER                 -> "code"
  BY DEF NextMode
<1>2. k < Len(t) => n = t[k + 1]
  OBVIOUS
<1>3. ~(k < Len(t)) => n = EOF
  OBVIOUS
<1> HIDE DEF n
<1>4. n = "/" => NextMode(t, q, "code", k) = "line"
  BY <1>1
<1>5. n = "*" => NextMode(t, q, "code", k) = "open"
  BY <1>1
<1>6. n \notin {"/", "*"} => NextMode(t, q, "code", k) = "code"
  BY <1>1
<1>7. QED
  BY <1>2, <1>3, <1>4, <1>5, <1>6 DEF EOF

LEMMA BlankedAt ==
  ASSUME NEW t \in Seq(Chars), NEW q, NEW k \in 1..Len(t)
  PROVE  /\ ~Commented(Modes(t, q), k) => Blanked(t, q)[k] = t[k]
         /\ Commented(Modes(t, q), k) => Blanked(t, q)[k] \in Space
<1>1. DOMAIN t = 1..Len(t)
  BY LenProperties
<1>2. Blanked(t, q)[k] = IF t[k] # "\n" /\ Commented(Modes(t, q), k) THEN " " ELSE t[k]
  BY <1>1 DEF Blanked
<1>3. QED
  BY <1>2 DEF Space

LEMMA BlankedText ==
  ASSUME NEW t \in Seq(Chars), NEW q
  PROVE  /\ Blanked(t, q) \in Seq(Chars) /\ Len(Blanked(t, q)) = Len(t)
         /\ \A k \in 1..Len(t) : Blanked(t, q)[k] = t[k] \/ Blanked(t, q)[k] = " "
<1> DEFINE b == Blanked(t, q)
           B(k) == IF t[k] # "\n" /\ Commented(Modes(t, q), k) THEN " " ELSE t[k]
<1>1. DOMAIN t = 1..Len(t) /\ Len(t) \in Nat
  BY LenProperties
<1>2. b = [k \in 1..Len(t) |-> B(k)]
  BY <1>1 DEF Blanked
<1>3. \A k \in 1..Len(t) : t[k] \in Chars
  BY ElementOfSeq
<1>4. " " \in Chars
  BY DEF Chars, Space
<1>5. \A k \in 1..Len(t) : B(k) \in Chars /\ (B(k) = t[k] \/ B(k) = " ")
  BY <1>3, <1>4
<1> HIDE DEF B, b
<1>6. b \in Seq(Chars) /\ Len(b) = Len(t)
  <2>1. b \in [1..Len(t) -> Chars]
    BY <1>2, <1>5
  <2>2. QED
    BY <1>1, <1>2, <2>1
<1>7. \A k \in 1..Len(t) : b[k] = B(k)
  BY <1>2
<1>8. QED
  BY <1>5, <1>6, <1>7 DEF b

\* The lexer l with b for its text.
Twin(l, b) == [l EXCEPT !.text = b]

LEMMA TwinRight ==
  ASSUME NEW l \in LexerObjects, NEW b \in Seq(Chars), Len(b) = Len(l.text)
  PROVE  /\ Twin(l, b) \in LexerObjects /\ Twin(l, b).text = b /\ Twin(l, b).pos = l.pos
         /\ Twin(l, b).style = l.style /\ Twin(l, b).line = l.line /\ Twin(l, b).hold = l.hold
         /\ Twin(l, b).err = l.err /\ Twin(l, b).tok = l.tok
         /\ QuoteChar(Twin(l, b)) = QuoteChar(l) /\ TokenOf(Twin(l, b)) = TokenOf(l)
<1> DEFINE m == Twin(l, b)
<1>1. /\ m.text = b /\ m.pos = l.pos /\ m.style = l.style /\ m.line = l.line
      /\ m.hold = l.hold /\ m.err = l.err /\ m.tok = l.tok /\ m.num = l.num /\ m.str = l.str
  BY DEF Twin, LexerObjects, LexerFields
<1>2. m \in LexerObjects
  BY DEF Twin, LexerObjects, LexerFields
<1> HIDE DEF m
<1>3. QuoteChar(m) = QuoteChar(l) /\ TokenOf(m) = TokenOf(l)
  BY <1>1 DEF QuoteChar, TokenOf
<1>4. QED
  BY <1>1, <1>2, <1>3 DEF m

LEMMA ThrowTwin ==
  ASSUME NEW l \in LexerObjects, NEW b
  PROVE  Throw(Twin(l, b)) = Twin(Throw(l), b)
BY DEF Twin, Throw, LexerObjects, LexerFields

LEMMA ReturnTwin ==
  ASSUME NEW l \in LexerObjects, NEW b, NEW k
  PROVE  Return(Twin(l, b), k) = Twin(Return(l, k), b)
BY DEF Twin, Return, LexerObjects, LexerFields

LEMMA TakeTwin ==
  ASSUME NEW l \in LexerObjects, NEW b, NEW k, NEW x
  PROVE  Take(Twin(l, b), k, x) = Twin(Take(l, k, x), b)
BY DEF Twin, Take, LexerObjects, LexerFields

LEMMA NewlinesSame ==
  ASSUME NEW t, NEW b, NEW i \in Int, NEW j \in Int,
         \A k \in i..j : b[k] = "\n" <=> t[k] = "\n"
  PROVE  Newlines(b, i, j) = Newlines(t, i, j)
<1>1. {k \in i..j : b[k] = "\n"} = {k \in i..j : t[k] = "\n"}
  OBVIOUS
<1>2. QED
  BY <1>1 DEF Newlines

\* b has the ends of lines of t.
SameLines(b, t) ==
  /\ b \in Seq(Chars) /\ t \in Seq(Chars) /\ Len(b) = Len(t)
  /\ \A k \in 1..Len(t) : b[k] = "\n" <=> t[k] = "\n"

LEMMA SkipToTwin ==
  ASSUME NEW l \in LexerObjects, NEW b, SameLines(b, l.text),
         NEW k \in l.pos + 1..Len(l.text) + 1
  PROVE  SkipTo(Twin(l, b), k) = Twin(SkipTo(l, k), b)
<1> DEFINE n == Newlines(l.text, l.pos + 1, k - 1)
           m == Twin(l, b)
<1>1. l.pos \in Nat /\ Len(l.text) \in Nat
  BY LexerTypes
<1>2. \A i \in l.pos + 1..k - 1 : b[i] = "\n" <=> l.text[i] = "\n"
  BY <1>1 DEF SameLines
<1>3. Newlines(b, l.pos + 1, k - 1) = n
  BY <1>1, <1>2, NewlinesSame
<1>4. m.text = b /\ m.pos = l.pos
  BY TwinRight DEF SameLines
<1> HIDE DEF m, n
<1>5. SkipTo(m, k) = [m EXCEPT !.pos = k - 1, !.line = @ + n]
  BY <1>3, <1>4 DEF SkipTo
<1>6. SkipTo(l, k) = [l EXCEPT !.pos = k - 1, !.line = @ + n]
  BY DEF SkipTo, n
<1>7. [Twin(l, b) EXCEPT !.pos = k - 1, !.line = @ + n]
        = Twin([l EXCEPT !.pos = k - 1, !.line = @ + n], b)
  BY DEF Twin, LexerObjects, LexerFields
<1>8. SkipTo(m, k) = Twin(SkipTo(l, k), b)
  BY <1>5, <1>6, <1>7 DEF m
<1>9. QED
  BY <1>8 DEF m

\* The first place outside of S, and how to know it.
LEMMA FirstOutsideStops ==
  ASSUME NEW t \in Seq(Chars), NEW k \in Nat, k <= Len(t) + 1, NEW S
  PROVE  FirstOutside(t, k, S) <= Len(t) => t[FirstOutside(t, k, S)] \notin S
<1> DEFINE T == {i \in k..Len(t) : t[i] \notin S}
<1>1. T \subseteq k..Len(t) /\ \A i \in T : t[i] \notin S
  OBVIOUS
<1>2. FirstOutside(t, k, S) = FirstOf(t, T)
  BY DEF FirstOutside
<1> HIDE DEF T
<1>3. FirstOf(t, T) <= Len(t) => FirstOf(t, T) \in T
  BY <1>1, FirstOfPlaces
<1>4. QED
  BY <1>1, <1>2, <1>3

LEMMA FirstOutsideIs ==
  ASSUME NEW t \in Seq(Chars), NEW k \in Nat, NEW S, NEW e \in k..Len(t) + 1,
         \A i \in k..e - 1 : t[i] \in S, e <= Len(t) => t[e] \notin S
  PROVE  FirstOutside(t, k, S) = e
<1> DEFINE f == FirstOutside(t, k, S)
<1>1. Len(t) \in Nat
  BY LenProperties
<1>2. k <= Len(t) + 1
  BY <1>1
<1>3. f \in k..Len(t) + 1 /\ \A i \in k..f - 1 : t[i] \in S
  BY <1>2, FirstOutsideRight
<1>4. f <= Len(t) => t[f] \notin S
  BY <1>2, FirstOutsideStops
<1> HIDE DEF f
<1>5. ~(f < e)
  <2>1. f < e => f \in k..e - 1 /\ f <= Len(t)
    BY <1>1, <1>3
  <2>2. QED
    BY <1>4, <2>1
<1>6. ~(e < f)
  <2>1. e < f => e \in k..f - 1 /\ e <= Len(t)
    BY <1>1, <1>3
  <2>2. QED
    BY <1>3, <2>1
<1>7. f = e
  BY <1>1, <1>3, <1>5, <1>6
<1>8. QED
  BY <1>7 DEF f

LEMMA FirstInIsFirst ==
  ASSUME NEW t \in Seq(Chars), NEW k \in Nat, k <= Len(t) + 1, NEW S
  PROVE  \A i \in k..FirstIn(t, k, S) - 1 : t[i] \notin S
<1> DEFINE T == {i \in k..Len(t) : t[i] \in S}
           e == FirstIn(t, k, S)
<1>1. T \subseteq k..Len(t)
  OBVIOUS
<1>2. e = FirstOf(t, T)
  BY DEF FirstIn
<1>3. \A i \in k..Len(t) : i \notin T => t[i] \notin S
  OBVIOUS
<1> HIDE DEF T, e
<1>4. e \in k..Len(t) + 1 /\ \A i \in T : e <= i
  BY <1>1, <1>2, FirstOfPlaces
<1>5. Len(t) \in Nat
  BY LenProperties
<1>6. \A i \in k..e - 1 : i \in k..Len(t) /\ ~(e <= i)
  BY <1>4, <1>5
<1>7. QED
  BY <1>3, <1>4, <1>6 DEF e

\* Characters that begin neither a comment nor a string are code and stay.
LEMMA PlainAhead ==
  ASSUME NEW t \in Seq(Chars), NEW q \in Quotes, NEW a \in Nat, NEW c \in Int,
         1 <= a, c <= Len(t), Modes(t, q)[a] = "code",
         \A i \in a..c : t[i] \notin {"/", q}
  PROVE  /\ \A i \in a..c + 1 : Modes(t, q)[i] = "code"
         /\ \A i \in a..c : Blanked(t, q)[i] = t[i]
<1>1. ASSUME NEW i \in a..c PROVE NextMode(t, q, "code", i) = "code"
  <2>1. t[i] \notin {"/", q}
    OBVIOUS
  <2>2. QED
    BY <2>1, NextModes
<1>2. \A i \in a..c + 1 : Modes(t, q)[i] = "code"
  BY <1>1, ModeStays
<1>3. ASSUME NEW i \in a..c PROVE Blanked(t, q)[i] = t[i]
  <2>1. i \in 1..Len(t) /\ i \in a..c + 1 /\ i + 1 \in a..c + 1
    BY LenProperties
  <2>2. Modes(t, q)[i] = "code" /\ Modes(t, q)[i + 1] = "code"
    BY <1>2, <2>1
  <2>3. ~Commented(Modes(t, q), i)
    BY <2>2 DEF Commented, Comment
  <2>4. QED
    BY <2>1, <2>3, BlankedAt
<1>4. QED
  BY <1>2, <1>3

LEMMA PlainUpTo ==
  ASSUME NEW t \in Seq(Chars), NEW q \in Quotes, NEW a \in Nat, NEW e \in Nat,
         1 <= a, a <= e, e <= Len(t) + 1, Modes(t, q)[a] = "code",
         \A i \in a..e - 1 : t[i] \notin {"/", q}
  PROVE  /\ Modes(t, q)[e] = "code"
         /\ \A i \in a..e - 1 : Blanked(t, q)[i] = t[i]
<1> DEFINE c == e - 1
<1>1. c \in Int /\ c <= Len(t) /\ c + 1 = e /\ e \in a..c + 1
  BY LenProperties
<1>2. \A i \in a..c : t[i] \notin {"/", q}
  OBVIOUS
<1> HIDE DEF c
<1>3. /\ \A i \in a..c + 1 : Modes(t, q)[i] = "code"
      /\ \A i \in a..c : Blanked(t, q)[i] = t[i]
  BY <1>1, <1>2, PlainAhead
<1>4. Modes(t, q)[e] = "code"
  BY <1>1, <1>3
<1>5. QED
  BY <1>3, <1>4 DEF c

LEMMA WholeSame ==
  ASSUME NEW t, NEW b, NEW s \in Int, NEW p \in Int, \A i \in s..p - 1 : b[i] = t[i]
  PROVE  Whole(b, s, p) = Whole(t, s, p)
<1> DEFINE Body(u, w) == [n \in 0..p - s |->
                            IF n = 0 THEN 0 ELSE 10 * w[n - 1] + DigitValue[u[s + n - 1]]]
<1>1. \A w : Body(b, w) = Body(t, w)
  <2> SUFFICES ASSUME NEW w, NEW n \in 0..p - s PROVE Body(b, w)[n] = Body(t, w)[n]
    OBVIOUS
  <2>1. CASE n = 0
    BY <2>1
  <2>2. CASE n # 0
    <3>1. s + n - 1 \in s..p - 1
      BY <2>2
    <3>2. b[s + n - 1] = t[s + n - 1]
      BY <3>1
    <3>3. QED
      BY <3>2
  <2>3. QED
    BY <2>1, <2>2
<1>2. (CHOOSE w : w = Body(b, w)) = (CHOOSE w : w = Body(t, w))
  <2> HIDE DEF Body
  <2>1. QED
    BY <1>1
<1>3. QED
  BY <1>2 DEF Whole

LEMMA CharTwin ==
  ASSUME NEW l \in LexerObjects, NEW b \in Seq(Chars), Len(b) = Len(l.text),
         b[l.pos] = l.text[l.pos]
  PROVE  Char(Twin(l, b)) = Twin(Char(l), b)
<1> DEFINE m == Twin(l, b)
           c == l.text[l.pos]
<1>1. m.text[m.pos] = c
  BY TwinRight
<1>2. Char(l) = IF c \in DOMAIN CharToken THEN Return(l, CharToken[c]) ELSE Throw(l)
  BY DEF Char
<1> HIDE DEF m, c
<1>3. Char(m) = IF c \in DOMAIN CharToken THEN Return(m, CharToken[c]) ELSE Throw(m)
  BY <1>1 DEF Char
<1>4. Throw(m) = Twin(Throw(l), b) /\ Return(m, CharToken[c]) = Twin(Return(l, CharToken[c]), b)
  BY ThrowTwin, ReturnTwin DEF m
<1>5. QED
  BY <1>2, <1>3, <1>4 DEF m

\* A lexer that has read a token is in the code of its text, or at its end: a
\* comment may be open there.
Good(g, t, q) == g.err \/ g.pos = Len(t) \/ Modes(t, q)[g.pos + 1] = "code"

LEMMA PlainChars ==
  ASSUME NEW q \in Quotes
  PROVE  /\ "/" \notin Digit \cup {".", "+", "-"} /\ q \notin Digit \cup {".", "+", "-"}
         /\ "/" \notin Letter \cup Digit \cup {"_"} /\ q \notin Letter \cup Digit \cup {"_"}
         /\ " " \notin Letter \cup Digit \cup {"_"}
         /\ "/" \notin Space /\ q \notin Space
BY DEF Quotes, Digit, DigitValue, Letter, Space

LEMMA NumberTwin ==
  ASSUME NEW l \in LexerObjects, l.pos >= 1, NEW t, t = l.text, NEW q \in Quotes,
         NEW b, b = Blanked(t, q), Modes(t, q)[l.pos] = "code",
         t[l.pos] \in Digit \cup {".", "+", "-"}
  PROVE  Number(Twin(l, b)) = Twin(Number(l), b) /\ Good(Number(l), t, q)
<1> DEFINE s == IF t[l.pos] \in {"+", "-"} THEN l.pos + 1 ELSE l.pos
           p == FirstOutside(t, s, Digit)
           point == p <= Len(t) /\ t[p] = "."
           e == IF point THEN FirstOutside(t, p + 1, Digit) ELSE p
           tenth == IF e > p + 1 THEN DigitValue[t[p + 1]] ELSE 0
           sign == IF t[l.pos] = "-" THEN -1 ELSE 1
           n == sign * (10 * Whole(t, s, p) + tenth)
           m == Twin(l, b)
<1>1. /\ t \in Seq(Chars) /\ Len(t) \in Nat /\ l.pos \in 1..Len(t)
  BY LexerTypes
<1>2. b \in Seq(Chars) /\ Len(b) = Len(t) /\ \A k \in 1..Len(t) : b[k] = t[k] \/ b[k] = " "
  BY <1>1, BlankedText
<1>3. m.text = b /\ m.pos = l.pos
  BY <1>2, TwinRight
<1>4. Number(l) = IF p > s \/ e > p + 1
                  THEN Return([l EXCEPT !.pos = e - 1, !.num = n], "NUM") ELSE Throw(l)
  BY DEF Number
<1>5. s \in l.pos..Len(t) + 1 /\ s \in Nat /\ s \in Int /\ s <= l.pos + 1
      /\ (s > l.pos => t[l.pos] \in {"+", "-"})
  BY <1>1
<1> HIDE DEF s, e
<1>6. /\ p \in s..Len(t) + 1 /\ p \in Nat /\ \A i \in s..p - 1 : t[i] \in Digit
      /\ p <= Len(t) => t[p] \notin Digit
  <2>1. s <= Len(t) + 1
    BY <1>1, <1>5
  <2>2. p \in s..Len(t) + 1 /\ \A i \in s..p - 1 : t[i] \in Digit
    BY <1>1, <1>5, <2>1, FirstOutsideRight
  <2>3. p <= Len(t) => t[p] \notin Digit
    BY <1>1, <1>5, <2>1, FirstOutsideStops
  <2> HIDE DEF p
  <2>4. QED
    BY <1>5, <2>2, <2>3
<1> HIDE DEF p
<1>7. ASSUME point
      PROVE  /\ p + 1 \in Nat /\ p + 1 <= Len(t) + 1
             /\ e = FirstOutside(t, p + 1, Digit) /\ e \in p + 1..Len(t) + 1
             /\ \A i \in p + 1..e - 1 : t[i] \in Digit
             /\ e <= Len(t) => t[e] \notin Digit
  <2>1. e = FirstOutside(t, p + 1, Digit)
    BY <1>7 DEF e
  <2>2. p + 1 \in Nat /\ p + 1 <= Len(t) + 1
    BY <1>1, <1>6, <1>7
  <2>3. e \in p + 1..Len(t) + 1 /\ \A i \in p + 1..e - 1 : t[i] \in Digit
    BY <1>1, <2>1, <2>2, FirstOutsideRight
  <2>4. e <= Len(t) => t[e] \notin Digit
    BY <1>1, <2>1, <2>2, FirstOutsideStops
  <2>5. QED
    BY <2>1, <2>2, <2>3, <2>4
<1>8. ~point => e = p
  BY DEF e
<1>9. e \in l.pos..Len(t) + 1 /\ e \in Nat /\ e >= p
  BY <1>1, <1>5, <1>6, <1>7, <1>8
<1>10. \A i \in l.pos..e - 1 : t[i] \in Digit \cup {".", "+", "-"}
  <2>1. ASSUME NEW i \in l.pos..e - 1 PROVE t[i] \in Digit \cup {".", "+", "-"}
    <3>1. CASE i < s
      BY <1>1, <1>5, <3>1
    <3>2. CASE i \in s..p - 1
      BY <1>6, <3>2
    <3>3. CASE i >= p
      <4>1. point
        BY <1>6, <1>8, <3>3
      <4>2. CASE i = p
        BY <4>1, <4>2
      <4>3. CASE i \in p + 1..e - 1
        BY <1>7, <4>1, <4>3
      <4>4. QED
        BY <1>6, <1>9, <3>3, <4>2, <4>3
    <3>4. QED
      BY <1>1, <1>5, <1>6, <3>1, <3>2, <3>3
  <2>2. QED
    BY <2>1
<1>11. /\ Modes(t, q)[e] = "code"
       /\ \A i \in l.pos..e - 1 : b[i] = t[i]
  <2>1. \A i \in l.pos..e - 1 : t[i] \notin {"/", q}
    BY <1>10, PlainChars
  <2>2. l.pos \in Nat /\ e \in Nat /\ 1 <= l.pos /\ l.pos <= e /\ e <= Len(t) + 1
    BY <1>1, <1>9
  <2>3. QED
    BY <1>1, <2>1, <2>2, PlainUpTo
<1>12. b[l.pos] = t[l.pos]
  <2>1. t[l.pos] \notin {"/", q}
    BY PlainChars
  <2>2. \A i \in l.pos..l.pos : t[i] \notin {"/", q}
    BY <1>1, <2>1
  <2>3. \A i \in l.pos..l.pos : Blanked(t, q)[i] = t[i]
    BY <1>1, <2>2, PlainAhead
  <2>4. QED
    BY <1>1, <2>3
<1> DEFINE pb == FirstOutside(b, s, Digit)
           pointb == pb <= Len(b) /\ b[pb] = "."
           eb == IF pointb THEN FirstOutside(b, pb + 1, Digit) ELSE pb
           tenthb == IF eb > pb + 1 THEN DigitValue[b[pb + 1]] ELSE 0
           nb == sign * (10 * Whole(b, s, pb) + tenthb)
<1>13. " " \notin Digit
  BY DEF Digit, DigitValue
<1>14. pb = p
  <2>1. \A i \in s..p - 1 : b[i] \in Digit
    <3>1. \A i \in s..p - 1 : b[i] = t[i]
      BY <1>1, <1>5, <1>6, <1>9, <1>11
    <3>2. QED
      BY <1>6, <3>1
  <2>2. p <= Len(t) => b[p] \notin Digit
    <3>1. p <= Len(t) => p \in 1..Len(t)
      BY <1>1, <1>5, <1>6
    <3>3. p <= Len(t) => b[p] = t[p] \/ b[p] = " "
      BY <1>2, <3>1
    <3>2. QED
      BY <1>6, <1>13, <3>3
  <2>3. QED
    BY <1>2, <1>5, <1>6, <2>1, <2>2, FirstOutsideIs
<1>15. pointb <=> point
  <2>1. p <= Len(t) => p \in 1..Len(t)
    BY <1>1, <1>5, <1>6
  <2>2. p <= Len(t) => b[p] = t[p] \/ b[p] = " "
    BY <1>2, <2>1
  <2>3. point => b[p] = t[p]
    <3>1. point => p \in l.pos..e - 1
      BY <1>1, <1>5, <1>6, <1>7
    <3>2. QED
      BY <1>11, <3>1
  <2> HIDE DEF pb
  <2>4. QED
    BY <1>2, <1>14, <2>2, <2>3
<1>16. eb = e
  <2>1. CASE point
    <3>1. \A i \in p + 1..e - 1 : b[i] \in Digit
      <4>1. \A i \in p + 1..e - 1 : b[i] = t[i]
        BY <1>1, <1>5, <1>6, <1>9, <1>11
      <4>2. QED
        BY <1>7, <2>1, <4>1
    <3>2. e <= Len(t) => b[e] \notin Digit
      <4>0. e <= Len(t) => e \in 1..Len(t)
        BY <1>1, <1>9
      <4>1. e <= Len(t) => b[e] = t[e] \/ b[e] = " "
        BY <1>2, <4>0
      <4>2. QED
        BY <1>7, <1>13, <2>1, <4>1
    <3>3. FirstOutside(b, p + 1, Digit) = e
      BY <1>2, <1>7, <2>1, <3>1, <3>2, FirstOutsideIs
    <3> HIDE DEF pb, point, pointb
    <3>4. QED
      BY <1>14, <1>15, <2>1, <3>3
  <2>2. CASE ~point
    <3> HIDE DEF pb, point, pointb
    <3>1. QED
      BY <1>8, <1>14, <1>15, <2>2
  <2>3. QED
    BY <2>1, <2>2
<1> HIDE DEF pb, eb
<1>17. nb = n
  <2>1. Whole(b, s, p) = Whole(t, s, p)
    <3>1. \A i \in s..p - 1 : b[i] = t[i]
      BY <1>1, <1>5, <1>6, <1>9, <1>11
    <3>2. QED
      BY <1>5, <1>6, <3>1, WholeSame
  <2>2. tenthb = tenth
    <3>1. e > p + 1 => p + 1 \in l.pos..e - 1
      BY <1>1, <1>5, <1>6, <1>9
    <3>2. e > p + 1 => b[p + 1] = t[p + 1]
      BY <1>11, <3>1
    <3>3. QED
      BY <1>14, <1>16, <3>2
  <2> HIDE DEF sign, tenth, tenthb
  <2>3. QED
    BY <1>14, <2>1, <2>2
<1>18. Number(m) = IF p > s \/ e > p + 1
                   THEN Return([m EXCEPT !.pos = e - 1, !.num = n], "NUM") ELSE Throw(m)
  <2> HIDE DEF m, n
  <2>1. Number(m) = IF pb > s \/ eb > pb + 1
                    THEN Return([m EXCEPT !.pos = eb - 1, !.num = nb], "NUM") ELSE Throw(m)
    BY <1>3, <1>12 DEF Number, s, pb, eb
  <2> HIDE DEF nb
  <2>2. QED
    BY <1>14, <1>16, <1>17, <2>1
<1> DEFINE r == [l EXCEPT !.pos = e - 1, !.num = n]
<1>19. /\ [m EXCEPT !.pos = e - 1, !.num = n] = Twin(r, b)
       /\ Throw(m) = Twin(Throw(l), b)
  <2> HIDE DEF n
  <2>1. [m EXCEPT !.pos = e - 1, !.num = n] = Twin(r, b)
    BY DEF Twin, LexerObjects, LexerFields
  <2>2. QED
    BY <2>1, ThrowTwin
<1>20. CASE p > s \/ e > p + 1
  <2> HIDE DEF n
  <2>1. r \in LexerObjects
    <3>1. n \in Int
      <4>1. Whole(t, s, p) \in Int
        BY <1>5, <1>6, WholeRight
      <4>2. tenth \in Int
        <5>1. e > p + 1 => point
          BY <1>6, <1>8
        <5>2. e > p + 1 => p + 1 \in p + 1..e - 1
          BY <1>6, <1>9
        <5>3. e > p + 1 => t[p + 1] \in Digit
          BY <1>7, <5>1, <5>2
        <5>4. QED
          BY <5>3, DigitsKnown
      <4>3. sign \in Int
        OBVIOUS
      <4> HIDE DEF tenth, sign
      <4>4. 10 * Whole(t, s, p) + tenth \in Int
        BY <4>1, <4>2
      <4>5. QED
        BY <4>3, <4>4 DEF n
    <3>2. e - 1 \in Nat /\ e - 1 <= Len(t)
      BY <1>1, <1>9
    <3>3. QED
      BY <3>1, <3>2 DEF LexerObjects, LexerFields
  <2>2. r.pos = e - 1
    BY DEF LexerObjects, LexerFields
  <2>3. Twin(r, b) = [m EXCEPT !.pos = e - 1, !.num = n]
    BY <1>19
  <2> HIDE DEF r, m
  <2>4. Number(m) = Return(Twin(r, b), "NUM") /\ Number(l) = Return(r, "NUM")
    BY <1>4, <1>18, <1>20, <2>3 DEF r
  <2>5. Return(Twin(r, b), "NUM") = Twin(Return(r, "NUM"), b)
    BY <2>1, ReturnTwin
  <2>6. Return(r, "NUM").pos = e - 1
    BY <2>1, <2>2 DEF Return, LexerObjects, LexerFields
  <2>7. Return(r, "NUM").pos + 1 = e
    BY <1>9, <2>6
  <2>8. QED
    BY <1>11, <2>4, <2>5, <2>7 DEF Good, m
<1>21. CASE ~(p > s \/ e > p + 1)
  <2>1. Throw(l).err
    BY ThrowRight
  <2> HIDE DEF n, m
  <2>2. Number(m) = Throw(m) /\ Number(l) = Throw(l)
    BY <1>4, <1>18, <1>21
  <2>3. QED
    BY <1>19, <2>1, <2>2 DEF Good, m
<1>22. QED
  BY <1>20, <1>21

LEMMA IdentifierTwin ==
  ASSUME NEW l \in LexerObjects, l.pos >= 1, NEW t, t = l.text, NEW q \in Quotes,
         NEW b, b = Blanked(t, q), Modes(t, q)[l.pos] = "code", t[l.pos] \in Letter
  PROVE  Identifier(Twin(l, b)) = Twin(Identifier(l), b) /\ Good(Identifier(l), t, q)
<1> DEFINE W == Letter \cup Digit \cup {"_"}
           k == FirstOutside(t, l.pos + 1, W)
           u == SubSeq(t, l.pos, k - 1)
           r == [l EXCEPT !.pos = k - 1, !.str = u]
           m == Twin(l, b)
<1>1. /\ t \in Seq(Chars) /\ Len(t) \in Nat /\ l.pos \in 1..Len(t)
  BY LexerTypes
<1>2. b \in Seq(Chars) /\ Len(b) = Len(t) /\ \A i \in 1..Len(t) : b[i] = t[i] \/ b[i] = " "
  BY <1>1, BlankedText
<1>3. m.text = b /\ m.pos = l.pos
  BY <1>2, TwinRight
<1>4. Identifier(l) = Return(r, "IDENT")
  BY DEF Identifier
<1>5. "/" \notin W /\ q \notin W /\ " " \notin W /\ t[l.pos] \in W
  BY PlainChars
<1> HIDE DEF W
<1>6. /\ k \in l.pos + 1..Len(t) + 1 /\ \A i \in l.pos + 1..k - 1 : t[i] \in W
      /\ k <= Len(t) => t[k] \notin W
  <2>1. l.pos + 1 \in Nat /\ l.pos + 1 <= Len(t) + 1
    BY <1>1
  <2>2. QED
    BY <1>1, <2>1, FirstOutsideRight, FirstOutsideStops
<1> HIDE DEF k
<1>7. /\ l.pos \in Nat /\ k \in Nat /\ 1 <= l.pos /\ l.pos <= k /\ k <= Len(t) + 1
      /\ k - 1 <= Len(t)
  BY <1>1, <1>6
<1>8. \A i \in l.pos..k - 1 : t[i] \notin {"/", q}
  <2>1. \A i \in l.pos..k - 1 : i = l.pos \/ i \in l.pos + 1..k - 1
    BY <1>1, <1>6
  <2>2. QED
    BY <1>5, <1>6, <2>1
<1>9. /\ Modes(t, q)[k] = "code"
      /\ \A i \in l.pos..k - 1 : b[i] = t[i]
  <2>1. /\ Modes(t, q)[k] = "code"
        /\ \A i \in l.pos..k - 1 : Blanked(t, q)[i] = t[i]
    BY <1>1, <1>7, <1>8, PlainUpTo
  <2>2. QED
    BY <2>1
<1>10. FirstOutside(b, l.pos + 1, W) = k
  <2>1. \A i \in l.pos + 1..k - 1 : b[i] \in W
    <3>1. \A i \in l.pos + 1..k - 1 : b[i] = t[i]
      BY <1>1, <1>6, <1>9
    <3>2. QED
      BY <1>6, <3>1
  <2>2. k <= Len(t) => b[k] \notin W
    <3>0. k <= Len(t) => k \in 1..Len(t)
      BY <1>1, <1>6
    <3>1. k <= Len(t) => b[k] = t[k] \/ b[k] = " "
      BY <1>2, <3>0
    <3>2. QED
      BY <1>5, <1>6, <3>1
  <2>3. l.pos + 1 \in Nat
    BY <1>1
  <2>4. QED
    BY <1>2, <1>6, <2>1, <2>2, <2>3, FirstOutsideIs
<1>11. SubSeq(b, l.pos, k - 1) = u /\ u \in Seq(Chars)
  <2>1. l.pos \in Int /\ k - 1 \in Int /\ l.pos <= k - 1
    BY <1>1, <1>6
  <2>2. \A i \in l.pos..k - 1 : t[i] \in Chars
    BY <1>1, <1>7, ElementOfSeq
  <2>3. \A i \in l.pos..k - 1 : b[i] \in Chars
    BY <1>9, <2>2
  <2>4. /\ u \in Seq(Chars) /\ Len(u) = (k - 1) - l.pos + 1
        /\ \A i \in 1..(k - 1) - l.pos + 1 : u[i] = t[l.pos + i - 1]
    BY <2>1, <2>2, SubSeqProperties
  <2> DEFINE v == SubSeq(b, l.pos, k - 1)
  <2>5. /\ v \in Seq(Chars) /\ Len(v) = (k - 1) - l.pos + 1
        /\ \A i \in 1..(k - 1) - l.pos + 1 : v[i] = b[l.pos + i - 1]
    BY <2>1, <2>3, SubSeqProperties
  <2>6. \A i \in 1..(k - 1) - l.pos + 1 : l.pos + i - 1 \in l.pos..k - 1
    BY <2>1
  <2> HIDE DEF u, v
  <2>7. ASSUME NEW i \in 1..Len(v) PROVE v[i] = u[i]
    <3>1. i \in 1..(k - 1) - l.pos + 1
      BY <2>5
    <3>2. v[i] = b[l.pos + i - 1] /\ u[i] = t[l.pos + i - 1]
      BY <2>4, <2>5, <3>1
    <3>3. l.pos + i - 1 \in l.pos..k - 1
      BY <2>6, <3>1
    <3>4. QED
      BY <1>9, <3>2, <3>3
  <2>8. v = u
    BY <2>4, <2>5, <2>7, SeqEqual
  <2>9. QED
    BY <2>4, <2>8 DEF v
<1> HIDE DEF u
<1>13. Identifier(m) = Return([m EXCEPT !.pos = k - 1, !.str = u], "IDENT")
  <2> HIDE DEF m
  <2>1. QED
    BY <1>3, <1>10, <1>11 DEF Identifier, W
<1>14. [m EXCEPT !.pos = k - 1, !.str = u] = Twin(r, b)
  BY DEF Twin, LexerObjects, LexerFields
<1>15. r \in LexerObjects /\ r.pos = k - 1
  <2>1. k - 1 \in Nat /\ k - 1 <= Len(t)
    BY <1>1, <1>6
  <2>2. QED
    BY <1>11, <2>1 DEF LexerObjects, LexerFields
<1> HIDE DEF r, m
<1>16. Identifier(m) = Return(Twin(r, b), "IDENT")
  BY <1>13, <1>14
<1>17. Return(Twin(r, b), "IDENT") = Twin(Return(r, "IDENT"), b)
  BY <1>15, ReturnTwin
<1>18. Return(r, "IDENT").pos = k - 1
  BY <1>15 DEF Return, LexerObjects, LexerFields
<1>19. Return(r, "IDENT").pos + 1 = k
  BY <1>6, <1>18
<1>20. QED
  BY <1>4, <1>9, <1>16, <1>17, <1>19 DEF Good, m

\* A character of a string stays.
LEMMA StringStays ==
  ASSUME NEW t \in Seq(Chars), NEW q, NEW k \in 1..Len(t),
         Modes(t, q)[k] \in {"string", "escape"}
  PROVE  /\ Blanked(t, q)[k] = t[k]
         /\ Modes(t, q)[k + 1] = NextMode(t, q, Modes(t, q)[k], k)
<1>1. ~Commented(Modes(t, q), k)
  BY DEF Commented, Comment
<1>2. QED
  BY <1>1, BlankedAt, ModesAre

\* What reads the text and its twin alike.
QuotedAlike(l, t, q, b) ==
  Quoted(Twin(l, b)) = Twin(Quoted(l), b) /\ Good(Quoted(l), t, q)
InString(l, t, q) == l.text = t /\ QuoteChar(l) = q /\ Modes(t, q)[l.pos + 1] = "string"

LEMMA QuotedTurn ==
  ASSUME NEW t \in Seq(Chars), NEW q \in Quotes, NEW b, b = Blanked(t, q),
         NEW l \in LexerObjects, InString(l, t, q),
         \A r \in LexerObjects :
           r.pos > l.pos /\ InString(r, t, q) => QuotedAlike(r, t, q, b)
  PROVE  QuotedAlike(l, t, q, b)
<1> DEFINE m == Twin(l, b)
           c == Peek(l)
           d == IF l.pos + 1 < Len(t) THEN t[l.pos + 2] ELSE EOF
           db == IF l.pos + 1 < Len(b) THEN b[l.pos + 2] ELSE EOF
           x(y) == IF y = "n" THEN "\n" ELSE y
<1>1. /\ l.text = t /\ QuoteChar(l) = q /\ Modes(t, q)[l.pos + 1] = "string"
      /\ l.pos \in 0..Len(t) /\ Len(t) \in Nat
  BY LexerTypes DEF InString
<1>2. b \in Seq(Chars) /\ Len(b) = Len(t)
  BY BlankedText
<1>3. m \in LexerObjects /\ m.text = b /\ m.pos = l.pos /\ QuoteChar(m) = q
  BY <1>1, <1>2, TwinRight
<1>4. l.pos < Len(t) => /\ b[l.pos + 1] = t[l.pos + 1]
                        /\ Modes(t, q)[(l.pos + 1) + 1] = NextMode(t, q, "string", l.pos + 1)
  <2>1. l.pos < Len(t) => l.pos + 1 \in 1..Len(t)
    BY <1>1
  <2>2. QED
    BY <1>1, <2>1, StringStays
<1>5. Peek(m) = c
  BY <1>1, <1>2, <1>3, <1>4 DEF Peek
<1>6. c # EOF => l.pos < Len(t) /\ c = t[l.pos + 1] /\ c \in Chars
  BY <1>1, PeekRight
<1>7. q # "\\" /\ q \in Chars /\ q # "\n"
  BY CharsKnown DEF Quotes
<1>8. Quoted(l) = CASE c \in {EOF, "\n"} -> Throw(l)
                    [] c = q -> Return([l EXCEPT !.pos = @ + 1], "STRING")
                    [] c = "\\" -> IF d \in {q, "n", "\\"} THEN ReadQuoted[Take(l, 2, x(d))]
                                   ELSE Throw(l)
                    [] OTHER -> ReadQuoted[Take(l, 1, c)]
  BY <1>1, QuotedEnds DEF QuotedFrom
<1> HIDE DEF c, m
<1>9. Quoted(m) = CASE c \in {EOF, "\n"} -> Throw(m)
                    [] c = q -> Return([m EXCEPT !.pos = @ + 1], "STRING")
                    [] c = "\\" -> IF db \in {q, "n", "\\"} THEN ReadQuoted[Take(m, 2, x(db))]
                                   ELSE Throw(m)
                    [] OTHER -> ReadQuoted[Take(m, 1, c)]
  BY <1>3, <1>5, QuotedEnds DEF QuotedFrom
<1>10. Throw(m) = Twin(Throw(l), b) /\ Throw(l).err
  BY ThrowTwin, ThrowRight DEF m
<1> HIDE DEF d, db
<1>11. ASSUME NEW r \in LexerObjects, NEW k, NEW y, r = Take(l, k, y), Goes(l, r),
              r.pos > l.pos, Modes(t, q)[r.pos + 1] = "string",
              Quoted(l) = ReadQuoted[r], Quoted(m) = ReadQuoted[Take(m, k, y)]
       PROVE  QuotedAlike(l, t, q, b)
  <2>1. r.text = t /\ QuoteChar(r) = q
    BY <1>1, <1>11 DEF Goes, Later, OnText, QuoteChar
  <2>2. QuotedAlike(r, t, q, b)
    BY <1>11, <2>1 DEF InString
  <2>3. Take(m, k, y) = Twin(r, b)
    BY <1>11, TakeTwin DEF m
  <2>4. Twin(r, b) \in LexerObjects
    BY <1>2, <2>1, TwinRight
  <2>5. Quoted(l) = Quoted(r) /\ Quoted(m) = Quoted(Twin(r, b))
    BY <1>11, <2>3, <2>4 DEF ReadQuoted
  <2>6. QED
    BY <2>2, <2>5 DEF QuotedAlike, m
<1>12. CASE c \in {EOF, "\n"}
  <2>1. Quoted(l) = Throw(l)
    BY <1>7, <1>8, <1>12, CharsKnown
  <2>2. Quoted(m) = Throw(m)
    BY <1>7, <1>9, <1>12, CharsKnown
  <2>3. QED
    BY <1>10, <2>1, <2>2 DEF QuotedAlike, Good, m
<1>13. CASE c \notin {EOF, "\n"} /\ c = q
  <2> DEFINE r == [l EXCEPT !.pos = @ + 1]
  <2>1. Quoted(l) = Return(r, "STRING")
    BY <1>7, <1>8, <1>13
  <2>2. Quoted(m) = Return([m EXCEPT !.pos = @ + 1], "STRING")
    BY <1>7, <1>9, <1>13
  <2>3. [m EXCEPT !.pos = @ + 1] = Twin(r, b)
    BY DEF Twin, LexerObjects, LexerFields, m
  <2>4. r \in LexerObjects /\ r.pos = l.pos + 1
    BY <1>1, <1>6, <1>13 DEF LexerObjects, LexerFields
  <2> HIDE DEF r
  <2>5. Return(Twin(r, b), "STRING") = Twin(Return(r, "STRING"), b)
    BY <2>4, ReturnTwin
  <2>6. Return(r, "STRING").pos = l.pos + 1
    BY <2>4 DEF Return, LexerObjects, LexerFields
  <2>7. Modes(t, q)[(l.pos + 1) + 1] = "code"
    <3>1. t[l.pos + 1] = q
      BY <1>6, <1>13
    <3>2. QED
      BY <1>4, <1>6, <1>13, <3>1, NextModes
  <2>8. QED
    BY <2>1, <2>2, <2>3, <2>5, <2>6, <2>7 DEF QuotedAlike, Good, m
<1>14. CASE c \notin {EOF, "\n", q} /\ c = "\\"
  <2>1. /\ l.pos < Len(t) /\ t[l.pos + 1] = "\\"
        /\ Modes(t, q)[(l.pos + 1) + 1] = "escape"
    <3>1. l.pos < Len(t) /\ t[l.pos + 1] = "\\"
      BY <1>6, <1>14
    <3>2. QED
      BY <1>4, <3>1, NextModes
  <2>2. l.pos + 1 < Len(t) =>
          /\ b[l.pos + 2] = t[l.pos + 2]
          /\ Modes(t, q)[l.pos + 3] = "string"
    <3>1. l.pos + 1 < Len(t) => l.pos + 2 \in 1..Len(t)
      BY <1>1
    <3>2. Modes(t, q)[l.pos + 2] = "escape" /\ (l.pos + 2) + 1 = l.pos + 3
      <4>1. (l.pos + 1) + 1 = l.pos + 2 /\ (l.pos + 2) + 1 = l.pos + 3
        BY <1>1
      <4>2. QED
        BY <2>1, <4>1
    <3>3. l.pos + 1 < Len(t) =>
            /\ b[l.pos + 2] = t[l.pos + 2]
            /\ Modes(t, q)[(l.pos + 2) + 1] = NextMode(t, q, "escape", l.pos + 2)
      BY <3>1, <3>2, StringStays
    <3>4. QED
      BY <3>2, <3>3, NextModes
  <2>3. db = d
    BY <1>2, <2>2 DEF d, db
  <2>4. CASE d \in {q, "n", "\\"}
    <3> DEFINE y == x(d)
               r == Take(l, 2, y)
    <3>1. l.pos + 1 < Len(t) /\ d = t[l.pos + 2]
      <4>1. d # EOF
        BY <1>7, <2>4, CharsKnown
      <4>2. QED
        BY <4>1 DEF d
    <3>2. y \in Chars /\ d # "\n"
      BY <1>7, <2>4, CharsKnown
    <3> HIDE DEF x
    <3>3. Quoted(l) = ReadQuoted[r]
      BY <1>8, <1>14, <2>4
    <3>4. Quoted(m) = ReadQuoted[Take(m, 2, y)]
      BY <1>9, <1>14, <2>3, <2>4
    <3> HIDE DEF y
    <3>5. l.pos + 2 <= Len(t) /\ \A i \in l.pos + 1..l.pos + 2 : t[i] # "\n"
      <4>1. \A i \in l.pos + 1..l.pos + 2 : i = l.pos + 1 \/ i = l.pos + 2
        BY <1>1
      <4>2. QED
        BY <1>1, <2>1, <3>1, <3>2, <4>1
    <3>6. Goes(l, r)
      BY <1>1, <3>2, <3>5, TakeRight
    <3>7. r.pos = l.pos + 2
      BY <1>1 DEF Take, LexerObjects, LexerFields
    <3>8. r \in LexerObjects
      BY <3>6 DEF Goes, Later, OnText
    <3>9. r.pos > l.pos /\ r.pos + 1 = l.pos + 3
      BY <1>1, <3>7
    <3>10. r = Take(l, 2, y)
      OBVIOUS
    <3> HIDE DEF r
    <3>11. QED
      BY <1>11, <2>2, <3>1, <3>3, <3>4, <3>6, <3>8, <3>9, <3>10
  <2>5. CASE d \notin {q, "n", "\\"}
    <3>1. Quoted(l) = Throw(l)
      BY <1>8, <1>14, <2>5
    <3>2. Quoted(m) = Throw(m)
      BY <1>9, <1>14, <2>3, <2>5
    <3>3. QED
      BY <1>10, <3>1, <3>2 DEF QuotedAlike, Good, m
  <2>6. QED
    BY <2>4, <2>5
<1>15. CASE c \notin {EOF, "\n", q, "\\"}
  <2> DEFINE r == Take(l, 1, c)
  <2>1. Quoted(l) = ReadQuoted[r]
    BY <1>8, <1>15
  <2>2. Quoted(m) = ReadQuoted[Take(m, 1, c)]
    BY <1>9, <1>15
  <2>3. l.pos < Len(t) /\ t[l.pos + 1] = c /\ c \in Chars
    BY <1>6, <1>15
  <2>4. l.pos + 1 <= Len(t) /\ \A i \in l.pos + 1..l.pos + 1 : t[i] # "\n"
    BY <1>1, <1>15, <2>3
  <2>5. Goes(l, r)
    BY <1>1, <2>3, <2>4, TakeRight
  <2>6. r.pos = l.pos + 1
    BY <1>1 DEF Take, LexerObjects, LexerFields
  <2>7. r \in LexerObjects
    BY <2>5 DEF Goes, Later, OnText
  <2>8. Modes(t, q)[(l.pos + 1) + 1] = "string"
    BY <1>4, <1>15, <2>3, NextModes
  <2>9. r.pos > l.pos /\ r = Take(l, 1, c)
    BY <1>1, <2>6
  <2> HIDE DEF r
  <2>10. QED
    BY <1>11, <2>1, <2>2, <2>5, <2>6, <2>7, <2>8, <2>9
<1>16. QED
  BY <1>12, <1>13, <1>14, <1>15

\* A string is read alike, and what looks like a comment in it is none.
LEMMA QuotedTwin ==
  ASSUME NEW t \in Seq(Chars), NEW q \in Quotes, NEW b, b = Blanked(t, q)
  PROVE  \A l \in LexerObjects : InString(l, t, q) => QuotedAlike(l, t, q, b)
<1> DEFINE S == {n \in Nat : \A l \in LexerObjects :
                   Len(t) - l.pos < n /\ InString(l, t, q) => QuotedAlike(l, t, q, b)}
<1>0. Len(t) \in Nat
  BY LenProperties
<1>1. \A l \in LexerObjects : InString(l, t, q) => l.pos \in 0..Len(t)
  BY LexerTypes DEF InString
<1>2. 0 \in S
  BY <1>0, <1>1
<1>3. ASSUME NEW n \in Nat, n \in S PROVE n + 1 \in S
  <2>0. n + 1 \in Nat
    OBVIOUS
  <2> SUFFICES ASSUME NEW l \in LexerObjects, Len(t) - l.pos < n + 1, InString(l, t, q)
               PROVE  QuotedAlike(l, t, q, b)
    BY <2>0
  <2>1. ASSUME NEW r \in LexerObjects, r.pos > l.pos, InString(r, t, q)
        PROVE  QuotedAlike(r, t, q, b)
    <3>1. Len(t) - r.pos < n
      BY <1>0, <1>1, <2>1
    <3>2. QED
      BY <1>3, <2>1, <3>1
  <2>2. QED
    BY <2>1, QuotedTurn
<1> HIDE DEF S
<1>4. Nat \subseteq S
  BY <1>2, <1>3, SetInduction
<1>5. ASSUME NEW l \in LexerObjects, InString(l, t, q) PROVE QuotedAlike(l, t, q, b)
  <2>1. Len(t) + 1 \in S
    BY <1>0, <1>4
  <2>2. Len(t) - l.pos < Len(t) + 1
    BY <1>0, <1>1, <1>5
  <2>3. QED
    BY <1>5, <2>1, <2>2 DEF S
<1>6. QED
  BY <1>5

LEMMA BlankedLines ==
  ASSUME NEW t \in Seq(Chars), NEW q
  PROVE  SameLines(Blanked(t, q), t)
<1>1. DOMAIN t = 1..Len(t)
  BY LenProperties
<1>2. \A k \in 1..Len(t) :
        Blanked(t, q)[k] = IF t[k] # "\n" /\ Commented(Modes(t, q), k) THEN " " ELSE t[k]
  BY <1>1 DEF Blanked
<1>3. \A k \in 1..Len(t) : Blanked(t, q)[k] = "\n" <=> t[k] = "\n"
  BY <1>2
<1>4. QED
  BY <1>3, BlankedText DEF SameLines

LEMMA SkipToSkipTo ==
  ASSUME NEW l \in LexerObjects, NEW a \in l.pos + 1..Len(l.text) + 1,
         NEW c \in a..Len(l.text) + 1
  PROVE  SkipTo(SkipTo(l, a), c) = SkipTo(l, c)
<1> DEFINE m == SkipTo(l, a)
           n == Newlines(l.text, l.pos + 1, a - 1)
           o == Newlines(l.text, a, c - 1)
           p == Newlines(l.text, l.pos + 1, c - 1)
<1>1. l.pos \in Nat /\ l.line \in Nat /\ Len(l.text) \in Nat /\ a \in Int /\ c \in Int
  BY LexerTypes
<1>2. m = [l EXCEPT !.pos = a - 1, !.line = @ + n]
  BY DEF SkipTo
<1>3. n \in Nat /\ o \in Nat /\ p = n + o
  <2>1. l.pos + 1 \in Int /\ a - 1 \in Int /\ c - 1 \in Int /\ l.pos + 1 <= (a - 1) + 1
        /\ a - 1 <= c - 1 /\ (a - 1) + 1 = a
    BY <1>1
  <2>2. p = n + Newlines(l.text, (a - 1) + 1, c - 1)
    BY <2>1, LinesAdd
  <2>3. QED
    BY <1>1, <2>1, <2>2, LinesCounted
<1> HIDE DEF m, n, o, p
<1>4. m.text = l.text /\ m.pos = a - 1 /\ m.line = l.line + n
  BY <1>2 DEF LexerObjects, LexerFields
<1>5. m.pos + 1 = a
  BY <1>1, <1>4
<1>6. SkipTo(m, c) = [m EXCEPT !.pos = c - 1, !.line = @ + o]
  BY <1>4, <1>5 DEF SkipTo, o
<1>7. [m EXCEPT !.pos = c - 1, !.line = @ + o] = [l EXCEPT !.pos = c - 1, !.line = l.line + n + o]
  BY <1>2 DEF LexerObjects, LexerFields
<1>8. l.line + n + o = l.line + p
  BY <1>1, <1>3
<1>9. SkipTo(l, c) = [l EXCEPT !.pos = c - 1, !.line = l.line + p]
  BY DEF SkipTo, p
<1>10. QED
  BY <1>6, <1>7, <1>8, <1>9 DEF m

\* What is white space anyway need not be skipped apart.
LEMMA SpaceOver ==
  ASSUME NEW x \in LexerObjects, NEW e \in x.pos + 1..Len(x.text) + 1,
         \A i \in x.pos + 1..e - 1 : x.text[i] \in Space
  PROVE  SkipSpace(SkipTo(x, e)) = SkipSpace(x)
<1> DEFINE m == SkipTo(x, e)
           t == x.text
           f == FirstOutside(t, e, Space)
<1>1. t \in Seq(Chars) /\ Len(t) \in Nat /\ x.pos \in Nat /\ e \in Nat /\ e <= Len(t) + 1
      /\ x.pos + 1 \in Nat
  BY LexerTypes
<1>2. m.text = t /\ m.pos = e - 1
  BY SkipToRight DEF Goes, Later, OnText
<1>3. m.pos + 1 = e
  BY <1>1, <1>2
<1>4. f \in e..Len(t) + 1 /\ \A i \in e..f - 1 : t[i] \in Space
  BY <1>1, FirstOutsideRight
<1>5. f <= Len(t) => t[f] \notin Space
  BY <1>1, FirstOutsideStops
<1> HIDE DEF m, f
<1>6. f \in x.pos + 1..Len(t) + 1
  BY <1>1, <1>4
<1>7. \A i \in x.pos + 1..f - 1 : t[i] \in Space
  <2>1. \A i \in x.pos + 1..f - 1 : i \in x.pos + 1..e - 1 \/ i \in e..f - 1
    BY <1>1, <1>4
  <2>2. QED
    BY <1>4, <2>1
<1>8. FirstOutside(t, x.pos + 1, Space) = f
  BY <1>1, <1>5, <1>6, <1>7, FirstOutsideIs
<1>9. SkipSpace(m) = SkipTo(m, f)
  BY <1>2, <1>3 DEF SkipSpace, f
<1>10. SkipTo(m, f) = SkipTo(x, f)
  BY <1>4, SkipToSkipTo DEF m
<1>11. QED
  BY <1>8, <1>9, <1>10 DEF SkipSpace, m

\* A character that ends no line is skipped like white space.
LEMMA TakenIsSkipped ==
  ASSUME NEW l \in LexerObjects, l.pos < Len(l.text), l.text[l.pos + 1] # "\n"
  PROVE  [l EXCEPT !.pos = @ + 1] = SkipTo(l, l.pos + 2)
<1>1. l.pos \in Nat /\ l.line \in Nat /\ (l.pos + 2) - 1 = l.pos + 1
  BY LexerTypes
<1>2. Newlines(l.text, l.pos + 1, l.pos + 1) = 0
  <2>1. \A k \in l.pos + 1..l.pos + 1 : l.text[k] # "\n"
    BY <1>1
  <2>2. l.pos + 1 \in Int
    BY <1>1
  <2>3. QED
    BY <2>1, <2>2, LinesNone
<1>3. SkipTo(l, l.pos + 2) = [l EXCEPT !.pos = l.pos + 1, !.line = l.line + 0]
  BY <1>1, <1>2 DEF SkipTo
<1>4. l.line + 0 = l.line
  BY <1>1
<1>5. [l EXCEPT !.pos = l.pos + 1, !.line = l.line] = [l EXCEPT !.pos = @ + 1]
  BY DEF LexerObjects, LexerFields
<1>6. QED
  BY <1>3, <1>4, <1>5

\* The comment that begins at place k goes up to place e: it is blank, and code
\* goes on behind it, if anything does.
OverComment(t, q, k, e) ==
  /\ e \in k + 2..Len(t) + 1
  /\ \A i \in k..e - 1 : Blanked(t, q)[i] \in Space
  /\ e = Len(t) + 1 \/ Modes(t, q)[e] = "code"

LEMMA LineComment ==
  ASSUME NEW t \in Seq(Chars), NEW q \in Quotes, NEW k \in 1..Len(t), k < Len(t),
         Modes(t, q)[k] = "code", t[k] = "/", t[k + 1] = "/"
  PROVE  LET n == FirstIn(t, k + 1, {"\n"})
         IN OverComment(t, q, k, IF n > Len(t) THEN n ELSE n + 1)
<1> DEFINE n == FirstIn(t, k + 1, {"\n"})
           e == IF n > Len(t) THEN n ELSE n + 1
           mode == Modes(t, q)
<1>1. Len(t) \in Nat /\ \A i \in 1..Len(t) : mode[i + 1] = NextMode(t, q, mode[i], i)
  BY ModesAre, LenProperties
<1>2. mode[k + 1] = "line"
  <2>1. q # "/"
    BY DEF Quotes
  <2>2. NextMode(t, q, "code", k) = "line"
    BY <2>1, SlashModes
  <2>3. QED
    BY <1>1, <2>2
<1>3. /\ n \in k + 1..Len(t) + 1 /\ (n <= Len(t) => t[n] = "\n")
      /\ \A i \in k + 1..n - 1 : t[i] # "\n"
  <2>1. k + 1 \in Nat /\ k + 1 <= Len(t) + 1
    BY <1>1
  <2>2. n \in k + 1..Len(t) + 1 /\ (n <= Len(t) => t[n] \in {"\n"})
    BY <2>1, FirstInRight
  <2>3. \A i \in k + 1..n - 1 : t[i] \notin {"\n"}
    BY <2>1, FirstInIsFirst
  <2> HIDE DEF n
  <2>4. QED
    BY <2>2, <2>3
<1> HIDE DEF n
<1>4. n \in k + 2..Len(t) + 1
  <2>1. n # k + 1
    BY <1>1, <1>3
  <2>2. QED
    BY <1>1, <1>3, <2>1
<1>5. \A i \in k + 1..n : mode[i] = "line"
  <2>1. \A i \in k + 1..n - 1 : NextMode(t, q, "line", i) = "line"
    BY <1>3, NextModes
  <2>2. k + 1 \in Nat /\ n - 1 \in Int /\ 1 <= k + 1 /\ n - 1 <= Len(t) /\ (n - 1) + 1 = n
    BY <1>1, <1>4
  <2> DEFINE a == k + 1
             c == n - 1
  <2>3. a \in Nat /\ c \in Int /\ 1 <= a /\ c <= Len(t) /\ mode[a] = "line"
    BY <1>2, <2>2
  <2>4. \A i \in a..c : NextMode(t, q, "line", i) = "line"
    BY <2>1
  <2> HIDE DEF a, c, mode
  <2>5. \A i \in a..c + 1 : mode[i] = "line"
    BY <2>3, <2>4, ModeStays DEF mode
  <2>6. QED
    BY <2>2, <2>5 DEF a, c
<1>6. e = Len(t) + 1 \/ mode[e] = "code"
  <2>1. CASE n > Len(t)
    <3>1. e = n
      BY <2>1
    <3> HIDE DEF e
    <3>2. n = Len(t) + 1
      <4>1. n \in Int /\ n <= Len(t) + 1 /\ Len(t) \in Nat
        BY <1>1, <1>4
      <4>2. QED
        BY <2>1, <4>1
    <3>3. QED
      BY <3>1, <3>2
  <2>2. CASE n <= Len(t)
    <3>1. n \in 1..Len(t) /\ n \in k + 1..n /\ e = n + 1
      BY <1>1, <1>4, <2>2
    <3>2. mode[n] = "line" /\ t[n] = "\n"
      BY <1>3, <1>5, <2>2, <3>1
    <3>3. NextMode(t, q, "line", n) = "code"
      BY <3>2, NextModes
    <3>4. mode[n + 1] = NextMode(t, q, mode[n], n)
      BY <1>1, <3>1
    <3> HIDE DEF e
    <3>5. QED
      BY <3>1, <3>2, <3>3, <3>4
  <2>3. QED
    BY <1>1, <1>4, <2>1, <2>2
<1>7. e \in k + 2..Len(t) + 1
  BY <1>1, <1>4
<1>8. ASSUME NEW i \in k..e - 1 PROVE Blanked(t, q)[i] \in Space
  <2>1. i \in 1..Len(t) /\ (i = k \/ i \in k + 1..n)
    BY <1>1, <1>4
  <2>2. Commented(mode, i)
    <3>1. CASE i = k
      BY <1>2, <3>1 DEF Commented, Comment
    <3>2. CASE i \in k + 1..n
      BY <1>5, <3>2 DEF Commented, Comment
    <3>3. QED
      BY <2>1, <3>1, <3>2
  <2>3. QED
    BY <2>1, <2>2, BlankedAt
<1> HIDE DEF e
<1>9. OverComment(t, q, k, e)
  BY <1>6, <1>7, <1>8 DEF OverComment
<1>10. QED
  BY <1>9 DEF e, n

LEMMA BlockComment ==
  ASSUME NEW t \in Seq(Chars), NEW q \in Quotes, NEW k \in 1..Len(t), k < Len(t),
         Modes(t, q)[k] = "code", t[k] = "/", t[k + 1] = "*"
  PROVE  LET E == {j \in k + 2..Len(t) - 1 : t[j] = "*" /\ t[j + 1] = "/"}
         IN OverComment(t, q, k, IF E = {} THEN Len(t) + 1 ELSE Min(E) + 2)
<1> DEFINE E == {j \in k + 2..Len(t) - 1 : t[j] = "*" /\ t[j + 1] = "/"}
           j == IF E = {} THEN Len(t) + 1 ELSE Min(E)
           e == IF E = {} THEN Len(t) + 1 ELSE Min(E) + 2
           mode == Modes(t, q)
<1>1. Len(t) \in Nat /\ \A i \in 1..Len(t) : mode[i + 1] = NextMode(t, q, mode[i], i)
  BY ModesAre, LenProperties
<1>2. mode[k + 1] = "open"
  <2>1. q # "/"
    BY DEF Quotes
  <2>2. NextMode(t, q, "code", k) = "open"
    BY <2>1, SlashModes
  <2>3. QED
    BY <1>1, <2>2
<1>3. mode[k + 2] = "block"
  <2>1. k + 1 \in 1..Len(t) /\ (k + 1) + 1 = k + 2
    BY <1>1
  <2>2. mode[(k + 1) + 1] = NextMode(t, q, "open", k + 1)
    BY <1>1, <1>2, <2>1
  <2>3. NextMode(t, q, "open", k + 1) = "block"
    BY NextModes
  <2>4. QED
    BY <2>1, <2>2, <2>3
<1>4. E # {} => Min(E) \in E /\ \A i \in E : Min(E) <= i
  <2> SUFFICES ASSUME E # {} PROVE Min(E) \in E /\ \A i \in E : Min(E) <= i
    OBVIOUS
  <2>1. E \subseteq Nat
    BY <1>1
  <2> HIDE DEF E
  <2>2. \E x \in E : \A y \in E : x <= y
    BY <2>1, LeastNatural
  <2>3. QED
    BY <2>2 DEF Min
<1>5. \A i \in E : i \in k + 2..Len(t) - 1 /\ t[i] = "*" /\ t[i + 1] = "/"
  OBVIOUS
<1>6. \A i \in k + 2..Len(t) : t[i] = "*" /\ i < Len(t) /\ t[i + 1] = "/" => i \in E
  BY <1>1
<1> HIDE DEF E, Min
<1>7. /\ j \in k + 2..Len(t) + 1 /\ \A i \in E : j <= i
      /\ E # {} => j \in E /\ j \in k + 2..Len(t) - 1 /\ e = j + 2
      /\ E = {} => j = Len(t) + 1 /\ e = Len(t) + 1
  <2>1. CASE E = {}
    BY <1>1, <2>1
  <2>2. CASE E # {}
    <3>1. j = Min(E) /\ e = Min(E) + 2
      BY <2>2
    <3>2. Min(E) \in k + 2..Len(t) - 1
      BY <1>4, <1>5, <2>2
    <3> HIDE DEF j, e
    <3>3. QED
      BY <1>1, <1>4, <2>2, <3>1, <3>2
  <2>3. QED
    BY <2>1, <2>2
<1> HIDE DEF j, e
<1>8. \A i \in k + 2..j : mode[i] = "block"
  <2>1. ASSUME NEW i \in k + 2..j - 1 PROVE NextMode(t, q, "block", i) = "block"
    <3>1. i \in k + 2..Len(t) /\ ~(j <= i)
      BY <1>1, <1>7
    <3>2. i \notin E
      BY <1>7, <3>1
    <3>3. ~(t[i] = "*" /\ i < Len(t) /\ t[i + 1] = "/")
      BY <1>6, <3>1, <3>2
    <3>4. QED
      BY <3>3, NextModes
  <2>2. k + 2 \in Nat /\ j - 1 \in Int /\ 1 <= k + 2 /\ j - 1 <= Len(t) /\ (j - 1) + 1 = j
    BY <1>1, <1>7
  <2> DEFINE a == k + 2
             c == j - 1
  <2>3. a \in Nat /\ c \in Int /\ 1 <= a /\ c <= Len(t) /\ mode[a] = "block"
    BY <1>3, <2>2
  <2>4. \A i \in a..c : NextMode(t, q, "block", i) = "block"
    BY <2>1
  <2> HIDE DEF a, c, mode
  <2>5. \A i \in a..c + 1 : mode[i] = "block"
    BY <2>3, <2>4, ModeStays DEF mode
  <2>6. QED
    BY <2>2, <2>5 DEF a, c
<1>9. E # {} => mode[j + 1] = "close" /\ mode[j + 2] = "code"
  <2> SUFFICES ASSUME E # {} PROVE mode[j + 1] = "close" /\ mode[j + 2] = "code"
    OBVIOUS
  <2>1. /\ j \in 1..Len(t) /\ j + 1 \in 1..Len(t) /\ (j + 1) + 1 = j + 2 /\ j < Len(t)
        /\ j \in k + 2..j
    BY <1>1, <1>7
  <2>2. t[j] = "*" /\ t[j + 1] = "/" /\ mode[j] = "block"
    BY <1>5, <1>7, <1>8, <2>1
  <2>3. NextMode(t, q, "block", j) = "close" /\ NextMode(t, q, "close", j + 1) = "code"
    BY <2>1, <2>2, NextModes
  <2>4. mode[j + 1] = "close"
    BY <1>1, <2>1, <2>2, <2>3
  <2>5. mode[(j + 1) + 1] = "code"
    BY <1>1, <2>1, <2>3, <2>4
  <2>6. QED
    BY <2>1, <2>4, <2>5
<1>10. ASSUME NEW i \in k..e - 1 PROVE Blanked(t, q)[i] \in Space
  <2>1. /\ i \in 1..Len(t)
        /\ i = k \/ i = k + 1 \/ i \in k + 2..j \/ (E # {} /\ i = j + 1)
    <3>1. CASE E = {}
      BY <1>1, <1>7, <3>1
    <3>2. CASE E # {}
      BY <1>1, <1>7, <3>2
    <3>3. QED
      BY <3>1, <3>2
  <2>2. Commented(mode, i)
    <3>1. CASE i = k
      BY <1>2, <3>1 DEF Commented, Comment
    <3>2. CASE i = k + 1
      BY <1>2, <3>2 DEF Commented, Comment
    <3>3. CASE i \in k + 2..j
      BY <1>8, <3>3 DEF Commented, Comment
    <3>4. CASE E # {} /\ i = j + 1
      BY <1>9, <3>4 DEF Commented, Comment
    <3>5. QED
      BY <2>1, <3>1, <3>2, <3>3, <3>4
  <2>3. QED
    BY <2>1, <2>2, BlankedAt
<1>11. e \in k + 2..Len(t) + 1 /\ (e = Len(t) + 1 \/ mode[e] = "code")
  <2>1. CASE E = {}
    BY <1>1, <1>7, <2>1
  <2>2. CASE E # {}
    BY <1>1, <1>7, <1>9, <2>2
  <2>3. QED
    BY <2>1, <2>2
<1>12. OverComment(t, q, k, e)
  BY <1>10, <1>11 DEF OverComment
<1>13. QED
  BY <1>12 DEF e, E

\* A character of the code that begins no comment stays, and code or a string
\* goes on behind it.
LEMMA CodeStays ==
  ASSUME NEW t \in Seq(Chars), NEW q \in Quotes, NEW k \in 1..Len(t),
         Modes(t, q)[k] = "code",
         ~(k < Len(t) /\ t[k] = "/" /\ t[k + 1] \in {"/", "*"})
  PROVE  /\ Blanked(t, q)[k] = t[k]
         /\ t[k] = q => Modes(t, q)[k + 1] = "string"
         /\ t[k] # q => Modes(t, q)[k + 1] = "code"
<1>1. Modes(t, q)[k + 1] = NextMode(t, q, "code", k)
  BY ModesAre
<1>2. q # "/"
  BY DEF Quotes
<1>3. t[k] = q => NextMode(t, q, "code", k) = "string"
  BY <1>2 DEF NextMode
<1>4. t[k] # q => NextMode(t, q, "code", k) = "code"
  <2>1. CASE t[k] = "/"
    BY <1>2, <2>1, SlashModes
  <2>2. CASE t[k] # "/"
    BY <2>2, NextModes
  <2>3. QED
    BY <2>1, <2>2
<1>5. ~Commented(Modes(t, q), k)
  BY <1>1, <1>3, <1>4 DEF Commented, Comment
<1>6. QED
  BY <1>1, <1>3, <1>4, <1>5, BlankedAt

LEMMA CharPlace ==
  ASSUME NEW l \in LexerObjects
  PROVE  Char(l).err \/ Char(l).pos = l.pos
<1>1. Throw(l).err
  BY ThrowRight
<1>2. \A x : Return(l, x).pos = l.pos
  BY DEF Return, LexerObjects, LexerFields
<1>3. QED
  BY <1>1, <1>2 DEF Char

\* A lexer on the text t, in the code of it or at its end.
InCode(l, t, q) ==
  /\ l.text = t /\ QuoteChar(l) = q /\ l.style.comments = "c"
  /\ l.pos = Len(t) \/ Modes(t, q)[l.pos + 1] = "code"
AtComment(l, t) ==
  l.pos + 1 < Len(t) /\ t[l.pos + 1] = "/" /\ t[l.pos + 2] \in {"/", "*"}

\* The characters of the code that begins with neither a comment nor a space.
LEMMA LexTwin ==
  ASSUME NEW t \in Seq(Chars), NEW q \in Quotes, NEW b, b = Blanked(t, q),
         NEW l \in LexerObjects, InCode(l, t, q), ~AtComment(l, t)
  PROVE  /\ LexToken(Twin(l, b), ReadToken) = Twin(LexToken(l, ReadToken), b)
         /\ Good(LexToken(l, ReadToken), t, q)
<1> DEFINE c == Peek(l)
           m == [l EXCEPT !.pos = @ + 1]
           n == Twin(l, b)
           o == [n EXCEPT !.pos = @ + 1]
           r == LexToken(l, ReadToken)
           u == LexToken(n, ReadToken)
           k == l.pos + 1
           plain == {"=", "(", ")", "{", "}", "[", "]", ","}
           digits == Digit \cup {".", "+", "-"}
           Slash(x) == CASE Peek(x) = EOF -> Return(x, "SLASH")
                         [] Peek(x) = "/" -> ReadToken[SkipLine(x)]
                         [] Peek(x) = "*" -> ReadToken[SkipBlock([x EXCEPT !.pos = @ + 1])]
                         [] OTHER -> Throw(x)
           Lexed(y, x) ==
             CASE c = EOF -> Return(y, "END")
               [] c \in {"#", "%"} -> Char(x)
               [] c = "/" -> Slash(x)
               [] c \in plain -> Char(x)
               [] c \in {"\"", "'"} ->
                    IF q # c THEN Char(x) ELSE Quoted([x EXCEPT !.str = <<>>])
               [] c \in digits -> Number(x)
               [] c \in Letter -> Identifier(x)
               [] OTHER -> Throw(x)
<1>1. /\ l.text = t /\ QuoteChar(l) = q /\ l.style.comments = "c"
      /\ l.pos = Len(t) \/ Modes(t, q)[k] = "code"
      /\ l.pos \in 0..Len(t) /\ Len(t) \in Nat
  BY LexerTypes DEF InCode
<1>2. b \in Seq(Chars) /\ Len(b) = Len(t) /\ \A i \in 1..Len(t) : b[i] = t[i] \/ b[i] = " "
  BY BlankedText
<1>3. n \in LexerObjects /\ n.text = b /\ n.pos = l.pos /\ QuoteChar(n) = q /\ n.style.comments = "c"
  BY <1>1, <1>2, TwinRight
<1>4. l.pos < Len(t) => /\ k \in 1..Len(t) /\ b[k] = t[k] /\ Modes(t, q)[k] = "code"
                        /\ t[k] = q => Modes(t, q)[k + 1] = "string"
                        /\ t[k] # q => Modes(t, q)[k + 1] = "code"
  <2> SUFFICES ASSUME l.pos < Len(t)
               PROVE  /\ k \in 1..Len(t) /\ b[k] = t[k] /\ Modes(t, q)[k] = "code"
                      /\ t[k] = q => Modes(t, q)[k + 1] = "string"
                      /\ t[k] # q => Modes(t, q)[k + 1] = "code"
    OBVIOUS
  <2>1. k \in 1..Len(t) /\ k + 1 = l.pos + 2 /\ Modes(t, q)[k] = "code"
    BY <1>1
  <2>2. ~(k < Len(t) /\ t[k] = "/" /\ t[k + 1] \in {"/", "*"})
    BY <2>1 DEF AtComment
  <2> HIDE DEF k
  <2>3. QED
    BY <2>1, <2>2, CodeStays
<1>5. c # EOF => l.pos < Len(t) /\ c = t[k] /\ c \in Chars
  BY <1>1, PeekRight
<1>6. c = EOF => l.pos = Len(t)
  <2>1. l.pos < Len(t) => c = t[k] /\ t[k] \in Chars
    <3>1. l.pos < Len(t) => c = t[k]
      BY <1>1 DEF Peek
    <3>2. l.pos < Len(t) => t[k] \in Chars
      BY <1>4, ElementOfSeq
    <3>3. QED
      BY <3>1, <3>2
  <2>2. l.pos < Len(t) \/ l.pos = Len(t)
    BY <1>1
  <2>3. EOF \notin Chars
    BY CharsKnown
  <2> HIDE DEF c, k
  <2>4. QED
    BY <2>1, <2>2, <2>3
<1>7. Peek(n) = c
  BY <1>1, <1>2, <1>3, <1>4 DEF Peek
<1>8. o = Twin(m, b)
  BY DEF Twin, LexerObjects, LexerFields
<1>9. c # EOF => /\ m \in LexerObjects /\ m.text = t /\ m.pos = k /\ m.pos >= 1
                 /\ QuoteChar(m) = q
  <2>1. c # EOF => k \in Nat /\ k <= Len(t) /\ k >= 1
    BY <1>1, <1>5
  <2>2. m.text = t /\ m.pos = k /\ m.style = l.style
    BY <1>1 DEF LexerObjects, LexerFields
  <2>3. c # EOF => m \in LexerObjects
    BY <1>1, <2>1 DEF LexerObjects, LexerFields
  <2> HIDE DEF m, c, k
  <2>4. QED
    BY <1>1, <2>1, <2>2, <2>3 DEF QuoteChar
<1> HIDE DEF c, plain, digits, Slash, k
<1>10. r = Lexed(l, m)
  BY <1>1 DEF LexToken, c, plain, digits, Slash
<1>11. u = Lexed(n, o)
  BY <1>3, <1>7 DEF LexToken, c, plain, digits, Slash
<1> HIDE DEF m, n, o, r, u
<1>12. /\ EOF \notin plain /\ EOF \notin digits /\ EOF \notin Letter
       /\ EOF \notin {"#", "%", "/", "\"", "'"}
  BY DEF Letter, Digit, DigitValue, EOF, plain, digits
<1>13. /\ plain \cap {"#", "%", "/"} = {} /\ plain \cap {"\"", "'"} = {}
       /\ digits \cap {"#", "%", "/", "\"", "'"} = {} /\ digits \cap plain = {}
       /\ Letter \cap {"#", "%", "/", "\"", "'"} = {} /\ Letter \cap plain = {}
       /\ Letter \cap digits = {}
  BY DEF Letter, Digit, DigitValue, plain, digits
<1>14. q \in {"\"", "'"}
  BY DEF Quotes
<1>15. ASSUME c # EOF, c # q
       PROVE Char(o) = Twin(Char(m), b) /\ Good(Char(m), t, q)
  <2>1. Char(o) = Twin(Char(m), b)
    BY <1>2, <1>4, <1>5, <1>8, <1>9, <1>15, CharTwin
  <2>2. Char(m).err \/ Char(m).pos = k
    BY <1>9, <1>15, CharPlace
  <2>3. Modes(t, q)[k + 1] = "code"
    BY <1>4, <1>5, <1>15
  <2>4. QED
    BY <2>1, <2>2, <2>3 DEF Good
<1>16. c # EOF => Throw(o) = Twin(Throw(m), b) /\ Good(Throw(m), t, q)
  BY <1>8, <1>9, ThrowTwin, ThrowRight DEF Good
<1>17. CASE c = EOF
  <2>1. r = Return(l, "END") /\ u = Return(n, "END")
    BY <1>10, <1>11, <1>12, <1>17
  <2>2. Return(n, "END") = Twin(Return(l, "END"), b)
    BY ReturnTwin DEF n
  <2>3. Return(l, "END").pos = Len(t)
    BY <1>6, <1>17 DEF Return, LexerObjects, LexerFields
  <2>4. QED
    BY <2>1, <2>2, <2>3 DEF Good, r, u, n
<1>18. CASE c \in {"#", "%"}
  <2>1. r = Char(m) /\ u = Char(o)
    BY <1>10, <1>11, <1>12, <1>13, <1>18
  <2>2. c # EOF /\ c # q
    BY <1>12, <1>14, <1>18
  <2>3. QED
    BY <1>15, <2>1, <2>2 DEF r, u, n
<1>19. CASE c = "/"
  <2>1. r = Slash(m) /\ u = Slash(o)
    BY <1>10, <1>11, <1>12, <1>13, <1>19
  <2>2. c # EOF /\ c # q
    BY <1>12, <1>14, <1>19
  <2>3. k \in 1..Len(t) /\ t[k] = "/" /\ m \in LexerObjects /\ m.text = t /\ m.pos = k
    BY <1>4, <1>5, <1>9, <1>19, <2>2
  <2>4. o.text = b /\ o.pos = k
    BY <1>2, <1>8, <2>3, TwinRight
  <2>5. CASE k = Len(t)
    <3>1. Peek(m) = EOF /\ Peek(o) = EOF
      <4>1. ~(m.pos < Len(m.text))
        BY <1>1, <2>3, <2>5
      <4>2. ~(o.pos < Len(o.text))
        <5>1. Len(o.text) = Len(t) /\ o.pos = Len(t) /\ Len(t) \in Nat
          BY <1>1, <1>2, <2>4, <2>5
        <5>2. QED
          BY <5>1
      <4>3. QED
        BY <4>1, <4>2 DEF Peek
    <3>2. r = Return(m, "SLASH") /\ u = Return(o, "SLASH")
      BY <2>1, <3>1 DEF Slash, EOF
    <3>3. Return(m, "SLASH").pos = Len(t)
      BY <2>3, <2>5 DEF Return, LexerObjects, LexerFields
    <3>4. QED
      BY <1>8, <2>3, <3>2, <3>3, ReturnTwin DEF Good, r, u, n
  <2>6. CASE k < Len(t)
    <3>1. k + 1 \in 1..Len(t) /\ k = l.pos + 1 /\ k + 1 = l.pos + 2
      BY <1>1, <2>3, <2>6 DEF k
    <3>2. t[k + 1] \notin {"/", "*"}
      BY <2>3, <2>6, <3>1 DEF AtComment
    <3>3. Peek(m) = t[k + 1] /\ Peek(o) = b[k + 1]
      BY <1>2, <2>3, <2>4, <2>6 DEF Peek
    <3>4. t[k + 1] \in Chars /\ b[k + 1] \in Chars
      BY <1>2, <3>1, ElementOfSeq
    <3>5. b[k + 1] \notin {"/", "*"}
      BY <1>2, <3>1, <3>2
    <3>6. Peek(m) \notin {EOF, "/", "*"} /\ Peek(o) \notin {EOF, "/", "*"}
      BY <3>2, <3>3, <3>4, <3>5, CharsKnown
    <3>7. r = Throw(m) /\ u = Throw(o)
      BY <2>1, <3>6 DEF Slash
    <3>8. QED
      BY <1>16, <2>2, <3>7 DEF r, u, n
  <2>7. k = Len(t) \/ k < Len(t)
    BY <1>1, <2>3
  <2>8. QED
    BY <2>5, <2>6, <2>7
<1>20. CASE c \in plain
  <2>1. r = Char(m) /\ u = Char(o)
    BY <1>10, <1>11, <1>12, <1>13, <1>20
  <2>2. c # EOF /\ c # q
    BY <1>12, <1>13, <1>14, <1>20
  <2>3. QED
    BY <1>15, <2>1, <2>2 DEF r, u, n
<1>21. CASE c \in {"\"", "'"}
  <2>1. c # EOF
    BY <1>12, <1>21
  <2>2. CASE q # c
    <3>1. r = Char(m) /\ u = Char(o)
      BY <1>10, <1>11, <1>12, <1>13, <1>21, <2>2
    <3>2. QED
      BY <1>15, <2>1, <2>2, <3>1 DEF r, u, n
  <2>3. CASE q = c
    <3> DEFINE s == [m EXCEPT !.str = <<>>]
    <3>1. r = Quoted(s) /\ u = Quoted([o EXCEPT !.str = <<>>])
      BY <1>10, <1>11, <1>12, <1>13, <1>21, <2>3
    <3>2. m \in LexerObjects /\ m.text = t /\ m.pos = k /\ QuoteChar(m) = q
      BY <1>9, <2>1
    <3>3. /\ s \in LexerObjects /\ s.text = t /\ s.pos = k /\ QuoteChar(s) = q
          /\ [o EXCEPT !.str = <<>>] = Twin(s, b)
      <4>1. <<>> \in Seq(Chars)
        OBVIOUS
      <4>2. s \in LexerObjects /\ s.text = t /\ s.pos = k /\ s.style = m.style
        BY <3>2, <4>1 DEF LexerObjects, LexerFields
      <4>3. [o EXCEPT !.str = <<>>] = Twin(s, b)
        BY <1>8, <3>2 DEF Twin, LexerObjects, LexerFields
      <4> HIDE DEF s
      <4>4. QED
        BY <3>2, <4>2, <4>3 DEF QuoteChar
    <3> HIDE DEF s
    <3>4. Modes(t, q)[k + 1] = "string"
      BY <1>4, <1>5, <2>1, <2>3
    <3>5. QuotedAlike(s, t, q, b)
      BY <3>3, <3>4, QuotedTwin DEF InString
    <3>6. QED
      BY <3>1, <3>3, <3>5 DEF QuotedAlike, r, u, n
  <2>4. QED
    BY <2>2, <2>3
<1>22. CASE c \in digits
  <2>1. r = Number(m) /\ u = Number(o)
    BY <1>10, <1>11, <1>12, <1>13, <1>22
  <2>2. c # EOF
    BY <1>12, <1>22
  <2>3. m \in LexerObjects /\ m.pos >= 1 /\ m.pos = k /\ m.text = t
    BY <1>9, <2>2
  <2>4. Modes(t, q)[m.pos] = "code" /\ t[m.pos] \in Digit \cup {".", "+", "-"}
    BY <1>4, <1>5, <1>22, <2>2, <2>3 DEF digits
  <2>5. Number(Twin(m, b)) = Twin(Number(m), b) /\ Good(Number(m), t, q)
    BY <2>3, <2>4, NumberTwin
  <2>6. QED
    BY <1>8, <2>1, <2>5 DEF r, u, n
<1>23. CASE c \in Letter
  <2>1. r = Identifier(m) /\ u = Identifier(o)
    BY <1>10, <1>11, <1>12, <1>13, <1>23
  <2>2. c # EOF
    BY <1>12, <1>23
  <2>3. m \in LexerObjects /\ m.pos >= 1 /\ m.pos = k /\ m.text = t
    BY <1>9, <2>2
  <2>4. Modes(t, q)[m.pos] = "code" /\ t[m.pos] \in Letter
    BY <1>4, <1>5, <1>23, <2>2, <2>3
  <2>5. Identifier(Twin(m, b)) = Twin(Identifier(m), b) /\ Good(Identifier(m), t, q)
    BY <2>3, <2>4, IdentifierTwin
  <2>6. QED
    BY <1>8, <2>1, <2>5 DEF r, u, n
<1>24. CASE c \notin {EOF, "#", "%", "/", "\"", "'"} /\ c \notin plain /\ c \notin digits /\ c \notin Letter
  <2>1. r = Throw(m) /\ u = Throw(o)
    BY <1>10, <1>11, <1>24
  <2>2. QED
    BY <1>16, <1>24, <2>1 DEF r, u, n
<1>25. QED
  BY <1>17, <1>18, <1>19, <1>20, <1>21, <1>22, <1>23, <1>24

\* A comment is skipped, and what follows it is read.
LEMMA CommentSkipped ==
  ASSUME NEW t \in Seq(Chars), NEW q \in Quotes,
         NEW l \in LexerObjects, InCode(l, t, q), AtComment(l, t)
  PROVE  \E e : /\ OverComment(t, q, l.pos + 1, e)
                /\ LexToken(l, ReadToken) = Scan(SkipTo(l, e))
<1> DEFINE k == l.pos + 1
           m == [l EXCEPT !.pos = @ + 1]
           o == [m EXCEPT !.pos = @ + 1]
           r == LexToken(l, ReadToken)
<1>1. /\ l.text = t /\ l.style.comments = "c" /\ l.pos \in 0..Len(t) /\ Len(t) \in Nat
      /\ k \in 1..Len(t) /\ k < Len(t) /\ k + 1 = l.pos + 2 /\ l.pos < Len(t)
      /\ t[k] = "/" /\ t[k + 1] \in {"/", "*"} /\ Modes(t, q)[k] = "code"
  <2>1. l.text = t /\ l.style.comments = "c" /\ l.pos \in 0..Len(t) /\ Len(t) \in Nat
    BY LexerTypes DEF InCode
  <2>2. k \in 1..Len(t) /\ k < Len(t) /\ k + 1 = l.pos + 2 /\ l.pos < Len(t) /\ l.pos # Len(t)
    BY <2>1 DEF AtComment
  <2>3. t[k] = "/" /\ t[k + 1] \in {"/", "*"}
    BY <2>2 DEF AtComment
  <2>4. Modes(t, q)[k] = "code"
    BY <2>2 DEF InCode
  <2>5. QED
    BY <2>1, <2>2, <2>3, <2>4
<1>2. Peek(l) = "/"
  BY <1>1 DEF Peek
<1>3. m = SkipTo(l, k + 1) /\ m \in LexerObjects /\ m.text = t /\ m.pos = k
  <2>1. l.text[l.pos + 1] # "\n" /\ l.pos < Len(l.text)
    BY <1>1
  <2>2. m = SkipTo(l, l.pos + 2)
    BY <2>1, TakenIsSkipped
  <2>3. Goes(l, m) /\ m.pos = l.pos + 1
    BY <2>1, TakenRight
  <2> HIDE DEF m
  <2>4. QED
    BY <1>1, <2>2, <2>3 DEF Goes, Later, OnText
<1>4. k \in Nat /\ k + 1 \in Nat /\ k + 2 \in Nat /\ (k + 1) + 1 = k + 2
  BY <1>1
<1>5. Peek(m) = t[k + 1]
  <2>1. m.pos < Len(m.text) /\ m.pos + 1 = k + 1
    BY <1>1, <1>3
  <2> HIDE DEF m, k
  <2>2. QED
    BY <1>3, <2>1 DEF Peek
<1>6. r = CASE t[k + 1] = "/" -> ReadToken[SkipLine(m)]
            [] t[k + 1] = "*" -> ReadToken[SkipBlock(o)]
  <2> DEFINE c == Peek(l)
             p == Peek(m)
             plain == {"=", "(", ")", "{", "}", "[", "]", ","}
             digits == Digit \cup {".", "+", "-"}
             slash == CASE p = EOF -> Return(m, "SLASH")
                        [] p = "/" -> ReadToken[SkipLine(m)]
                        [] p = "*" -> ReadToken[SkipBlock(o)]
                        [] OTHER -> Throw(m)
  <2>1. r = CASE c = EOF -> Return(l, "END")
              [] c \in {"#", "%"} -> Char(m)
              [] c = "/" -> slash
              [] c \in plain -> Char(m)
              [] c \in {"\"", "'"} ->
                   IF QuoteChar(l) # c THEN Char(m) ELSE Quoted([m EXCEPT !.str = <<>>])
              [] c \in digits -> Number(m)
              [] c \in Letter -> Identifier(m)
              [] OTHER -> Throw(m)
    BY <1>1 DEF LexToken
  <2>2. "/" \notin plain /\ "/" \notin digits /\ "/" \notin Letter
    BY DEF Letter, Digit, DigitValue
  <2> HIDE DEF c, p, plain, digits, slash, r, m, o, k
  <2>3. c = "/"
    BY <1>2 DEF c
  <2>4. r = slash
    BY <2>1, <2>2, <2>3 DEF EOF
  <2>5. p = t[k + 1]
    BY <1>5 DEF p
  <2>6. CASE t[k + 1] = "/"
    BY <2>4, <2>5, <2>6 DEF slash, EOF
  <2>7. CASE t[k + 1] = "*"
    BY <2>4, <2>5, <2>7 DEF slash, EOF
  <2>8. QED
    BY <1>1, <2>6, <2>7
<1> HIDE DEF m, r, k
<1>7. ASSUME NEW e, OverComment(t, q, k, e), NEW a \in k + 1..k + 2, NEW x, x = SkipTo(l, a)
      PROVE  SkipTo(x, e) = SkipTo(l, e) /\ SkipTo(l, e) \in LexerObjects
  <2>1. e \in k + 2..Len(t) + 1
    BY <1>7 DEF OverComment
  <2>2. /\ a \in l.pos + 1..Len(l.text) + 1 /\ e \in a..Len(l.text) + 1
        /\ e \in l.pos + 1..Len(l.text) + 1
    BY <1>1, <1>4, <1>7, <2>1
  <2>3. SkipTo(SkipTo(l, a), e) = SkipTo(l, e)
    BY <2>2, SkipToSkipTo
  <2>4. SkipTo(l, e) \in LexerObjects
    BY <2>2, SkipToRight DEF Goes, Later, OnText
  <2>5. QED
    BY <1>7, <2>3, <2>4
<1>8. CASE t[k + 1] = "/"
  <2> DEFINE n == FirstIn(t, k + 1, {"\n"})
             e == IF n > Len(t) THEN n ELSE n + 1
  <2>1. OverComment(t, q, k, e)
    BY <1>1, <1>8, LineComment
  <2>2. SkipLine(m) = SkipTo(m, e)
    BY <1>3 DEF SkipLine
  <2> HIDE DEF e
  <2>3. k + 1 \in k + 1..k + 2
    BY <1>4
  <2>4. SkipLine(m) = SkipTo(l, e) /\ SkipTo(l, e) \in LexerObjects
    BY <1>3, <1>7, <2>1, <2>2, <2>3
  <2>5. r = ReadToken[SkipTo(l, e)]
    BY <1>6, <1>8, <2>4
  <2>6. r = Scan(SkipTo(l, e))
    BY <2>4, <2>5 DEF ReadToken
  <2>7. QED
    BY <2>1, <2>6 DEF r, k
<1>9. CASE t[k + 1] = "*"
  <2> DEFINE E == {j \in k + 2..Len(t) - 1 : t[j] = "*" /\ t[j + 1] = "/"}
             e == IF E = {} THEN Len(t) + 1 ELSE Min(E) + 2
  <2>1. OverComment(t, q, k, e)
    BY <1>1, <1>9, BlockComment
  <2>2. o = SkipTo(l, k + 2) /\ o.text = t /\ o.pos = k + 1
    <3>1. m.text[m.pos + 1] # "\n" /\ m.pos < Len(m.text) /\ m.pos + 2 = k + 2
      BY <1>1, <1>3, <1>4, <1>9
    <3>2. o = SkipTo(m, m.pos + 2)
      BY <1>3, <3>1, TakenIsSkipped
    <3>3. Goes(m, o) /\ o.pos = m.pos + 1
      BY <1>3, <3>1, TakenRight
    <3> HIDE DEF o, E, e
    <3>4. SkipTo(SkipTo(l, k + 1), k + 2) = SkipTo(l, k + 2)
      <4>1. k + 1 \in l.pos + 1..Len(l.text) + 1 /\ k + 2 \in k + 1..Len(l.text) + 1
        BY <1>1 DEF k
      <4>2. QED
        BY <4>1, SkipToSkipTo
    <3>5. o = SkipTo(l, k + 2)
      BY <1>3, <3>1, <3>2, <3>4
    <3>6. QED
      BY <1>3, <3>3, <3>5 DEF Goes, Later, OnText
  <2> HIDE DEF o
  <2>3. SkipBlock(o) = SkipTo(o, e)
    <3>1. o.pos + 1 = k + 2
      BY <1>4, <2>2
    <3>2. QED
      BY <2>2, <3>1 DEF SkipBlock
  <2> HIDE DEF e
  <2>4. k + 2 \in k + 1..k + 2
    BY <1>4
  <2>5. SkipBlock(o) = SkipTo(l, e) /\ SkipTo(l, e) \in LexerObjects
    BY <1>7, <2>1, <2>2, <2>3, <2>4
  <2>6. r = ReadToken[SkipTo(l, e)]
    BY <1>6, <1>9, <2>5
  <2>7. r = Scan(SkipTo(l, e))
    BY <2>5, <2>6 DEF ReadToken
  <2>8. QED
    BY <2>1, <2>7 DEF r, k
<1>10. QED
  BY <1>1, <1>8, <1>9

\* What comes next is read alike.
ScanAlike(l, t, q, b) ==
  Scan(Twin(l, b)) = Twin(Scan(l), b) /\ Good(Scan(l), t, q)

LEMMA ScanTurn ==
  ASSUME NEW t \in Seq(Chars), NEW q \in Quotes, NEW b, b = Blanked(t, q),
         NEW l \in LexerObjects, InCode(l, t, q),
         \A r \in LexerObjects :
           r.pos > l.pos /\ InCode(r, t, q) => ScanAlike(r, t, q, b)
  PROVE  ScanAlike(l, t, q, b)
<1> DEFINE f == FirstOutside(t, l.pos + 1, Space)
           h == SkipTo(l, f)
           n == Twin(l, b)
<1>1. /\ l.text = t /\ QuoteChar(l) = q /\ l.style.comments = "c"
      /\ l.pos = Len(t) \/ Modes(t, q)[l.pos + 1] = "code"
      /\ l.pos \in 0..Len(t) /\ Len(t) \in Nat
  BY LexerTypes DEF InCode
<1>2. b \in Seq(Chars) /\ Len(b) = Len(t) /\ \A i \in 1..Len(t) : b[i] = t[i] \/ b[i] = " "
  BY BlankedText
<1>3. n \in LexerObjects /\ n.text = b /\ n.pos = l.pos
  BY <1>1, <1>2, TwinRight
<1>4. SameLines(b, t)
  BY BlankedLines
<1>5. /\ f \in l.pos + 1..Len(t) + 1 /\ \A i \in l.pos + 1..f - 1 : t[i] \in Space
      /\ f <= Len(t) => t[f] \notin Space
  <2>1. l.pos + 1 \in Nat /\ l.pos + 1 <= Len(t) + 1
    BY <1>1
  <2>2. f \in l.pos + 1..Len(t) + 1 /\ \A i \in l.pos + 1..f - 1 : t[i] \in Space
    BY <2>1, FirstOutsideRight
  <2>3. f <= Len(t) => t[f] \notin Space
    BY <2>1, FirstOutsideStops
  <2>4. QED
    BY <2>2, <2>3
<1>6. SkipSpace(l) = h
  BY <1>1 DEF SkipSpace
<1> HIDE DEF f
<1>7. h \in LexerObjects /\ h.text = t /\ h.style = l.style /\ h.pos = f - 1
  BY <1>1, <1>5, SkipToRight DEF Goes, Later, OnText
<1> HIDE DEF h, n
<1>8. \A i \in l.pos + 1..f - 1 : b[i] = t[i]
  <2>1. CASE l.pos = Len(t)
    BY <1>1, <1>5, <2>1
  <2>2. CASE l.pos # Len(t)
    <3>1. \A i \in l.pos + 1..f - 1 : t[i] \notin {"/", q}
      BY <1>5, PlainChars
    <3>2. /\ l.pos + 1 \in Nat /\ f \in Nat /\ 1 <= l.pos + 1 /\ l.pos + 1 <= f
          /\ f <= Len(t) + 1
      BY <1>1, <1>5
    <3>3. Modes(t, q)[l.pos + 1] = "code"
      BY <1>1, <2>2
    <3>4. QED
      BY <3>1, <3>2, <3>3, PlainUpTo
  <2>3. QED
    BY <2>1, <2>2
<1>9. f <= Len(t) => Modes(t, q)[f] = "code"
  <2> SUFFICES ASSUME f <= Len(t) PROVE Modes(t, q)[f] = "code"
    OBVIOUS
  <2>1. \A i \in l.pos + 1..f - 1 : t[i] \notin {"/", q}
    BY <1>5, PlainChars
  <2>2. /\ l.pos + 1 \in Nat /\ f \in Nat /\ 1 <= l.pos + 1 /\ l.pos + 1 <= f
        /\ f <= Len(t) + 1 /\ l.pos # Len(t)
    BY <1>1, <1>5
  <2>3. Modes(t, q)[l.pos + 1] = "code"
    BY <1>1, <2>2
  <2>4. QED
    BY <2>1, <2>2, <2>3, PlainUpTo
<1>10. InCode(h, t, q)
  <2>1. h.pos = Len(t) \/ (f <= Len(t) /\ h.pos + 1 = f)
    BY <1>1, <1>5, <1>7
  <2>2. QuoteChar(h) = q
    BY <1>1, <1>7 DEF QuoteChar
  <2>3. QED
    BY <1>1, <1>7, <1>9, <2>1, <2>2 DEF InCode
<1>11. /\ Scan(l) = LexToken(h, ReadToken)
       /\ Scan(n) = LexToken(SkipSpace(n), ReadToken)
  BY <1>3, <1>6, ScanEnds
<1>12. h.pos + 1 = f
  BY <1>1, <1>5, <1>7
<1>13. CASE AtComment(h, t)
  <2>1. PICK e : /\ OverComment(t, q, f, e)
                 /\ LexToken(h, ReadToken) = Scan(SkipTo(h, e))
    BY <1>7, <1>10, <1>12, <1>13, CommentSkipped
  <2> DEFINE r == SkipTo(l, e)
  <2>2. /\ e \in f + 2..Len(t) + 1 /\ \A i \in f..e - 1 : b[i] \in Space
        /\ e = Len(t) + 1 \/ Modes(t, q)[e] = "code"
    BY <2>1 DEF OverComment
  <2>3. e \in l.pos + 1..Len(t) + 1 /\ e \in f..Len(t) + 1 /\ e - 1 > l.pos
    BY <1>1, <1>5, <2>2
  <2>4. SkipTo(h, e) = r
    BY <1>1, <1>5, <2>3, SkipToSkipTo DEF h
  <2>5. r \in LexerObjects /\ r.text = t /\ r.style = l.style /\ r.pos = e - 1
    BY <1>1, <2>3, SkipToRight DEF Goes, Later, OnText
  <2>6. Twin(r, b) = SkipTo(n, e)
    BY <1>1, <1>4, <2>3, SkipToTwin DEF n
  <2> HIDE DEF r
  <2>7. InCode(r, t, q)
    <3>1. r.pos = Len(t) \/ (r.pos + 1 = e /\ e # Len(t) + 1)
      BY <1>1, <2>3, <2>5
    <3>2. QuoteChar(r) = q
      BY <1>1, <2>5 DEF QuoteChar
    <3>3. QED
      BY <1>1, <2>2, <2>5, <3>1, <3>2 DEF InCode
  <2>8. ScanAlike(r, t, q, b)
    BY <2>3, <2>5, <2>7
  <2>9. \A i \in l.pos + 1..e - 1 : b[i] \in Space
    <3>1. \A i \in l.pos + 1..e - 1 : i \in l.pos + 1..f - 1 \/ i \in f..e - 1
      BY <1>1, <1>5, <2>3
    <3>2. QED
      BY <1>5, <1>8, <2>2, <3>1
  <2>10. SkipSpace(SkipTo(n, e)) = SkipSpace(n)
    BY <1>2, <1>3, <2>3, <2>9, SpaceOver
  <2>11. Twin(r, b) \in LexerObjects
    BY <1>2, <2>5, TwinRight
  <2>12. Scan(Twin(r, b)) = Scan(n)
    BY <1>11, <2>6, <2>10, <2>11, ScanEnds
  <2>13. Scan(l) = Scan(r)
    BY <1>11, <2>1, <2>4
  <2>14. QED
    BY <2>8, <2>12, <2>13 DEF ScanAlike, n
<1>14. CASE ~AtComment(h, t)
  <2>1. f <= Len(t) => b[f] = t[f]
    <3> SUFFICES ASSUME f <= Len(t) PROVE b[f] = t[f]
      OBVIOUS
    <3>1. f \in 1..Len(t) /\ f + 1 = h.pos + 2
      <4>1. f \in Int /\ f >= 1
        BY <1>1, <1>5
      <4>2. QED
        BY <1>1, <1>7, <4>1
    <3>2. ~(f < Len(t) /\ t[f] = "/" /\ t[f + 1] \in {"/", "*"})
      BY <1>12, <1>14, <3>1 DEF AtComment
    <3>3. QED
      BY <1>9, <3>1, <3>2, CodeStays
  <2>2. FirstOutside(b, n.pos + 1, Space) = f
    <3>1. /\ l.pos + 1 \in Nat /\ f \in l.pos + 1..Len(b) + 1
          /\ \A i \in l.pos + 1..f - 1 : b[i] \in Space
      <4>1. l.pos + 1 \in Nat
        BY <1>1
      <4>2. f \in l.pos + 1..Len(b) + 1
        BY <1>2, <1>5
      <4>3. QED
        BY <1>5, <1>8, <4>1, <4>2
    <3>2. f <= Len(b) => b[f] \notin Space
      BY <1>2, <1>5, <2>1
    <3>3. QED
      BY <1>2, <1>3, <3>1, <3>2, FirstOutsideIs
  <2>3. SkipSpace(n) = SkipTo(n, f)
    BY <1>3, <2>2 DEF SkipSpace
  <2>4. SkipTo(n, f) = Twin(h, b)
    BY <1>1, <1>4, <1>5, SkipToTwin DEF h, n
  <2>5. /\ LexToken(Twin(h, b), ReadToken) = Twin(LexToken(h, ReadToken), b)
        /\ Good(LexToken(h, ReadToken), t, q)
    BY <1>7, <1>10, <1>14, LexTwin
  <2>6. QED
    BY <1>11, <2>3, <2>4, <2>5 DEF ScanAlike, n
<1>15. QED
  BY <1>13, <1>14

LEMMA ScanTwin ==
  ASSUME NEW t \in Seq(Chars), NEW q \in Quotes, NEW b, b = Blanked(t, q)
  PROVE  \A l \in LexerObjects : InCode(l, t, q) => ScanAlike(l, t, q, b)
<1> DEFINE S == {n \in Nat : \A l \in LexerObjects :
                   Len(t) - l.pos < n /\ InCode(l, t, q) => ScanAlike(l, t, q, b)}
<1>0. Len(t) \in Nat
  BY LenProperties
<1>1. \A l \in LexerObjects : InCode(l, t, q) => l.pos \in 0..Len(t)
  BY LexerTypes DEF InCode
<1>2. 0 \in S
  BY <1>0, <1>1
<1>3. ASSUME NEW n \in Nat, n \in S PROVE n + 1 \in S
  <2>0. n + 1 \in Nat
    OBVIOUS
  <2> SUFFICES ASSUME NEW l \in LexerObjects, Len(t) - l.pos < n + 1, InCode(l, t, q)
               PROVE  ScanAlike(l, t, q, b)
    BY <2>0
  <2>1. ASSUME NEW r \in LexerObjects, r.pos > l.pos, InCode(r, t, q)
        PROVE  ScanAlike(r, t, q, b)
    <3>1. Len(t) - r.pos < n
      BY <1>0, <1>1, <2>1
    <3>2. QED
      BY <1>3, <2>1, <3>1
  <2>2. QED
    BY <2>1, ScanTurn
<1> HIDE DEF S
<1>4. Nat \subseteq S
  BY <1>2, <1>3, SetInduction
<1>5. ASSUME NEW l \in LexerObjects, InCode(l, t, q) PROVE ScanAlike(l, t, q, b)
  <2>1. Len(t) + 1 \in S
    BY <1>0, <1>4
  <2>2. Len(t) - l.pos < Len(t) + 1
    BY <1>0, <1>1, <1>5
  <2>3. QED
    BY <1>5, <2>1, <2>2 DEF S
<1>6. QED
  BY <1>5

\* So the tokens that are left are the same.
RestAlike(l, b) == Rest(Twin(l, b)) = Rest(l)

LEMMA RestTurn ==
  ASSUME NEW t \in Seq(Chars), NEW q \in Quotes, NEW b, b = Blanked(t, q),
         NEW l \in LexerObjects, InCode(l, t, q), ~l.hold,
         \A r \in LexerObjects :
           Left(r) < Left(l) /\ InCode(r, t, q) /\ ~r.hold => RestAlike(r, b)
  PROVE  RestAlike(l, b)
<1> DEFINE g == GetToken(l)
           n == Twin(l, b)
           h == GetToken(n)
<1>1. l.text = t /\ l.style.comments = "c" /\ QuoteChar(l) = q
  BY DEF InCode
<1>2. b \in Seq(Chars) /\ Len(b) = Len(t)
  BY BlankedText
<1>3. n \in LexerObjects /\ ~n.hold
  BY <1>1, <1>2, TwinRight
<1>4. g = Scan(l) /\ h = Scan(n)
  BY <1>3 DEF GetToken
<1>5. h = Twin(g, b) /\ Good(g, t, q)
  BY <1>4, ScanTwin DEF ScanAlike
<1>6. g \in LexerObjects /\ g.text = t /\ g.style = l.style /\ g.hold = FALSE
  BY <1>1, GetTokenRight DEF Takes, Later, OnText
<1>7. Ends(g) \/ Left(g) < Left(l)
  BY TokensGoOn
<1> HIDE DEF g, n, h
<1>8. h.err = g.err /\ h.tok = g.tok /\ TokenOf(h) = TokenOf(g)
  BY <1>2, <1>5, <1>6, TwinRight
<1>9. /\ g.err => Rest(l) = <<Plain("exception")>>
      /\ ~g.err /\ g.tok = "END" => Rest(l) = <<TokenOf(g)>>
      /\ ~Ends(g) => Rest(l) = <<TokenOf(g)>> \o Rest(g)
  BY RestRight DEF g
<1>10. /\ h.err => Rest(n) = <<Plain("exception")>>
       /\ ~h.err /\ h.tok = "END" => Rest(n) = <<TokenOf(h)>>
       /\ ~Ends(h) => Rest(n) = <<TokenOf(h)>> \o Rest(h)
  BY <1>3, RestRight DEF h
<1>11. CASE Ends(g)
  <2>1. Rest(n) = Rest(l)
    BY <1>8, <1>9, <1>10, <1>11 DEF Ends
  <2>2. QED
    BY <2>1 DEF RestAlike, n
<1>12. CASE ~Ends(g)
  <2>1. ~Ends(h) /\ Left(g) < Left(l) /\ ~g.err
    BY <1>7, <1>8, <1>12 DEF Ends
  <2>2. QuoteChar(g) = q
    BY <1>1, <1>6 DEF QuoteChar
  <2>3. InCode(g, t, q)
    BY <1>1, <1>5, <1>6, <2>1, <2>2 DEF InCode, Good
  <2>4. Rest(Twin(g, b)) = Rest(g)
    BY <1>6, <2>1, <2>3 DEF RestAlike
  <2>5. Rest(n) = Rest(l)
    BY <1>5, <1>8, <1>9, <1>10, <1>12, <2>1, <2>4
  <2>6. QED
    BY <2>5 DEF RestAlike, n
<1>13. QED
  BY <1>11, <1>12

LEMMA RestTwin ==
  ASSUME NEW t \in Seq(Chars), NEW q \in Quotes, NEW b, b = Blanked(t, q)
  PROVE  \A l \in LexerObjects : InCode(l, t, q) /\ ~l.hold => RestAlike(l, b)
<1> DEFINE S == {n \in Nat : \A l \in LexerObjects :
                   Left(l) < n /\ InCode(l, t, q) /\ ~l.hold => RestAlike(l, b)}
<1>1. \A l \in LexerObjects : Left(l) \in Nat
  BY LeftRight
<1>2. 0 \in S
  BY <1>1
<1>3. ASSUME NEW n \in Nat, n \in S PROVE n + 1 \in S
  <2>0. n + 1 \in Nat
    OBVIOUS
  <2> SUFFICES ASSUME NEW l \in LexerObjects, Left(l) < n + 1, InCode(l, t, q), ~l.hold
               PROVE  RestAlike(l, b)
    BY <2>0
  <2>1. ASSUME NEW r \in LexerObjects, Left(r) < Left(l), InCode(r, t, q), ~r.hold
        PROVE  RestAlike(r, b)
    <3>1. Left(r) < n
      BY <1>1, <2>1
    <3>2. QED
      BY <1>3, <2>1, <3>1
  <2>2. QED
    BY <2>1, RestTurn
<1> HIDE DEF S
<1>4. Nat \subseteq S
  BY <1>2, <1>3, SetInduction
<1>5. ASSUME NEW l \in LexerObjects, InCode(l, t, q), ~l.hold PROVE RestAlike(l, b)
  <2>1. Left(l) \in Nat /\ Left(l) + 1 \in Nat /\ Left(l) < Left(l) + 1
    BY <1>1
  <2>2. Left(l) + 1 \in S
    BY <1>4, <2>1
  <2>3. QED
    BY <1>5, <2>1, <2>2 DEF S
<1>6. QED
  BY <1>5

\* A comment is white space: in every text, with C style comments and either
\* quotes, the lexer delivers what it would deliver if its comments, found by one
\* pass over the characters, were blanks, each token on the same line.
THEOREM CommentsAreBlank ==
  Spec => []CommentsBlank
<1>1. RegistryInv => CommentsBlank
  <2> SUFFICES ASSUME RegistryInv, lex.style.comments = "c"
               PROVE  Rest([FromStart EXCEPT !.text = Blanked(@, QuoteChar(lex))])
                        = Rest(FromStart)
    BY DEF CommentsBlank
  <2> DEFINE t == lex.text
             q == QuoteChar(lex)
             b == Blanked(t, q)
             l == FromStart
  <2>1. t \in Seq(Chars) /\ lex.style \in Styles /\ q \in Quotes
    <3>1. lex \in LexerObjects
      BY DEF RegistryInv
    <3>2. QED
      BY <3>1, LexerTypes, StyleKnown DEF Quotes
  <2>2. l \in LexerObjects
    BY <2>1, NewLexerRight DEF FromStart
  <2>3. l.text = t /\ l.style = lex.style /\ l.pos = 0 /\ ~l.hold
    BY DEF FromStart, NewLexer
  <2>4. [l EXCEPT !.text = Blanked(@, q)] = Twin(l, b)
    BY <2>3 DEF Twin
  <2> HIDE DEF l
  <2>5. InCode(l, t, q)
    <3>1. Modes(t, q)[1] = "code" /\ l.pos + 1 = 1
      BY <2>1, <2>3, ModesAre
    <3>2. QuoteChar(l) = q
      BY <2>3 DEF QuoteChar
    <3>3. QED
      BY <2>3, <3>1, <3>2 DEF InCode
  <2> HIDE DEF t, q
  <2>6. RestAlike(l, b)
    BY <2>1, <2>2, <2>3, <2>5, RestTwin
  <2>7. QED
    BY <2>4, <2>6 DEF RestAlike, l, q
<1>2. QED
  BY <1>1, RegistryIsSafe, PTL
=============================================================================
