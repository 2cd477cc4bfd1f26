-------------------------------- MODULE Store --------------------------------
(***************************************************************************)
(* The pairs a registry keeps, and typed access to them                    *)
(* (include/nanonet/registry.h, src/registry.cpp).                         *)
(***************************************************************************)
EXTENDS Integers, Sequences, Functions, Values

VARIABLES
  kv_map,    \* key -> value and line of its definition (0: not from a text)
  pairs      \* the pairs for add_any() since clear() (history)

StoreInit == kv_map = << >> /\ pairs = <<>>

\* check_key() and add_any(): whether it throws, and the store after it.
Redefined(key, throws) == throws /\ key \in DOMAIN kv_map

\* Mutation: the value is stored before the check.
Stored_Unchecked(p) == [k \in DOMAIN kv_map \cup {p.key} |->
                     IF k = p.key THEN [val |-> p.val, line |-> p.line] ELSE kv_map[k]]

Stored(p) == IF Redefined(p.key, p.throws) THEN kv_map
             ELSE [k \in DOMAIN kv_map \cup {p.key} |->
                     IF k = p.key THEN [val |-> p.val, line |-> p.line] ELSE kv_map[k]]
Added(key, val, line, throws) ==
  LET p == [key |-> key, val |-> val, line |-> line, throws |-> throws]
  IN kv_map' = Stored(p) /\ pairs' = Append(pairs, p)

\* clear()
Cleared == kv_map' = << >> /\ pairs' = <<>>

\* What may become of a store for keys K and values V, whoever adds the pairs.
StoreNext(K, V) ==
  \/ Cleared
  \/ \E key \in K, val \in V, line \in Nat, throws \in BOOLEAN :
       Added(key, val, line, throws)
StoreSpec(K, V) == StoreInit /\ [][StoreNext(K, V)]_<<kv_map, pairs>>

-----------------------------------------------------------------------------
\* Typed access.  A result is a sequence of one value, or Thrown.
Thrown == <<>>
IsSet(key) == key \in DOMAIN kv_map
GetAny(key) == IF IsSet(key) THEN <<kv_map[key].val>> ELSE Thrown
\* A result followed by another step that may throw.
Then(r, Step(_)) == IF r = Thrown THEN Thrown ELSE Step(r[1])
Only(P, x) == IF P THEN <<x>> ELSE Thrown

Convert(v, T) == Only(v.type = T, v)
Get(key, T) == Then(GetAny(key), LAMBDA v : Convert(v, T))

\* util::check_long() on a number in tenths.
CheckLong(v, lo, hi) ==
  Only(v.num % 10 = 0 /\ v.num >= 10 * lo /\ v.num <= 10 * hi, v)
CheckPositive(key) == Then(Get(key, "number"), LAMBDA v : Only(v.num > 0, v))
CheckNonneg(key) == Then(Get(key, "number"), LAMBDA v : Only(v.num >= 0, v))
CheckLongKey(key, lo, hi) == Then(Get(key, "number"), LAMBDA v : CheckLong(v, lo, hi))
CheckPort(key) == CheckLongKey(key, 0, 65535)
\* The identifiers t and n stand for true and false.
CheckBool(key) ==
  Then(Get(key, "string"), LAMBDA v : Only(v.str \in {<<"t">>, <<"n">>}, v))
IsSetAndTrue(key) ==
  IF IsSet(key) THEN Then(CheckBool(key), LAMBDA v : <<v.str = <<"t">>>>) ELSE <<FALSE>>

\* convert() to a list of T, and to a list of lists of numbers; -1 is any
\* length, -2 any length that is the same for all rows.
HasLength(s, n) == n >= 0 => Len(s) = n
ConvertList(v, T, n) ==
  Then(Convert(v, "list"), LAMBDA w :
    Only(HasLength(w.items, n) /\ \A k \in DOMAIN w.items : w.items[k].type = T, w.items))
\* Mutation: rows of different lengths pass.
ConvertNested_Ragged(v, rows, columns) ==
  LET RowOK(items, k) == /\ ConvertList(items[k], "number", -1) # Thrown
                         /\ HasLength(items[k].items, columns)
  IN Then(Convert(v, "list"), LAMBDA w :
       Only(HasLength(w.items, rows) /\ \A k \in DOMAIN w.items : RowOK(w.items, k), w.items))

ConvertNested(v, rows, columns) ==
  LET RowOK(items, k) ==
        /\ ConvertList(items[k], "number", -1) # Thrown
        /\ HasLength(items[k].items, columns)
        /\ columns = -2 /\ k > 1 => Len(items[k].items) = Len(items[1].items)
  IN Then(Convert(v, "list"), LAMBDA w :
       Only(HasLength(w.items, rows) /\ \A k \in DOMAIN w.items : RowOK(w.items, k), w.items))

CheckVectorString(key, n) == Then(GetAny(key), LAMBDA v : ConvertList(v, "string", n))
CheckVectorDouble(key, n) == Then(GetAny(key), LAMBDA v : ConvertList(v, "number", n))
CheckVectorAny(key, n) ==
  Then(Get(key, "list"), LAMBDA v : Only(HasLength(v.items, n), v.items))
CheckVectorVectorDouble(key, rows, columns) ==
  Then(GetAny(key), LAMBDA v : ConvertNested(v, rows, columns))

\* get_default(): of a type that is stored as such, of a list of numbers or
\* strings (never stored: a list is a vector of std::any), of a bool, a long.
GetDefault(key, T, d) == IF IsSet(key) THEN Get(key, T) ELSE <<d>>
GetDefaultBool(key, d) == IF IsSet(key) THEN CheckBool(key) ELSE <<d>>
GetDefaultLong(key, d, lo, hi) == IF IsSet(key) THEN CheckLongKey(key, lo, hi) ELSE <<d>>

-----------------------------------------------------------------------------
\* The store against the history of add_any(): a key has the value of its
\* last accepted definition, the first one where redefinition is an error; a
\* read that fails, in the middle of a pair or at a redefinition, leaves
\* what was read before and nothing of the pair it failed at.
StoreRight ==
  LET Accepted(i) == pairs[i].throws => \A j \in 1..i - 1 : pairs[j].key # pairs[i].key
  IN /\ DOMAIN kv_map = {p.key : p \in Range(pairs)}
     /\ \A i \in DOMAIN pairs :
          (Accepted(i) /\ \A j \in i + 1..Len(pairs) :
                            Accepted(j) => pairs[j].key # pairs[i].key)
          => kv_map[pairs[i].key] = [val |-> pairs[i].val, line |-> pairs[i].line]

\* A list of numbers, and a list of lists of the asked shape.
Numbers(x) == x.type = "list" /\ \A y \in Range(x.items) : y.type = "number"
Shape(v, rows, columns) ==
  /\ v.type = "list" /\ (rows = -1 \/ Len(v.items) = rows)
  /\ \A x \in Range(v.items) : Numbers(x) /\ (columns < 0 \/ Len(x.items) = columns)
  /\ columns = -2 => \A x, y \in Range(v.items) : Len(x.items) = Len(y.items)

\* What the lookups say of one key: as nested lists, as lists, as numbers, and
\* with a default.
NestedAgree(key) ==
  \A rows \in -1..2, columns \in -2..2 :
    CheckVectorVectorDouble(key, rows, columns) # Thrown
      <=> IsSet(key) /\ Shape(kv_map[key].val, rows, columns)
VectorsAgree(key) ==
  \A n \in -1..2 :
    LET doubles == CheckVectorDouble(key, n) # Thrown
        strings == CheckVectorString(key, n) # Thrown
    IN /\ doubles \/ strings => CheckVectorAny(key, n) # Thrown
       /\ doubles /\ strings => kv_map[key].val.items = <<>>
       /\ doubles => IsSet(key) /\ Numbers(kv_map[key].val)
ChecksAgree(key) ==
  /\ CheckPort(key) # Thrown => CheckNonneg(key) # Thrown
  /\ CheckPositive(key) # Thrown => CheckNonneg(key) # Thrown
  /\ CheckNonneg(key) # Thrown => Get(key, "number") # Thrown
DefaultsAgree(key) ==
  /\ IsSet(key) => GetDefault(key, "list of double", NoValue) = Thrown
  /\ ~IsSet(key) => /\ GetDefault(key, "number", NoValue) = <<NoValue>>
                    /\ GetDefaultBool(key, NoValue) = <<NoValue>>
                    /\ GetDefaultLong(key, NoValue, 0, 1) = <<NoValue>>
  /\ IsSetAndTrue(key) = Thrown <=> IsSet(key) /\ GetDefaultBool(key, NoValue) = Thrown
  /\ GetDefaultLong(key, NumValue(10), 0, 1) # Thrown =>
       GetDefault(key, "number", NumValue(10))[1].num \in {0, 10}

\* The lookups agree on what is stored: a value of the asked type and shape is
\* found by each of them, anything else is an exception, a default is used
\* for a key that is not defined and for no other.
LookupsRight ==
  \A key \in DOMAIN kv_map \cup {<<"b">>} :
    NestedAgree(key) /\ VectorsAgree(key) /\ ChecksAgree(key) /\ DefaultsAgree(key)
==============================================================================
