------------------------------- MODULE Values -------------------------------
(* The values of a registry, which the parser builds and the store keeps. *)

\* What a std::any holds: a double, a std::string (from a quoted string or
\* an identifier), a vector of values or an expression.
Value(type, num, str, items) ==
  [type |-> type, num |-> num, str |-> str, items |-> items]
NumValue(n) == Value("number", n, <<>>, <<>>)
StringValue(s) == Value("string", 0, s, <<>>)
ListValue(v) == Value("list", 0, <<>>, v)
Expression(head, tail) == Value("expression", 0, head, tail)
NoValue == Value("none", 0, <<>>, <<>>)
=============================================================================
