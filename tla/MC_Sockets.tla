----------------------------- MODULE MC_Sockets -----------------------------
(* Instances of Sockets for TLC: two IPv4 addresses and one IPv6 address. *)
EXTENDS Sockets

CONSTANTS a4, b4, c6

Families == [a \in Addrs |-> IF a = c6 THEN "ipv6" ELSE "ipv4"]

Connect(ra, la, timed) == [ra |-> ra, la |-> la, timed |-> timed]

\* Unbound to two addresses, and bound with both families on either side.
SomeConnects == {Connect(<<c6, a4>>, <<>>, t) : t \in BOOLEAN}
                  \cup {Connect(<<c6, a4>>, <<b4, c6>>, t) : t \in BOOLEAN}
SomeListens == {<<b4, c6>>}
OneListen == {<<a4>>}
=============================================================================
