------------------------------ MODULE Addresses ------------------------------
(***************************************************************************)
(* Addresses and address families (include/nanonet/detail/net-address.h,   *)
(* src/network.cpp, src/sys/net-util.cpp).  An address is what operator!=  *)
(* looks at: the family, the host and the port.  Families appear as the    *)
(* enumerators of the library and as the integers of the system.           *)
(***************************************************************************)
EXTENDS Naturals, Sequences

AF_UNSPEC == 0
AF_INET   == 2
AF_INET6  == 10

Families    == {"ipv4", "ipv6", "ip_unspec"}
IntFamilies == {AF_UNSPEC, AF_INET, AF_INET6}

\* Stands for an exception.
Thrown == "thrown"

\* Both switch statements throw in their default case.
int_address_family(af) == CASE af = "ipv4"      -> AF_INET
                            [] af = "ipv6"      -> AF_INET6
                            [] af = "ip_unspec" -> AF_UNSPEC
                            [] OTHER            -> Thrown

from_int_address_family(afi) == CASE afi = AF_INET   -> "ipv4"
                                  [] afi = AF_INET6  -> "ipv6"
                                  [] afi = AF_UNSPEC -> "ip_unspec"
                                  [] OTHER           -> Thrown

\* The family that a description names.
address_family(desc, allowUnspec) ==
  CASE desc \in {"ip4", "ipv4"}                  -> "ipv4"
    [] desc \in {"ip6", "ipv6"}                  -> "ipv6"
    [] desc \in {"unspec", "any"} /\ allowUnspec -> "ip_unspec"
    [] OTHER                                     -> Thrown

PortRange == 0 .. 65535

\* Hosts: the wildcard, the machine the process runs on, any other machine.
Hosts == {"any", "here", "there"}

Address == [family : {AF_INET, AF_INET6}, host : Hosts, port : PortRange]

\* address(): ipv4:0.0.0.0:0, also when a socket of the other family fills it.
DefaultAddress == [family |-> AF_INET, host |-> "any", port |-> 0]

\* operator!= compares the families first, then ports and hosts, for either
\* family in its own layout.
Differ(a1, a2) == \/ a1.family # a2.family
                  \/ a1.port # a2.port
                  \/ a1.host # a2.host

\* my_getsockname() of a socket: the zero address of its family until it is
\* bound, by the program or, when it connects or sends, by the system.
UnboundAddress(family) == [family |-> family, host |-> "any", port |-> 0]

\* my_getaddrinfo(): of the addresses the system knows for a name, those of
\* the family asked for, all of them for AF_UNSPEC.  It throws if none is left.
Suits(a, hint)         == hint \in {AF_UNSPEC, a.family}
Resolves(list, hint)   == \E i \in DOMAIN list : Suits(list[i], hint)

\* i is the first index of the list with an address of which P holds.
IsFirst(list, i, P(_)) == /\ i \in DOMAIN list
                          /\ P(list[i])
                          /\ \A j \in 1 .. i - 1 : ~P(list[j])
==============================================================================
