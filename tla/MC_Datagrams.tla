----------------------------- MODULE MC_Datagrams -----------------------------
(* Two sockets, a server's service, a host with addresses of both families   *)
(* and a far host, for TLC.  The system chooses port 8: for IPv4 the service  *)
(* has another one, for IPv6 it is the one the service has too.               *)
EXTENDS Datagrams, TLC

CONSTANTS s1, s2, t1, t2

V4(h, p) == [family |-> AF_INET, host |-> h, port |-> p]
V6(h, p) == [family |-> AF_INET6, host |-> h, port |-> p]

MC_Lookup == [service |-> <<V4("there", 1), V4("any", 1), V6("any", 8)>>,
              host    |-> <<V6("here", 8), V4("here", 1)>>]

\* Sockets and threads are interchangeable: no definition chooses among them.
MC_Symmetry == Permutations(Socks) \cup Permutations(Threads)
==============================================================================
