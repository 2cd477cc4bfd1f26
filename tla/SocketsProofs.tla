---------------------------- MODULE SocketsProofs ----------------------------
(***************************************************************************)
(* Proofs about Sockets, for every set of descriptors and all lists of     *)
(* addresses.  The inductive invariant IInv adds to the types where a call *)
(* is in its loops over the addresses (OpInv: without it the pair that is  *)
(* tried need not exist) and who is responsible for which descriptor       *)
(* (Held: at most one open descriptor, the one of the call in progress, is *)
(* without an object).  OInv, further down, adds what is known of the      *)
(* outcome: which pairs a call has passed by and in which mode its socket  *)
(* is.                                                                     *)
(***************************************************************************)
EXTENDS Sockets, TLAPS

\* The steps at which a call has no descriptor of its own, and the ones inside
\* the loops over the addresses.
Unsocketed == {"idle", "try", "acc_nonblock", "acc_poll", "acc_accept"}
Attempting == {"bind", "connect", "connect_nb", "poll", "so_error", "blocking"}

OpInv ==
  /\ op \in Ops
  /\ op.fd = NoFd <=> op.pc \in Unsocketed
  /\ op.pc \in Attempting \cup {"try"} => /\ op.kind \in {"connect", "listen"}
                                          /\ op.k >= 1
  /\ op.pc \in Attempting => op.k <= Iterations

FdTypes ==
  /\ st \in [Fds -> {"free", "new", "bound", "listening", "connecting",
                     "failed", "connected"}]
  /\ nonblock \in [Fds -> BOOLEAN]
  /\ local \in [Fds -> Addrs \cup {NoAddr}]
  /\ peer \in [Fds -> Addrs \cup {NoAddr}]
  /\ owner \in [Fds -> {"none", "call", "connection", "acceptor"}]

RestTypes ==
  /\ last.op \in Ops
  /\ last.res \in {"none", "ok", "timeout", "error"}
  /\ world \in Worlds
  /\ waiting \in 0..MaxWaiting
  /\ lost \in SUBSET Fds

\* The conditions under which the socket of the call is connected.
Established == \/ op.pc \in {"blocking", "acc_blocking"}
               \/ op.pc = "names" /\ op.kind # "listen"

Held ==
  /\ \A f \in Fds : st[f] = "free" => owner[f] = "none"
  /\ \A f \in Fds \ {op.fd} :
       st[f] # "free" => owner[f] \in {"connection", "acceptor"} \/ f \in lost
  /\ op.fd \in Fds => st[op.fd] # "free" /\ owner[op.fd] \in {"none", "call"}
  /\ \A f \in Fds : owner[f] = "connection" => st[f] = "connected"
  /\ Established => st[op.fd] = "connected"

IInv == OpInv /\ FdTypes /\ RestTypes /\ Held

-----------------------------------------------------------------------------
(* Lemmas about the parts that actions are made of *)

\* The pair of an iteration is one of the lists: the arithmetic of the two
\* nested loops.
LEMMA LoopIndices ==
  ASSUME NEW m \in Nat, NEW n \in Nat \ {0}, NEW k \in Nat, k >= 1, k <= m * n
  PROVE  /\ ((k - 1) \div n) + 1 \in 1..m
         /\ ((k - 1) % n) + 1 \in 1..n
<1> DEFINE q == (k - 1) \div n
           r == (k - 1) % n
<1>1. k - 1 \in Nat
  OBVIOUS
<1>2. q \in Nat /\ r \in 0..(n - 1) /\ k - 1 = n * q + r
  BY <1>1
<1> HIDE DEF q, r
<1>3. q < m
  <2> SUFFICES ASSUME q >= m PROVE FALSE
    BY <1>2
  <2>1. n * q >= n * m
    BY <1>2
  <2>2. QED
    BY <2>1, <1>2
<1>4. QED
  BY <1>2, <1>3 DEF q, r

\* What the loops over the addresses select is an address, or none.
LEMMA PairExists ==
  ASSUME OpInv, op.pc \in Attempting
  PROVE  /\ Local \in Addrs \cup {NoAddr}
         /\ Remote \in Addrs \cup {NoAddr}
<1> DEFINE m == Len(op.la)
           n == Len(op.ra)
           k == op.k
<1>1. /\ op.la \in Seq(Addrs) /\ op.ra \in Seq(Addrs \cup {NoAddr})
      /\ m \in Nat /\ n \in Nat /\ k \in Nat /\ k >= 1 /\ k <= Iterations
  BY DEF OpInv, Ops
<1>2. CASE op.la = <<>> /\ op.kind = "connect"
  <2>1. k <= 1 * n /\ n \in Nat \ {0}
    BY <1>1, <1>2 DEF Iterations
  <2>2. ((k - 1) % n) + 1 \in 1..n
    BY <2>1, <1>1, LoopIndices
  <2>3. QED
    BY <1>1, <1>2, <2>2 DEF Local, Remote
<1>3. CASE ~(op.la = <<>> /\ op.kind = "connect")
  <2>1. k <= m * n
    BY <1>1, <1>3 DEF Iterations
  <2>2. n # 0
    <3> HIDE DEF m, n, k
    <3>1. n = 0 => m * n = 0
      BY <1>1
    <3>2. m * n # 0
      BY <2>1, <1>1
    <3>3. QED
      BY <3>1, <3>2
  <2>3. ((k - 1) \div n) + 1 \in 1..m /\ ((k - 1) % n) + 1 \in 1..n
    BY <2>1, <2>2, <1>1, LoopIndices
  <2>4. QED
    BY <1>1, <2>3 DEF Local, Remote
<1>4. QED
  BY <1>2, <1>3

\* The next step of a call: only pc changes.
LEMMA GotoFields ==
  ASSUME op \in Ops, NEW l \in PCs, Goto(l)
  PROVE  /\ op' \in Ops /\ op'.pc = l /\ op'.fd = op.fd /\ op'.kind = op.kind
         /\ op'.k = op.k /\ op'.la = op.la /\ op'.ra = op.ra
         /\ Iterations' = Iterations
         /\ last' = last
<1>1. /\ op' \in Ops /\ op'.pc = l /\ op'.fd = op.fd /\ op'.kind = op.kind
      /\ op'.k = op.k /\ op'.la = op.la /\ op'.ra = op.ra /\ last' = last
  BY DEF Goto, Ops
<1>2. QED
  BY <1>1 DEF Iterations

\* A step from inside the loops or behind them, with the socket kept.
LEMMA GotoInv ==
  ASSUME OpInv, op.pc \notin Unsocketed, NEW l \in PCs \ Unsocketed,
         op.pc \in Attempting \/ l \notin Attempting, Goto(l)
  PROVE  OpInv'
<1>1. /\ op' \in Ops /\ op'.pc = l /\ op'.fd = op.fd /\ op'.kind = op.kind
      /\ op'.k = op.k /\ Iterations' = Iterations
  BY GotoFields DEF OpInv
<1>2. \/ op.kind \in {"connect", "listen"} /\ op.k >= 1 /\ op.k <= Iterations
      \/ l \notin Attempting \cup {"try"}
  BY DEF OpInv, Unsocketed
<1>3. QED
  BY <1>1, <1>2 DEF OpInv, Unsocketed

\* Between the calls there is no descriptor to account for.
LEMMA IdleInv ==
  ASSUME op' = Idle
  PROVE  OpInv' /\ op'.fd = NoFd /\ op'.pc = "idle" /\ op'.kind = "none"
BY SocketsAssumption DEF Idle, OpInv, Ops, PCs, Unsocketed, Attempting

\* The outcome of a call is recorded with the call.
LEMMA LastTypes ==
  ASSUME op \in Ops, NEW os \in BOOLEAN
  PROVE  [op EXCEPT !.os = os] \in Ops
BY DEF Ops

\* From socket() or accept() on, the call has a descriptor.
LEMMA SocketInFds ==
  ASSUME OpInv, op.pc \notin Unsocketed
  PROVE  op.fd \in Fds /\ op.fd # NoFd
BY SocketsAssumption DEF OpInv, Ops

\* dispose() keeps the types of the descriptor tables.
LEMMA DisposeTypes ==
  ASSUME FdTypes, NEW f \in Fds, Dispose(f)
  PROVE  FdTypes'
BY DEF Dispose, FdTypes

\* Closing the descriptor of the call leaves nothing without an owner.
LEMMA DisposeHeld ==
  ASSUME FdTypes, Held, op.fd \in Fds, Dispose(op.fd), UNCHANGED lost,
         op'.fd = NoFd, op'.pc \in {"idle", "try"}
  PROVE  Held'
<1>1. ~Established'
  BY DEF Established
<1>2. op'.fd \notin Fds
  BY SocketsAssumption
<1>3. /\ st' = [st EXCEPT ![op.fd] = "free"]
      /\ owner' = [owner EXCEPT ![op.fd] = "none"]
  BY DEF Dispose
<1>4. QED
  BY <1>1, <1>2, <1>3 DEF FdTypes, Held

\* A failed attempt: the invariant holds again with the next pair.
LEMMA AbandonInv ==
  ASSUME IInv, op.pc \in Attempting, NEW os \in BOOLEAN, Abandon(os),
         UNCHANGED <<world, waiting, lost>>
  PROVE  IInv'
<1>1. op.fd \in Fds /\ op.fd # NoFd
  BY SocketInFds DEF IInv, Attempting, Unsocketed
<1>2. /\ op' \in Ops /\ op'.fd = NoFd /\ op'.pc = "try" /\ op'.k = op.k + 1
      /\ op'.kind = op.kind
  <2>1. op \in Ops /\ op.os \in BOOLEAN
    BY DEF IInv, OpInv, Ops
  <2>2. PICK b \in BOOLEAN : op' = [op EXCEPT !.pc = "try", !.k = @ + 1,
                                              !.fd = NoFd, !.os = b]
    <3>1. (op.os \/ os) \in BOOLEAN
      BY Zenon
    <3>2. QED
      BY <3>1, Zenon DEF Abandon
  <2>3. QED
    <3>1. op.k + 1 \in Nat
      BY <2>1 DEF Ops
    <3>2. "try" \in PCs
      BY DEF PCs
    <3>3. QED
      BY <2>1, <2>2, <3>1, <3>2, Zenon DEF Ops
<1>3. op.kind \in {"connect", "listen"} /\ op.k \in Nat
  BY DEF IInv, OpInv, Ops
<1>4. OpInv'
  BY <1>2, <1>3 DEF OpInv, Unsocketed, Attempting
<1>5. FdTypes'
  BY <1>1, DisposeTypes DEF IInv, Abandon
<1>6. Held'
  BY <1>1, <1>2, DisposeHeld DEF IInv, Abandon
<1>7. RestTypes'
  BY DEF IInv, RestTypes, Abandon
<1>8. QED
  BY <1>4, <1>5, <1>6, <1>7 DEF IInv

\* An exception that leaves the constructor behind the loops.
LEMMA ThrowInv ==
  ASSUME IInv, op.pc \notin Unsocketed, Throw, UNCHANGED <<world, waiting, lost>>
  PROVE  IInv'
<1>1. op.fd \in Fds
  BY SocketInFds DEF IInv
<1>2. OpInv' /\ op'.fd = NoFd /\ op'.pc = "idle"
  BY IdleInv DEF Throw
<1>3. FdTypes' /\ Held'
  BY <1>1, <1>2, DisposeTypes, DisposeHeld DEF IInv, Throw
<1>4. RestTypes'
  BY LastTypes DEF IInv, OpInv, RestTypes, Throw
<1>5. QED
  BY <1>2, <1>3, <1>4 DEF IInv

\* An exception of accept: nothing was opened.
LEMMA AcceptThrowsInv ==
  ASSUME IInv, op.pc \in Unsocketed, NEW res \in {"timeout", "error"},
         NEW os \in BOOLEAN, AcceptThrows(res, os),
         UNCHANGED <<world, waiting, lost>>
  PROVE  IInv'
<1>1. OpInv' /\ op'.fd = NoFd /\ op'.pc = "idle"
  BY IdleInv DEF AcceptThrows
<1>2. op.fd = NoFd
  BY DEF IInv, OpInv
<1>3. FdTypes' /\ Held'
  BY <1>1, <1>2 DEF IInv, FdTypes, Held, Established, AcceptThrows, fdVars
<1>4. RestTypes'
  BY LastTypes DEF IInv, OpInv, RestTypes, AcceptThrows
<1>5. QED
  BY <1>1, <1>3, <1>4 DEF IInv

-----------------------------------------------------------------------------
(* One lemma per action *)

\* The calls start without a descriptor and at the first pair.
LEMMA BeginInv ==
  ASSUME IInv, NEW o \in Ops, Begin(o),
         o.fd = NoFd, o.pc \in Unsocketed,
         o.pc = "try" => o.kind \in {"connect", "listen"} /\ o.k = 1
  PROVE  IInv'
<1>1. op.fd = NoFd
  BY DEF IInv, OpInv, Begin, Unsocketed
<1>2. OpInv'
  BY DEF Begin, OpInv, Unsocketed, Attempting
<1>3. Idle \in Ops
  BY SocketsAssumption DEF Idle, Ops, PCs
<1>4. FdTypes' /\ RestTypes'
  BY <1>3 DEF IInv, Begin, FdTypes, RestTypes, fdVars
<1>5. ~Established'
  BY DEF Begin, Established, Unsocketed
<1>6. Held'
  BY <1>1, <1>5, SocketsAssumption DEF IInv, Begin, Held, fdVars
<1>7. QED
  BY <1>2, <1>4, <1>6 DEF IInv

\* connection(ra, la, timeout) starts at the first pair of its lists.
LEMMA CallConnectInv ==
  ASSUME IInv, NEW c \in Connects, CallConnect(c)
  PROVE  IInv'
<1> DEFINE o == [Idle EXCEPT !.kind = "connect", !.pc = "try", !.k = 1,
                             !.ra = c.ra, !.la = c.la, !.timed = c.timed]
<1>1. c.ra \in Seq(Addrs \cup {NoAddr}) /\ c.la \in Seq(Addrs)
        /\ c.timed \in BOOLEAN
  BY SocketsAssumption
<1>2. o \in Ops /\ o.fd = NoFd /\ o.pc = "try" /\ o.kind = "connect" /\ o.k = 1
  BY <1>1 DEF Idle, Ops, PCs
<1>3. Begin(o)
  BY DEF CallConnect
<1> HIDE DEF o
<1>4. QED
  BY <1>2, <1>3, BeginInv DEF Unsocketed

\* acceptor(la, backlog) starts at the first of its addresses.
LEMMA CallListenInv ==
  ASSUME IInv, NEW la \in Listens, CallListen(la)
  PROVE  IInv'
<1> DEFINE o == [Idle EXCEPT !.kind = "listen", !.pc = "try", !.k = 1,
                             !.ra = <<NoAddr>>, !.la = la]
<1>1. la \in Seq(Addrs) /\ <<NoAddr>> \in Seq(Addrs \cup {NoAddr})
  BY SocketsAssumption
<1>2. o \in Ops /\ o.fd = NoFd /\ o.pc = "try" /\ o.kind = "listen" /\ o.k = 1
  BY <1>1 DEF Idle, Ops, PCs
<1>3. Begin(o)
  BY DEF CallListen
<1> HIDE DEF o
<1>4. QED
  BY <1>2, <1>3, BeginInv DEF Unsocketed

\* connection(acceptor&, timeout) starts without a descriptor of its own.
LEMMA CallAcceptInv ==
  ASSUME IInv, NEW a \in Fds, NEW timed \in BOOLEAN, CallAccept(a, timed)
  PROVE  IInv'
<1> DEFINE o(l) == [Idle EXCEPT !.kind = "accept", !.timed = timed, !.acc = a,
                                !.pc = l]
<1>1. PICK l \in {"acc_nonblock", "acc_accept"} : Begin(o(l))
  BY Zenon DEF CallAccept
<1>2. o(l) \in Ops /\ o(l).fd = NoFd /\ o(l).pc = l
  <2>1. Idle \in Ops /\ Idle.fd = NoFd
    BY DEF Idle, Ops, PCs
  <2>2. l \in PCs
    BY DEF PCs
  <2>3. QED
    BY <2>1, <2>2, Zenon DEF Ops
<1> HIDE DEF o
<1>3. QED
  BY <1>1, <1>2, BeginInv DEF Unsocketed

\* Pairs of different families are skipped without opening anything.
LEMMA SkipPairInv ==
  ASSUME IInv, SkipPair
  PROVE  IInv'
<1>1. op.pc = "try" /\ op.k \in Nat /\ op.fd = NoFd
  BY DEF IInv, OpInv, Ops, SkipPair, Trying, Unsocketed
<1>2. /\ op' \in Ops /\ op'.pc = op.pc /\ op'.fd = op.fd /\ op'.kind = op.kind
      /\ op'.k = op.k + 1
  BY <1>1 DEF IInv, OpInv, Ops, SkipPair
<1>3. OpInv'
  BY <1>1, <1>2 DEF IInv, OpInv, Unsocketed, Attempting
<1>4. FdTypes' /\ RestTypes'
  BY DEF IInv, SkipPair, FdTypes, RestTypes, fdVars
<1>5. Held'
  BY <1>1, <1>2 DEF IInv, SkipPair, Held, Established, fdVars
<1>6. QED
  BY <1>3, <1>4, <1>5 DEF IInv

\* When the lists are exhausted, the last attempt has been closed already.
LEMMA NoMorePairsInv ==
  ASSUME IInv, NoMorePairs
  PROVE  IInv'
<1>1. OpInv' /\ op'.fd = NoFd /\ op'.pc = "idle"
  BY IdleInv DEF NoMorePairs, End
<1>2. op.fd = NoFd
  BY DEF IInv, OpInv, NoMorePairs, Unsocketed
<1>3. FdTypes' /\ RestTypes'
  BY DEF IInv, OpInv, NoMorePairs, End, FdTypes, RestTypes, fdVars
<1>4. Held'
  BY <1>1, <1>2 DEF IInv, NoMorePairs, Held, Established, fdVars
<1>5. QED
  BY <1>1, <1>3, <1>4 DEF IInv

\* The constructor of socket opens the call's only descriptor, or none.
LEMMA MakeSocketInv ==
  ASSUME IInv, MakeSocket
  PROVE  IInv'
<1>1. /\ op \in Ops /\ op.pc = "try" /\ op.k \in Nat /\ op.k <= Iterations
      /\ op.fd = NoFd /\ op.kind \in {"connect", "listen"} /\ op.k >= 1
  BY DEF IInv, OpInv, Ops, MakeSocket, Trying, Unsocketed
<1>2. RestTypes'
  BY DEF IInv, MakeSocket, RestTypes
<1>3. ASSUME NEW f \in Fds, Open(f, "new", FALSE, "call"),
             op' = [op EXCEPT !.fd = f, !.pc = IF Local # NoAddr THEN "bind"
                                               ELSE "connect"]
      PROVE  IInv'
  <2>1. /\ op' \in Ops /\ op'.pc \in {"bind", "connect"} /\ op'.fd = f
        /\ op'.kind = op.kind /\ op'.k = op.k
        /\ op'.la = op.la /\ op'.ra = op.ra
    BY <1>1, <1>3 DEF Ops, PCs
  <2>2. Iterations' = Iterations
    BY <2>1 DEF Iterations
  <2>3. OpInv'
    BY <1>1, <2>1, <2>2, SocketsAssumption DEF OpInv, Unsocketed, Attempting
  <2>4. FdTypes'
    BY <1>3 DEF IInv, FdTypes, Open
  <2>5. Held'
    BY <1>1, <1>3, <2>1, SocketsAssumption
       DEF IInv, FdTypes, Held, Established, Open, MakeSocket
  <2>6. QED
    BY <1>2, <2>3, <2>4, <2>5 DEF IInv
<1>4. ASSUME op' = [op EXCEPT !.k = @ + 1, !.os = TRUE], UNCHANGED fdVars
      PROVE  IInv'
  <2>1. /\ op' \in Ops /\ op'.pc = op.pc /\ op'.fd = op.fd
        /\ op'.kind = op.kind /\ op'.k = op.k + 1
    <3>1. PICK b \in BOOLEAN : op' = [op EXCEPT !.k = @ + 1, !.os = b]
      BY <1>4, Zenon
    <3>2. op.k + 1 \in Nat
      BY <1>1
    <3>3. QED
      BY <1>1, <3>1, <3>2, Zenon DEF Ops
  <2>2. OpInv'
    BY <1>1, <2>1 DEF OpInv, Unsocketed, Attempting
  <2>3. FdTypes' /\ Held'
    BY <1>1, <1>4, <2>1
       DEF IInv, FdTypes, Held, Established, fdVars, MakeSocket
  <2>4. QED
    BY <1>2, <2>2, <2>3 DEF IInv
<1>5. QED
  BY <1>3, <1>4 DEF MakeSocket

\* my_bind() uses an address of the list, or the attempt is abandoned.
LEMMA BindInv ==
  ASSUME IInv, Bind
  PROVE  IInv'
<1>1. /\ op \in Ops /\ op.pc = "bind" /\ op.pc \notin Unsocketed
      /\ op.fd \in Fds
  BY SocketInFds DEF IInv, OpInv, Bind, Unsocketed
<1>2. UNCHANGED <<world, waiting, lost>>
  BY DEF Bind
<1>3. Local \in Addrs \cup {NoAddr}
  BY <1>1, PairExists DEF IInv, Attempting
<1>4. ASSUME Abandon(TRUE)
      PROVE  IInv'
  BY <1>1, <1>2, <1>4, AbandonInv DEF Attempting
<1>5. ASSUME local' = [local EXCEPT ![op.fd] = Local],
             st' = [st EXCEPT ![op.fd] = "bound"],
             Goto(IF op.kind = "connect" THEN "connect" ELSE "names"),
             UNCHANGED <<nonblock, peer, owner>>
      PROVE  IInv'
  <2>1. op.kind \in {"connect", "listen"}
    BY <1>1 DEF IInv, OpInv, Attempting
  <2>2. PICK l \in {"connect", "names"} : Goto(l) /\ (l = "names" => op.kind = "listen")
    BY <1>5, <2>1
  <2>3. OpInv' /\ op'.pc = l /\ op'.fd = op.fd /\ op'.kind = op.kind /\ last' = last
    BY <1>1, <2>2, GotoFields, GotoInv DEF IInv, Unsocketed, Attempting, PCs
  <2>4. FdTypes'
    BY <1>1, <1>3, <1>5 DEF IInv, FdTypes
  <2>5. Held'
    BY <1>1, <1>2, <1>5, <2>2, <2>3 DEF IInv, FdTypes, Held, Established
  <2>6. RestTypes'
    BY <1>2, <2>3 DEF IInv, RestTypes
  <2>7. QED
    BY <2>3, <2>4, <2>5, <2>6 DEF IInv
<1>6. QED
  BY <1>1, <1>4, <1>5 DEF Bind

\* my_connect() without a timeout: connected, or abandoned.
LEMMA ConnectBlockingInv ==
  ASSUME IInv, ConnectBlocking
  PROVE  IInv'
<1>1. /\ op \in Ops /\ op.pc = "connect" /\ op.pc \notin Unsocketed
      /\ op.fd \in Fds
  BY SocketInFds DEF IInv, OpInv, ConnectBlocking, Unsocketed
<1>2. UNCHANGED <<world, waiting, lost>>
  BY DEF ConnectBlocking
<1>3. Remote \in Addrs \cup {NoAddr}
  BY <1>1, PairExists DEF IInv, Attempting
<1>4. ASSUME NEW os \in BOOLEAN, Abandon(os)
      PROVE  IInv'
  BY <1>1, <1>2, <1>4, AbandonInv DEF Attempting
<1>5. ASSUME st' = [st EXCEPT ![op.fd] = "connected"],
             peer' = [peer EXCEPT ![op.fd] = Remote],
             Goto("names"), UNCHANGED <<nonblock, local, owner>>
      PROVE  IInv'
  <2>1. OpInv' /\ op'.pc = "names" /\ op'.fd = op.fd /\ op'.kind = op.kind /\ last' = last
    BY <1>1, <1>5, GotoFields, GotoInv DEF IInv, Unsocketed, Attempting, PCs
  <2>2. FdTypes'
    BY <1>1, <1>5, <1>3 DEF IInv, FdTypes
  <2>3. Held'
    BY <1>1, <1>2, <1>5, <2>1 DEF IInv, FdTypes, Held, Established
  <2>4. RestTypes'
    BY <1>2, <2>1 DEF IInv, RestTypes
  <2>5. QED
    BY <2>1, <2>2, <2>3, <2>4 DEF IInv
<1>6. QED
  BY <1>1, <1>4, <1>5 DEF ConnectBlocking

\* Switching to non-blocking mode, which may fail.
LEMMA ConnectNonblockingInv ==
  ASSUME IInv, ConnectNonblocking
  PROVE  IInv'
<1>1. /\ op \in Ops /\ op.pc = "connect" /\ op.pc \notin Unsocketed
      /\ op.fd \in Fds
  BY SocketInFds DEF IInv, OpInv, ConnectNonblocking, Unsocketed
<1>2. UNCHANGED <<world, waiting, lost>>
  BY DEF ConnectNonblocking
<1>3. ASSUME Abandon(TRUE)
      PROVE  IInv'
  BY <1>1, <1>2, <1>3, AbandonInv DEF Attempting
<1>4. ASSUME SetNonblock(op.fd, TRUE), Goto("connect_nb")
      PROVE  IInv'
  <2>1. OpInv' /\ op'.pc = "connect_nb" /\ op'.fd = op.fd /\ op'.kind = op.kind /\ last' = last
    BY <1>1, <1>4, GotoFields, GotoInv DEF IInv, Unsocketed, Attempting, PCs
  <2>2. FdTypes'
    BY <1>1, <1>4 DEF IInv, FdTypes, SetNonblock
  <2>3. Held'
    BY <1>1, <1>2, <1>4, <2>1 DEF IInv, FdTypes, Held, Established, SetNonblock
  <2>4. RestTypes'
    BY <1>2, <2>1 DEF IInv, RestTypes
  <2>5. QED
    BY <2>1, <2>2, <2>3, <2>4 DEF IInv
<1>5. QED
  BY <1>1, <1>3, <1>4 DEF ConnectNonblocking

\* connect() in non-blocking mode: pending, connected at once, or abandoned.
LEMMA ConnectStartsInv ==
  ASSUME IInv, ConnectStarts
  PROVE  IInv'
<1>1. /\ op \in Ops /\ op.pc = "connect_nb" /\ op.pc \notin Unsocketed
      /\ op.fd \in Fds
  BY SocketInFds DEF IInv, OpInv, ConnectStarts, Unsocketed
<1>2. UNCHANGED <<world, waiting, lost>>
  BY DEF ConnectStarts
<1>3. Remote \in Addrs \cup {NoAddr}
  BY <1>1, PairExists DEF IInv, Attempting
<1>4. ASSUME NEW os \in BOOLEAN, Abandon(os)
      PROVE  IInv'
  BY <1>1, <1>2, <1>4, AbandonInv DEF Attempting
<1>5. ASSUME st' = [st EXCEPT ![op.fd] = "connecting"],
             peer' = [peer EXCEPT ![op.fd] = Remote],
             Goto("poll"), UNCHANGED <<nonblock, local, owner>>
      PROVE  IInv'
  <2>1. OpInv' /\ op'.pc = "poll" /\ op'.fd = op.fd /\ op'.kind = op.kind /\ last' = last
    BY <1>1, <1>5, GotoFields, GotoInv DEF IInv, Unsocketed, Attempting, PCs
  <2>2. FdTypes'
    BY <1>1, <1>5, <1>3 DEF IInv, FdTypes
  <2>3. Held'
    BY <1>1, <1>2, <1>5, <2>1 DEF IInv, FdTypes, Held, Established
  <2>4. RestTypes'
    BY <1>2, <2>1 DEF IInv, RestTypes
  <2>5. QED
    BY <2>1, <2>2, <2>3, <2>4 DEF IInv
<1>6. ASSUME st' = [st EXCEPT ![op.fd] = "connected"],
             peer' = [peer EXCEPT ![op.fd] = Remote],
             op' = [op EXCEPT !.pc = "names", !.early = TRUE],
             UNCHANGED <<nonblock, local, owner, last>>
      PROVE  IInv'
  <2>1. op' \in Ops /\ op'.pc = "names" /\ op'.fd = op.fd /\ op'.kind = op.kind
    BY <1>1, <1>6 DEF Ops, PCs
  <2>2. OpInv'
    BY <1>1, <2>1, SocketInFds DEF IInv, OpInv, Unsocketed, Attempting
  <2>3. FdTypes'
    BY <1>1, <1>3, <1>6 DEF IInv, FdTypes
  <2>4. Held'
    BY <1>1, <1>2, <1>6, <2>1 DEF IInv, FdTypes, Held, Established
  <2>5. RestTypes'
    BY <1>2, <1>6 DEF IInv, RestTypes
  <2>6. QED
    BY <2>2, <2>3, <2>4, <2>5 DEF IInv
<1>7. QED
  BY <1>1, <1>4, <1>5, <1>6 DEF ConnectStarts

\* poll(): an answer of the peer, good or bad, or the attempt is abandoned.
LEMMA PollConnectInv ==
  ASSUME IInv, PollConnect
  PROVE  IInv'
<1>1. /\ op \in Ops /\ op.pc = "poll" /\ op.pc \notin Unsocketed
      /\ op.fd \in Fds
  BY SocketInFds DEF IInv, OpInv, PollConnect, Unsocketed
<1>2. UNCHANGED <<world, waiting, lost>>
  BY DEF PollConnect
<1>3. ASSUME NEW os \in BOOLEAN, Abandon(os)
      PROVE  IInv'
  BY <1>1, <1>2, <1>3, AbandonInv DEF Attempting
<1>4. ASSUME NEW s \in {"connected", "failed"},
             st' = [st EXCEPT ![op.fd] = s], Goto("so_error"),
             UNCHANGED <<nonblock, local, peer, owner>>
      PROVE  IInv'
  <2>1. OpInv' /\ op'.pc = "so_error" /\ op'.fd = op.fd /\ op'.kind = op.kind /\ last' = last
    BY <1>1, <1>4, GotoFields, GotoInv DEF IInv, Unsocketed, Attempting, PCs
  <2>2. FdTypes'
    BY <1>1, <1>4 DEF IInv, FdTypes
  <2>3. Held'
    BY <1>1, <1>2, <1>4, <2>1 DEF IInv, FdTypes, Held, Established
  <2>4. RestTypes'
    BY <1>2, <2>1 DEF IInv, RestTypes
  <2>5. QED
    BY <2>1, <2>2, <2>3, <2>4 DEF IInv
<1>5. QED
  BY <1>1, <1>3, <1>4 DEF PollConnect

\* Only a socket without a pending error passes getsockopt().
LEMMA SoErrorInv ==
  ASSUME IInv, SoError
  PROVE  IInv'
<1>1. /\ op \in Ops /\ op.pc = "so_error" /\ op.pc \notin Unsocketed
      /\ op.fd \in Fds
  BY SocketInFds DEF IInv, OpInv, SoError, Unsocketed
<1>2. UNCHANGED <<world, waiting, lost>>
  BY DEF SoError
<1>3. ASSUME NEW os \in BOOLEAN, Abandon(os)
      PROVE  IInv'
  BY <1>1, <1>2, <1>3, AbandonInv DEF Attempting
<1>4. ASSUME st[op.fd] = "connected", Goto("blocking"), UNCHANGED fdVars
      PROVE  IInv'
  <2>1. OpInv' /\ op'.pc = "blocking" /\ op'.fd = op.fd /\ op'.kind = op.kind /\ last' = last
    BY <1>1, <1>4, GotoFields, GotoInv DEF IInv, Unsocketed, Attempting, PCs
  <2>2. FdTypes'
    BY <1>1, <1>4 DEF IInv, FdTypes, fdVars
  <2>3. Held'
    BY <1>1, <1>2, <1>4, <2>1 DEF IInv, FdTypes, Held, Established, fdVars
  <2>4. RestTypes'
    BY <1>2, <2>1 DEF IInv, RestTypes
  <2>5. QED
    BY <2>1, <2>2, <2>3, <2>4 DEF IInv
<1>5. QED
  BY <1>1, <1>3, <1>4 DEF SoError

\* The socket stays connected when its mode is switched back.
LEMMA BackToBlockingInv ==
  ASSUME IInv, BackToBlocking
  PROVE  IInv'
<1>1. /\ op \in Ops /\ op.pc = "blocking" /\ op.pc \notin Unsocketed
      /\ op.fd \in Fds
  BY SocketInFds DEF IInv, OpInv, BackToBlocking, Unsocketed
<1>2. UNCHANGED <<world, waiting, lost>>
  BY DEF BackToBlocking
<1>3. ASSUME Abandon(TRUE)
      PROVE  IInv'
  BY <1>1, <1>2, <1>3, AbandonInv DEF Attempting
<1>4. ASSUME SetNonblock(op.fd, FALSE), Goto("names")
      PROVE  IInv'
  <2>1. OpInv' /\ op'.pc = "names" /\ op'.fd = op.fd /\ op'.kind = op.kind /\ last' = last
    BY <1>1, <1>4, GotoFields, GotoInv DEF IInv, Unsocketed, Attempting, PCs
  <2>2. FdTypes'
    BY <1>1, <1>4 DEF IInv, FdTypes, SetNonblock
  <2>3. Held'
    BY <1>1, <1>2, <1>4, <2>1 DEF IInv, FdTypes, Held, Established, SetNonblock
  <2>4. RestTypes'
    BY <1>2, <2>1 DEF IInv, RestTypes
  <2>5. QED
    BY <2>1, <2>2, <2>3, <2>4 DEF IInv
<1>5. QED
  BY <1>1, <1>3, <1>4 DEF BackToBlocking

\* The object takes over the descriptor, or the exception closes it.
LEMMA NamesInv ==
  ASSUME IInv, Names
  PROVE  IInv'
<1>1. /\ op \in Ops /\ op.pc = "names" /\ op.pc \notin Unsocketed
      /\ op.fd \in Fds
  BY SocketInFds DEF IInv, OpInv, Names, Unsocketed
<1>2. UNCHANGED <<world, waiting, lost>>
  BY DEF Names
<1>3. ASSUME Throw PROVE IInv'
  BY <1>1, <1>2, <1>3, ThrowInv
<1>4. ASSUME op.kind # "listen",
             owner' = [owner EXCEPT ![op.fd] = "connection"], End("ok"),
             UNCHANGED <<st, nonblock, local, peer>>
      PROVE  IInv'
  <2>1. OpInv' /\ op'.fd = NoFd /\ op'.pc = "idle"
    BY <1>4, IdleInv DEF End
  <2>2. FdTypes'
    BY <1>1, <1>4 DEF IInv, FdTypes
  <2>3. Held'
    BY <1>1, <1>2, <1>4, <2>1, SocketsAssumption
       DEF IInv, FdTypes, Held, Established
  <2>4. RestTypes'
    BY <1>1, <1>2, <1>4 DEF IInv, RestTypes, End
  <2>5. QED
    BY <2>1, <2>2, <2>3, <2>4 DEF IInv
<1>5. ASSUME op.kind = "listen", Goto("listen"), UNCHANGED fdVars
      PROVE  IInv'
  <2>1. OpInv' /\ op'.pc = "listen" /\ op'.fd = op.fd /\ op'.kind = op.kind /\ last' = last
    BY <1>1, <1>5, GotoFields, GotoInv DEF IInv, Unsocketed, Attempting, PCs
  <2>2. FdTypes'
    BY <1>1, <1>5 DEF IInv, FdTypes, fdVars
  <2>3. Held'
    BY <1>1, <1>2, <1>5, <2>1 DEF IInv, FdTypes, Held, Established, fdVars
  <2>4. RestTypes'
    BY <1>2, <2>1 DEF IInv, RestTypes
  <2>5. QED
    BY <2>1, <2>2, <2>3, <2>4 DEF IInv
<1>6. QED
  BY <1>1, <1>3, <1>4, <1>5 DEF Names

\* my_listen(): the acceptor takes over, or the exception closes.
LEMMA ListenSocketInv ==
  ASSUME IInv, ListenSocket
  PROVE  IInv'
<1>1. /\ op \in Ops /\ op.pc = "listen" /\ op.pc \notin Unsocketed
      /\ op.fd \in Fds
  BY SocketInFds DEF IInv, OpInv, ListenSocket, Unsocketed
<1>2. UNCHANGED <<world, waiting, lost>>
  BY DEF ListenSocket
<1>3. ASSUME Throw PROVE IInv'
  BY <1>1, <1>2, <1>3, ThrowInv
<1>4. ASSUME st' = [st EXCEPT ![op.fd] = "listening"],
             owner' = [owner EXCEPT ![op.fd] = "acceptor"], End("ok"),
             UNCHANGED <<nonblock, local, peer>>
      PROVE  IInv'
  <2>1. OpInv' /\ op'.fd = NoFd /\ op'.pc = "idle"
    BY <1>4, IdleInv DEF End
  <2>2. FdTypes'
    BY <1>1, <1>4 DEF IInv, FdTypes
  <2>3. Held'
    BY <1>1, <1>2, <1>4, <2>1, SocketsAssumption
       DEF IInv, FdTypes, Held, Established
  <2>4. RestTypes'
    BY <1>1, <1>2, <1>4 DEF IInv, RestTypes, End
  <2>5. QED
    BY <2>1, <2>2, <2>3, <2>4 DEF IInv
<1>5. QED
  BY <1>1, <1>3, <1>4 DEF ListenSocket

\* The mode of the acceptor does not matter to who owns what.
LEMMA AcceptNonblockingInv ==
  ASSUME IInv, AcceptNonblocking
  PROVE  IInv'
<1>1. /\ op \in Ops /\ op.pc = "acc_nonblock" /\ op.pc \in Unsocketed
      /\ op.fd = NoFd
  BY DEF IInv, OpInv, AcceptNonblocking, Unsocketed
<1>2. UNCHANGED <<world, waiting, lost>>
  BY DEF AcceptNonblocking
<1>3. ASSUME NEW res \in {"timeout", "error"}, NEW os \in BOOLEAN,
             AcceptThrows(res, os)
      PROVE  IInv'
  BY <1>1, <1>2, <1>3, AcceptThrowsInv
<1>4. ASSUME SetNonblock(op.acc, TRUE), Goto("acc_poll")
      PROVE  IInv'
  <2>1. op' \in Ops /\ op'.pc = "acc_poll" /\ op'.fd = NoFd /\ last' = last
    BY <1>1, <1>4, GotoFields DEF PCs
  <2>2. OpInv'
    BY <2>1 DEF OpInv, Unsocketed, Attempting
  <2>3. FdTypes'
    BY <1>1, <1>4 DEF IInv, FdTypes, SetNonblock
  <2>4. Held'
    BY <1>1, <1>2, <1>4, <2>1 DEF IInv, FdTypes, Held, Established, SetNonblock
  <2>5. RestTypes'
    BY <1>2, <2>1 DEF IInv, RestTypes
  <2>6. QED
    BY <2>2, <2>3, <2>4, <2>5 DEF IInv
<1>5. QED
  BY <1>1, <1>3, <1>4 DEF AcceptNonblocking

\* poll() before accept(): nothing has been opened yet.
LEMMA PollAcceptInv ==
  ASSUME IInv, PollAccept
  PROVE  IInv'
<1>1. /\ op \in Ops /\ op.pc = "acc_poll" /\ op.pc \in Unsocketed
      /\ op.fd = NoFd
  BY DEF IInv, OpInv, PollAccept, Unsocketed
<1>2. UNCHANGED <<world, waiting, lost>>
  BY DEF PollAccept
<1>3. ASSUME NEW res \in {"timeout", "error"}, NEW os \in BOOLEAN,
             AcceptThrows(res, os)
      PROVE  IInv'
  BY <1>1, <1>2, <1>3, AcceptThrowsInv
<1>4. ASSUME Goto("acc_accept"), UNCHANGED fdVars
      PROVE  IInv'
  <2>1. op' \in Ops /\ op'.pc = "acc_accept" /\ op'.fd = NoFd /\ last' = last
    BY <1>1, <1>4, GotoFields DEF PCs
  <2>2. OpInv'
    BY <2>1 DEF OpInv, Unsocketed, Attempting
  <2>3. FdTypes'
    BY <1>1, <1>4 DEF IInv, FdTypes, fdVars
  <2>4. Held'
    BY <1>1, <1>2, <1>4, <2>1 DEF IInv, FdTypes, Held, Established, fdVars
  <2>5. RestTypes'
    BY <1>2, <2>1 DEF IInv, RestTypes
  <2>6. QED
    BY <2>2, <2>3, <2>4, <2>5 DEF IInv
<1>5. QED
  BY <1>1, <1>3, <1>4 DEF PollAccept

\* accept() opens a connected descriptor, for a timed call one without owner.
LEMMA AcceptSocketInv ==
  ASSUME IInv, AcceptSocket
  PROVE  IInv'
<1>1. /\ op \in Ops /\ op.pc = "acc_accept" /\ op.pc \in Unsocketed
      /\ op.fd = NoFd
  BY DEF IInv, OpInv, AcceptSocket, Unsocketed
<1>2. UNCHANGED <<world, lost>>
  BY DEF AcceptSocket
<1>3. ASSUME NEW res \in {"timeout", "error"}, NEW os \in BOOLEAN,
             AcceptThrows(res, os), UNCHANGED waiting
      PROVE  IInv'
  BY <1>1, <1>2, <1>3, AcceptThrowsInv
<1>4. ASSUME NEW f \in Fds, waiting > 0, waiting' = waiting - 1,
             NEW o \in {"none", "call"}, Open(f, "connected", FALSE, o),
             NEW l \in {"acc_blocking", "names"},
             op' = [op EXCEPT !.fd = f, !.pc = l], UNCHANGED last
      PROVE  IInv'
  <2>1. op' \in Ops /\ op'.pc = l /\ op'.fd = f
    BY <1>1, <1>4 DEF Ops, PCs
  <2>2. OpInv'
    BY <2>1, SocketsAssumption DEF OpInv, Unsocketed, Attempting
  <2>3. FdTypes'
    BY <1>4 DEF IInv, FdTypes, Open
  <2>4. Held'
    BY <1>1, <1>2, <1>4, <2>1, SocketsAssumption
       DEF IInv, FdTypes, Held, Established, Open
  <2>5. RestTypes'
    BY <1>2, <1>4, SocketsAssumption DEF IInv, RestTypes
  <2>6. QED
    BY <2>2, <2>3, <2>4, <2>5 DEF IInv
<1>5. QED
  BY <1>1, <1>3, <1>4 DEF AcceptSocket

\* Either the call owns the accepted descriptor from here on, or it is lost.
LEMMA AcceptBlockingInv ==
  ASSUME IInv, AcceptBlocking
  PROVE  IInv'
<1>1. /\ op \in Ops /\ op.pc = "acc_blocking" /\ op.pc \notin Unsocketed
      /\ op.fd \in Fds
  BY SocketInFds DEF IInv, OpInv, AcceptBlocking, Unsocketed
<1>2. UNCHANGED <<world, waiting>>
  BY DEF AcceptBlocking
<1>3. ASSUME nonblock' = [nonblock EXCEPT ![op.fd] = FALSE],
             owner' = [owner EXCEPT ![op.fd] = "call"], Goto("names"),
             UNCHANGED <<st, local, peer, lost>>
      PROVE  IInv'
  <2>1. OpInv' /\ op'.pc = "names" /\ op'.fd = op.fd /\ last' = last
    BY <1>1, <1>3, GotoFields, GotoInv DEF IInv, Unsocketed, Attempting, PCs
  <2>2. FdTypes'
    BY <1>1, <1>3 DEF IInv, FdTypes
  <2>3. Held'
    BY <1>1, <1>2, <1>3, <2>1 DEF IInv, FdTypes, Held, Established
  <2>4. RestTypes'
    BY <1>2, <1>3, <2>1 DEF IInv, RestTypes
  <2>5. QED
    BY <2>1, <2>2, <2>3, <2>4 DEF IInv
<1>4. ASSUME AcceptThrows("error", TRUE), lost' = lost \cup {op.fd}
      PROVE  IInv'
  <2>1. OpInv' /\ op'.fd = NoFd /\ op'.pc = "idle"
    BY <1>4, IdleInv DEF AcceptThrows
  <2>2. FdTypes'
    BY <1>4 DEF IInv, FdTypes, AcceptThrows, fdVars
  <2>3. Held'
    BY <1>1, <1>4, <2>1, SocketsAssumption
       DEF IInv, FdTypes, Held, Established, AcceptThrows, fdVars
  <2>4. RestTypes'
    BY <1>1, <1>2, <1>4, LastTypes DEF IInv, RestTypes, AcceptThrows
  <2>5. QED
    BY <2>1, <2>2, <2>3, <2>4 DEF IInv
<1>5. QED
  BY <1>1, <1>3, <1>4 DEF AcceptBlocking

\* A destructor closes the descriptor of its object and no other.
LEMMA DestroyInv ==
  ASSUME IInv, NEW f \in Fds, Destroy(f)
  PROVE  IInv'
<1>1. OpInv' /\ op.fd = NoFd
  BY DEF IInv, OpInv, Destroy, Iterations, Unsocketed
<1>2. FdTypes'
  BY DisposeTypes DEF IInv, Destroy
<1>3. Held'
  BY <1>1 DEF IInv, FdTypes, Held, Established, Destroy, Dispose
<1>4. RestTypes'
  BY DEF IInv, RestTypes, Destroy
<1>5. QED
  BY <1>1, <1>2, <1>3, <1>4 DEF IInv

\* Clients change only the number of those who wait.
LEMMA ClientInv ==
  ASSUME IInv, ClientArrives \/ ClientGivesUp
  PROVE  IInv'
<1>1. waiting' \in 0..MaxWaiting /\ UNCHANGED <<fdVars, op, last, world, lost>>
  BY SocketsAssumption DEF IInv, RestTypes, ClientArrives, ClientGivesUp
<1>2. QED
  BY <1>1 DEF IInv, OpInv, FdTypes, RestTypes, Held, Established, Iterations,
              fdVars

-----------------------------------------------------------------------------
(* The theorems *)

\* Initially everything is closed.
LEMMA InitInv ==
  ASSUME Init
  PROVE  IInv
<1>1. OpInv
  BY SocketsAssumption DEF Init, Idle, OpInv, Ops, PCs, Unsocketed, Attempting
<1>2. FdTypes
  BY DEF Init, FdTypes
<1>3. RestTypes
  BY <1>1, SocketsAssumption DEF Init, OpInv, RestTypes
<1>4. Held
  BY SocketsAssumption DEF Init, Held, Established, Idle
<1>5. QED
  BY <1>1, <1>2, <1>3, <1>4 DEF IInv

\* Every step of a call, of its caller and of the clients preserves IInv.
LEMMA NextInv ==
  ASSUME IInv, [Next]_vars
  PROVE  IInv'
<1>1. CASE CallStep
  BY <1>1, SkipPairInv, NoMorePairsInv, MakeSocketInv, BindInv,
     ConnectBlockingInv, ConnectNonblockingInv, ConnectStartsInv,
     PollConnectInv, SoErrorInv, BackToBlockingInv, NamesInv, ListenSocketInv,
     AcceptNonblockingInv, PollAcceptInv, AcceptSocketInv, AcceptBlockingInv
     DEF CallStep
<1>2. CASE UNCHANGED vars
  BY <1>2 DEF vars, fdVars, IInv, OpInv, FdTypes, RestTypes, Held, Established,
              Iterations
<1>3. QED
  BY <1>1, <1>2, CallConnectInv, CallListenInv, CallAcceptInv, DestroyInv,
     ClientInv DEF Next

\* IInv holds in every reachable state.
LEMMA Invariance == Spec => []IInv
<1>1. Init => IInv
  BY InitInv
<1>2. IInv /\ [Next]_vars => IInv'
  BY NextInv
<1>3. QED
  BY <1>1, <1>2, PTL DEF Spec

\* The types, among them that the loops over the addresses never select a pair
\* outside of the lists, and that a call has a descriptor exactly between
\* socket() or accept() and its end.
THEOREM TypeCorrect == Spec => []TypeOK
<1>1. IInv => TypeOK
  BY DEF IInv, OpInv, FdTypes, RestTypes, TypeOK, Unsocketed
<1>2. QED
  BY <1>1, Invariance, PTL

\* However many addresses a constructor tries and wherever it fails, it leaves
\* no descriptor without an object (except where fcntl() fails after accept()).
THEOREM NoDescriptorLeaks == Spec => []NoneLeftBehind
<1>1. IInv => NoneLeftBehind
  BY SocketsAssumption DEF IInv, OpInv, Held, NoneLeftBehind, Unsocketed
<1>2. QED
  BY <1>1, Invariance, PTL

\* Every connection object holds an established connection.
THEOREM OnlyEstablished == Spec => []ConnectionsConnected
<1>1. IInv => ConnectionsConnected
  BY DEF IInv, Held, ConnectionsConnected
<1>2. QED
  BY <1>1, Invariance, PTL

-----------------------------------------------------------------------------
(***************************************************************************)
(* Which pair of addresses a call ends up with.  PairInv says how far the  *)
(* call has come in the lists: the pairs before the current one cannot be  *)
(* connected, and the socket is bound to the local address of the current  *)
(* pair.  Pairs are numbered in the order of the two nested loops.         *)
(***************************************************************************)

PairsOf(o) == (IF o.la = <<>> THEN {0} ELSE DOMAIN o.la) \X DOMAIN o.ra
Index(o, p) == IF p[1] = 0 THEN p[2] ELSE (p[1] - 1) * Len(o.ra) + p[2]

NoneBefore == \A q \in Reachable(op) : Index(op, q) >= op.k

\* The socket of call o has the first of the pairs that can be connected.
Chosen(o) == \E p \in Reachable(o) :
               /\ local[o.fd] = IF p[1] = 0 THEN NoAddr ELSE o.la[p[1]]
               /\ peer[o.fd] = o.ra[p[2]]
               /\ \A q \in Reachable(o) : Before(p, q)

\* There is no outcome while a call is in progress.
LastInv == op.pc # "idle" => last = [op |-> Idle, res |-> "none"]

\* A constructor that succeeded had a descriptor.
FdInv == last.res = "ok" => last.op.fd \in Fds

\* Which steps belong to which kind of call.
KindInv ==
  /\ op.pc \in {"acc_nonblock", "acc_poll", "acc_accept", "acc_blocking"}
       => op.kind = "accept"
  /\ op.pc \in {"connect_nb", "poll", "so_error", "blocking"} => op.timed
  /\ op.pc = "connect" => op.kind = "connect"
  /\ op.pc = "listen" => op.kind = "listen"
  /\ op.kind = "connect" => op.ra \in Seq(Addrs)

BlockInv ==
  op.pc = "names" /\ op.kind # "listen" /\ op.timed /\ ~op.early
    => ~nonblock[op.fd]

UnboundInv == \A f \in Fds : st[f] = "free" => local[f] = NoAddr

PairInv ==
  op.kind = "connect" /\ ~op.timed /\ ~op.os =>
    /\ op.pc \in {"try", "bind", "connect"} => NoneBefore
    /\ op.pc \in {"bind", "connect"} => ~Mismatch
    /\ op.pc = "connect" => local[op.fd] = Local
    /\ op.pc = "names" => Chosen(op)

-----------------------------------------------------------------------------
(* The arithmetic of two nested loops: row a of n elements, element i *)

LEMMA RowOrder ==
  ASSUME NEW n \in Nat, NEW a \in Nat, NEW b \in Nat, NEW i \in 1..n,
         NEW j \in 1..n, a * n + i <= b * n + j
  PROVE  a < b \/ (a = b /\ i <= j)
<1>1. CASE a = b
  BY <1>1
<1>2. CASE a > b
  <2>1. PICK c \in Nat : a = b + 1 + c
    <3>1. a - b - 1 \in Nat /\ a = b + 1 + (a - b - 1)
      BY <1>2
    <3>2. QED
      BY <3>1
  <2>2. a * n = b * n + n + c * n
    BY <2>1
  <2>3. c * n \in Nat /\ a * n \in Nat /\ b * n \in Nat
    OBVIOUS
  <2>4. i <= j - n
    BY <2>2, <2>3
  <2>5. QED
    BY <2>4
<1>3. QED
  BY <1>1, <1>2

LEMMA RowBound ==
  ASSUME NEW n \in Nat, NEW m \in Nat, NEW a \in Nat, a < m, NEW i \in 1..n
  PROVE  a * n + i \in 1..(m * n)
<1>1. PICK c \in Nat : m = a + 1 + c
  <2>1. m - a - 1 \in Nat /\ m = a + 1 + (m - a - 1)
    OBVIOUS
  <2>2. QED
    BY <2>1
<1>2. m * n = a * n + n + c * n
  BY <1>1
<1>3. c * n \in Nat /\ a * n \in Nat /\ m * n \in Nat
  OBVIOUS
<1>4. QED
  BY <1>2, <1>3

LEMMA RowOf ==
  ASSUME NEW n \in Nat \ {0}, NEW k \in Nat \ {0}
  PROVE  /\ (k - 1) \div n \in Nat
         /\ ((k - 1) % n) + 1 \in 1..n
         /\ ((k - 1) \div n) * n + (((k - 1) % n) + 1) = k
<1> DEFINE q == (k - 1) \div n
           r == (k - 1) % n
<1>1. k - 1 \in Nat
  OBVIOUS
<1>2. q \in Nat /\ r \in 0..(n - 1) /\ k - 1 = n * q + r
  BY <1>1
<1> HIDE DEF q, r
<1>3. q * n = n * q /\ q * n \in Nat
  BY <1>2
<1>4. q * n + (r + 1) = k
  BY <1>2, <1>3
<1>5. QED
  BY <1>2, <1>4 DEF q, r

LEMMA FirstRow ==
  ASSUME NEW n \in Nat \ {0}, NEW k \in 1..n
  PROVE  ((k - 1) % n) + 1 = k
<1> DEFINE q == (k - 1) \div n
           r == ((k - 1) % n) + 1
<1>1. q \in Nat /\ r \in 1..n /\ q * n + r = k
  BY RowOf
<1> HIDE DEF q, r
<1>2. 0 * n + k = q * n + r /\ k \in Nat /\ 0 \in Nat
  BY <1>1
<1>3. 0 * n + k <= q * n + r /\ q * n + r <= 0 * n + k
  BY <1>1, <1>2
<1>4. q < 0 \/ (q = 0 /\ r <= k)
  BY <1>1, <1>2, <1>3, RowOrder
<1>5. q = 0 /\ q * n = 0
  BY <1>1, <1>4
<1>6. r = k
  BY <1>1, <1>5
<1>7. QED
  BY <1>6 DEF r

-----------------------------------------------------------------------------
(* Pairs and their numbers *)

\* A pair of the lists, by its components.
LEMMA PairParts ==
  ASSUME op \in Ops, NEW p \in PairsOf(op)
  PROVE  /\ Len(op.ra) \in Nat /\ Len(op.la) \in Nat
         /\ p = <<p[1], p[2]>> /\ p[2] \in 1..Len(op.ra)
         /\ IF op.la = <<>> THEN p[1] = 0
            ELSE p[1] \in Nat \ {0} /\ p[1] - 1 \in Nat /\ p[1] - 1 < Len(op.la)
BY DEF Ops, PairsOf

\* The numbers of the pairs are the iterations of the loops.
LEMMA IndexBound ==
  ASSUME op \in Ops, op.kind = "connect", NEW p \in PairsOf(op)
  PROVE  Index(op, p) \in 1..Iterations
<1>1. CASE op.la = <<>>
  BY <1>1, PairParts DEF Index, Iterations
<1>2. CASE op.la # <<>>
  <2>1. (p[1] - 1) * Len(op.ra) + p[2] \in 1..(Len(op.la) * Len(op.ra))
    BY <1>2, PairParts, RowBound
  <2>2. p[1] # 0
    BY <1>2, PairParts
  <2>3. QED
    BY <1>2, <2>1, <2>2 DEF Index, Iterations
<1>3. QED
  BY <1>1, <1>2

\* The loops visit the pairs in the order Before.
LEMMA IndexOrder ==
  ASSUME op \in Ops, NEW p \in PairsOf(op), NEW q \in PairsOf(op),
         Index(op, p) <= Index(op, q)
  PROVE  Before(p, q)
<1> DEFINE n == Len(op.ra)
<1>1. CASE op.la = <<>>
  <2>1. p[1] = 0 /\ q[1] = 0
    BY <1>1, PairParts
  <2>2. QED
    BY <2>1, PairParts DEF Index, Before
<1>2. CASE op.la # <<>>
  <2>1. /\ n \in Nat /\ p[1] \in Nat \ {0} /\ q[1] \in Nat \ {0}
        /\ p[1] - 1 \in Nat /\ q[1] - 1 \in Nat /\ p[2] \in 1..n /\ q[2] \in 1..n
    BY <1>2, PairParts
  <2>2. (p[1] - 1) * n + p[2] <= (q[1] - 1) * n + q[2]
    BY <2>1 DEF Index
  <2>3. p[1] - 1 < q[1] - 1 \/ (p[1] - 1 = q[1] - 1 /\ p[2] <= q[2])
    <3> DEFINE a == p[1] - 1
               b == q[1] - 1
               i == p[2]
               j == q[2]
    <3>1. /\ n \in Nat /\ a \in Nat /\ b \in Nat /\ i \in 1..n /\ j \in 1..n
          /\ a * n + i <= b * n + j
      BY <2>1, <2>2
    <3> HIDE DEF n, a, b, i, j
    <3>2. a < b \/ (a = b /\ i <= j)
      BY <3>1, RowOrder
    <3>3. QED
      BY <3>2 DEF a, b, i, j
  <2>4. QED
    BY <2>1, <2>3 DEF Before
<1>3. QED
  BY <1>1, <1>2

\* The loops visit each pair once.
LEMMA IndexOnce ==
  ASSUME op \in Ops, op.kind = "connect", NEW p \in PairsOf(op),
         NEW q \in PairsOf(op), Index(op, p) = Index(op, q)
  PROVE  p = q
<1>1. Index(op, p) \in Nat /\ Index(op, q) \in Nat
  BY IndexBound
<1>2. Index(op, p) <= Index(op, q) /\ Index(op, q) <= Index(op, p)
  BY <1>1
<1>3. Before(p, q) /\ Before(q, p)
  BY <1>2, IndexOrder
<1>4. /\ p = <<p[1], p[2]>> /\ p[1] \in Nat /\ p[2] \in Nat
      /\ q = <<q[1], q[2]>> /\ q[1] \in Nat /\ q[2] \in Nat
  BY PairParts
<1>5. p[1] = q[1] /\ p[2] = q[2]
  BY <1>3, <1>4 DEF Before
<1>6. QED
  BY <1>4, <1>5

\* The pair of the current iteration.
Current == <<IF op.la = <<>> THEN 0 ELSE ((op.k - 1) \div Len(op.ra)) + 1,
             ((op.k - 1) % Len(op.ra)) + 1>>

\* Local and Remote are the addresses of the pair whose number is k.
LEMMA CurrentPair ==
  ASSUME op \in Ops, op.kind = "connect", op.k >= 1, op.k <= Iterations
  PROVE  /\ Current \in PairsOf(op)
         /\ Index(op, Current) = op.k
         /\ Local = IF Current[1] = 0 THEN NoAddr ELSE op.la[Current[1]]
         /\ Remote = op.ra[Current[2]]
         /\ Current[1] = 0 <=> op.la = <<>>
<1> DEFINE m == Len(op.la)
           n == Len(op.ra)
           k == op.k
<1>1. /\ op.la \in Seq(Addrs) /\ op.ra \in Seq(Addrs \cup {NoAddr})
      /\ m \in Nat /\ n \in Nat /\ k \in Nat \ {0}
  BY DEF Ops
<1>2. CASE op.la = <<>>
  <2>1. k <= 1 * n /\ n \in Nat \ {0}
    BY <1>1, <1>2 DEF Iterations
  <2>2. ((k - 1) % n) + 1 = k
    BY <1>1, <2>1, FirstRow
  <2>3. Current = <<0, k>>
    BY <1>2, <2>2 DEF Current
  <2>4. Current[1] = 0 /\ Current[2] = k /\ k \in DOMAIN op.ra
    BY <1>1, <2>1, <2>3
  <2>5. Current \in PairsOf(op)
    BY <1>2, <2>3, <2>4 DEF PairsOf
  <2>6. QED
    BY <1>2, <2>2, <2>4, <2>5 DEF Index, Local, Remote
<1>3. CASE op.la # <<>>
  <2>1. k <= m * n
    BY <1>1, <1>3 DEF Iterations
  <2>2. n # 0
    <3> HIDE DEF m, n, k
    <3>1. n = 0 => m * n = 0
      BY <1>1
    <3>2. m * n # 0
      BY <2>1, <1>1
    <3>3. QED
      BY <3>1, <3>2
  <2>3. ((k - 1) \div n) + 1 \in 1..m /\ ((k - 1) % n) + 1 \in 1..n
    BY <2>1, <2>2, <1>1, LoopIndices
  <2>4. /\ (k - 1) \div n \in Nat
        /\ ((k - 1) \div n) * n + (((k - 1) % n) + 1) = k
    BY <1>1, <2>2, RowOf
  <2>5. /\ Current[1] = ((k - 1) \div n) + 1 /\ Current[2] = ((k - 1) % n) + 1
        /\ Current \in (1..m) \X (1..n)
    BY <1>3, <2>3 DEF Current
  <2>6. Current[1] # 0 /\ Current[1] - 1 = (k - 1) \div n
    <3> DEFINE r == (k - 1) \div n
    <3>1. r \in Nat /\ Current[1] = r + 1
      BY <2>4, <2>5
    <3> HIDE DEF r
    <3>2. Current[1] # 0 /\ Current[1] - 1 = r
      BY <3>1
    <3>3. QED
      BY <3>2 DEF r
  <2>7. Index(op, Current) = k
    BY <2>4, <2>5, <2>6 DEF Index
  <2>8. Current \in PairsOf(op)
    BY <1>1, <1>3, <2>5 DEF PairsOf
  <2>9. QED
    BY <1>3, <2>5, <2>6, <2>7, <2>8 DEF Local, Remote
<1>4. QED
  BY <1>2, <1>3

-----------------------------------------------------------------------------
(* How far a call has come *)

\* An iteration of a connecting call that is inside the lists.
InLists == /\ op \in Ops /\ op.kind = "connect" /\ op.ra \in Seq(Addrs)
           /\ op.k >= 1 /\ op.k <= Iterations

\* The current pair can be connected if the peer accepts and the families agree.
LEMMA CurrentReachable ==
  ASSUME InLists
  PROVE  Current \in Reachable(op) <=> world[Remote] = "accepts" /\ ~Mismatch
<1>1. /\ Current \in PairsOf(op)
      /\ Local = IF Current[1] = 0 THEN NoAddr ELSE op.la[Current[1]]
      /\ Remote = op.ra[Current[2]]
      /\ Current[1] = 0 <=> op.la = <<>>
  BY CurrentPair DEF InLists
<1>2. /\ Current[2] \in DOMAIN op.ra
      /\ Current[1] # 0 => Current[1] \in DOMAIN op.la
  BY <1>1 DEF PairsOf
<1>3. Remote \in Addrs /\ (Current[1] # 0 => Local \in Addrs)
  BY <1>1, <1>2 DEF InLists, Ops
<1>4. Mismatch <=> Current[1] # 0 /\ Family[Local] # Family[Remote]
  BY <1>1, <1>3, SocketsAssumption DEF Mismatch
<1>5. Current \in Reachable(op) <=>
        /\ world[op.ra[Current[2]]] = "accepts"
        /\ Current[1] # 0 => Family[op.la[Current[1]]] = Family[op.ra[Current[2]]]
  BY <1>1 DEF Reachable, PairsOf
<1>6. QED
  BY <1>1, <1>4, <1>5

\* The first pair has the least number, so that a call that starts there misses
\* nothing.
LEMMA IndexPositive ==
  ASSUME NEW o \in Ops, NEW p \in PairsOf(o)
  PROVE  Index(o, p) >= 1
<1>1. /\ Len(o.ra) \in Nat /\ p[2] \in Nat /\ p[2] >= 1
      /\ p[1] = 0 \/ p[1] - 1 \in Nat
  BY DEF Ops, PairsOf
<1>2. CASE p[1] = 0
  BY <1>1, <1>2 DEF Index
<1>3. CASE p[1] # 0
  <2>1. (p[1] - 1) * Len(o.ra) \in Nat
    BY <1>1, <1>3
  <2>2. QED
    BY <1>1, <1>3, <2>1 DEF Index
<1>4. QED
  BY <1>2, <1>3

\* A call that goes on from a pair that cannot be connected has missed nothing.
LEMMA NextPair ==
  ASSUME InLists, NoneBefore, Current \notin Reachable(op),
         op'.la = op.la, op'.ra = op.ra, op'.k = op.k + 1, world' = world
  PROVE  NoneBefore'
<1>1. Reachable(op') = Reachable(op) /\ Reachable(op)' = Reachable(op)
  BY DEF Reachable
<1>2. ASSUME NEW q \in Reachable(op) PROVE Index(op, q) >= op.k + 1
  <2>1. q \in PairsOf(op) /\ Current \in PairsOf(op) /\ Index(op, Current) = op.k
    BY <1>2, CurrentPair DEF Reachable, PairsOf, InLists
  <2>2. Index(op, q) \in Nat /\ op.k \in Nat /\ Index(op, q) >= op.k
    BY <2>1, IndexBound DEF InLists, Ops, NoneBefore
  <2>3. Index(op, q) # op.k
    BY <2>1, IndexOnce DEF InLists
  <2>4. QED
    BY <2>2, <2>3
<1>3. \A q : Index(op, q)' = Index(op, q)
  BY DEF Index
<1>4. QED
  BY <1>1, <1>2, <1>3 DEF NoneBefore

\* A connected pair with nothing connectable before it is the first one.
LEMMA FirstChosen ==
  ASSUME InLists, NoneBefore, Current \in Reachable(op), local[op.fd] = Local,
         op'.la = op.la, op'.ra = op.ra, op'.fd = op.fd, world' = world,
         local' = local, peer'[op.fd] = Remote
  PROVE  Chosen(op)'
<1>1. Reachable(op)' = Reachable(op)
  BY DEF Reachable
<1>2. /\ Current \in PairsOf(op) /\ Index(op, Current) = op.k
      /\ Local = IF Current[1] = 0 THEN NoAddr ELSE op.la[Current[1]]
      /\ Remote = op.ra[Current[2]]
  BY CurrentPair DEF InLists
<1>3. ASSUME NEW q \in Reachable(op) PROVE Before(Current, q)
  <2>1. q \in PairsOf(op) /\ op \in Ops
    BY <1>3 DEF Reachable, PairsOf, InLists
  <2>2. Index(op, Current) <= Index(op, q)
    BY <1>2, <2>1, IndexBound DEF NoneBefore, InLists
  <2>3. QED
    BY <1>2, <2>1, <2>2, IndexOrder
<1>4. \E p \in Reachable(op) :
        /\ local[op.fd] = IF p[1] = 0 THEN NoAddr ELSE op.la[p[1]]
        /\ peer'[op.fd] = op.ra[p[2]]
        /\ \A q \in Reachable(op) : Before(p, q)
  BY <1>2, <1>3
<1>5. QED
  BY <1>1, <1>4 DEF Chosen

\* When the lists are exhausted nothing could be connected.
LEMMA NothingReachable ==
  ASSUME op \in Ops, op.kind = "connect", NoneBefore, op.k > Iterations
  PROVE  Reachable(op) = {}
<1> SUFFICES ASSUME NEW q \in Reachable(op) PROVE FALSE
  OBVIOUS
<1>1. q \in PairsOf(op)
  BY DEF Reachable, PairsOf
<1>2. Index(op, q) \in Nat /\ Index(op, q) <= Iterations /\ Index(op, q) >= op.k
  BY <1>1, IndexBound DEF NoneBefore
<1>3. Iterations \in Nat /\ op.k \in Nat
  BY DEF Iterations, Ops
<1>4. QED
  BY <1>2, <1>3

-----------------------------------------------------------------------------
(* The outcome of a call: one lemma per action *)

OInv == /\ LastInv /\ FdInv /\ KindInv /\ BlockInv /\ UnboundInv /\ PairInv
        /\ ReachesFirst /\ BlockingAgain

\* While a call is in progress there is no outcome to be judged.
LEMMA NoOutcome ==
  ASSUME last' = [op |-> Idle, res |-> "none"]
  PROVE  LastInv' /\ FdInv' /\ ReachesFirst' /\ BlockingAgain'
<1>1. last'.op.kind = "none" /\ last'.res = "none"
  BY DEF Idle
<1>2. QED
  BY <1>1 DEF LastInv, FdInv, ReachesFirst, BlockingAgain

\* A call in progress has no outcome yet, and that stays so.
LEMMA StillNoOutcome ==
  ASSUME OInv, op.pc # "idle", last' = last
  PROVE  LastInv' /\ FdInv' /\ ReachesFirst' /\ BlockingAgain'
BY NoOutcome DEF OInv, LastInv

\* Between the calls nothing is to be said about the call in progress.
LEMMA IdleParts ==
  ASSUME op' = Idle
  PROVE  LastInv' /\ KindInv' /\ BlockInv' /\ PairInv'
BY DEF Idle, LastInv, KindInv, BlockInv, PairInv

\* The next step of a call keeps all other fields.
LEMMA GotoRest ==
  ASSUME op \in Ops, NEW l \in PCs, Goto(l)
  PROVE  /\ op'.timed = op.timed /\ op'.os = op.os /\ op'.early = op.early
         /\ op'.acc = op.acc
BY DEF Goto, Ops

\* The fields after a failed attempt.
LEMMA AbandonFields ==
  ASSUME op \in Ops, NEW os \in BOOLEAN, Abandon(os)
  PROVE  /\ op'.pc = "try" /\ op'.kind = op.kind /\ op'.k = op.k + 1
         /\ op'.ra = op.ra /\ op'.la = op.la /\ op'.timed = op.timed
         /\ ~op'.os => ~op.os /\ ~os
<1>1. op' = [op EXCEPT !.pc = "try", !.k = @ + 1, !.fd = NoFd, !.os = @ \/ os]
  BY DEF Abandon
<1>2. op'.os <=> (op.os \/ os)
  BY <1>1, Zenon DEF Ops
<1>3. QED
  BY <1>1, <1>2, Zenon DEF Ops

\* A closed descriptor is not bound.
LEMMA DisposeUnbound ==
  ASSUME FdTypes, UnboundInv, NEW f \in Fds, Dispose(f)
  PROVE  UnboundInv'
BY DEF FdTypes, UnboundInv, Dispose

\* A failed attempt: the peer did not accept, or the system failed, or there is
\* a timeout.
LEMMA AbandonOut ==
  ASSUME IInv, OInv, op.pc \in Attempting, NEW os \in BOOLEAN, Abandon(os),
         UNCHANGED world,
         op.kind = "connect" /\ ~op.timed /\ ~os => Current \notin Reachable(op)
  PROVE  OInv'
<1>1. /\ op \in Ops /\ op.fd \in Fds /\ op.k \in Nat /\ op.k >= 1
      /\ op.k <= Iterations
  BY SocketInFds DEF IInv, OpInv, Ops, Attempting, Unsocketed
<1>2. /\ op'.pc = "try" /\ op'.kind = op.kind /\ op'.k = op.k + 1
      /\ op'.ra = op.ra /\ op'.la = op.la /\ op'.timed = op.timed
      /\ ~op'.os => ~op.os /\ ~os
  BY <1>1, AbandonFields
<1>3. LastInv' /\ FdInv' /\ ReachesFirst' /\ BlockingAgain'
  BY StillNoOutcome DEF Abandon, Attempting
<1>4. KindInv' /\ BlockInv'
  BY <1>2 DEF OInv, KindInv, BlockInv
<1>5. UnboundInv'
  BY <1>1, DisposeUnbound DEF IInv, OInv, Abandon
<1>6. PairInv'
  <2> SUFFICES ASSUME op.kind = "connect", ~op.timed, ~op.os, ~os
               PROVE  NoneBefore'
    BY <1>2 DEF PairInv
  <2>1. op.pc \in {"bind", "connect"}
    BY DEF OInv, KindInv, Attempting
  <2>2. NoneBefore
    BY <2>1 DEF OInv, PairInv
  <2>3. InLists
    BY <1>1 DEF InLists, OInv, KindInv
  <2>4. QED
    BY <1>2, <2>2, <2>3, NextPair
<1>7. QED
  BY <1>3, <1>4, <1>5, <1>6 DEF OInv

\* An exception that leaves the constructor is a failure of the system.
LEMMA ThrowOut ==
  ASSUME IInv, OInv, op.pc \notin Unsocketed, Throw
  PROVE  OInv'
<1>1. op \in Ops /\ op.fd \in Fds
  BY SocketInFds DEF IInv, OpInv
<1>2. last'.op.os /\ last'.res = "error"
  <2>1. last' = [op |-> [op EXCEPT !.os = TRUE], res |-> "error"]
    BY DEF Throw
  <2>2. [op EXCEPT !.os = TRUE].os = TRUE
    BY <1>1 DEF Ops
  <2>3. QED
    BY <2>1, <2>2
<1>3. FdInv' /\ ReachesFirst' /\ BlockingAgain'
  BY <1>2 DEF FdInv, ReachesFirst, BlockingAgain
<1>4. LastInv' /\ KindInv' /\ BlockInv' /\ PairInv'
  BY IdleParts DEF Throw
<1>5. UnboundInv'
  BY <1>1, DisposeUnbound DEF IInv, OInv, Throw
<1>6. QED
  BY <1>3, <1>4, <1>5 DEF OInv

\* An exception of accept.
LEMMA AcceptThrowsOut ==
  ASSUME IInv, OInv, op.kind = "accept", NEW res \in {"timeout", "error"},
         NEW os \in BOOLEAN, AcceptThrows(res, os)
  PROVE  OInv'
<1>1. op \in Ops
  BY DEF IInv, OpInv
<1>2. last'.op.kind = "accept" /\ last'.res # "ok"
  BY <1>1 DEF AcceptThrows, Ops
<1>3. FdInv' /\ ReachesFirst' /\ BlockingAgain'
  BY <1>2 DEF FdInv, ReachesFirst, BlockingAgain
<1>4. LastInv' /\ KindInv' /\ BlockInv' /\ PairInv'
  BY IdleParts DEF AcceptThrows
<1>5. UnboundInv'
  BY DEF OInv, UnboundInv, AcceptThrows, fdVars
<1>6. QED
  BY <1>3, <1>4, <1>5 DEF OInv

\* A call starts at the first pair.
LEMMA BeginOut ==
  ASSUME IInv, OInv, NEW o \in Ops, Begin(o), o.pc \in Unsocketed,
         o.kind = "connect" => o.ra \in Seq(Addrs) /\ o.pc = "try" /\ o.k = 1,
         o.pc \notin {"idle", "try"} => o.kind = "accept"
  PROVE  OInv'
<1>1. op' = o /\ last' = [op |-> Idle, res |-> "none"] /\ UNCHANGED fdVars
  BY DEF Begin
<1>2. LastInv' /\ FdInv' /\ ReachesFirst' /\ BlockingAgain'
  BY <1>1, NoOutcome
<1>3. KindInv' /\ BlockInv'
  BY <1>1 DEF KindInv, BlockInv, Unsocketed
<1>4. UnboundInv'
  BY <1>1 DEF OInv, UnboundInv, fdVars
<1>5. op'.kind = "connect" => NoneBefore'
  <2>1. \A q \in Reachable(op)' : q \in PairsOf(op')
    BY DEF Reachable, PairsOf
  <2>2. \A q \in PairsOf(op') : Index(op', q) >= 1
    BY <1>1, IndexPositive
  <2>3. QED
    BY <1>1, <2>1, <2>2 DEF NoneBefore
<1>6. PairInv'
  BY <1>1, <1>5 DEF PairInv
<1>7. QED
  BY <1>2, <1>3, <1>4, <1>6 DEF OInv

\* A step inside a call that does not connect, or connects with a timeout: only
\* the mode of the socket and the sequence of steps matter.
LEMMA GotoOut ==
  ASSUME IInv, OInv, op.pc # "idle", NEW l \in PCs, Goto(l), UnboundInv',
         op.timed \/ op.kind # "connect",
         l \in {"acc_nonblock", "acc_poll", "acc_accept", "acc_blocking"}
           => op.kind = "accept",
         l \in {"connect_nb", "poll", "so_error", "blocking"} => op.timed,
         l = "connect" => op.kind = "connect",
         l = "listen" => op.kind = "listen",
         l = "names" /\ op.kind # "listen" /\ op.timed /\ ~op.early
           => ~nonblock'[op.fd]
  PROVE  OInv'
<1>1. /\ op'.pc = l /\ op'.fd = op.fd /\ op'.kind = op.kind /\ op'.ra = op.ra
      /\ op'.timed = op.timed /\ op'.early = op.early /\ last' = last
  BY GotoFields, GotoRest DEF IInv, OpInv
<1>2. LastInv' /\ FdInv' /\ ReachesFirst' /\ BlockingAgain'
  BY <1>1, StillNoOutcome
<1>3. KindInv'
  BY <1>1 DEF OInv, KindInv
<1>4. BlockInv'
  BY <1>1 DEF BlockInv
<1>5. PairInv'
  BY <1>1 DEF PairInv
<1>6. QED
  BY <1>2, <1>3, <1>4, <1>5 DEF OInv

\* connection(ra, la, timeout) starts at the first pair of its lists.
LEMMA CallConnectOut ==
  ASSUME IInv, OInv, NEW c \in Connects, CallConnect(c)
  PROVE  OInv'
<1> DEFINE o == [Idle EXCEPT !.kind = "connect", !.pc = "try", !.k = 1,
                             !.ra = c.ra, !.la = c.la, !.timed = c.timed]
<1>1. c.ra \in Seq(Addrs) /\ c.la \in Seq(Addrs) /\ c.timed \in BOOLEAN
  BY SocketsAssumption
<1>2. c.ra \in Seq(Addrs \cup {NoAddr})
  BY <1>1
<1>3. o \in Ops /\ o.pc = "try" /\ o.kind = "connect" /\ o.k = 1 /\ o.ra = c.ra
  BY <1>1, <1>2 DEF Idle, Ops, PCs
<1>4. Begin(o)
  BY DEF CallConnect
<1> HIDE DEF o
<1>5. QED
  BY <1>1, <1>3, <1>4, BeginOut DEF Unsocketed

\* acceptor(la, backlog) and connection(acceptor&, timeout) connect nothing.
LEMMA CallListenOut ==
  ASSUME IInv, OInv, NEW la \in Listens, CallListen(la)
  PROVE  OInv'
<1> DEFINE o == [Idle EXCEPT !.kind = "listen", !.pc = "try", !.k = 1,
                             !.ra = <<NoAddr>>, !.la = la]
<1>1. la \in Seq(Addrs) /\ <<NoAddr>> \in Seq(Addrs \cup {NoAddr})
  BY SocketsAssumption
<1>2. o \in Ops /\ o.pc = "try" /\ o.kind = "listen"
  BY <1>1 DEF Idle, Ops, PCs
<1>3. Begin(o)
  BY DEF CallListen
<1> HIDE DEF o
<1>4. QED
  BY <1>2, <1>3, BeginOut DEF Unsocketed

LEMMA CallAcceptOut ==
  ASSUME IInv, OInv, NEW a \in Fds, NEW timed \in BOOLEAN, CallAccept(a, timed)
  PROVE  OInv'
<1> DEFINE o(l) == [Idle EXCEPT !.kind = "accept", !.timed = timed, !.acc = a,
                                !.pc = l]
<1>1. PICK l \in {"acc_nonblock", "acc_accept"} : Begin(o(l))
  BY Zenon DEF CallAccept
<1>2. o(l) \in Ops /\ o(l).pc = l /\ o(l).kind = "accept"
  <2>1. Idle \in Ops
    BY DEF Idle, Ops, PCs
  <2>2. l \in PCs
    BY DEF PCs
  <2>3. QED
    BY <2>1, <2>2, Zenon DEF Ops
<1> HIDE DEF o
<1>3. QED
  BY <1>1, <1>2, BeginOut DEF Unsocketed

\* A pair of different families cannot be connected.
LEMMA SkipPairOut ==
  ASSUME IInv, OInv, SkipPair
  PROVE  OInv'
<1>1. /\ op \in Ops /\ op.pc = "try" /\ op.k \in Nat /\ op.k >= 1
      /\ op.k <= Iterations /\ Mismatch
  BY DEF IInv, OpInv, Ops, SkipPair, Trying
<1>2. /\ op'.pc = "try" /\ op'.kind = op.kind /\ op'.k = op.k + 1
      /\ op'.ra = op.ra /\ op'.la = op.la /\ op'.timed = op.timed
      /\ op'.os = op.os
  BY <1>1 DEF Ops, SkipPair
<1>3. LastInv' /\ FdInv' /\ ReachesFirst' /\ BlockingAgain'
  BY <1>1, StillNoOutcome DEF SkipPair
<1>4. KindInv' /\ BlockInv'
  BY <1>1, <1>2 DEF OInv, KindInv, BlockInv
<1>5. UnboundInv'
  BY DEF OInv, UnboundInv, SkipPair, fdVars
<1>6. PairInv'
  <2> SUFFICES ASSUME op.kind = "connect", ~op.timed, ~op.os
               PROVE  NoneBefore'
    BY <1>2 DEF PairInv
  <2>1. NoneBefore
    BY <1>1 DEF OInv, PairInv
  <2>2. InLists
    BY <1>1 DEF InLists, OInv, KindInv
  <2>3. Current \notin Reachable(op)
    BY <1>1, <2>2, CurrentReachable
  <2>4. world' = world
    BY DEF SkipPair
  <2>5. QED
    BY <1>2, <2>1, <2>2, <2>3, <2>4, NextPair
<1>7. QED
  BY <1>3, <1>4, <1>5, <1>6 DEF OInv

\* The error at the end of the lists means that no pair could be connected.
LEMMA NoMorePairsOut ==
  ASSUME IInv, OInv, NoMorePairs
  PROVE  OInv'
<1>1. /\ op \in Ops /\ op.pc = "try" /\ op.k > Iterations /\ op' = Idle
      /\ last' = [op |-> op, res |-> "error"] /\ world' = world
  BY DEF IInv, OpInv, NoMorePairs, End
<1>2. LastInv' /\ KindInv' /\ BlockInv' /\ PairInv'
  BY <1>1, IdleParts
<1>3. UnboundInv'
  BY DEF OInv, UnboundInv, NoMorePairs, fdVars
<1>4. last'.op = op /\ last'.res = "error"
  BY <1>1
<1>5. FdInv' /\ BlockingAgain'
  BY <1>4 DEF FdInv, BlockingAgain
<1>6. ASSUME op.kind = "connect", ~op.timed, ~op.os PROVE Reachable(op) = {}
  <2>1. NoneBefore
    BY <1>1, <1>6 DEF OInv, PairInv
  <2>2. QED
    BY <1>1, <1>6, <2>1, NothingReachable
<1>7. Reachable(last.op)' = Reachable(op)
  BY <1>1, <1>4 DEF Reachable
<1>8. ReachesFirst'
  BY <1>4, <1>6, <1>7 DEF ReachesFirst
<1>9. QED
  BY <1>2, <1>3, <1>5, <1>8 DEF OInv

\* The constructor of socket: the new socket is unbound, and the families of the
\* pair agree.
LEMMA MakeSocketOut ==
  ASSUME IInv, OInv, MakeSocket
  PROVE  OInv'
<1>1. /\ op \in Ops /\ op.pc = "try" /\ op.k \in Nat /\ op.k >= 1
      /\ op.k <= Iterations /\ op.kind \in {"connect", "listen"}
      /\ ~Mismatch /\ last' = last /\ world' = world
  BY DEF IInv, OpInv, Ops, MakeSocket, Trying
<1>2. LastInv' /\ FdInv' /\ ReachesFirst' /\ BlockingAgain'
  BY <1>1, StillNoOutcome
<1>3. ASSUME NEW f \in Fds, Open(f, "new", FALSE, "call"),
             op' = [op EXCEPT !.fd = f, !.pc = IF Local # NoAddr THEN "bind"
                                               ELSE "connect"],
             Local = NoAddr => op.kind = "connect"
      PROVE  OInv'
  <2>1. PICK l \in {"bind", "connect"} :
          op' = [op EXCEPT !.fd = f, !.pc = l] /\ (l = "connect" <=> Local = NoAddr)
    BY <1>3
  <2>2. /\ op'.pc = l /\ op'.fd = f /\ op'.kind = op.kind /\ op'.k = op.k
        /\ op'.ra = op.ra /\ op'.la = op.la /\ op'.timed = op.timed
        /\ op'.os = op.os
    BY <1>1, <2>1 DEF Ops
  <2>3. st[f] = "free" /\ st' = [st EXCEPT ![f] = "new"] /\ local' = local
    BY <1>3 DEF Open
  <2>4. UnboundInv'
    BY <2>3 DEF IInv, FdTypes, OInv, UnboundInv
  <2>5. KindInv' /\ BlockInv'
    BY <1>3, <2>1, <2>2 DEF OInv, KindInv, BlockInv
  <2>6. Local' = Local /\ Remote' = Remote /\ Mismatch' = Mismatch
    BY <2>2 DEF Local, Remote, Mismatch
  <2>7. NoneBefore => NoneBefore'
    BY <1>1, <2>2 DEF NoneBefore, Reachable, Index
  <2>8. local'[f] = NoAddr
    BY <2>3 DEF OInv, UnboundInv
  <2>9. PairInv'
    BY <1>1, <2>1, <2>2, <2>6, <2>7, <2>8 DEF OInv, PairInv
  <2>10. QED
    BY <1>2, <2>4, <2>5, <2>9 DEF OInv
<1>4. ASSUME op' = [op EXCEPT !.k = @ + 1, !.os = TRUE], UNCHANGED fdVars
      PROVE  OInv'
  <2>1. /\ op'.pc = "try" /\ op'.kind = op.kind /\ op'.ra = op.ra
        /\ op'.timed = op.timed /\ op'.os
    <3>1. op'.os = TRUE
      BY <1>1, <1>4, Zenon DEF Ops
    <3>2. QED
      BY <1>1, <1>4, <3>1, Zenon DEF Ops
  <2>2. KindInv' /\ BlockInv' /\ PairInv'
    BY <2>1 DEF OInv, KindInv, BlockInv, PairInv
  <2>3. UnboundInv'
    BY <1>4 DEF OInv, UnboundInv, fdVars
  <2>4. QED
    BY <1>2, <2>2, <2>3 DEF OInv
<1>5. op.kind = "listen" => Local # NoAddr
  <2> SUFFICES ASSUME op.kind = "listen" PROVE Local # NoAddr
    OBVIOUS
  <2> DEFINE m == Len(op.la)
             n == Len(op.ra)
             k == op.k
  <2>1. /\ op.la \in Seq(Addrs) /\ m \in Nat /\ n \in Nat /\ k \in Nat /\ k >= 1
        /\ k <= m * n
    BY <1>1 DEF Ops, Iterations
  <2>2. n # 0 /\ m # 0
    <3> HIDE DEF m, n, k
    <3>1. (n = 0 \/ m = 0) => m * n = 0
      BY <2>1
    <3>2. m * n # 0
      BY <2>1
    <3>3. QED
      BY <3>1, <3>2
  <2>3. ((k - 1) \div n) + 1 \in 1..m
    BY <2>1, <2>2, LoopIndices
  <2>4. op.la # <<>>
    BY <2>2
  <2>5. Local \in Addrs
    BY <2>1, <2>3, <2>4 DEF Local
  <2>6. QED
    BY <2>5, SocketsAssumption
<1>6. QED
  BY <1>1, <1>3, <1>4, <1>5 DEF MakeSocket

\* my_bind(): the socket has the local address of the pair.
LEMMA BindOut ==
  ASSUME IInv, OInv, Bind
  PROVE  OInv'
<1>1. /\ op \in Ops /\ op.pc = "bind" /\ op.fd \in Fds
      /\ op.kind \in {"connect", "listen"} /\ world' = world
  BY SocketInFds DEF IInv, OpInv, Bind, Unsocketed, Attempting
<1>2. ASSUME Abandon(TRUE)
      PROVE  OInv'
  BY <1>1, <1>2, AbandonOut DEF Attempting
<1>3. ASSUME local' = [local EXCEPT ![op.fd] = Local],
             st' = [st EXCEPT ![op.fd] = "bound"],
             Goto(IF op.kind = "connect" THEN "connect" ELSE "names"),
             UNCHANGED <<nonblock, peer, owner>>
      PROVE  OInv'
  <2>1. PICK l \in {"connect", "names"} :
          Goto(l) /\ (l = "connect" <=> op.kind = "connect")
    BY <1>3
  <2>2. /\ op'.pc = l /\ op'.fd = op.fd /\ op'.kind = op.kind /\ op'.k = op.k
        /\ op'.la = op.la /\ op'.ra = op.ra /\ op'.timed = op.timed
        /\ op'.os = op.os /\ last' = last
    BY <1>1, <2>1, GotoFields, GotoRest DEF PCs
  <2>3. UnboundInv'
    BY <1>1, <1>3 DEF IInv, FdTypes, OInv, UnboundInv
  <2>4. LastInv' /\ FdInv' /\ ReachesFirst' /\ BlockingAgain'
    BY <1>1, <2>2, StillNoOutcome
  <2>5. KindInv' /\ BlockInv'
    BY <1>1, <2>1, <2>2 DEF OInv, KindInv, BlockInv
  <2>6. Local' = Local /\ Remote' = Remote /\ Mismatch' = Mismatch
    BY <2>2 DEF Local, Remote, Mismatch
  <2>7. NoneBefore => NoneBefore'
    BY <1>1, <2>2 DEF NoneBefore, Reachable, Index
  <2>8. local'[op.fd] = Local
    BY <1>1, <1>3 DEF IInv, FdTypes
  <2>9. PairInv'
    BY <1>1, <2>1, <2>2, <2>6, <2>7, <2>8 DEF OInv, PairInv
  <2>10. QED
    BY <2>3, <2>4, <2>5, <2>9 DEF OInv
<1>4. QED
  BY <1>2, <1>3 DEF Bind

\* my_connect() without a timeout: the first pair that can be connected is.
LEMMA ConnectBlockingOut ==
  ASSUME IInv, OInv, ConnectBlocking
  PROVE  OInv'
<1>1. /\ op \in Ops /\ op.pc = "connect" /\ op.fd \in Fds /\ op.kind = "connect"
      /\ op.k \in Nat /\ op.k >= 1 /\ op.k <= Iterations /\ ~op.timed
      /\ world' = world
  BY SocketInFds DEF IInv, OpInv, Ops, OInv, KindInv, ConnectBlocking, Unsocketed,
                     Attempting
<1>2. InLists
  BY <1>1 DEF InLists, OInv, KindInv
<1>3. ASSUME world[Remote] # "accepts", Abandon(FALSE)
      PROVE  OInv'
  <2>1. Current \notin Reachable(op)
    BY <1>2, <1>3, CurrentReachable
  <2>2. QED
    BY <1>1, <1>3, <2>1, AbandonOut DEF Attempting
<1>4. ASSUME Abandon(TRUE)
      PROVE  OInv'
  BY <1>1, <1>4, AbandonOut DEF Attempting
<1>5. ASSUME world[Remote] = "accepts", st' = [st EXCEPT ![op.fd] = "connected"],
             peer' = [peer EXCEPT ![op.fd] = Remote], Goto("names"),
             UNCHANGED <<nonblock, local, owner>>
      PROVE  OInv'
  <2>1. /\ op'.pc = "names" /\ op'.fd = op.fd /\ op'.kind = op.kind /\ op'.k = op.k
        /\ op'.la = op.la /\ op'.ra = op.ra /\ op'.timed = op.timed
        /\ op'.os = op.os /\ last' = last
    BY <1>1, <1>5, GotoFields, GotoRest DEF PCs
  <2>2. UnboundInv'
    BY <1>1, <1>5 DEF IInv, FdTypes, OInv, UnboundInv
  <2>3. LastInv' /\ FdInv' /\ ReachesFirst' /\ BlockingAgain'
    BY <1>1, <2>1, StillNoOutcome
  <2>4. KindInv' /\ BlockInv'
    BY <1>1, <2>1 DEF OInv, KindInv, BlockInv
  <2>5. PairInv'
    <3> SUFFICES ASSUME ~op.os PROVE Chosen(op)'
      BY <2>1 DEF PairInv
    <3>1. NoneBefore /\ ~Mismatch /\ local[op.fd] = Local
      BY <1>1 DEF OInv, PairInv
    <3>2. Current \in Reachable(op)
      BY <1>2, <1>5, <3>1, CurrentReachable
    <3>3. peer'[op.fd] = Remote /\ local' = local
      BY <1>1, <1>5 DEF IInv, FdTypes
    <3>4. QED
      BY <1>1, <1>2, <2>1, <3>1, <3>2, <3>3, FirstChosen
  <2>6. QED
    BY <2>2, <2>3, <2>4, <2>5 DEF OInv
<1>6. QED
  BY <1>3, <1>4, <1>5 DEF ConnectBlocking

\* my_connect() with a timeout: a failed attempt is abandoned, and otherwise
\* only the mode of the socket matters.
LEMMA TimedConnectOut ==
  ASSUME IInv, OInv,
         ConnectNonblocking \/ ConnectStarts \/ PollConnect \/ SoError
           \/ BackToBlocking
  PROVE  OInv'
<1>1. /\ op \in Ops /\ op.pc \in Attempting /\ op.pc # "idle" /\ op.fd \in Fds
      /\ op.timed /\ world' = world
  BY SocketInFds DEF IInv, OpInv, OInv, KindInv, ConnectNonblocking, ConnectStarts,
     PollConnect, SoError, BackToBlocking, Unsocketed, Attempting
<1>2. ASSUME NEW os \in BOOLEAN, Abandon(os)
      PROVE  OInv'
  BY <1>1, <1>2, AbandonOut
<1>3. ASSUME NEW s \in {"connecting", "connected", "failed"},
             st' = [st EXCEPT ![op.fd] = s], local' = local
      PROVE  UnboundInv'
  BY <1>1, <1>3 DEF IInv, FdTypes, OInv, UnboundInv
<1>4. ASSUME st' = st, local' = local
      PROVE  UnboundInv'
  BY <1>4 DEF OInv, UnboundInv
<1>5. ASSUME NEW l \in {"connect_nb", "poll", "so_error", "blocking"}, Goto(l),
             UnboundInv'
      PROVE  OInv'
  BY <1>1, <1>5, GotoOut DEF PCs
<1>6. CASE ConnectNonblocking
  <2>1. CASE SetNonblock(op.fd, TRUE) /\ Goto("connect_nb")
    BY <2>1, <1>4, <1>5 DEF SetNonblock
  <2>2. QED
    BY <1>2, <1>6, <2>1 DEF ConnectNonblocking
<1>7. CASE ConnectStarts
  <2>1. ASSUME st' = [st EXCEPT ![op.fd] = "connecting"], local' = local, Goto("poll")
        PROVE  OInv'
    BY <2>1, <1>3, <1>5
  <2>2. ASSUME st' = [st EXCEPT ![op.fd] = "connected"], local' = local,
               op' = [op EXCEPT !.pc = "names", !.early = TRUE], last' = last
        PROVE  OInv'
    <3>1. UnboundInv'
      BY <2>2, <1>3
    <3>2. /\ op'.pc = "names" /\ op'.kind = op.kind /\ op'.ra = op.ra /\ op'.timed
          /\ op'.early
      <4>1. op'.early = TRUE /\ op'.timed = op.timed
        BY <1>1, <2>2, Zenon DEF Ops
      <4>2. QED
        BY <1>1, <2>2, <4>1, Zenon DEF Ops
    <3>3. LastInv' /\ FdInv' /\ ReachesFirst' /\ BlockingAgain'
      BY <1>1, <2>2, StillNoOutcome
    <3>4. KindInv' /\ BlockInv' /\ PairInv'
      BY <3>2 DEF OInv, KindInv, BlockInv, PairInv
    <3>5. QED
      BY <3>1, <3>3, <3>4 DEF OInv
  <2>3. QED
    BY <1>2, <1>7, <2>1, <2>2 DEF ConnectStarts
<1>8. CASE PollConnect
  <2>1. ASSUME NEW s \in {"connecting", "connected", "failed"},
               st' = [st EXCEPT ![op.fd] = s], local' = local, Goto("so_error")
        PROVE  OInv'
    BY <2>1, <1>3, <1>5
  <2>2. QED
    BY <1>2, <1>8, <2>1 DEF PollConnect
<1>9. CASE SoError
  <2>1. CASE Goto("blocking") /\ UNCHANGED fdVars
    BY <2>1, <1>4, <1>5 DEF fdVars
  <2>2. QED
    BY <1>2, <1>9, <2>1 DEF SoError
<1>10. CASE BackToBlocking
  <2>1. CASE SetNonblock(op.fd, FALSE) /\ Goto("names")
    <3>1. ~nonblock'[op.fd]
      <4>1. nonblock'[op.fd] = FALSE
        BY <1>1, <2>1 DEF SetNonblock, IInv, FdTypes
      <4>2. QED
        BY <4>1
    <3>2. UnboundInv'
      BY <2>1, <1>4 DEF SetNonblock
    <3>3. QED
      BY <1>1, <2>1, <3>1, <3>2, GotoOut DEF PCs
  <2>2. QED
    BY <1>2, <1>10, <2>1 DEF BackToBlocking
<1>11. QED
  BY <1>6, <1>7, <1>8, <1>9, <1>10

\* The constructor ends: its outcome is the first pair, or a blocking socket.
LEMMA NamesOut ==
  ASSUME IInv, OInv, Names
  PROVE  OInv'
<1>1. /\ op \in Ops /\ op.pc = "names" /\ op.pc \notin Unsocketed /\ op.fd \in Fds
      /\ world' = world
  BY SocketInFds DEF IInv, OpInv, Names, Unsocketed
<1>2. ASSUME Throw PROVE OInv'
  BY <1>1, <1>2, ThrowOut
<1>3. ASSUME op.kind # "listen", End("ok"), UNCHANGED <<st, nonblock, local, peer>>
      PROVE  OInv'
  <2>1. /\ op' = Idle /\ last'.op = op /\ last'.res = "ok"
        /\ st' = st /\ nonblock' = nonblock /\ local' = local /\ peer' = peer
    BY <1>3 DEF End
  <2>2. LastInv' /\ KindInv' /\ BlockInv' /\ PairInv'
    BY <2>1, IdleParts
  <2>3. UnboundInv'
    BY <2>1 DEF OInv, UnboundInv
  <2>4. op.timed /\ ~op.early => ~nonblock'[op.fd]
    BY <1>1, <1>3, <2>1 DEF OInv, BlockInv
  <2>5. FdInv' /\ BlockingAgain'
    BY <1>1, <2>1, <2>4 DEF FdInv, BlockingAgain
  <2>6. op.kind = "connect" /\ ~op.timed /\ ~op.os => Chosen(op)
    BY <1>1 DEF OInv, PairInv
  <2>7. Chosen(op) => Chosen(last.op)'
    BY <1>1, <2>1 DEF Chosen, Reachable
  <2>8. ReachesFirst'
    BY <2>1, <2>6, <2>7 DEF ReachesFirst, Chosen
  <2>9. QED
    BY <2>2, <2>3, <2>5, <2>8 DEF OInv
<1>4. ASSUME op.kind = "listen", Goto("listen"), UNCHANGED fdVars
      PROVE  OInv'
  <2>1. UnboundInv'
    BY <1>4 DEF OInv, UnboundInv, fdVars
  <2>2. QED
    BY <1>1, <1>4, <2>1, GotoOut DEF PCs
<1>5. QED
  BY <1>1, <1>2, <1>3, <1>4 DEF Names

\* The end of the constructor of acceptor says nothing about connections.
LEMMA ListenSocketOut ==
  ASSUME IInv, OInv, ListenSocket
  PROVE  OInv'
<1>1. /\ op \in Ops /\ op.pc = "listen" /\ op.pc \notin Unsocketed /\ op.fd \in Fds
      /\ op.kind = "listen"
  BY SocketInFds DEF IInv, OpInv, OInv, KindInv, ListenSocket, Unsocketed
<1>2. ASSUME Throw PROVE OInv'
  BY <1>1, <1>2, ThrowOut
<1>3. ASSUME st' = [st EXCEPT ![op.fd] = "listening"],
             owner' = [owner EXCEPT ![op.fd] = "acceptor"], End("ok"),
             local' = local
      PROVE  OInv'
  <2>1. op' = Idle /\ last'.op = op
    BY <1>3 DEF End
  <2>2. LastInv' /\ KindInv' /\ BlockInv' /\ PairInv'
    BY <2>1, IdleParts
  <2>3. UnboundInv'
    BY <1>1, <1>3 DEF IInv, FdTypes, OInv, UnboundInv
  <2>4. owner'[op.fd] = "acceptor"
    BY <1>1, <1>3 DEF IInv, FdTypes
  <2>5. FdInv' /\ BlockingAgain' /\ ReachesFirst'
    BY <1>1, <2>1, <2>4 DEF FdInv, BlockingAgain, ReachesFirst
  <2>6. QED
    BY <2>2, <2>3, <2>5 DEF OInv
<1>4. QED
  BY <1>2, <1>3 DEF ListenSocket

\* Accepting: the new socket of a timed call is switched to blocking mode.
LEMMA AcceptOut ==
  ASSUME IInv, OInv,
         AcceptNonblocking \/ PollAccept \/ AcceptSocket \/ AcceptBlocking
  PROVE  OInv'
<1>1. op \in Ops /\ op.pc # "idle" /\ op.kind = "accept" /\ world' = world
  BY DEF IInv, OpInv, OInv, KindInv, AcceptNonblocking, PollAccept, AcceptSocket,
         AcceptBlocking
<1>2. ASSUME NEW res \in {"timeout", "error"}, NEW os \in BOOLEAN,
             AcceptThrows(res, os)
      PROVE  OInv'
  BY <1>1, <1>2, AcceptThrowsOut
<1>3. ASSUME st' = st, local' = local
      PROVE  UnboundInv'
  BY <1>3 DEF OInv, UnboundInv
<1>4. ASSUME NEW l \in {"acc_poll", "acc_accept"}, Goto(l), UnboundInv'
      PROVE  OInv'
  BY <1>1, <1>4, GotoOut DEF PCs
<1>5. CASE AcceptNonblocking
  <2>1. CASE SetNonblock(op.acc, TRUE) /\ Goto("acc_poll")
    BY <2>1, <1>3, <1>4 DEF SetNonblock
  <2>2. QED
    BY <1>2, <1>5, <2>1 DEF AcceptNonblocking
<1>6. CASE PollAccept
  <2>1. CASE Goto("acc_accept") /\ UNCHANGED fdVars
    BY <2>1, <1>3, <1>4 DEF fdVars
  <2>2. QED
    BY <1>2, <1>6, <2>1 DEF PollAccept
<1>7. CASE AcceptSocket
  <2>1. ASSUME NEW f \in Fds, NEW o \in {"none", "call"},
               Open(f, "connected", FALSE, o),
               NEW l \in {"acc_blocking", "names"},
               op' = [op EXCEPT !.fd = f, !.pc = l], UNCHANGED last
        PROVE  OInv'
    <3>1. /\ op'.pc = l /\ op'.fd = f /\ op'.kind = "accept" /\ op'.timed = op.timed
          /\ op'.early = op.early
      BY <1>1, <2>1 DEF Ops
    <3>2. /\ st' = [st EXCEPT ![f] = "connected"] /\ local' = local
          /\ nonblock'[f] = FALSE
      BY <2>1 DEF Open, IInv, FdTypes
    <3>3. UnboundInv'
      BY <3>2 DEF IInv, FdTypes, OInv, UnboundInv
    <3>4. KindInv' /\ BlockInv' /\ PairInv'
      BY <3>1, <3>2 DEF KindInv, BlockInv, PairInv
    <3>5. LastInv' /\ FdInv' /\ ReachesFirst' /\ BlockingAgain'
      BY <1>1, <2>1, StillNoOutcome
    <3>6. QED
      BY <3>3, <3>4, <3>5 DEF OInv
  <2>2. QED
    BY <1>2, <1>7, <2>1 DEF AcceptSocket
<1>8. CASE AcceptBlocking
  <2>1. ASSUME nonblock' = [nonblock EXCEPT ![op.fd] = FALSE], Goto("names"),
               st' = st, local' = local
        PROVE  OInv'
    <3>1. op.fd \in Fds
      BY <1>8, SocketInFds DEF IInv, AcceptBlocking, Unsocketed
    <3>2. nonblock'[op.fd] = FALSE
      BY <2>1, <3>1 DEF IInv, FdTypes
    <3>3. UnboundInv'
      BY <2>1, <1>3
    <3>4. QED
      BY <1>1, <2>1, <3>2, <3>3, GotoOut DEF PCs
  <2>2. QED
    BY <1>2, <1>8, <2>1 DEF AcceptBlocking
<1>9. QED
  BY <1>5, <1>6, <1>7, <1>8

\* A destructor closes a connection, about which nothing is said any more.
LEMMA DestroyOut ==
  ASSUME IInv, OInv, NEW f \in Fds, Destroy(f)
  PROVE  OInv'
<1>1. op.pc = "idle" /\ op' = op /\ last' = last /\ world' = world /\ Dispose(f)
  BY DEF Destroy
<1>2. UnboundInv'
  BY <1>1, DisposeUnbound DEF IInv, OInv
<1>3. LastInv' /\ KindInv'
  BY <1>1 DEF OInv, LastInv, KindInv
<1>4. BlockInv'
  BY <1>1 DEF BlockInv
<1>5. PairInv'
  BY <1>1 DEF PairInv
<1>6. \A g : owner'[g] = "connection" /\ g \in Fds =>
               /\ owner[g] = "connection" /\ nonblock'[g] = nonblock[g]
               /\ local'[g] = local[g] /\ peer'[g] = peer[g]
  BY <1>1 DEF Dispose, IInv, FdTypes
<1>7. FdInv'
  BY <1>1 DEF OInv, FdInv
<1>8. BlockingAgain'
  BY <1>1, <1>6 DEF OInv, FdInv, BlockingAgain
<1>9. ReachesFirst'
  <2>1. Reachable(last.op)' = Reachable(last.op)
    BY <1>1 DEF Reachable
  <2>2. QED
    BY <1>1, <1>6, <2>1 DEF OInv, FdInv, ReachesFirst
<1>10. QED
  BY <1>2, <1>3, <1>4, <1>5, <1>7, <1>8, <1>9 DEF OInv

\* Clients do not touch the sockets of the process.
LEMMA ClientOut ==
  ASSUME OInv, UNCHANGED <<fdVars, op, last, world>>
  PROVE  OInv'
<1>1. /\ st' = st /\ nonblock' = nonblock /\ local' = local /\ peer' = peer
      /\ owner' = owner /\ op' = op /\ last' = last /\ world' = world
  BY DEF fdVars
<1>2. LastInv' /\ FdInv' /\ KindInv' /\ BlockInv' /\ UnboundInv'
  BY <1>1 DEF OInv, LastInv, FdInv, KindInv, BlockInv, UnboundInv
<1>3. ReachesFirst' /\ BlockingAgain'
  BY <1>1 DEF OInv, ReachesFirst, BlockingAgain, Reachable
<1>4. /\ NoneBefore' = NoneBefore /\ Mismatch' = Mismatch /\ Local' = Local
      /\ Chosen(op)' = Chosen(op)
  BY <1>1 DEF NoneBefore, Mismatch, Local, Remote, Chosen, Reachable, Index
<1>5. PairInv'
  BY <1>1, <1>4 DEF OInv, PairInv
<1>6. QED
  BY <1>2, <1>3, <1>5 DEF OInv

-----------------------------------------------------------------------------
(* The theorems about outcomes *)

\* At any time the call in progress has missed no pair, and the last call ended
\* with the first one and with a blocking socket.
LEMMA Outcomes == Spec => []OInv
<1>1. Init => OInv
  <2> SUFFICES ASSUME Init PROVE OInv
    OBVIOUS
  <2>1. /\ op = Idle /\ last = [op |-> Idle, res |-> "none"]
        /\ \A f \in Fds : local[f] = NoAddr
    BY DEF Init
  <2>2. LastInv /\ KindInv /\ BlockInv /\ PairInv /\ UnboundInv
    BY <2>1 DEF Idle, LastInv, KindInv, BlockInv, PairInv, UnboundInv
  <2>3. FdInv /\ ReachesFirst /\ BlockingAgain
    BY <2>1 DEF Idle, FdInv, ReachesFirst, BlockingAgain
  <2>4. QED
    BY <2>2, <2>3 DEF OInv
<1>2. IInv /\ OInv /\ [Next]_vars => OInv'
  <2> SUFFICES ASSUME IInv, OInv, [Next]_vars PROVE OInv'
    OBVIOUS
  <2>1. CASE CallStep
    BY <2>1, SkipPairOut, NoMorePairsOut, MakeSocketOut, BindOut,
       ConnectBlockingOut, TimedConnectOut, NamesOut, ListenSocketOut, AcceptOut
       DEF CallStep
  <2>2. CASE UNCHANGED vars
    BY <2>2, ClientOut DEF vars
  <2>3. CASE ClientArrives \/ ClientGivesUp
    BY <2>3, ClientOut DEF ClientArrives, ClientGivesUp
  <2>4. QED
    BY <2>1, <2>2, <2>3, CallConnectOut, CallListenOut, CallAcceptOut, DestroyOut
       DEF Next
<1>3. QED
  BY <1>1, <1>2, Invariance, PTL DEF Spec

\* A constructor without a timeout connects to the first pair, in the order of
\* the nested loops, that can be connected, and fails only if there is none or
\* the system fails; for all lists of addresses.
THEOREM FirstPairReached == Spec => []ReachesFirst
<1>1. OInv => ReachesFirst
  BY DEF OInv
<1>2. QED
  BY <1>1, Outcomes, PTL

\* Whichever way through poll(), SO_ERROR and fcntl() a timed constructor takes,
\* its socket blocks again, unless connect() succeeded at once.
THEOREM SocketsBlockAgain == Spec => []BlockingAgain
<1>1. OInv => BlockingAgain
  BY DEF OInv
<1>2. QED
  BY <1>1, Outcomes, PTL
=============================================================================
