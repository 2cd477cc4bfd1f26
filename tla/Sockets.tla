------------------------------- MODULE Sockets -------------------------------
(***************************************************************************)
(* The stream sockets of nanonet (src/network.cpp, src/detail/network.cpp, *)
(* include/nanonet/detail/socket.h): the constructors of connection, which *)
(* tries pairs of local and remote addresses in turn, with or without a    *)
(* timeout, or accepts from an acceptor; the constructor of acceptor; and  *)
(* the destructors.                                                        *)
(*                                                                         *)
(* One thread makes the calls, one at a time.  Descriptors are kept with   *)
(* what the kernel knows of them and with who is going to close them: an   *)
(* object, or the stack of the call (shared_ptr and auto_resource unwind), *)
(* or nobody yet.  System calls that a signal interrupts are repeated      *)
(* (EINTR_repeat), which changes nothing here but for connect(): repeated, *)
(* it may fail with EALREADY, one of the failures that are the system's.   *)
(***************************************************************************)
EXTENDS Naturals, Sequences

CONSTANTS
  Fds,       \* descriptors the process may have open
  NoFd,
  Addrs,     \* addresses
  NoAddr,
  Family,    \* Family[a]: the address family of a
  Connects,  \* the calls: records with the lists ra and la and timed (a
             \* timeout >= 0 was given)
  Listens,   \* address lists given to acceptor
  MaxWaiting \* connections that wait to be accepted (model bound)

\* The addresses that connections are made to, and what may become of those
\* who do so.
Remotes == UNION {{c.ra[n] : n \in DOMAIN c.ra} : c \in Connects}
Worlds  == [Remotes -> {"accepts", "refuses", "silent"}]

ASSUME SocketsAssumption ==
  /\ Fds \subseteq Nat
  /\ NoFd \notin Fds
  /\ NoAddr \notin Addrs
  /\ \A c \in Connects : /\ c.ra \in Seq(Addrs)
                         /\ c.la \in Seq(Addrs)
                         /\ c.timed \in BOOLEAN
  /\ \A la \in Listens : la \in Seq(Addrs)
  /\ MaxWaiting \in Nat

VARIABLES
  st,        \* st[f]: "free", "new", "bound", "listening", "connecting",
             \* "failed" (a pending error) or "connected"
  nonblock,  \* nonblock[f]: O_NONBLOCK is set
  local,     \* local[f]: the address f was bound to
  peer,      \* peer[f]: the address f was connected to
  owner,     \* owner[f]: "none", "call", "connection" or "acceptor"
  op,        \* the call in progress
  last,      \* the last call and its outcome, "none" while one is in progress
  world,     \* world[a]: what happens to those who connect to a
  waiting,   \* number of connections waiting at the acceptors
  lost       \* descriptors nobody will close (history variable)

fdVars == <<st, nonblock, local, peer, owner>>
vars == <<fdVars, op, last, world, waiting, lost>>

\* No call.  A call has its lists ra and la, k counts the iterations of its
\* loops, acc is the acceptor it was given and fd the socket it works on; os
\* records that the system failed, early that connect() succeeded at once.
Idle == [kind |-> "none", pc |-> "idle", ra |-> <<>>, la |-> <<>>, k |-> 0,
         timed |-> FALSE, acc |-> NoFd, fd |-> NoFd, os |-> FALSE,
         early |-> FALSE]

Init == /\ st = [f \in Fds |-> "free"]
        /\ nonblock = [f \in Fds |-> FALSE]
        /\ local = [f \in Fds |-> NoAddr]
        /\ peer = [f \in Fds |-> NoAddr]
        /\ owner = [f \in Fds |-> "none"]
        /\ op = Idle
        /\ last = [op |-> Idle, res |-> "none"]
        /\ world \in Worlds
        /\ waiting = 0
        /\ lost = {}

-----------------------------------------------------------------------------
(* Descriptors *)

\* The kernel hands out the lowest free descriptor.
Open(f, s, nb, o) == /\ st[f] = "free"
                     /\ \A g \in Fds : g < f => st[g] # "free"
                     /\ st' = [st EXCEPT ![f] = s]
                     /\ nonblock' = [nonblock EXCEPT ![f] = nb]
                     /\ UNCHANGED <<local, peer>>
                     /\ owner' = [owner EXCEPT ![f] = o]

\* socket_resource_traits::dispose(): close() is not repeated, the descriptor
\* is gone whatever it returns.
Dispose(f) == /\ st' = [st EXCEPT ![f] = "free"]
              /\ owner' = [owner EXCEPT ![f] = "none"]
              /\ nonblock' = [nonblock EXCEPT ![f] = FALSE]
              /\ local' = [local EXCEPT ![f] = NoAddr]
              /\ peer' = [peer EXCEPT ![f] = NoAddr]

\* bool_fcntl_option(), when it succeeds.
SetNonblock(f, b) == /\ nonblock' = [nonblock EXCEPT ![f] = b]
                     /\ UNCHANGED <<st, local, peer, owner>>

-----------------------------------------------------------------------------
(* The course of a call *)

Begin(o) == /\ op.pc = "idle"
            /\ op' = o
            /\ last' = [op |-> Idle, res |-> "none"]
            /\ UNCHANGED <<fdVars, world, waiting, lost>>

Goto(l) == op' = [op EXCEPT !.pc = l] /\ UNCHANGED last

End(res) == op' = Idle /\ last' = [op |-> op, res |-> res]

\* An exception leaves the call; the stack closes its descriptor.
Throw == /\ Dispose(op.fd)
         /\ op' = Idle
         /\ last' = [op |-> [op EXCEPT !.os = TRUE], res |-> "error"]

\* Mutation: the loop does not advance after a failure.
Abandon_Again(os) == /\ Dispose(op.fd)
                     /\ op' = [op EXCEPT !.pc = "try", !.fd = NoFd,
                                         !.os = @ \/ os]
                     /\ UNCHANGED last

\* Mutation: the descriptor of a failed attempt is forgotten.
Abandon_Leaks(os) == /\ owner' = [owner EXCEPT ![op.fd] = "none"]
                     /\ op' = [op EXCEPT !.pc = "try", !.k = @ + 1, !.fd = NoFd,
                                         !.os = @ \/ os]
                     /\ UNCHANGED <<st, nonblock, local, peer, last>>

\* An exception of one attempt, a timeout_exception too, is caught inside the
\* loop over the addresses: the socket is closed and the next pair is tried.
\* os: the system failed, rather than the peer.
Abandon(os) == /\ Dispose(op.fd)
               /\ op' = [op EXCEPT !.pc = "try", !.k = @ + 1, !.fd = NoFd,
                                   !.os = @ \/ os]
               /\ UNCHANGED last

-----------------------------------------------------------------------------
(* connection(ra, la, timeout) and acceptor(la, backlog): the pairs in turn *)

CallConnect(c) == Begin([Idle EXCEPT !.kind = "connect", !.pc = "try", !.k = 1,
                                     !.ra = c.ra, !.la = c.la,
                                     !.timed = c.timed])

CallListen(la) == Begin([Idle EXCEPT !.kind = "listen", !.pc = "try", !.k = 1,
                                     !.ra = <<NoAddr>>, !.la = la])

\* The loop over remote addresses if there are no local ones, or the loop over
\* local addresses with one over remote addresses inside.
Iterations == IF op.la = <<>> /\ op.kind = "connect"
                THEN Len(op.ra)
                ELSE Len(op.la) * Len(op.ra)
Trying == op.pc = "try" /\ op.k <= Iterations

Local == IF op.la = <<>> THEN NoAddr
         ELSE op.la[((op.k - 1) \div Len(op.ra)) + 1]

\* Mutation: the last remote address first.
Remote_Backwards == op.ra[Len(op.ra) - ((op.k - 1) % Len(op.ra))]

Remote == op.ra[((op.k - 1) % Len(op.ra)) + 1]

Mismatch == /\ Local # NoAddr
            /\ Remote # NoAddr
            /\ Family[Local] # Family[Remote]

\* if( local family != remote family ) continue
SkipPair == /\ Trying
            /\ Mismatch
            /\ op' = [op EXCEPT !.k = @ + 1]
            /\ UNCHANGED <<fdVars, last, world, waiting, lost>>

\* The lists are exhausted: runtime_error, with the messages of all attempts.
NoMorePairs == /\ op.pc = "try"
               /\ op.k > Iterations
               /\ End("error")
               /\ UNCHANGED <<fdVars, world, waiting, lost>>

\* The constructor of socket: socket() succeeds, or it (or setup(), which closes
\* the descriptor again) fails and nothing is left to be closed.
MakeSocket == /\ Trying
              /\ ~Mismatch
              /\ \/ \E f \in Fds :
                      /\ Open(f, "new", FALSE, "call")
                      /\ op' = [op EXCEPT !.fd = f,
                                          !.pc = IF Local # NoAddr THEN "bind"
                                                 ELSE "connect"]
                 \/ /\ op' = [op EXCEPT !.k = @ + 1, !.os = TRUE]
                    /\ UNCHANGED fdVars
              /\ UNCHANGED <<last, world, waiting, lost>>

\* my_bind(): fails if the address is in use, and may fail otherwise.
Bind == /\ op.pc = "bind"
        /\ \/ /\ \A f \in Fds : local[f] # Local
              /\ local' = [local EXCEPT ![op.fd] = Local]
              /\ st' = [st EXCEPT ![op.fd] = "bound"]
              /\ Goto(IF op.kind = "connect" THEN "connect" ELSE "names")
              /\ UNCHANGED <<nonblock, peer, owner>>
           \/ Abandon(TRUE)
        /\ UNCHANGED <<world, waiting, lost>>

\* my_connect() without a timeout: waits for the peer, or for the kernel to
\* give up.
ConnectBlocking ==
  /\ op.pc = "connect" /\ ~op.timed
  /\ \/ /\ world[Remote] = "accepts"
        /\ st' = [st EXCEPT ![op.fd] = "connected"]
        /\ peer' = [peer EXCEPT ![op.fd] = Remote]
        /\ Goto("names")
        /\ UNCHANGED <<nonblock, local, owner>>
     \/ world[Remote] # "accepts" /\ Abandon(FALSE)
     \/ Abandon(TRUE)
  /\ UNCHANGED <<world, waiting, lost>>

\* my_connect() with a timeout
ConnectNonblocking == /\ op.pc = "connect" /\ op.timed
                      /\ \/ SetNonblock(op.fd, TRUE) /\ Goto("connect_nb")
                         \/ Abandon(TRUE)
                      /\ UNCHANGED <<world, waiting, lost>>

\* connect() returns at once: EINPROGRESS, an error, or success, in which case
\* my_connect() returns with the socket still in non-blocking mode.
ConnectStarts ==
  /\ op.pc = "connect_nb"
  /\ \/ /\ st' = [st EXCEPT ![op.fd] = "connecting"]
        /\ peer' = [peer EXCEPT ![op.fd] = Remote]
        /\ Goto("poll")
        /\ UNCHANGED <<nonblock, local, owner>>
     \/ world[Remote] = "refuses" /\ Abandon(FALSE)
     \/ Abandon(TRUE)
     \/ /\ world[Remote] = "accepts"
        /\ st' = [st EXCEPT ![op.fd] = "connected"]
        /\ peer' = [peer EXCEPT ![op.fd] = Remote]
        /\ op' = [op EXCEPT !.pc = "names", !.early = TRUE]
        /\ UNCHANGED <<nonblock, local, owner, last>>
  /\ UNCHANGED <<world, waiting, lost>>

\* poll(): the answer of the peer comes in, or the timeout expires first, or
\* poll() fails.
PollConnect ==
  /\ op.pc = "poll"
  /\ \/ /\ world[Remote] # "silent"
        /\ st' = [st EXCEPT ![op.fd] = IF world[Remote] = "accepts"
                                         THEN "connected" ELSE "failed"]
        /\ Goto("so_error")
        /\ UNCHANGED <<nonblock, local, peer, owner>>
     \/ \E os \in BOOLEAN : Abandon(os)
  /\ UNCHANGED <<world, waiting, lost>>

\* Mutation: a socket that became writable is taken for connected.
SoError_Ignored == /\ op.pc = "so_error"
                   /\ Goto("blocking")
                   /\ UNCHANGED <<fdVars, world, waiting, lost>>

\* getsockopt(SO_ERROR) tells whether the connection was established.
SoError == /\ op.pc = "so_error"
           /\ \/ st[op.fd] = "connected" /\ Goto("blocking") /\ UNCHANGED fdVars
              \/ st[op.fd] = "failed" /\ Abandon(FALSE)
              \/ Abandon(TRUE)
           /\ UNCHANGED <<world, waiting, lost>>

\* Mutation: the socket is left in non-blocking mode.
BackToBlocking_Forgotten == /\ op.pc = "blocking"
                            /\ Goto("names")
                            /\ UNCHANGED <<fdVars, world, waiting, lost>>

BackToBlocking == /\ op.pc = "blocking"
                  /\ \/ SetNonblock(op.fd, FALSE) /\ Goto("names")
                     \/ Abandon(TRUE)
                  /\ UNCHANGED <<world, waiting, lost>>

\* The other members are initialized with getsockname() and getpeername(),
\* which fails if the peer is gone: the socket, a member already, is closed.
Names == /\ op.pc = "names"
         /\ \/ /\ op.kind # "listen"
               /\ owner' = [owner EXCEPT ![op.fd] = "connection"]
               /\ End("ok")
               /\ UNCHANGED <<st, nonblock, local, peer>>
            \/ op.kind = "listen" /\ Goto("listen") /\ UNCHANGED fdVars
            \/ Throw
         /\ UNCHANGED <<world, waiting, lost>>

\* my_listen() in the body of the constructor of acceptor.
ListenSocket == /\ op.pc = "listen"
                /\ \/ /\ st' = [st EXCEPT ![op.fd] = "listening"]
                      /\ owner' = [owner EXCEPT ![op.fd] = "acceptor"]
                      /\ End("ok")
                      /\ UNCHANGED <<nonblock, local, peer>>
                   \/ Throw
                /\ UNCHANGED <<world, waiting, lost>>

-----------------------------------------------------------------------------
(* connection(acceptor&, timeout) *)

CallAccept(a, timed) ==
  /\ owner[a] = "acceptor"
  /\ Begin([Idle EXCEPT !.kind = "accept", !.timed = timed, !.acc = a,
                        !.pc = IF timed THEN "acc_nonblock" ELSE "acc_accept"])

\* An exception before there is a new descriptor.
AcceptThrows(res, os) == /\ op' = Idle
                         /\ last' = [op |-> [op EXCEPT !.os = os], res |-> res]
                         /\ UNCHANGED fdVars

\* Nobody ever switches the acceptor back to blocking mode.
AcceptNonblocking == /\ op.pc = "acc_nonblock"
                     /\ \/ SetNonblock(op.acc, TRUE) /\ Goto("acc_poll")
                        \/ AcceptThrows("error", TRUE)
                     /\ UNCHANGED <<world, waiting, lost>>

\* poll(): something came in, nothing did in time, or poll() fails.
PollAccept == /\ op.pc = "acc_poll"
              /\ \/ waiting > 0 /\ Goto("acc_accept") /\ UNCHANGED fdVars
                 \/ AcceptThrows("timeout", FALSE)
                 \/ AcceptThrows("error", TRUE)
              /\ UNCHANGED <<world, waiting, lost>>

\* accept() takes a waiting connection.  With none it blocks, or fails on an
\* acceptor in non-blocking mode; it may fail otherwise.
AcceptSocket == /\ op.pc = "acc_accept"
                /\ \/ \E f \in Fds :
                        /\ waiting > 0
                        /\ waiting' = waiting - 1
                        /\ Open(f, "connected", FALSE,
                                IF op.timed THEN "none" ELSE "call")
                        /\ op' = [op EXCEPT !.fd = f,
                                            !.pc = IF op.timed THEN "acc_blocking"
                                                   ELSE "names"]
                        /\ UNCHANGED last
                   \/ /\ waiting = 0 /\ nonblock[op.acc]
                      /\ AcceptThrows("error", FALSE)
                      /\ UNCHANGED waiting
                   \/ AcceptThrows("error", TRUE) /\ UNCHANGED waiting
                /\ UNCHANGED <<world, lost>>

\* "Ensure that the returned connected socket is blocking": if this fails,
\* the new descriptor is still a number that nobody owns.
AcceptBlocking == /\ op.pc = "acc_blocking"
                  /\ \/ /\ nonblock' = [nonblock EXCEPT ![op.fd] = FALSE]
                        /\ owner' = [owner EXCEPT ![op.fd] = "call"]
                        /\ Goto("names")
                        /\ UNCHANGED <<st, local, peer, lost>>
                     \/ /\ AcceptThrows("error", TRUE)
                        /\ lost' = lost \cup {op.fd}
                  /\ UNCHANGED <<world, waiting>>

-----------------------------------------------------------------------------
(* Destructors, and the other side *)

Destroy(f) == /\ op.pc = "idle"
              /\ owner[f] \in {"connection", "acceptor"}
              /\ Dispose(f)
              /\ UNCHANGED <<op, last, world, waiting, lost>>

\* A client connects to an acceptor, or gives up before it is accepted.
ClientArrives == /\ \E f \in Fds : st[f] = "listening"
                 /\ waiting < MaxWaiting
                 /\ waiting' = waiting + 1
                 /\ UNCHANGED <<fdVars, op, last, world, lost>>

ClientGivesUp == /\ waiting > 0
                 /\ waiting' = waiting - 1
                 /\ UNCHANGED <<fdVars, op, last, world, lost>>

CallStep == \/ SkipPair \/ NoMorePairs \/ MakeSocket \/ Bind \/ ConnectBlocking
            \/ ConnectNonblocking \/ ConnectStarts \/ PollConnect \/ SoError
            \/ BackToBlocking \/ Names \/ ListenSocket
            \/ AcceptNonblocking \/ PollAccept \/ AcceptSocket \/ AcceptBlocking

Next == \/ \E c \in Connects : CallConnect(c)
        \/ \E la \in Listens : CallListen(la)
        \/ \E a \in Fds, timed \in BOOLEAN : CallAccept(a, timed)
        \/ CallStep
        \/ \E f \in Fds : Destroy(f)
        \/ ClientArrives
        \/ ClientGivesUp

Spec == Init /\ [][Next]_vars

\* A call in progress goes on; nobody has to call anything.
FairSpec == Spec /\ WF_vars(CallStep)

-----------------------------------------------------------------------------
(* Properties *)

PCs == {"idle", "try", "bind", "connect", "connect_nb", "poll", "so_error",
        "blocking", "names", "listen", "acc_nonblock", "acc_poll", "acc_accept",
        "acc_blocking"}

Ops == [kind : {"none", "connect", "listen", "accept"}, pc : PCs,
        ra : Seq(Addrs \cup {NoAddr}), la : Seq(Addrs), k : Nat,
        timed : BOOLEAN, acc : Fds \cup {NoFd}, fd : Fds \cup {NoFd},
        os : BOOLEAN, early : BOOLEAN]

\* Every variable has its type, and a call has a descriptor of its own exactly
\* from the creation of the socket on.
TypeOK ==
  /\ st \in [Fds -> {"free", "new", "bound", "listening", "connecting",
                     "failed", "connected"}]
  /\ nonblock \in [Fds -> BOOLEAN]
  /\ local \in [Fds -> Addrs \cup {NoAddr}]
  /\ peer \in [Fds -> Addrs \cup {NoAddr}]
  /\ owner \in [Fds -> {"none", "call", "connection", "acceptor"}]
  /\ op \in Ops
  /\ last.op \in Ops
  /\ last.res \in {"none", "ok", "timeout", "error"}
  /\ world \in Worlds
  /\ waiting \in 0..MaxWaiting
  /\ lost \in SUBSET Fds
  /\ op.fd = NoFd <=> op.pc \in {"idle", "try", "acc_nonblock", "acc_poll",
                                 "acc_accept"}

\* No descriptor is left behind by a constructor, however many attempts it made
\* and wherever the last one failed: outside of a call every open descriptor
\* belongs to an object, except one for which fcntl() failed after accept().
NoneLeftBehind ==
  op.pc = "idle" =>
    \A f \in Fds : st[f] # "free" => owner[f] \in {"connection", "acceptor"}
                                     \/ f \in lost

\* A connection is connected: a socket whose connect() failed, late or after
\* the timeout, is never handed out.
ConnectionsConnected ==
  \A f \in Fds : owner[f] = "connection" => st[f] = "connected"

\* A call without a timeout connects to the first pair of addresses, in the
\* order given, that can be connected, and fails only if there is none, unless
\* the system is out of something.
Reachable(o) ==
  {p \in (IF o.la = <<>> THEN {0} ELSE DOMAIN o.la) \X DOMAIN o.ra :
     /\ world[o.ra[p[2]]] = "accepts"
     /\ p[1] # 0 => Family[o.la[p[1]]] = Family[o.ra[p[2]]]}
Before(p, q) == p[1] < q[1] \/ (p[1] = q[1] /\ p[2] <= q[2])
ReachesFirst ==
  LET o == last.op IN
  o.kind = "connect" /\ ~o.timed /\ ~o.os =>
    \/ last.res = "error" /\ Reachable(o) = {}
    \/ /\ last.res = "ok"
       /\ owner[o.fd] = "connection" =>     \* it has not been closed since
            \E p \in Reachable(o) :
              /\ local[o.fd] = IF p[1] = 0 THEN NoAddr ELSE o.la[p[1]]
              /\ peer[o.fd] = o.ra[p[2]]
              /\ \A q \in Reachable(o) : Before(p, q)

\* A socket from a constructor with a timeout is in blocking mode again, as
\* the streams need it (a read would end at once), unless connect() succeeded
\* at once.
BlockingAgain ==
  LET o == last.op IN
  last.res = "ok" /\ o.timed /\ ~o.early /\ owner[o.fd] = "connection"
    => ~nonblock[o.fd]

\* "Waits for an incoming connection on the given acceptor": without a timeout
\* accept fails only if the system does.
AcceptWaits ==
  last.op.kind = "accept" /\ ~last.op.timed /\ ~last.op.os => last.res = "ok"

\* Every call ends, except for an accept without a timeout.
CallsEnd ==
  op.pc # "idle" /\ (op.kind = "accept" => op.timed) ~> op.pc = "idle"
=============================================================================
