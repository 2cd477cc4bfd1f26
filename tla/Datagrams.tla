------------------------------ MODULE Datagrams ------------------------------
(***************************************************************************)
(* datagram_socket (include/nanonet/sys/network.h, src/network.cpp): its   *)
(* constructors, connect(), the three send() and the receive() calls, made *)
(* by several threads on shared sockets ("Datagram sockets are thread      *)
(* safe").  The network loses, reorders and duplicates packets, and sends  *)
(* back refusals for packets to ports nobody is bound to.                  *)
(*                                                                         *)
(* A call is one step, except receive(), which waits twice: in select(),   *)
(* if it has a timeout, and in recvfrom().  Between the two any other      *)
(* thread may act on the same socket.                                      *)
(***************************************************************************)
EXTENDS Addresses

CONSTANTS
  Socks,      \* sockets
  NoSock,
  Threads,
  Services,   \* names and services that sockets are bound to
  Names,      \* names and services that packets are sent to
  Lookup,     \* Lookup[n]: the addresses the system finds for n, in order
  Descs,      \* descriptions of address families that programs use
  Ephemeral,  \* the ports the system chooses from
  Lengths,    \* lengths of the packets
  Sizes,      \* maximum sizes given to receive()
  MaxPackets, \* calls of send() (model bound)
  MaxQueue    \* packets a receive buffer holds

NamedAddress == {a \in Address : a.port # 0}

ASSUME DatagramsAssumption ==
  /\ NoSock \notin Socks
  /\ Lookup \in [Services \cup Names -> Seq(NamedAddress)]
  /\ \A n \in Names : \A i \in DOMAIN Lookup[n] : Lookup[n][i].host # "any"
  /\ Ephemeral \subseteq PortRange \ {0}
  /\ Lengths \subseteq Nat
  /\ Sizes \subseteq Nat
  /\ MaxPackets \in Nat
  /\ MaxQueue \in Nat

VARIABLES
  open,    \* the sockets that exist
  bound,   \* those that the program bound to an address (history variable)
  local,   \* local[s]: its address, see UnboundAddress
  peer,    \* peer[s]: the address it is connected to, or NoPeer
  queue,   \* queue[s]: its receive buffer
  err,     \* err[s]: a refusal is to be reported (SO_ERROR)
  net,     \* packets under way
  sent,    \* packets sent so far (history variable)
  calls,   \* number of calls of send()
  refused, \* refused[s]: refusals that reached it (history variable)
  dropped, \* dropped[s]: send() calls that returned and sent nothing
           \* (history variable)
  call     \* call[t]: the receive() call of thread t, or its last call

sockVars == <<open, bound, local, peer, queue, err, refused, dropped>>
vars == <<sockVars, net, sent, calls, call>>

NoPeer == [family |-> AF_INET, host |-> "any", port |-> 65535]

\* A packet, with a number that stands for its contents.
Packet == [id : Nat, from : Address, to : Address, len : Nat]

\* Contents and length of what receive() returned.
Contents == [id : Nat, len : Nat]
NoData   == [id |-> 0, len |-> 0]

\* raced: since select() reported the socket as readable another thread has
\* taken a packet or an error from it (history variable).
IdleCall == [pc |-> "idle", s |-> NoSock, timed |-> FALSE, max |-> 0,
             source |-> DefaultAddress, raced |-> FALSE,
             data |-> NoData]

Init == /\ open = {}
        /\ bound = {}
        /\ local = [s \in Socks |-> DefaultAddress]
        /\ peer = [s \in Socks |-> NoPeer]
        /\ queue = [s \in Socks |-> <<>>]
        /\ err = [s \in Socks |-> FALSE]
        /\ net = {}
        /\ sent = {}
        /\ calls = 0
        /\ refused = [s \in Socks |-> 0]
        /\ dropped = [s \in Socks |-> 0]
        /\ call = [t \in Threads |-> IdleCall]

-----------------------------------------------------------------------------
(* What the system does with addresses *)

Overlap(a, b) == /\ a.family = b.family
                 /\ a.port = b.port
                 /\ a.host = b.host \/ "any" \in {a.host, b.host}

Unused(a) == \A s \in open : ~Overlap(local[s], a)

\* Mutation: initialize() sets SO_REUSEADDR first, and addresses are shared.
Bindable_Reuse(a) == a.host # "there"

\* my_bind() succeeds for an address of this machine that nobody uses.  At
\* that time SO_REUSEADDR is not set: initialize() comes after bound_socket().
Bindable(a) == a.host # "there" /\ Unused(a)

\* The addresses the system may give socket s when it is first used.  By then
\* initialize() has set SO_REUSEADDR on every socket, so that the system may
\* choose a port that others have.
Automatic(s, h) ==
  IF local[s].port # 0 THEN {local[s]}
  ELSE [family : {local[s].family}, host : {h}, port : Ephemeral]

\* The address that packets of socket s carry.
Source(a) == [a EXCEPT !.host = "here"]

\* Packet p is for socket s: a connected socket hears only its peer.  Among
\* several such sockets the system chooses.
IsFor(p, s) == /\ s \in open
               /\ local[s].port # 0
               /\ p.to.host = "here"
               /\ Overlap(local[s], p.to)
               /\ peer[s] = NoPeer \/ ~Differ(peer[s], p.from)

-----------------------------------------------------------------------------
(* Construction and connect() *)

\* A call throws.  A socket that it made is closed again.
Fails == UNCHANGED vars

\* A new socket s with local address l and peer p; callers say what becomes of
\* bound.
Create(s, l, p) ==
  /\ s \notin open
  /\ open' = open \cup {s}
  /\ local' = [local EXCEPT ![s] = l]
  /\ peer' = [peer EXCEPT ![s] = p]
  /\ UNCHANGED <<queue, err, refused, dropped, net, sent, calls, call>>

\* datagram_socket(af): socket() knows no family AF_UNSPEC.
NewUnbound(s, desc) ==
  LET af == address_family(desc, TRUE)
  IN \/ /\ af \in {"ipv4", "ipv6"}
        /\ Create(s, UnboundAddress(int_address_family(af)), NoPeer)
        /\ UNCHANGED bound
     \/ /\ af \notin {"ipv4", "ipv6"}
        /\ Fails

\* datagram_socket(af, service), datagram_socket(name, service) and bound():
\* bound_socket() with what the resolver finds.  It binds to the first of the
\* addresses that can be bound; each failure closes a socket and goes on.
NewBound(s, n, hint) ==
  LET Fits(a) == Suits(a, hint) /\ Bindable(a)
  IN \/ \E i \in DOMAIN Lookup[n] : /\ IsFirst(Lookup[n], i, Fits)
                                    /\ Create(s, Lookup[n][i], NoPeer)
                                    /\ bound' = bound \cup {s}
     \/ /\ \A i \in DOMAIN Lookup[n] : ~Fits(Lookup[n][i])
        /\ Fails

\* connected(destination): a new socket of the family of the address, which
\* gets a local address when it is connected, after initialize().
NewConnectedTo(s, a) ==
  \E e \in Ephemeral :
    LET f == int_address_family(from_int_address_family(a.family))
        l == [family |-> f, host |-> "here", port |-> e]
    IN Create(s, l, a) /\ UNCHANGED bound

\* connected(name, service, family): to the first address.
NewConnected(s, n, hint) ==
  LET Fits(a) == Suits(a, hint)
  IN \/ \E i \in DOMAIN Lookup[n] : /\ IsFirst(Lookup[n], i, Fits)
                                    /\ NewConnectedTo(s, Lookup[n][i])
     \/ ~Resolves(Lookup[n], hint) /\ Fails

\* connect(destination): the system refuses an address of the other family.
\* What is already in the receive buffer stays, whoever sent it.
Connect(s, a) ==
  /\ s \in open
  /\ \/ /\ a.family = local[s].family
        /\ \E l \in Automatic(s, "here") :
             local' = [local EXCEPT ![s] = Source(l)]
        /\ peer' = [peer EXCEPT ![s] = a]
        /\ UNCHANGED <<open, bound, queue, err, refused, dropped, net, sent,
                       calls, call>>
     \/ a.family # local[s].family /\ Fails

\* connect(name, service): to the first address of the socket's own family.
ConnectName(s, n) ==
  LET Fits(a) == local[s].family = a.family
  IN /\ s \in open
     /\ \/ \E i \in DOMAIN Lookup[n] : /\ IsFirst(Lookup[n], i, Fits)
                                       /\ Connect(s, Lookup[n][i])
        \/ /\ \A i \in DOMAIN Lookup[n] : ~Fits(Lookup[n][i])
           /\ Fails

\* ~datagram_socket(), when no call uses the socket any more.
Destroy(s) == /\ s \in open
              /\ \A t \in Threads : call[t].s # s
              /\ open' = open \ {s}
              /\ bound' = bound \ {s}
              /\ local' = [local EXCEPT ![s] = DefaultAddress]
              /\ peer' = [peer EXCEPT ![s] = NoPeer]
              /\ queue' = [queue EXCEPT ![s] = <<>>]
              /\ err' = [err EXCEPT ![s] = FALSE]
              /\ refused' = [refused EXCEPT ![s] = 0]
              /\ dropped' = [dropped EXCEPT ![s] = 0]
              /\ UNCHANGED <<net, sent, calls, call>>

-----------------------------------------------------------------------------
(* send() *)

\* Every thread that was told that s is readable may find it is not.
Raced(s) == [t \in Threads |->
               IF call[t].s = s /\ call[t].pc = "recv"
               THEN [call[t] EXCEPT !.raced = TRUE] ELSE call[t]]

\* The packet leaves from l.
Transmits(s, a, l, n) ==
  LET p == [id |-> calls, from |-> Source(l), to |-> a, len |-> n]
  IN /\ ~err[s]
     /\ local' = [local EXCEPT ![s] = l]
     /\ net' = net \cup {p}
     /\ sent' = sent \cup {p}
     /\ calls' = calls + 1
     /\ UNCHANGED <<open, bound, peer, queue, err, refused, dropped, call>>

\* A refusal waits to be reported: my_send() and my_sendto() return it instead
\* of sending, and "Connection refused error is ignored".
Swallows(s) == /\ err[s]
               /\ err' = [err EXCEPT ![s] = FALSE]
               /\ dropped' = [dropped EXCEPT ![s] = @ + 1]
               /\ calls' = calls + 1
               /\ call' = Raced(s)
               /\ UNCHANGED <<open, bound, local, peer, queue, refused, net,
                              sent>>

CanSend(s) == s \in open /\ calls < MaxPackets

\* Mutation: any error of send() is ignored, not only the refusal.
Send_Quiet(s, n) ==
  /\ CanSend(s)
  /\ \/ Swallows(s)
     \/ peer[s] # NoPeer /\ Transmits(s, peer[s], local[s], n)
     \/ /\ ~err[s] /\ peer[s] = NoPeer
        /\ dropped' = [dropped EXCEPT ![s] = @ + 1]
        /\ calls' = calls + 1
        /\ UNCHANGED <<open, bound, local, peer, queue, err, refused, net,
                       sent, call>>

\* send(begin, end): to the peer.
Send(s, n) == /\ CanSend(s)
              /\ \/ Swallows(s)
                 \/ peer[s] # NoPeer /\ Transmits(s, peer[s], local[s], n)
                 \/ ~err[s] /\ peer[s] = NoPeer /\ Fails

\* send(begin, end, destination): throws if the family is not the socket's.
SendTo(s, a, n) ==
  /\ CanSend(s)
  /\ \/ a.family # local[s].family /\ Fails
     \/ a.family = local[s].family /\ Swallows(s)
     \/ /\ a.family = local[s].family
        /\ \E l \in Automatic(s, "any") : Transmits(s, a, l, n)

\* send(begin, end, node, service): to the first address of its own family.
SendName(s, name, n) ==
  LET Fits(a) == a.family = local[s].family
  IN /\ CanSend(s)
     /\ \/ \E i \in DOMAIN Lookup[name] : /\ IsFirst(Lookup[name], i, Fits)
                                          /\ SendTo(s, Lookup[name][i], n)
        \/ /\ \A i \in DOMAIN Lookup[name] : ~Fits(Lookup[name][i])
           /\ Fails

-----------------------------------------------------------------------------
(* receive() *)

Readable(s) == err[s] \/ queue[s] # <<>>

\* receive(): with a timeout t >= 0 it waits in select() first.  The caller's
\* source may hold anything, for which NoPeer stands.
Receive(t, s, timed, max) ==
  /\ s \in open
  /\ call' = [call EXCEPT ![t] =
                [IdleCall EXCEPT !.pc = IF timed THEN "select" ELSE "recv",
                                 !.s = s, !.timed = timed, !.max = max,
                                 !.source = NoPeer]]
  /\ UNCHANGED <<sockVars, net, sent, calls>>

\* select() is repeated when a signal interrupts it, which shows no change.
SelectReady(t) == /\ call[t].pc = "select"
                  /\ Readable(call[t].s)
                  /\ call' = [call EXCEPT ![t].pc = "recv"]
                  /\ UNCHANGED <<sockVars, net, sent, calls>>

\* Mutation: the timeout is not returned at once.
SelectTimeout_GoesOn(t) == /\ call[t].pc = "select"
                           /\ ~Readable(call[t].s)
                           /\ call' = [call EXCEPT ![t].pc = "recv"]
                           /\ UNCHANGED <<sockVars, net, sent, calls>>

SelectTimeout(t) == /\ call[t].pc = "select"
                    /\ ~Readable(call[t].s)
                    /\ call' = [call EXCEPT ![t] = IdleCall]
                    /\ UNCHANGED <<sockVars, net, sent, calls>>

\* A signal interrupts recvfrom(): the caller's source is the zero address
\* until the repeated call sets it.
RecvInterrupted(t) == /\ call[t].pc = "recv"
                      /\ ~Readable(call[t].s)
                      /\ call' = [call EXCEPT ![t].source = DefaultAddress]
                      /\ UNCHANGED <<sockVars, net, sent, calls>>

\* A refusal is reported here too, and thrown, unlike in send().
RecvThrows(t) ==
  LET s == call[t].s
  IN /\ call[t].pc = "recv"
     /\ err[s]
     /\ err' = [err EXCEPT ![s] = FALSE]
     /\ call' = [Raced(s) EXCEPT ![t] = IdleCall]
     /\ UNCHANGED <<open, bound, local, peer, queue, refused, dropped, net,
                    sent, calls>>

Least(a, b) == IF a <= b THEN a ELSE b

\* Mutation: the source is set by the first call of recvfrom() only.
RecvPacket_FirstSource(t) ==
  LET s == call[t].s
      p == Head(queue[s])
  IN /\ call[t].pc = "recv"
     /\ ~err[s]
     /\ queue[s] # <<>>
     /\ queue' = [queue EXCEPT ![s] = Tail(@)]
     /\ call' = [Raced(s) EXCEPT ![t] =
                   [call[t] EXCEPT !.pc = "returned",
                             !.source = IF @ = NoPeer THEN p.from ELSE @,
                             !.data = [id  |-> p.id,
                                       len |-> Least(p.len, call[t].max)]]]
     /\ UNCHANGED <<open, bound, local, peer, err, refused, dropped, net,
                    sent, calls>>

\* recvfrom() fills the buffer with the first packet, cut to its size.
RecvPacket(t) ==
  LET s == call[t].s
      p == Head(queue[s])
  IN /\ call[t].pc = "recv"
     /\ ~err[s]
     /\ queue[s] # <<>>
     /\ queue' = [queue EXCEPT ![s] = Tail(@)]
     /\ call' = [Raced(s) EXCEPT ![t] =
                   [call[t] EXCEPT !.pc = "returned", !.source = p.from,
                             !.data = [id  |-> p.id,
                                       len |-> Least(p.len, call[t].max)]]]
     /\ UNCHANGED <<open, bound, local, peer, err, refused, dropped, net,
                    sent, calls>>

Returns(t) == /\ call[t].pc = "returned"
              /\ call' = [call EXCEPT ![t] = IdleCall]
              /\ UNCHANGED <<sockVars, net, sent, calls>>

-----------------------------------------------------------------------------
(* The network *)

\* A packet arrives; it may arrive again.
Deliver(p, s, again) ==
  /\ IsFor(p, s)
  /\ Len(queue[s]) < MaxQueue
  /\ queue' = [queue EXCEPT ![s] = Append(@, p)]
  /\ net' = IF again THEN net ELSE net \ {p}
  /\ UNCHANGED <<open, bound, local, peer, err, sent, calls, refused,
                 dropped, call>>

Lose(p) == /\ net' = net \ {p}
           /\ UNCHANGED <<sockVars, sent, calls, call>>

\* Nobody is bound to the port: a connected sender is told.
Refuse(p, s) == /\ p.to.host = "here"
                /\ \A z \in Socks : ~IsFor(p, z)
                /\ s \in open
                /\ peer[s] # NoPeer
                /\ ~Differ(peer[s], p.to)
                /\ ~Differ(Source(local[s]), p.from)
                /\ err' = [err EXCEPT ![s] = TRUE]
                /\ refused' = [refused EXCEPT ![s] = @ + 1]
                /\ net' = net \ {p}
                /\ UNCHANGED <<open, bound, local, peer, queue, dropped,
                               sent, calls, call>>

-----------------------------------------------------------------------------

Client(t) ==
  /\ call[t].pc = "idle"
  /\ \E s \in Socks :
       \/ \E d \in Descs : NewUnbound(s, d)
       \/ \E n \in Services, hint \in IntFamilies : NewBound(s, n, hint)
       \/ \E n \in Names, hint \in IntFamilies : NewConnected(s, n, hint)
       \/ \E n \in Names : ConnectName(s, n)
       \/ \E n \in Names : \E i \in DOMAIN Lookup[n] : Connect(s, Lookup[n][i])
       \/ Destroy(s)
       \/ \E k \in Lengths : Send(s, k)
       \/ \E k \in Lengths, n \in Names : SendName(s, n, k)
       \/ \E k \in Lengths, n \in Names : \E i \in DOMAIN Lookup[n] :
            SendTo(s, Lookup[n][i], k)
       \/ \E timed \in BOOLEAN, max \in Sizes : Receive(t, s, timed, max)

Network == \E p \in net : \/ \E s \in Socks, again \in BOOLEAN : Deliver(p, s, again)
                          \/ \E s \in Socks : Refuse(p, s)
                          \/ Lose(p)

Next == \/ \E t \in Threads : \/ Client(t)
                             \/ SelectReady(t) \/ SelectTimeout(t)
                             \/ RecvInterrupted(t) \/ RecvThrows(t)
                             \/ RecvPacket(t) \/ Returns(t)
        \/ Network

Spec == Init /\ [][Next]_vars

-----------------------------------------------------------------------------
(* Properties *)

TypeOK == /\ open \subseteq Socks
          /\ bound \subseteq open
          /\ local \in [Socks -> Address]
          /\ peer \in [Socks -> Address]
          /\ queue \in [Socks -> Seq(Packet)]
          /\ err \in [Socks -> BOOLEAN]
          /\ net \in SUBSET Packet
          /\ sent \in SUBSET Packet
          /\ calls \in Nat
          /\ refused \in [Socks -> Nat]
          /\ dropped \in [Socks -> Nat]
          /\ call \in [Threads -> [pc : {"idle", "select", "recv", "returned"},
                                   s : Socks \cup {NoSock}, timed : BOOLEAN,
                                   max : Nat, source : Address,
                                   raced : BOOLEAN, data : Contents]]

\* What receive() returns belongs together, whatever was lost, repeated or
\* interrupted and however many threads receive from the socket
\* (receive_internal()): the contents are those of one packet that was sent to
\* the socket, cut to the size of the buffer, and source is who sent it.
ReceivedRight ==
  \A t \in Threads : call[t].pc = "returned" =>
    \E p \in sent : /\ call[t].data.id = p.id
                    /\ call[t].data.len = Least(p.len, call[t].max)
                    /\ call[t].source = p.from
                    /\ p.to.host = "here"
                    /\ Overlap(local[call[t].s], p.to)

\* "Connection refused error is ignored" and no other: a send() that returns
\* without having sent its packet answers to a refusal of an earlier packet of
\* the same socket, one refusal to at most one of them.
DropsExplained ==
  \A s \in open : dropped[s] + (IF err[s] THEN 1 ELSE 0) <= refused[s]

\* Two sockets that the program bound never have addresses that a packet could
\* be for at the same time, whatever became of them since (connect() narrows an
\* address): bound_socket() binds before initialize() sets SO_REUSEADDR.  An
\* address chosen by the system gives no such promise.
BoundExclusive ==
  \A s1, s2 \in bound : s1 # s2 => ~Overlap(local[s1], local[s2])

\* "If >= 0, waits for a maximum of t seconds": receive() with a timeout calls
\* recvfrom(), which has none, only when it will not block, unless another
\* thread has taken the packet or the error that select() saw.
TimedReady ==
  \A t \in Threads :
    call[t].pc = "recv" /\ call[t].timed /\ ~call[t].raced
      => Readable(call[t].s)

\* What makes these inductive: packets come from send() and wait only where
\* they are addressed to, sockets have addresses of this machine and are blank
\* as long as they do not exist, and calls are made on sockets that exist.
Delivered == /\ net \subseteq sent
             /\ \A s \in Socks : \A i \in 1 .. Len(queue[s]) :
                  /\ queue[s][i] \in sent
                  /\ queue[s][i].to.host = "here"
                  /\ Overlap(local[s], queue[s][i].to)

Blank == \A s \in Socks :
           /\ local[s].host # "there"
           /\ local[s].port = 0 => queue[s] = <<>> /\ peer[s] = NoPeer
           /\ s \in bound => local[s].port # 0
           /\ s \notin open => /\ local[s].port = 0
                               /\ ~err[s]
                               /\ dropped[s] = 0

CallsOpen == \A t \in Threads : /\ call[t].pc # "idle" => call[t].s \in open
                                /\ call[t].pc = "returned" => local[call[t].s].port # 0

IInv == /\ TypeOK
        /\ Delivered
        /\ Blank
        /\ CallsOpen
        /\ ReceivedRight
        /\ DropsExplained
        /\ BoundExclusive
        /\ TimedReady
==============================================================================
