--------------------------- MODULE DatagramsProofs ---------------------------
(***************************************************************************)
(* Proofs about Datagrams.  IInv is inductive; a lemma for each kind of    *)
(* step shows that it is kept.                                             *)
(***************************************************************************)
EXTENDS Datagrams, TLAPS

LEMMA AddressFacts ==
  /\ DefaultAddress \in Address
  /\ NoPeer \in Address
  /\ DefaultAddress.port = 0
  /\ \A f \in {AF_INET, AF_INET6} : UnboundAddress(f) \in Address
  /\ \A a \in Address : /\ Source(a) \in Address
                        /\ Source(a).host = "here"
                        /\ Source(a).port = a.port
                        /\ Source(a).family = a.family
  <1>1. DefaultAddress \in Address /\ DefaultAddress.port = 0
    BY DEF DefaultAddress, Address, PortRange, Hosts
  <1>2. NoPeer \in Address
    BY DEF NoPeer, Address, PortRange, Hosts
  <1>3. \A f \in {AF_INET, AF_INET6} : UnboundAddress(f) \in Address
    BY DEF UnboundAddress, Address, PortRange, Hosts
  <1>4. \A a \in Address : /\ Source(a) \in Address
                           /\ Source(a).host = "here"
                           /\ Source(a).port = a.port
                           /\ Source(a).family = a.family
    BY DEF Source, Address, Hosts
  <1> QED BY <1>1, <1>2, <1>3, <1>4

LEMMA LookupFacts ==
  ASSUME NEW n \in Services \cup Names, NEW i \in DOMAIN Lookup[n]
  PROVE  Lookup[n][i] \in Address /\ Lookup[n][i].port # 0
  <1>1. Lookup[n] \in Seq(NamedAddress)
    BY DatagramsAssumption
  <1>2. Lookup[n][i] \in NamedAddress
    BY <1>1
  <1> QED BY <1>2 DEF NamedAddress

CallSet == [pc : {"idle", "select", "recv", "returned"},
            s : Socks \cup {NoSock}, timed : BOOLEAN, max : Nat,
            source : Address, raced : BOOLEAN, data : Contents]

LEMMA IdleFacts ==
  /\ IdleCall \in CallSet
  /\ IdleCall.pc = "idle"
  BY AddressFacts DEF IdleCall, NoData, Contents, CallSet

-----------------------------------------------------------------------------
(* Addresses *)

\* A new address of socket s: where s had one, that one or the part of it that
\* is on this machine.
NewAddress(s, m) ==
  /\ m \in Address
  /\ m.host # "there"
  /\ m.port # 0
  /\ m.family = local[s].family
  /\ local[s].port # 0 => m = local[s] \/ m = Source(local[s])

\* What Automatic() offers is such an address, also its part on this machine.
LEMMA AutomaticFacts ==
  ASSUME IInv, NEW s \in open, NEW h \in {"any", "here"}, NEW l \in Automatic(s, h)
  PROVE  NewAddress(s, l) /\ NewAddress(s, Source(l))
  <1>1. local[s] \in Address /\ local[s].host # "there" /\ s \in Socks
    BY DEF IInv, TypeOK, Blank
  <1>2. CASE local[s].port # 0
    <2>1. l = local[s]
      BY <1>2 DEF Automatic
    <2> QED BY <1>1, <1>2, <2>1, AddressFacts DEF NewAddress
  <1>3. CASE local[s].port = 0
    <2>1. l \in [family : {local[s].family}, host : {h}, port : Ephemeral]
      BY <1>3 DEF Automatic
    <2>2. l \in Address /\ l.host = h /\ l.port # 0 /\ l.family = local[s].family
      BY <2>1, <1>1, DatagramsAssumption DEF Address, Hosts
    <2> QED BY <1>3, <2>2, AddressFacts DEF NewAddress
  <1> QED BY <1>2, <1>3

\* A connected socket has an address, and keeps it.
LEMMA OwnAddress ==
  ASSUME IInv, NEW s \in open, peer[s] # NoPeer
  PROVE  NewAddress(s, local[s])
  <1>1. s \in Socks /\ local[s] \in Address
    BY DEF IInv, TypeOK
  <1>2. local[s].port # 0 /\ local[s].host # "there"
    BY <1>1 DEF IInv, Blank
  <1> QED BY <1>1, <1>2 DEF NewAddress

\* The invariant's parts about addresses survive that s takes address m.
LEMMA Moves ==
  ASSUME IInv, NEW s \in open, NEW m, NewAddress(s, m),
         local' = [local EXCEPT ![s] = m],
         UNCHANGED <<open, bound, queue, err, dropped, refused, call>>,
         \A z \in Socks : z # s => peer'[z] = peer[z],
         sent \subseteq sent', net' \subseteq sent'
  PROVE  /\ local' \in [Socks -> Address]
         /\ Delivered' /\ Blank' /\ CallsOpen' /\ ReceivedRight'
         /\ DropsExplained' /\ BoundExclusive' /\ TimedReady'
  <1> USE DEF IInv
  <1>0. s \in Socks /\ m \in Address /\ local[s] \in Address
        /\ local \in [Socks -> Address]
    BY DEF TypeOK, NewAddress
  <1>1. local' \in [Socks -> Address] /\ local'[s] = m
        /\ \A z \in Socks : z # s => local'[z] = local[z]
    BY <1>0
  <1>2. ASSUME NEW a \in {p.to : p \in Packet}, a.host = "here",
               Overlap(local[s], a), local[s].port # 0
        PROVE  Overlap(m, a)
    BY <1>2, <1>0, AddressFacts DEF NewAddress, Overlap
  <1>3. Delivered'
    <2> SUFFICES ASSUME NEW z \in Socks, NEW i \in 1 .. Len(queue[z])
                 PROVE  /\ queue[z][i] \in sent
                        /\ queue[z][i].to.host = "here"
                        /\ Overlap(local'[z], queue[z][i].to)
      BY DEF Delivered
    <2>1. queue[z][i] \in sent /\ queue[z][i].to.host = "here"
          /\ Overlap(local[z], queue[z][i].to)
      BY DEF Delivered
    <2>2. queue[z] # <<>> /\ queue[z][i] \in Packet
      BY DEF TypeOK
    <2>3. local[z].port # 0
      BY <2>2 DEF Blank
    <2> QED BY <1>1, <1>2, <2>1, <2>2, <2>3
  <1>4. Blank'
    BY <1>0, <1>1 DEF Blank, NewAddress
  <1>5. CallsOpen'
    BY <1>0, <1>1 DEF CallsOpen, NewAddress, TypeOK
  <1>6. ReceivedRight'
    <2> SUFFICES ASSUME NEW t \in Threads, call[t].pc = "returned"
                 PROVE  \E p \in sent' : /\ call[t].data.id = p.id
                                         /\ call[t].data.len = Least(p.len, call[t].max)
                                         /\ call[t].source = p.from
                                         /\ p.to.host = "here"
                                         /\ Overlap(local'[call[t].s], p.to)
      BY DEF ReceivedRight
    <2>1. PICK p \in sent : /\ call[t].data.id = p.id
                            /\ call[t].data.len = Least(p.len, call[t].max)
                            /\ call[t].source = p.from
                            /\ p.to.host = "here"
                            /\ Overlap(local[call[t].s], p.to)
      BY DEF ReceivedRight
    <2>2. call[t].s \in open /\ local[call[t].s].port # 0 /\ call[t].s \in Socks
      BY DEF CallsOpen, TypeOK
    <2>3. p \in Packet
      BY DEF TypeOK
    <2>4. Overlap(local'[call[t].s], p.to)
      BY <1>1, <1>2, <2>1, <2>2, <2>3
    <2> QED BY <2>1, <2>4
  <1>7. DropsExplained'
    BY DEF DropsExplained
  <1>8. BoundExclusive'
    <2>1. ASSUME NEW z \in bound, NEW b \in Address, Overlap(local'[z], b)
          PROVE  Overlap(local[z], b)
      <3>1. z \in Socks /\ local[z].port # 0
        BY DEF TypeOK, Blank
      <3>2. CASE z = s
        BY <1>0, <1>1, <2>1, <3>1, <3>2, AddressFacts
        DEF NewAddress, Overlap, Blank, Address, Hosts
      <3>3. CASE z # s
        BY <1>1, <2>1, <3>1, <3>3
      <3> QED BY <3>2, <3>3
    <2> SUFFICES ASSUME NEW s1 \in bound, NEW s2 \in bound, s1 # s2,
                        Overlap(local'[s1], local'[s2])
                 PROVE  FALSE
      BY DEF BoundExclusive
    <2>2. s1 \in Socks /\ s2 \in Socks
      BY DEF TypeOK
    <2>3. local'[s2] \in Address /\ local[s1] \in Address
      BY <1>0, <1>1, <2>2
    <2>4. Overlap(local[s1], local'[s2])
      BY <2>1, <2>3
    <2>5. Overlap(local'[s2], local[s1])
      BY <2>4 DEF Overlap
    <2>6. Overlap(local[s2], local[s1])
      BY <2>1, <2>3, <2>5
    <2> QED BY <2>6 DEF BoundExclusive
  <1>9. TimedReady'
    BY DEF TimedReady, Readable
  <1> QED BY <1>1, <1>3, <1>4, <1>5, <1>6, <1>7, <1>8, <1>9

-----------------------------------------------------------------------------
(* The calls of programs *)

LEMMA Stutters ==
  ASSUME IInv, UNCHANGED vars
  PROVE  IInv'
  BY DEF IInv, TypeOK, Delivered, Blank, CallsOpen, ReceivedRight,
         DropsExplained, BoundExclusive, TimedReady, Readable, Overlap, vars, sockVars

LEMMA Creates ==
  ASSUME IInv, NEW s \in Socks, NEW l \in Address, NEW p \in Address,
         l.host # "there", l.port = 0 => p = NoPeer, Create(s, l, p),
         \/ UNCHANGED bound
         \/ bound' = bound \cup {s} /\ l.port # 0 /\ Unused(l)
  PROVE  IInv'
  <1> USE DEF IInv
  <1>0. /\ s \notin open /\ open' = open \cup {s}
        /\ local' \in [Socks -> Address] /\ local'[s] = l
        /\ \A z \in Socks : z # s => local'[z] = local[z] /\ peer'[z] = peer[z]
        /\ peer'[s] = p
        /\ UNCHANGED <<queue, err, refused, dropped, net, sent, calls, call>>
    BY DEF Create, TypeOK
  <1>1. TypeOK'
    BY <1>0 DEF Create, TypeOK
  <1>2. local[s].port = 0 /\ queue[s] = <<>> /\ ~err[s] /\ dropped[s] = 0
    BY <1>0 DEF Blank
  <1>3. Delivered'
    BY <1>0, <1>2 DEF Delivered
  <1>4. Blank'
    BY <1>0, <1>2 DEF Blank
  <1>5. CallsOpen'
    BY <1>0, <1>2 DEF CallsOpen, TypeOK
  <1>6. ReceivedRight'
    <2>1. ASSUME NEW t \in Threads, call[t].pc = "returned"
          PROVE  local'[call[t].s] = local[call[t].s]
      BY <2>1, <1>0 DEF CallsOpen, TypeOK
    <2> QED BY <2>1, <1>0 DEF ReceivedRight
  <1>7. DropsExplained'
    BY <1>0, <1>2 DEF DropsExplained, TypeOK
  <1>8. BoundExclusive'
    <2> SUFFICES ASSUME NEW s1 \in bound', NEW s2 \in bound', s1 # s2
                 PROVE  ~Overlap(local'[s1], local'[s2])
      BY DEF BoundExclusive
    <2>1. s1 \in Socks /\ s2 \in Socks /\ s \notin bound
      BY <1>0 DEF TypeOK
    <2>2. CASE s1 # s /\ s2 # s
      BY <2>1, <2>2, <1>0 DEF BoundExclusive
    <2>3. CASE s1 = s
      <3>1. s2 \in open /\ s2 # s /\ Unused(l)
        BY <2>1, <2>3 DEF TypeOK
      <3> QED BY <2>1, <2>3, <3>1, <1>0 DEF Unused, Overlap
    <2>4. CASE s2 = s
      <3>1. s1 \in open /\ s1 # s /\ Unused(l)
        BY <2>1, <2>4 DEF TypeOK
      <3> QED BY <2>1, <2>4, <3>1, <1>0 DEF Unused, Overlap
    <2> QED BY <2>2, <2>3, <2>4
  <1>9. TimedReady'
    BY <1>0 DEF TimedReady, Readable
  <1> QED BY <1>1, <1>3, <1>4, <1>5, <1>6, <1>7, <1>8, <1>9

LEMMA Connects ==
  ASSUME IInv, NEW s \in Socks, NEW a \in Address, Connect(s, a)
  PROVE  IInv'
  <1>1. CASE Fails
    BY <1>1, Stutters DEF Fails
  <1>2. CASE ~Fails
    <2>1. PICK l \in Automatic(s, "here") :
            local' = [local EXCEPT ![s] = Source(l)]
      BY <1>2 DEF Connect
    <2>2. /\ s \in open
          /\ peer' = [peer EXCEPT ![s] = a]
          /\ UNCHANGED <<open, bound, queue, err, refused, dropped, net, sent, calls, call>>
      BY <1>2 DEF Connect
    <2>3. NewAddress(s, Source(l))
      BY <2>2, AutomaticFacts
    <2>4. /\ sent \subseteq sent' /\ net' \subseteq sent'
          /\ \A z \in Socks : z # s => peer'[z] = peer[z]
      BY <2>2 DEF IInv, Delivered, TypeOK
    <2>5. /\ local' \in [Socks -> Address]
          /\ Delivered' /\ Blank' /\ CallsOpen' /\ ReceivedRight'
          /\ DropsExplained' /\ BoundExclusive' /\ TimedReady'
      BY <2>1, <2>2, <2>3, <2>4, Moves
    <2>6. TypeOK'
      BY <2>2, <2>5 DEF IInv, TypeOK
    <2> QED BY <2>5, <2>6 DEF IInv
  <1> QED BY <1>1, <1>2

LEMMA Destroys ==
  ASSUME IInv, NEW s \in Socks, Destroy(s)
  PROVE  IInv'
  <1> USE DEF IInv
  <1>0. /\ s \in open /\ open' = open \ {s} /\ bound' = bound \ {s}
        /\ \A t \in Threads : call[t].s # s
        /\ local' \in [Socks -> Address] /\ local'[s] = DefaultAddress
        /\ \A z \in Socks : z # s => /\ local'[z] = local[z]
                                     /\ peer'[z] = peer[z]
                                     /\ queue'[z] = queue[z]
                                     /\ err'[z] = err[z]
                                     /\ refused'[z] = refused[z]
                                     /\ dropped'[z] = dropped[z]
        /\ peer'[s] = NoPeer
        /\ queue'[s] = <<>> /\ ~err'[s] /\ dropped'[s] = 0
        /\ UNCHANGED <<net, sent, calls, call>>
    BY AddressFacts DEF Destroy, TypeOK
  <1>1. TypeOK'
    BY <1>0, AddressFacts DEF Destroy, TypeOK
  <1>3. Delivered'
    BY <1>0 DEF Delivered
  <1>4. Blank'
    BY <1>0 DEF Blank, DefaultAddress
  <1>5. CallsOpen'
    BY <1>0 DEF CallsOpen, TypeOK
  <1>6. ReceivedRight'
    <2>1. ASSUME NEW t \in Threads, call[t].pc = "returned"
          PROVE  local'[call[t].s] = local[call[t].s]
      BY <2>1, <1>0 DEF CallsOpen, TypeOK
    <2> QED BY <2>1, <1>0 DEF ReceivedRight
  <1>7. DropsExplained'
    BY <1>0 DEF DropsExplained, TypeOK
  <1>8. BoundExclusive'
    BY <1>0 DEF BoundExclusive, TypeOK
  <1>9. TimedReady'
    BY <1>0 DEF TimedReady, Readable, CallsOpen, TypeOK
  <1> QED BY <1>1, <1>3, <1>4, <1>5, <1>6, <1>7, <1>8, <1>9

LEMMA TransmitsKeeps ==
  ASSUME IInv, NEW s \in open, NEW a \in Address, NEW l, NewAddress(s, l),
         NEW n \in Lengths, Transmits(s, a, l, n)
  PROVE  IInv'
  <1> DEFINE p == [id |-> calls, from |-> Source(l), to |-> a, len |-> n]
  <1>1. /\ local' = [local EXCEPT ![s] = l]
        /\ net' = net \cup {p}
        /\ sent' = sent \cup {p}
        /\ calls' = calls + 1
        /\ UNCHANGED <<open, bound, peer, queue, err, refused, dropped, call>>
    BY DEF Transmits
  <1>2. p \in Packet
    BY AddressFacts, DatagramsAssumption DEF Packet, NewAddress, IInv, TypeOK
  <1> HIDE DEF p
  <1>3. /\ sent \subseteq sent' /\ net' \subseteq sent'
        /\ \A z \in Socks : z # s => peer'[z] = peer[z]
    BY <1>1 DEF IInv, Delivered
  <1>4. /\ local' \in [Socks -> Address]
        /\ Delivered' /\ Blank' /\ CallsOpen' /\ ReceivedRight'
        /\ DropsExplained' /\ BoundExclusive' /\ TimedReady'
    BY <1>1, <1>3, Moves
  <1>5. TypeOK'
    BY <1>1, <1>2, <1>4 DEF IInv, TypeOK
  <1> QED BY <1>4, <1>5 DEF IInv

\* Raced() only sets a mark.
LEMMA RacedFacts ==
  ASSUME IInv, NEW s
  PROVE  /\ Raced(s) \in [Threads -> CallSet]
         /\ \A t \in Threads :
              /\ Raced(s)[t].pc = call[t].pc
              /\ Raced(s)[t].s = call[t].s
              /\ Raced(s)[t].timed = call[t].timed
              /\ Raced(s)[t].max = call[t].max
              /\ Raced(s)[t].source = call[t].source
              /\ Raced(s)[t].data = call[t].data
              /\ ~Raced(s)[t].raced => ~call[t].raced
              /\ call[t].pc = "recv" /\ ~Raced(s)[t].raced => call[t].s # s
  <1>1. \A t \in Threads : call[t] \in CallSet
    BY DEF IInv, TypeOK, CallSet
  <1>2. \A t \in Threads : [call[t] EXCEPT !.raced = TRUE] \in CallSet
    BY <1>1 DEF CallSet
  <1> QED BY <1>1, <1>2 DEF Raced, CallSet

LEMMA SwallowsKeeps ==
  ASSUME IInv, NEW s \in open, Swallows(s)
  PROVE  IInv'
  <1> USE DEF IInv
  <1>0. /\ s \in Socks /\ err[s] /\ err' = [err EXCEPT ![s] = FALSE]
        /\ dropped' = [dropped EXCEPT ![s] = @ + 1]
        /\ calls' = calls + 1
        /\ call' = Raced(s)
        /\ UNCHANGED <<open, bound, local, peer, queue, refused, net, sent>>
    BY DEF Swallows, TypeOK
  <1>1. TypeOK'
    BY <1>0, RacedFacts DEF TypeOK, CallSet
  <1>2. \A t \in Threads : /\ call'[t].pc = call[t].pc
                           /\ call'[t].s = call[t].s
                           /\ call'[t].timed = call[t].timed
                           /\ call'[t].max = call[t].max
                           /\ call'[t].source = call[t].source
                           /\ call'[t].data = call[t].data
                           /\ ~call'[t].raced => ~call[t].raced
                           /\ call[t].pc = "recv" /\ ~call'[t].raced => call[t].s # s
    BY <1>0, RacedFacts
  <1>3. Delivered' /\ BoundExclusive'
    BY <1>0 DEF Delivered, BoundExclusive
  <1>4. Blank'
    BY <1>0 DEF Blank, TypeOK
  <1>5. CallsOpen' /\ ReceivedRight'
    BY <1>0, <1>2 DEF CallsOpen, ReceivedRight
  <1>6. DropsExplained'
    BY <1>0 DEF DropsExplained, TypeOK
  <1>7. TimedReady'
    BY <1>0, <1>2 DEF TimedReady, Readable, CallsOpen, TypeOK
  <1> QED BY <1>1, <1>3, <1>4, <1>5, <1>6, <1>7

LEMMA SendTos ==
  ASSUME IInv, NEW s \in Socks, NEW a \in Address, NEW n \in Lengths,
         SendTo(s, a, n)
  PROVE  IInv'
  <1>0. s \in open
    BY DEF SendTo, CanSend
  <1>1. CASE Fails
    BY <1>1, Stutters DEF Fails
  <1>2. CASE Swallows(s)
    BY <1>0, <1>2, SwallowsKeeps
  <1>3. ASSUME NEW l \in Automatic(s, "any"), Transmits(s, a, l, n)
        PROVE  IInv'
    BY <1>0, <1>3, AutomaticFacts, TransmitsKeeps
  <1> QED BY <1>1, <1>2, <1>3 DEF SendTo

LEMMA Clients ==
  ASSUME IInv, NEW s \in Socks
  PROVE  /\ \A d \in Descs : NewUnbound(s, d) => IInv'
         /\ \A n \in Services, hint \in IntFamilies : NewBound(s, n, hint) => IInv'
         /\ \A n \in Names, hint \in IntFamilies : NewConnected(s, n, hint) => IInv'
         /\ \A n \in Names : ConnectName(s, n) => IInv'
         /\ \A k \in Lengths : Send(s, k) => IInv'
         /\ \A k \in Lengths, n \in Names : SendName(s, n, k) => IInv'
  <1>0. Fails => IInv'
    BY Stutters DEF Fails
  <1>1. ASSUME NEW d \in Descs, NewUnbound(s, d)
        PROVE  IInv'
    <2> DEFINE f == int_address_family(address_family(d, TRUE))
    <2>1. CASE Fails
      BY <2>1, <1>0
    <2>2. CASE ~Fails
      <3>1. /\ address_family(d, TRUE) \in {"ipv4", "ipv6"}
            /\ Create(s, UnboundAddress(f), NoPeer)
            /\ UNCHANGED bound
        BY <1>1, <2>2 DEF NewUnbound
      <3>2. f \in {AF_INET, AF_INET6}
        BY <3>1 DEF int_address_family
      <3>3. UnboundAddress(f) \in Address /\ NoPeer \in Address
        BY <3>2, AddressFacts
      <3>4. UnboundAddress(f).host # "there" /\ UnboundAddress(f).port = 0
        BY DEF UnboundAddress
      <3> HIDE DEF f
      <3> QED BY <3>1, <3>3, <3>4, Creates
    <2> QED BY <2>1, <2>2
  <1>2. ASSUME NEW n \in Services, NEW hint \in IntFamilies, NewBound(s, n, hint)
        PROVE  IInv'
    <2>1. ASSUME NEW i \in DOMAIN Lookup[n], Bindable(Lookup[n][i]),
                 Create(s, Lookup[n][i], NoPeer), bound' = bound \cup {s}
          PROVE  IInv'
      <3>1. /\ Lookup[n][i] \in Address /\ Lookup[n][i].port # 0
            /\ NoPeer \in Address
        BY LookupFacts, AddressFacts
      <3> QED BY <2>1, <3>1, Creates DEF Bindable
    <2> QED BY <1>0, <1>2, <2>1 DEF NewBound, IsFirst
  <1>3. ASSUME NEW n \in Names, NEW hint \in IntFamilies, NewConnected(s, n, hint)
        PROVE  IInv'
    <2>1. ASSUME NEW i \in DOMAIN Lookup[n], NewConnectedTo(s, Lookup[n][i])
          PROVE  IInv'
      <3> DEFINE f == int_address_family(from_int_address_family(Lookup[n][i].family))
                 l(e) == [family |-> f, host |-> "here", port |-> e]
      <3>1. PICK e \in Ephemeral : Create(s, l(e), Lookup[n][i]) /\ UNCHANGED bound
        BY <2>1 DEF NewConnectedTo
      <3>2. Lookup[n][i] \in Address
        BY LookupFacts
      <3>3. l(e) \in Address /\ l(e).host # "there" /\ l(e).port # 0
        <4>1. f \in {AF_INET, AF_INET6}
          BY <3>2 DEF Address, int_address_family, from_int_address_family,
                      AF_INET, AF_INET6, AF_UNSPEC
        <4> QED BY <4>1, DatagramsAssumption DEF Address, Hosts
      <3> HIDE DEF f, l
      <3> QED BY <3>1, <3>2, <3>3, Creates
    <2> QED BY <1>0, <1>3, <2>1 DEF NewConnected
  <1>4. ASSUME NEW n \in Names, ConnectName(s, n)
        PROVE  IInv'
    <2>1. ASSUME NEW i \in DOMAIN Lookup[n], Connect(s, Lookup[n][i])
          PROVE  IInv'
      BY <2>1, LookupFacts, Connects
    <2> QED BY <1>0, <1>4, <2>1 DEF ConnectName
  <1>5. ASSUME NEW k \in Lengths, Send(s, k)
        PROVE  IInv'
    <2>0. s \in open
      BY <1>5 DEF Send, CanSend
    <2>1. ASSUME peer[s] # NoPeer, Transmits(s, peer[s], local[s], k)
          PROVE  IInv'
      <3>1. NewAddress(s, local[s])
        BY <2>0, <2>1, OwnAddress
      <3>2. peer[s] \in Address
        BY DEF IInv, TypeOK
      <3> QED BY <2>0, <2>1, <3>1, <3>2, TransmitsKeeps
    <2> QED BY <1>0, <1>5, <2>0, <2>1, SwallowsKeeps DEF Send
  <1>6. ASSUME NEW k \in Lengths, NEW n \in Names, SendName(s, n, k)
        PROVE  IInv'
    <2>1. ASSUME NEW i \in DOMAIN Lookup[n], SendTo(s, Lookup[n][i], k)
          PROVE  IInv'
      BY <2>1, LookupFacts, SendTos
    <2> QED BY <1>0, <1>6, <2>1 DEF SendName
  <1> QED BY <1>1, <1>2, <1>3, <1>4, <1>5, <1>6

-----------------------------------------------------------------------------
(* receive() *)

\* A step that changes only the call of thread t.
LEMMA CallChanges ==
  ASSUME IInv, NEW t \in Threads, NEW c \in CallSet,
         call' = [call EXCEPT ![t] = c],
         UNCHANGED <<sockVars, net, sent, calls>>,
         c.pc # "returned",
         c.pc # "idle" => c.s \in open,
         c.pc = "recv" /\ c.timed /\ ~c.raced => Readable(c.s)
  PROVE  IInv'
  <1> USE DEF IInv, sockVars
  <1>1. TypeOK'
    BY DEF TypeOK, CallSet
  <1>2. call'[t] = c /\ \A z \in Threads : z # t => call'[z] = call[z]
    BY DEF TypeOK
  <1>3. Delivered' /\ Blank' /\ DropsExplained' /\ BoundExclusive'
    BY DEF Delivered, Blank, DropsExplained, BoundExclusive
  <1>4. CallsOpen'
    BY <1>2 DEF CallsOpen
  <1>5. ReceivedRight'
    BY <1>2 DEF ReceivedRight
  <1>6. TimedReady'
    BY <1>2 DEF TimedReady, Readable
  <1> QED BY <1>1, <1>3, <1>4, <1>5, <1>6

LEMMA ReceiveSteps ==
  ASSUME IInv, NEW t \in Threads
  PROVE  /\ \A s \in Socks, timed \in BOOLEAN, max \in Sizes :
              Receive(t, s, timed, max) => IInv'
         /\ SelectReady(t) => IInv'
         /\ SelectTimeout(t) => IInv'
         /\ RecvInterrupted(t) => IInv'
         /\ Returns(t) => IInv'
  <1>0. call[t] \in CallSet
    BY DEF IInv, TypeOK, CallSet
  <1>1. ASSUME NEW s \in Socks, NEW timed \in BOOLEAN, NEW max \in Sizes,
               Receive(t, s, timed, max)
        PROVE  IInv'
    <2> DEFINE c == [IdleCall EXCEPT !.pc = IF timed THEN "select" ELSE "recv",
                                     !.s = s, !.timed = timed, !.max = max,
                                     !.source = NoPeer]
    <2>1. c \in CallSet /\ c.s = s /\ c.timed = timed
          /\ c.pc = IF timed THEN "select" ELSE "recv"
      BY IdleFacts, AddressFacts, DatagramsAssumption DEF CallSet
    <2>2. s \in open /\ call' = [call EXCEPT ![t] = c]
          /\ UNCHANGED <<sockVars, net, sent, calls>>
      BY <1>1 DEF Receive
    <2> HIDE DEF c
    <2> QED BY <2>1, <2>2, CallChanges
  <1>2. ASSUME SelectReady(t)
        PROVE  IInv'
    <2> DEFINE c == [call[t] EXCEPT !.pc = "recv"]
    <2>1. c \in CallSet /\ c.s = call[t].s /\ c.pc = "recv"
      BY <1>0 DEF CallSet
    <2>2. call' = [call EXCEPT ![t] = c] /\ UNCHANGED <<sockVars, net, sent, calls>>
      BY <1>2 DEF SelectReady, IInv, TypeOK
    <2>3. call[t].s \in open /\ Readable(call[t].s)
      BY <1>2 DEF SelectReady, IInv, CallsOpen
    <2> HIDE DEF c
    <2> QED BY <2>1, <2>2, <2>3, CallChanges
  <1>3. ASSUME call' = [call EXCEPT ![t] = IdleCall],
               UNCHANGED <<sockVars, net, sent, calls>>
        PROVE  IInv'
    BY <1>3, IdleFacts, CallChanges
  <1>4. ASSUME RecvInterrupted(t)
        PROVE  IInv'
    <2> DEFINE c == [call[t] EXCEPT !.source = DefaultAddress]
    <2>1. /\ c \in CallSet /\ c.s = call[t].s /\ c.pc = call[t].pc
          /\ c.timed = call[t].timed /\ c.raced = call[t].raced
      BY <1>0, AddressFacts DEF CallSet
    <2>2. call' = [call EXCEPT ![t] = c] /\ UNCHANGED <<sockVars, net, sent, calls>>
          /\ call[t].pc = "recv"
      BY <1>4 DEF RecvInterrupted, IInv, TypeOK
    <2>3. call[t].s \in open
          /\ (call[t].timed /\ ~call[t].raced => Readable(call[t].s))
      BY <2>2 DEF IInv, CallsOpen, TimedReady
    <2> HIDE DEF c
    <2> QED BY <2>1, <2>2, <2>3, CallChanges
  <1> QED BY <1>1, <1>2, <1>3, <1>4 DEF SelectTimeout, Returns

LEMMA RecvThrowsKeeps ==
  ASSUME IInv, NEW t \in Threads, RecvThrows(t)
  PROVE  IInv'
  <1> USE DEF IInv
  <1> DEFINE s == call[t].s
  <1>0. /\ s \in open /\ s \in Socks
        /\ err' = [err EXCEPT ![s] = FALSE]
        /\ call' = [Raced(s) EXCEPT ![t] = IdleCall]
        /\ UNCHANGED <<open, bound, local, peer, queue, refused, dropped, net, sent, calls>>
    BY DEF RecvThrows, CallsOpen, TypeOK
  <1> HIDE DEF s
  <1>1. TypeOK'
    BY <1>0, RacedFacts, IdleFacts DEF TypeOK, CallSet
  <1>2. /\ call'[t] = IdleCall
        /\ \A z \in Threads : z # t => call'[z] = Raced(s)[z]
    BY <1>0, RacedFacts
  <1>3. Delivered' /\ BoundExclusive'
    BY <1>0 DEF Delivered, BoundExclusive
  <1>4. Blank'
    BY <1>0 DEF Blank, TypeOK
  <1>5. CallsOpen' /\ ReceivedRight'
    BY <1>0, <1>2, RacedFacts, IdleFacts DEF CallsOpen, ReceivedRight
  <1>6. DropsExplained'
    BY <1>0 DEF DropsExplained, TypeOK
  <1>7. TimedReady'
    BY <1>0, <1>2, RacedFacts, IdleFacts DEF TimedReady, Readable, CallsOpen, TypeOK
  <1> QED BY <1>1, <1>3, <1>4, <1>5, <1>6, <1>7

LEMMA RecvPacketKeeps ==
  ASSUME IInv, NEW t \in Threads, RecvPacket(t)
  PROVE  IInv'
  <1> USE DEF IInv
  <1> DEFINE s == call[t].s
             p == Head(queue[s])
             c == [call[t] EXCEPT !.pc = "returned", !.source = p.from,
                                  !.data = [id  |-> p.id,
                                            len |-> Least(p.len, call[t].max)]]
  <1>0. /\ s \in open /\ s \in Socks
        /\ queue[s] # <<>> /\ queue[s] \in Seq(Packet)
        /\ queue' = [queue EXCEPT ![s] = Tail(@)]
        /\ call' = [Raced(s) EXCEPT ![t] = c]
        /\ UNCHANGED <<open, bound, local, peer, err, refused, dropped, net, sent, calls>>
    BY DEF RecvPacket, CallsOpen, TypeOK
  <1>1. p = queue[s][1] /\ 1 \in 1 .. Len(queue[s])
    BY <1>0
  <1>2. /\ p \in Packet /\ p \in sent /\ p.to.host = "here"
        /\ Overlap(local[s], p.to) /\ local[s].port # 0
    BY <1>0, <1>1 DEF Delivered, Blank
  <1>3. call[t] \in CallSet
    BY DEF TypeOK, CallSet
  <1>4. /\ c \in CallSet /\ c.pc = "returned" /\ c.s = s
        /\ c.source = p.from /\ c.data.id = p.id /\ c.max = call[t].max
        /\ c.data.len = Least(p.len, call[t].max)
    BY <1>2, <1>3 DEF CallSet, Contents, Packet, Least
  <1>5. /\ queue' \in [Socks -> Seq(Packet)]
        /\ \A z \in Socks : z # s => queue'[z] = queue[z]
        /\ Len(queue'[s]) = Len(queue[s]) - 1
        /\ \A i \in 1 .. Len(queue'[s]) : /\ queue'[s][i] = queue[s][i + 1]
                                          /\ i + 1 \in 1 .. Len(queue[s])
    <2>1. /\ Tail(queue[s]) \in Seq(Packet)
          /\ Len(Tail(queue[s])) = Len(queue[s]) - 1
          /\ \A i \in 1 .. Len(Tail(queue[s])) : Tail(queue[s])[i] = queue[s][i + 1]
      BY <1>0
    <2>2. queue'[s] = Tail(queue[s])
      BY <1>0 DEF TypeOK
    <2> QED BY <1>0, <2>1, <2>2 DEF TypeOK
  <1> HIDE DEF s, p, c
  <1>6. TypeOK'
    BY <1>0, <1>4, <1>5, RacedFacts DEF TypeOK, CallSet
  <1>7. /\ call'[t] = c
        /\ \A z \in Threads : z # t => call'[z] = Raced(s)[z]
    BY <1>0, RacedFacts
  <1>8. Delivered' /\ BoundExclusive'
    BY <1>0, <1>5 DEF Delivered, BoundExclusive
  <1>9. Blank'
    BY <1>0, <1>2, <1>5 DEF Blank
  <1>10. CallsOpen'
    BY <1>0, <1>2, <1>4, <1>7, RacedFacts DEF CallsOpen
  <1>11. ReceivedRight'
    BY <1>0, <1>2, <1>4, <1>7, RacedFacts DEF ReceivedRight
  <1>12. DropsExplained'
    BY <1>0 DEF DropsExplained
  <1>13. TimedReady'
    <2> SUFFICES ASSUME NEW z \in Threads, call'[z].pc = "recv",
                        call'[z].timed, ~call'[z].raced
                 PROVE  err'[call'[z].s] \/ queue'[call'[z].s] # <<>>
      BY DEF TimedReady, Readable
    <2>1. z # t /\ call'[z] = Raced(s)[z]
      BY <1>4, <1>7
    <2>2. /\ call[z].pc = "recv" /\ call[z].timed /\ ~call[z].raced
          /\ call[z].s # s /\ call'[z].s = call[z].s
      BY <2>1, RacedFacts
    <2>3. Readable(call[z].s) /\ call[z].s \in Socks
      BY <2>2 DEF TimedReady, CallsOpen, TypeOK
    <2>4. queue'[call[z].s] = queue[call[z].s] /\ err' = err
      BY <2>2, <2>3, <1>0, <1>5
    <2> QED BY <2>2, <2>3, <2>4 DEF Readable
  <1> QED BY <1>6, <1>8, <1>9, <1>10, <1>11, <1>12, <1>13

-----------------------------------------------------------------------------
(* The network *)

LEMMA DeliverKeeps ==
  ASSUME IInv, NEW p \in net, NEW s \in Socks, NEW again \in BOOLEAN,
         Deliver(p, s, again)
  PROVE  IInv'
  <1> USE DEF IInv
  <1>0. /\ s \in open /\ local[s].port # 0 /\ p.to.host = "here"
        /\ Overlap(local[s], p.to)
        /\ queue' = [queue EXCEPT ![s] = Append(@, p)]
        /\ net' \subseteq net
        /\ UNCHANGED <<open, bound, local, peer, err, sent, calls, refused, dropped, call>>
    BY DEF Deliver, IsFor
  <1>1. p \in Packet /\ p \in sent /\ queue[s] \in Seq(Packet)
    BY DEF TypeOK, Delivered
  <1>2. /\ queue' \in [Socks -> Seq(Packet)]
        /\ \A z \in Socks : z # s => queue'[z] = queue[z]
        /\ queue'[s] # <<>>
        /\ Len(queue'[s]) = Len(queue[s]) + 1
        /\ \A i \in 1 .. Len(queue[s]) : queue'[s][i] = queue[s][i]
        /\ queue'[s][Len(queue[s]) + 1] = p
    <2>1. queue'[s] = Append(queue[s], p)
      BY <1>0 DEF TypeOK
    <2>2. /\ Append(queue[s], p) \in Seq(Packet)
          /\ Len(Append(queue[s], p)) = Len(queue[s]) + 1
          /\ \A i \in 1 .. Len(queue[s]) : Append(queue[s], p)[i] = queue[s][i]
          /\ Append(queue[s], p)[Len(queue[s]) + 1] = p
      BY <1>1
    <2>3. Append(queue[s], p) # <<>>
      BY <1>1
    <2> QED BY <1>0, <2>1, <2>2, <2>3 DEF TypeOK
  <1>3. TypeOK'
    BY <1>0, <1>2 DEF TypeOK
  <1>4. Delivered'
    <2> SUFFICES ASSUME NEW z \in Socks, NEW i \in 1 .. Len(queue'[z])
                 PROVE  /\ queue'[z][i] \in sent
                        /\ queue'[z][i].to.host = "here"
                        /\ Overlap(local[z], queue'[z][i].to)
      BY <1>0 DEF Delivered
    <2>1. CASE z # s
      BY <2>1, <1>2 DEF Delivered
    <2>2. CASE z = s /\ i = Len(queue[s]) + 1
      BY <2>2, <1>0, <1>1, <1>2
    <2>3. CASE z = s /\ i # Len(queue[s]) + 1
      <3>1. i \in 1 .. Len(queue[s])
        BY <2>3, <1>1, <1>2
      <3> QED BY <2>3, <3>1, <1>2 DEF Delivered
    <2> QED BY <2>1, <2>2, <2>3
  <1>5. Blank' /\ CallsOpen' /\ ReceivedRight' /\ DropsExplained' /\ BoundExclusive'
    BY <1>0, <1>2 DEF Blank, CallsOpen, ReceivedRight, DropsExplained, BoundExclusive
  <1>6. TimedReady'
    BY <1>0, <1>2 DEF TimedReady, Readable, CallsOpen, TypeOK
  <1> QED BY <1>3, <1>4, <1>5, <1>6

LEMMA RefuseKeeps ==
  ASSUME IInv, NEW p \in net, NEW s \in Socks, Refuse(p, s)
  PROVE  IInv'
  <1> USE DEF IInv
  <1>0. /\ s \in open
        /\ err' = [err EXCEPT ![s] = TRUE]
        /\ refused' = [refused EXCEPT ![s] = @ + 1]
        /\ net' \subseteq net
        /\ UNCHANGED <<open, bound, local, peer, queue, dropped, sent, calls, call>>
    BY DEF Refuse
  <1>1. TypeOK'
    BY <1>0 DEF TypeOK
  <1>2. Delivered' /\ CallsOpen' /\ ReceivedRight' /\ BoundExclusive'
    BY <1>0 DEF Delivered, CallsOpen, ReceivedRight, BoundExclusive
  <1>3. Blank'
    BY <1>0 DEF Blank, TypeOK
  <1>4. DropsExplained'
    BY <1>0 DEF DropsExplained, TypeOK
  <1>5. TimedReady'
    BY <1>0 DEF TimedReady, Readable, CallsOpen, TypeOK
  <1> QED BY <1>1, <1>2, <1>3, <1>4, <1>5

LEMMA LoseKeeps ==
  ASSUME IInv, NEW p \in net, Lose(p)
  PROVE  IInv'
  BY DEF IInv, Lose, sockVars, TypeOK, Delivered, Blank, CallsOpen, ReceivedRight,
         DropsExplained, BoundExclusive, TimedReady, Readable

-----------------------------------------------------------------------------

\* IInv is an invariant of the sockets.
THEOREM Inductive == Spec => []IInv
  <1>1. Init => IInv
    BY AddressFacts, IdleFacts
    DEF Init, IInv, TypeOK, Delivered, Blank, CallsOpen, ReceivedRight,
        DropsExplained, BoundExclusive, TimedReady, CallSet, DefaultAddress
  <1>2. IInv /\ [Next]_vars => IInv'
    <2> SUFFICES ASSUME IInv, [Next]_vars
                 PROVE  IInv'
      OBVIOUS
    <2>1. ASSUME NEW t \in Threads, Client(t)
          PROVE  IInv'
      <3>1. PICK s \in Socks :
              \/ \E d \in Descs : NewUnbound(s, d)
              \/ \E n \in Services, hint \in IntFamilies : NewBound(s, n, hint)
              \/ \E n \in Names, hint \in IntFamilies : NewConnected(s, n, hint)
              \/ \E n \in Names : ConnectName(s, n)
              \/ \E n \in Names : \E i \in DOMAIN Lookup[n] : Connect(s, Lookup[n][i])
              \/ Destroy(s)
              \/ \E k \in Lengths : Send(s, k)
              \/ \E k \in Lengths, n \in Names : SendName(s, n, k)
              \/ \E k \in Lengths, n \in Names : \E i \in DOMAIN Lookup[n] :
                   SendTo(s, Lookup[n][i], k)
              \/ \E timed \in BOOLEAN, max \in Sizes : Receive(t, s, timed, max)
        BY <2>1 DEF Client
      <3>2. ASSUME NEW n \in Names, NEW i \in DOMAIN Lookup[n], Connect(s, Lookup[n][i])
            PROVE  IInv'
        BY <3>2, LookupFacts, Connects
      <3>3. ASSUME NEW k \in Lengths, NEW n \in Names, NEW i \in DOMAIN Lookup[n],
                   SendTo(s, Lookup[n][i], k)
            PROVE  IInv'
        BY <3>3, LookupFacts, SendTos
      <3> QED BY <3>1, <3>2, <3>3, Clients, Destroys, ReceiveSteps
    <2>2. ASSUME Network
          PROVE  IInv'
      BY <2>2, DeliverKeeps, RefuseKeeps, LoseKeeps DEF Network
    <2>3. CASE UNCHANGED vars
      BY <2>3, Stutters
    <2> QED BY <2>1, <2>2, <2>3, ReceiveSteps, RecvThrowsKeeps, RecvPacketKeeps DEF Next
  <1> QED BY <1>1, <1>2, PTL DEF Spec

\* The variables of the model keep their types.
THEOREM TypeCorrect == Spec => []TypeOK
  <1>1. IInv => TypeOK
    BY DEF IInv
  <1> QED BY <1>1, Inductive, PTL

\* What a receive() call returns is one packet that was sent to its socket, with
\* its source, for any number of sockets, threads and packets.
THEOREM ReceivesRight == Spec => []ReceivedRight
  <1>1. IInv => ReceivedRight
    BY DEF IInv
  <1> QED BY <1>1, Inductive, PTL

\* A send() that silently sends nothing answers to a refusal.
THEOREM DropsAreExplained == Spec => []DropsExplained
  <1>1. IInv => DropsExplained
    BY DEF IInv
  <1> QED BY <1>1, Inductive, PTL

\* No two sockets that the program bound share an address, whatever addresses the
\* system chooses for others.
THEOREM BoundAddressesExclusive == Spec => []BoundExclusive
  <1>1. IInv => BoundExclusive
    BY DEF IInv
  <1> QED BY <1>1, Inductive, PTL

\* A receive() with a timeout does not block in recvfrom() unless another thread
\* came between select() and recvfrom().
THEOREM TimedReceiveReady == Spec => []TimedReady
  <1>1. IInv => TimedReady
    BY DEF IInv
  <1> QED BY <1>1, Inductive, PTL
==============================================================================
