---------------------------- MODULE UdpMux_proofs ----------------------------
(***************************************************************************)
(* Proofs about UdpMux, for any sets of connections, addresses and ufrags  *)
(* and any number of datagrams, sized as MuxAssumption says.               *)
(***************************************************************************)
EXTENDS UdpMux, Sums_proofs, TLAPS

(***************************************************************************)
(* The inductive invariant.                                                *)
(***************************************************************************)
Lives == {"new", "naming", "open", "unnaming", "forgetting", "waking", "closed"}

Typed ==
    /\ routes \subseteq Conns
    /\ byUfrag \in [Ufrags -> Conns \cup {None}]
    /\ byAddr \in [Addrs -> Conns \cup {None}]
    /\ remoteAddr \in [Conns -> Addrs \cup {None}]
    /\ claimed \in [Addrs -> Conns \cup {None}]
    /\ life \in [Conns -> Lives]
    /\ ufrag \in [Conns -> Ufrags \cup {None}]

\* A connection is registered between the first steps of endpoint() and unregister(),
\* and has learned nothing before.
RoutesByLife ==
    \A c \in Conns :
        /\ c \in routes <=> life[c] \in {"naming", "open"}
        /\ life[c] = "new" => remoteAddr[c] = None

\* A ufrag leads to the connection that offered it, until that is unregistered.
UfragTable ==
    \A u \in Ufrags, c \in Conns :
        byUfrag[u] = c => ufrag[c] = u /\ life[c] \in {"open", "unnaming"}

\* The packet in the receiver's hands and the connection it was identified for.
InHand ==
    /\ pc # "idle" /\ pc # "stopped" =>
        /\ target \in Conns /\ packet.from \in Addrs
        /\ life[target] \notin {"new", "naming"}
        /\ packet.kind \in {"named", "data"}
        /\ packet.kind = "named" => packet.ufrag = ufrag[target]
        /\ pc \in {"identified", "learned"} /\ packet.kind = "data" =>
              claimed[packet.from] = target /\ remoteAddr[target] = packet.from
    /\ pc \in {"learned", "enqueue", "wake"} => target \in routes
    /\ pc = "learned" => remoteAddr[target] = packet.from

Exact(a, c) ==
    /\ byAddr[a] = c => remoteAddr[c] = a /\ claimed[a] = c
                        /\ life[c] \in {"open", "unnaming", "forgetting"}
    /\ c \in routes /\ remoteAddr[c] = a /\ claimed[a] = c => byAddr[a] = c

\* The address table, also while route_packet is between its two updates: there
\* the table still shows the previous address of the packet's connection.
AddressTable ==
    \A a \in Addrs, c \in Conns :
        /\ pc # "learned" \/ c # target => Exact(a, c)
        /\ pc = "learned" /\ c = target =>
              (byAddr[a] = c <=> a = previous /\ claimed[a] = c)

MuxInv == Typed /\ RoutesByLife /\ UfragTable /\ InHand /\ AddressTable

LEMMA MuxInit == MuxAssumption /\ Init => MuxInv
  BY DEF MuxAssumption, NoneAssumption, Init, MuxInv, Typed, Lives, RoutesByLife, UfragTable, InHand,
     AddressTable, Exact

LEMMA PacketFields ==
    ASSUME NEW p \in Packet
    PROVE  /\ p.kind \in {"named", "unnamed", "data"} /\ p.from \in Addrs
           /\ p.kind = "named" => p.ufrag \in Ufrags
  BY DEF Packet

muxVars == <<tables, callers, pc, packet, target, previous, claimed>>

LEMMA MuxStable == MuxInv /\ UNCHANGED muxVars => MuxInv'
  BY DEF MuxInv, muxVars, tables, callers, Typed, RoutesByLife, UfragTable, InHand,
     AddressTable, Exact

LEMMA CallerStep ==
    ASSUME MuxAssumption, MuxInv, NEW c \in Conns, Caller(c)
    PROVE  MuxInv'
  <1>0. NoneAssumption
    BY DEF MuxAssumption
  <1> USE <1>0 DEF NoneAssumption, callerRest, receiver, RoutesLocked
  <1>1. CASE InsertRoute(c)
    <2>1. PICK u \in Ufrags : ufrag' = [ufrag EXCEPT ![c] = u]
      BY <1>1 DEF InsertRoute
    <2>2. /\ life[c] = "new" /\ life' = [life EXCEPT ![c] = "naming"]
          /\ routes' = routes \cup {c}
          /\ UNCHANGED <<byUfrag, byAddr, remoteAddr, pc, packet, target, previous, claimed>>
      BY <1>1 DEF InsertRoute
    <2>3. Typed' /\ RoutesByLife'
      BY <2>1, <2>2 DEF MuxInv, Typed, RoutesByLife, Lives
    <2>4. UfragTable' /\ InHand'
      BY <2>1, <2>2 DEF MuxInv, Typed, UfragTable, InHand
    <2>5. AddressTable'
      <3>1. remoteAddr[c] \notin Addrs
        BY <2>2 DEF MuxInv, RoutesByLife
      <3> QED BY <2>1, <2>2, <3>1 DEF MuxInv, Typed, AddressTable, Exact
    <2> QED BY <2>3, <2>4, <2>5 DEF MuxInv
  <1>2. CASE InsertUfrag(c)
    <2>1. /\ life[c] = "naming" /\ life' = [life EXCEPT ![c] = "open"]
          /\ byUfrag' = [byUfrag EXCEPT ![ufrag[c]] = c]
          /\ UNCHANGED <<routes, ufrag, byAddr, remoteAddr, pc, packet, target, previous,
                         claimed>>
      BY <1>2 DEF InsertUfrag
    <2>2. Typed' /\ RoutesByLife'
      BY <2>1 DEF MuxInv, Typed, RoutesByLife, Lives
    <2>3. UfragTable'
      BY <2>1 DEF MuxInv, Typed, UfragTable
    <2>4. InHand' /\ AddressTable'
      BY <2>1 DEF MuxInv, Typed, InHand, AddressTable, Exact
    <2> QED BY <2>2, <2>3, <2>4 DEF MuxInv
  <1> USE DEF MuxInv, Typed, Lives, RoutesByLife, UfragTable, InHand, AddressTable, Exact
  <1>3. CASE RemoveRoute(c)
    BY <1>3 DEF RemoveRoute
  <1>4. CASE RemoveUfrag(c)
    BY <1>4 DEF RemoveUfrag
  <1>5. CASE RemoveAddr(c)
    BY <1>5 DEF RemoveAddr
  <1>6. CASE WakeDriver(c)
    BY <1>6 DEF WakeDriver
  <1> QED BY <1>1, <1>2, <1>3, <1>4, <1>5, <1>6 DEF Caller

LEMMA ReceiveStep ==
    ASSUME MuxAssumption, MuxInv, NEW p \in Packet, Receive(p)
    PROVE  MuxInv'
  BY PacketFields DEF MuxAssumption, NoneAssumption, Receive, Identify, MuxInv, Typed,
     Lives, RoutesByLife, UfragTable, InHand, AddressTable, Exact, receiverRest, callers

LEMMA RouteStep == MuxAssumption /\ MuxInv /\ RoutePacket => MuxInv'
  <1> SUFFICES ASSUME MuxAssumption, MuxInv, RoutePacket PROVE MuxInv'
    OBVIOUS
  <1> USE DEF MuxAssumption, NoneAssumption, MuxInv, Typed, Lives, RoutesByLife, UfragTable, InHand,
          AddressTable, Exact, receiverRest, callers
  <1>1. CASE RouteGone
    BY <1>1 DEF RouteGone
  <1>2. CASE LearnAddr
    BY <1>2 DEF LearnAddr
  <1>3. CASE UpdateAddrs
    BY <1>3 DEF UpdateAddrs
  <1>4. CASE Enqueue
    BY <1>4 DEF Enqueue
  <1>5. CASE Wake
    BY <1>5 DEF Wake
  <1> QED BY <1>1, <1>2, <1>3, <1>4, <1>5 DEF RoutePacket

LEMMA MuxStep == MuxAssumption /\ MuxInv /\ [Next]_vars => MuxInv'
  <1>1. MuxInv /\ StopReceiving => MuxInv'
    BY DEF StopReceiving, receiverRest, callers, MuxInv, Typed, RoutesByLife, UfragTable,
       InHand, AddressTable, Exact
  <1>2. MuxInv /\ (\E c \in Conns : PollReady(c) \/ PollPending(c)) => MuxInv'
    BY MuxStable DEF PollReady, PollPending, driverRest, muxVars, receiver
  <1>3. MuxInv /\ UNCHANGED vars => MuxInv'
    BY MuxStable DEF vars, muxVars, receiver
  <1> QED BY CallerStep, ReceiveStep, RouteStep, <1>1, <1>2, <1>3 DEF Next

(***************************************************************************)
(* What follows from it.                                                   *)
(***************************************************************************)
\* However addresses are claimed, left and taken over, and connections closed in
\* between, an address leads to the connection that named itself there last.
THEOREM AddressesFollowTheirPeers ==
    ASSUME MuxAssumption
    PROVE  Spec => []AddressTableExact
  <1>1. MuxInv => AddressTableExact
    BY DEF MuxInv, AddressTable, Exact, AddressTableExact
  <1> QED BY MuxInit, MuxStep, <1>1, PTL DEF Spec

\* No interleaving of a packet that is being routed with unregister() leaves an
\* entry of the closed connection in a table.
THEOREM UnregisterIsComplete ==
    ASSUME MuxAssumption
    PROVE  Spec => []ClosedLeavesNothing
  <1>1. MuxInv => ClosedLeavesNothing
    BY DEF MuxInv, RoutesByLife, UfragTable, InHand, AddressTable, Exact,
       ClosedLeavesNothing
  <1> QED BY MuxInit, MuxStep, <1>1, PTL DEF Spec

(***************************************************************************)
(* The queues.                                                             *)
(***************************************************************************)
\* A request in a queue names the peer of that queue, and a connection that is
\* still being registered has received nothing.
QueueInv ==
    /\ queue \in [Conns -> Seq(Packet)]
    /\ RequestsReachTheirPeer
    /\ \A c \in Conns : life[c] \in {"new", "naming"} => queue[c] = <<>>
    /\ packet \in Packet \cup {NoPacket}
    /\ pc # "idle" /\ pc # "stopped" => packet \in Packet

LEMMA QueueInit == Init => QueueInv
  BY DEF Init, QueueInv, RequestsReachTheirPeer

LEMMA QueueStep == MuxInv /\ QueueInv /\ [Next]_vars => QueueInv'
  <1> SUFFICES ASSUME MuxInv, QueueInv, [Next]_vars PROVE QueueInv'
    OBVIOUS
  <1> USE DEF QueueInv, RequestsReachTheirPeer
  <1>1. ASSUME NEW c \in Conns, Caller(c) PROVE QueueInv'
    <2>1. UNCHANGED <<queue, packet, pc>>
      BY <1>1 DEF Caller, InsertRoute, InsertUfrag, RemoveRoute, RemoveUfrag, RemoveAddr,
         WakeDriver, callerRest, receiver, queues
    <2>2. \A d \in Conns : queue[d] # <<>> => ufrag'[d] = ufrag[d]
      BY <1>1 DEF Caller, InsertRoute, InsertUfrag, RemoveRoute, RemoveUfrag, RemoveAddr,
         WakeDriver, callerRest, MuxInv, Typed
    <2>3. \A d \in Conns : life'[d] \in {"new", "naming"} => life[d] \in {"new", "naming"}
      BY <1>1 DEF Caller, InsertRoute, InsertUfrag, RemoveRoute, RemoveUfrag, RemoveAddr,
         WakeDriver, callerRest, MuxInv, Typed
    <2> QED BY <2>1, <2>2, <2>3
  <1>2. ASSUME NEW p \in Packet, Receive(p) PROVE QueueInv'
    BY <1>2 DEF Receive, receiverRest, callers, queues
  <1>3. CASE RouteGone \/ LearnAddr \/ UpdateAddrs \/ Wake \/ StopReceiving
    BY <1>3 DEF RouteGone, LearnAddr, UpdateAddrs, Wake, StopReceiving, receiverRest,
       callers, queues
  <1>4. CASE Enqueue
    <2>1. PICK n \in 0 .. Len(queue[target]) :
            queue' = [queue EXCEPT ![target] =
                        Append(SubSeq(queue[target], n + 1, Len(queue[target])), packet)]
      BY <1>4 DEF Enqueue
    <2>2. /\ target \in Conns /\ life[target] \notin {"new", "naming"}
          /\ packet \in Packet /\ packet.kind \in {"named", "data"}
          /\ packet.kind = "named" => packet.ufrag = ufrag[target]
          /\ UNCHANGED <<life, ufrag, packet>>
      BY <1>4 DEF Enqueue, MuxInv, InHand, receiverRest, callers
    <2> DEFINE q == queue[target]
               kept == SubSeq(q, n + 1, Len(q))
    <2>3. /\ kept \in Seq(Packet)
          /\ \A i \in DOMAIN kept : \E k \in DOMAIN q : kept[i] = q[k]
      BY <2>2
    <2>4. queue' \in [Conns -> Seq(Packet)]
      BY <2>1, <2>2, <2>3
    <2>5. RequestsReachTheirPeer'
      <3> SUFFICES ASSUME NEW c \in Conns, NEW i \in DOMAIN queue'[c]
                   PROVE  /\ queue'[c][i].kind # "unnamed"
                          /\ queue'[c][i].kind = "named" => queue'[c][i].ufrag = ufrag'[c]
        OBVIOUS
      <3>1. CASE c # target
        BY <3>1, <2>1, <2>2
      <3>2. CASE c = target
        <4>1. queue'[c] = Append(kept, packet)
          BY <3>2, <2>1, <2>2
        <4>2. (i \in DOMAIN kept /\ queue'[c][i] = kept[i]) \/ queue'[c][i] = packet
          BY <4>1, <2>3
        <4> QED BY <4>2, <3>2, <2>2, <2>3
      <3> QED BY <3>1, <3>2
    <2> QED BY <2>1, <2>2, <2>4, <2>5
  <1>5. ASSUME NEW c \in Conns, PollReady(c) \/ PollPending(c) PROVE QueueInv'
    <2>1. CASE PollPending(c)
      BY <2>1 DEF PollPending, driverRest, callers, receiver
    <2>2. CASE PollReady(c)
      <3>1. /\ queue[c] # <<>> /\ queue' = [queue EXCEPT ![c] = Tail(queue[c])]
            /\ UNCHANGED <<life, ufrag, pc, packet>>
        BY <2>2 DEF PollReady, driverRest, callers, receiver
      <3>2. /\ Tail(queue[c]) \in Seq(Packet)
            /\ \A i \in DOMAIN Tail(queue[c]) :
                  i + 1 \in DOMAIN queue[c] /\ Tail(queue[c])[i] = queue[c][i + 1]
        BY <3>1
      <3>3. RequestsReachTheirPeer'
        <4> SUFFICES ASSUME NEW d \in Conns, NEW i \in DOMAIN queue'[d]
                     PROVE  /\ queue'[d][i].kind # "unnamed"
                            /\ queue'[d][i].kind = "named" => queue'[d][i].ufrag = ufrag'[d]
          OBVIOUS
        <4>1. CASE d = c
          BY <4>1, <3>1, <3>2
        <4>2. CASE d # c
          BY <4>2, <3>1
        <4> QED BY <4>1, <4>2
      <3> QED BY <3>1, <3>2, <3>3
    <2> QED BY <1>5, <2>1, <2>2
  <1>6. CASE UNCHANGED vars
    BY <1>6 DEF vars, queues, callers, receiver
  <1> QED BY <1>1, <1>2, <1>3, <1>4, <1>5, <1>6 DEF Next, RoutePacket

\* A STUN request never reaches a connection it does not name, whichever
\* addresses the connections share and however a ufrag changes hands.
THEOREM RequestsAreRoutedByName ==
    ASSUME MuxAssumption
    PROVE  Spec => []RequestsReachTheirPeer
  <1>1. QueueInv => RequestsReachTheirPeer
    BY DEF QueueInv
  <1> QED BY MuxInit, MuxStep, QueueInit, QueueStep, <1>1, PTL DEF Spec

(***************************************************************************)
(* Wake-ups.                                                               *)
(***************************************************************************)
WakeInv == NoLostWakeup /\ parked \in [Conns -> BOOLEAN]

LEMMA WakeStep == MuxInv /\ QueueInv /\ WakeInv /\ [Next]_vars => WakeInv'
  <1> SUFFICES ASSUME MuxInv, QueueInv, WakeInv, [Next]_vars PROVE WakeInv'
    OBVIOUS
  <1> USE DEF WakeInv, NoLostWakeup
  <1>0. queue \in [Conns -> Seq(Packet)]
    BY DEF QueueInv
  <1>1. ASSUME NEW c \in Conns, Caller(c) PROVE WakeInv'
    <2>1. UNCHANGED <<queue, pc, target>>
      BY <1>1 DEF Caller, InsertRoute, InsertUfrag, RemoveRoute, RemoveUfrag, RemoveAddr,
         WakeDriver, callerRest, receiver, queues
    <2>2. parked' = parked \/ parked' = [parked EXCEPT ![c] = FALSE]
      BY <1>1 DEF Caller, InsertRoute, InsertUfrag, RemoveRoute, RemoveUfrag, RemoveAddr,
         WakeDriver, callerRest, queues
    <2> QED BY <2>1, <2>2
  <1>2. ASSUME NEW p \in Packet, Receive(p) PROVE WakeInv'
    BY <1>2 DEF Receive, queues
  <1>3. CASE RouteGone \/ LearnAddr \/ UpdateAddrs \/ StopReceiving
    BY <1>3 DEF RouteGone, LearnAddr, UpdateAddrs, StopReceiving, queues
  <1>4. CASE Enqueue
    <2>1. /\ pc = "enqueue" /\ pc' = "wake" /\ UNCHANGED <<parked, target>>
          /\ \A c \in Conns : c # target => queue'[c] = queue[c]
      BY <1>0, <1>4 DEF Enqueue
    <2> QED BY <2>1
  <1>5. CASE Wake
    BY <1>5 DEF Wake, MuxInv, InHand
  <1>6. ASSUME NEW c \in Conns, PollReady(c) \/ PollPending(c) PROVE WakeInv'
    <2>1. UNCHANGED <<pc, target>> /\ \A d \in Conns : d # c => queue'[d] = queue[d]
      BY <1>0, <1>6 DEF PollReady, PollPending, driverRest, receiver
    <2>2. \/ parked' = [parked EXCEPT ![c] = FALSE]
          \/ parked' = [parked EXCEPT ![c] = TRUE] /\ queue'[c] = <<>>
      BY <1>6 DEF PollReady, PollPending
    <2> QED BY <2>1, <2>2
  <1>7. CASE UNCHANGED vars
    BY <1>7 DEF vars, queues, receiver
  <1> QED BY <1>1, <1>2, <1>3, <1>4, <1>5, <1>6, <1>7 DEF Next, RoutePacket

\* Whatever happens between a driver's last look at its queue and the next
\* datagram, the driver is woken for every datagram.
THEOREM WakeupsAreNotLost ==
    ASSUME MuxAssumption
    PROVE  Spec => []NoLostWakeup
  <1>1. Init => WakeInv
    BY DEF Init, WakeInv, NoLostWakeup
  <1>2. WakeInv => NoLostWakeup
    BY DEF WakeInv
  <1> QED BY MuxInit, MuxStep, QueueInit, QueueStep, WakeStep, <1>1, <1>2, PTL DEF Spec

(***************************************************************************)
(* The limits of the queues. First, the sizes of the packets of a queue.   *)
(***************************************************************************)
Lengths(q) == [i \in DOMAIN q |-> q[i].size]

LEMMA PacketSize ==
    ASSUME MuxAssumption, NEW p \in Packet
    PROVE  p.size \in Nat /\ p.size <= MaxBytes
  <1>1. p.size \in Sizes
    BY DEF Packet
  <1>2. Sizes \subseteq 1 .. MaxBytes /\ MaxBytes \in Nat
    BY DEF MuxAssumption, SizesAssumption
  <1>3. p.size \in 1 .. MaxBytes
    BY <1>1, <1>2
  <1> QED BY <1>2, <1>3

LEMMA LengthsType ==
    ASSUME MuxAssumption, NEW q \in Seq(Packet)
    PROVE  /\ Lengths(q) \in Seq(Nat) /\ Len(Lengths(q)) = Len(q)
           /\ \A i \in 1 .. Len(q) : Lengths(q)[i] = q[i].size /\ q[i].size \in Nat
           /\ SizeOf(q) = Total(Lengths(q)) /\ SizeOf(q) \in Nat
  <1>1. \A i \in 1 .. Len(q) : q[i].size \in Nat
    <2>1. \A i \in 1 .. Len(q) : q[i] \in Packet
      OBVIOUS
    <2> QED BY <2>1, PacketSize
  <1>2. /\ Lengths(q) \in Seq(Nat) /\ Len(Lengths(q)) = Len(q)
        /\ \A i \in 1 .. Len(q) : Lengths(q)[i] = q[i].size
    BY <1>1 DEF Lengths
  <1>3. SizeOf(q) = Total(Lengths(q))
    BY DEF SizeOf, Lengths
  <1>4. Total(Lengths(q)) \in Nat
    BY <1>2, TotalType
  <1> QED BY <1>1, <1>2, <1>3, <1>4

LEMMA SizeOfEmpty == SizeOf(<<>>) = 0
  <1>1. [i \in DOMAIN <<>> |-> <<>>[i].size] = <<>>
    OBVIOUS
  <1> QED BY <1>1, TotalEmpty DEF SizeOf

LEMMA SizeOfAppend ==
    ASSUME MuxAssumption, NEW q \in Seq(Packet), NEW p \in Packet
    PROVE  SizeOf(Append(q, p)) = SizeOf(q) + p.size
  <1> DEFINE r == Append(q, p)
  <1>1. /\ r \in Seq(Packet) /\ Len(r) = Len(q) + 1 /\ p.size \in Nat
        /\ \A i \in 1 .. Len(q) : r[i] = q[i]
        /\ r[Len(q) + 1] = p
    BY AppendProperties, PacketSize
  <1> HIDE DEF r
  <1>2. Lengths(r) = Append(Lengths(q), p.size)
    <2> DEFINE t == Append(Lengths(q), p.size)
    <2>1. t \in Seq(Nat) /\ Len(t) = Len(q) + 1 /\ t[Len(q) + 1] = p.size
          /\ \A i \in 1 .. Len(q) : t[i] = Lengths(q)[i]
      BY <1>1, LengthsType, AppendProperties
    <2>2. Lengths(r) \in Seq(Nat) /\ Len(Lengths(r)) = Len(r)
          /\ \A i \in 1 .. Len(r) : Lengths(r)[i] = r[i].size
      BY <1>1, LengthsType
    <2>3. \A i \in 1 .. Len(q) : Lengths(q)[i] = q[i].size
      BY LengthsType
    <2> HIDE DEF t
    <2>4. Len(q) \in Nat
      OBVIOUS
    <2>5. ASSUME NEW i \in 1 .. Len(r) PROVE Lengths(r)[i] = t[i]
      <3>1. Lengths(r)[i] = r[i].size
        BY <2>2
      <3>2. i \in 1 .. Len(q) \/ i = Len(q) + 1
        BY <1>1, <2>4
      <3>3. CASE i \in 1 .. Len(q)
        BY <1>1, <2>1, <2>3, <3>1, <3>3
      <3>4. CASE i = Len(q) + 1
        BY <1>1, <2>1, <3>1, <3>4
      <3> QED BY <3>2, <3>3, <3>4
    <2>6. Lengths(r) = t
      BY <1>1, <2>1, <2>2, <2>5, SeqEqual
    <2> QED BY <2>6 DEF t
  <1>3. Lengths(q) \in Seq(Int) /\ p.size \in Int
    BY <1>1, LengthsType
  <1>4. Total(Lengths(r)) = Total(Lengths(q)) + p.size
    BY <1>2, <1>3, TotalAppend
  <1> QED BY <1>1, <1>4, LengthsType DEF r

LEMMA SizeOfSplit ==
    ASSUME MuxAssumption, NEW q \in Seq(Packet), NEW n \in 0 .. Len(q)
    PROVE  /\ SubSeq(q, 1, n) \in Seq(Packet) /\ SubSeq(q, n + 1, Len(q)) \in Seq(Packet)
           /\ SizeOf(q) = SizeOf(SubSeq(q, 1, n)) + SizeOf(SubSeq(q, n + 1, Len(q)))
  <1> DEFINE front == SubSeq(q, 1, n)
             rest  == SubSeq(q, n + 1, Len(q))
             lens  == Lengths(q)
  <1>1. /\ front \in Seq(Packet) /\ Len(front) = n /\ \A i \in 1 .. n : front[i] = q[i]
        /\ rest \in Seq(Packet) /\ Len(rest) = Len(q) - n
        /\ \A i \in 1 .. Len(q) - n : rest[i] = q[n + i]
        /\ Len(q) \in Nat
    OBVIOUS
  <1>2. /\ lens \in Seq(Nat) /\ Len(lens) = Len(q)
        /\ \A i \in 1 .. Len(q) : lens[i] = q[i].size
    BY LengthsType
  <1> HIDE DEF front, rest, lens
  <1>3. Lengths(front) = SubSeq(lens, 1, n)
    <2> DEFINE t == SubSeq(lens, 1, n)
    <2>1. t \in Seq(Nat) /\ Len(t) = n /\ \A i \in 1 .. n : t[i] = lens[i]
      BY <1>2
    <2>2. Lengths(front) \in Seq(Nat) /\ Len(Lengths(front)) = n
          /\ \A i \in 1 .. n : Lengths(front)[i] = front[i].size
      BY <1>1, LengthsType
    <2> HIDE DEF t
    <2>3. ASSUME NEW i \in 1 .. n PROVE Lengths(front)[i] = t[i]
      <3>1. i \in 1 .. Len(q)
        BY <1>1
      <3>2. Lengths(front)[i] = front[i].size /\ front[i] = q[i] /\ t[i] = lens[i]
        BY <1>1, <2>1, <2>2
      <3> QED BY <1>2, <3>1, <3>2
    <2>4. Lengths(front) = t
      BY <2>1, <2>2, <2>3, SeqEqual
    <2> QED BY <2>4 DEF t
  <1>4. Lengths(rest) = SubSeq(lens, n + 1, Len(lens))
    <2> DEFINE t == SubSeq(lens, n + 1, Len(lens))
               m == Len(q) - n
    <2>1. t \in Seq(Nat) /\ Len(t) = m /\ \A i \in 1 .. m : t[i] = lens[n + i]
      <3>1. n \in 0 .. Len(lens) /\ Len(lens) \in Nat
        BY <1>1, <1>2
      <3>2. t \in Seq(Nat) /\ Len(t) = Len(lens) - n
            /\ \A i \in 1 .. Len(lens) - n : t[i] = lens[n + i]
        BY <1>2, <3>1, SMTT(20)
      <3> QED BY <1>2, <3>2
    <2>2. Lengths(rest) \in Seq(Nat) /\ Len(Lengths(rest)) = m
          /\ \A i \in 1 .. m : Lengths(rest)[i] = rest[i].size
      BY <1>1, LengthsType
    <2> HIDE DEF t
    <2>3. \A i \in 1 .. m : n + i \in 1 .. Len(q)
      BY <1>1
    <2>4. ASSUME NEW i \in 1 .. m PROVE Lengths(rest)[i] = t[i]
      <3>1. Lengths(rest)[i] = rest[i].size /\ rest[i] = q[n + i] /\ t[i] = lens[n + i]
        BY <1>1, <2>1, <2>2
      <3> QED BY <1>2, <2>3, <3>1
    <2>5. Lengths(rest) = t
      BY <2>1, <2>2, <2>4, SeqEqual
    <2> QED BY <2>5 DEF t
  <1>5. Total(lens) = Total(Lengths(front)) + Total(Lengths(rest))
    <2>1. lens \in Seq(Int) /\ n \in 0 .. Len(lens)
      BY <1>2
    <2> QED BY <1>3, <1>4, <2>1, TotalSplit
  <1>6. SizeOf(q) = Total(lens) /\ SizeOf(front) = Total(Lengths(front))
        /\ SizeOf(rest) = Total(Lengths(rest))
    BY <1>1, LengthsType DEF lens
  <1>7. SizeOf(q) = SizeOf(front) + SizeOf(rest)
    BY <1>5, <1>6
  <1> QED BY <1>1, <1>7 DEF front, rest

LEMMA SizeOfTail ==
    ASSUME MuxAssumption, NEW q \in Seq(Packet), q # <<>>
    PROVE  /\ Head(q) \in Packet /\ Tail(q) \in Seq(Packet) /\ Len(Tail(q)) = Len(q) - 1
           /\ SizeOf(q) = Head(q).size + SizeOf(Tail(q))
  <1>1. /\ Len(q) \in Nat /\ Len(q) >= 1 /\ Head(q) = q[1] /\ q[1] \in Packet
        /\ Tail(q) \in Seq(Packet) /\ Len(Tail(q)) = Len(q) - 1
        /\ \A i \in 1 .. Len(q) - 1 : Tail(q)[i] = q[i + 1]
    OBVIOUS
  <1> DEFINE lens == Lengths(q)
  <1>2. /\ lens \in Seq(Nat) /\ Len(lens) = Len(q)
        /\ \A i \in 1 .. Len(q) : lens[i] = q[i].size
    BY LengthsType
  <1> HIDE DEF lens
  <1>3. lens # <<>> /\ Head(lens) = q[1].size
    BY <1>1, <1>2
  <1>4. Lengths(Tail(q)) = Tail(lens)
    <2> DEFINE m == Len(q) - 1
    <2>1. Tail(lens) \in Seq(Nat) /\ Len(Tail(lens)) = m
          /\ \A i \in 1 .. m : Tail(lens)[i] = lens[i + 1]
      BY <1>1, <1>2, <1>3
    <2>2. Lengths(Tail(q)) \in Seq(Nat) /\ Len(Lengths(Tail(q))) = m
          /\ \A i \in 1 .. m : Lengths(Tail(q))[i] = Tail(q)[i].size
      BY <1>1, LengthsType
    <2>3. \A i \in 1 .. m : i + 1 \in 1 .. Len(q)
      BY <1>1
    <2>4. \A i \in 1 .. m : Lengths(Tail(q))[i] = Tail(lens)[i]
      BY <1>1, <1>2, <2>1, <2>2, <2>3
    <2> QED BY <2>1, <2>2, <2>4, SeqEqual
  <1>5. Total(lens) = Head(lens) + Total(Tail(lens))
    <2>1. lens \in Seq(Int)
      BY <1>2
    <2> QED BY <1>3, <2>1, TotalTail
  <1>6. SizeOf(q) = Total(lens) /\ SizeOf(Tail(q)) = Total(Lengths(Tail(q)))
    BY <1>1, LengthsType DEF lens
  <1> QED BY <1>1, <1>3, <1>4, <1>5, <1>6
\* The counter of a queue and its limits, and what the packet in hand may be.
LedgerInv == bytes \in [Conns -> Nat] /\ QueueWithinLimits

LEMMA LedgerInit == MuxAssumption /\ Init => LedgerInv
  BY SizeOfEmpty DEF MuxAssumption, SizesAssumption, Init, LedgerInv, QueueWithinLimits

LEMMA EnqueueKeepsLimits ==
    ASSUME MuxAssumption, MuxInv, QueueInv, LedgerInv, Enqueue
    PROVE  LedgerInv'
  <1> DEFINE q == queue[target]
             kept(n) == SubSeq(q, n + 1, Len(q))
             gone(n) == SubSeq(q, 1, n)
  <1>1. PICK n \in 0 .. Len(q) :
          /\ Fits(kept(n))
          /\ queue' = [queue EXCEPT ![target] = Append(kept(n), packet)]
          /\ bytes' = [bytes EXCEPT ![target] = bytes[target] - SizeOf(gone(n)) + packet.size]
    BY DEF Enqueue
  <1>2. /\ target \in Conns /\ packet \in Packet /\ q \in Seq(Packet)
        /\ queue \in [Conns -> Seq(Packet)] /\ bytes \in [Conns -> Nat]
    BY DEF Enqueue, MuxInv, InHand, QueueInv, LedgerInv
  <1>3. packet.size \in Nat /\ MaxBytes \in Nat /\ MaxPackets \in Nat
    BY <1>2, PacketSize DEF MuxAssumption, SizesAssumption
  <1>4. /\ kept(n) \in Seq(Packet) /\ gone(n) \in Seq(Packet)
        /\ SizeOf(q) = SizeOf(gone(n)) + SizeOf(kept(n))
    BY <1>2, SizeOfSplit
  <1>5. SizeOf(kept(n)) \in Nat /\ SizeOf(gone(n)) \in Nat /\ Len(kept(n)) \in Nat
    <2>1. \A r \in Seq(Packet) : SizeOf(r) \in Nat /\ Len(r) \in Nat
      BY LengthsType
    <2> HIDE DEF kept, gone
    <2> QED BY <1>4, <2>1
  <1>6. bytes[target] = SizeOf(q)
    BY <1>2 DEF LedgerInv, QueueWithinLimits
  <1>7. Len(kept(n)) < MaxPackets /\ SizeOf(kept(n)) + packet.size <= MaxBytes
    BY <1>1 DEF Fits
  <1>8. SizeOf(Append(kept(n), packet)) = SizeOf(kept(n)) + packet.size
        /\ Len(Append(kept(n), packet)) = Len(kept(n)) + 1
    <2> HIDE DEF kept, gone
    <2> QED BY <1>2, <1>4, SizeOfAppend, AppendProperties
  <1> DEFINE stay == SizeOf(kept(n))
             size == packet.size
  <1>9. bytes'[target] = stay + size
    <2> DEFINE left == SizeOf(gone(n))
               all  == SizeOf(q)
    <2>1. bytes'[target] = all - left + size /\ all = left + stay
      BY <1>1, <1>2, <1>4, <1>6
    <2>2. left \in Nat /\ stay \in Nat /\ size \in Nat
      BY <1>3, <1>5
    <2> HIDE DEF left, all, stay, size
    <2> QED BY <2>1, <2>2
  <1>10. queue'[target] = Append(kept(n), packet)
    BY <1>1, <1>2
  <1>11. \A c \in Conns : c # target => queue'[c] = queue[c] /\ bytes'[c] = bytes[c]
    BY <1>1, <1>2
  <1> HIDE DEF kept, gone
  <1>12. bytes'[target] \in Nat
    BY <1>3, <1>5, <1>9
  <1>13. bytes' \in [Conns -> Nat]
    <2>1. \A c \in Conns : bytes'[c] \in Nat
      BY <1>2, <1>11, <1>12
    <2>2. bytes' = [c \in Conns |-> bytes'[c]]
      BY <1>1, <1>2
    <2> QED BY <2>1, <2>2
  <1>14. /\ bytes'[target] = SizeOf(queue'[target]) /\ bytes'[target] <= MaxBytes
         /\ Len(queue'[target]) <= MaxPackets
    BY <1>3, <1>5, <1>7, <1>8, <1>9, <1>10
  <1> QED BY <1>11, <1>13, <1>14 DEF LedgerInv, QueueWithinLimits

LEMMA PollKeepsLimits ==
    ASSUME MuxAssumption, QueueInv, LedgerInv, NEW c \in Conns, PollReady(c)
    PROVE  LedgerInv'
  <1> DEFINE q == queue[c]
  <1>1. /\ q # <<>> /\ q \in Seq(Packet) /\ queue \in [Conns -> Seq(Packet)]
        /\ bytes \in [Conns -> Nat] /\ Len(q) \in Nat
    BY DEF PollReady, QueueInv, LedgerInv
  <1>2. /\ queue' = [queue EXCEPT ![c] = Tail(q)]
        /\ bytes' = [bytes EXCEPT ![c] = bytes[c] - Head(q).size]
    BY DEF PollReady
  <1>3. /\ Head(q) \in Packet /\ Tail(q) \in Seq(Packet) /\ Len(Tail(q)) = Len(q) - 1
        /\ SizeOf(q) = Head(q).size + SizeOf(Tail(q))
    BY <1>1, SizeOfTail
  <1>4. SizeOf(Tail(q)) \in Nat /\ Head(q).size \in Nat /\ MaxBytes \in Nat /\ MaxPackets \in Nat
    BY <1>3, LengthsType, PacketSize DEF MuxAssumption, SizesAssumption
  <1>5. bytes[c] = SizeOf(q) /\ bytes[c] <= MaxBytes /\ Len(q) <= MaxPackets
    BY DEF LedgerInv, QueueWithinLimits
  <1>6. queue'[c] = Tail(q) /\ bytes'[c] = bytes[c] - Head(q).size
    BY <1>1, <1>2
  <1>7. \A d \in Conns : d # c => queue'[d] = queue[d] /\ bytes'[d] = bytes[d]
    BY <1>1, <1>2
  <1> DEFINE first == Head(q).size
             rest  == SizeOf(Tail(q))
  <1>8. bytes'[c] = rest /\ rest <= MaxBytes
    <2>1. bytes'[c] = (first + rest) - first /\ first + rest <= MaxBytes
      BY <1>3, <1>5, <1>6
    <2>2. first \in Nat /\ rest \in Nat
      BY <1>4
    <2> HIDE DEF first, rest
    <2> QED BY <1>4, <2>1, <2>2
  <1>9. bytes' \in [Conns -> Nat]
    <2>1. \A d \in Conns : bytes'[d] \in Nat
      BY <1>1, <1>4, <1>7, <1>8
    <2>2. bytes' = [d \in Conns |-> bytes'[d]]
      BY <1>1, <1>2
    <2> QED BY <2>1, <2>2
  <1>10. /\ bytes'[c] = SizeOf(queue'[c]) /\ bytes'[c] <= MaxBytes /\ Len(queue'[c]) <= MaxPackets
    BY <1>1, <1>3, <1>4, <1>5, <1>6, <1>8
  <1> QED BY <1>7, <1>9, <1>10 DEF LedgerInv, QueueWithinLimits

LEMMA LedgerStep ==
    MuxAssumption /\ MuxInv /\ QueueInv /\ LedgerInv /\ [Next]_vars => LedgerInv'
  <1> SUFFICES ASSUME MuxAssumption, MuxInv, QueueInv, LedgerInv, [Next]_vars PROVE LedgerInv'
    OBVIOUS
  <1>1. UNCHANGED <<queue, bytes>> => LedgerInv'
    BY DEF LedgerInv, QueueWithinLimits
  <1>2. ASSUME NEW c \in Conns, Caller(c) PROVE UNCHANGED <<queue, bytes>>
    BY <1>2 DEF Caller, InsertRoute, InsertUfrag, RemoveRoute, RemoveUfrag, RemoveAddr,
       WakeDriver, callerRest, queues
  <1>3. ASSUME NEW p \in Packet, Receive(p) PROVE UNCHANGED <<queue, bytes>>
    BY <1>3 DEF Receive, queues
  <1>4. ASSUME RouteGone \/ LearnAddr \/ UpdateAddrs \/ Wake \/ StopReceiving
        PROVE  UNCHANGED <<queue, bytes>>
    BY <1>4 DEF RouteGone, LearnAddr, UpdateAddrs, Wake, StopReceiving, queues
  <1>5. CASE Enqueue
    BY <1>5, EnqueueKeepsLimits
  <1>6. ASSUME NEW c \in Conns, PollReady(c) PROVE LedgerInv'
    BY <1>6, PollKeepsLimits
  <1>7. ASSUME NEW c \in Conns, PollPending(c) PROVE UNCHANGED <<queue, bytes>>
    BY <1>7 DEF PollPending
  <1>8. CASE UNCHANGED vars
    BY <1>1, <1>8 DEF vars, queues
  <1> QED BY <1>1, <1>2, <1>3, <1>4, <1>5, <1>6, <1>7, <1>8 DEF Next, RoutePacket

\* udp_mux.rs:276-303. The byte counter of a queue is the size of what is in it, and
\* neither limit is exceeded, for any limits and any sizes of the datagrams.
THEOREM QueuesKeepTheirLimits ==
    ASSUME MuxAssumption
    PROVE  Spec => []QueueWithinLimits
  <1>1. LedgerInv => QueueWithinLimits
    BY DEF LedgerInv
  <1> QED BY MuxInit, MuxStep, QueueInit, QueueStep, LedgerInit, LedgerStep, <1>1, PTL DEF Spec

(***************************************************************************)
(* Types.                                                                  *)
(***************************************************************************)
\* What the receiver holds.
ReceiverTyped ==
    /\ pc \in {"idle", "identified", "learned", "enqueue", "wake", "stopped"}
    /\ target \in Conns \cup {None} /\ previous \in Addrs \cup {None}
    /\ received \in Nat

LEMMA ReceiverInit == Init => ReceiverTyped
  BY DEF Init, ReceiverTyped

LEMMA ReceiverStep ==
    MuxAssumption /\ MuxInv /\ ReceiverTyped /\ [Next]_vars => ReceiverTyped'
  <1> SUFFICES ASSUME MuxAssumption, MuxInv, ReceiverTyped, [Next]_vars PROVE ReceiverTyped'
    OBVIOUS
  <1> USE DEF ReceiverTyped
  <1>1. UNCHANGED receiver => ReceiverTyped'
    BY DEF receiver
  <1>2. ASSUME NEW c \in Conns, Caller(c) \/ PollReady(c) \/ PollPending(c)
        PROVE  UNCHANGED receiver
    BY <1>2 DEF Caller, InsertRoute, InsertUfrag, RemoveRoute, RemoveUfrag, RemoveAddr,
       WakeDriver, PollReady, PollPending, callerRest, driverRest
  <1>3. ASSUME NEW p \in Packet, Receive(p) PROVE ReceiverTyped'
    <2>1. Identify(p) \in Conns \cup {None}
      BY PacketFields DEF MuxAssumption, NoneAssumption, Identify, MuxInv, Typed
    <2> QED BY <1>3, <2>1 DEF Receive
  <1>4. CASE RouteGone \/ Enqueue \/ Wake \/ UpdateAddrs \/ StopReceiving
    BY <1>4 DEF RouteGone, Enqueue, Wake, UpdateAddrs, StopReceiving
  <1>5. CASE LearnAddr
    BY <1>5 DEF LearnAddr, MuxInv, Typed, InHand
  <1>6. CASE UNCHANGED vars
    BY <1>1, <1>6 DEF vars
  <1> QED BY <1>1, <1>2, <1>3, <1>4, <1>5, <1>6 DEF Next, RoutePacket

\* udp_mux.rs. Every field and local keeps its type; usize is Nat, so the byte
\* counter of a queue never underflows.
THEOREM TypeCorrect ==
    ASSUME MuxAssumption
    PROVE  Spec => []TypeOK
  <1>1. Init => WakeInv
    BY DEF Init, WakeInv, NoLostWakeup
  <1>2. MuxInv /\ QueueInv /\ WakeInv /\ LedgerInv /\ ReceiverTyped => TypeOK
    BY DEF MuxInv, Typed, Lives, QueueInv, WakeInv, LedgerInv, ReceiverTyped, TypeOK
  <1> QED BY MuxInit, MuxStep, QueueInit, QueueStep, WakeStep, LedgerInit, LedgerStep,
             ReceiverInit, ReceiverStep, <1>1, <1>2, PTL DEF Spec
==============================================================================
