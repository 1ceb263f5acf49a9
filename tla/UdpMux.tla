-------------------------------- MODULE UdpMux --------------------------------
(***************************************************************************)
(* The UDP mux of src/udp_mux.rs: one shared socket, the three tables that  *)
(* route a datagram to the peer connection it is for, and the bounded queue *)
(* each connection's driver polls.                                         *)
(*                                                                         *)
(*   receiver  receive_loop, the only reader of the socket                 *)
(*   caller    the offer that creates a connection's endpoint() and whoever *)
(*             closes it through unregister()                              *)
(*   driver    the task that polls the endpoint, poll_recv                 *)
(*                                                                         *)
(* One action is one critical section of one of the mutexes: routes,       *)
(* by_remote_ufrag, by_remote_addr, Route.remote_addr and the queue of an  *)
(* endpoint. The mutex of routes is also held over several of them.        *)
(***************************************************************************)
EXTENDS Integers, Sequences, Sums

CONSTANTS
    Conns,          \* connection ids; one offer uses each, they are never reused
    Addrs,          \* remote socket addresses
    Ufrags,         \* ICE username fragments of the peers
    Sizes,          \* lengths of datagrams
    MaxPackets,     \* MAX_QUEUED_PACKETS
    MaxBytes,       \* MAX_QUEUED_BYTES
    MaxReceived,    \* bound on the datagrams received
    None            \* no connection, address or ufrag

\* No datagram of the 64 KiB receive buffer exceeds MAX_QUEUED_BYTES.
SizesAssumption ==
    /\ MaxPackets \in Nat \ {0} /\ MaxBytes \in Nat /\ MaxReceived \in Nat
    /\ Sizes \subseteq 1 .. MaxBytes
NoneAssumption == None \notin Conns \cup Addrs \cup Ufrags

\* Assumed of the constants.
MuxAssumption == SizesAssumption /\ NoneAssumption

VARIABLES
    routes,         \* UdpMux.routes: the registered connections
    byUfrag,        \* UdpMux.by_remote_ufrag
    byAddr,         \* UdpMux.by_remote_addr
    remoteAddr,     \* Route.remote_addr
    queue, bytes,   \* EndpointQueue
    parked,         \* the driver waits for its registered waker
    life, ufrag,    \* a connection: where its caller is, and the ufrag it offered
    pc, packet, target, previous,   \* the receiver and its locals
    received,       \* what the bound counts
    claimed         \* history: who last named itself in a request from an address

tables   == <<routes, byUfrag, byAddr, remoteAddr>>
queues   == <<queue, bytes, parked>>
callers  == <<life, ufrag>>
receiver == <<pc, packet, target, previous, received>>
vars     == <<tables, queues, callers, receiver, claimed>>

(***************************************************************************)
(* Datagrams. A "named" one is STUN with a USERNAME, and names the peer that *)
(* the ufrag is of; an "unnamed" one is a STUN request without one, or      *)
(* malformed; "data" is a STUN response or not STUN at all.                *)
(***************************************************************************)
Packet == [kind : {"named"}, ufrag : Ufrags, from : Addrs, size : Sizes]
     \cup [kind : {"unnamed", "data"}, ufrag : {None}, from : Addrs, size : Sizes]

NoPacket == [kind |-> "data", ufrag |-> None, from |-> None, size |-> 0]

SizeOf(q) == Total([i \in DOMAIN q |-> q[i].size])

\* Mutant: the routes are not locked while an address is learned.
RoutesUnlocked == FALSE

\* route_packet holds the mutex of routes.
RoutesLocked == pc \in {"learned", "enqueue", "wake"}

\* Mutant: a STUN packet without a route falls back to the address.
IdentifyFallingBack(p) ==
    IF p.kind = "named" /\ byUfrag[p.ufrag] # None THEN byUfrag[p.ufrag]
    ELSE byAddr[p.from]

\* identify_packet
Identify(p) ==
    CASE p.kind = "named"   -> byUfrag[p.ufrag]
      [] p.kind = "unnamed" -> None
      [] p.kind = "data"    -> byAddr[p.from]

(***************************************************************************)
(* endpoint(), one call for each connection.                               *)
(***************************************************************************)
callerRest == <<byAddr, remoteAddr, queue, bytes, receiver, claimed>>

InsertRoute(c) ==
    /\ life[c] = "new"
    /\ ~RoutesLocked
    /\ routes' = routes \cup {c}
    /\ \E u \in Ufrags : ufrag' = [ufrag EXCEPT ![c] = u]
    /\ life' = [life EXCEPT ![c] = "naming"]
    /\ UNCHANGED <<byUfrag, parked, callerRest>>

\* A ufrag another connection has registered is taken over.
InsertUfrag(c) ==
    /\ life[c] = "naming"
    /\ byUfrag' = [byUfrag EXCEPT ![ufrag[c]] = c]
    /\ life' = [life EXCEPT ![c] = "open"]
    /\ UNCHANGED <<routes, parked, ufrag, callerRest>>

(***************************************************************************)
(* unregister(); a second caller finds no route and does nothing.          *)
(***************************************************************************)
RemoveRoute(c) ==
    /\ life[c] = "open"
    /\ ~RoutesLocked
    /\ routes' = routes \ {c}
    /\ life' = [life EXCEPT ![c] = "unnaming"]
    /\ UNCHANGED <<byUfrag, parked, ufrag, callerRest>>

RemoveUfrag(c) ==
    /\ life[c] = "unnaming"
    /\ byUfrag' = [u \in Ufrags |-> IF byUfrag[u] = c THEN None ELSE byUfrag[u]]
    /\ life' = [life EXCEPT ![c] = "forgetting"]
    /\ UNCHANGED <<routes, parked, ufrag, callerRest>>

\* Mutant: the learned address is removed whoever has claimed it since.
RemoveAnyAddr(c) ==
    /\ life[c] = "forgetting"
    /\ byAddr' = [a \in Addrs |-> IF a = remoteAddr[c] THEN None ELSE byAddr[a]]
    /\ life' = [life EXCEPT ![c] = "waking"]
    /\ UNCHANGED <<routes, byUfrag, remoteAddr, queues, ufrag, receiver, claimed>>

RemoveAddr(c) ==
    /\ life[c] = "forgetting"
    /\ byAddr' = [a \in Addrs |-> IF a = remoteAddr[c] /\ byAddr[a] = c THEN None
                                  ELSE byAddr[a]]
    /\ life' = [life EXCEPT ![c] = "waking"]
    /\ UNCHANGED <<routes, byUfrag, remoteAddr, queues, ufrag, receiver, claimed>>

WakeDriver(c) ==
    /\ life[c] = "waking"
    /\ parked' = [parked EXCEPT ![c] = FALSE]
    /\ life' = [life EXCEPT ![c] = "closed"]
    /\ UNCHANGED <<routes, byUfrag, ufrag, callerRest>>

(***************************************************************************)
(* receive_loop, route_packet and enqueue.                                 *)
(***************************************************************************)
receiverRest == <<routes, byUfrag, callers>>

Receive(p) ==
    /\ pc = "idle"
    /\ received < MaxReceived
    /\ received' = received + 1
    /\ IF Identify(p) = None
       THEN UNCHANGED <<pc, packet, target>>
       ELSE pc' = "identified" /\ packet' = p /\ target' = Identify(p)
    /\ UNCHANGED <<byAddr, remoteAddr, queues, previous, claimed, receiverRest>>

\* The socket fails for good, or the mux is dropped.
StopReceiving ==
    /\ pc = "idle"
    /\ pc' = "stopped"
    /\ UNCHANGED <<byAddr, remoteAddr, queues, packet, target, previous, received,
                   claimed, receiverRest>>

\* The connection was unregistered since the packet was identified.
RouteGone ==
    /\ pc = "identified"
    /\ target \notin routes
    /\ pc' = "idle" /\ packet' = NoPacket /\ target' = None
    /\ UNCHANGED <<byAddr, remoteAddr, queues, previous, received, claimed, receiverRest>>

LearnAddr ==
    /\ pc = "identified"
    /\ target \in routes
    /\ previous' = remoteAddr[target]
    /\ remoteAddr' = [remoteAddr EXCEPT ![target] = packet.from]
    /\ pc' = "learned"
    /\ UNCHANGED <<byAddr, queues, packet, target, received, claimed, receiverRest>>

UpdateAddrs ==
    /\ pc = "learned"
    /\ byAddr' = [a \in Addrs |->
                    CASE a = packet.from -> target
                      [] a # packet.from /\ a = previous /\ byAddr[a] = target -> None
                      [] OTHER -> byAddr[a]]
    /\ claimed' = IF packet.kind = "named"
                  THEN [claimed EXCEPT ![packet.from] = target] ELSE claimed
    /\ previous' = None
    /\ pc' = "enqueue"
    /\ UNCHANGED <<remoteAddr, queues, packet, target, received, receiverRest>>

\* The condition the while loop of enqueue establishes.
Fits(kept) == Len(kept) < MaxPackets /\ SizeOf(kept) + packet.size <= MaxBytes

\* The oldest packets go until the new one fits.
Enqueue ==
    /\ pc = "enqueue"
    /\ LET q == queue[target]
           kept(n) == SubSeq(q, n + 1, Len(q))
       IN \E n \in 0 .. Len(q) :
            /\ Fits(kept(n)) /\ \A m \in 0 .. n - 1 : ~Fits(kept(m))
            /\ queue' = [queue EXCEPT ![target] = Append(kept(n), packet)]
            /\ bytes' = [bytes EXCEPT ![target] = @ - SizeOf(SubSeq(q, 1, n)) + packet.size]
    /\ pc' = "wake"
    /\ UNCHANGED <<byAddr, remoteAddr, parked, packet, target, previous, received,
                   claimed, receiverRest>>

\* Mutant: the wake-up is forgotten.
WakeNobody ==
    /\ pc = "wake"
    /\ pc' = "idle" /\ packet' = NoPacket /\ target' = None
    /\ UNCHANGED <<byAddr, remoteAddr, queues, previous, received, claimed, receiverRest>>

Wake ==
    /\ pc = "wake"
    /\ parked' = [parked EXCEPT ![target] = FALSE]
    /\ pc' = "idle" /\ packet' = NoPacket /\ target' = None
    /\ UNCHANGED <<byAddr, remoteAddr, queue, bytes, previous, received, claimed,
                   receiverRest>>

(***************************************************************************)
(* poll_recv, under the mutex of the queue.                                *)
(***************************************************************************)
driverRest == <<tables, callers, receiver, claimed>>

\* A driver may also be polled for another reason than its waker.
PollReady(c) ==
    /\ queue[c] # <<>>
    /\ queue' = [queue EXCEPT ![c] = Tail(@)]
    /\ bytes' = [bytes EXCEPT ![c] = @ - Head(queue[c]).size]
    /\ parked' = [parked EXCEPT ![c] = FALSE]
    /\ UNCHANGED driverRest

PollPending(c) ==
    /\ queue[c] = <<>>
    /\ life[c] \notin {"new", "naming"}
    /\ parked' = [parked EXCEPT ![c] = TRUE]
    /\ UNCHANGED <<queue, bytes, driverRest>>

(***************************************************************************)
(* The specification.                                                      *)
(***************************************************************************)
Init ==
    /\ routes = {}
    /\ byUfrag = [u \in Ufrags |-> None] /\ byAddr = [a \in Addrs |-> None]
    /\ remoteAddr = [c \in Conns |-> None]
    /\ queue = [c \in Conns |-> <<>>] /\ bytes = [c \in Conns |-> 0]
    /\ parked = [c \in Conns |-> FALSE]
    /\ life = [c \in Conns |-> "new"] /\ ufrag = [c \in Conns |-> None]
    /\ pc = "idle" /\ packet = NoPacket /\ target = None /\ previous = None
    /\ received = 0
    /\ claimed = [a \in Addrs |-> None]

Caller(c) == InsertRoute(c) \/ InsertUfrag(c) \/ RemoveRoute(c) \/ RemoveUfrag(c)
             \/ RemoveAddr(c) \/ WakeDriver(c)
RoutePacket == RouteGone \/ LearnAddr \/ UpdateAddrs \/ Enqueue \/ Wake

Next ==
    \/ \E c \in Conns : Caller(c) \/ PollReady(c) \/ PollPending(c)
    \/ \E p \in Packet : Receive(p)
    \/ RoutePacket \/ StopReceiving

Spec == Init /\ [][Next]_vars

(***************************************************************************)
(* Properties.                                                             *)
(***************************************************************************)
\* Every variable has the type of the field or local it stands for; in
\* particular the byte counter of a queue never underflows.
TypeOK ==
    /\ routes \subseteq Conns
    /\ byUfrag \in [Ufrags -> Conns \cup {None}]
    /\ byAddr \in [Addrs -> Conns \cup {None}]
    /\ remoteAddr \in [Conns -> Addrs \cup {None}]
    /\ queue \in [Conns -> Seq(Packet)] /\ bytes \in [Conns -> Nat]
    /\ parked \in [Conns -> BOOLEAN]
    /\ life \in [Conns -> {"new", "naming", "open", "unnaming", "forgetting",
                           "waking", "closed"}]
    /\ ufrag \in [Conns -> Ufrags \cup {None}]
    /\ pc \in {"idle", "identified", "learned", "enqueue", "wake", "stopped"}
    /\ packet \in Packet \cup {NoPacket}
    /\ target \in Conns \cup {None} /\ previous \in Addrs \cup {None}
    /\ received \in Nat
    /\ claimed \in [Addrs -> Conns \cup {None}]

\* The byte counter of a queue is the size of its packets, and the queue keeps both
\* of its limits.
QueueWithinLimits ==
    \A c \in Conns :
        /\ bytes[c] = SizeOf(queue[c]) /\ bytes[c] <= MaxBytes
        /\ Len(queue[c]) <= MaxPackets

\* The address table is exactly what the requests have taught it: an address
\* leads to the connection that named itself last in a request from it, as long
\* as that connection is registered and has not moved on, whatever older
\* connections on the same address do or however they are closed.
AddressTableExact ==
    \A a \in Addrs, c \in Conns :
        LET learnt == remoteAddr[c] = a /\ claimed[a] = c
        IN pc # "learned" =>
            /\ byAddr[a] = c => learnt /\ life[c] \in {"open", "unnaming", "forgetting"}
            /\ c \in routes /\ learnt => byAddr[a] = c

\* When unregister() has returned no table leads to the connection any more, even
\* if a packet for it was being routed at the same time.
ClosedLeavesNothing ==
    \A c \in Conns : life[c] = "closed" =>
        /\ c \notin routes
        /\ \A u \in Ufrags : byUfrag[u] # c
        /\ \A a \in Addrs : byAddr[a] # c

\* A STUN request only ever reaches a connection whose peer it names; it never
\* inherits the route of its address.
RequestsReachTheirPeer ==
    \A c \in Conns : \A i \in DOMAIN queue[c] :
        LET p == queue[c][i] IN p.kind # "unnamed" /\ (p.kind = "named" => p.ufrag = ufrag[c])

\* No wake-up is lost: a driver that waits has an empty queue, or the receiver is
\* about to wake it.
NoLostWakeup ==
    \A c \in Conns : parked[c] /\ queue[c] # <<>> => pc = "wake" /\ target = c
==============================================================================
