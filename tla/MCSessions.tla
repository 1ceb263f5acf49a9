------------------------------ MODULE MCSessions ------------------------------
(***************************************************************************)
(* Model checking of a viewer's way to the server: the sessions that offers  *)
(* and sockets open, and the mux that the connections they create register   *)
(* with. A behaviour is one of the two running while the other waits in its  *)
(* initial state. Viewers, connections, addresses and ufrags are             *)
(* interchangeable.                                                        *)
(***************************************************************************)
EXTENDS Sessions, TLC

CONSTANTS Conns, Addrs, Ufrags, Sizes, MaxPackets, MaxBytes, MaxReceived    \* of UdpMux

VARIABLES
    part,       \* the machine that runs
    routes, byUfrag, byAddr, remoteAddr, queue, bytes, parked, life, ufrag,
    pc, packet, target, previous, received, claimed

Mux == INSTANCE UdpMux

mux    == <<routes, byUfrag, byAddr, remoteAddr, queue, bytes, parked, life, ufrag,
            pc, packet, target, previous, received, claimed>>
MCVars == <<part, vars, mux>>

Symmetry ==
    Permutations(Clients) \cup Permutations(Conns) \cup Permutations(Ufrags)
        \cup Permutations(Addrs)

MCInit ==
    /\ part \in {"sessions", "mux"} /\ Init /\ Mux!Init
    /\ part = "mux" => \A n \in Limits : limit <= n

MCNext ==
    \/ part = "sessions" /\ Next /\ UNCHANGED <<part, mux>>
    \/ part = "mux" /\ Mux!Next /\ UNCHANGED <<part, vars>>

MCSpec == MCInit /\ [][MCNext]_MCVars

\* What is assumed of the constants of the mux.
ASSUME MCAssumption == Mux!MuxAssumption

(***************************************************************************)
(* The properties of the mux.                                              *)
(***************************************************************************)
\* The table of addresses is exact.
AddressTableExact == Mux!AddressTableExact
\* A connection that was unregistered leaves nothing behind.
ClosedLeavesNothing == Mux!ClosedLeavesNothing
\* A request reaches the peer it names.
RequestsReachTheirPeer == Mux!RequestsReachTheirPeer
\* A driver that waits has nothing to take.
NoLostWakeup == Mux!NoLostWakeup
==============================================================================
