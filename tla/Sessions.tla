------------------------------- MODULE Sessions -------------------------------
(***************************************************************************)
(* Viewer sessions and offers of src/server.rs: control sockets, the peer   *)
(* connections that offers negotiate, and the revocation of both when the   *)
(* sharing token changes.                                                  *)
(*                                                                         *)
(*   socket    control_connect and handle_control_disconnect               *)
(*   offer     the POST handler, close_client_connection, OfferReservation *)
(*   peer      PeerHandler, on the driver task of one connection            *)
(*   reset     the control task: reset_token_and_revoke, UpdateMaxViewers   *)
(*   status    broadcast_status and the socket events that look up a        *)
(*             client's assignment                                         *)
(*                                                                         *)
(* A connection has the id of the offer that creates it. One action is the  *)
(* code between two awaits or between two critical sections other tasks can *)
(* tell apart. Offers with a wrong token or a malformed body leave before   *)
(* they change anything and are not modelled.                              *)
(***************************************************************************)
EXTENDS Integers, FiniteSets

CONSTANTS
    Clients,        \* viewers, by client id
    MaxSockets,     \* bound on the control sockets opened
    MaxOffers,      \* bound on the offers posted
    MaxResets,      \* bound on the token changes
    Limits,         \* values of max_viewers
    None            \* no client, socket or connection

ASSUME BoundsAssumption ==
    MaxSockets \in Nat /\ MaxOffers \in Nat /\ MaxResets \in Nat
ASSUME LimitsAssumption == Limits \subseteq Nat \ {0} /\ Limits # {}
ASSUME NoneAssumption == None \notin Clients \cup Nat

Sockets == 1 .. MaxSockets
Offers  == 1 .. MaxOffers
Tokens  == 0 .. MaxResets

VARIABLES
    token,          \* active_token, numbered by session_generation
    limit,          \* max_viewers
    socketOf,       \* client_sockets: the current socket of a client
    assigned,       \* clients with an entry in TranscodeGroups.assignments
    connections, pending, clientPeer, bindings, \* the maps of ServerState
    subscribed,     \* connections with a track in a media or audio pipeline
    endpoints,      \* connections registered with the UDP mux
    socket,         \* a control socket: its client, its token, and where its
                    \* disconnect handler is
    offer,          \* an offer: its client, its token, where its handler is
    closing,        \* close_client_connection, which runs under the client's
                    \* offer lock: where it is, and the connection it closes
    peer,           \* where the PeerHandler of a connection is
    reset, drained, \* where reset_token_and_revoke is, and what it drained
    abandoned       \* history: connections whose close was dropped half-way

tables  == <<connections, pending, clientPeer, bindings, subscribed, endpoints>>
clients == <<socketOf, assigned>>
revoking == <<token, reset, drained>>
vars == <<revoking, limit, clients, tables, socket, offer, closing, peer, abandoned>>

Closed == [at |-> "none", conn |-> None, bound |-> FALSE, open |-> FALSE]
NothingDrained == [clients |-> {}, bound |-> {}, open |-> {}, other |-> {}]
Unused == [client |-> None, token |-> 0, at |-> "unused"]

Init ==
    /\ token = 0 /\ reset = "idle" /\ drained = NothingDrained
    /\ limit \in Limits
    /\ socketOf = [c \in Clients |-> None] /\ assigned = {}
    /\ connections = {} /\ pending = {} /\ bindings = {}
    /\ clientPeer = [c \in Clients |-> None]
    /\ subscribed = {} /\ endpoints = {}
    /\ socket = [k \in Sockets |-> Unused]
    /\ offer = [o \in Offers |-> Unused]
    /\ closing = [c \in Clients |-> Closed]
    /\ peer = [o \in Offers |-> "none"] /\ abandoned = {}

SocketAt(k, place) == socket' = [socket EXCEPT ![k].at = place]
OfferAt(o, place)  == offer' = [offer EXCEPT ![o].at = place]
CloseAt(c, place)  == closing' = [closing EXCEPT ![c].at = place]

(***************************************************************************)
(* The locks, by the places of the tasks that hold them.                    *)
(***************************************************************************)
HoldingGate == {"validate", "reserve", "build", "insert", "commit"}

\* Mutant: offers and disconnect handlers of one client are not serialized.
OfferLockIgnored(c) == closing[c] = Closed

\* offer_locks: nobody holds the lock of the client.
OfferLockFree(c) ==
    /\ \A o \in Offers : offer[o].client = c => offer[o].at \notin HoldingGate \cup {"gate"}
    /\ \A k \in Sockets : socket[k].client = c => socket[k].at # "forget"

\* session_gate. A waiting writer holds back new readers.
GateOpen == reset = "idle"

\* Mutant: a reset does not wait for offers that hold the gate.
NobodyInside == TRUE

\* Mutant: an offer holds the gate from its arrival on and takes it again under the lock
\* of its client.
GateReentered == \A o \in Offers : offer[o].at \notin HoldingGate \cup {"lock", "gate"}

GateEmpty == \A o \in Offers : offer[o].at \notin HoldingGate

(***************************************************************************)
(* Control sockets.                                                        *)
(***************************************************************************)

\* A client connects with the token its page was opened with. control_connect waits
\* for the session gate.
Arrive(k, c) ==
    /\ socket[k].at = "unused" /\ \A j \in 1 .. k - 1 : socket[j].at # "unused"
    /\ socket' = [socket EXCEPT ![k] = [client |-> c, token |-> token, at |-> "waiting"]]
    /\ UNCHANGED <<revoking, limit, clients, tables, offer, closing, peer, abandoned>>

\* The socket is lost before on_disconnect has a handler to call.
LostWaiting(k) ==
    /\ socket[k].at = "waiting" /\ SocketAt(k, "lost")
    /\ UNCHANGED <<revoking, limit, clients, tables, offer, closing, peer, abandoned>>

Waiting == {"waiting", "lost"}

ViewersFull(c) ==
    socketOf[c] = None /\ Cardinality({d \in Clients : socketOf[d] # None}) >= limit

\* control_connect, once the gate is open. A previous socket of the client is
\* disconnected; its handler finds that it is no longer the current one and leaves. A
\* socket that was lost meanwhile is registered as any other, and nobody is told
\* that it is gone: it is "dead".
Connect(k) ==
    LET c == socket[k].client
    IN  /\ socket[k].at \in Waiting /\ GateOpen
        /\ IF socket[k].token = token /\ ~ViewersFull(c)
           THEN /\ socketOf' = [socketOf EXCEPT ![c] = k]
                /\ socket' = [j \in Sockets |->
                        IF j = k
                        THEN [socket[k] EXCEPT !.at = IF @ = "lost" THEN "dead" ELSE "open"]
                        ELSE IF j = socketOf[c] THEN [socket[j] EXCEPT !.at = "closed"]
                        ELSE socket[j]]
                /\ assigned' = assigned \cup {c}
           ELSE SocketAt(k, "rejected") /\ UNCHANGED clients
        /\ UNCHANGED <<revoking, limit, tables, offer, closing, peer, abandoned>>

\* handle_control_disconnect up to the offer lock: take_current_socket.
Disconnect(k) ==
    /\ socket[k].at = "open"
    /\ SocketAt(k, "taken")
    /\ socketOf' = [socketOf EXCEPT ![socket[k].client] = None]
    /\ UNCHANGED <<revoking, limit, assigned, tables, offer, closing, peer, abandoned>>

\* It locks the client's offers and calls close_client_connection.
DisconnectClose(k) ==
    /\ socket[k].at = "taken" /\ OfferLockFree(socket[k].client)
    /\ SocketAt(k, "forget")
    /\ CloseAt(socket[k].client, "take")
    /\ UNCHANGED <<revoking, limit, clients, tables, offer, peer, abandoned>>

\* groups.remove_client, once the peer is closed.
DisconnectForget(k) ==
    /\ socket[k].at = "forget" /\ closing[socket[k].client] = Closed
    /\ SocketAt(k, "closed")
    /\ assigned' = assigned \ {socket[k].client}
    /\ UNCHANGED <<revoking, limit, socketOf, tables, offer, closing, peer, abandoned>>

\* assignment_for inserts the assignment that it does not find. broadcast_status
\* calls it for clients whose socket it copied earlier, handle_control_ping for
\* the client of any socket: the socket may be gone by then.
LookUp(c) ==
    /\ \E k \in Sockets : socket[k].client = c /\ socket[k].at \notin Waiting \cup {"rejected"}
    /\ c \notin assigned
    /\ assigned' = assigned \cup {c}
    /\ UNCHANGED <<revoking, limit, socketOf, tables, socket, offer, closing, peer, abandoned>>

(***************************************************************************)
(* close_client_connection of client c, for an offer or a disconnect        *)
(* handler that holds the client's lock.                                   *)
(***************************************************************************)
CloseTake(c) ==
    LET conn == clientPeer[c]
    IN  /\ closing[c].at = "take"
        /\ closing' = [closing EXCEPT ![c] = IF conn = None THEN Closed ELSE
                [at |-> "remove", conn |-> conn, bound |-> conn \in bindings, open |-> FALSE]]
        /\ clientPeer' = [clientPeer EXCEPT ![c] = None]
        /\ bindings' = bindings \ {conn}
        /\ UNCHANGED <<revoking, limit, clients, connections, pending,
                       subscribed, endpoints, socket, offer, peer, abandoned>>

\* connections.lock().await.remove
CloseRemove(c) ==
    /\ closing[c].at = "remove"
    /\ closing' = [closing EXCEPT ![c].at = "close",
                                  ![c].open = closing[c].conn \in connections]
    /\ connections' = connections \ {closing[c].conn}
    /\ UNCHANGED <<revoking, limit, clients, pending, clientPeer, bindings,
                   subscribed, endpoints, socket, offer, peer, abandoned>>

\* close() aborts the driver task, unless it is past its last await.
Aborted(conns) == [o \in Offers |->
    IF o \in conns /\ peer[o] = "live" THEN "off" ELSE peer[o]]

\* close().await and what follows it.
CloseFinish(c) ==
    LET conn == closing[c].conn
    IN  /\ closing[c].at = "close"
        /\ closing' = [closing EXCEPT ![c] = Closed]
        /\ peer' = Aborted({o \in {conn} : closing[c].open})
        /\ pending' = pending \ {conn}
        /\ subscribed' = subscribed \ {o \in {conn} : closing[c].bound}
        /\ endpoints' = endpoints \ {conn}
        /\ UNCHANGED <<revoking, limit, clients, connections, clientPeer, bindings,
                       socket, offer, abandoned>>

(***************************************************************************)
(* Offers.                                                                 *)
(***************************************************************************)

\* The token is current when the request arrives.
Post(o, c) ==
    /\ offer[o].at = "unused" /\ \A p \in 1 .. o - 1 : offer[p].at # "unused"
    /\ offer' = [offer EXCEPT ![o] = [client |-> c, token |-> token, at |-> "lock"]]
    /\ UNCHANGED <<revoking, limit, clients, tables, socket, closing, peer, abandoned>>

\* lock_offer
OfferLock(o) ==
    /\ offer[o].at = "lock" /\ OfferLockFree(offer[o].client)
    /\ OfferAt(o, "gate")
    /\ UNCHANGED <<revoking, limit, clients, tables, socket, closing, peer, abandoned>>

\* session_gate.read_owned, and the token checked again.
OfferGate(o) ==
    /\ offer[o].at = "gate" /\ GateOpen
    /\ OfferAt(o, IF offer[o].token = token THEN "validate" ELSE "done")
    /\ UNCHANGED <<revoking, limit, clients, tables, socket, closing, peer, abandoned>>

\* Mutant: the offer does not need a control socket.
OfferUnauthenticated(o) ==
    /\ offer[o].at = "validate"
    /\ OfferAt(o, "reserve") /\ CloseAt(offer[o].client, "take")
    /\ assigned' = assigned \cup {offer[o].client}
    /\ UNCHANGED <<revoking, limit, socketOf, tables, socket, peer, abandoned>>

\* has_control_socket, then media_for, which assigns the client, and
\* negotiate_video_codec. An accepted offer first closes the client's peer.
OfferValidate(o) ==
    LET c == offer[o].client
    IN  /\ offer[o].at = "validate"
        /\ \/ /\ socketOf[c] # None
              /\ OfferAt(o, "reserve") /\ CloseAt(c, "take")
              /\ assigned' = assigned \cup {c}
           \/ /\ OfferAt(o, "done") /\ UNCHANGED closing
              /\ assigned' = IF socketOf[c] = None THEN assigned ELSE assigned \cup {c}
        /\ UNCHANGED <<revoking, limit, socketOf, tables, socket, peer, abandoned>>

\* Mutant: only connections are counted.
AdmittedConnections == Cardinality(connections)

Admitted == Cardinality(connections) + Cardinality(pending)

\* The reservation, the subscriptions, the endpoint and the peer connection.
OfferReserve(o) ==
    /\ offer[o].at = "reserve" /\ closing[offer[o].client] = Closed
    /\ IF Admitted < limit
       THEN /\ OfferAt(o, "build")
            /\ pending' = pending \cup {o}
            /\ subscribed' = subscribed \cup {o} /\ endpoints' = endpoints \cup {o}
            /\ peer' = [peer EXCEPT ![o] = "live"]
       ELSE OfferAt(o, "done") /\ UNCHANGED <<pending, subscribed, endpoints, peer>>
    /\ UNCHANGED <<revoking, limit, clients, connections, clientPeer, bindings,
                   socket, closing, abandoned>>

\* OfferReservation::drop
DropReservation(o) ==
    /\ pending' = pending \ {o}
    /\ subscribed' = subscribed \ {o}
    /\ endpoints' = endpoints \ {o}
    /\ peer' = [peer EXCEPT ![o] = "off"]

SameSession(o) == offer[o].token = token

\* The answer is negotiated and its candidates are gathered, then the
\* generation is compared.
OfferGathered(o) ==
    /\ offer[o].at = "build" /\ SameSession(o)
    /\ OfferAt(o, "insert")
    /\ UNCHANGED <<revoking, limit, clients, tables, socket, closing, peer, abandoned>>

\* A step of the negotiation fails or gathering takes 8 s; the session was
\* revoked; or the viewer is gone and the server drops the request's future.
OfferFails(o) ==
    /\ offer[o].at \in {"build", "insert"}
    /\ OfferAt(o, "done") /\ DropReservation(o)
    /\ UNCHANGED <<revoking, limit, clients, connections, clientPeer, bindings,
                   socket, closing, abandoned>>

\* The future is dropped in an await of close_client_connection: the rest of the
\* call does not happen. Before it there is nothing to lose.
OfferCancelled(o) ==
    /\ offer[o].at = "reserve" /\ closing[offer[o].client].at \in {"remove", "close"}
    /\ OfferAt(o, "done")
    /\ closing' = [closing EXCEPT ![offer[o].client] = Closed]
    /\ abandoned' = abandoned \cup {closing[offer[o].client].conn}
    /\ UNCHANGED <<revoking, limit, clients, tables, socket, peer>>

\* connections.lock().await.insert
OfferInsert(o) ==
    /\ offer[o].at = "insert"
    /\ OfferAt(o, "commit")
    /\ connections' = connections \cup {o}
    /\ UNCHANGED <<revoking, limit, clients, pending, clientPeer, bindings,
                   subscribed, endpoints, socket, closing, peer, abandoned>>

\* OfferReservation::commit
OfferCommit(o) ==
    /\ offer[o].at = "commit"
    /\ OfferAt(o, "done")
    /\ pending' = pending \ {o}
    /\ clientPeer' = [clientPeer EXCEPT ![offer[o].client] = o]
    /\ bindings' = bindings \cup {o}
    /\ UNCHANGED <<revoking, limit, clients, connections,
                   subscribed, endpoints, socket, closing, peer, abandoned>>

(***************************************************************************)
(* The peer. Its driver reports Failed or Closed once. An ICE agent takes   *)
(* 30 s to fail, and the offer that created it gathers candidates for 8 s   *)
(* at most: a peer does not fail before its offer is answered.              *)
(***************************************************************************)

\* on_connection_state_change: connections.lock().await, then the handler
\* without an await. A handler that close() aborts at the lock did nothing.
PeerFails(o) ==
    /\ peer[o] = "live" /\ offer[o].at = "done"
    /\ peer' = [peer EXCEPT ![o] = "failed"]
    /\ connections' = connections \ {o}
    /\ subscribed' = subscribed \ {o}
    /\ endpoints' = endpoints \ {o}
    /\ UNCHANGED <<revoking, limit, clients, pending, clientPeer, bindings,
                   socket, offer, closing, abandoned>>

PeerRelease(o) ==
    /\ peer[o] = "failed"
    /\ peer' = [peer EXCEPT ![o] = "off"]
    /\ clientPeer' = [clientPeer EXCEPT ![offer[o].client] = IF @ = o THEN None ELSE @]
    /\ bindings' = bindings \ {o}
    /\ UNCHANGED <<revoking, limit, clients, connections, pending,
                   subscribed, endpoints, socket, offer, closing, abandoned>>

(***************************************************************************)
(* The control task: one command at a time.                                *)
(***************************************************************************)

\* UpdateMaxViewers
SetLimit(n) ==
    /\ reset = "idle" /\ n # limit
    /\ limit' = n
    /\ UNCHANGED <<revoking, clients, tables, socket, offer, closing, peer, abandoned>>

ResetAt(place) == reset' = place

ResetRequest ==
    /\ reset = "idle" /\ token < MaxResets
    /\ ResetAt("gate")
    /\ UNCHANGED <<token, drained, limit, clients, tables, socket, offer, closing, peer, abandoned>>

\* session_gate.write_owned
ResetGate ==
    /\ reset = "gate" /\ GateEmpty
    /\ ResetAt("goodbye")
    /\ UNCHANGED <<token, drained, limit, clients, tables, socket, offer, closing, peer, abandoned>>

\* The goodbye is acknowledged, or 250 ms pass; then reset_token_with_policy and
\* revoke_all_sessions_locked, which first disconnects every socket.
ResetSockets ==
    /\ reset = "goodbye"
    /\ ResetAt("maps")
    /\ token' = token + 1
    /\ drained' = [drained EXCEPT !.clients = {c \in Clients : socketOf[c] # None}]
    /\ socket' = [k \in Sockets |-> IF \E c \in Clients : socketOf[c] = k
                                    THEN [socket[k] EXCEPT !.at = "closed"] ELSE socket[k]]
    /\ socketOf' = [c \in Clients |-> None]
    /\ UNCHANGED <<limit, assigned, tables, offer, closing, peer, abandoned>>

\* client_connections, connection_bindings and pending_connections.
ResetMaps ==
    LET owners == {c \in Clients : clientPeer[c] # None}
    IN  /\ reset = "maps"
        /\ ResetAt("connections")
        /\ drained' = [drained EXCEPT !.clients = @ \cup owners, !.bound = bindings,
                            !.other = {clientPeer[c] : c \in owners} \cup pending]
        /\ clientPeer' = [c \in Clients |-> None]
        /\ bindings' = {} /\ pending' = {}
        /\ UNCHANGED <<token, limit, clients, connections, subscribed,
                       endpoints, socket, offer, closing, peer, abandoned>>

\* connections.lock().await.drain
ResetConnections ==
    /\ reset = "connections"
    /\ ResetAt("close")
    /\ drained' = [drained EXCEPT !.open = connections]
    /\ connections' = {}
    /\ UNCHANGED <<token, limit, clients, pending, clientPeer, bindings, subscribed,
                   endpoints, socket, offer, closing, peer, abandoned>>

\* Every drained connection is closed, then the drained bindings and the
\* endpoints are released.
ResetClose ==
    /\ reset = "close"
    /\ ResetAt("forget")
    /\ peer' = Aborted(drained.open)
    /\ subscribed' = subscribed \ drained.bound
    /\ endpoints' = endpoints \ (drained.open \cup drained.bound \cup drained.other)
    /\ UNCHANGED <<token, drained, limit, clients, connections, pending, clientPeer,
                   bindings, socket, offer, closing, abandoned>>

ResetForget ==
    /\ reset = "forget"
    /\ ResetAt("idle")
    /\ assigned' = assigned \ drained.clients
    /\ drained' = NothingDrained
    /\ UNCHANGED <<token, limit, socketOf, tables, socket, offer, closing, peer, abandoned>>

(***************************************************************************)
(* Specification.                                                          *)
(***************************************************************************)
CloseStep(c) == CloseTake(c) \/ CloseRemove(c) \/ CloseFinish(c)

OfferStep(o) ==
    \/ OfferLock(o) \/ OfferGate(o) \/ OfferValidate(o) \/ OfferReserve(o)
    \/ OfferGathered(o) \/ OfferFails(o) \/ OfferInsert(o) \/ OfferCommit(o)

HandlerStep(k) == Connect(k) \/ DisconnectClose(k) \/ DisconnectForget(k)

ResetStep ==
    \/ ResetGate \/ ResetSockets \/ ResetMaps \/ ResetConnections
    \/ ResetClose \/ ResetForget

\* What the tasks that were started do by themselves.
TaskStep ==
    \/ \E c \in Clients : CloseStep(c)
    \/ \E o \in Offers : OfferStep(o)
    \/ \E k \in Sockets : HandlerStep(k)
    \/ ResetStep

Next ==
    \/ TaskStep
    \/ \E k \in Sockets, c \in Clients : Arrive(k, c)
    \/ \E k \in Sockets : LostWaiting(k) \/ Disconnect(k)
    \/ \E c \in Clients : LookUp(c)
    \/ \E o \in Offers, c \in Clients : Post(o, c)
    \/ \E o \in Offers : OfferCancelled(o) \/ PeerFails(o) \/ PeerRelease(o)
    \/ \E n \in Limits : SetLimit(n)
    \/ ResetRequest

Spec == Init /\ [][Next]_vars

(***************************************************************************)
(* Properties.                                                             *)
(***************************************************************************)
TypeOK ==
    /\ token \in Tokens /\ limit \in Limits
    /\ socketOf \in [Clients -> Sockets \cup {None}]
    /\ assigned \subseteq Clients
    /\ connections \cup pending \cup bindings \cup subscribed \cup endpoints \subseteq Offers
    /\ clientPeer \in [Clients -> Offers \cup {None}]
    /\ \A k \in Sockets : socket[k].client \in Clients \cup {None}
    /\ \A c \in Clients : closing[c].conn \in Offers \cup {None}
    /\ peer \in [Offers -> {"none", "live", "failed", "off"}]
    /\ abandoned \subseteq Offers

LivePeers == {o \in Offers : peer[o] = "live"}

\* Somebody is closing the connection, or somebody was and his call was dropped.
Leaving == abandoned \cup {closing[c].conn : c \in Clients}

\* max_viewers, of the peers themselves: no step that brings a peer up leaves more peers
\* than the limit, not counting those that are being closed. The check counts what two maps
\* hold, which offers, failing peers and closes of other clients fill and empty meanwhile.
ViewerLimit ==
    [][LivePeers' \subseteq LivePeers \/ Cardinality(LivePeers' \ Leaving') <= limit]_vars

Holders == connections \cup pending \cup bindings \cup endpoints \cup subscribed

\* What a viewer is served through: a place in a map or a pipeline, or a live peer.
Capabilities == Holders \cup LivePeers

\* server.rs:271-276, 4495-4506. Outside a reset no socket of an earlier token is
\* registered and no offer of one holds anything, be it a place in a map, a track, an
\* endpoint or a live peer: neither a socket that waited, nor an offer that was being
\* negotiated, nor a close under way slips past the revocation. What does are connections
\* a disconnect handler is just closing and, against the doc of reset_token_and_revoke,
\* connections whose close was dropped half-way: no map leads to those any more.
RevocationComplete ==
    reset = "idle" =>
        /\ \A o \in Capabilities : offer[o].token = token \/ o \in Leaving
        /\ \A o \in connections \cup pending \cup bindings : offer[o].token = token
        /\ \A c \in Clients :
            /\ socketOf[c] # None => socket[socketOf[c]].token = token
            /\ clientPeer[c] # None => offer[clientPeer[c]].token = token

TasksDone ==
    /\ \A o \in Offers : offer[o].at \in {"unused", "done"}
    /\ \A k \in Sockets : socket[k].at \in {"unused", "open", "dead", "closed", "rejected"}
    /\ reset = "idle"


\* Sockets that connect, offers, disconnect handlers and a reset wait for each other
\* through the offer locks and the session gate, and never all of them: while one is
\* unfinished, one can go on. None of them repeats a step, so every offer is answered.
NobodyStuck == TasksDone \/ ENABLED TaskStep

\* Whatever offers, disconnects, failing peers and a reset interleave to, once
\* they are done a connection that holds anything is open and is the one its
\* client reaches: nobody stays in the viewer count or in a pipeline whom no
\* handler would remove. A connection whose close was dropped half-way holds on
\* until ICE gives up on it, or, if a reset came first, by its tracks for good.
Reached(o) == clientPeer[offer[o].client] = o /\ o \in connections \cap bindings \cap subscribed

EverythingReleased ==
    TasksDone /\ (\A o \in Offers : peer[o] # "failed") =>
        \A o \in Holders :
            \/ Reached(o)
            \/ o \in abandoned /\ (peer[o] = "live" \/ offer[o].token # token)

\* No viewer is served without a control socket that is registered: the disconnect
\* handler waits for the offer in progress, and a queued offer finds the socket gone. It
\* is a statement of every live peer with a track, whether its client still leads to it
\* or not; only those whose close was dropped half-way are served on.
PeerNeedsSocket ==
    TasksDone => \A o \in LivePeers \cap subscribed :
                     socketOf[offer[o].client] # None \/ o \in abandoned

\* server.rs:4869-4871, of the assignment: once the disconnect handler of a
\* client's last socket has returned, the client is no longer assigned.
DisconnectCleansUp ==
    \A k \in Sockets : socket[k].at = "closed" =>
        LET c == socket[k].client
        IN  \/ socketOf[c] # None \/ c \notin assigned
            \/ \E j \in Sockets : socket[j].client = c /\ socket[j].at \in {"taken", "forget"}
            \/ reset # "idle"
==============================================================================
