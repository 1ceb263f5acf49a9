----------------------------- MODULE Sessions_proofs -----------------------------
(***************************************************************************)
(* Proofs about Sessions, for any set of viewers, any limits and any bounds  *)
(* on the sockets, the offers and the token changes.                       *)
(***************************************************************************)
EXTENDS Sessions, FiniteSetTheorems, TLAPS

(***************************************************************************)
(* Types.                                                                  *)
(***************************************************************************)
\* Where a socket, an offer, a close or a peer can be.
Places == {"unused", "waiting", "lost", "rejected", "open", "dead", "closed", "taken", "forget",
           "lock", "gate", "validate", "reserve", "build", "insert", "commit", "done",
           "none", "take", "remove", "close", "live", "failed", "off"}

Entries   == [client : Clients \cup {None}, token : Nat, at : Places]
Closings  == [at : Places, conn : Offers \cup {None}, bound : BOOLEAN, open : BOOLEAN]
Drains    == [clients : SUBSET Clients, bound : SUBSET Offers, open : SUBSET Offers,
              other : SUBSET Offers]

SocketsTyped  == socket \in [Sockets -> Entries]
OffersTyped   == offer \in [Offers -> Entries]
ClosingsTyped == closing \in [Clients -> Closings]
DrainsTyped   == drained \in Drains
ClientsTyped  == socketOf \in [Clients -> Sockets \cup {None}]
PeersTyped    == clientPeer \in [Clients -> Offers \cup {None}] /\ peer \in [Offers -> Places]
SetsTyped     ==
    /\ connections \subseteq Offers /\ pending \subseteq Offers /\ bindings \subseteq Offers
    /\ subscribed \subseteq Offers /\ endpoints \subseteq Offers

Typed ==
    /\ token \in Nat /\ limit \in Nat
    /\ SocketsTyped /\ OffersTyped /\ ClosingsTyped /\ DrainsTyped
    /\ ClientsTyped /\ PeersTyped /\ SetsTyped

(***************************************************************************)
(* The gate, and what it keeps out of a reset.                             *)
(***************************************************************************)

\* Nobody holds the gate once the reset does.
GateInv == reset \notin {"idle", "gate"} => GateEmpty

\* Whoever holds the gate has the token in force, and so has every socket.
TokenInv ==
    /\ \A o \in Offers : offer[o].at \in HoldingGate => offer[o].token = token
    /\ \A c \in Clients : socketOf[c] # None =>
            LET k == socketOf[c]
            IN  /\ socket[k].client = c /\ socket[k].token = token
                /\ socket[k].at \in {"open", "dead"}

\* What the maps hold was granted under the token in force, up to the step of the
\* reset that empties them.
Current(o) == offer[o].token = token /\ offer[o].at # "unused"

MapsInv ==
    /\ reset # "maps" => /\ \A o \in pending \cup bindings : Current(o)
                         /\ \A c \in Clients : clientPeer[c] # None => Current(clientPeer[c])
    /\ reset \notin {"maps", "connections"} => \A o \in connections : Current(o)
    /\ reset = "maps" => /\ \A o \in connections \cup pending \cup bindings : offer[o].at # "unused"
                         /\ \A c \in Clients : clientPeer[c] # None => offer[clientPeer[c]].at # "unused"
    /\ reset = "connections" => \A o \in connections : offer[o].at # "unused"

RevocationInv == Typed /\ GateInv /\ TokenInv /\ MapsInv

(***************************************************************************)
(* Served only with a control socket.                                      *)
(***************************************************************************)
Taken(c) == \E k \in Sockets : socket[k].client = c /\ socket[k].at = "taken"

\* A disconnect handler of the client has its peer still to take.
Departing(c) ==
    \/ Taken(c)
    \/ closing[c].at = "take" /\ \E k \in Sockets : socket[k].client = c /\ socket[k].at = "forget"

Serving == {"reserve", "build", "insert", "commit"}

ClientInv ==
    /\ \A o \in Offers : offer[o].at # "unused" => offer[o].client \in Clients
    /\ \A k \in Sockets : socket[k].at # "unused" => socket[k].client \in Clients

ServedInv ==
    /\ \A o \in Offers : offer[o].at \in Serving =>
            socketOf[offer[o].client] # None \/ Taken(offer[o].client)
    /\ \A c \in Clients : clientPeer[c] # None => socketOf[c] # None \/ Departing(c) \/ reset = "maps"

SocketInv == RevocationInv /\ ClientInv /\ ServedInv

(***************************************************************************)
(* What a connection holds.                                                *)
(***************************************************************************)

\* The lock of a client has one holder.
Locks(o)   == offer[o].at \in HoldingGate \cup {"gate"}
Forgets(k) == socket[k].at = "forget"

LockInv ==
    /\ \A o, p \in Offers : Locks(o) /\ Locks(p) /\ offer[o].client = offer[p].client => o = p
    /\ \A j, k \in Sockets : Forgets(j) /\ Forgets(k) /\ socket[j].client = socket[k].client => j = k
    /\ \A o \in Offers, k \in Sockets : Locks(o) /\ Forgets(k) => offer[o].client # socket[k].client

\* The three parts of the life of an offer: before its reservation, until its commit,
\* and after it.
Reserved == {"build", "insert", "commit"}

Acquired == connections \cup subscribed \cup endpoints

StageInv == \A o \in Offers :
    /\ offer[o].at \notin Reserved \cup {"done"} => peer[o] = "none"
    /\ peer[o] = "none" => o \notin Holders
    /\ offer[o].at \in Reserved => /\ peer[o] = "live" /\ o \notin bindings
                                   /\ o \in connections => offer[o].at = "commit"
                                   /\ offer[o].at = "commit" => o \in connections
                                   /\ o \in subscribed /\ o \in endpoints
    /\ offer[o].at = "done" => o \notin pending
    /\ peer[o] = "failed" => offer[o].at = "done" /\ o \notin Acquired

\* The binding of a connection and the entry of its client come and go together.
BindingInv ==
    /\ \A o \in bindings : /\ offer[o].at = "done" /\ clientPeer[offer[o].client] = o
                           /\ \/ peer[o] = "failed"
                              \/ /\ peer[o] = "live"
                                 /\ o \in connections /\ o \in subscribed /\ o \in endpoints
    /\ \A c \in Clients : clientPeer[c] # None =>
            clientPeer[c] \in bindings /\ offer[clientPeer[c]].client = c
    /\ \A o \in Offers : LET c == offer[o].client
                         IN  \/ offer[o].at \in Reserved
                             \/ offer[o].at = "reserve" /\ closing[c].at # "take"
                             => clientPeer[c] = None

Closes(c, o) == closing[c].at \in {"remove", "close"} /\ closing[c].conn = o

ClosingInv == \A c \in Clients :
    /\ closing[c].at = "none" => closing[c] = Closed
    /\ closing[c].at \in {"none", "take", "remove", "close"}
    /\ \A o \in Offers : Closes(c, o) => /\ offer[o].at = "done" /\ offer[o].client = c
                                         /\ o \notin bindings /\ closing[c].bound = TRUE
                                         /\ closing[c].at = "close" => o \notin connections
    /\ closing[c].at # "none" =>
            \/ \E o \in Offers : offer[o].client = c /\ offer[o].at = "reserve"
            \/ \E k \in Sockets : socket[k].client = c /\ Forgets(k)

\* A reset empties the maps in this order, and what it finds is of an older token.
ResetInv ==
    /\ reset \in {"idle", "gate", "goodbye", "maps", "connections", "close", "forget"}
    /\ reset \in {"connections", "close", "forget"} =>
            bindings = {} /\ \A c \in Clients : clientPeer[c] = None
    /\ reset \in {"close", "forget"} => connections = {}
    /\ \A o \in Offers : offer[o].token <= token
    /\ reset \notin {"idle", "gate", "goodbye"} =>
            \A o \in Offers : peer[o] # "none" => offer[o].token < token

\* Whoever is to release what an unbound connection still holds.
Owned(o) ==
    /\ \/ Closes(offer[o].client, o)
       \/ reset \in {"connections", "close"} /\ o \in drained.bound
       \/ o \in abandoned
    /\ peer[o] = "live" \/ offer[o].token # token

OwnedInv == \A o \in Offers :
    offer[o].at = "done" /\ o \in Acquired /\ o \notin bindings => Owned(o)

ReleaseInv ==
    /\ RevocationInv /\ ClientInv
    /\ LockInv /\ StageInv /\ BindingInv /\ ClosingInv /\ ResetInv /\ OwnedInv

\* A task at a new place is the same task.
LEMMA NewPlace ==
    ASSUME NEW T, NEW f \in [T -> Entries], NEW x \in T, NEW place \in Places,
           NEW g, g = [f EXCEPT ![x].at = place]
    PROVE  /\ g \in [T -> Entries]
           /\ \A y \in T : g[y].client = f[y].client /\ g[y].token = f[y].token
           /\ \A y \in T : g[y].at = IF y = x THEN place ELSE f[y].at
  <1>1. /\ g = [f EXCEPT ![x] = [f[x] EXCEPT !.at = place]]
        /\ f[x] \in Entries
    OBVIOUS
  <1>2. /\ [f[x] EXCEPT !.at = place] \in Entries
        /\ [f[x] EXCEPT !.at = place].at = place
        /\ [f[x] EXCEPT !.at = place].client = f[x].client
        /\ [f[x] EXCEPT !.at = place].token = f[x].token
    BY <1>1 DEF Entries
  <1> QED BY <1>1, <1>2

LEMMA OfferMoves ==
    ASSUME OffersTyped, NEW o \in Offers, NEW place \in Places, OfferAt(o, place)
    PROVE  /\ OffersTyped'
           /\ \A p \in Offers : offer'[p].client = offer[p].client /\ offer'[p].token = offer[p].token
           /\ \A p \in Offers : offer'[p].at = IF p = o THEN place ELSE offer[p].at
  BY NewPlace DEF OfferAt, OffersTyped

LEMMA SocketMoves ==
    ASSUME SocketsTyped, NEW k \in Sockets, NEW place \in Places, SocketAt(k, place)
    PROVE  /\ SocketsTyped'
           /\ \A j \in Sockets : socket'[j].client = socket[j].client /\ socket'[j].token = socket[j].token
           /\ \A j \in Sockets : socket'[j].at = IF j = k THEN place ELSE socket[j].at
  BY NewPlace DEF SocketAt, SocketsTyped

LEMMA CloseMoves ==
    ASSUME ClosingsTyped, NEW c \in Clients, NEW place \in Places, CloseAt(c, place)
    PROVE  /\ ClosingsTyped'
           /\ \A d \in Clients : d # c => closing'[d] = closing[d]
           /\ closing'[c].at = place /\ closing'[c].conn = closing[c].conn
           /\ closing'[c].bound = closing[c].bound /\ closing'[c].open = closing[c].open
  <1>1. /\ closing' = [closing EXCEPT ![c] = [closing[c] EXCEPT !.at = place]]
        /\ closing[c] \in Closings
    BY DEF CloseAt, ClosingsTyped
  <1>2. /\ [closing[c] EXCEPT !.at = place] \in Closings
        /\ [closing[c] EXCEPT !.at = place].at = place
        /\ [closing[c] EXCEPT !.at = place].conn = closing[c].conn
        /\ [closing[c] EXCEPT !.at = place].bound = closing[c].bound
        /\ [closing[c] EXCEPT !.at = place].open = closing[c].open
    BY <1>1 DEF Closings
  <1> QED BY <1>1, <1>2 DEF ClosingsTyped

\* The steps of close_client_connection, client by client.
LEMMA CloseTakes ==
    ASSUME Typed, NEW c \in Clients, CloseTake(c)
    PROVE  /\ ClosingsTyped' /\ \A d \in Clients \ {c} : closing'[d] = closing[d]
           /\ clientPeer[c] = None => closing'[c] = Closed
           /\ clientPeer[c] # None => /\ closing'[c].at = "remove" /\ closing'[c].conn = clientPeer[c]
                                      /\ closing'[c].bound = (clientPeer[c] \in bindings)
  <1> DEFINE next == IF clientPeer[c] = None THEN Closed
                     ELSE [at |-> "remove", conn |-> clientPeer[c],
                           bound |-> clientPeer[c] \in bindings, open |-> FALSE]
  <1>1. next \in Closings
    BY DEF Typed, PeersTyped, Closings, Closed, Places
  <1>2. closing' = [closing EXCEPT ![c] = next]
    BY DEF CloseTake
  <1>3. /\ clientPeer[c] = None => next = Closed
        /\ clientPeer[c] # None => /\ next.at = "remove" /\ next.conn = clientPeer[c]
                                   /\ next.bound = (clientPeer[c] \in bindings)
    OBVIOUS
  <1> HIDE DEF next
  <1> QED BY <1>1, <1>2, <1>3 DEF Typed, ClosingsTyped

LEMMA ClosedHasNoConnection == Closed.at = "none" /\ Closed.conn = None
  BY DEF Closed

LEMMA CloseRemoves ==
    ASSUME Typed, NEW c \in Clients, CloseRemove(c)
    PROVE  /\ ClosingsTyped' /\ \A d \in Clients \ {c} : closing'[d] = closing[d]
           /\ closing'[c].at = "close" /\ closing'[c].open = (closing[c].conn \in connections)
           /\ closing'[c].conn = closing[c].conn /\ closing'[c].bound = closing[c].bound
  <1> DEFINE listed == closing[c].conn \in connections
             next == [closing[c] EXCEPT !.at = "close", !.open = listed]
  <1>1. closing[c] \in Closings /\ listed \in BOOLEAN
    BY DEF Typed, ClosingsTyped
  <1> HIDE DEF listed
  <1>2. next \in Closings /\ next.at = "close" /\ next.open = listed
        /\ next.conn = closing[c].conn /\ next.bound = closing[c].bound
    BY <1>1 DEF Closings, Places
  <1>3. closing' = [closing EXCEPT ![c] = next]
    BY DEF CloseRemove, listed
  <1> HIDE DEF next
  <1> QED BY <1>2, <1>3 DEF Typed, ClosingsTyped, listed

LEMMA CloseEnds ==
    ASSUME Typed, NEW c \in Clients, closing' = [closing EXCEPT ![c] = Closed]
    PROVE  ClosingsTyped' /\ closing'[c] = Closed /\ \A d \in Clients \ {c} : closing'[d] = closing[d]
  BY DEF Typed, ClosingsTyped, Closings, Closed, Places

\* A socket arrives, or is lost before it is admitted: only it changes.
Arrival(k) == LostWaiting(k) \/ \E c \in Clients : Arrive(k, c)

LEMMA Arrives ==
    ASSUME Typed, NEW k \in Sockets, Arrival(k)
    PROVE  /\ SocketsTyped' /\ \A j \in Sockets \ {k} : socket'[j] = socket[j]
           /\ socket[k].at \in {"unused", "waiting"} /\ socket'[k].at \in Waiting
           /\ socket'[k].client \in Clients \/ (socket[k].at # "unused" /\ socket'[k].client = socket[k].client)
           /\ UNCHANGED <<revoking, limit, clients, tables, offer, closing, peer, abandoned>>
  <1>1. CASE LostWaiting(k)
    <2>1. SocketAt(k, "lost") /\ socket[k].at = "waiting"
      BY <1>1 DEF LostWaiting
    <2>2. \A j \in Sockets \ {k} : socket'[j] = socket[j]
      BY <2>1 DEF SocketAt, Typed, SocketsTyped
    <2> QED BY <1>1, <2>1, <2>2, SocketMoves DEF LostWaiting, Typed, Places, Waiting
  <1>2. ASSUME NEW c \in Clients, Arrive(k, c)
        PROVE  /\ SocketsTyped' /\ \A j \in Sockets \ {k} : socket'[j] = socket[j]
               /\ socket[k].at = "unused" /\ socket'[k].at = "waiting" /\ socket'[k].client = c
               /\ UNCHANGED <<revoking, limit, clients, tables, offer, closing, peer, abandoned>>
    <2> DEFINE new == [client |-> c, token |-> token, at |-> "waiting"]
    <2>1. new \in Entries /\ new.at = "waiting" /\ new.client = c
      BY DEF Typed, Entries, Places
    <2>2. socket' = [socket EXCEPT ![k] = new] /\ socket[k].at = "unused"
          /\ UNCHANGED <<revoking, limit, clients, tables, offer, closing, peer, abandoned>>
      BY <1>2 DEF Arrive
    <2> HIDE DEF new
    <2> QED BY <2>1, <2>2 DEF Typed, SocketsTyped
  <1> QED BY <1>1, <1>2 DEF Arrival, Waiting

\* The sockets after control_connect.
LEMMA Connects ==
    ASSUME Typed, NEW k \in Sockets, Connect(k)
    PROVE  /\ SocketsTyped' /\ socket[k].at \in Waiting
           /\ \A j \in Sockets : socket'[j].client = socket[j].client /\ socket'[j].token = socket[j].token
           /\ \/ /\ socket[k].token = token /\ socketOf' = [socketOf EXCEPT ![socket[k].client] = k]
                 /\ socket'[k].at \in {"open", "dead"}
                 /\ \A j \in Sockets \ {k} : socket'[j].at =
                        IF j = socketOf[socket[k].client] THEN "closed" ELSE socket[j].at
              \/ /\ UNCHANGED socketOf /\ socket'[k].at = "rejected"
                 /\ \A j \in Sockets \ {k} : socket'[j].at = socket[j].at
  <1> DEFINE c == socket[k].client
             place == IF socket[k].at = "lost" THEN "dead" ELSE "open"
             new == [socket[k] EXCEPT !.at = place]
             was(j) == [socket[j] EXCEPT !.at = "closed"]
  <1>1. CASE socket[k].token = token /\ ~ViewersFull(c)
    <2>1. socket[k] \in Entries /\ place \in Places /\ place \in {"open", "dead"}
      BY DEF Typed, SocketsTyped, Places
    <2> HIDE DEF place
    <2>2. /\ new \in Entries /\ new.at = place
          /\ new.client = socket[k].client /\ new.token = socket[k].token
      BY <2>1 DEF Entries
    <2>3. \A j \in Sockets : /\ socket[j] \in Entries /\ was(j) \in Entries
                             /\ was(j).client = socket[j].client
                             /\ was(j).token = socket[j].token /\ was(j).at = "closed"
      BY DEF Typed, SocketsTyped, Entries, Places
    <2>4. socket' = [j \in Sockets |-> IF j = k THEN new ELSE IF j = socketOf[c] THEN was(j) ELSE socket[j]]
      BY <1>1 DEF Connect, place
    <2>5. socketOf' = [socketOf EXCEPT ![c] = k] /\ socket[k].at \in Waiting
      BY <1>1 DEF Connect
    <2> HIDE DEF was, new
    <2>6. socket'[k] = new
      BY <2>4
    <2>7. \A j \in Sockets \ {k} : socket'[j] = IF j = socketOf[c] THEN was(j) ELSE socket[j]
      BY <2>4
    <2>8. \A j \in Sockets : socket'[j] \in Entries
      BY <2>2, <2>3, <2>6, <2>7
    <2>9. SocketsTyped'
      BY <2>4, <2>8 DEF SocketsTyped
    <2> QED BY <1>1, <2>1, <2>2, <2>3, <2>5, <2>6, <2>7, <2>9
  <1>2. CASE ~(socket[k].token = token /\ ~ViewersFull(c))
    <2>1. SocketAt(k, "rejected") /\ UNCHANGED clients /\ socket[k].at \in Waiting
      BY <1>2 DEF Connect
    <2> QED BY <2>1, SocketMoves DEF Typed, Places, clients
  <1> QED BY <1>1, <1>2

\* The sockets after the first step of a revocation.
LEMMA Revokes ==
    ASSUME Typed, ResetSockets
    PROVE  /\ SocketsTyped'
           /\ \A k \in Sockets :
                /\ socket'[k].client = socket[k].client /\ socket'[k].token = socket[k].token
                /\ socket'[k].at = IF \E c \in Clients : socketOf[c] = k THEN "closed" ELSE socket[k].at
  <1> DEFINE was(j) == [socket[j] EXCEPT !.at = "closed"]
  <1>1. \A j \in Sockets : /\ socket[j] \in Entries /\ was(j) \in Entries
                           /\ was(j).client = socket[j].client
                           /\ was(j).token = socket[j].token /\ was(j).at = "closed"
    BY DEF Typed, SocketsTyped, Entries, Places
  <1>2. socket' = [j \in Sockets |-> IF \E c \in Clients : socketOf[c] = j THEN was(j) ELSE socket[j]]
    BY DEF ResetSockets
  <1> HIDE DEF was
  <1>3. \A j \in Sockets : socket'[j] = IF \E c \in Clients : socketOf[c] = j THEN was(j) ELSE socket[j]
    BY <1>2
  <1>4. SocketsTyped'
    BY <1>1, <1>2, <1>3 DEF SocketsTyped
  <1> QED BY <1>1, <1>3, <1>4

\* The offer that is posted.
LEMMA Posts ==
    ASSUME Typed, NEW o \in Offers, NEW c \in Clients, Post(o, c)
    PROVE  /\ OffersTyped' /\ \A p \in Offers \ {o} : offer'[p] = offer[p]
           /\ offer'[o].client = c /\ offer'[o].token = token /\ offer'[o].at = "lock"
  <1> DEFINE new == [client |-> c, token |-> token, at |-> "lock"]
  <1>1. new \in Entries
    BY DEF Typed, Entries, Places
  <1>2. offer' = [offer EXCEPT ![o] = new]
    BY DEF Post
  <1> HIDE DEF new
  <1>3. OffersTyped' /\ \A p \in Offers \ {o} : offer'[p] = offer[p]
    BY <1>1, <1>2 DEF Typed, OffersTyped
  <1>4. offer'[o] = new
    BY <1>2 DEF Typed, OffersTyped
  <1>5. new.client = c /\ new.token = token /\ new.at = "lock"
    BY DEF new
  <1> QED BY <1>3, <1>4, <1>5

\* What a reset has drained.
LEMMA ResetDrains ==
    ASSUME Typed, ResetSockets \/ ResetMaps \/ ResetConnections \/ ResetForget
    PROVE  /\ DrainsTyped'
           /\ ResetMaps => drained'.bound = bindings /\ drained'.open = drained.open
           /\ ResetConnections => drained'.bound = drained.bound /\ drained'.open = connections
           /\ ResetSockets => drained'.bound = drained.bound /\ drained'.open = drained.open
  <1> DEFINE owners == {c \in Clients : clientPeer[c] # None}
             conns == {clientPeer[c] : c \in owners} \cup pending
  <1>1. drained \in Drains /\ owners \subseteq Clients /\ conns \subseteq Offers
        /\ connections \subseteq Offers /\ bindings \subseteq Offers
    BY DEF Typed, DrainsTyped, PeersTyped, SetsTyped
  <1>2. drained.clients \cup owners \subseteq Clients
    BY <1>1 DEF Drains
  <1>3. ResetMaps => drained' = [drained EXCEPT !.clients = drained.clients \cup owners,
                                                !.bound = bindings, !.other = conns]
    BY DEF ResetMaps
  <1> HIDE DEF owners, conns
  <1>4. CASE ResetMaps
    BY <1>1, <1>2, <1>3, <1>4 DEF Drains, DrainsTyped, ResetSockets, ResetConnections, ResetForget
  <1>5. CASE ResetSockets \/ ResetConnections \/ ResetForget
    BY <1>1, <1>5 DEF Drains, DrainsTyped, ResetSockets, ResetMaps, ResetConnections, ResetForget, NothingDrained
  <1> QED BY <1>4, <1>5

LEMMA TypedStart == Init => Typed
  <1> SUFFICES ASSUME Init PROVE Typed
    OBVIOUS
  <1>1. token \in Nat /\ limit \in Nat
    BY LimitsAssumption DEF Init
  <1>2. SocketsTyped /\ OffersTyped
    BY DEF Init, SocketsTyped, OffersTyped, Entries, Unused, Places
  <1>3. ClosingsTyped /\ DrainsTyped
    BY DEF Init, ClosingsTyped, DrainsTyped, Closings, Closed, Drains, NothingDrained, Places
  <1>4. ClientsTyped /\ PeersTyped /\ SetsTyped
    BY DEF Init, ClientsTyped, PeersTyped, SetsTyped, Places
  <1> QED BY <1>1, <1>2, <1>3, <1>4 DEF Typed

LEMMA TypedSockets ==
    ASSUME Typed, NEW k \in Sockets,
           Arrival(k) \/ Disconnect(k) \/ HandlerStep(k) \/ \E c \in Clients : LookUp(c)
    PROVE  Typed'
  <1> USE DEF Typed
  <1>1. UNCHANGED <<offer, peer, drained, clientPeer, tables, abandoned, token, limit>>
    BY Arrives DEF Connect, Disconnect, HandlerStep, DisconnectClose, DisconnectForget, LookUp,
       revoking, clients, tables
  <1>2. OffersTyped' /\ DrainsTyped' /\ PeersTyped' /\ SetsTyped' /\ token' \in Nat /\ limit' \in Nat
    BY <1>1 DEF OffersTyped, DrainsTyped, PeersTyped, SetsTyped, tables
  <1>3. CASE Connect(k)
    <2>1. SocketsTyped' /\ (UNCHANGED socketOf \/ socketOf' = [socketOf EXCEPT ![socket[k].client] = k])
      BY <1>3, Connects
    <2>2. ClientsTyped'
      BY <2>1 DEF ClientsTyped
    <2>3. ClosingsTyped'
      BY <1>3 DEF Connect, ClosingsTyped
    <2> QED BY <1>2, <2>1, <2>2, <2>3
  <1>8. CASE Arrival(k)
    <2>1. SocketsTyped' /\ UNCHANGED <<socketOf, closing>>
      BY <1>8, Arrives DEF clients
    <2> QED BY <1>2, <2>1 DEF ClientsTyped, ClosingsTyped
  <1>4. CASE Disconnect(k)
    <2>1. SocketAt(k, "taken") /\ socketOf' = [socketOf EXCEPT ![socket[k].client] = None]
      BY <1>4 DEF Disconnect
    <2> QED BY <1>2, <1>4, <2>1, SocketMoves, ZenonT(40) DEF Disconnect, ClientsTyped, ClosingsTyped, Places
  <1>5. CASE DisconnectClose(k)
    <2>1. SocketAt(k, "forget") /\ CloseAt(socket[k].client, "take")
      BY <1>5 DEF DisconnectClose
    <2>2. ClosingsTyped'
      <3>1. CASE socket[k].client \in Clients
        BY <2>1, <3>1, CloseMoves DEF Places
      <3>2. CASE socket[k].client \notin Clients
        BY <2>1, <3>2 DEF CloseAt, ClosingsTyped
      <3> QED BY <3>1, <3>2
    <2> QED BY <1>2, <1>5, <2>1, <2>2, SocketMoves DEF DisconnectClose, ClientsTyped, clients, Places
  <1>6. CASE DisconnectForget(k)
    BY <1>2, <1>6, SocketMoves DEF DisconnectForget, ClientsTyped, ClosingsTyped, Places
  <1>7. CASE \E c \in Clients : LookUp(c)
    BY <1>2, <1>7 DEF LookUp, ClientsTyped, ClosingsTyped, SocketsTyped
  <1> QED BY <1>3, <1>4, <1>5, <1>6, <1>7, <1>8 DEF HandlerStep

LEMMA TypedClose ==
    ASSUME Typed, NEW c \in Clients, CloseStep(c)
    PROVE  Typed'
  <1> USE DEF Typed
  <1>1. UNCHANGED <<offer, socket, drained, socketOf, abandoned, token, limit>>
    BY DEF CloseStep, CloseTake, CloseRemove, CloseFinish, revoking, clients
  <1>2. /\ OffersTyped' /\ SocketsTyped' /\ DrainsTyped' /\ ClientsTyped'
        /\ token' \in Nat /\ limit' \in Nat
    BY <1>1 DEF OffersTyped, SocketsTyped, DrainsTyped, ClientsTyped
  <1>3. ClosingsTyped'
    BY CloseTakes, CloseRemoves, CloseEnds DEF CloseStep, CloseFinish
  <1>4. SetsTyped'
    BY <1>1 DEF SetsTyped, CloseStep, CloseTake, CloseRemove, CloseFinish
  <1>5. PeersTyped'
    BY DEF PeersTyped, CloseStep, CloseTake, CloseRemove, CloseFinish, Aborted, Places
  <1> QED BY <1>2, <1>3, <1>4, <1>5

LEMMA TypedOffers ==
    ASSUME Typed, NEW o \in Offers,
           OfferStep(o) \/ OfferCancelled(o) \/ PeerFails(o) \/ PeerRelease(o)
    PROVE  Typed'
  <1> USE DEF Typed
  <1> DEFINE c == offer[o].client
  <1>1. UNCHANGED <<socket, drained, socketOf, token, limit>>
    BY DEF OfferStep, OfferLock, OfferGate, OfferValidate, OfferReserve, OfferGathered, OfferFails,
           OfferInsert, OfferCommit, OfferCancelled, PeerFails, PeerRelease, revoking, clients
  <1>2. SocketsTyped' /\ DrainsTyped' /\ ClientsTyped' /\ token' \in Nat /\ limit' \in Nat
    BY <1>1 DEF SocketsTyped, DrainsTyped, ClientsTyped
  <1>3. OffersTyped'
    <2>1. UNCHANGED offer \/ \E place \in Places : OfferAt(o, place)
      BY DEF OfferStep, OfferLock, OfferGate, OfferValidate, OfferReserve, OfferGathered, OfferFails,
             OfferInsert, OfferCommit, OfferCancelled, PeerFails, PeerRelease, Places
    <2> QED BY <2>1, OfferMoves DEF OffersTyped
  <1>4. ClosingsTyped'
    <2>1. \/ UNCHANGED closing
          \/ CloseAt(c, "take")
          \/ closing' = [closing EXCEPT ![c] = Closed]
      BY DEF OfferStep, OfferLock, OfferGate, OfferValidate, OfferReserve, OfferGathered, OfferFails,
             OfferInsert, OfferCommit, OfferCancelled, PeerFails, PeerRelease
    <2>2. CASE c \in Clients
      BY <2>1, <2>2, CloseMoves, CloseEnds DEF ClosingsTyped, Places
    <2>3. CASE c \notin Clients
      BY <2>1, <2>3 DEF ClosingsTyped, CloseAt
    <2> QED BY <2>2, <2>3
  <1>5. PeersTyped'
    BY DEF OfferStep, OfferLock, OfferGate, OfferValidate, OfferReserve, OfferGathered, OfferFails,
           OfferInsert, OfferCommit, OfferCancelled, PeerFails, PeerRelease, PeersTyped, DropReservation,
           tables, Places
  <1>6. SetsTyped'
    BY DEF OfferStep, OfferLock, OfferGate, OfferValidate, OfferReserve, OfferGathered, OfferFails,
           OfferInsert, OfferCommit, OfferCancelled, PeerFails, PeerRelease, SetsTyped,
           DropReservation, tables
  <1> QED BY <1>2, <1>3, <1>4, <1>5, <1>6

LEMMA TypedControl ==
    ASSUME Typed, ResetStep \/ ResetRequest \/ (\E n \in Limits : SetLimit(n))
    PROVE  Typed'
  <1> USE DEF Typed
  <1> DEFINE Step == ResetStep \/ ResetRequest \/ (\E n \in Limits : SetLimit(n))
  <1>1. UNCHANGED <<offer, closing>>
    BY DEF ResetStep, ResetRequest, SetLimit, ResetGate, ResetSockets, ResetMaps, ResetConnections,
           ResetClose, ResetForget
  <1>2. OffersTyped' /\ ClosingsTyped'
    BY <1>1 DEF OffersTyped, ClosingsTyped
  <1>3. token' \in Nat /\ limit' \in Nat
    BY LimitsAssumption DEF ResetStep, ResetRequest, SetLimit, ResetGate, ResetSockets, ResetMaps,
           ResetConnections, ResetClose, ResetForget, revoking
  <1>4. SocketsTyped'
    <2>1. ResetSockets \/ UNCHANGED socket
      BY DEF ResetStep, ResetRequest, SetLimit, ResetGate, ResetMaps, ResetConnections, ResetClose, ResetForget
    <2> QED BY <2>1, Revokes DEF SocketsTyped
  <1>5. DrainsTyped'
    <2>1. ResetSockets \/ ResetMaps \/ ResetConnections \/ ResetForget \/ UNCHANGED drained
      BY DEF ResetStep, ResetRequest, SetLimit, ResetGate, ResetClose, revoking
    <2> QED BY <2>1, ResetDrains DEF DrainsTyped
  <1>6. ClientsTyped'
    BY DEF ResetStep, ResetRequest, SetLimit, ResetGate, ResetSockets, ResetMaps, ResetConnections,
           ResetClose, ResetForget, ClientsTyped, clients
  <1>7. PeersTyped'
    BY DEF ResetStep, ResetRequest, SetLimit, ResetGate, ResetSockets, ResetMaps, ResetConnections,
           ResetClose, ResetForget, PeersTyped, Aborted, tables, Places
  <1>8. SetsTyped'
    BY DEF ResetStep, ResetRequest, SetLimit, ResetGate, ResetSockets, ResetMaps, ResetConnections,
           ResetClose, ResetForget, SetsTyped, tables
  <1> QED BY <1>2, <1>3, <1>4, <1>5, <1>6, <1>7, <1>8

LEMMA TypedStep == Typed /\ [Next]_vars => Typed'
  <1> SUFFICES ASSUME Typed, [Next]_vars PROVE Typed'
    OBVIOUS
  <1>1. CASE UNCHANGED vars
    BY <1>1 DEF Typed, SocketsTyped, OffersTyped, ClosingsTyped, DrainsTyped, ClientsTyped, PeersTyped,
                SetsTyped, vars, revoking, clients, tables
  <1>2. CASE \E o \in Offers, c \in Clients : Post(o, c)
    <2>1. UNCHANGED <<token, limit, socket, closing, drained, socketOf, clientPeer, peer, tables>>
      BY <1>2 DEF Post, revoking, clients, tables
    <2>2. SocketsTyped' /\ ClosingsTyped' /\ DrainsTyped' /\ ClientsTyped' /\ PeersTyped' /\ SetsTyped'
      BY <2>1 DEF Typed, SocketsTyped, ClosingsTyped, DrainsTyped, ClientsTyped, PeersTyped, SetsTyped, tables
    <2> QED BY <1>2, <2>1, <2>2, Posts DEF Typed
  <1>3. CASE \E k \in Sockets : \/ Arrival(k) \/ Disconnect(k) \/ HandlerStep(k)
                                \/ \E c \in Clients : LookUp(c)
    BY <1>3, TypedSockets
  <1>4. (\E c \in Clients : LookUp(c)) => \E k \in Sockets, c \in Clients : LookUp(c)
    BY DEF LookUp
  <1> QED BY <1>1, <1>2, <1>3, <1>4, TypedClose, TypedOffers, TypedControl DEF Next, TaskStep, Arrival

LEMMA TypedAlways == Spec => []Typed
  BY TypedStart, TypedStep, PTL DEF Spec

(***************************************************************************)
(* Revocation.                                                             *)
(***************************************************************************)
LEMMA RevocationStart == Init => RevocationInv
  <1> SUFFICES ASSUME Init PROVE RevocationInv
    OBVIOUS
  <1>1. GateInv
    BY DEF Init, GateInv
  <1>2. TokenInv
    BY DEF Init, TokenInv, Unused, HoldingGate
  <1>3. MapsInv
    BY DEF Init, MapsInv
  <1> QED BY <1>1, <1>2, <1>3, TypedStart DEF RevocationInv

RevocationParts == GateInv /\ TokenInv /\ MapsInv

LEMMA RevocationSockets ==
    ASSUME RevocationInv, ClientInv, NEW k \in Sockets,
           Arrival(k) \/ Disconnect(k) \/ HandlerStep(k) \/ \E c \in Clients : LookUp(c)
    PROVE  RevocationParts'
  <1>1. UNCHANGED <<token, reset, offer, connections, pending, bindings, clientPeer>>
    BY Arrives DEF Connect, Disconnect, HandlerStep, DisconnectClose, DisconnectForget, LookUp,
       revoking, tables, RevocationInv
  <1>2. GateInv' /\ MapsInv'
    BY <1>1 DEF RevocationInv, GateInv, MapsInv, GateEmpty, Current
  <1>3. \A o \in Offers : offer'[o].at \in HoldingGate => offer'[o].token = token'
    BY <1>1 DEF RevocationInv, TokenInv
  <1> DEFINE Sound(d) == socketOf'[d] # None =>
                /\ socket'[socketOf'[d]].client = d /\ socket'[socketOf'[d]].token = token'
                /\ socket'[socketOf'[d]].at \in {"open", "dead"}
  <1>4. \A d \in Clients : socketOf[d] # None =>
            /\ socketOf[d] \in Sockets /\ socket[socketOf[d]].client = d
            /\ socket[socketOf[d]].token = token /\ socket[socketOf[d]].at \in {"open", "dead"}
    BY DEF RevocationInv, TokenInv, Typed, ClientsTyped
  <1>5. ASSUME Connect(k) PROVE \A d \in Clients : Sound(d)
    <2> DEFINE c == socket[k].client
    <2>1. /\ socket[k].at \in Waiting
          /\ \A j \in Sockets : socket'[j].client = socket[j].client /\ socket'[j].token = socket[j].token
      BY <1>5, Connects DEF RevocationInv
    <2>2. CASE /\ socket[k].token = token /\ socketOf' = [socketOf EXCEPT ![c] = k]
               /\ socket'[k].at \in {"open", "dead"}
               /\ \A j \in Sockets \ {k} : socket'[j].at = IF j = socketOf[c] THEN "closed" ELSE socket[j].at
      <3>1. Sound(c)
        BY <1>1, <2>1, <2>2 DEF RevocationInv, Typed, ClientsTyped, ClientInv, Waiting
      <3>2. ASSUME NEW d \in Clients, d # c PROVE Sound(d)
        <4>1. socketOf'[d] = socketOf[d]
          BY <2>2, <3>2 DEF RevocationInv, Typed, ClientsTyped
        <4>2. c \in Clients
          BY <2>1 DEF ClientInv, Waiting
        <4>3. socketOf[d] # None => socketOf[d] # k /\ socketOf[d] # socketOf[c]
          BY <1>4, <2>1, <3>2, <4>2 DEF Waiting
        <4> QED BY <1>1, <1>4, <2>1, <2>2, <4>1, <4>3
      <3> QED BY <3>1, <3>2
    <2>3. CASE /\ UNCHANGED socketOf
               /\ \A j \in Sockets \ {k} : socket'[j].at = socket[j].at
      BY <1>1, <1>4, <2>1, <2>3 DEF Waiting
    <2> QED BY <1>5, <2>2, <2>3, Connects DEF RevocationInv
  <1>10. ASSUME Arrival(k) PROVE \A d \in Clients : Sound(d)
    <2>1. /\ UNCHANGED socketOf /\ socket[k].at \in {"unused", "waiting"}
          /\ \A j \in Sockets \ {k} : socket'[j] = socket[j]
      BY <1>10, Arrives DEF RevocationInv, clients
    <2> QED BY <1>1, <1>4, <2>1
  <1>6. ASSUME \E c \in Clients : LookUp(c) PROVE \A d \in Clients : Sound(d)
    BY <1>1, <1>6, <1>4 DEF LookUp
  <1>7. ASSUME Disconnect(k) PROVE \A d \in Clients : Sound(d)
    <2>1. /\ socketOf' = [socketOf EXCEPT ![socket[k].client] = None] /\ socket[k].at = "open"
          /\ SocketAt(k, "taken")
      BY <1>7 DEF Disconnect
    <2>2. \A j \in Sockets \ {k} : /\ socket'[j].client = socket[j].client
                                   /\ socket'[j].token = socket[j].token /\ socket'[j].at = socket[j].at
      BY <2>1, SocketMoves DEF RevocationInv, Typed, Places
    <2> QED BY <1>1, <1>4, <2>1, <2>2 DEF RevocationInv, Typed, ClientsTyped
  <1>8. ASSUME DisconnectClose(k) \/ DisconnectForget(k) PROVE \A d \in Clients : Sound(d)
    <2>1. /\ UNCHANGED socketOf /\ socket[k].at \notin {"open", "dead"}
          /\ \E place \in Places : SocketAt(k, place)
      BY <1>8 DEF DisconnectClose, DisconnectForget, clients, Places
    <2>2. \A j \in Sockets \ {k} : /\ socket'[j].client = socket[j].client
                                   /\ socket'[j].token = socket[j].token /\ socket'[j].at = socket[j].at
      BY <2>1, SocketMoves DEF RevocationInv, Typed
    <2> QED BY <1>1, <1>4, <2>1, <2>2
  <1>9. \A d \in Clients : Sound(d)
    BY <1>5, <1>6, <1>7, <1>8, <1>10 DEF HandlerStep
  <1> QED BY <1>2, <1>3, <1>9 DEF RevocationParts, TokenInv

LEMMA RevocationClose ==
    ASSUME RevocationInv, NEW c \in Clients, CloseStep(c)
    PROVE  RevocationParts'
  <1>1. /\ UNCHANGED <<token, reset, offer, socket, socketOf>>
        /\ connections' \subseteq connections /\ pending' \subseteq pending /\ bindings' \subseteq bindings
        /\ clientPeer' \in {clientPeer, [clientPeer EXCEPT ![c] = None]}
    BY DEF CloseStep, CloseTake, CloseRemove, CloseFinish, revoking, clients
  <1>2. GateInv' /\ TokenInv'
    BY <1>1 DEF RevocationInv, GateInv, TokenInv, GateEmpty
  <1>3. \A d \in Clients : clientPeer'[d] # None => clientPeer'[d] = clientPeer[d]
    BY <1>1 DEF RevocationInv, Typed, PeersTyped
  <1>4. MapsInv'
    BY <1>1, <1>3 DEF RevocationInv, MapsInv, Current
  <1> QED BY <1>2, <1>4 DEF RevocationParts

LEMMA RevocationOffers ==
    ASSUME RevocationInv, NEW o \in Offers,
           OfferStep(o) \/ OfferCancelled(o) \/ PeerFails(o) \/ PeerRelease(o)
    PROVE  RevocationParts'
  <1> DEFINE Granted == {p \in Offers : p = o /\ offer[o].at \in HoldingGate /\ offer'[o].at # "unused"}
  <1>1. /\ UNCHANGED <<token, reset, socket, socketOf>>
        /\ UNCHANGED offer \/ \E place \in Places \ {"unused"} : OfferAt(o, place)
    BY DEF OfferStep, OfferLock, OfferGate, OfferValidate, OfferReserve, OfferGathered, OfferFails,
           OfferInsert, OfferCommit, OfferCancelled, PeerFails, PeerRelease, revoking, clients, Places
  <1>2. /\ \A p \in Offers : /\ offer'[p].token = offer[p].token
                             /\ p # o => offer'[p].at = offer[p].at
        /\ offer[o].at # "unused" => offer'[o].at # "unused"
    BY <1>1, OfferMoves DEF RevocationInv, Typed, Places
  <1>3. /\ connections' \subseteq connections \cup Granted
        /\ pending' \subseteq pending \cup Granted
        /\ bindings' \subseteq bindings \cup Granted
        /\ \A d \in Clients : clientPeer'[d] \in {clientPeer[d], None} \cup Granted
    <2>1. offer'[o].at \in HoldingGate \/ UNCHANGED offer \/ offer'[o].at \in {"gate", "done"}
      <3> QED BY OfferMoves DEF RevocationInv, Typed, OfferStep, OfferLock, OfferGate, OfferValidate, OfferReserve,
             OfferGathered, OfferFails, OfferInsert, OfferCommit, OfferCancelled, PeerFails, PeerRelease,
             Places, HoldingGate
    <2>2. OfferReserve(o) \/ OfferInsert(o) \/ OfferCommit(o) => Granted = {o}
      BY <2>1 DEF OfferReserve, OfferInsert, OfferCommit, HoldingGate
    <2> HIDE DEF Granted
    <2>3. CASE OfferReserve(o) \/ OfferInsert(o) \/ OfferCommit(o)
      BY <2>2, <2>3 DEF OfferReserve, OfferInsert, OfferCommit, RevocationInv, Typed, PeersTyped
    <2>4. CASE ~(OfferReserve(o) \/ OfferInsert(o) \/ OfferCommit(o))
      BY <2>4 DEF OfferStep, OfferLock, OfferGate, OfferValidate, OfferGathered, OfferFails,
             DropReservation, OfferCancelled, PeerFails, PeerRelease, tables, RevocationInv, Typed, PeersTyped
    <2> QED BY <2>3, <2>4
  <1>4. offer'[o].at \in HoldingGate => offer[o].token = token
    <2>1. CASE offer[o].at \in HoldingGate \/ UNCHANGED offer
      BY <2>1 DEF RevocationInv, TokenInv
    <2>2. CASE OfferGate(o)
      BY <2>2, OfferMoves DEF OfferGate, RevocationInv, Typed, Places, HoldingGate
    <2>3. CASE OfferLock(o)
      BY <2>3, OfferMoves DEF OfferLock, RevocationInv, Typed, Places, HoldingGate
    <2> QED BY <2>1, <2>2, <2>3 DEF OfferStep, OfferValidate, OfferReserve, OfferGathered, OfferFails,
           OfferInsert, OfferCommit, OfferCancelled, PeerFails, PeerRelease, HoldingGate
  <1>5. TokenInv'
    BY <1>1, <1>2, <1>4 DEF RevocationInv, TokenInv
  <1>6. GateInv'
    <2>1. reset \notin {"idle", "gate"} => offer'[o].at \notin HoldingGate
      <3>1. CASE OfferGate(o)
        BY <3>1 DEF OfferGate, GateOpen
      <3>2. CASE OfferLock(o)
        BY <3>2, OfferMoves DEF OfferLock, RevocationInv, Typed, Places, HoldingGate
      <3>3. CASE offer[o].at \in HoldingGate \/ UNCHANGED offer
        BY <3>3 DEF RevocationInv, GateInv, GateEmpty
      <3> QED BY <3>1, <3>2, <3>3 DEF OfferStep, OfferValidate, OfferReserve, OfferGathered, OfferFails,
             OfferInsert, OfferCommit, OfferCancelled, PeerFails, PeerRelease, HoldingGate
    <2> QED BY <1>1, <1>2, <2>1 DEF RevocationInv, GateInv, GateEmpty
  <1>7. \A p \in Granted : offer'[p].token = token /\ offer'[p].at # "unused"
    BY <1>2 DEF RevocationInv, TokenInv
  <1>8. MapsInv'
    <2> HIDE DEF Granted
    <2>1. connections \subseteq Offers /\ pending \subseteq Offers /\ bindings \subseteq Offers
          /\ \A d \in Clients : clientPeer[d] \in Offers \cup {None}
      BY DEF RevocationInv, Typed, SetsTyped, PeersTyped
    <2> QED BY <1>1, <1>2, <1>3, <1>7, <2>1 DEF RevocationInv, MapsInv, Current
  <1> QED BY <1>5, <1>6, <1>8 DEF RevocationParts

LEMMA RevocationReset ==
    ASSUME RevocationInv, ResetStep
    PROVE  RevocationParts'
  <1>1. UNCHANGED offer
    BY DEF ResetStep, ResetGate, ResetSockets, ResetMaps, ResetConnections, ResetClose, ResetForget
  <1>2. GateInv'
    BY <1>1 DEF RevocationInv, GateInv, GateEmpty, ResetStep, ResetGate, ResetSockets, ResetMaps,
                ResetConnections, ResetClose, ResetForget, ResetAt
  <1>3. TokenInv'
    <2>1. CASE ResetSockets
      <3>1. \A o \in Offers : offer'[o].at \notin HoldingGate
        BY <1>1, <2>1 DEF ResetSockets, RevocationInv, GateInv, GateEmpty
      <3>2. \A c \in Clients : socketOf'[c] = None
        BY <2>1 DEF ResetSockets
      <3> QED BY <3>1, <3>2 DEF TokenInv
    <2>2. CASE ~ResetSockets
      <3>1. UNCHANGED <<token, socket, socketOf>>
        BY <2>2 DEF ResetStep, ResetGate, ResetMaps, ResetConnections, ResetClose, ResetForget, revoking, clients
      <3> QED BY <1>1, <3>1 DEF TokenInv, RevocationInv
    <2> QED BY <2>1, <2>2
  <1>4. MapsInv'
    <2>1. CASE ResetGate \/ ResetSockets
      BY <1>1, <2>1 DEF ResetGate, ResetSockets, ResetAt, RevocationInv, MapsInv, Current, tables
    <2>2. CASE ResetMaps
      BY <1>1, <2>2 DEF ResetMaps, ResetAt, RevocationInv, MapsInv, Current
    <2>3. CASE ResetConnections \/ ResetClose \/ ResetForget
      BY <1>1, <2>3 DEF ResetConnections, ResetClose, ResetForget, ResetAt, RevocationInv, MapsInv, Current, tables
    <2> QED BY <2>1, <2>2, <2>3 DEF ResetStep
  <1> QED BY <1>2, <1>3, <1>4 DEF RevocationParts

LEMMA RevocationStep == RevocationInv /\ ClientInv /\ [Next]_vars => RevocationInv'
  <1> SUFFICES ASSUME RevocationInv, ClientInv, [Next]_vars PROVE RevocationParts'
    BY TypedStep DEF RevocationInv, RevocationParts
  <1>1. CASE UNCHANGED vars
    BY <1>1 DEF RevocationInv, RevocationParts, GateInv, TokenInv, MapsInv, GateEmpty, Current, vars,
                revoking, clients, tables
  <1>2. CASE ResetRequest \/ \E n \in Limits : SetLimit(n)
    BY <1>2 DEF ResetRequest, SetLimit, ResetAt, RevocationInv, RevocationParts, GateInv, TokenInv, MapsInv,
                GateEmpty, Current, revoking, clients, tables
  <1>3. ASSUME NEW o \in Offers, NEW c \in Clients, Post(o, c) PROVE RevocationParts'
    <2>1. /\ offer[o].at = "unused"
          /\ UNCHANGED <<token, reset, connections, pending, bindings, clientPeer, socket, socketOf>>
      BY <1>3 DEF Post, revoking, clients, tables
    <2>2. /\ \A p \in Offers \ {o} : offer'[p] = offer[p]
          /\ offer'[o].token = token /\ offer'[o].at = "lock"
      BY <1>3, Posts DEF RevocationInv
    <2>3. connections \subseteq Offers /\ pending \subseteq Offers /\ bindings \subseteq Offers
          /\ \A d \in Clients : clientPeer[d] \in Offers \cup {None}
      BY DEF RevocationInv, Typed, SetsTyped, PeersTyped
    <2>4. GateInv' /\ TokenInv'
      BY <2>1, <2>2 DEF RevocationInv, GateInv, TokenInv, GateEmpty, HoldingGate
    <2>5. MapsInv'
      BY <2>1, <2>2, <2>3 DEF RevocationInv, MapsInv, Current
    <2> QED BY <2>4, <2>5 DEF RevocationParts
  <1>4. CASE \E k \in Sockets : \/ Arrival(k) \/ Disconnect(k) \/ HandlerStep(k)
                                \/ \E c \in Clients : LookUp(c)
    BY <1>4, RevocationSockets
  <1>5. (\E c \in Clients : LookUp(c)) => \E k \in Sockets, c \in Clients : LookUp(c)
    BY DEF LookUp
  <1> QED BY <1>1, <1>2, <1>3, <1>4, <1>5, RevocationClose, RevocationOffers, RevocationReset
         DEF Next, TaskStep, Arrival

(***************************************************************************)
(* Served only with a control socket.                                      *)
(***************************************************************************)

\* What every step does to an offer and to a socket.
LEMMA OffersAdvance ==
    ASSUME Typed, NEW o \in Offers,
           OfferStep(o) \/ OfferCancelled(o) \/ PeerFails(o) \/ PeerRelease(o)
    PROVE  /\ \A p \in Offers : offer'[p].client = offer[p].client /\ offer'[p].token = offer[p].token
           /\ \A p \in Offers \ {o} : offer'[p].at = offer[p].at
           /\ \/ offer[o].at # "unused" /\ offer'[o].at # "unused"
              \/ UNCHANGED offer
           /\ UNCHANGED <<socket, socketOf, reset, token, drained>>
  <1>1. UNCHANGED offer \/ \E place \in Places \ {"unused"} : OfferAt(o, place) /\ offer[o].at # "unused"
    BY DEF OfferStep, OfferLock, OfferGate, OfferValidate, OfferReserve, OfferGathered, OfferFails,
           OfferInsert, OfferCommit, OfferCancelled, PeerFails, PeerRelease, Places
  <1>2. UNCHANGED <<socket, socketOf, reset, token, drained>>
    BY DEF OfferStep, OfferLock, OfferGate, OfferValidate, OfferReserve, OfferGathered, OfferFails,
           OfferInsert, OfferCommit, OfferCancelled, PeerFails, PeerRelease, revoking, clients
  <1> QED BY <1>1, <1>2, OfferMoves DEF Typed, Places

LEMMA ClientStart == Init => ClientInv /\ ServedInv
  BY DEF Init, ClientInv, ServedInv, Unused, Serving

LEMMA ClientStep ==
    ASSUME RevocationInv, ClientInv, [Next]_vars
    PROVE  ClientInv'
  <1> USE DEF ClientInv
  <1>1. CASE UNCHANGED <<offer, socket>>
    BY <1>1
  <1>2. ASSUME NEW o \in Offers, OfferStep(o) \/ OfferCancelled(o) \/ PeerFails(o) \/ PeerRelease(o)
        PROVE ClientInv'
    BY <1>2, OffersAdvance DEF RevocationInv
  <1>3. ASSUME NEW o \in Offers, NEW c \in Clients, Post(o, c) PROVE ClientInv'
    <2>1. offer'[o].client = c /\ UNCHANGED socket /\ \A p \in Offers \ {o} : offer'[p] = offer[p]
      BY <1>3, Posts DEF RevocationInv, Post
    <2> QED BY <2>1
  <1>4. ASSUME NEW k \in Sockets, Arrival(k) PROVE ClientInv'
    <2>1. UNCHANGED offer /\ \A j \in Sockets \ {k} : socket'[j] = socket[j]
      BY <1>4, Arrives DEF RevocationInv
    <2>2. socket'[k].client \in Clients
      BY <1>4, Arrives DEF RevocationInv
    <2> QED BY <2>1, <2>2
  <1>5. ASSUME NEW k \in Sockets, Connect(k) PROVE ClientInv'
    <2> DEFINE c == socket[k].client
    <2>1. /\ UNCHANGED offer /\ c \in Clients
          /\ \A j \in Sockets : socket'[j].client = socket[j].client
          /\ \A j \in Sockets \ {k} : socket'[j].at \in {socket[j].at, "closed"}
                                      /\ (socket'[j].at = socket[j].at \/ j = socketOf[c])
      BY <1>5, Connects DEF RevocationInv, Connect, Waiting
    <2>2. \A j \in Sockets : j = socketOf[c] => socket[j].at # "unused"
      BY <2>1, NoneAssumption DEF Sockets, RevocationInv, TokenInv
    <2>3. socket[k].client \in Clients
      BY <2>1
    <2> HIDE DEF c
    <2> QED BY <2>1, <2>2, <2>3
  <1>10. ASSUME NEW k \in Sockets, Disconnect(k) \/ DisconnectClose(k) \/ DisconnectForget(k)
         PROVE ClientInv'
    <2>1. UNCHANGED offer /\ socket[k].at # "unused" /\ \E place \in Places : SocketAt(k, place)
      BY <1>10 DEF Disconnect, DisconnectClose, DisconnectForget, Places
    <2> QED BY <2>1, SocketMoves DEF RevocationInv, Typed
  <1>6. CASE ResetSockets
    <2>1. \A c \in Clients : socketOf[c] # None => socket[socketOf[c]].at # "unused"
      BY DEF RevocationInv, TokenInv
    <2>2. \A k \in Sockets : socket'[k].client = socket[k].client
                             /\ (socket[k].at = "unused" => socket'[k].at = "unused")
      BY <1>6, <2>1, Revokes, NoneAssumption DEF RevocationInv, Sockets
    <2> QED BY <1>6, <2>2 DEF ResetSockets
  <1>7. (\A c \in Clients : CloseStep(c) \/ LookUp(c) => UNCHANGED <<offer, socket>>)
    BY DEF CloseStep, CloseTake, CloseRemove, CloseFinish, LookUp
  <1>8. ResetRequest \/ (\E n \in Limits : SetLimit(n)) \/ (ResetStep /\ ~ResetSockets)
            => UNCHANGED <<offer, socket>>
    BY DEF ResetRequest, SetLimit, ResetStep, ResetGate, ResetMaps, ResetConnections, ResetClose, ResetForget
  <1>9. UNCHANGED vars => UNCHANGED <<offer, socket>>
    BY DEF vars
  <1> QED BY <1>1, <1>2, <1>3, <1>4, <1>5, <1>6, <1>7, <1>8, <1>9, <1>10
         DEF Next, TaskStep, HandlerStep, Arrival

LEMMA ServedSockets ==
    ASSUME SocketInv, NEW k \in Sockets,
           Arrival(k) \/ Disconnect(k) \/ HandlerStep(k) \/ \E c \in Clients : LookUp(c)
    PROVE  ServedInv'
  <1> DEFINE At(j, place) == socket[j].at = place
  <1>0. UNCHANGED <<offer, clientPeer, reset>>
    BY Arrives DEF SocketInv, RevocationInv, Connect, Disconnect, HandlerStep, DisconnectClose,
       DisconnectForget, LookUp, revoking, tables
  <1> USE DEF SocketInv, ServedInv, Taken, Departing
  <1>1. CASE Connect(k)
    <2> DEFINE c == socket[k].client
    <2>1. /\ At(k, "waiting") \/ At(k, "lost")
          /\ \A j \in Sockets : socket'[j].client = socket[j].client
          /\ \A j \in Sockets \ {k} : socket'[j].at = socket[j].at \/ j = socketOf[c]
          /\ UNCHANGED socketOf \/ socketOf' = [socketOf EXCEPT ![c] = k]
      BY <1>1, Connects DEF RevocationInv, Waiting
    <2>2. c \in Clients /\ UNCHANGED closing
      BY <1>1, <2>1 DEF ClientInv, Connect
    <2>3. socketOf[c] # None => At(socketOf[c], "open") \/ At(socketOf[c], "dead")
      BY <2>2 DEF RevocationInv, TokenInv
    <2>4. k # None /\ None \notin Sockets
      BY NoneAssumption DEF Sockets
    <2> HIDE DEF c
    <2>5. \A j \in Sockets : At(j, "taken") \/ At(j, "forget") =>
                /\ socket'[j].client = socket[j].client /\ socket'[j].at = socket[j].at
      BY <2>1, <2>3, <2>4
    <2>6. \A d \in Clients : socketOf[d] # None => socketOf'[d] # None
      BY <2>1, <2>4 DEF RevocationInv, Typed, ClientsTyped
    <2>7. \A d \in Clients : (Taken(d) => Taken(d)') /\ (Departing(d) => Departing(d)')
      BY <2>2, <2>5
    <2> QED BY <1>0, <2>6, <2>7 DEF ClientInv, Serving
  <1>6. CASE Arrival(k)
    <2>1. /\ At(k, "unused") \/ At(k, "waiting")
          /\ \A j \in Sockets \ {k} : socket'[j] = socket[j]
      BY <1>6, Arrives DEF RevocationInv, clients
    <2>2. UNCHANGED <<socketOf, closing>>
      BY <1>6, Arrives DEF RevocationInv, clients
    <2>3. \A d \in Clients : (Taken(d) => Taken(d)') /\ (Departing(d) => Departing(d)')
      BY <2>1, <2>2
    <2> QED BY <1>0, <2>2, <2>3 DEF ClientInv, Serving
  <1>2. CASE \E c \in Clients : LookUp(c)
    BY <1>0, <1>2 DEF LookUp
  <1>3. CASE Disconnect(k)
    <2>1. /\ socketOf' = [socketOf EXCEPT ![socket[k].client] = None] /\ UNCHANGED closing
          /\ SocketAt(k, "taken") /\ At(k, "open")
      BY <1>3 DEF Disconnect
    <2>2. \A j \in Sockets : /\ socket'[j].client = socket[j].client
                             /\ socket'[j].at = IF j = k THEN "taken" ELSE socket[j].at
      BY <2>1, SocketMoves DEF RevocationInv, Typed, Places
    <2>3. \A d \in Clients : (Taken(d) => Taken(d)') /\ (Departing(d) => Departing(d)')
      BY <2>1, <2>2
    <2>4. \A d \in Clients : socketOf'[d] = socketOf[d] \/ Taken(d)'
      BY <2>1, <2>2 DEF RevocationInv, Typed, ClientsTyped
    <2> QED BY <1>0, <2>3, <2>4 DEF ClientInv, Serving
  <1>4. CASE DisconnectClose(k)
    <2> DEFINE c == socket[k].client
    <2>1. /\ UNCHANGED socketOf /\ SocketAt(k, "forget") /\ CloseAt(c, "take")
          /\ At(k, "taken") /\ OfferLockFree(c)
      BY <1>4 DEF DisconnectClose, clients
    <2>2. \A j \in Sockets : /\ socket'[j].client = socket[j].client
                             /\ socket'[j].at = IF j = k THEN "forget" ELSE socket[j].at
      BY <2>1, SocketMoves DEF RevocationInv, Typed, Places
    <2>3. /\ c \in Clients /\ closing'[c].at = "take"
          /\ \A d \in Clients : d # c => closing'[d] = closing[d]
      BY <2>1, CloseMoves DEF RevocationInv, Typed, ClientInv, Places
    <2>4. \A o \in Offers : offer[o].at \in Serving => offer[o].client # c
      BY <2>1 DEF OfferLockFree, HoldingGate, Serving
    <2>5. \A d \in Clients : /\ d # c /\ Taken(d) => Taken(d)'
                             /\ Departing(d) => Departing(d)'
      BY <2>2, <2>3
    <2> QED BY <1>0, <2>1, <2>4, <2>5 DEF ClientInv, Serving
  <1>5. CASE DisconnectForget(k)
    <2>1. /\ UNCHANGED <<socketOf, closing>> /\ SocketAt(k, "closed")
          /\ At(k, "forget") /\ closing[socket[k].client].at # "take"
      BY <1>5 DEF DisconnectForget, Closed
    <2>2. \A j \in Sockets : /\ socket'[j].client = socket[j].client
                             /\ socket'[j].at = IF j = k THEN "closed" ELSE socket[j].at
      BY <2>1, SocketMoves DEF RevocationInv, Typed, Places
    <2>3. \A d \in Clients : (Taken(d) => Taken(d)') /\ (Departing(d) => Departing(d)')
      BY <2>1, <2>2
    <2> QED BY <1>0, <2>1, <2>3 DEF ClientInv, Serving
  <1> QED BY <1>1, <1>2, <1>3, <1>4, <1>5, <1>6 DEF HandlerStep

LEMMA ServedOffers ==
    ASSUME SocketInv, NEW o \in Offers,
           OfferStep(o) \/ OfferCancelled(o) \/ PeerFails(o) \/ PeerRelease(o)
    PROVE  ServedInv'
  <1> USE DEF SocketInv, ServedInv, Taken, Departing
  <1> DEFINE c == offer[o].client
  <1>1. /\ \A p \in Offers : offer'[p].client = offer[p].client
        /\ \A p \in Offers \ {o} : offer'[p].at = offer[p].at
        /\ UNCHANGED <<socket, socketOf, reset>>
    BY OffersAdvance DEF RevocationInv
  <1>2. offer'[o].at \in Serving => offer[o].at \in Serving \/ (offer[o].at = "validate" /\ socketOf[c] # None)
    BY OfferMoves DEF OfferStep, OfferLock, OfferGate, OfferValidate, OfferReserve, OfferGathered, OfferFails,
           OfferInsert, OfferCommit, OfferCancelled, PeerFails, PeerRelease, Places, Serving, RevocationInv, Typed
  <1>3. \A p \in Offers : offer'[p].at \in Serving =>
            socketOf[offer[p].client] # None \/ Taken(offer[p].client)
    BY <1>1, <1>2
  <1>4. \A d \in Clients : closing[d].at = "take" => closing'[d].at = "take"
    <2>1. c \in Clients \/ UNCHANGED closing
      BY DEF ClientInv, OfferStep, OfferLock, OfferGate, OfferValidate, OfferReserve, OfferGathered, OfferFails,
             OfferInsert, OfferCommit, OfferCancelled, PeerFails, PeerRelease
    <2>2. \/ UNCHANGED closing \/ CloseAt(c, "take")
          \/ closing' = [closing EXCEPT ![c] = Closed] /\ closing[c].at # "take"
      BY DEF OfferStep, OfferLock, OfferGate, OfferValidate, OfferReserve, OfferGathered, OfferFails,
             OfferInsert, OfferCommit, OfferCancelled, PeerFails, PeerRelease
    <2> QED BY <2>1, <2>2, CloseMoves, CloseEnds DEF RevocationInv, Typed, Places
  <1>5. \A d \in Clients : Departing(d) => Departing(d)'
    BY <1>1, <1>4
  <1>6. \A d \in Clients : clientPeer'[d] # None =>
            clientPeer[d] # None \/ (OfferCommit(o) /\ d = c)
    BY DEF OfferStep, OfferLock, OfferGate, OfferValidate, OfferReserve, OfferGathered, OfferFails,
           OfferInsert, OfferCommit, OfferCancelled, PeerFails, PeerRelease, tables, RevocationInv, Typed, PeersTyped
  <1>7. OfferCommit(o) => offer[o].at \in Serving
    BY DEF OfferCommit, Serving
  <1>8. \A p \in Offers : offer'[p].at \in Serving =>
            \/ socketOf'[offer'[p].client] # None
            \/ \E k \in Sockets : socket'[k].client = offer'[p].client /\ socket'[k].at = "taken"
    BY <1>1, <1>3
  <1>9. \A d \in Clients : clientPeer'[d] # None => socketOf'[d] # None \/ Departing(d)' \/ reset' = "maps"
    <2>1. ASSUME NEW d \in Clients, clientPeer[d] # None
          PROVE  socketOf'[d] # None \/ Departing(d)' \/ reset' = "maps"
      BY <1>1, <1>5, <2>1
    <2>2. OfferCommit(o) => socketOf[c] # None \/ Taken(c)
      BY <1>7
    <2> QED BY <1>1, <1>6, <2>1, <2>2
  <1> QED BY <1>8, <1>9

LEMMA ServedStep ==
    ASSUME SocketInv, [Next]_vars
    PROVE  ServedInv'
  <1> USE DEF SocketInv, ServedInv, Taken, Departing
  <1>1. CASE UNCHANGED vars
    BY <1>1 DEF vars, revoking, clients, tables
  <1>2. ASSUME NEW o \in Offers, NEW c \in Clients, Post(o, c) PROVE ServedInv'
    <2>1. /\ \A p \in Offers \ {o} : offer'[p] = offer[p]
          /\ offer'[o].at = "lock" /\ UNCHANGED <<socket, socketOf, closing, clientPeer, reset>>
      BY <1>2, Posts DEF RevocationInv, Post, revoking, clients, tables
    <2> QED BY <2>1 DEF Serving
  <1>3. ASSUME NEW c \in Clients, CloseStep(c) PROVE ServedInv'
    <2>1. UNCHANGED <<socket, socketOf, offer, reset>>
      BY <1>3 DEF CloseStep, CloseTake, CloseRemove, CloseFinish, revoking, clients
    <2>2. CASE CloseTake(c)
      <3>1. clientPeer' = [clientPeer EXCEPT ![c] = None] /\ \A d \in Clients \ {c} : closing'[d] = closing[d]
        BY <2>2, CloseTakes DEF CloseTake, RevocationInv
      <3> QED BY <2>1, <3>1 DEF RevocationInv, Typed, PeersTyped
    <2>3. CASE CloseRemove(c) \/ CloseFinish(c)
      <3>1. UNCHANGED clientPeer /\ closing[c].at # "take"
        BY <2>3 DEF CloseRemove, CloseFinish
      <3>2. \A d \in Clients \ {c} : closing'[d] = closing[d]
        BY <2>3, CloseRemoves, CloseEnds DEF CloseFinish, RevocationInv
      <3> QED BY <2>1, <3>1, <3>2
    <2> QED BY <1>3, <2>2, <2>3 DEF CloseStep
  <1>4. CASE ResetSockets
    <2>1. UNCHANGED <<offer, clientPeer>> /\ reset' = "maps" /\ reset \notin {"idle", "gate"}
      BY <1>4 DEF ResetSockets, ResetAt, tables
    <2>2. \A o \in Offers : offer[o].at \notin Serving
      BY <2>1 DEF RevocationInv, GateInv, GateEmpty, HoldingGate, Serving
    <2> QED BY <2>1, <2>2
  <1>5. CASE ResetMaps
    BY <1>5 DEF ResetMaps, ResetAt, clients
  <1>6. CASE ResetGate \/ ResetConnections \/ ResetClose \/ ResetForget \/ ResetRequest \/ \E n \in Limits : SetLimit(n)
    BY <1>6 DEF ResetGate, ResetConnections, ResetClose, ResetForget, ResetRequest, SetLimit, ResetAt,
                revoking, clients, tables
  <1>7. CASE \E k \in Sockets : \/ Arrival(k) \/ Disconnect(k) \/ HandlerStep(k)
                                \/ \E c \in Clients : LookUp(c)
    BY <1>7, ServedSockets
  <1>8. (\E c \in Clients : LookUp(c)) => \E k \in Sockets, c \in Clients : LookUp(c)
    BY DEF LookUp
  <1> QED BY <1>1, <1>2, <1>3, <1>4, <1>5, <1>6, <1>7, <1>8, ServedOffers
         DEF Next, TaskStep, ResetStep, Arrival

(***************************************************************************)
(* What a connection holds is released.                                    *)
(***************************************************************************)
ReleaseParts == LockInv /\ StageInv /\ BindingInv /\ ClosingInv /\ ResetInv /\ OwnedInv

LEMMA NoneIsNoOffer == None \notin Offers /\ None \notin Sockets
  BY NoneAssumption DEF Offers, Sockets

LEMMA LockFrame ==
    ASSUME LockInv,
           \A p \in Offers : Locks(p)' => Locks(p) /\ offer'[p].client = offer[p].client,
           \A j \in Sockets : Forgets(j)' => Forgets(j) /\ socket'[j].client = socket[j].client
    PROVE  LockInv'
  <1>1. \A o, p \in Offers : Locks(o)' /\ Locks(p)' /\ offer'[o].client = offer'[p].client => o = p
    BY DEF LockInv
  <1>2. \A j, k \in Sockets : Forgets(j)' /\ Forgets(k)' /\ socket'[j].client = socket'[k].client => j = k
    BY DEF LockInv
  <1>3. \A o \in Offers, k \in Sockets : Locks(o)' /\ Forgets(k)' => offer'[o].client # socket'[k].client
    BY DEF LockInv
  <1> QED BY <1>1, <1>2, <1>3 DEF LockInv

\* Nothing that the other parts speak of changes.
LEMMA HeldFrame ==
    ASSUME StageInv, BindingInv, ResetInv, OwnedInv,
           UNCHANGED <<offer, connections, pending, bindings, subscribed, endpoints, clientPeer, peer,
                       reset, token, drained, abandoned, closing>>
    PROVE  StageInv' /\ BindingInv' /\ ResetInv' /\ OwnedInv'
  BY DEF StageInv, BindingInv, ResetInv, OwnedInv, Owned, Closes, Holders, Acquired

LEMMA ReleaseStart == Init => ReleaseParts
  <1> SUFFICES ASSUME Init PROVE ReleaseParts
    OBVIOUS
  <1> USE DEF Init, Unused
  <1>1. LockInv
    BY DEF LockInv, Locks, Forgets, HoldingGate
  <1>2. StageInv
    BY DEF StageInv, Reserved, Holders, Acquired
  <1>3. BindingInv
    BY DEF BindingInv, Reserved
  <1>4. ClosingInv
    BY DEF ClosingInv, Closes, Closed
  <1>5. ResetInv
    BY DEF ResetInv
  <1>6. OwnedInv
    BY DEF OwnedInv
  <1> QED BY <1>1, <1>2, <1>3, <1>4, <1>5, <1>6 DEF ReleaseParts

LEMMA ReleaseSockets ==
    ASSUME ReleaseInv, NEW k \in Sockets,
           \/ Arrival(k) \/ Connect(k) \/ Disconnect(k) \/ DisconnectForget(k)
           \/ \E c \in Clients : LookUp(c)
    PROVE  ReleaseParts'
  <1>1. UNCHANGED <<offer, tables, peer, reset, token, drained, abandoned, closing>>
    BY Arrives DEF ReleaseInv, RevocationInv, Connect, Disconnect, DisconnectForget, LookUp, revoking
  <1>2. StageInv' /\ BindingInv' /\ ResetInv' /\ OwnedInv'
    BY <1>1, HeldFrame DEF ReleaseInv, tables
  <1>3. /\ \A j \in Sockets : Forgets(j)' => Forgets(j) /\ socket'[j].client = socket[j].client
        /\ \A j \in Sockets : Forgets(j) => \/ Forgets(j)' /\ socket'[j].client = socket[j].client
                                            \/ closing[socket[j].client].at = "none"
    <2>1. CASE Connect(k)
      <3>1. /\ ~Forgets(k) /\ ~Forgets(k)' /\ socket[k].client \in Clients
            /\ \A j \in Sockets : socket'[j].client = socket[j].client
            /\ \A j \in Sockets \ {k} : socket'[j].at = socket[j].at
                    \/ (j = socketOf[socket[k].client] /\ socket'[j].at = "closed")
        BY <2>1, Connects DEF ReleaseInv, RevocationInv, ClientInv, Forgets, Waiting
      <3>2. \A j \in Sockets : j = socketOf[socket[k].client] => ~Forgets(j)
        BY <3>1, NoneIsNoOffer DEF ReleaseInv, RevocationInv, TokenInv, Forgets
      <3> QED BY <3>1, <3>2 DEF Forgets
    <2>2. CASE Arrival(k)
      <3>1. ~Forgets(k) /\ ~Forgets(k)' /\ \A j \in Sockets \ {k} : socket'[j] = socket[j]
        BY <2>2, Arrives DEF ReleaseInv, RevocationInv, Forgets, Waiting
      <3> QED BY <3>1 DEF Forgets
    <2>3. CASE \E c \in Clients : LookUp(c)
      BY <2>3 DEF LookUp, Forgets
    <2>4. CASE Disconnect(k)
      BY <2>4, SocketMoves DEF Disconnect, Forgets, ReleaseInv, RevocationInv, Typed, Places
    <2>5. CASE DisconnectForget(k)
      BY <2>5, SocketMoves DEF DisconnectForget, Forgets, ReleaseInv, RevocationInv, Typed, Places, Closed
    <2> QED BY <2>1, <2>2, <2>3, <2>4, <2>5
  <1>4. LockInv'
    BY <1>1, <1>3, LockFrame DEF ReleaseInv, Locks
  <1>5. ClosingInv'
    BY <1>1, <1>3 DEF ReleaseInv, ClosingInv, Closes, tables
  <1> QED BY <1>2, <1>4, <1>5 DEF ReleaseParts

\* A client whose lock is free has nothing closing.
LEMMA FreeLockNotClosing ==
    ASSUME ReleaseInv, NEW c \in Clients, OfferLockFree(c)
    PROVE  /\ closing[c].at = "none" /\ closing[c] = Closed
           /\ \A o \in Offers : offer[o].client = c => ~Locks(o)
           /\ \A k \in Sockets : socket[k].client = c => ~Forgets(k)
  <1>1. /\ \A o \in Offers : offer[o].client = c => ~Locks(o)
        /\ \A k \in Sockets : socket[k].client = c => ~Forgets(k)
    BY DEF OfferLockFree, Locks, Forgets
  <1>2. closing[c].at = "none"
    BY <1>1 DEF ReleaseInv, ClosingInv, Locks, HoldingGate
  <1> QED BY <1>1, <1>2 DEF ReleaseInv, ClosingInv

LEMMA ReleaseDisconnectClose ==
    ASSUME ReleaseInv, NEW k \in Sockets, DisconnectClose(k)
    PROVE  ReleaseParts'
  <1> DEFINE c == socket[k].client
  <1>1. /\ c \in Clients /\ OfferLockFree(c)
        /\ UNCHANGED <<offer, tables, peer, reset, token, drained, abandoned>>
        /\ SocketAt(k, "forget") /\ CloseAt(c, "take")
    BY DEF DisconnectClose, ReleaseInv, ClientInv, revoking
  <1>2. /\ closing[c].at = "none"
        /\ \A o \in Offers : offer[o].client = c => ~Locks(o)
        /\ \A j \in Sockets : socket[j].client = c => ~Forgets(j)
    BY <1>1, FreeLockNotClosing
  <1>3. \A j \in Sockets : /\ socket'[j].client = socket[j].client
                           /\ Forgets(j)' <=> Forgets(j) \/ j = k
    BY <1>1, SocketMoves DEF ReleaseInv, RevocationInv, Typed, Places, Forgets
  <1>4. closing'[c].at = "take" /\ \A d \in Clients : d # c => closing'[d] = closing[d]
    BY <1>1, CloseMoves DEF ReleaseInv, RevocationInv, Typed, Places
  <1>5. LockInv'
    BY <1>1, <1>2, <1>3 DEF ReleaseInv, LockInv, Locks
  <1>6. StageInv' /\ ResetInv'
    BY <1>1 DEF ReleaseInv, StageInv, ResetInv, Holders, Acquired, tables
  <1>7. BindingInv'
    BY <1>1, <1>2, <1>4 DEF ReleaseInv, BindingInv, Locks, HoldingGate, Reserved, ClientInv, tables
  <1>8. \A d \in Clients, o \in Offers : Closes(d, o)' <=> Closes(d, o)
    BY <1>2, <1>4 DEF Closes
  <1>9. ClosingInv'
    <2> DEFINE Waits(d) == \/ \E o \in Offers : offer'[o].client = d /\ offer'[o].at = "reserve"
                           \/ \E j \in Sockets : socket'[j].client = d /\ Forgets(j)'
    <2>1. Waits(c)
      BY <1>3
    <2>2. \A d \in Clients : d # c /\ closing'[d].at # "none" => Waits(d)
      BY <1>1, <1>3, <1>4 DEF ReleaseInv, ClosingInv
    <2>3. \A d \in Clients : /\ closing'[d].at = "none" => closing'[d] = Closed
                            /\ closing'[d].at \in {"none", "take", "remove", "close"}
      BY <1>4 DEF ReleaseInv, ClosingInv
    <2>4. \A d \in Clients, o \in Offers : Closes(d, o)' =>
                /\ offer'[o].at = "done" /\ offer'[o].client = d
                /\ o \notin bindings' /\ closing'[d].bound = TRUE
                /\ closing'[d].at = "close" => o \notin connections'
      BY <1>1, <1>2, <1>4, <1>8 DEF ReleaseInv, ClosingInv, tables, Closes
    <2> HIDE DEF Waits
    <2>5. \A d \in Clients : closing'[d].at # "none" => Waits(d)
      BY <2>1, <2>2
    <2> QED BY <2>3, <2>4, <2>5 DEF ClosingInv, Waits
  <1>10. OwnedInv'
    BY <1>1, <1>8 DEF ReleaseInv, OwnedInv, Owned, ClientInv, Acquired, tables
  <1> QED BY <1>5, <1>6, <1>7, <1>9, <1>10 DEF ReleaseParts

LEMMA ReleaseCloseTake ==
    ASSUME ReleaseInv, NEW c \in Clients, CloseTake(c)
    PROVE  ReleaseParts'
  <1> DEFINE conn == clientPeer[c]
  <1>1. /\ closing[c].at = "take" /\ bindings' = bindings \ {conn}
        /\ clientPeer' = [clientPeer EXCEPT ![c] = None]
        /\ UNCHANGED <<offer, socket, connections, pending, subscribed, endpoints, peer, reset, token,
                       drained, abandoned>>
    BY DEF CloseTake, revoking
  <1>2. /\ conn = None => closing'[c] = Closed
        /\ conn # None => /\ closing'[c].at = "remove" /\ closing'[c].conn = conn
                          /\ closing'[c].bound = (conn \in bindings)
        /\ \A d \in Clients : d # c => closing'[d] = closing[d]
    BY CloseTakes DEF ReleaseInv, RevocationInv
  <1>3. conn # None => conn \in bindings /\ conn \in Offers /\ offer[conn].client = c /\ offer[conn].at = "done"
    BY DEF ReleaseInv, BindingInv, RevocationInv, Typed, PeersTyped
  <1>4. /\ clientPeer'[c] = None /\ \A d \in Clients : d # c => clientPeer'[d] = clientPeer[d]
        /\ bindings \subseteq Offers /\ None \notin Offers
    BY <1>1, NoneIsNoOffer DEF ReleaseInv, RevocationInv, Typed, PeersTyped, SetsTyped
  <1>5. LockInv'
    BY <1>1, LockFrame DEF ReleaseInv, Locks, Forgets
  <1>6. StageInv' /\ ResetInv'
    BY <1>1, <1>4 DEF ReleaseInv, StageInv, ResetInv, Holders, Acquired
  <1>7. BindingInv'
    <2>1. \A o \in bindings' : offer[o].client # c
      BY <1>1, <1>4 DEF ReleaseInv, BindingInv
    <2>2. \A o \in bindings' :
            /\ offer'[o].at = "done" /\ clientPeer'[offer'[o].client] = o
            /\ \/ peer'[o] = "failed"
               \/ peer'[o] = "live" /\ o \in connections' /\ o \in subscribed' /\ o \in endpoints'
      BY <1>1, <1>4, <2>1 DEF ReleaseInv, BindingInv, ClientInv
    <2>3. \A d \in Clients : clientPeer'[d] # None =>
            clientPeer'[d] \in bindings' /\ offer'[clientPeer'[d]].client = d
      BY <1>1, <1>3, <1>4 DEF ReleaseInv, BindingInv
    <2>4. \A o \in Offers :
            \/ offer'[o].at \in Reserved
            \/ offer'[o].at = "reserve" /\ closing'[offer'[o].client].at # "take"
            => clientPeer'[offer'[o].client] = None
      BY <1>1, <1>2, <1>4 DEF ReleaseInv, BindingInv, ClientInv, Reserved
    <2> QED BY <2>2, <2>3, <2>4 DEF BindingInv
  <1>8. \A d \in Clients, o \in Offers : Closes(d, o)' <=> Closes(d, o) \/ (d = c /\ o = conn)
    BY <1>1, <1>2, <1>4 DEF Closes, Closed
  <1>9. ClosingInv'
    <2>1. \A d \in Clients : /\ closing'[d].at = "none" => closing'[d] = Closed
                            /\ closing'[d].at \in {"none", "take", "remove", "close"}
      BY <1>2, ClosedHasNoConnection DEF ReleaseInv, ClosingInv
    <2>2. \A d \in Clients, o \in Offers : Closes(d, o)' =>
                /\ offer'[o].at = "done" /\ offer'[o].client = d
                /\ o \notin bindings' /\ closing'[d].bound = TRUE
                /\ closing'[d].at = "close" => o \notin connections'
      <3>1. \A o \in Offers : Closes(c, o)' => o = conn /\ conn # None
        BY <1>1, <1>4, <1>8 DEF Closes
      <3>2. conn # None => closing'[c].bound = TRUE /\ closing'[c].at = "remove" /\ conn \notin bindings'
        BY <1>1, <1>2, <1>3
      <3>3. ASSUME NEW d \in Clients, d # c, NEW o \in Offers, Closes(d, o)
            PROVE  o \notin bindings /\ closing[d].bound = TRUE /\ offer[o].at = "done" /\ offer[o].client = d
                   /\ (closing[d].at = "close" => o \notin connections)
        BY <3>3 DEF ReleaseInv, ClosingInv
      <3>4. \A o \in Offers : Closes(c, o)' =>
                /\ offer'[o].at = "done" /\ offer'[o].client = c
                /\ o \notin bindings' /\ closing'[c].bound = TRUE
                /\ closing'[c].at = "close" => o \notin connections'
        BY <1>1, <1>3, <3>1, <3>2
      <3>5. \A d \in Clients, o \in Offers : d # c /\ Closes(d, o)' =>
                /\ offer'[o].at = "done" /\ offer'[o].client = d
                /\ o \notin bindings' /\ closing'[d].bound = TRUE
                /\ closing'[d].at = "close" => o \notin connections'
        <4> SUFFICES ASSUME NEW d \in Clients, NEW o \in Offers, d # c, Closes(d, o)'
                     PROVE  /\ offer'[o].at = "done" /\ offer'[o].client = d
                            /\ o \notin bindings' /\ closing'[d].bound = TRUE
                            /\ closing'[d].at = "close" => o \notin connections'
          OBVIOUS
        <4>1. Closes(d, o) /\ closing'[d] = closing[d] /\ offer' = offer /\ connections' = connections
              /\ bindings' \subseteq bindings
          BY <1>1, <1>2, <1>8
        <4> QED BY <3>3, <4>1, ZenonT(40)
      <3> QED BY <3>4, <3>5
    <2>3. \A d \in Clients : closing'[d].at # "none" =>
            \/ \E o \in Offers : offer'[o].client = d /\ offer'[o].at = "reserve"
            \/ \E k \in Sockets : socket'[k].client = d /\ Forgets(k)'
      BY <1>1, <1>2 DEF ReleaseInv, ClosingInv, Forgets
    <2> QED BY <2>1, <2>2, <2>3 DEF ClosingInv
  <1>10. OwnedInv'
    <2>1. ASSUME NEW o \in Offers, offer[o].at = "done", o \in Acquired, o \notin bindings' PROVE Owned(o)'
      <3>1. CASE o \in bindings
        <4>1. o = conn /\ offer[o].client = c
          BY <1>1, <1>3, <1>4, <3>1, <2>1
        <4>2. peer[o] = "live"
          BY <2>1, <3>1 DEF ReleaseInv, BindingInv, StageInv
        <4> QED BY <1>1, <1>8, <4>1, <4>2 DEF Owned
      <3>2. CASE o \notin bindings
        BY <1>1, <1>8, <2>1, <3>2 DEF Owned, ReleaseInv, OwnedInv, ClientInv
      <3> QED BY <3>1, <3>2
    <2> QED BY <1>1, <2>1 DEF OwnedInv, Acquired
  <1> QED BY <1>5, <1>6, <1>7, <1>9, <1>10 DEF ReleaseParts

LEMMA ReleaseCloseRemove ==
    ASSUME ReleaseInv, NEW c \in Clients, CloseRemove(c)
    PROVE  ReleaseParts'
  <1> DEFINE conn == closing[c].conn
  <1>1. /\ closing[c].at = "remove" /\ connections' = connections \ {conn}
        /\ UNCHANGED <<offer, socket, pending, bindings, clientPeer, subscribed, endpoints, peer, reset,
                       token, drained, abandoned>>
    BY DEF CloseRemove, revoking, clients
  <1>2. /\ closing'[c].at = "close" /\ closing'[c].conn = conn /\ closing'[c].bound = closing[c].bound
        /\ \A d \in Clients : d # c => closing'[d] = closing[d]
    BY CloseRemoves DEF ReleaseInv, RevocationInv
  <1>3. conn \in Offers => conn \notin bindings /\ offer[conn].at = "done"
    BY <1>1 DEF ReleaseInv, ClosingInv, Closes
  <1>4. LockInv'
    BY <1>1, LockFrame DEF ReleaseInv, Locks, Forgets
  <1>5. StageInv'
    BY <1>1, <1>3 DEF ReleaseInv, StageInv, Holders, Acquired, Reserved
  <1>6. ResetInv'
    BY <1>1 DEF ReleaseInv, ResetInv
  <1>7. BindingInv'
    <2>1. \A o \in bindings : o # conn
      BY <1>3 DEF ReleaseInv, RevocationInv, Typed, SetsTyped
    <2> QED BY <1>1, <1>2, <2>1 DEF ReleaseInv, BindingInv, ClientInv
  <1>8. \A d \in Clients, o \in Offers : Closes(d, o)' <=> Closes(d, o)
    BY <1>1, <1>2 DEF Closes
  <1>9. ClosingInv'
    <2>1. \A d \in Clients : /\ closing'[d].at = "none" => closing'[d] = Closed
                            /\ closing'[d].at \in {"none", "take", "remove", "close"}
      BY <1>2 DEF ReleaseInv, ClosingInv
    <2>2. \A d \in Clients, o \in Offers : Closes(d, o)' =>
                /\ offer'[o].at = "done" /\ offer'[o].client = d
                /\ o \notin bindings' /\ closing'[d].bound = TRUE
                /\ closing'[d].at = "close" => o \notin connections'
      <3>1. \A o \in Offers : Closes(c, o) => o = conn
        BY DEF Closes
      <3> QED BY <1>1, <1>2, <1>8, <3>1 DEF ReleaseInv, ClosingInv
    <2>3. \A d \in Clients : closing'[d].at # "none" =>
            \/ \E o \in Offers : offer'[o].client = d /\ offer'[o].at = "reserve"
            \/ \E k \in Sockets : socket'[k].client = d /\ Forgets(k)'
      BY <1>1, <1>2 DEF ReleaseInv, ClosingInv, Forgets
    <2> QED BY <2>1, <2>2, <2>3 DEF ClosingInv
  <1>10. OwnedInv'
    BY <1>1, <1>8 DEF ReleaseInv, OwnedInv, Owned, ClientInv, Acquired
  <1> QED BY <1>4, <1>5, <1>6, <1>7, <1>9, <1>10 DEF ReleaseParts

LEMMA ReleaseCloseFinish ==
    ASSUME ReleaseInv, NEW c \in Clients, CloseFinish(c)
    PROVE  ReleaseParts'
  <1> DEFINE conn == closing[c].conn
  <1>1. /\ closing[c].at = "close" /\ closing' = [closing EXCEPT ![c] = Closed]
        /\ pending' = pending \ {conn} /\ endpoints' = endpoints \ {conn}
        /\ subscribed' \subseteq subscribed /\ subscribed \subseteq subscribed' \cup {conn}
        /\ closing[c].bound => subscribed' = subscribed \ {conn}
        /\ UNCHANGED <<offer, socket, connections, bindings, clientPeer, reset, token, drained, abandoned>>
    BY DEF CloseFinish, revoking, clients
  <1>2. closing'[c] = Closed /\ \A d \in Clients : d # c => closing'[d] = closing[d]
    BY <1>1, CloseEnds DEF ReleaseInv, RevocationInv
  <1>3. \A o \in Offers : /\ o # conn => peer'[o] = peer[o]
                          /\ peer'[o] # peer[o] => peer[o] = "live" /\ peer'[o] = "off"
    BY DEF CloseFinish, Aborted
  <1>4. conn \in Offers => /\ conn \notin bindings /\ offer[conn].at = "done"
                           /\ conn \notin connections /\ closing[c].bound = TRUE
    BY <1>1 DEF ReleaseInv, ClosingInv, Closes
  <1>5. LockInv'
    BY <1>1, LockFrame DEF ReleaseInv, Locks, Forgets
  <1>6. StageInv'
    BY <1>1, <1>3, <1>4 DEF ReleaseInv, StageInv, Holders, Acquired, Reserved
  <1>7. ResetInv'
    BY <1>1, <1>3 DEF ReleaseInv, ResetInv
  <1>8. BindingInv'
    <2>1. \A o \in bindings : o # conn /\ o \in Offers
      BY <1>4 DEF ReleaseInv, RevocationInv, Typed, SetsTyped
    <2>2. \A o \in bindings' :
            /\ offer'[o].at = "done" /\ clientPeer'[offer'[o].client] = o
            /\ \/ peer'[o] = "failed"
               \/ peer'[o] = "live" /\ o \in connections' /\ o \in subscribed' /\ o \in endpoints'
      BY <1>1, <1>3, <2>1 DEF ReleaseInv, BindingInv
    <2>3. \A o \in Offers : offer[o].at = "reserve" /\ closing'[offer[o].client].at # "take" =>
                                closing[offer[o].client].at # "take"
      BY <1>1, <1>2 DEF ReleaseInv, ClientInv
    <2> QED BY <1>1, <2>2, <2>3 DEF ReleaseInv, BindingInv
  <1>9. \A d \in Clients, o \in Offers : Closes(d, o)' <=> Closes(d, o) /\ d # c
    BY <1>1, <1>2 DEF Closes, Closed
  <1>10. ClosingInv'
    <2>1. \A d \in Clients : /\ closing'[d].at = "none" => closing'[d] = Closed
                            /\ closing'[d].at \in {"none", "take", "remove", "close"}
      BY <1>2, ClosedHasNoConnection DEF ReleaseInv, ClosingInv
    <2>2. \A d \in Clients, o \in Offers : Closes(d, o)' =>
                /\ offer'[o].at = "done" /\ offer'[o].client = d
                /\ o \notin bindings' /\ closing'[d].bound = TRUE
                /\ closing'[d].at = "close" => o \notin connections'
      BY <1>1, <1>2, <1>9 DEF ReleaseInv, ClosingInv
    <2>3. \A d \in Clients : closing'[d].at # "none" =>
            \/ \E o \in Offers : offer'[o].client = d /\ offer'[o].at = "reserve"
            \/ \E k \in Sockets : socket'[k].client = d /\ Forgets(k)'
      BY <1>1, <1>2 DEF ReleaseInv, ClosingInv, Forgets, Closed
    <2> QED BY <2>1, <2>2, <2>3 DEF ClosingInv
  <1>11. OwnedInv'
    <2>1. ASSUME NEW o \in Offers, offer[o].at = "done", o \in Acquired', o \notin bindings PROVE Owned(o)'
      <3>1. o # conn /\ o \in Acquired
        BY <1>1, <1>4, <2>1 DEF Acquired
      <3>2. Owned(o) /\ offer[o].client \in Clients
        BY <2>1, <3>1 DEF ReleaseInv, OwnedInv, ClientInv
      <3>3. \A d \in Clients : Closes(d, o) => Closes(d, o)'
        BY <1>9, <3>1 DEF Closes
      <3> QED BY <1>1, <1>3, <3>1, <3>2, <3>3 DEF Owned
    <2> QED BY <1>1, <2>1 DEF OwnedInv
  <1> QED BY <1>5, <1>6, <1>7, <1>8, <1>10, <1>11 DEF ReleaseParts

\* The offer that has the lock of its client is the only one who closes its peer.
LEMMA LockHolder ==
    ASSUME ReleaseInv, NEW o \in Offers, Locks(o)
    PROVE  /\ offer[o].client \in Clients
           /\ \A p \in Offers : Locks(p) /\ offer[p].client = offer[o].client => p = o
           /\ \A k \in Sockets : Forgets(k) => socket[k].client # offer[o].client
           /\ closing[offer[o].client].at # "none" => offer[o].at = "reserve"
  <1>1. /\ offer[o].client \in Clients
        /\ \A p \in Offers : Locks(p) /\ offer[p].client = offer[o].client => p = o
        /\ \A k \in Sockets : Forgets(k) => socket[k].client # offer[o].client
    BY DEF ReleaseInv, ClientInv, LockInv, Locks, HoldingGate
  <1>2. \A p \in Offers : offer[p].at = "reserve" => Locks(p)
    BY DEF Locks, HoldingGate
  <1> QED BY <1>1, <1>2 DEF ReleaseInv, ClosingInv

\* The moves of an offer that leave the tables alone.
LEMMA ReleaseOfferWaits ==
    ASSUME ReleaseInv, NEW o \in Offers, OfferLock(o) \/ OfferGate(o) \/ OfferGathered(o)
    PROVE  ReleaseParts'
  <1>1. /\ UNCHANGED <<socket, connections, pending, bindings, subscribed, endpoints, clientPeer, peer,
                       reset, token, drained, abandoned, closing>>
        /\ \E place \in Places : OfferAt(o, place)
    BY DEF OfferLock, OfferGate, OfferGathered, revoking, clients, tables, Places
  <1>2. /\ \A p \in Offers : offer'[p].client = offer[p].client /\ offer'[p].token = offer[p].token
        /\ \A p \in Offers : p # o => offer'[p].at = offer[p].at
        /\ \/ offer[o].at = "lock" /\ offer'[o].at = "gate"
           \/ offer[o].at = "gate" /\ offer'[o].at \in {"validate", "done"}
           \/ offer[o].at = "build" /\ offer'[o].at = "insert"
    BY OfferMoves DEF OfferLock, OfferGate, OfferGathered, ReleaseInv, RevocationInv, Typed, Places
  <1>3. LockInv'
    <2>1. CASE OfferLock(o)
      <3>1. offer[o].client \in Clients /\ OfferLockFree(offer[o].client)
        BY <2>1 DEF OfferLock, ReleaseInv, ClientInv
      <3>2. /\ \A p \in Offers : offer[p].client = offer[o].client => ~Locks(p)
            /\ \A k \in Sockets : socket[k].client = offer[o].client => ~Forgets(k)
        BY <3>1, FreeLockNotClosing
      <3> QED BY <1>1, <1>2, <3>2 DEF ReleaseInv, LockInv, Locks, Forgets
    <2>2. CASE ~OfferLock(o)
      <3>1. \A p \in Offers : Locks(p)' => Locks(p)
        BY <1>2, <2>2 DEF Locks, HoldingGate, OfferGate, OfferGathered
      <3> QED BY <1>1, <1>2, <3>1, LockFrame DEF ReleaseInv, Forgets
    <2> QED BY <2>1, <2>2
  <1>4. StageInv'
    BY <1>1, <1>2 DEF ReleaseInv, StageInv, Holders, Acquired, Reserved
  <1>5. BindingInv'
    <2>1. bindings \subseteq Offers
      BY DEF ReleaseInv, RevocationInv, Typed, SetsTyped
    <2>2. \A d \in Clients : clientPeer[d] # None => clientPeer[d] \in Offers
      BY DEF ReleaseInv, RevocationInv, Typed, PeersTyped
    <2> QED BY <1>1, <1>2, <2>1, <2>2 DEF ReleaseInv, BindingInv, Reserved
  <1>6. ClosingInv'
    BY <1>1, <1>2 DEF ReleaseInv, ClosingInv, Closes, Forgets
  <1>7. ResetInv'
    BY <1>1, <1>2 DEF ReleaseInv, ResetInv
  <1>8. OwnedInv'
    <2>1. offer[o].at = "gate" => o \notin Acquired
      BY DEF ReleaseInv, StageInv, Reserved, Holders, Acquired
    <2>2. \A p \in Offers : Owned(p) => Owned(p)'
      BY <1>1, <1>2 DEF Owned, Closes
    <2>3. \A p \in Offers : offer'[p].at = "done" /\ p \in Acquired => offer[p].at = "done"
      BY <1>2, <2>1
    <2> QED BY <1>1, <2>2, <2>3 DEF ReleaseInv, OwnedInv, Acquired
  <1> QED BY <1>3, <1>4, <1>5, <1>6, <1>7, <1>8 DEF ReleaseParts

LEMMA ReleaseValidate ==
    ASSUME ReleaseInv, NEW o \in Offers, OfferValidate(o)
    PROVE  ReleaseParts'
  <1> DEFINE c == offer[o].client
  <1>1. /\ offer[o].at = "validate"
        /\ UNCHANGED <<socket, connections, pending, bindings, subscribed, endpoints, clientPeer, peer,
                       reset, token, drained, abandoned>>
        /\ \/ OfferAt(o, "reserve") /\ CloseAt(c, "take")
           \/ OfferAt(o, "done") /\ UNCHANGED closing
    BY DEF OfferValidate, revoking, tables
  <1>2. Locks(o)
    BY <1>1 DEF Locks, HoldingGate
  <1>3. /\ c \in Clients /\ closing[c].at = "none"
        /\ \A p \in Offers : Locks(p) /\ offer[p].client = c => p = o
    BY <1>1, <1>2, LockHolder
  <1>4. /\ \A p \in Offers : offer'[p].client = offer[p].client /\ offer'[p].token = offer[p].token
        /\ \A p \in Offers : p # o => offer'[p].at = offer[p].at
        /\ offer'[o].at \in {"reserve", "done"}
    BY <1>1, OfferMoves DEF ReleaseInv, RevocationInv, Typed, Places
  <1>5. /\ \A d \in Clients : d # c => closing'[d] = closing[d]
        /\ \/ closing'[c].at = "take" /\ offer'[o].at = "reserve"
           \/ closing'[c] = closing[c] /\ offer'[o].at = "done"
    BY <1>1, <1>3, OfferMoves, CloseMoves DEF ReleaseInv, RevocationInv, Typed, Places
  <1>6. LockInv'
    BY <1>1, <1>2, <1>4, LockFrame DEF ReleaseInv, Locks, Forgets
  <1>7. o \notin Holders /\ peer[o] = "none"
    BY <1>1 DEF ReleaseInv, StageInv, Reserved
  <1>8. StageInv'
    BY <1>1, <1>4, <1>7 DEF ReleaseInv, StageInv, Holders, Acquired, Reserved
  <1>9. BindingInv'
    <2>1. bindings \subseteq Offers /\ \A d \in Clients : clientPeer[d] # None => clientPeer[d] \in Offers
      BY DEF ReleaseInv, RevocationInv, Typed, SetsTyped, PeersTyped
    <2>2. o \notin bindings
      BY <1>7 DEF Holders
    <2>3. \A p \in Offers :
            \/ offer'[p].at \in Reserved
            \/ offer'[p].at = "reserve" /\ closing'[offer'[p].client].at # "take"
            => clientPeer'[offer'[p].client] = None
      <3>1. ASSUME NEW p \in Offers, p # o, Locks(p)
            PROVE  offer[p].client # c /\ offer[p].client \in Clients
        BY <1>3, <3>1 DEF ReleaseInv, ClientInv, Locks, HoldingGate
      <3>2. \A p \in Offers : offer[p].at \in Reserved \cup {"reserve"} => Locks(p)
        BY DEF Locks, HoldingGate, Reserved
      <3> QED BY <1>1, <1>4, <1>5, <3>1, <3>2 DEF ReleaseInv, BindingInv, Reserved
    <2> QED BY <1>1, <1>4, <2>1, <2>2, <2>3 DEF ReleaseInv, BindingInv
  <1>10. \A d \in Clients, p \in Offers : Closes(d, p)' <=> Closes(d, p)
    BY <1>3, <1>5 DEF Closes
  <1>11. ClosingInv'
    <2>1. \A d \in Clients : /\ closing'[d].at = "none" => closing'[d] = Closed
                            /\ closing'[d].at \in {"none", "take", "remove", "close"}
      BY <1>5 DEF ReleaseInv, ClosingInv
    <2>2. \A d \in Clients, p \in Offers : Closes(d, p)' =>
                /\ offer'[p].at = "done" /\ offer'[p].client = d
                /\ p \notin bindings' /\ closing'[d].bound = TRUE
                /\ closing'[d].at = "close" => p \notin connections'
      <3>1. \A d \in Clients, p \in Offers : Closes(d, p) => d # c /\ p # o
        BY <1>1, <1>3 DEF ReleaseInv, ClosingInv, Closes
      <3> QED BY <1>1, <1>4, <1>5, <1>10, <3>1 DEF ReleaseInv, ClosingInv
    <2>3. \A d \in Clients : closing'[d].at # "none" =>
            \/ \E p \in Offers : offer'[p].client = d /\ offer'[p].at = "reserve"
            \/ \E k \in Sockets : socket'[k].client = d /\ Forgets(k)'
      <3>1. closing'[c].at # "none" => offer'[o].client = c /\ offer'[o].at = "reserve"
        BY <1>3, <1>4, <1>5
      <3> QED BY <1>1, <1>4, <1>5, <3>1 DEF ReleaseInv, ClosingInv, Forgets
    <2> QED BY <2>1, <2>2, <2>3 DEF ClosingInv
  <1>12. ResetInv'
    BY <1>1, <1>4 DEF ReleaseInv, ResetInv
  <1>13. OwnedInv'
    <2>1. \A p \in Offers : p # o /\ offer[p].at = "done" /\ Owned(p) => Owned(p)'
      BY <1>1, <1>4, <1>10 DEF Owned, ReleaseInv, ClientInv
    <2>2. o \notin Acquired
      BY <1>7 DEF Acquired, Holders
    <2> QED BY <1>1, <1>4, <2>1, <2>2 DEF ReleaseInv, OwnedInv, Acquired
  <1> QED BY <1>6, <1>8, <1>9, <1>11, <1>12, <1>13 DEF ReleaseParts

\* The steps of an offer between its reservation and its commit, which close nothing.
LEMMA ReleaseNegotiation ==
    ASSUME ReleaseInv, NEW o \in Offers, OfferReserve(o) \/ OfferFails(o) \/ OfferInsert(o)
    PROVE  ReleaseParts'
  <1> DEFINE c == offer[o].client
  <1>1. /\ offer[o].at \in {"reserve"} \cup Reserved
        /\ UNCHANGED <<socket, bindings, clientPeer, reset, token, drained, abandoned, closing>>
        /\ \E place \in Places : OfferAt(o, place)
    BY DEF OfferReserve, OfferFails, OfferInsert, Reserved, revoking, clients, Places
  <1>2. /\ \A p \in Offers : offer'[p].client = offer[p].client /\ offer'[p].token = offer[p].token
        /\ \A p \in Offers : p # o => offer'[p].at = offer[p].at
    BY <1>1, OfferMoves DEF ReleaseInv, RevocationInv, Typed
  <1>3. /\ \A p \in Offers : p # o => peer'[p] = peer[p]
        /\ connections' \ {o} = connections \ {o} /\ pending' \ {o} = pending \ {o}
        /\ subscribed' \ {o} = subscribed \ {o} /\ endpoints' \ {o} = endpoints \ {o}
    <2> USE DEF ReleaseInv, RevocationInv, Typed, PeersTyped
    <2>1. CASE OfferReserve(o)
      BY <2>1 DEF OfferReserve
    <2>2. CASE OfferFails(o)
      BY <2>2 DEF OfferFails, DropReservation
    <2>3. CASE OfferInsert(o)
      BY <2>3 DEF OfferInsert
    <2> QED BY <2>1, <2>2, <2>3
  <1>4. \/ /\ OfferReserve(o) /\ offer[o].at = "reserve" /\ offer'[o].at = "build"
           /\ peer'[o] = "live" /\ o \in pending' /\ o \in subscribed' /\ o \in endpoints'
           /\ UNCHANGED connections
        \/ /\ OfferReserve(o) /\ offer[o].at = "reserve" /\ offer'[o].at = "done"
           /\ UNCHANGED <<peer, connections, pending, subscribed, endpoints>>
        \/ /\ OfferFails(o) /\ offer[o].at \in {"build", "insert"} /\ offer'[o].at = "done"
           /\ peer'[o] = "off" /\ o \notin pending' /\ o \notin subscribed' /\ o \notin endpoints'
           /\ UNCHANGED connections
        \/ /\ OfferInsert(o) /\ offer[o].at = "insert" /\ offer'[o].at = "commit"
           /\ o \in connections' /\ UNCHANGED <<peer, pending, subscribed, endpoints>>
    <2>1. CASE OfferReserve(o)
      BY <2>1, OfferMoves DEF OfferReserve, ReleaseInv, RevocationInv, Typed, PeersTyped, Places
    <2>2. CASE OfferFails(o)
      BY <2>2, OfferMoves DEF OfferFails, DropReservation, ReleaseInv, RevocationInv, Typed, PeersTyped, Places
    <2>3. CASE OfferInsert(o)
      BY <2>3, OfferMoves DEF OfferInsert, ReleaseInv, RevocationInv, Typed, Places
    <2> QED BY <2>1, <2>2, <2>3
  <1>5. offer[o].at # "done" /\ Locks(o) /\ c \in Clients /\ reset \in {"idle", "gate"}
    BY <1>1, LockHolder DEF Locks, HoldingGate, Reserved, ReleaseInv, RevocationInv, GateInv, GateEmpty
  <1>6. closing[c].at = "none"
    <2>1. CASE OfferReserve(o)
      BY <2>1, ClosedHasNoConnection DEF OfferReserve
    <2>2. CASE ~OfferReserve(o)
      BY <1>4, <1>5, <2>2, LockHolder
    <2> QED BY <2>1, <2>2
  <1>7. LockInv'
    <2>1. \A p \in Offers : Locks(p)' => Locks(p)
      BY <1>2, <1>5 DEF Locks
    <2> QED BY <1>1, <1>2, <2>1, LockFrame DEF ReleaseInv, Forgets
  <1>8. o \notin bindings /\ clientPeer[c] = None
    <2>1. clientPeer[c] = None
      BY <1>1, <1>6 DEF ReleaseInv, BindingInv
    <2> QED BY <1>5, <2>1 DEF ReleaseInv, BindingInv
  <1>9. offer[o].at = "reserve" => o \notin Acquired /\ o \notin pending /\ peer[o] = "none"
    BY DEF ReleaseInv, StageInv, Reserved, Holders, Acquired
  <1>10. offer[o].at \in Reserved => peer[o] = "live" /\ o \in subscribed /\ o \in endpoints
                                     /\ (o \in connections => offer[o].at = "commit")
    BY DEF ReleaseInv, StageInv
  <1>11. StageInv'
    <2> SUFFICES ASSUME NEW p \in Offers
                 PROVE  /\ offer'[p].at \notin Reserved \cup {"done"} => peer'[p] = "none"
                        /\ peer'[p] = "none" => p \notin Holders'
                        /\ offer'[p].at \in Reserved =>
                              /\ peer'[p] = "live" /\ p \notin bindings'
                              /\ p \in connections' => offer'[p].at = "commit"
                              /\ offer'[p].at = "commit" => p \in connections'
                              /\ p \in subscribed' /\ p \in endpoints'
                        /\ offer'[p].at = "done" => p \notin pending'
                        /\ peer'[p] = "failed" => offer'[p].at = "done" /\ p \notin Acquired'
      BY DEF StageInv
    <2>1. CASE p = o
      BY <1>1, <1>4, <1>8, <1>9, <1>10, <2>1 DEF Holders, Acquired, Reserved
    <2>2. CASE p # o
      BY <1>1, <1>2, <1>3, <2>2 DEF ReleaseInv, StageInv, Holders, Acquired
    <2> QED BY <2>1, <2>2
  <1>12. BindingInv'
    <2>1. bindings \subseteq Offers /\ \A d \in Clients : clientPeer[d] # None => clientPeer[d] \in Offers
      BY DEF ReleaseInv, RevocationInv, Typed, SetsTyped, PeersTyped
    <2>2. \A p \in bindings' :
            /\ offer'[p].at = "done" /\ clientPeer'[offer'[p].client] = p
            /\ \/ peer'[p] = "failed"
               \/ peer'[p] = "live" /\ p \in connections' /\ p \in subscribed' /\ p \in endpoints'
      BY <1>1, <1>2, <1>3, <1>8, <2>1 DEF ReleaseInv, BindingInv
    <2>3. \A p \in Offers :
            \/ offer'[p].at \in Reserved
            \/ offer'[p].at = "reserve" /\ closing'[offer'[p].client].at # "take"
            => clientPeer'[offer'[p].client] = None
      BY <1>1, <1>2, <1>8 DEF ReleaseInv, BindingInv
    <2>4. \A d \in Clients : clientPeer'[d] # None =>
            clientPeer'[d] \in bindings' /\ offer'[clientPeer'[d]].client = d
      BY <1>1, <1>2, <2>1 DEF ReleaseInv, BindingInv
    <2> QED BY <2>2, <2>3, <2>4 DEF BindingInv
  <1>13. \A d \in Clients, p \in Offers : /\ Closes(d, p)' <=> Closes(d, p)
                                          /\ Closes(d, p) => p # o
    BY <1>1, <1>5 DEF Closes, ReleaseInv, ClosingInv
  <1>14. ClosingInv'
    <2>1. \A d \in Clients, p \in Offers : Closes(d, p)' =>
                /\ offer'[p].at = "done" /\ offer'[p].client = d
                /\ p \notin bindings' /\ closing'[d].bound = TRUE
                /\ closing'[d].at = "close" => p \notin connections'
      BY <1>1, <1>2, <1>3, <1>13 DEF ReleaseInv, ClosingInv
    <2>2. \A d \in Clients : closing'[d].at # "none" =>
            \/ \E p \in Offers : offer'[p].client = d /\ offer'[p].at = "reserve"
            \/ \E k \in Sockets : socket'[k].client = d /\ Forgets(k)'
      <3>1. \A d \in Clients : closing[d].at # "none" => d # c
        BY <1>6
      <3> QED BY <1>1, <1>2, <3>1 DEF ReleaseInv, ClosingInv, Forgets
    <2> QED BY <1>1, <2>1, <2>2 DEF ReleaseInv, ClosingInv
  <1>15. ResetInv'
    BY <1>1, <1>2, <1>5 , <1>4 DEF ReleaseInv, ResetInv
  <1>16. OwnedInv'
    <2>1. \A p \in Offers : p # o /\ offer[p].at = "done" /\ Owned(p) => Owned(p)'
      BY <1>1, <1>2, <1>3, <1>13 DEF Owned, ReleaseInv, ClientInv
    <2>2. offer'[o].at = "done" => o \notin Acquired'
      BY <1>4, <1>9, <1>10 DEF Acquired, Reserved
    <2>3. \A p \in Offers : p # o /\ p \in Acquired' => p \in Acquired
      BY <1>3 DEF Acquired
    <2> QED BY <1>1, <1>2, <2>1, <2>2, <2>3 DEF ReleaseInv, OwnedInv
  <1> QED BY <1>7, <1>11, <1>12, <1>14, <1>15, <1>16 DEF ReleaseParts

LEMMA ReleaseCommit ==
    ASSUME ReleaseInv, NEW o \in Offers, OfferCommit(o)
    PROVE  ReleaseParts'
  <1> DEFINE c == offer[o].client
  <1>1. /\ offer[o].at = "commit" /\ OfferAt(o, "done")
        /\ pending' = pending \ {o} /\ bindings' = bindings \cup {o}
        /\ clientPeer' = [clientPeer EXCEPT ![c] = o]
        /\ UNCHANGED <<socket, connections, subscribed, endpoints, peer, reset, token, drained,
                       abandoned, closing>>
    BY DEF OfferCommit, revoking, clients
  <1>2. /\ \A p \in Offers : offer'[p].client = offer[p].client /\ offer'[p].token = offer[p].token
        /\ \A p \in Offers : p # o => offer'[p].at = offer[p].at
        /\ offer'[o].at = "done"
    BY <1>1, OfferMoves DEF ReleaseInv, RevocationInv, Typed, Places
  <1>3. Locks(o) /\ reset \in {"idle", "gate"}
    BY <1>1 DEF Locks, HoldingGate, ReleaseInv, RevocationInv, GateInv, GateEmpty
  <1>4. /\ c \in Clients /\ closing[c].at = "none"
        /\ \A p \in Offers : Locks(p) /\ offer[p].client = c => p = o
    BY <1>1, <1>3, LockHolder
  <1>5. /\ clientPeer[c] = None /\ clientPeer'[c] = o /\ \A d \in Clients : d # c => clientPeer'[d] = clientPeer[d]
        /\ bindings \subseteq Offers /\ \A d \in Clients : clientPeer[d] # None => clientPeer[d] \in Offers
    BY <1>1, <1>4 DEF ReleaseInv, BindingInv, Reserved, RevocationInv, Typed, PeersTyped, SetsTyped
  <1>6. /\ peer[o] = "live" /\ o \in connections /\ o \in subscribed /\ o \in endpoints
    BY <1>1 DEF ReleaseInv, StageInv, Reserved
  <1>7. LockInv'
    <2>1. \A p \in Offers : Locks(p)' => Locks(p)
      BY <1>2, <1>3 DEF Locks
    <2> QED BY <1>1, <1>2, <2>1, LockFrame DEF ReleaseInv, Forgets
  <1>8. StageInv'
    BY <1>1, <1>2, <1>6 DEF ReleaseInv, StageInv, Holders, Acquired, Reserved
  <1>9. BindingInv'
    <2>1. \A p \in bindings : offer[p].client # c
      BY <1>5, NoneIsNoOffer DEF ReleaseInv, BindingInv
    <2>2. \A p \in bindings' :
            /\ offer'[p].at = "done" /\ clientPeer'[offer'[p].client] = p
            /\ \/ peer'[p] = "failed"
               \/ peer'[p] = "live" /\ p \in connections' /\ p \in subscribed' /\ p \in endpoints'
      BY <1>1, <1>2, <1>5, <1>6, <2>1 DEF ReleaseInv, BindingInv, ClientInv
    <2>3. \A p \in Offers :
            \/ offer'[p].at \in Reserved
            \/ offer'[p].at = "reserve" /\ closing'[offer'[p].client].at # "take"
            => clientPeer'[offer'[p].client] = None
      <3>1. \A p \in Offers : p # o /\ offer[p].at \in Reserved \cup {"reserve"} =>
                offer[p].client # c /\ offer[p].client \in Clients
        BY <1>4 DEF Locks, HoldingGate, Reserved, ReleaseInv, ClientInv
      <3> QED BY <1>1, <1>2, <1>5, <3>1 DEF ReleaseInv, BindingInv, Reserved
    <2>4. \A d \in Clients : clientPeer'[d] # None =>
            clientPeer'[d] \in bindings' /\ offer'[clientPeer'[d]].client = d
      BY <1>1, <1>2, <1>5 DEF ReleaseInv, BindingInv
    <2> QED BY <2>2, <2>3, <2>4 DEF BindingInv
  <1>10. \A d \in Clients, p \in Offers : /\ Closes(d, p)' <=> Closes(d, p)
                                          /\ Closes(d, p) => p # o
    BY <1>1 DEF Closes, ReleaseInv, ClosingInv
  <1>11. ClosingInv'
    <2>1. \A d \in Clients, p \in Offers : Closes(d, p)' =>
                /\ offer'[p].at = "done" /\ offer'[p].client = d
                /\ p \notin bindings' /\ closing'[d].bound = TRUE
                /\ closing'[d].at = "close" => p \notin connections'
      BY <1>1, <1>2, <1>10 DEF ReleaseInv, ClosingInv
    <2>2. \A d \in Clients : closing'[d].at # "none" =>
            \/ \E p \in Offers : offer'[p].client = d /\ offer'[p].at = "reserve"
            \/ \E k \in Sockets : socket'[k].client = d /\ Forgets(k)'
      BY <1>1, <1>2 DEF ReleaseInv, ClosingInv, Forgets
    <2> QED BY <1>1, <2>1, <2>2 DEF ReleaseInv, ClosingInv
  <1>12. ResetInv'
    BY <1>1, <1>2, <1>3 DEF ReleaseInv, ResetInv
  <1>13. OwnedInv'
    <2>1. \A p \in Offers : p # o /\ offer[p].at = "done" /\ Owned(p) => Owned(p)'
      BY <1>1, <1>2, <1>10 DEF Owned, ReleaseInv, ClientInv
    <2> QED BY <1>1, <1>2, <2>1 DEF ReleaseInv, OwnedInv, Acquired
  <1> QED BY <1>7, <1>8, <1>9, <1>11, <1>12, <1>13 DEF ReleaseParts

LEMMA ReleaseCancelled ==
    ASSUME ReleaseInv, NEW o \in Offers, OfferCancelled(o)
    PROVE  ReleaseParts'
  <1> DEFINE c == offer[o].client
             conn == closing[c].conn
  <1>1. /\ offer[o].at = "reserve" /\ closing[c].at \in {"remove", "close"} /\ OfferAt(o, "done")
        /\ closing' = [closing EXCEPT ![c] = Closed] /\ abandoned' = abandoned \cup {conn}
        /\ UNCHANGED <<socket, connections, pending, bindings, subscribed, endpoints, clientPeer, peer,
                       reset, token, drained>>
    BY DEF OfferCancelled, revoking, clients, tables
  <1>2. Locks(o)
    BY <1>1 DEF Locks, HoldingGate
  <1>3. c \in Clients /\ \A p \in Offers : Locks(p) /\ offer[p].client = c => p = o
    BY <1>2, LockHolder
  <1>4. /\ \A p \in Offers : offer'[p].client = offer[p].client /\ offer'[p].token = offer[p].token
        /\ \A p \in Offers : p # o => offer'[p].at = offer[p].at
        /\ offer'[o].at = "done"
    BY <1>1, OfferMoves DEF ReleaseInv, RevocationInv, Typed, Places
  <1>5. closing'[c] = Closed /\ \A d \in Clients : d # c => closing'[d] = closing[d]
    BY <1>1, <1>3, CloseEnds DEF ReleaseInv, RevocationInv
  <1>6. LockInv'
    <2>1. \A p \in Offers : Locks(p)' => Locks(p)
      BY <1>2, <1>4 DEF Locks
    <2> QED BY <1>1, <1>4, <2>1, LockFrame DEF ReleaseInv, Forgets
  <1>7. o \notin Holders /\ peer[o] = "none"
    BY <1>1 DEF ReleaseInv, StageInv, Reserved
  <1>8. StageInv'
    BY <1>1, <1>4, <1>7 DEF ReleaseInv, StageInv, Holders, Acquired, Reserved
  <1>9. BindingInv'
    <2>1. bindings \subseteq Offers /\ \A d \in Clients : clientPeer[d] # None => clientPeer[d] \in Offers
      BY DEF ReleaseInv, RevocationInv, Typed, SetsTyped, PeersTyped
    <2>2. o \notin bindings
      BY <1>7 DEF Holders
    <2>3. \A p \in Offers : p # o /\ offer[p].at = "reserve" => offer[p].client # c /\ offer[p].client \in Clients
      BY <1>3 DEF Locks, HoldingGate, ReleaseInv, ClientInv
    <2>4. \A p \in Offers :
            \/ offer'[p].at \in Reserved
            \/ offer'[p].at = "reserve" /\ closing'[offer'[p].client].at # "take"
            => clientPeer'[offer'[p].client] = None
      BY <1>1, <1>4, <1>5, <2>3 DEF ReleaseInv, BindingInv, Reserved
    <2> QED BY <1>1, <1>4, <2>1, <2>2, <2>4 DEF ReleaseInv, BindingInv
  <1>10. \A d \in Clients, p \in Offers : Closes(d, p)' <=> Closes(d, p) /\ d # c
    BY <1>5, ClosedHasNoConnection DEF Closes
  <1>11. ClosingInv'
    <2>1. \A d \in Clients : /\ closing'[d].at = "none" => closing'[d] = Closed
                            /\ closing'[d].at \in {"none", "take", "remove", "close"}
      BY <1>5, ClosedHasNoConnection DEF ReleaseInv, ClosingInv
    <2>2. \A d \in Clients, p \in Offers : Closes(d, p)' =>
                /\ offer'[p].at = "done" /\ offer'[p].client = d
                /\ p \notin bindings' /\ closing'[d].bound = TRUE
                /\ closing'[d].at = "close" => p \notin connections'
      BY <1>1, <1>4, <1>5, <1>10 DEF ReleaseInv, ClosingInv
    <2>3. \A d \in Clients : closing'[d].at # "none" =>
            \/ \E p \in Offers : offer'[p].client = d /\ offer'[p].at = "reserve"
            \/ \E k \in Sockets : socket'[k].client = d /\ Forgets(k)'
      BY <1>1, <1>4, <1>5, ClosedHasNoConnection DEF ReleaseInv, ClosingInv, Forgets
    <2> QED BY <2>1, <2>2, <2>3 DEF ClosingInv
  <1>12. ResetInv'
    BY <1>1, <1>4 DEF ReleaseInv, ResetInv
  <1>13. OwnedInv'
    <2>1. \A p \in Offers : Closes(c, p) => p = conn
      BY DEF Closes
    <2>2. \A p \in Offers : p # o /\ offer[p].at = "done" /\ Owned(p) => Owned(p)'
      BY <1>1, <1>4, <1>10, <2>1 DEF Owned, ReleaseInv, ClientInv
    <2>3. o \notin Acquired
      BY <1>7 DEF Acquired, Holders
    <2> QED BY <1>1, <1>4, <2>2, <2>3 DEF ReleaseInv, OwnedInv, Acquired
  <1> QED BY <1>6, <1>8, <1>9, <1>11, <1>12, <1>13 DEF ReleaseParts

\* The parts of ReleaseInv that speak of closes, when the closes stay as they are.
LEMMA ClosingFrame ==
    ASSUME ReleaseInv, UNCHANGED closing, bindings' \subseteq bindings, connections' \subseteq connections,
           \A p \in Offers : offer[p].at \in {"reserve", "done"} =>
                offer'[p].at = offer[p].at /\ offer'[p].client = offer[p].client,
           \A k \in Sockets : Forgets(k) => Forgets(k)' /\ socket'[k].client = socket[k].client
    PROVE  ClosingInv' /\ \A d \in Clients, p \in Offers : Closes(d, p)' <=> Closes(d, p)
  <1>1. \A d \in Clients, p \in Offers : Closes(d, p)' <=> Closes(d, p)
    BY DEF Closes
  <1>2. \A d \in Clients, p \in Offers : Closes(d, p)' =>
            /\ offer'[p].at = "done" /\ offer'[p].client = d
            /\ p \notin bindings' /\ closing'[d].bound = TRUE
            /\ closing'[d].at = "close" => p \notin connections'
    BY <1>1 DEF ReleaseInv, ClosingInv
  <1>3. \A d \in Clients : closing'[d].at # "none" =>
            \/ \E p \in Offers : offer'[p].client = d /\ offer'[p].at = "reserve"
            \/ \E k \in Sockets : socket'[k].client = d /\ Forgets(k)'
    BY DEF ReleaseInv, ClosingInv
  <1> QED BY <1>1, <1>2, <1>3 DEF ReleaseInv, ClosingInv

LEMMA ReleasePeer ==
    ASSUME ReleaseInv, NEW o \in Offers, PeerFails(o) \/ PeerRelease(o)
    PROVE  ReleaseParts'
  <1> DEFINE c == offer[o].client
  <1>1. /\ UNCHANGED <<offer, socket, closing, pending, reset, token, drained, abandoned>>
        /\ offer[o].at = "done" /\ peer[o] # "none" /\ peer'[o] # "none"
        /\ \A p \in Offers : p # o => peer'[p] = peer[p]
    BY DEF PeerFails, PeerRelease, ReleaseInv, StageInv, RevocationInv, Typed, PeersTyped, revoking
  <1>2. /\ connections' \subseteq connections /\ subscribed' \subseteq subscribed /\ endpoints' \subseteq endpoints
        /\ connections \subseteq connections' \cup {o} /\ subscribed \subseteq subscribed' \cup {o}
        /\ endpoints \subseteq endpoints' \cup {o} /\ o \notin Acquired'
    BY DEF PeerFails, PeerRelease, Acquired, ReleaseInv, StageInv
  <1>3. c \in Clients
    BY <1>1 DEF ReleaseInv, ClientInv
  <1>4. \/ bindings' = bindings /\ clientPeer' = clientPeer /\ peer'[o] = "failed"
        \/ /\ bindings' = bindings \ {o} /\ peer'[o] = "off"
           /\ \A d \in Clients : clientPeer'[d] = IF d = c /\ clientPeer[d] = o THEN None ELSE clientPeer[d]
    BY DEF PeerFails, PeerRelease, ReleaseInv, RevocationInv, Typed, PeersTyped
  <1>5. LockInv'
    BY <1>1, LockFrame DEF ReleaseInv, Locks, Forgets
  <1>6. StageInv'
    BY <1>1, <1>2, <1>4 DEF ReleaseInv, StageInv, Holders, Acquired, Reserved
  <1>7. BindingInv'
    <2>1. bindings \subseteq Offers /\ \A d \in Clients : clientPeer[d] # None => clientPeer[d] \in Offers
      BY DEF ReleaseInv, RevocationInv, Typed, SetsTyped, PeersTyped
    <2>2. \A p \in bindings' :
            /\ offer'[p].at = "done" /\ clientPeer'[offer'[p].client] = p
            /\ \/ peer'[p] = "failed"
               \/ peer'[p] = "live" /\ p \in connections' /\ p \in subscribed' /\ p \in endpoints'
      BY <1>1, <1>2, <1>4, <2>1 DEF ReleaseInv, BindingInv, ClientInv
    <2>3. \A d \in Clients : clientPeer'[d] # None =>
            clientPeer'[d] \in bindings' /\ offer'[clientPeer'[d]].client = d
      BY <1>1, <1>4 DEF ReleaseInv, BindingInv
    <2>4. \A p \in Offers :
            \/ offer'[p].at \in Reserved
            \/ offer'[p].at = "reserve" /\ closing'[offer'[p].client].at # "take"
            => clientPeer'[offer'[p].client] = None
      BY <1>1, <1>4 DEF ReleaseInv, BindingInv, ClientInv, Reserved
    <2> QED BY <2>2, <2>3, <2>4 DEF BindingInv
  <1>8. ClosingInv' /\ \A d \in Clients, p \in Offers : Closes(d, p)' <=> Closes(d, p)
    BY <1>1, <1>2, <1>4, ClosingFrame DEF Forgets
  <1>9. ResetInv'
    BY <1>1, <1>2, <1>4 DEF ReleaseInv, ResetInv
  <1>10. OwnedInv'
    <2>1. \A p \in Offers : p # o /\ p \in Acquired' /\ p \notin bindings' => p \in Acquired /\ p \notin bindings
      BY <1>2, <1>4 DEF Acquired
    <2>2. \A p \in Offers : p # o /\ offer[p].at = "done" /\ Owned(p) => Owned(p)'
      BY <1>1, <1>8 DEF Owned, ReleaseInv, ClientInv
    <2> QED BY <1>1, <1>2, <2>1, <2>2 DEF ReleaseInv, OwnedInv
  <1> QED BY <1>5, <1>6, <1>7, <1>8, <1>9, <1>10 DEF ReleaseParts

LEMMA ReleasePost ==
    ASSUME ReleaseInv, NEW o \in Offers, NEW c \in Clients, Post(o, c)
    PROVE  ReleaseParts'
  <1>1. /\ UNCHANGED <<socket, closing, peer, connections, pending, bindings, subscribed, endpoints, clientPeer,
                       reset, token, drained, abandoned>>
        /\ offer[o].at = "unused"
    BY DEF Post, revoking, tables
  <1>2. /\ \A p \in Offers : p # o => offer'[p] = offer[p]
        /\ offer'[o].client = c /\ offer'[o].token = token /\ offer'[o].at = "lock"
    BY Posts DEF ReleaseInv, RevocationInv
  <1>3. o \notin Holders /\ peer[o] = "none"
    BY <1>1 DEF ReleaseInv, StageInv, Reserved
  <1>4. LockInv'
    BY <1>1, <1>2, LockFrame DEF ReleaseInv, Locks, Forgets, HoldingGate
  <1>5. StageInv'
    BY <1>1, <1>2, <1>3 DEF ReleaseInv, StageInv, Holders, Acquired, Reserved
  <1>6. BindingInv'
    <2>1. o \notin bindings /\ \A d \in Clients : clientPeer[d] # o
      BY <1>1, NoneIsNoOffer DEF ReleaseInv, BindingInv
    <2>2. bindings \subseteq Offers /\ \A d \in Clients : clientPeer[d] # None => clientPeer[d] \in Offers
      BY DEF ReleaseInv, RevocationInv, Typed, SetsTyped, PeersTyped
    <2>3. \A p \in Offers :
            \/ offer'[p].at \in Reserved
            \/ offer'[p].at = "reserve" /\ closing'[offer'[p].client].at # "take"
            => clientPeer'[offer'[p].client] = None
      BY <1>1, <1>2 DEF ReleaseInv, BindingInv, Reserved
    <2> QED BY <1>1, <1>2, <2>1, <2>2, <2>3 DEF ReleaseInv, BindingInv
  <1>7. ClosingInv' /\ \A d \in Clients, p \in Offers : Closes(d, p)' <=> Closes(d, p)
    BY <1>1, <1>2, ClosingFrame DEF Forgets
  <1>8. ResetInv'
    <2>1. token \in Nat
      BY DEF ReleaseInv, RevocationInv, Typed
    <2> QED BY <1>1, <1>2, <1>3, <2>1 DEF ReleaseInv, ResetInv
  <1>9. OwnedInv'
    <2>1. \A p \in Offers : p # o /\ offer[p].at = "done" /\ Owned(p) => Owned(p)'
      BY <1>1, <1>2, <1>7 DEF Owned, ReleaseInv, ClientInv
    <2> QED BY <1>1, <1>2, <2>1 DEF ReleaseInv, OwnedInv, Acquired
  <1> QED BY <1>4, <1>5, <1>6, <1>7, <1>8, <1>9 DEF ReleaseParts

\* A revocation: what is bound when the maps are drained is in drained.bound until its
\* tracks and its endpoint are released.
LEMMA ReleaseReset ==
    ASSUME ReleaseInv, ResetStep
    PROVE  ReleaseParts'
  <1>1. /\ UNCHANGED <<offer, closing, abandoned>> /\ connections' \subseteq connections
        /\ bindings' \subseteq bindings /\ pending' \subseteq pending
        /\ subscribed' \subseteq subscribed /\ endpoints' \subseteq endpoints
    BY DEF ResetStep, ResetGate, ResetSockets, ResetMaps, ResetConnections, ResetClose, ResetForget, tables
  <1>2. \A k \in Sockets : socket'[k].client = socket[k].client /\ (Forgets(k)' <=> Forgets(k))
    <2>1. CASE ResetSockets
      <3>1. \A c \in Clients : socketOf[c] # None => socket[socketOf[c]].at # "forget"
        BY DEF ReleaseInv, RevocationInv, TokenInv
      <3> QED BY <2>1, <3>1, Revokes, NoneIsNoOffer DEF Forgets, ReleaseInv, RevocationInv
    <2>2. CASE ~ResetSockets
      BY <2>2 DEF ResetStep, ResetGate, ResetMaps, ResetConnections, ResetClose, ResetForget, Forgets
    <2> QED BY <2>1, <2>2
  <1>3. token' = token \/ (token' = token + 1 /\ ResetSockets)
    BY DEF ResetStep, ResetGate, ResetMaps, ResetConnections, ResetClose, ResetForget, ResetSockets
  <1>4. LockInv'
    BY <1>1, <1>2, LockFrame DEF ReleaseInv, Locks
  <1>5. ClosingInv' /\ \A d \in Clients, p \in Offers : Closes(d, p)' <=> Closes(d, p)
    BY <1>1, <1>2, ClosingFrame
  <1>6. ~ResetGate => \A p \in Offers : offer[p].at \notin HoldingGate
    BY DEF ResetStep, ResetSockets, ResetMaps, ResetConnections, ResetClose, ResetForget,
           ReleaseInv, RevocationInv, GateInv, GateEmpty
  <1>7. \A p \in Offers : peer'[p] = peer[p] \/ (peer[p] = "live" /\ peer'[p] = "off" /\ ResetClose)
    BY DEF ResetStep, ResetGate, ResetSockets, ResetMaps, ResetConnections, ResetClose, ResetForget, Aborted
  <1>8. StageInv'
    <2>1. CASE ResetGate
      BY <2>1 DEF ResetGate, ReleaseInv, StageInv, Holders, Acquired, tables
    <2>2. CASE ~ResetGate
      BY <1>1, <1>6, <1>7, <2>2 DEF ReleaseInv, StageInv, Holders, Acquired, Reserved, HoldingGate
    <2> QED BY <2>1, <2>2
  <1>9. BindingInv'
    <2>1. CASE ResetGate \/ ResetSockets \/ ResetForget
      BY <2>1 DEF ResetGate, ResetSockets, ResetForget, ReleaseInv, BindingInv, tables
    <2>2. CASE ResetMaps \/ ResetConnections \/ ResetClose
      <3>1. bindings' = {} /\ \A d \in Clients : clientPeer'[d] = None
        BY <2>2 DEF ResetMaps, ResetConnections, ResetClose, ReleaseInv, ResetInv
      <3>2. \A p \in Offers : offer'[p].at \in Reserved \cup {"reserve"} => offer'[p].client \in Clients
        BY <1>1 DEF ReleaseInv, ClientInv, Reserved
      <3> QED BY <3>1, <3>2 DEF BindingInv
    <2> QED BY <2>1, <2>2 DEF ResetStep
  <1>10. ResetInv'
    <2>1. CASE ResetGate \/ ResetSockets \/ ResetForget
      BY <1>1, <1>3, <2>1 DEF ResetGate, ResetSockets, ResetForget, ResetAt, ReleaseInv, ResetInv,
                              RevocationInv, Typed, OffersTyped, Entries, tables
    <2>2. CASE ResetMaps \/ ResetConnections \/ ResetClose
      BY <1>1, <1>7, <2>2 DEF ResetMaps, ResetConnections, ResetClose, ResetAt, ReleaseInv, ResetInv
    <2> QED BY <2>1, <2>2 DEF ResetStep
  <1>11. OwnedInv'
    <2> SUFFICES ASSUME NEW p \in Offers, offer[p].at = "done", p \in Acquired', p \notin bindings'
                 PROVE  Owned(p)'
      BY <1>1 DEF OwnedInv
    <2>1. /\ p \in Acquired /\ peer[p] # "none"
          /\ p \notin bindings => Owned(p)
      BY <1>1 DEF Acquired, Holders, ReleaseInv, StageInv, OwnedInv
    <2>2. CASE ResetGate
      BY <1>5, <2>1, <2>2 DEF ResetGate, ResetAt, Owned, ReleaseInv, ClientInv, tables
    <2>3. offer[p].client \in Clients
      BY DEF ReleaseInv, ClientInv
    <2>4. ~ResetGate => offer'[p].token # token'
      BY <1>1, <1>3, <2>1 DEF ResetStep, ResetSockets, ResetMaps, ResetConnections, ResetClose, ResetForget,
                              ReleaseInv, ResetInv, RevocationInv, Typed, OffersTyped, Entries
    <2>5. CASE ResetSockets
      BY <1>1, <1>5, <2>1, <2>3, <2>4, <2>5 DEF ResetSockets, ResetGate, Owned, tables
    <2>6. CASE ResetMaps
      BY <1>1, <1>5, <2>1, <2>3, <2>4, <2>6, ResetDrains
         DEF ResetMaps, ResetAt, ResetGate, Owned, ReleaseInv, RevocationInv
    <2>7. CASE ResetConnections
      BY <1>1, <1>5, <2>1, <2>3, <2>4, <2>7, ResetDrains
         DEF ResetConnections, ResetAt, ResetGate, Owned, ReleaseInv, RevocationInv
    <2>8. CASE ResetClose
      <3>1. p \notin drained.bound
        BY <2>8 DEF ResetClose, Acquired, ReleaseInv, ResetInv
      <3> QED BY <1>1, <1>5, <2>1, <2>3, <2>4, <2>8, <3>1 DEF ResetClose, ResetGate, Owned
    <2>9. CASE ResetForget
      BY <1>1, <1>5, <2>1, <2>3, <2>4, <2>9 DEF ResetForget, ResetGate, Owned, tables
    <2> QED BY <2>2, <2>5, <2>6, <2>7, <2>8, <2>9 DEF ResetStep
  <1> QED BY <1>4, <1>5, <1>8, <1>9, <1>10, <1>11 DEF ReleaseParts

LEMMA ReleaseIdle ==
    ASSUME ReleaseInv, UNCHANGED vars \/ ResetRequest \/ \E n \in Limits : SetLimit(n)
    PROVE  ReleaseParts'
  <1>1. /\ UNCHANGED <<offer, socket, closing, peer, connections, pending, bindings, subscribed, endpoints,
                       clientPeer, token, drained, abandoned>>
        /\ reset' = reset \/ (reset = "idle" /\ reset' = "gate")
    <2>1. CASE UNCHANGED vars
      BY <2>1 DEF vars, revoking, tables
    <2>2. CASE ResetRequest
      BY <2>2 DEF ResetRequest, ResetAt, tables
    <2>3. CASE \E n \in Limits : SetLimit(n)
      BY <2>3 DEF SetLimit, revoking, tables
    <2> QED BY <2>1, <2>2, <2>3
  <1>2. LockInv' /\ ClosingInv'
    BY <1>1, LockFrame, ClosingFrame DEF ReleaseInv, Locks, Forgets
  <1>3. StageInv' /\ BindingInv'
    BY <1>1 DEF ReleaseInv, StageInv, BindingInv, Holders, Acquired
  <1>4. ResetInv'
    BY <1>1 DEF ReleaseInv, ResetInv
  <1>5. OwnedInv'
    BY <1>1 DEF ReleaseInv, OwnedInv, Owned, Closes, Acquired
  <1> QED BY <1>2, <1>3, <1>4, <1>5 DEF ReleaseParts

LEMMA ReleaseStep == ReleaseInv /\ [Next]_vars => ReleaseInv'
  <1> SUFFICES ASSUME ReleaseInv, [Next]_vars PROVE ReleaseParts'
    BY RevocationStep, ClientStep DEF ReleaseInv, ReleaseParts
  <1>1. CASE UNCHANGED vars \/ ResetRequest \/ \E n \in Limits : SetLimit(n)
    BY <1>1, ReleaseIdle
  <1>2. CASE \E k \in Sockets : Arrival(k)
    BY <1>2, ReleaseSockets
  <1>3. CASE \E k \in Sockets : Disconnect(k) \/ HandlerStep(k)
    BY <1>3, ReleaseSockets, ReleaseDisconnectClose DEF HandlerStep
  <1>4. CASE \E c \in Clients : LookUp(c)
    BY <1>4, ReleaseSockets DEF LookUp
  <1>5. CASE \E c \in Clients : CloseStep(c)
    BY <1>5, ReleaseCloseTake, ReleaseCloseRemove, ReleaseCloseFinish DEF CloseStep
  <1>6. ASSUME NEW o \in Offers, OfferStep(o) PROVE ReleaseParts'
    BY <1>6, ReleaseOfferWaits, ReleaseValidate, ReleaseNegotiation, ReleaseCommit DEF OfferStep
  <1>7. CASE \E o \in Offers : OfferCancelled(o) \/ PeerFails(o) \/ PeerRelease(o)
    BY <1>7, ReleaseCancelled, ReleasePeer
  <1>8. CASE \E o \in Offers, c \in Clients : Post(o, c)
    BY <1>8, ReleasePost
  <1>9. CASE ResetStep
    BY <1>9, ReleaseReset
  <1> QED BY <1>1, <1>2, <1>3, <1>4, <1>5, <1>6, <1>7, <1>8, <1>9 DEF Next, TaskStep, Arrival

\* Nothing is lost track of: every map entry, track and endpoint of a connection has,
\* at every moment, a task that is to release it, and only a close that the server
\* drops with its request (an abandoned one) leaves it to ICE or to no one.
LEMMA AllReleased == ReleaseInv => EverythingReleased
  <1> SUFFICES ASSUME ReleaseInv, TasksDone, \A o \in Offers : peer[o] # "failed", NEW o \in Holders
               PROVE  Reached(o) \/ (o \in abandoned /\ (peer[o] = "live" \/ offer[o].token # token))
    BY DEF EverythingReleased
  <1>1. o \in Offers
    BY DEF Holders, ReleaseInv, RevocationInv, Typed, SetsTyped
  <1>2. offer[o].at = "done" /\ offer[o].client \in Clients
    BY <1>1 DEF TasksDone, ReleaseInv, StageInv, ClientInv, Reserved
  <1>3. \A c \in Clients : closing[c].at = "none"
    BY DEF TasksDone, ReleaseInv, ClosingInv, Forgets
  <1>4. CASE o \in bindings
    BY <1>4, <1>1 DEF ReleaseInv, BindingInv, Reached
  <1>5. CASE o \notin bindings
    <2>1. o \in Acquired
      BY <1>1, <1>2, <1>5 DEF Holders, Acquired, ReleaseInv, StageInv
    <2> QED BY <1>1, <1>2, <1>3, <1>5, <2>1 DEF ReleaseInv, OwnedInv, Owned, Closes, TasksDone
  <1> QED BY <1>4, <1>5

\* EverythingReleased (server.rs, close_client_connection, OfferReservation::drop,
\* PeerHandler and revoke_all_sessions_locked): whatever they interleave to, once all
\* of them are done a connection that holds anything is the one its client reaches.
THEOREM NothingLeaks == Spec => []EverythingReleased
  <1>1. Init => ReleaseInv
    BY RevocationStart, ClientStart, ReleaseStart DEF ReleaseInv, ReleaseParts
  <1> QED BY <1>1, ReleaseStep, AllReleased, PTL DEF Spec

(***************************************************************************)
(* Live peers.                                                             *)
(***************************************************************************)

\* The close of c is to end the peer o, which it took out of the map of connections.
Ends(c, o) == closing[c].at = "close" /\ closing[c].conn = o /\ closing[c].open = TRUE

\* A connection that is being negotiated has its reservation, and a peer that is up
\* afterwards is in the map of connections or somebody has it in hand, unless he was dropped.
PeerInv == \A o \in Offers :
    /\ offer[o].at \in Reserved => o \in pending
    /\ offer[o].at = "done" /\ peer[o] = "live" =>
            \/ o \in connections
            \/ reset = "close" /\ o \in drained.open
            \/ Ends(offer[o].client, o)
            \/ o \in abandoned

LEMMA PeerFrame ==
    ASSUME PeerInv,
           UNCHANGED <<offer, connections, pending, peer, reset, drained, abandoned>>,
           \A c \in Clients, o \in Offers : Ends(c, o) => Ends(c, o)',
           ClientInv
    PROVE  PeerInv'
  BY DEF PeerInv, ClientInv, Reserved

LEMMA PeerSockets ==
    ASSUME ReleaseInv, PeerInv, NEW k \in Sockets,
           Arrival(k) \/ Disconnect(k) \/ HandlerStep(k) \/ \E c \in Clients : LookUp(c)
    PROVE  PeerInv'
  <1>1. UNCHANGED <<offer, connections, pending, peer, reset, drained, abandoned>>
    BY Arrives DEF ReleaseInv, RevocationInv, Connect, Disconnect, HandlerStep, DisconnectClose,
       DisconnectForget, LookUp, revoking, tables
  <1>2. CASE DisconnectClose(k)
    <2>1. socket[k].client \in Clients /\ closing[socket[k].client].at = "none"
      BY <1>2, FreeLockNotClosing DEF DisconnectClose, ReleaseInv, ClientInv
    <2>2. \A d \in Clients : d # socket[k].client => closing'[d] = closing[d]
      BY <1>2, <2>1, CloseMoves DEF DisconnectClose, ReleaseInv, RevocationInv, Typed, Places
    <2>3. \A c \in Clients, o \in Offers : Ends(c, o) => Ends(c, o)'
      BY <2>1, <2>2 DEF Ends
    <2> QED BY <1>1, <2>3, PeerFrame DEF ReleaseInv
  <1>3. CASE ~DisconnectClose(k)
    <2>1. UNCHANGED closing
      BY <1>3, Arrives DEF ReleaseInv, RevocationInv, Connect, Disconnect, HandlerStep,
         DisconnectForget, LookUp
    <2> QED BY <1>1, <2>1, PeerFrame DEF ReleaseInv, Ends
  <1> QED BY <1>2, <1>3

LEMMA PeerClose ==
    ASSUME ReleaseInv, PeerInv, NEW c \in Clients, CloseStep(c)
    PROVE  PeerInv'
  <1>1. UNCHANGED <<offer, reset, drained, abandoned>>
    BY DEF CloseStep, CloseTake, CloseRemove, CloseFinish, revoking
  <1>2. CASE CloseTake(c)
    <2>1. UNCHANGED <<connections, pending, peer>> /\ closing[c].at = "take"
      BY <1>2 DEF CloseTake
    <2>2. \A d \in Clients \ {c} : closing'[d] = closing[d]
      BY <1>2, CloseTakes DEF ReleaseInv, RevocationInv
    <2>3. \A d \in Clients, o \in Offers : Ends(d, o) => Ends(d, o)'
      BY <2>1, <2>2 DEF Ends
    <2> QED BY <1>1, <2>1, <2>3, PeerFrame DEF ReleaseInv
  <1>3. CASE CloseRemove(c)
    <2> DEFINE conn == closing[c].conn
    <2>1. /\ closing[c].at = "remove" /\ UNCHANGED <<pending, peer>>
          /\ connections' = connections \ {conn}
      BY <1>3 DEF CloseRemove
    <2>2. /\ \A d \in Clients \ {c} : closing'[d] = closing[d]
          /\ closing'[c].at = "close" /\ closing'[c].conn = conn
          /\ closing'[c].open = (conn \in connections)
      BY <1>3, CloseRemoves DEF ReleaseInv, RevocationInv
    <2>3. \A o \in Offers : o = conn => offer[o].client = c
      BY <2>1 DEF ReleaseInv, ClosingInv, Closes
    <2>4. \A d \in Clients, o \in Offers : Ends(d, o) => Ends(d, o)'
      BY <2>1, <2>2 DEF Ends
    <2>5. \A o \in Offers : o = conn /\ o \in connections => Ends(offer[o].client, o)'
      BY <1>1, <2>2, <2>3 DEF Ends
    <2> HIDE DEF conn
    <2> QED BY <1>1, <2>1, <2>4, <2>5 DEF PeerInv, ReleaseInv, ClientInv, Reserved
  <1>4. CASE CloseFinish(c)
    <2> DEFINE conn == closing[c].conn
    <2>1. /\ closing[c].at = "close" /\ UNCHANGED connections /\ pending' = pending \ {conn}
          /\ peer' = Aborted({o \in {conn} : closing[c].open})
      BY <1>4 DEF CloseFinish
    <2>2. \A d \in Clients \ {c} : closing'[d] = closing[d]
      BY <1>4, CloseEnds DEF CloseFinish, ReleaseInv, RevocationInv
    <2>3. \A o \in Offers : o = conn => offer[o].at = "done"
      BY <2>1 DEF ReleaseInv, ClosingInv, Closes
    <2>4. \A o \in Offers : peer'[o] = "live" => peer[o] = "live" /\ ~Ends(c, o)
      BY <2>1 DEF Aborted, Ends
    <2>5. \A d \in Clients, o \in Offers : Ends(d, o) /\ d # c => Ends(d, o)'
      BY <2>2 DEF Ends
    <2> HIDE DEF conn
    <2> QED BY <1>1, <2>1, <2>3, <2>4, <2>5 DEF PeerInv, ReleaseInv, ClientInv, Reserved
  <1> QED BY <1>2, <1>3, <1>4 DEF CloseStep

LEMMA PeerOffers ==
    ASSUME ReleaseInv, PeerInv, NEW o \in Offers,
           OfferStep(o) \/ OfferCancelled(o) \/ PeerFails(o) \/ PeerRelease(o)
    PROVE  PeerInv'
  <1> DEFINE c == offer[o].client
  <1>1. /\ \A p \in Offers : offer'[p].client = offer[p].client
        /\ \A p \in Offers \ {o} : offer'[p].at = offer[p].at
        /\ UNCHANGED <<reset, drained>>
    BY OffersAdvance DEF ReleaseInv, RevocationInv
  <1>2. /\ \A p \in Offers \ {o} : peer'[p] = peer[p]
        /\ \A p \in Offers \ {o} : p \in connections' <=> p \in connections
        /\ \A p \in Offers \ {o} : p \in pending' <=> p \in pending
        /\ abandoned \subseteq abandoned'
    BY DEF OfferStep, OfferLock, OfferGate, OfferValidate, OfferReserve, OfferGathered, OfferFails,
       DropReservation, OfferInsert, OfferCommit, OfferCancelled, PeerFails, PeerRelease, tables,
       ReleaseInv, RevocationInv, Typed, PeersTyped
  <1>3. \A d \in Clients, p \in Offers : Ends(d, p) => Ends(d, p)' \/ p \in abandoned'
    <2>1. CASE OfferValidate(o)
      <3>1. c \in Clients /\ closing[c].at = "none"
        BY <2>1, LockHolder DEF OfferValidate, ReleaseInv, ClientInv, Locks, HoldingGate
      <3>2. UNCHANGED closing \/ \A d \in Clients : d # c => closing'[d] = closing[d]
        BY <2>1, <3>1, CloseMoves DEF OfferValidate, ReleaseInv, RevocationInv, Typed, Places
      <3> QED BY <3>1, <3>2 DEF Ends
    <2>2. CASE OfferCancelled(o)
      <3>1. c \in Clients /\ abandoned' = abandoned \cup {closing[c].conn}
            /\ closing' = [closing EXCEPT ![c] = Closed]
        BY <2>2 DEF OfferCancelled, ReleaseInv, ClientInv
      <3>2. \A d \in Clients \ {c} : closing'[d] = closing[d]
        BY <3>1, CloseEnds DEF ReleaseInv, RevocationInv
      <3> HIDE DEF c
      <3> QED BY <3>1, <3>2 DEF Ends
    <2>3. CASE ~OfferValidate(o) /\ ~OfferCancelled(o)
      <3>1. UNCHANGED closing
        BY <2>3 DEF OfferStep, OfferLock, OfferGate, OfferReserve, OfferGathered, OfferFails,
           OfferInsert, OfferCommit, PeerFails, PeerRelease
      <3> QED BY <3>1 DEF Ends
    <2> QED BY <2>1, <2>2, <2>3
  <1>4. offer'[o].at \in Reserved => o \in pending'
    BY OfferMoves DEF OfferStep, OfferLock, OfferGate, OfferValidate, OfferReserve, OfferGathered,
       OfferFails, OfferInsert, OfferCommit, OfferCancelled, PeerFails, PeerRelease, Places, Reserved,
       tables, HoldingGate, ReleaseInv, RevocationInv, Typed, PeerInv
  <1>5. offer'[o].at = "done" /\ peer'[o] = "live" => o \in connections' \/ offer[o].at = "done"
    BY OfferMoves DEF OfferStep, OfferLock, OfferGate, OfferValidate, OfferReserve, OfferGathered,
       OfferFails, DropReservation, OfferInsert, OfferCommit, OfferCancelled, PeerFails, PeerRelease,
       Places, Reserved, ReleaseInv, RevocationInv, Typed, PeersTyped, StageInv
  <1>6. offer[o].at = "done" => peer'[o] # "live" \/ UNCHANGED <<connections, peer, closing, abandoned>>
    BY DEF OfferStep, OfferLock, OfferGate, OfferValidate, OfferReserve, OfferGathered,
       OfferFails, OfferInsert, OfferCommit, OfferCancelled, PeerFails, PeerRelease,
       ReleaseInv, RevocationInv, Typed, PeersTyped
  <1>7. ASSUME NEW p \in Offers, offer'[p].at = "done", peer'[p] = "live"
        PROVE  \/ p \in connections'
               \/ reset' = "close" /\ p \in drained'.open
               \/ Ends(offer[p].client, p)'
               \/ p \in abandoned'
    <2>1. CASE p = o /\ offer[o].at # "done"
      BY <1>5, <1>7, <2>1
    <2>2. CASE p # o \/ offer[o].at = "done"
      <3>1. offer[p].at = "done" /\ peer[p] = "live" /\ (p \in connections => p \in connections')
        BY <1>1, <1>2, <1>6, <1>7, <2>2
      <3>2. offer[p].client \in Clients
        BY <3>1 DEF ReleaseInv, ClientInv
      <3> QED BY <1>1, <1>2, <1>3, <3>1, <3>2 DEF PeerInv
    <2> QED BY <2>1, <2>2
  <1>8. \A p \in Offers : offer'[p].at \in Reserved => p \in pending'
    BY <1>1, <1>2, <1>4 DEF PeerInv
  <1> QED BY <1>7, <1>8 DEF PeerInv, Reserved

LEMMA PeerReset ==
    ASSUME ReleaseInv, PeerInv, ResetStep
    PROVE  PeerInv'
  <1>1. UNCHANGED <<offer, closing, abandoned>>
    BY DEF ResetStep, ResetGate, ResetSockets, ResetMaps, ResetConnections, ResetClose, ResetForget
  <1>2. \A c \in Clients, o \in Offers : Ends(c, o)' <=> Ends(c, o)
    BY <1>1 DEF Ends
  <1>3. CASE ResetGate \/ ResetSockets \/ ResetForget
    BY <1>1, <1>2, <1>3 DEF ResetGate, ResetSockets, ResetForget, ResetAt, PeerInv, ReleaseInv,
       ClientInv, Reserved, tables
  <1>4. CASE ResetMaps
    <2>1. UNCHANGED <<connections, peer>> /\ reset = "maps" /\ reset' = "connections"
      BY <1>4 DEF ResetMaps, ResetAt
    <2>2. \A o \in Offers : offer[o].at \notin Reserved
      BY <2>1 DEF ReleaseInv, RevocationInv, GateInv, GateEmpty, HoldingGate, Reserved
    <2> QED BY <1>1, <1>2, <2>1, <2>2 DEF PeerInv, ReleaseInv, ClientInv, Reserved
  <1>5. CASE ResetConnections
    <2>1. UNCHANGED <<pending, peer>> /\ reset' = "close" /\ reset = "connections"
          /\ drained'.open = connections
      BY <1>5, ResetDrains DEF ResetConnections, ResetAt, ReleaseInv, RevocationInv
    <2> QED BY <1>1, <1>2, <2>1 DEF PeerInv, ReleaseInv, ClientInv, Reserved
  <1>6. CASE ResetClose
    <2>1. UNCHANGED <<connections, pending>> /\ peer' = Aborted(drained.open)
      BY <1>6 DEF ResetClose
    <2>2. \A o \in Offers : peer'[o] = "live" => peer[o] = "live" /\ o \notin drained.open
      BY <2>1 DEF Aborted
    <2> QED BY <1>1, <1>2, <2>1, <2>2 DEF PeerInv, ReleaseInv, ClientInv, Reserved
  <1> QED BY <1>3, <1>4, <1>5, <1>6 DEF ResetStep

LEMMA PeerStep == ReleaseInv /\ PeerInv /\ [Next]_vars => PeerInv'
  <1> SUFFICES ASSUME ReleaseInv, PeerInv, [Next]_vars PROVE PeerInv'
    OBVIOUS
  <1>1. CASE UNCHANGED vars \/ ResetRequest \/ \E n \in Limits : SetLimit(n)
    <2>1. UNCHANGED <<offer, connections, pending, peer, drained, abandoned, closing>>
          /\ (reset = "close" <=> reset' = "close")
      BY <1>1 DEF vars, ResetRequest, SetLimit, ResetAt, revoking, tables
    <2> QED BY <2>1 DEF PeerInv, Ends, Reserved
  <1>2. CASE \E k \in Sockets : \/ Arrival(k) \/ Disconnect(k) \/ HandlerStep(k)
                                \/ \E c \in Clients : LookUp(c)
    BY <1>2, PeerSockets
  <1>3. (\E c \in Clients : LookUp(c)) => \E k \in Sockets, c \in Clients : LookUp(c)
    BY DEF LookUp
  <1>4. ASSUME NEW o \in Offers, NEW c \in Clients, Post(o, c) PROVE PeerInv'
    <2>1. /\ UNCHANGED <<connections, pending, peer, reset, drained, abandoned, closing>>
          /\ offer'[o].at = "lock" /\ \A p \in Offers \ {o} : offer'[p] = offer[p]
      BY <1>4, Posts DEF Post, ReleaseInv, RevocationInv, revoking, tables
    <2> QED BY <2>1 DEF PeerInv, Ends, Reserved
  <1> QED BY <1>1, <1>2, <1>3, <1>4, PeerClose, PeerOffers, PeerReset
          DEF Next, TaskStep, Arrival

LEMMA PeerStart == Init => PeerInv
  BY DEF Init, PeerInv, Unused, Reserved

\* Outside a reset and outside an offer, a live peer whom nobody is closing is in the map.
LEMMA LivePeersListed ==
    ASSUME ReleaseInv, PeerInv, reset \in {"idle", "gate"},
           NEW o \in LivePeers, o \notin Leaving
    PROVE  o \in connections \cup pending
  <1>1. o \in Offers /\ peer[o] = "live"
    BY DEF LivePeers
  <1>2. CASE offer[o].at \in Reserved
    BY <1>1, <1>2 DEF PeerInv
  <1>3. CASE offer[o].at \notin Reserved
    <2>1. offer[o].at = "done" /\ offer[o].client \in Clients
      BY <1>1, <1>3 DEF ReleaseInv, StageInv, ClientInv
    <2> QED BY <1>1, <2>1 DEF PeerInv, Ends, Leaving
  <1> QED BY <1>2, <1>3

(***************************************************************************)
(* Revocation, of everything a token was accepted for.                     *)
(***************************************************************************)
LEMMA AllRevoked == ReleaseInv /\ PeerInv => RevocationComplete
  <1> SUFFICES ASSUME ReleaseInv, PeerInv, reset = "idle" PROVE RevocationComplete
    BY DEF RevocationComplete
  <1>1. \A o \in connections \cup pending \cup bindings : offer[o].token = token
    BY DEF ReleaseInv, RevocationInv, MapsInv, Current
  <1>2. \A c \in Clients : /\ socketOf[c] # None => socket[socketOf[c]].token = token
                           /\ clientPeer[c] # None => offer[clientPeer[c]].token = token
    BY DEF ReleaseInv, RevocationInv, TokenInv, MapsInv, Current
  <1>3. ASSUME NEW o \in Capabilities, o \notin Leaving, o \notin connections \cup pending \cup bindings
        PROVE  FALSE
    <2>1. o \in Offers
      BY DEF Capabilities, Holders, LivePeers, ReleaseInv, RevocationInv, Typed, SetsTyped
    <2>2. CASE o \in LivePeers
      BY <1>3, <2>2, LivePeersListed
    <2>3. CASE o \notin LivePeers
      <3>1. o \in Acquired
        BY <1>3, <2>3 DEF Capabilities, Holders, Acquired
      <3>2. offer[o].at = "done"
        BY <2>1, <2>3, <3>1 DEF ReleaseInv, StageInv, Holders, Acquired, LivePeers
      <3>3. offer[o].client \in Clients
        BY <2>1, <3>2 DEF ReleaseInv, ClientInv
      <3>4. Owned(o)
        BY <1>3, <2>1, <3>1, <3>2 DEF ReleaseInv, OwnedInv
      <3> QED BY <1>3, <3>3, <3>4 DEF Owned, Closes, Leaving
    <2> QED BY <2>2, <2>3
  <1> QED BY <1>1, <1>2, <1>3 DEF RevocationComplete

\* RevocationComplete (server.rs:271-276, 4495-4560): the token is compared under the
\* session gate, which the reset holds until every map is drained and what they held is
\* closed, so outside a reset nothing an earlier token was accepted for is left: no
\* socket, no place in a map, no track, no endpoint and no live peer. Excepted are what a
\* disconnect handler has in hand, and the connections whose close was dropped
\* half-way, which no map leads to any more: a reset passes them over.
THEOREM NoSessionSurvives == Spec => []RevocationComplete
  <1>1. Init => ReleaseInv /\ PeerInv
    BY RevocationStart, ClientStart, ReleaseStart, PeerStart DEF ReleaseInv, ReleaseParts
  <1>2. ReleaseInv /\ PeerInv /\ [Next]_vars => (ReleaseInv /\ PeerInv)'
    BY ReleaseStep, PeerStep
  <1> QED BY <1>1, <1>2, AllRevoked, PTL DEF Spec

(***************************************************************************)
(* Served only with a control socket.                                      *)
(***************************************************************************)
LEMMA AllHaveSockets == ReleaseInv /\ ServedInv => PeerNeedsSocket
  <1> SUFFICES ASSUME ReleaseInv, ServedInv, TasksDone, NEW o \in LivePeers \cap subscribed,
                      o \notin abandoned
               PROVE  socketOf[offer[o].client] # None
    BY DEF PeerNeedsSocket
  <1>1. o \in Offers /\ peer[o] = "live"
    BY DEF LivePeers
  <1>2. offer[o].at = "done" /\ offer[o].client \in Clients
    BY <1>1 DEF TasksDone, ReleaseInv, StageInv, ClientInv, Reserved
  <1>3. reset = "idle" /\ \A c \in Clients : closing[c].at = "none"
    BY DEF TasksDone, ReleaseInv, ClosingInv, Forgets
  <1>4. o \in bindings
    BY <1>1, <1>2, <1>3 DEF ReleaseInv, OwnedInv, Owned, Closes, Acquired
  <1>5. clientPeer[offer[o].client] # None
    BY <1>1, <1>4, NoneIsNoOffer DEF ReleaseInv, BindingInv
  <1> QED BY <1>2, <1>3, <1>5 DEF ServedInv, TasksDone, Departing, Taken

\* PeerNeedsSocket: the disconnect handler waits for the offer lock before it closes the
\* peer, and an offer looks for the control socket once it has that lock, so a peer
\* that is established while its socket goes is closed after all; a peer that is not the
\* one its client leads to any more is closed whatever becomes of the socket.
THEOREM PeersHaveSockets == Spec => []PeerNeedsSocket
  <1>1. Init => ReleaseInv /\ ServedInv
    BY RevocationStart, ClientStart, ReleaseStart DEF ReleaseInv, ReleaseParts
  <1>2. ReleaseInv /\ ServedInv /\ [Next]_vars => (ReleaseInv /\ ServedInv)'
    BY ReleaseStep, ServedStep DEF ReleaseInv, SocketInv
  <1> QED BY <1>1, <1>2, AllHaveSockets, PTL DEF Spec

(***************************************************************************)
(* The viewer limit.                                                       *)
(***************************************************************************)
LEMMA OffersFinite == IsFiniteSet(Offers)
  BY BoundsAssumption, FS_Interval DEF Offers

LEMMA UnionCount ==
    ASSUME NEW S, NEW T, IsFiniteSet(S), IsFiniteSet(T), NEW x
    PROVE  /\ Cardinality(S \cup (T \cup {x})) <= Cardinality(S) + Cardinality(T) + 1
           /\ Cardinality(S) \in Nat /\ Cardinality(T) \in Nat
  <1>1. IsFiniteSet({x}) /\ Cardinality({x}) = 1
    BY FS_Singleton
  <1>2. /\ IsFiniteSet(T \cup {x}) /\ IsFiniteSet(T \cap {x})
        /\ Cardinality(T \cup {x}) = Cardinality(T) + 1 - Cardinality(T \cap {x})
    BY <1>1, FS_Union, FS_Intersection
  <1>3. /\ IsFiniteSet(S \cap (T \cup {x})) /\ IsFiniteSet(S \cup (T \cup {x}))
        /\ Cardinality(S \cup (T \cup {x}))
             = Cardinality(S) + Cardinality(T \cup {x}) - Cardinality(S \cap (T \cup {x}))
    BY <1>2, FS_Union, FS_Intersection
  <1>4. /\ Cardinality(S) \in Nat /\ Cardinality(T) \in Nat /\ Cardinality(T \cap {x}) \in Nat
        /\ Cardinality(S \cap (T \cup {x})) \in Nat /\ Cardinality(T \cup {x}) \in Nat
        /\ Cardinality(S \cup (T \cup {x})) \in Nat
    BY <1>2, <1>3, FS_CardinalityType
  <1> QED BY <1>2, <1>3, <1>4

\* Only a reservation brings a peer up.
LEMMA OnlyReserveAdds ==
    ASSUME Typed, [Next]_vars, ~(LivePeers' \subseteq LivePeers)
    PROVE  \E o \in Offers : OfferReserve(o)
  <1> USE DEF LivePeers
  <1>1. ~UNCHANGED peer /\ Next
    BY DEF vars
  <1>2. \A c \in Clients : CloseStep(c) => LivePeers' \subseteq LivePeers
    BY DEF CloseStep, CloseTake, CloseRemove, CloseFinish, Aborted
  <1>3. \A o \in Offers :
            ~OfferReserve(o) /\ (OfferStep(o) \/ OfferCancelled(o) \/ PeerFails(o) \/ PeerRelease(o))
                => LivePeers' \subseteq LivePeers
    BY DEF OfferStep, OfferLock, OfferGate, OfferValidate, OfferGathered, OfferFails, DropReservation,
       OfferInsert, OfferCommit, OfferCancelled, PeerFails, PeerRelease, Typed, PeersTyped
  <1>4. ResetStep => LivePeers' \subseteq LivePeers
    BY DEF ResetStep, ResetGate, ResetSockets, ResetMaps, ResetConnections, ResetClose, ResetForget,
       Aborted
  <1>5. \A k \in Sockets : Arrival(k) \/ HandlerStep(k) \/ Disconnect(k) => UNCHANGED peer
    BY DEF Arrival, Arrive, LostWaiting, HandlerStep, Connect, DisconnectClose, DisconnectForget,
       Disconnect
  <1>6. \A c \in Clients : LookUp(c) \/ (\E o \in Offers : Post(o, c)) => UNCHANGED peer
    BY DEF LookUp, Post
  <1>7. ResetRequest \/ (\E n \in Limits : SetLimit(n)) => UNCHANGED peer
    BY DEF ResetRequest, SetLimit
  <1> QED BY <1>1, <1>2, <1>3, <1>4, <1>5, <1>6, <1>7 DEF Next, TaskStep, Arrival

LEMMA ReserveKeepsLimit ==
    ASSUME ReleaseInv, PeerInv, NEW o \in Offers, OfferReserve(o), ~(LivePeers' \subseteq LivePeers)
    PROVE  Cardinality(LivePeers' \ Leaving') <= limit
  <1>1. /\ offer[o].at = "reserve" /\ UNCHANGED <<closing, abandoned, connections>>
        /\ Admitted < limit /\ peer' = [peer EXCEPT ![o] = "live"]
    BY DEF OfferReserve, LivePeers
  <1>2. reset \in {"idle", "gate"}
    BY <1>1 DEF ReleaseInv, RevocationInv, GateInv, GateEmpty, HoldingGate
  <1>3. Leaving' = Leaving
    BY <1>1 DEF Leaving
  <1>4. LivePeers' \ Leaving' \subseteq connections \cup (pending \cup {o})
    <2> SUFFICES ASSUME NEW p \in LivePeers', p \notin Leaving, p # o
                 PROVE  p \in connections \cup pending
      BY <1>3
    <2>1. p \in LivePeers
      BY <1>1 DEF LivePeers, ReleaseInv, RevocationInv, Typed, PeersTyped
    <2> QED BY <1>2, <2>1, LivePeersListed
  <1>5. IsFiniteSet(connections) /\ IsFiniteSet(pending)
    BY OffersFinite, FS_Subset DEF ReleaseInv, RevocationInv, Typed, SetsTyped
  <1> DEFINE all == connections \cup (pending \cup {o})
             up  == LivePeers' \ Leaving'
             C   == Cardinality(connections)
             P   == Cardinality(pending)
  <1>6. Cardinality(all) <= C + P + 1 /\ C \in Nat /\ P \in Nat
    BY <1>5, UnionCount
  <1>7. IsFiniteSet(all)
    BY <1>5, FS_Union, FS_Singleton
  <1>8. /\ Cardinality(up) <= Cardinality(all) /\ Cardinality(up) \in Nat
        /\ Cardinality(all) \in Nat
    <2>1. up \subseteq all
      BY <1>4
    <2> HIDE DEF up, all
    <2>2. IsFiniteSet(up)
      BY <1>7, <2>1, FS_Subset
    <2> QED BY <1>7, <2>1, <2>2, FS_Subset, FS_CardinalityType
  <1>9. C + P < limit /\ limit \in Nat
    BY <1>1 DEF Admitted, ReleaseInv, RevocationInv, Typed
  <1> HIDE DEF all, up, C, P
  <1>10. Cardinality(up) <= limit
    BY <1>6, <1>8, <1>9
  <1> QED BY <1>10 DEF up

\* ViewerLimit (server.rs, OfferReservation): the reservation counts two maps, and what is
\* up is always in one of them or in somebody's hands: a peer is in pending from the step
\* that brings it up to its commit, in connections from before the commit to its failure or
\* its close, and what a reset has drained is gone before an offer is let in again.
THEOREM LimitKept == Spec => ViewerLimit
  <1> DEFINE Kept == LivePeers' \subseteq LivePeers \/ Cardinality(LivePeers' \ Leaving') <= limit
  <1>1. Init => ReleaseInv /\ PeerInv
    BY RevocationStart, ClientStart, ReleaseStart, PeerStart DEF ReleaseInv, ReleaseParts
  <1>2. ReleaseInv /\ PeerInv /\ [Next]_vars => (ReleaseInv /\ PeerInv)' /\ Kept
    <2>1. ReleaseInv /\ PeerInv /\ [Next]_vars => (ReleaseInv /\ PeerInv)'
      BY ReleaseStep, PeerStep
    <2>2. ASSUME ReleaseInv, PeerInv, [Next]_vars PROVE Kept
      BY <2>2, OnlyReserveAdds, ReserveKeepsLimit DEF ReleaseInv, RevocationInv
    <2> QED BY <2>1, <2>2
  <1>3. Spec => [](ReleaseInv /\ PeerInv) /\ [][Next]_vars
    BY <1>1, <1>2, PTL DEF Spec
  <1>4. [](ReleaseInv /\ PeerInv) /\ [][Next]_vars => [][Kept]_vars
    BY <1>2, PTL
  <1> QED BY <1>3, <1>4 DEF ViewerLimit

(***************************************************************************)
(* Offers, disconnect handlers and a reset do not wait for each other.      *)
(***************************************************************************)
OfferPlaces  == HoldingGate \cup {"unused", "lock", "gate", "done"}
SocketPlaces == {"unused", "waiting", "lost", "rejected", "open", "dead", "taken", "forget", "closed"}

PlaceInv ==
    /\ \A o \in Offers : offer[o].at \in OfferPlaces
    /\ \A k \in Sockets : socket[k].at \in SocketPlaces

\* The guards of the steps of TaskStep: of a close, an offer, a socket's handlers and
\* the reset.
CloseMayGo(c) == closing[c].at \in {"take", "remove", "close"}

OfferMayGo(o) ==
    \/ offer[o].at = "lock" /\ OfferLockFree(offer[o].client)
    \/ offer[o].at = "gate" /\ GateOpen
    \/ offer[o].at = "reserve" /\ closing[offer[o].client] = Closed
    \/ offer[o].at \in {"validate", "build", "insert", "commit"}

HandlerMayGo(k) ==
    \/ socket[k].at \in Waiting /\ GateOpen
    \/ socket[k].at = "taken" /\ OfferLockFree(socket[k].client)
    \/ socket[k].at = "forget" /\ closing[socket[k].client] = Closed

ResetMayGo ==
    \/ reset = "gate" /\ GateEmpty
    \/ reset \in {"goodbye", "maps", "connections", "close", "forget"}

SomebodyMayGo ==
    \/ \E c \in Clients : CloseMayGo(c)
    \/ \E o \in Offers : OfferMayGo(o)
    \/ \E k \in Sockets : HandlerMayGo(k)
    \/ ResetMayGo

LEMMA PlaceStart == Init => PlaceInv
  BY DEF Init, PlaceInv, OfferPlaces, SocketPlaces, Unused

LEMMA PlaceStep == RevocationInv /\ PlaceInv /\ [Next]_vars => PlaceInv'
  <1> SUFFICES ASSUME RevocationInv, PlaceInv, [Next]_vars PROVE PlaceInv'
    OBVIOUS
  <1>0. Typed
    BY DEF RevocationInv
  <1> USE DEF PlaceInv
  <1>1. CASE UNCHANGED <<offer, socket>>
    BY <1>1
  <1>2. ASSUME NEW o \in Offers, OfferStep(o) \/ OfferCancelled(o) \/ PeerFails(o) \/ PeerRelease(o)
        PROVE PlaceInv'
    <2>1. UNCHANGED socket
      BY <1>0, <1>2, OffersAdvance
    <2>2. UNCHANGED offer \/ \E place \in OfferPlaces \cap Places : OfferAt(o, place)
      BY <1>2 DEF OfferStep, OfferLock, OfferGate, OfferValidate, OfferReserve, OfferGathered,
         OfferFails, OfferInsert, OfferCommit, OfferCancelled, PeerFails, PeerRelease, Places,
         OfferPlaces, HoldingGate
    <2>3. CASE UNCHANGED offer
      BY <2>1, <2>3
    <2>4. ASSUME NEW place \in OfferPlaces \cap Places, OfferAt(o, place) PROVE PlaceInv'
      <3>1. \A p \in Offers : offer'[p].at = IF p = o THEN place ELSE offer[p].at
        BY <1>0, <2>4, OfferMoves DEF Typed
      <3> QED BY <2>1, <3>1
    <2> QED BY <2>2, <2>3, <2>4
  <1>3. ASSUME NEW o \in Offers, NEW c \in Clients, Post(o, c) PROVE PlaceInv'
    <2>1. offer'[o].at = "lock" /\ UNCHANGED socket /\ \A p \in Offers \ {o} : offer'[p] = offer[p]
      BY <1>0, <1>3, Posts DEF Post
    <2> QED BY <2>1 DEF OfferPlaces
  <1>4. ASSUME NEW k \in Sockets, Connect(k) \/ Arrival(k) PROVE PlaceInv'
    <2>1. UNCHANGED offer
      BY <1>0, <1>4, Arrives DEF Connect
    <2>2. \A j \in Sockets \ {k} : socket'[j].at \in {"closed", socket[j].at}
      BY <1>0, <1>4, Connects, Arrives
    <2>3. socket'[k].at \in {"open", "dead", "rejected", "waiting", "lost"}
      BY <1>0, <1>4, Connects, Arrives DEF Waiting
    <2> QED BY <2>1, <2>2, <2>3 DEF SocketPlaces
  <1>5. ASSUME NEW k \in Sockets, Disconnect(k) \/ DisconnectClose(k) \/ DisconnectForget(k)
        PROVE PlaceInv'
    <2>1. UNCHANGED offer /\ \E place \in SocketPlaces \cap Places : SocketAt(k, place)
      BY <1>5 DEF Disconnect, DisconnectClose, DisconnectForget, SocketPlaces, Places
    <2>2. PICK place \in SocketPlaces \cap Places : SocketAt(k, place)
      BY <2>1
    <2>3. \A j \in Sockets : socket'[j].at = IF j = k THEN place ELSE socket[j].at
      BY <1>0, <2>2, SocketMoves DEF Typed
    <2> QED BY <2>1, <2>3
  <1>6. CASE ResetSockets
    <2>1. \A k \in Sockets : socket'[k].at \in {"closed", socket[k].at}
      BY <1>0, <1>6, Revokes
    <2> QED BY <1>6, <2>1 DEF ResetSockets, SocketPlaces
  <1>7. (\A c \in Clients : CloseStep(c) \/ LookUp(c) => UNCHANGED <<offer, socket>>)
    BY DEF CloseStep, CloseTake, CloseRemove, CloseFinish, LookUp
  <1>8. ResetRequest \/ (\E n \in Limits : SetLimit(n)) \/ (ResetStep /\ ~ResetSockets)
            => UNCHANGED <<offer, socket>>
    BY DEF ResetRequest, SetLimit, ResetStep, ResetGate, ResetMaps, ResetConnections, ResetClose, ResetForget
  <1>9. UNCHANGED vars => UNCHANGED <<offer, socket>>
    BY DEF vars
  <1> QED BY <1>1, <1>2, <1>3, <1>4, <1>5, <1>6, <1>7, <1>8, <1>9
         DEF Next, TaskStep, HandlerStep, Arrival

\* A close waits for nobody, the holder of the gate for its close only, the reset for
\* the holders of the gate, who waits at the gate for the reset, and who waits for a
\* lock for the offer or the handler that has it.
LEMMA NoCircle == ReleaseInv /\ PlaceInv => TasksDone \/ SomebodyMayGo
  <1> SUFFICES ASSUME ReleaseInv, PlaceInv, ~SomebodyMayGo PROVE TasksDone
    OBVIOUS
  <1>1. \A c \in Clients : closing[c] = Closed
    BY DEF SomebodyMayGo, CloseMayGo, ReleaseInv, ClosingInv
  <1>2. \A o \in Offers : offer[o].at \notin HoldingGate
    BY <1>1 DEF SomebodyMayGo, OfferMayGo, HoldingGate, ReleaseInv, ClientInv
  <1>3. \A k \in Sockets : socket[k].at # "forget"
    BY <1>1 DEF SomebodyMayGo, HandlerMayGo, ReleaseInv, ClientInv
  <1>4. reset = "idle"
    BY <1>2 DEF SomebodyMayGo, ResetMayGo, GateEmpty, ReleaseInv, ResetInv
  <1>5. \A o \in Offers : offer[o].at # "gate"
    BY <1>4 DEF SomebodyMayGo, OfferMayGo, GateOpen
  <1>6. \A c : OfferLockFree(c)
    BY <1>2, <1>3, <1>5 DEF OfferLockFree
  <1>7. \A o \in Offers : offer[o].at \in {"unused", "done"}
    BY <1>2, <1>5, <1>6 DEF SomebodyMayGo, OfferMayGo, PlaceInv, OfferPlaces
  <1>8. \A k \in Sockets : socket[k].at \in {"unused", "open", "dead", "closed", "rejected"}
    BY <1>3, <1>4, <1>6 DEF SomebodyMayGo, HandlerMayGo, PlaceInv, SocketPlaces, Waiting, GateOpen
  <1> QED BY <1>4, <1>7, <1>8 DEF TasksDone

\* server.rs, lock_offer and session_gate. While an offer, a disconnect handler or a
\* reset is unfinished, the guard of one of their next steps holds: NobodyStuck with
\* the guards in place of ENABLED, for any number of viewers, offers and resets.
THEOREM NoDeadlock == Spec => [](TasksDone \/ SomebodyMayGo)
  <1>1. Init => ReleaseInv /\ PlaceInv
    BY RevocationStart, ClientStart, ReleaseStart, PlaceStart DEF ReleaseInv, ReleaseParts
  <1>2. ReleaseInv /\ PlaceInv /\ [Next]_vars => (ReleaseInv /\ PlaceInv)'
    BY ReleaseStep, PlaceStep DEF ReleaseInv
  <1> QED BY <1>1, <1>2, NoCircle, PTL DEF Spec

(***************************************************************************)
(* The types that Typed leaves open.                                       *)
(***************************************************************************)

\* A reset that has begun is one of those the bound counts.
CountsTyped ==
    /\ token \in Tokens /\ limit \in Limits
    /\ reset \in {"gate", "goodbye"} => token < MaxResets

\* What a close works on is a connection.
ClosesTyped ==
    /\ \A c \in Clients : closing[c].at \in {"remove", "close"} => closing[c].conn \in Offers
    /\ abandoned \subseteq Offers

PeerPlaces == {"none", "live", "failed", "off"}

RestTyped == CountsTyped /\ ClosesTyped /\ assigned \subseteq Clients /\ peer \in [Offers -> PeerPlaces]

LEMMA RestStart == Init => RestTyped
  BY BoundsAssumption DEF Init, RestTyped, CountsTyped, ClosesTyped, PeerPlaces, Tokens, Closed

LEMMA CountsStep == RestTyped /\ [Next]_vars => CountsTyped'
  <1> SUFFICES ASSUME RestTyped, [Next]_vars PROVE CountsTyped'
    OBVIOUS
  <1> USE DEF RestTyped, CountsTyped
  <1>1. CASE UNCHANGED <<token, limit, reset>>
    BY <1>1
  <1>2. (\E c \in Clients : CloseStep(c) \/ LookUp(c)) => UNCHANGED <<token, limit, reset>>
    BY DEF CloseStep, CloseTake, CloseRemove, CloseFinish, LookUp, revoking
  <1>3. (\E o \in Offers : OfferStep(o) \/ OfferCancelled(o) \/ PeerFails(o) \/ PeerRelease(o))
            => UNCHANGED <<token, limit, reset>>
    BY DEF OfferStep, OfferLock, OfferGate, OfferValidate, OfferReserve, OfferGathered, OfferFails,
           OfferInsert, OfferCommit, OfferCancelled, PeerFails, PeerRelease, revoking
  <1>4. (\E k \in Sockets : HandlerStep(k) \/ Disconnect(k)) => UNCHANGED <<token, limit, reset>>
    BY DEF HandlerStep, Connect, DisconnectClose, DisconnectForget, Disconnect, revoking
  <1>5. (\E k \in Sockets : Arrival(k)) \/ (\E c \in Clients, o \in Offers : Post(o, c))
            => UNCHANGED <<token, limit, reset>>
    BY DEF Arrival, Arrive, LostWaiting, Post, revoking
  <1>6. CASE ResetSockets
    BY <1>6, BoundsAssumption DEF ResetSockets, ResetAt, Tokens
  <1>7. CASE ResetRequest \/ (ResetStep /\ ~ResetSockets)
    BY <1>7 DEF ResetRequest, ResetStep, ResetGate, ResetMaps, ResetConnections, ResetClose,
       ResetForget, ResetAt
  <1>8. CASE \E n \in Limits : SetLimit(n)
    BY <1>8 DEF SetLimit, revoking
  <1>9. UNCHANGED vars => UNCHANGED <<token, limit, reset>>
    BY DEF vars, revoking
  <1> QED BY <1>1, <1>2, <1>3, <1>4, <1>5, <1>6, <1>7, <1>8, <1>9 DEF Next, TaskStep, Arrival

LEMMA ClosesStep == Typed /\ ClientInv /\ RestTyped /\ [Next]_vars => ClosesTyped'
  <1> SUFFICES ASSUME Typed, ClientInv, RestTyped, [Next]_vars PROVE ClosesTyped'
    OBVIOUS
  <1> USE DEF RestTyped, ClosesTyped
  <1>1. CASE UNCHANGED <<closing, abandoned>>
    BY <1>1
  <1>2. ASSUME NEW c \in Clients, CloseTake(c) PROVE ClosesTyped'
    <2>1. UNCHANGED abandoned /\ clientPeer[c] \in Offers \cup {None}
      BY <1>2 DEF CloseTake, Typed, PeersTyped
    <2> QED BY <1>2, <2>1, CloseTakes, ClosedHasNoConnection
  <1>3. ASSUME NEW c \in Clients, CloseRemove(c) PROVE ClosesTyped'
    <2>1. UNCHANGED abandoned /\ closing[c].at = "remove"
      BY <1>3 DEF CloseRemove
    <2> QED BY <1>3, <2>1, CloseRemoves
  <1>4. ASSUME NEW c \in Clients, CloseFinish(c) PROVE ClosesTyped'
    <2>1. UNCHANGED abandoned /\ closing' = [closing EXCEPT ![c] = Closed]
      BY <1>4 DEF CloseFinish
    <2> QED BY <2>1, CloseEnds, ClosedHasNoConnection
  <1>5. ASSUME NEW c \in Clients, CloseAt(c, "take"), UNCHANGED abandoned PROVE ClosesTyped'
    <2>1. closing'[c].at = "take" /\ \A d \in Clients : d # c => closing'[d] = closing[d]
      BY <1>5, CloseMoves DEF Typed, Places
    <2> QED BY <1>5, <2>1
  <1>6. ASSUME NEW o \in Offers, OfferCancelled(o) PROVE ClosesTyped'
    <2> DEFINE c == offer[o].client
    <2>1. /\ closing[c].at \in {"remove", "close"} /\ closing' = [closing EXCEPT ![c] = Closed]
          /\ abandoned' = abandoned \cup {closing[c].conn}
      BY <1>6 DEF OfferCancelled
    <2>2. c \in Clients
      BY <1>6 DEF OfferCancelled, ClientInv
    <2> HIDE DEF c
    <2> QED BY <2>1, <2>2, CloseEnds, ClosedHasNoConnection
  <1>7. ASSUME NEW k \in Sockets, HandlerStep(k) PROVE ClosesTyped'
    <2>1. CASE DisconnectClose(k)
      <3>1. socket[k].client \in Clients /\ CloseAt(socket[k].client, "take") /\ UNCHANGED abandoned
        BY <2>1 DEF DisconnectClose, ClientInv
      <3> QED BY <1>5, <3>1
    <2>2. CASE DisconnectForget(k)
      BY <1>1, <2>2 DEF DisconnectForget
    <2>3. CASE Connect(k)
      BY <1>1, <2>3 DEF Connect
    <2> QED BY <1>7, <2>1, <2>2, <2>3 DEF HandlerStep
  <1>8. ASSUME NEW o \in Offers, OfferStep(o) PROVE ClosesTyped'
    <2>1. CASE OfferValidate(o)
      <3>1. offer[o].client \in Clients /\ UNCHANGED abandoned
        BY <2>1 DEF OfferValidate, ClientInv
      <3>2. CloseAt(offer[o].client, "take") \/ UNCHANGED closing
        BY <2>1 DEF OfferValidate
      <3> QED BY <1>1, <1>5, <3>1, <3>2
    <2>2. CASE ~OfferValidate(o)
      BY <1>1, <1>8, <2>2 DEF OfferStep, OfferLock, OfferGate, OfferReserve, OfferGathered, OfferFails,
         OfferInsert, OfferCommit
    <2> QED BY <2>1, <2>2
  <1>9. (\E o \in Offers : PeerFails(o) \/ PeerRelease(o)) => UNCHANGED <<closing, abandoned>>
    BY DEF PeerFails, PeerRelease
  <1>10. (\E k \in Sockets : Disconnect(k) \/ Arrival(k)) => UNCHANGED <<closing, abandoned>>
    BY DEF Disconnect, Arrival, Arrive, LostWaiting
  <1>11. (\E c \in Clients : LookUp(c) \/ \E o \in Offers : Post(o, c)) => UNCHANGED <<closing, abandoned>>
    BY DEF LookUp, Post
  <1>12. ResetStep \/ ResetRequest \/ (\E n \in Limits : SetLimit(n)) => UNCHANGED <<closing, abandoned>>
    BY DEF ResetStep, ResetGate, ResetSockets, ResetMaps, ResetConnections, ResetClose, ResetForget,
       ResetRequest, SetLimit
  <1>13. UNCHANGED vars => UNCHANGED <<closing, abandoned>>
    BY DEF vars
  <1> QED BY <1>1, <1>2, <1>3, <1>4, <1>6, <1>7, <1>8, <1>9, <1>10, <1>11, <1>12, <1>13
          DEF Next, TaskStep, CloseStep, Arrival

LEMMA AssignedStep == ClientInv /\ RestTyped /\ [Next]_vars => (assigned \subseteq Clients)'
  <1> SUFFICES ASSUME ClientInv, RestTyped, [Next]_vars PROVE assigned' \subseteq Clients
    OBVIOUS
  <1> USE DEF RestTyped
  <1>1. ASSUME NEW o \in Offers, OfferStep(o) PROVE assigned' \subseteq Clients
    <2>1. CASE OfferValidate(o)
      BY <2>1 DEF OfferValidate, ClientInv
    <2>2. CASE ~OfferValidate(o)
      BY <1>1, <2>2 DEF OfferStep, OfferLock, OfferGate, OfferReserve, OfferGathered, OfferFails,
         OfferInsert, OfferCommit, clients
    <2> QED BY <2>1, <2>2
  <1>2. ASSUME NEW k \in Sockets, HandlerStep(k) \/ Disconnect(k) \/ Arrival(k)
        PROVE assigned' \subseteq Clients
    <2>1. CASE DisconnectForget(k)
      BY <2>1 DEF DisconnectForget
    <2>2. CASE DisconnectClose(k) \/ Disconnect(k)
      BY <2>2 DEF DisconnectClose, Disconnect, clients
    <2>3. CASE Arrival(k)
      BY <2>3 DEF Arrival, Arrive, LostWaiting, clients
    <2>4. CASE Connect(k)
      <3>1. socket[k].client \in Clients
        BY <2>4 DEF Connect, Waiting, ClientInv
      <3> QED BY <2>4, <3>1 DEF Connect, clients
    <2> QED BY <1>2, <2>1, <2>2, <2>3, <2>4 DEF HandlerStep
  <1>3. ASSUME NEW c \in Clients, CloseStep(c) \/ LookUp(c) \/ \E o \in Offers : Post(o, c)
        PROVE assigned' \subseteq Clients
    BY <1>3 DEF CloseStep, CloseTake, CloseRemove, CloseFinish, LookUp, Post, clients
  <1>4. ASSUME NEW o \in Offers, OfferCancelled(o) \/ PeerFails(o) \/ PeerRelease(o)
        PROVE assigned' \subseteq Clients
    BY <1>4 DEF OfferCancelled, PeerFails, PeerRelease, clients
  <1>5. CASE ResetStep \/ ResetRequest \/ (\E n \in Limits : SetLimit(n))
    BY <1>5 DEF ResetStep, ResetGate, ResetSockets, ResetMaps, ResetConnections, ResetClose, ResetForget,
       ResetRequest, SetLimit, clients
  <1>6. CASE UNCHANGED vars
    BY <1>6 DEF vars, clients
  <1> QED BY <1>1, <1>2, <1>3, <1>4, <1>5, <1>6 DEF Next, TaskStep, Arrival

LEMMA PeersStep == RestTyped /\ [Next]_vars => (peer \in [Offers -> PeerPlaces])'
  <1> SUFFICES ASSUME RestTyped, [Next]_vars PROVE peer' \in [Offers -> PeerPlaces]
    OBVIOUS
  <1> USE DEF RestTyped, PeerPlaces, Aborted
  <1>1. ASSUME NEW o \in Offers, OfferStep(o) \/ OfferCancelled(o) \/ PeerFails(o) \/ PeerRelease(o)
        PROVE peer' \in [Offers -> PeerPlaces]
    BY <1>1 DEF OfferStep, OfferLock, OfferGate, OfferValidate, OfferReserve, OfferGathered, OfferFails,
           DropReservation, OfferInsert, OfferCommit, OfferCancelled, PeerFails, PeerRelease
  <1>2. ASSUME NEW k \in Sockets, HandlerStep(k) \/ Disconnect(k) \/ Arrival(k)
        PROVE peer' \in [Offers -> PeerPlaces]
    BY <1>2 DEF HandlerStep, DisconnectClose, DisconnectForget, Disconnect, Connect, Arrival, Arrive,
       LostWaiting
  <1>3. ASSUME NEW c \in Clients, CloseStep(c) \/ LookUp(c) \/ \E o \in Offers : Post(o, c)
        PROVE peer' \in [Offers -> PeerPlaces]
    BY <1>3 DEF CloseStep, CloseTake, CloseRemove, CloseFinish, LookUp, Post
  <1>4. CASE ResetStep \/ ResetRequest \/ (\E n \in Limits : SetLimit(n))
    BY <1>4 DEF ResetStep, ResetGate, ResetSockets, ResetMaps, ResetConnections, ResetClose, ResetForget,
       ResetRequest, SetLimit
  <1>5. CASE UNCHANGED vars
    BY <1>5 DEF vars
  <1> QED BY <1>1, <1>2, <1>3, <1>4, <1>5 DEF Next, TaskStep, Arrival

\* server.rs. Every map of ServerState keeps its type, whatever the tasks interleave
\* to: in particular no connection is closed that was not one.
THEOREM TypeCorrect == Spec => []TypeOK
  <1> DEFINE Inv == RevocationInv /\ ClientInv /\ RestTyped
  <1>1. Init => Inv
    BY RevocationStart, ClientStart, RestStart
  <1>2. Inv /\ [Next]_vars => Inv'
    BY RevocationStep, ClientStep, CountsStep, ClosesStep, AssignedStep, PeersStep
       DEF RevocationInv, RestTyped
  <1>3. Inv => TypeOK
    <2> SUFFICES ASSUME Inv PROVE TypeOK
      OBVIOUS
    <2>1. /\ socketOf \in [Clients -> Sockets \cup {None}]
          /\ clientPeer \in [Clients -> Offers \cup {None}]
          /\ connections \cup pending \cup bindings \cup subscribed \cup endpoints \subseteq Offers
      BY DEF RevocationInv, Typed, ClientsTyped, PeersTyped, SetsTyped
    <2>2. \A k \in Sockets : socket[k].client \in Clients \cup {None}
      BY DEF RevocationInv, Typed, SocketsTyped, Entries
    <2>3. \A c \in Clients : closing[c].conn \in Offers \cup {None}
      BY DEF RevocationInv, Typed, ClosingsTyped, Closings
    <2> QED BY <2>1, <2>2, <2>3 DEF RestTyped, CountsTyped, ClosesTyped, PeerPlaces, TypeOK
  <1> QED BY <1>1, <1>2, <1>3, PTL DEF Spec
==============================================================================
