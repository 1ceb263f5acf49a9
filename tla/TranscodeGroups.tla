---------------------------- MODULE TranscodeGroups ----------------------------
(***************************************************************************)
(* The quality groups of src/server.rs: a fixed set of group slots, each    *)
(* with at most one encoder, the assignment of viewers to groups, and the   *)
(* tasks that change both.                                                 *)
(*                                                                         *)
(*   handler     a Socket.IO or HTTP handler of a viewer: bootstrap,       *)
(*               observe, codec_failure, media_for of an offer             *)
(*   session     control_connect, handle_control_disconnect                *)
(*   broadcaster broadcast_status and restart_viewer_sessions              *)
(*   maintainer  group_adaptive_loop: maintain                             *)
(*   worker      control_task: Start, cleanup of Stop, reconfiguration     *)
(*   urgent      urgent_stop_task                                          *)
(*                                                                         *)
(* Two mutexes matter: lifecycle_lock, held while encoders start, and       *)
(* assignments. An action that takes and releases a mutex without waiting   *)
(* in between only asks that it is free. A loop over the slots that holds   *)
(* the lifecycle lock is one action.                                       *)
(*                                                                         *)
(* Codecs, profiles and measurements are abstracted: which group a viewer   *)
(* needs is a choice among those the selection may return. An encoder is    *)
(* running or, once it was told to stop, stopped.                          *)
(***************************************************************************)
EXTENDS Naturals, FiniteSets, FiniteSetsExt

CONSTANTS
    Clients,        \* viewers
    Handlers,       \* handlers executing at the same time
    Slots,          \* number of group slots
    MaxCalls,       \* bound on the calls of handlers
    MaxSessions,    \* bound on connects, disconnects and broadcasts
    MaxChanges,     \* bound on Starts and reconfigurations
    MaxStops,       \* bound on Stops
    None

ASSUME BoundsAssumption ==
    /\ {Slots, MaxCalls, MaxSessions, MaxChanges, MaxStops} \subseteq Nat
    /\ Slots > 0
    /\ None \notin Clients /\ None \notin Nat
    /\ {"free", "maintainer", "worker"} \cap Handlers = {}

Groups == 0 .. Slots - 1

VARIABLES
    enabled,            \* ServerState.stream_enabled
    captured,           \* the CaptureSlot is occupied
    budget,             \* TranscodeGroups.active_budget
    media,              \* TranscodeGroup.media
    lifecycle,          \* TranscodeGroup.lifecycle
    draining,           \* TranscodeGroup.drain_started_at.is_some()
    assignment,         \* TranscodeGroups.assignments
    lifecycleLock, assignmentsLock,     \* who holds the mutexes
    op, client, pc, group, held,        \* the handlers and their locals
    sockets,            \* ServerState.client_sockets
    leaving,            \* disconnect handlers between their two steps
    notified,           \* viewers a broadcast still has to visit
    roundPc, active, seen, at,          \* maintain
    workerPc, wanted, replacement,      \* control_task
    urgentPc, finalize, \* urgent_stop_task, a FinalizeStop is queued
    calls, sessions, changes, stops,    \* what the bounds count
    leaked              \* history: encoders dropped from a slot while running

slots    == <<media, lifecycle, draining>>
locks    == <<lifecycleLock, assignmentsLock>>
handlers == <<op, client, pc, group, held>>
viewers  == <<sockets, leaving, notified>>
round    == <<roundPc, active, seen, at>>
workerV  == <<workerPc, wanted, replacement>>
urgentV  == <<urgentPc, finalize>>
counts   == <<calls, sessions, changes, stops>>
vars     == <<enabled, captured, budget, slots, assignment, locks, handlers, viewers,
              round, workerV, urgentV, counts, leaked>>

(***************************************************************************)
(* Shared helpers.                                                         *)
(***************************************************************************)
\* GroupLifecycle::is_visible with an encoder, within the budget.
ActiveGroups ==
    {g \in Groups : g < budget /\ lifecycle[g] = "Active" /\ media[g] # "none"}

\* primary_group_id
Primary == IF ActiveGroups = {} THEN 0 ELSE Min(ActiveGroups)

\* Group slots below the budget that have no encoder.
Vacant == {g \in Groups : g < budget /\ media[g] = "none"}

Members(assigned, g) == {c \in Clients : assigned[c] = g}

\* ensure_client: the assignment of c, given or corrected.
Ensured(c) == IF assignment[c] \in ActiveGroups THEN assignment[c] ELSE Primary

\* An encoder that was told to stop.
Signalled(encoder) == IF encoder = "running" THEN "stopped" ELSE encoder

\* request_stop_all reaches every pipeline, also those still starting.
SignalAll ==
    /\ media' = [g \in Groups |-> Signalled(media[g])]
    /\ held' = [h \in Handlers |-> Signalled(held[h])]
    /\ replacement' = [g \in Groups |-> Signalled(replacement[g])]

(***************************************************************************)
(* Handlers of a viewer. A handler that must start an encoder goes through  *)
(* activate_group: look, lock, start, ready.                               *)
(***************************************************************************)
Begin(h, c) ==
    /\ pc[h] = "idle"
    /\ c \in sockets
    /\ assignmentsLock = "free"
    /\ calls < MaxCalls
    /\ calls' = calls + 1

Enter(h, c, kind) ==
    /\ op' = [op EXCEPT ![h] = kind]
    /\ client' = [client EXCEPT ![h] = c]
    /\ pc' = [pc EXCEPT ![h] = "look"]

\* The handler returns; its locals are gone.
Return(h) ==
    /\ op' = [op EXCEPT ![h] = "none"]
    /\ client' = [client EXCEPT ![h] = None]
    /\ group' = [group EXCEPT ![h] = 0]
    /\ pc' = [pc EXCEPT ![h] = "idle"]

beginRest == <<enabled, captured, budget, slots, lifecycleLock, held, viewers, round,
               workerV, urgentV, sessions, changes, stops, leaked>>

\* What group_for_codec_profile may return, by codec and profile: the preferred
\* slot, an active group that matches exactly, or a vacant slot to be configured.
Selectable == {g \in Groups : g < budget}

\* bootstrap and codec_failure
BeginSelect(h, c) ==
    /\ Begin(h, c)
    /\ \/ Enter(h, c, "bootstrap")
       \/ Enter(h, c, "codecFailure") /\ assignment[c] # None
    /\ \E g \in Selectable : group' = [group EXCEPT ![h] = g]
    /\ UNCHANGED <<assignment, assignmentsLock, beginRest>>

\* media_for
BeginOffer(h, c) ==
    /\ Begin(h, c) /\ Enter(h, c, "offer")
    /\ assignment' = [assignment EXCEPT ![c] = Ensured(c)]
    /\ group' = [group EXCEPT ![h] = Ensured(c)]
    /\ UNCHANGED <<assignmentsLock, beginRest>>

\* Where observe may move a viewer without starting an encoder: to a lower group
\* when it is congested, to a higher one when it has headroom.
Movable(current) == ActiveGroups \ {current}

\* observe: congestion starts the next vacant slot, with the assignments locked.
BeginObserve(h, c) ==
    LET current == IF assignment[c] = None THEN Primary ELSE assignment[c]
        lower   == {g \in Vacant : g > current}
    IN /\ Begin(h, c)
       /\ \/ /\ lower # {}
             /\ Enter(h, c, "observe")
             /\ group' = [group EXCEPT ![h] = Min(lower)]
             /\ assignment' = [assignment EXCEPT ![c] = current]
             /\ assignmentsLock' = h
          \/ /\ \E g \in Movable(current) \cup {current} :
                    /\ g > current => lower = {}
                    /\ assignment' = [assignment EXCEPT ![c] = g]
             /\ UNCHANGED <<op, client, group, pc, assignmentsLock>>
       /\ UNCHANGED beginRest

stepRest == <<enabled, captured, budget, viewers, round, workerV, urgentV, counts>>
locals   == <<op, client, group>>

\* The first look, without the lock.
Look(h) ==
    /\ pc[h] = "look"
    /\ pc' = [pc EXCEPT ![h] = IF media[group[h]] = "none" THEN "lock" ELSE "assign"]
    /\ UNCHANGED <<slots, assignment, locks, locals, held, leaked, stepRest>>

\* Mutant: no second look under the lock.
LockBlindly(h) ==
    /\ pc[h] = "lock"
    /\ lifecycleLock = "free"
    /\ pc' = [pc EXCEPT ![h] = "start"] /\ lifecycleLock' = h
    /\ UNCHANGED <<slots, assignment, assignmentsLock, locals, held, leaked, stepRest>>

\* The second look, under the lock.
Lock(h) ==
    /\ pc[h] = "lock"
    /\ lifecycleLock = "free"
    /\ IF media[group[h]] = "none"
       THEN pc' = [pc EXCEPT ![h] = "start"] /\ lifecycleLock' = h
       ELSE pc' = [pc EXCEPT ![h] = "assign"] /\ UNCHANGED lifecycleLock
    /\ UNCHANGED <<slots, assignment, assignmentsLock, locals, held, leaked, stepRest>>

\* Mutant: the gate is not looked at.
MayStartAlways == TRUE

\* GroupFactory::start refuses while the stream is stopped.
MayStart == enabled

CheckGate(h) ==
    /\ pc[h] = "start"
    /\ IF MayStart
       THEN pc' = [pc EXCEPT ![h] = "register"] /\ UNCHANGED lifecycleLock
       ELSE pc' = [pc EXCEPT ![h] = "failed"] /\ lifecycleLock' = "free"
    /\ UNCHANGED <<slots, assignment, assignmentsLock, locals, held, leaked, stepRest>>

\* start_with_capture enters the encoder in the list request_stop_all goes through;
\* the gate may have closed since. The capture stays while the lock is held.
StartEncoder(h) ==
    /\ pc[h] = "register"
    /\ IF captured
       THEN /\ pc' = [pc EXCEPT ![h] = "ready"]
            /\ held' = [held EXCEPT ![h] = "running"]
            /\ UNCHANGED lifecycleLock
       ELSE /\ pc' = [pc EXCEPT ![h] = "failed"]
            /\ lifecycleLock' = "free"
            /\ UNCHANGED held
    /\ UNCHANGED <<slots, assignment, assignmentsLock, locals, leaked, stepRest>>

\* The first frame arrived; an encoder told to stop may just have made it.
Install(h) ==
    /\ pc[h] = "ready"
    /\ media' = [media EXCEPT ![group[h]] = held[h]]
    /\ leaked' = IF media[group[h]] = "running" THEN leaked + 1 ELSE leaked
    /\ lifecycle' = [lifecycle EXCEPT ![group[h]] = "Active"]
    /\ draining' = [draining EXCEPT ![group[h]] = FALSE]
    /\ held' = [held EXCEPT ![h] = "none"]
    /\ pc' = [pc EXCEPT ![h] = "assign"]
    /\ lifecycleLock' = "free"
    /\ UNCHANGED <<assignment, assignmentsLock, locals, stepRest>>

\* It did not; the encoder is stopped.
NotReady(h) ==
    /\ pc[h] = "ready"
    /\ held' = [held EXCEPT ![h] = "none"]
    /\ pc' = [pc EXCEPT ![h] = "failed"]
    /\ lifecycleLock' = "free"
    /\ UNCHANGED <<slots, assignment, assignmentsLock, locals, leaked, stepRest>>

Failed(h) ==
    /\ pc[h] = "failed"
    /\ \/ /\ op[h] = "bootstrap"
          /\ group' = [group EXCEPT ![h] = Primary]
          /\ pc' = [pc EXCEPT ![h] = "assign"]
          /\ UNCHANGED <<op, client>>
       \/ /\ op[h] = "observe"
          /\ LET current == assignment[client[h]]
             IN \E g \in Movable(current) \cup {current} :
                    group' = [group EXCEPT ![h] = g]
          /\ pc' = [pc EXCEPT ![h] = "assign"]
          /\ UNCHANGED <<op, client>>
       \/ /\ op[h] \in {"codecFailure", "offer"}
          /\ Return(h)
    /\ UNCHANGED <<slots, assignment, locks, held, leaked, stepRest>>

\* bootstrap inserts, codec_failure only updates, an offer has its media.
Assign(h) ==
    /\ pc[h] = "assign"
    /\ op[h] = "offer" \/ assignmentsLock \in {"free", h}
    /\ assignment' =
          IF op[h] = "offer" \/ (op[h] = "codecFailure" /\ assignment[client[h]] = None)
          THEN assignment ELSE [assignment EXCEPT ![client[h]] = group[h]]
    /\ assignmentsLock' = IF assignmentsLock = h THEN "free" ELSE assignmentsLock
    /\ Return(h)
    /\ UNCHANGED <<slots, lifecycleLock, held, leaked, stepRest>>

HandlerStep(h) == Look(h) \/ Lock(h) \/ CheckGate(h) \/ StartEncoder(h) \/ Install(h) \/ NotReady(h)
                  \/ Failed(h) \/ Assign(h)

(***************************************************************************)
(* Sockets and broadcasts.                                                 *)
(***************************************************************************)
sessionRest == <<enabled, captured, budget, slots, locks, handlers, round, workerV,
                 urgentV, calls, changes, stops, leaked>>

\* A new socket of a viewer replaces its previous one; the handler of the latter
\* does nothing then.
Connect(c) ==
    /\ sessions < MaxSessions
    /\ assignmentsLock = "free"
    /\ sessions' = sessions + 1
    /\ sockets' = sockets \cup {c}
    /\ assignment' = [assignment EXCEPT ![c] = Ensured(c)]
    /\ UNCHANGED <<leaving, notified, sessionRest>>

\* take_current_socket; the offer lock is awaited before the rest.
Disconnect(c) ==
    /\ c \in sockets
    /\ sessions < MaxSessions
    /\ sessions' = sessions + 1
    /\ sockets' = sockets \ {c}
    /\ leaving' = leaving \cup {c}
    /\ UNCHANGED <<notified, assignment, sessionRest>>

RemoveClient(c) ==
    /\ c \in leaving
    /\ assignmentsLock = "free"
    /\ leaving' = leaving \ {c}
    /\ assignment' = [assignment EXCEPT ![c] = None]
    /\ UNCHANGED <<sockets, notified, sessions, sessionRest>>

\* The sockets are copied first and visited one by one.
Broadcast ==
    /\ notified = {}
    /\ sockets # {}
    /\ sessions < MaxSessions
    /\ sessions' = sessions + 1
    /\ notified' = sockets
    /\ UNCHANGED <<sockets, leaving, assignment, sessionRest>>

BroadcastTo(c) ==
    /\ c \in notified
    /\ assignmentsLock = "free"
    /\ notified' = notified \ {c}
    /\ assignment' = [assignment EXCEPT ![c] = Ensured(c)]
    /\ UNCHANGED <<sockets, leaving, sessions, sessionRest>>

Session(c) == Connect(c) \/ Disconnect(c) \/ RemoveClient(c) \/ BroadcastTo(c)

(***************************************************************************)
(* maintain, holding the lifecycle lock: merge similar groups, then start,  *)
(* end or complete the draining of each group.                             *)
(***************************************************************************)
roundRest == <<enabled, captured, budget, handlers, viewers, workerV, urgentV, counts,
               leaked>>

\* group_adaptive_loop looks at the gate, then waits for the lock.
Tick ==
    /\ roundPc = "idle"
    /\ enabled
    /\ roundPc' = "tick"
    /\ UNCHANGED <<slots, assignment, locks, active, seen, at, roundRest>>

BeginRound ==
    /\ roundPc = "tick"
    /\ lifecycleLock = "free"
    /\ lifecycleLock' = "maintainer"
    /\ active' = ActiveGroups
    /\ roundPc' = "count"
    /\ UNCHANGED <<slots, assignment, assignmentsLock, seen, at, roundRest>>

\* The copy of the assignments, before the merges and again after them.
CountMembers ==
    /\ roundPc \in {"count", "recount"}
    /\ assignmentsLock = "free"
    /\ seen' = assignment
    /\ at' = 0
    /\ roundPc' = IF roundPc = "count" THEN "merge" ELSE "drain"
    /\ UNCHANGED <<slots, assignment, locks, active, roundRest>>

Advance(next) ==
    /\ at' = IF at = Slots - 1 THEN 0 ELSE at + 1
    /\ roundPc' = IF at = Slots - 1 THEN next ELSE roundPc

Size(g) == Cardinality(Members(seen, g))

\* The primary group is never merged into another one.
Mergeable(source) == source \in active \ {0} /\ Size(source) > 0

\* Every member of the source moves, also those assigned since the count. The
\* target may itself have been merged away in this round.
Merge ==
    /\ roundPc = "merge"
    /\ Mergeable(at)
    /\ assignmentsLock = "free"
    /\ \E target \in active \ {at} :
          /\ Size(target) >= Size(at)
          /\ assignment' = [c \in Clients |-> IF assignment[c] = at THEN target
                                              ELSE assignment[c]]
    /\ lifecycle' = [lifecycle EXCEPT ![at] = "Draining"]
    /\ draining' = [draining EXCEPT ![at] = TRUE]
    /\ Advance("recount")
    /\ UNCHANGED <<media, locks, active, seen, roundRest>>

\* No other group is similar and at least as large.
KeepGroup ==
    /\ roundPc = "merge"
    /\ Advance("recount")
    /\ UNCHANGED <<slots, assignment, locks, active, seen, roundRest>>

drainRest == <<assignment, locks, active, seen, roundRest>>

\* The drain phase has reached a group other than the primary.
Visiting(g) == roundPc = "drain" /\ at = g /\ g # 0 /\ g < budget

\* Mutant: a group whose members came back goes on draining.
RejoinDraining(g) ==
    /\ Visiting(g)
    /\ Members(seen, g) # {}
    /\ draining' = [draining EXCEPT ![g] = FALSE]
    /\ Advance("unlock")
    /\ UNCHANGED <<media, lifecycle, drainRest>>

Rejoin(g) ==
    /\ Visiting(g)
    /\ Members(seen, g) # {}
    /\ lifecycle' = [lifecycle EXCEPT ![g] = IF @ = "Draining" THEN "Active" ELSE @]
    /\ draining' = [draining EXCEPT ![g] = FALSE]
    /\ Advance("unlock")
    /\ UNCHANGED <<media, drainRest>>

\* Mutant: an unused group is not noticed.
StartDrainNever(g) ==
    /\ Visiting(g)
    /\ Members(seen, g) = {} /\ media[g] # "none" /\ ~draining[g]
    /\ Advance("unlock")
    /\ UNCHANGED <<slots, drainRest>>

StartDrain(g) ==
    /\ Visiting(g)
    /\ Members(seen, g) = {} /\ media[g] # "none" /\ ~draining[g]
    /\ lifecycle' = [lifecycle EXCEPT ![g] = "Draining"]
    /\ draining' = [draining EXCEPT ![g] = TRUE]
    /\ Advance("unlock")
    /\ UNCHANGED <<media, drainRest>>

\* DRAIN_GRACE has passed: the encoder is stopped.
FinishDrain(g) ==
    /\ Visiting(g)
    /\ Members(seen, g) = {} /\ media[g] # "none" /\ draining[g]
    /\ media' = [media EXCEPT ![g] = "none"]
    /\ lifecycle' = [lifecycle EXCEPT ![g] = "Stopped"]
    /\ draining' = [draining EXCEPT ![g] = FALSE]
    /\ Advance("unlock")
    /\ UNCHANGED drainRest

SkipGroup ==
    /\ roundPc = "drain"
    /\ Visiting(at) => Members(seen, at) = {} /\ (media[at] # "none" => draining[at])
    /\ Advance("unlock")
    /\ UNCHANGED <<slots, drainRest>>

EndRound ==
    /\ roundPc = "unlock"
    /\ lifecycleLock' = "free"
    /\ roundPc' = "idle"
    /\ active' = {} /\ seen' = [c \in Clients |-> None]
    /\ UNCHANGED <<slots, assignment, assignmentsLock, at, roundRest>>

Drain(g) == Rejoin(g) \/ StartDrain(g) \/ FinishDrain(g)
Maintain == Tick \/ BeginRound \/ CountMembers \/ Merge \/ KeepGroup \/ SkipGroup \/ EndRound
            \/ \E g \in Groups : Drain(g)

(***************************************************************************)
(* The control worker: Start, the cleanup of a Stop, and reconfiguration.  *)
(***************************************************************************)
workerRest == <<assignment, assignmentsLock, handlers, viewers, round, urgentPc, calls,
                sessions, stops>>
Change == changes < MaxChanges /\ changes' = changes + 1

\* SharedCapture::start and CaptureSlot::install of a Start; the slot is occupied
\* as long as the cleanup of a Stop has not come.
StartStream ==
    /\ workerPc = "idle" /\ ~enabled
    /\ Change
    /\ captured' = TRUE
    /\ workerPc' = IF captured THEN "stop" ELSE "primary"
    /\ UNCHANGED <<enabled, budget, slots, lifecycleLock, wanted, replacement, finalize,
                   leaked, workerRest>>

\* start_primary, which does not ask for the gate.
StartPrimary ==
    /\ workerPc = "primary"
    /\ lifecycleLock = "free"
    /\ IF media[0] # "none"
       THEN workerPc' = "enable" /\ UNCHANGED <<lifecycleLock, replacement>>
       ELSE /\ lifecycleLock' = "worker"
            /\ replacement' = [replacement EXCEPT ![0] = "running"]
            /\ workerPc' = "primaryReady"
    /\ UNCHANGED <<enabled, captured, budget, slots, wanted, finalize, changes, leaked,
                   workerRest>>

PrimaryReady ==
    /\ workerPc = "primaryReady"
    /\ lifecycleLock' = "free"
    /\ replacement' = [replacement EXCEPT ![0] = "none"]
    /\ \/ /\ media' = [media EXCEPT ![0] = replacement[0]]
          /\ lifecycle' = [lifecycle EXCEPT ![0] = "Active"]
          /\ workerPc' = "enable"
       \/ /\ workerPc' = "stop"
          /\ UNCHANGED <<media, lifecycle>>
    /\ UNCHANGED <<enabled, captured, budget, draining, wanted, finalize, changes, leaked,
                   workerRest>>

Enable ==
    /\ workerPc = "enable"
    /\ enabled' = TRUE
    /\ workerPc' = "idle"
    /\ UNCHANGED <<captured, budget, slots, lifecycleLock, wanted, replacement, finalize,
                   changes, leaked, workerRest>>

\* RecoverStream, like the restart of a resized window, tears the graph down as a
\* Stop does; it builds the new one as StartStream does, unless a Stop has overtaken
\* it (StreamControl).
RecoverStream ==
    /\ workerPc = "idle" /\ enabled
    /\ Change
    /\ workerPc' = "stop"
    /\ UNCHANGED <<enabled, captured, budget, slots, lifecycleLock, wanted, replacement,
                   finalize, leaked, workerRest>>

FinalizeStop ==
    /\ workerPc = "idle" /\ finalize
    /\ finalize' = FALSE
    /\ workerPc' = "stop"
    /\ UNCHANGED <<enabled, captured, budget, slots, lifecycleLock, wanted, replacement,
                   changes, leaked, workerRest>>

\* stop_stream_resources, first its request_stream_stop...
RequestStop ==
    /\ workerPc = "stop"
    /\ enabled' = FALSE
    /\ SignalAll
    /\ workerPc' = "detach"
    /\ UNCHANGED <<captured, budget, lifecycle, draining, lifecycleLock, wanted, finalize,
                   changes, leaked, assignment, assignmentsLock, op, client, pc, group,
                   viewers, round, urgentPc, calls, sessions, stops>>

\* ...then detach_all_media, which hands the encoders over to be stopped...
DetachAllMedia ==
    /\ workerPc = "detach"
    /\ lifecycleLock = "free"
    /\ media' = [g \in Groups |-> "none"]
    /\ lifecycle' = [g \in Groups |-> "Stopped"]
    /\ workerPc' = "take"
    /\ UNCHANGED <<enabled, captured, budget, draining, lifecycleLock, wanted, replacement,
                   finalize, changes, leaked, workerRest>>

\* ...and the capture is taken out of its slot.
TakeCapture ==
    /\ workerPc = "take"
    /\ captured' = FALSE
    /\ workerPc' = "idle"
    /\ UNCHANGED <<enabled, budget, slots, lifecycleLock, wanted, replacement, finalize,
                   changes, leaked, workerRest>>

\* reconfigure, or reconfigure_and_restart when the encoders are to be replaced.
Reconfigure ==
    /\ workerPc = "idle"
    /\ lifecycleLock = "free"
    /\ Change
    /\ lifecycleLock' = "worker"
    /\ \E b \in 1 .. Slots : wanted' = b
    /\ workerPc' \in {"commit", "replace"}
    /\ UNCHANGED <<enabled, captured, budget, slots, replacement, finalize, leaked,
                   workerRest>>

\* The visible groups that remain get their new encoders one after another.
Replaceable == {g \in Groups : /\ g < wanted /\ lifecycle[g] = "Active"
                               /\ media[g] # "none" /\ replacement[g] = "none"}

StartReplacement ==
    /\ workerPc = "replace"
    /\ IF Replaceable = {} THEN workerPc' = "commit"
       ELSE workerPc' = IF MayStart THEN "register" ELSE "abandon"
    /\ UNCHANGED <<enabled, captured, budget, slots, lifecycleLock, wanted, replacement,
                   finalize, changes, leaked, workerRest>>

\* The capture is the worker's own; it is still there.
RegisterReplacement ==
    /\ workerPc = "register"
    /\ replacement' = [replacement EXCEPT ![Min(Replaceable)] = "running"]
    /\ workerPc' = "replacing"
    /\ UNCHANGED <<enabled, captured, budget, slots, lifecycleLock, wanted, finalize,
                   changes, leaked, workerRest>>

ReplacementReady ==
    /\ workerPc = "replacing"
    /\ workerPc' \in {"replace", "abandon"}
    /\ UNCHANGED <<enabled, captured, budget, slots, lifecycleLock, wanted, replacement,
                   finalize, changes, leaked, workerRest>>

\* One failed: those already started are stopped, nothing else has changed.
Abandon ==
    /\ workerPc = "abandon"
    /\ replacement' = [g \in Groups |-> "none"]
    /\ lifecycleLock' = "free"
    /\ workerPc' = "idle"
    /\ wanted' = 0
    /\ UNCHANGED <<enabled, captured, budget, slots, finalize, changes, leaked, workerRest>>

\* reconfigure_locked
CommitBudget ==
    /\ workerPc = "commit"
    /\ budget' = wanted
    /\ workerPc' = IF wanted < budget THEN "move" ELSE "swap"
    /\ UNCHANGED <<enabled, captured, slots, lifecycleLock, wanted, replacement, finalize,
                   changes, leaked, workerRest>>

MoveMembers ==
    /\ workerPc = "move"
    /\ assignmentsLock = "free"
    /\ assignment' = [c \in Clients |->
                        IF assignment[c] # None /\ assignment[c] >= budget THEN Primary
                        ELSE assignment[c]]
    /\ workerPc' = "excess"
    /\ UNCHANGED <<enabled, captured, budget, slots, locks, handlers, viewers, round, wanted,
                   replacement, urgentV, counts, leaked>>

\* Mutant: the last of the groups that stay is stopped with the others.
ExcessAndLast(g) == g >= budget - 1

Excess(g) == g >= budget

StopExcess ==
    /\ workerPc = "excess"
    /\ media' = [g \in Groups |-> IF Excess(g) THEN "none" ELSE media[g]]
    /\ lifecycle' = [g \in Groups |-> IF Excess(g) THEN "Stopped" ELSE lifecycle[g]]
    /\ draining' = [g \in Groups |-> draining[g] /\ ~Excess(g)]
    /\ workerPc' = "swap"
    /\ UNCHANGED <<enabled, captured, budget, lifecycleLock, wanted, replacement, finalize,
                   changes, leaked, workerRest>>

\* The new encoders take the slots; the previous ones are stopped.
SwapEncoders ==
    /\ workerPc = "swap"
    /\ media' = [g \in Groups |-> IF replacement[g] # "none" THEN replacement[g]
                                  ELSE media[g]]
    /\ replacement' = [g \in Groups |-> "none"]
    /\ lifecycleLock' = "free"
    /\ workerPc' = "idle"
    /\ wanted' = 0
    /\ UNCHANGED <<enabled, captured, budget, lifecycle, draining, finalize, changes, leaked,
                   workerRest>>

ControlTask ==
    \/ StartStream \/ StartPrimary \/ PrimaryReady \/ Enable
    \/ RecoverStream \/ FinalizeStop \/ RequestStop \/ DetachAllMedia \/ TakeCapture
    \/ Reconfigure \/ StartReplacement \/ RegisterReplacement
    \/ ReplacementReady \/ Abandon
    \/ CommitBudget \/ MoveMembers \/ StopExcess \/ SwapEncoders

(***************************************************************************)
(* urgent_stop_task: close the gate, signal every encoder, queue the        *)
(* cleanup.                                                                *)
(***************************************************************************)
UrgentStop ==
    /\ urgentPc = "idle"
    /\ stops < MaxStops
    /\ stops' = stops + 1
    /\ enabled' = FALSE
    /\ urgentPc' = "signal"
    /\ UNCHANGED <<captured, budget, slots, assignment, locks, handlers, viewers, round,
                   workerV, finalize, calls, sessions, changes, leaked>>

UrgentSignal ==
    /\ urgentPc = "signal"
    /\ SignalAll
    /\ urgentPc' = "idle"
    /\ finalize' = TRUE
    /\ UNCHANGED <<enabled, captured, budget, lifecycle, draining, assignment, locks, op,
                   client, pc, group, viewers, round, workerPc, wanted, counts, leaked>>

(***************************************************************************)
(* The specification. The stream runs with its primary group; the viewers  *)
(* have not connected.                                                     *)
(***************************************************************************)
Init ==
    /\ enabled = TRUE /\ captured = TRUE /\ budget = Slots
    /\ media = [g \in Groups |-> IF g = 0 THEN "running" ELSE "none"]
    /\ lifecycle = [g \in Groups |-> IF g = 0 THEN "Active" ELSE "Stopped"]
    /\ draining = [g \in Groups |-> FALSE]
    /\ assignment = [c \in Clients |-> None]
    /\ lifecycleLock = "free" /\ assignmentsLock = "free"
    /\ op = [h \in Handlers |-> "none"] /\ client = [h \in Handlers |-> None]
    /\ pc = [h \in Handlers |-> "idle"] /\ group = [h \in Handlers |-> 0]
    /\ held = [h \in Handlers |-> "none"]
    /\ sockets = {} /\ leaving = {} /\ notified = {}
    /\ roundPc = "idle" /\ active = {} /\ seen = [c \in Clients |-> None] /\ at = 0
    /\ workerPc = "idle" /\ wanted = 0 /\ replacement = [g \in Groups |-> "none"]
    /\ urgentPc = "idle" /\ finalize = FALSE
    /\ calls = 0 /\ sessions = 0 /\ changes = 0 /\ stops = 0
    /\ leaked = 0

Handle(h) == \/ \E c \in Clients : BeginSelect(h, c) \/ BeginOffer(h, c) \/ BeginObserve(h, c)
             \/ HandlerStep(h)

Next ==
    \/ \E h \in Handlers : Handle(h)
    \/ \E c \in Clients : Session(c)
    \/ Broadcast
    \/ Maintain
    \/ ControlTask
    \/ UrgentStop \/ UrgentSignal

\* Every task is scheduled and no holder of a mutex starves the others, as long
\* as it releases it. The grace of a group that stays empty runs out. Viewers,
\* the host and failures need not do anything.
Fairness ==
    /\ \A h \in Handlers : WF_vars(HandlerStep(h))
    /\ \A c \in Clients : WF_vars(RemoveClient(c) \/ BroadcastTo(c))
    /\ SF_vars(BeginRound) /\ WF_vars(Maintain)
    /\ \A g \in Groups : SF_vars(FinishDrain(g))
    /\ WF_vars(ControlTask /\ UNCHANGED changes)
    /\ WF_vars(UrgentSignal)

Spec == Init /\ [][Next]_vars
FairSpec == Spec /\ Fairness

(***************************************************************************)
(* Properties.                                                             *)
(***************************************************************************)
\* Every variable has the type of the field or local it stands for.
TypeOK ==
    /\ enabled \in BOOLEAN /\ captured \in BOOLEAN /\ budget \in 1 .. Slots
    /\ media \in [Groups -> {"none", "running", "stopped"}]
    /\ lifecycle \in [Groups -> {"Stopped", "Active", "Draining"}]
    /\ draining \in [Groups -> BOOLEAN]
    /\ assignment \in [Clients -> Groups \cup {None}]
    /\ lifecycleLock \in {"free", "maintainer", "worker"} \cup Handlers
    /\ assignmentsLock \in {"free"} \cup Handlers
    /\ op \in [Handlers -> {"none", "bootstrap", "codecFailure", "offer", "observe"}]
    /\ client \in [Handlers -> Clients \cup {None}]
    /\ pc \in [Handlers -> {"idle", "look", "lock", "start", "register", "ready", "failed",
                         "assign"}]
    /\ group \in [Handlers -> Groups]
    /\ held \in [Handlers -> {"none", "running", "stopped"}]
    /\ sockets \in SUBSET Clients /\ leaving \in SUBSET Clients
    /\ notified \in SUBSET Clients
    /\ roundPc \in {"idle", "tick", "count", "merge", "recount", "drain", "unlock"}
    /\ active \in SUBSET Groups /\ seen \in [Clients -> Groups \cup {None}]
    /\ at \in Groups
    /\ workerPc \in {"idle", "primary", "primaryReady", "enable", "stop", "detach", "take",
                     "replace", "register", "replacing", "abandon", "commit", "move", "excess", "swap"}
    /\ wanted \in 0 .. Slots
    /\ replacement \in [Groups -> {"none", "running", "stopped"}]
    /\ urgentPc \in {"idle", "signal"} /\ finalize \in BOOLEAN
    /\ {calls, sessions, changes, stops, leaked} \subseteq Nat

\* No running encoder ever loses its slot without being stopped, however many
\* handlers activate the same group, and whatever the worker does meanwhile.
NoLeakedEncoder == leaked = 0

\* A stopped stream has no encoder: one that a handler was starting when the gate
\* closed is removed with the others, and none is installed afterwards.
StoppedStreamIsEmpty ==
    ~captured => \A g \in Groups : media[g] = "none" /\ lifecycle[g] = "Stopped"

\* The fallback of every assignment exists: an enabled stream that is not being
\* stopped has its primary group, whatever is merged, drained or reconfigured.
PrimaryServes ==
    enabled => lifecycle[0] = "Active" /\ media[0] # "none"

\* A round of maintenance leaves none of the viewers it has seen in a draining
\* group, also when it merges two groups into each other.
NobodyLeftDraining ==
    [][roundPc = "unlock" /\ roundPc' = "idle" =>
        \A g \in Groups \ {0} : g < budget /\ Members(seen, g) # {}
                                    => lifecycle[g] # "Draining"]_vars

\* observe waits for the lifecycle lock with the assignments locked, while the
\* holder of the lifecycle lock waits for the assignments.
CircularWait ==
    /\ assignmentsLock # "free" /\ pc[assignmentsLock] = "lock"
    /\ \/ lifecycleLock = "maintainer" /\ roundPc \in {"count", "merge", "recount"}
       \/ lifecycleLock = "worker" /\ workerPc = "move"

\* The groups are always available again: no handler, no round of maintenance and
\* no reconfiguration waits for a lock that waits for it.
NoCircularWait == ~CircularWait

\* An encoder without viewers is stopped in the end (unless the tasks have
\* blocked each other).
UnusedEncoderStops ==
    \A g \in Groups \ {0} :
        media[g] # "none" /\ Members(assignment, g) = {}
            ~> media[g] = "none" \/ Members(assignment, g) # {} \/ g >= budget \/ CircularWait
==============================================================================
