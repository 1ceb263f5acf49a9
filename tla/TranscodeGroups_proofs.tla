------------------------- MODULE TranscodeGroups_proofs -------------------------
(***************************************************************************)
(* Proofs about TranscodeGroups, for any viewers, handlers and slots, and   *)
(* any bounds on the calls, sessions, changes and Stops.                    *)
(***************************************************************************)
EXTENDS TranscodeGroups, WellFoundedInduction, TLAPS

(***************************************************************************)
(* The invariant, by parts.                                                *)
(***************************************************************************)
\* Where a handler, the worker and the maintainer hold the lifecycle lock.
Starting  == {"start", "register", "ready"}
Replacing == {"replace", "register", "replacing", "abandon", "commit", "move", "excess", "swap"}
Rounds    == {"count", "merge", "recount", "drain", "unlock"}

\* An observe that starts an encoder keeps the assignment it found: it holds the
\* assignments. A reconfiguration has a budget.
Typed ==
    /\ TypeOK
    /\ \A h \in Handlers : pc[h] # "idle" =>
            /\ client[h] \in Clients
            /\ op[h] = "observe" => assignmentsLock = h /\ assignment[client[h]] \in Groups
    /\ workerPc \in Replacing => wanted \in 1 .. Slots

LockInv ==
    /\ \A h \in Handlers : pc[h] \in Starting => lifecycleLock = h
    /\ workerPc \in Replacing \cup {"primaryReady"} => lifecycleLock = "worker"
    /\ roundPc \in Rounds => lifecycleLock = "maintainer"

\* The slot that the second look found vacant stays vacant.
VacantInv == \A h \in Handlers : pc[h] \in Starting => media[group[h]] = "none"

\* From detach_all_media to the next Start.
Quiet == ~captured \/ workerPc = "take"

\* The worker opens the gate when it has a capture, and closes it before it empties
\* the slots.
GateInv ==
    /\ workerPc \in {"detach", "take"} => ~enabled
    /\ workerPc \in {"primary", "primaryReady", "enable"} => captured
    /\ enabled => captured

\* Nobody who goes on after the slots are empty has an encoder, or remembers a group.
QuietInv ==
    /\ roundPc \notin Rounds => active = {}
    /\ workerPc \notin Replacing \cup {"primaryReady"} => \A g \in Groups : replacement[g] = "none"
    /\ workerPc = "primaryReady" => \A g \in Groups \ {0} : replacement[g] = "none"
    /\ Quiet => /\ \A g \in Groups : /\ media[g] = "none" /\ lifecycle[g] = "Stopped"
                                     /\ replacement[g] = "none"
                /\ active = {} /\ workerPc \notin {"register", "replacing"}
                /\ \A h \in Handlers : pc[h] \notin {"register", "ready"}

PrimaryInv ==
    /\ media[0] # "none" => lifecycle[0] = "Active"
    /\ enabled \/ workerPc = "enable" => media[0] # "none"
    /\ workerPc = "primaryReady" => replacement[0] # "none"
    /\ workerPc = "register" => Replaceable # {}
    /\ workerPc \in Replacing /\ replacement[0] # "none" => lifecycle[0] = "Active"

\* A group with members that the drain phase has visited does not drain.
Attended(g) == g < budget /\ Members(seen, g) # {} => lifecycle[g] # "Draining"

DrainInv ==
    /\ roundPc = "drain" => \A g \in Groups \ {0} : g < at => Attended(g)
    /\ roundPc = "unlock" => \A g \in Groups \ {0} : Attended(g)

(***************************************************************************)
(* Types.                                                                  *)
(***************************************************************************)
\* What Min chooses.
LEMMA MinIsMember ==
    ASSUME NEW S, S \subseteq Nat, S # {}
    PROVE  Min(S) \in S /\ \A x \in S : Min(S) <= x
  <1> DEFINE R == {ss \in Nat \X Nat : ss[1] < ss[2]}
  <1>1. IsWellFoundedOn(R, Nat)
    <2>1. R = OpToRel(<, Nat)
      BY DEF OpToRel
    <2> QED BY <2>1, NatLessThanWellFounded
  <1> HIDE DEF R
  <1>2. PICK m \in S : \A x \in S : ~(<<x, m>> \in R)
    BY <1>1, WFMin
  <1>3. ASSUME NEW x \in S PROVE m <= x
    <2>1. <<x, m>> \notin R /\ x \in Nat /\ m \in Nat
      BY <1>2
    <2> QED BY <2>1 DEF R
  <1>4. \E y \in S : \A x \in S : y <= x
    BY <1>3
  <1> QED BY <1>4 DEF Min

LEMMA GroupsAreNumbers == Groups \subseteq Nat /\ 0 \in Groups /\ Slots - 1 \in Groups
  BY BoundsAssumption DEF Groups

LEMMA PrimaryIsGroup == Primary \in Groups
  <1>1. ActiveGroups \subseteq Groups
    BY DEF ActiveGroups
  <1> QED BY <1>1, MinIsMember, GroupsAreNumbers DEF Primary

LEMMA EnsuredIsGroup == \A c \in Clients : Ensured(c) \in Groups
  BY PrimaryIsGroup DEF Ensured, ActiveGroups

LEMMA TypedStart == Init => Typed
  <1> SUFFICES ASSUME Init PROVE Typed
    OBVIOUS
  <1> USE DEF Init
  <1>1. budget \in 1 .. Slots /\ wanted \in 0 .. Slots /\ at \in Groups
    BY BoundsAssumption, GroupsAreNumbers
  <1>2. {calls, sessions, changes, stops, leaked} \subseteq Nat
    OBVIOUS
  <1>3. group \in [Handlers -> Groups] /\ seen \in [Clients -> Groups \cup {None}]
        /\ assignment \in [Clients -> Groups \cup {None}] /\ client \in [Handlers -> Clients \cup {None}]
    BY GroupsAreNumbers
  <1>4. TypeOK
    BY <1>1, <1>2, <1>3 DEF TypeOK
  <1> QED BY <1>4 DEF Typed, Replacing

\* What begins a handler.
LEMMA TypedBegin ==
    ASSUME Typed, NEW h \in Handlers, NEW c \in Clients,
           BeginSelect(h, c) \/ BeginOffer(h, c) \/ BeginObserve(h, c)
    PROVE  Typed'
  <1> USE DEF Typed, TypeOK, Begin, Enter, beginRest, slots, viewers, round, workerV, urgentV
  <1>1. CASE BeginSelect(h, c)
    BY <1>1 DEF BeginSelect, Selectable
  <1>2. CASE BeginOffer(h, c)
    BY <1>2, EnsuredIsGroup DEF BeginOffer
  <1>3. CASE BeginObserve(h, c)
    <2> DEFINE current == IF assignment[c] = None THEN Primary ELSE assignment[c]
               lower   == {g \in Vacant : g > current}
    <2>1. current \in Groups /\ (lower # {} => Min(lower) \in Groups)
      <3>1. current \in Groups
        BY PrimaryIsGroup
      <3>2. lower \subseteq Groups /\ lower \subseteq Nat
        BY GroupsAreNumbers DEF Vacant
      <3>3. lower # {} => Min(lower) \in lower
        BY <3>2, MinIsMember
      <3> HIDE DEF current, lower
      <3> QED BY <3>1, <3>2, <3>3
    <2>2. Movable(current) \cup {current} \subseteq Groups
      BY <2>1 DEF Movable, ActiveGroups
    <2>3. CASE /\ lower # {}
               /\ Enter(h, c, "observe")
               /\ group' = [group EXCEPT ![h] = Min(lower)]
               /\ assignment' = [assignment EXCEPT ![c] = current]
               /\ assignmentsLock' = h
      <3>1. \A k \in Handlers : pc[k] # "idle" => op[k] # "observe"
        BY <1>3, BoundsAssumption DEF BeginObserve
      <3>2. TypeOK'
        BY <1>3, <2>1, <2>3 DEF BeginObserve
      <3>3. \A k \in Handlers : pc'[k] # "idle" =>
                /\ client'[k] \in Clients
                /\ op'[k] = "observe" => assignmentsLock' = k /\ assignment'[client'[k]] \in Groups
        BY <1>3, <2>1, <2>3, <3>1 DEF BeginObserve
      <3> QED BY <1>3, <2>3, <3>2, <3>3 DEF BeginObserve
    <2>4. CASE /\ \E g \in Movable(current) \cup {current} : assignment' = [assignment EXCEPT ![c] = g]
               /\ UNCHANGED <<op, client, group, pc, assignmentsLock>>
      BY <1>3, <2>2, <2>4 DEF BeginObserve
    <2> QED BY <1>3, <2>3, <2>4 DEF BeginObserve
  <1> QED BY <1>1, <1>2, <1>3
\* The steps of a handler.
LEMMA TypedHandler ==
    ASSUME Typed, NEW h \in Handlers, HandlerStep(h)
    PROVE  Typed'
  <1> USE DEF Typed, TypeOK, stepRest, locals, slots, locks, viewers, round, workerV, urgentV, counts
  <1>1. CASE Look(h) \/ Lock(h) \/ CheckGate(h)
    BY <1>1 DEF Look, Lock, CheckGate
  <1>2. CASE StartEncoder(h) \/ NotReady(h)
    BY <1>2 DEF StartEncoder, NotReady
  <1>3. CASE Install(h)
    BY <1>3 DEF Install
  <1>4. CASE Failed(h)
    <2>1. op[h] = "observe" => assignment[client[h]] \in Groups
      BY <1>4 DEF Failed
    <2>2. \A current \in Groups : Movable(current) \cup {current} \subseteq Groups
      BY DEF Movable, ActiveGroups
    <2>3. group' \in [Handlers -> Groups]
      <3>1. \E g : group' = [group EXCEPT ![h] = g] /\ g \in Groups
        <4>1. CASE op[h] = "bootstrap"
          BY <1>4, <4>1, PrimaryIsGroup DEF Failed
        <4>2. CASE op[h] = "observe"
          BY <1>4, <4>2, <2>1, <2>2 DEF Failed
        <4>3. CASE op[h] \in {"codecFailure", "offer"}
          BY <1>4, <4>3, GroupsAreNumbers DEF Failed, Return
        <4> QED BY <1>4, <4>1, <4>2, <4>3 DEF Failed
      <3>2. group \in [Handlers -> Groups]
        OBVIOUS
      <3> QED BY <3>1, <3>2
    <2>4. /\ \/ UNCHANGED <<op, client>> /\ pc' = [pc EXCEPT ![h] = "assign"]
             \/ Return(h)
          /\ pc[h] = "failed" /\ UNCHANGED <<slots, assignment, locks, held, leaked, stepRest>>
      BY <1>4 DEF Failed
    <2> QED BY <2>3, <2>4 DEF Return
  <1>5. CASE Assign(h)
    <2>1. TypeOK'
      BY <1>5, GroupsAreNumbers DEF Assign, Return
    <2>2. \A k \in Handlers : pc'[k] # "idle" => k # h /\ pc[k] # "idle" /\ client'[k] = client[k] /\ op'[k] = op[k]
      BY <1>5 DEF Assign, Return
    <2>3. \A c \in Clients : assignment[c] \in Groups => assignment'[c] \in Groups
      BY <1>5 DEF Assign
    <2>4. \A k \in Handlers : k # h /\ assignmentsLock = k => assignmentsLock' = k
      BY <1>5 DEF Assign
    <2>5. workerPc \in Replacing => UNCHANGED <<workerPc, wanted>>
      BY <1>5 DEF Assign
    <2> QED BY <1>5, <2>1, <2>2, <2>3, <2>4, <2>5 DEF Assign
  <1> QED BY <1>1, <1>2, <1>3, <1>4, <1>5 DEF HandlerStep

\* A holder of the assignments is a handler: nobody observes while they are free.
LEMMA FreeAssignments ==
    ASSUME Typed, assignmentsLock = "free"
    PROVE  \A h \in Handlers : pc[h] # "idle" => op[h] # "observe"
  BY BoundsAssumption DEF Typed

LEMMA TypedSession ==
    ASSUME Typed, Broadcast \/ \E c \in Clients : Session(c)
    PROVE  Typed'
  <1> USE DEF Typed, TypeOK, sessionRest, slots, locks, handlers, round, workerV, urgentV
  <1>1. CASE Broadcast
    BY <1>1 DEF Broadcast
  <1>2. ASSUME NEW c \in Clients, Connect(c) \/ BroadcastTo(c) PROVE Typed'
    BY <1>2, EnsuredIsGroup, FreeAssignments DEF Connect, BroadcastTo
  <1>3. ASSUME NEW c \in Clients, Disconnect(c) PROVE Typed'
    BY <1>3 DEF Disconnect
  <1>4. ASSUME NEW c \in Clients, RemoveClient(c) PROVE Typed'
    BY <1>4, FreeAssignments DEF RemoveClient
  <1> QED BY <1>1, <1>2, <1>3, <1>4 DEF Session

LEMMA TypedRound ==
    ASSUME Typed, Maintain
    PROVE  Typed'
  <1> USE DEF Typed, TypeOK, roundRest, drainRest, slots, locks, handlers, viewers, workerV, urgentV, counts
  <1>1. \A next : Advance(next) => at' \in Groups /\ (roundPc' = next \/ roundPc' = roundPc)
    BY GroupsAreNumbers, BoundsAssumption, SMTT(20) DEF Advance, Groups
  <1>2. CASE Tick \/ BeginRound \/ EndRound
    BY <1>2 DEF Tick, BeginRound, EndRound, ActiveGroups
  <1>3. CASE CountMembers
    BY <1>3, GroupsAreNumbers DEF CountMembers
  <1>4. CASE Merge
    BY <1>1, <1>4, FreeAssignments DEF Merge
  <1>5. CASE KeepGroup \/ SkipGroup
    BY <1>1, <1>5 DEF KeepGroup, SkipGroup
  <1>6. ASSUME NEW g \in Groups, Drain(g) PROVE Typed'
    <2>1. UNCHANGED <<assignment, locks, active, seen, roundRest>> /\ Advance("unlock") /\ roundPc = "drain"
      BY <1>6 DEF Drain, Rejoin, StartDrain, FinishDrain, Visiting
    <2>2. /\ media' \in [Groups -> {"none", "running", "stopped"}]
          /\ lifecycle' \in [Groups -> {"Stopped", "Active", "Draining"}]
          /\ draining' \in [Groups -> BOOLEAN]
      <3>1. CASE Rejoin(g)
        BY <3>1 DEF Rejoin
      <3>2. CASE StartDrain(g)
        BY <3>2 DEF StartDrain
      <3>3. CASE FinishDrain(g)
        BY <3>3 DEF FinishDrain
      <3> QED BY <1>6, <3>1, <3>2, <3>3 DEF Drain
    <2> QED BY <1>1, <2>1, <2>2
  <1> QED BY <1>2, <1>3, <1>4, <1>5, <1>6 DEF Maintain
LEMMA SignalKeepsTypes ==
    ASSUME TypeOK, SignalAll
    PROVE  /\ media' \in [Groups -> {"none", "running", "stopped"}]
           /\ replacement' \in [Groups -> {"none", "running", "stopped"}]
           /\ held' \in [Handlers -> {"none", "running", "stopped"}]
  BY DEF TypeOK, SignalAll, Signalled

LEMMA TypedUrgent ==
    ASSUME Typed, UrgentStop \/ UrgentSignal
    PROVE  Typed'
  <1> USE DEF Typed, TypeOK, slots, locks, handlers, viewers, round, workerV, counts
  <1>1. CASE UrgentStop
    <2>1. stops' \in Nat
      BY <1>1 DEF UrgentStop
    <2>2. enabled' \in BOOLEAN
      BY <1>1 DEF UrgentStop
    <2> QED BY <1>1, <2>1, <2>2 DEF UrgentStop
  <1>2. CASE UrgentSignal
    BY <1>2, SignalKeepsTypes DEF UrgentSignal
  <1> QED BY <1>1, <1>2

LEMMA TypedWorker ==
    ASSUME Typed, ControlTask
    PROVE  Typed'
  <1> USE DEF Typed, TypeOK, Replacing, workerRest, slots, locks, handlers, viewers, round, urgentV, counts
  <1>1. CASE StartStream \/ Enable \/ RecoverStream \/ FinalizeStop \/ TakeCapture
    <2>1. changes' \in Nat
      BY <1>1 DEF StartStream, Enable, RecoverStream, FinalizeStop, TakeCapture, Change
    <2>2. enabled' \in BOOLEAN /\ captured' \in BOOLEAN /\ finalize' \in BOOLEAN
          /\ workerPc' \in {"idle", "primary", "stop"}
      BY <1>1 DEF StartStream, Enable, RecoverStream, FinalizeStop, TakeCapture
    <2>3. UNCHANGED <<budget, slots, lifecycleLock, wanted, replacement, leaked, workerRest>>
      BY <1>1 DEF StartStream, Enable, RecoverStream, FinalizeStop, TakeCapture
    <2> QED BY <2>1, <2>2, <2>3
  <1>2. CASE StartPrimary \/ PrimaryReady
    BY <1>2 DEF StartPrimary, PrimaryReady
  <1>3. CASE RequestStop
    <2>1. enabled' \in BOOLEAN /\ SignalAll /\ workerPc' = "detach"
          /\ UNCHANGED <<captured, budget, lifecycle, draining, lifecycleLock, wanted, finalize,
                         changes, leaked, assignment, assignmentsLock, op, client, pc, group,
                         viewers, round, urgentPc, calls, sessions, stops>>
      BY <1>3 DEF RequestStop
    <2> QED BY <2>1, SignalKeepsTypes
  <1>4. CASE DetachAllMedia
    BY <1>4 DEF DetachAllMedia
  <1>5. CASE Reconfigure
    BY <1>5 DEF Reconfigure, Change
  <1>6. CASE StartReplacement \/ ReplacementReady \/ CommitBudget
    BY <1>6 DEF StartReplacement, ReplacementReady, CommitBudget
  <1>7. CASE RegisterReplacement
    <2>1. replacement' \in [Groups -> {"none", "running", "stopped"}]
      BY <1>7 DEF RegisterReplacement
    <2>2. workerPc' = "replacing" /\ workerPc = "register"
          /\ UNCHANGED <<enabled, captured, budget, slots, lifecycleLock, wanted, finalize,
                         changes, leaked, workerRest>>
      BY <1>7 DEF RegisterReplacement
    <2> QED BY <2>1, <2>2
  <1>8. CASE Abandon \/ SwapEncoders
    BY <1>8, BoundsAssumption DEF Abandon, SwapEncoders
  <1>9. CASE MoveMembers
    BY <1>9, PrimaryIsGroup, FreeAssignments DEF MoveMembers
  <1>10. CASE StopExcess
    BY <1>10 DEF StopExcess, Excess
  <1> QED BY <1>1, <1>2, <1>3, <1>4, <1>5, <1>6, <1>7, <1>8, <1>9, <1>10 DEF ControlTask

LEMMA TypedStep == Typed /\ [Next]_vars => Typed'
  <1>1. Typed /\ UNCHANGED vars => Typed'
    BY DEF vars, Typed, TypeOK, slots, locks, handlers, viewers, round, workerV, urgentV, counts
  <1> QED BY <1>1, TypedBegin, TypedHandler, TypedSession, TypedRound, TypedUrgent, TypedWorker DEF Next, Handle

\* Every variable keeps its type. What makes this more than a check of each step:
\* observe returns to the assignment it found, which nobody removes meanwhile, and a
\* reconfiguration never leaves the groups without a budget.
THEOREM TypeCorrect == Spec => []TypeOK
  <1>1. Typed => TypeOK
    BY DEF Typed
  <1> QED BY TypedStart, TypedStep, <1>1, PTL DEF Spec

(***************************************************************************)
(* The lifecycle lock, and the slot that its holder found vacant.          *)
(***************************************************************************)
LEMMA LockStart == Init => LockInv /\ VacantInv
  BY DEF Init, LockInv, VacantInv, Starting, Replacing, Rounds

\* A step that leaves the lock and its holders alone.
LEMMA LockFrame ==
    ASSUME LockInv, UNCHANGED <<lifecycleLock, pc, workerPc, roundPc>>
    PROVE  LockInv'
  BY DEF LockInv

LEMMA LockHandler ==
    ASSUME Typed, LockInv, NEW h \in Handlers, Handle(h)
    PROVE  LockInv'
  <1> USE DEF LockInv, stepRest, beginRest, locks, round, workerV
  <1>1. UNCHANGED <<workerPc, roundPc>>
    BY DEF Handle, BeginSelect, BeginOffer, BeginObserve, HandlerStep, Look, Lock, CheckGate, StartEncoder,
           Install, NotReady, Failed, Assign
  <1>2. CASE \E c \in Clients : BeginSelect(h, c) \/ BeginOffer(h, c) \/ BeginObserve(h, c)
    <2>1. UNCHANGED lifecycleLock /\ (UNCHANGED pc \/ pc' = [pc EXCEPT ![h] = "look"])
      BY <1>2 DEF BeginSelect, BeginOffer, BeginObserve, Enter
    <2> QED BY <1>1, <2>1 DEF Typed, TypeOK, Starting
  <1>3. CASE Look(h) \/ Lock(h) \/ CheckGate(h)
    BY <1>1, <1>3, BoundsAssumption DEF Look, Lock, CheckGate, Typed, TypeOK, Starting, Replacing, Rounds
  <1>4. CASE StartEncoder(h) \/ Install(h) \/ NotReady(h)
    BY <1>1, <1>4, BoundsAssumption DEF StartEncoder, Install, NotReady, Typed, TypeOK, Starting
  <1>5. CASE Failed(h) \/ Assign(h)
    <2>1. UNCHANGED lifecycleLock /\ \E place \in {"idle", "assign"} : pc' = [pc EXCEPT ![h] = place]
      BY <1>5 DEF Failed, Assign, Return
    <2> QED BY <1>1, <2>1 DEF Typed, TypeOK, Starting
  <1> QED BY <1>2, <1>3, <1>4, <1>5 DEF Handle, HandlerStep

LEMMA LockRound ==
    ASSUME Typed, LockInv, Maintain
    PROVE  LockInv'
  <1> USE DEF LockInv, roundRest, drainRest, locks, handlers, workerV
  <1>1. UNCHANGED <<pc, workerPc>>
    BY DEF Maintain, Tick, BeginRound, CountMembers, Merge, KeepGroup, SkipGroup, EndRound,
           Drain, Rejoin, StartDrain, FinishDrain
  <1>2. CASE Tick \/ BeginRound \/ EndRound
    BY <1>1, <1>2, BoundsAssumption DEF Tick, BeginRound, EndRound, Rounds
  <1>3. CASE CountMembers \/ Merge \/ KeepGroup \/ SkipGroup \/ \E g \in Groups : Drain(g)
    <2>1. UNCHANGED lifecycleLock /\ roundPc \in Rounds
      BY <1>3 DEF CountMembers, Merge, KeepGroup, SkipGroup, Drain, Rejoin, StartDrain, FinishDrain,
                  Visiting, Rounds
    <2> QED BY <1>1, <2>1
  <1> QED BY <1>2, <1>3 DEF Maintain

LEMMA LockWorker ==
    ASSUME Typed, LockInv, ControlTask
    PROVE  LockInv'
  <1> USE DEF LockInv, workerRest, locks, handlers, round
  <1>1. UNCHANGED <<pc, roundPc>>
    BY DEF ControlTask, StartStream, StartPrimary, PrimaryReady, Enable, RecoverStream, FinalizeStop,
           RequestStop, DetachAllMedia, TakeCapture, Reconfigure, StartReplacement, RegisterReplacement,
           ReplacementReady, Abandon, CommitBudget, MoveMembers, StopExcess, Excess, SwapEncoders
  <1>2. CASE StartStream \/ Enable \/ RecoverStream \/ FinalizeStop \/ RequestStop \/ DetachAllMedia \/ TakeCapture
    <2>1. UNCHANGED lifecycleLock /\ workerPc' \in {"primary", "stop", "idle", "detach", "take"}
      BY <1>2 DEF StartStream, Enable, RecoverStream, FinalizeStop, RequestStop, DetachAllMedia, TakeCapture
    <2> QED BY <1>1, <2>1 DEF Replacing
  <1>3. CASE StartPrimary \/ Reconfigure
    <2>1. /\ lifecycleLock = "free"
          /\ lifecycleLock' = "worker" \/ (UNCHANGED lifecycleLock /\ workerPc' = "enable")
      BY <1>3 DEF StartPrimary, Reconfigure
    <2> QED BY <1>1, <2>1, BoundsAssumption DEF Replacing
  <1>4. CASE PrimaryReady \/ Abandon \/ SwapEncoders
    <2>1. workerPc \in Replacing \cup {"primaryReady"} /\ workerPc' \in {"enable", "stop", "idle"}
      BY <1>4 DEF PrimaryReady, Abandon, SwapEncoders, Replacing
    <2> QED BY <1>1, <2>1, BoundsAssumption DEF Replacing
  <1>5. CASE \/ StartReplacement \/ RegisterReplacement \/ ReplacementReady
             \/ CommitBudget \/ MoveMembers \/ StopExcess
    <2>1. UNCHANGED lifecycleLock /\ workerPc \in Replacing
      BY <1>5 DEF StartReplacement, RegisterReplacement, ReplacementReady, CommitBudget, MoveMembers,
                  StopExcess, Excess, Replacing
    <2> QED BY <1>1, <2>1
  <1> QED BY <1>2, <1>3, <1>4, <1>5 DEF ControlTask

\* Sockets, broadcasts and the urgent task do not touch it.
LEMMA OthersLeaveLocks ==
    ASSUME Broadcast \/ (\E c \in Clients : Session(c)) \/ UrgentStop \/ UrgentSignal \/ UNCHANGED vars
    PROVE  UNCHANGED <<lifecycleLock, pc, op, group, workerPc, roundPc, wanted, active, seen, at, budget,
                       captured, lifecycle, draining, leaked>>
  BY DEF Broadcast, Session, Connect, Disconnect, RemoveClient, BroadcastTo, UrgentStop, UrgentSignal, vars,
         sessionRest, slots, locks, handlers, round, workerV

LEMMA LockStep == Typed /\ LockInv /\ [Next]_vars => LockInv'
  BY LockFrame, LockHandler, LockRound, LockWorker, OthersLeaveLocks DEF Next
\* A step fills a slot only with the lifecycle lock.
LEMMA FilledUnderLock ==
    ASSUME Typed, LockInv, Maintain \/ ControlTask, NEW h \in Handlers, pc[h] \in Starting
    PROVE  \A g \in Groups : media[g] = "none" => media'[g] = "none"
  <1>1. workerPc \notin Replacing \cup {"primaryReady"}
    BY BoundsAssumption DEF LockInv
  <1>2. ~PrimaryReady /\ ~SwapEncoders
    BY <1>1 DEF PrimaryReady, SwapEncoders, Replacing
  <1>3. CASE Maintain
    <2>1. UNCHANGED media \/ \E g \in Groups : media' = [media EXCEPT ![g] = "none"]
      BY <1>3 DEF Maintain, Tick, BeginRound, CountMembers, Merge, KeepGroup, SkipGroup, EndRound,
                  Drain, Rejoin, StartDrain, FinishDrain, drainRest, slots
    <2> QED BY <2>1 DEF Typed, TypeOK
  <1>4. CASE ControlTask
    <2>1. CASE RequestStop \/ DetachAllMedia \/ StopExcess
      BY <2>1 DEF RequestStop, DetachAllMedia, StopExcess, Excess, SignalAll, Signalled
    <2>2. CASE ~(RequestStop \/ DetachAllMedia \/ StopExcess)
      <3>1. UNCHANGED media
        BY <1>2, <1>4, <2>2 DEF ControlTask, StartStream, StartPrimary, Enable, RecoverStream, FinalizeStop,
           TakeCapture, Reconfigure, StartReplacement, RegisterReplacement, ReplacementReady, Abandon,
           CommitBudget, MoveMembers, slots
      <3> QED BY <3>1
    <2> QED BY <2>1, <2>2
  <1> QED BY <1>3, <1>4

LEMMA VacantStep ==
    ASSUME Typed, LockInv, VacantInv, [Next]_vars
    PROVE  VacantInv'
  <1>1. ASSUME NEW h \in Handlers, Handle(h) PROVE VacantInv'
    <2> SUFFICES ASSUME NEW k \in Handlers, pc'[k] \in Starting
                 PROVE  media'[group'[k]] = "none"
      BY DEF VacantInv
    <2> USE DEF Typed, TypeOK, Starting
    <2>1. CASE \E c \in Clients : BeginSelect(h, c) \/ BeginOffer(h, c) \/ BeginObserve(h, c)
      <3>1. /\ UNCHANGED media /\ pc[h] = "idle"
            /\ UNCHANGED <<pc, group>> \/ pc' = [pc EXCEPT ![h] = "look"]
        BY <2>1 DEF BeginSelect, BeginOffer, BeginObserve, Begin, Enter, beginRest, slots
      <3>2. k # h => group'[k] = group[k]
        BY <2>1 DEF BeginSelect, BeginOffer, BeginObserve
      <3> QED BY <3>1, <3>2 DEF VacantInv
    <2>2. CASE Look(h) \/ Lock(h) \/ CheckGate(h)
      BY <2>2 DEF Look, Lock, CheckGate, VacantInv, slots, locals
    <2>3. CASE StartEncoder(h) \/ NotReady(h)
      BY <2>3 DEF StartEncoder, NotReady, VacantInv, slots, locals
    <2>4. CASE Install(h)
      <3>1. k # h /\ pc[k] \in Starting /\ pc[h] \in Starting
        BY <2>4 DEF Install
      <3> QED BY <3>1, BoundsAssumption DEF LockInv
    <2>5. CASE Failed(h) \/ Assign(h)
      <3>1. UNCHANGED media /\ \E place \in {"idle", "assign"} : pc' = [pc EXCEPT ![h] = place]
        BY <2>5 DEF Failed, Assign, Return, slots
      <3>2. k # h => group'[k] = group[k]
        BY <2>5 DEF Failed, Assign, Return
      <3> QED BY <3>1, <3>2 DEF VacantInv
    <2> QED BY <1>1, <2>1, <2>2, <2>3, <2>4, <2>5 DEF Handle, HandlerStep
  <1>2. CASE Maintain \/ ControlTask
    <2>1. UNCHANGED <<pc, group>>
      BY <1>2 DEF Maintain, Tick, BeginRound, CountMembers, Merge, KeepGroup, SkipGroup, EndRound,
           Drain, Rejoin, StartDrain, FinishDrain, drainRest, roundRest, workerRest, handlers,
           ControlTask, StartStream, StartPrimary, PrimaryReady, Enable, RecoverStream, FinalizeStop,
           RequestStop, DetachAllMedia, TakeCapture, Reconfigure, StartReplacement, RegisterReplacement,
           ReplacementReady, Abandon, CommitBudget, MoveMembers, StopExcess, Excess, SwapEncoders
    <2> QED BY <1>2, <2>1, FilledUnderLock DEF VacantInv, Typed, TypeOK
  <1>3. CASE Broadcast \/ (\E c \in Clients : Session(c)) \/ UrgentStop \/ UrgentSignal \/ UNCHANGED vars
    <2>1. UNCHANGED media \/ SignalAll
      BY <1>3 DEF Broadcast, Session, Connect, Disconnect, RemoveClient, BroadcastTo, UrgentStop, UrgentSignal,
                  vars, sessionRest, slots
    <2>2. \A g \in Groups : media[g] = "none" => media'[g] = "none"
      BY <2>1 DEF SignalAll, Signalled
    <2> QED BY <1>3, <2>2, OthersLeaveLocks DEF VacantInv, Typed, TypeOK
  <1> QED BY <1>1, <1>2, <1>3 DEF Next

\* NoLeakedEncoder (server.rs, activate_group, start_primary and reconfigure_and_restart):
\* the slot is looked at again under lifecycle_lock, and nobody fills a slot
\* without that lock, so an encoder never takes the place of a running one.
THEOREM NoEncoderIsLeaked == Spec => []NoLeakedEncoder
  <1> DEFINE Inv == Typed /\ LockInv /\ VacantInv /\ NoLeakedEncoder
  <1>1. Init => Inv
    BY TypedStart, LockStart DEF Init, NoLeakedEncoder
  <1>2. Inv /\ [Next]_vars => Inv'
    <2> SUFFICES ASSUME Inv, [Next]_vars PROVE NoLeakedEncoder'
      BY TypedStep, LockStep, VacantStep
    <2>1. leaked' = leaked \/ \E h \in Handlers : Install(h)
      BY ZenonT(40) DEF Next, Handle, HandlerStep, BeginSelect, BeginOffer, BeginObserve, beginRest, Look, Lock, CheckGate,
             StartEncoder, NotReady, Failed, Assign, Session, Connect, Disconnect, RemoveClient, Broadcast,
             BroadcastTo, sessionRest, Maintain, Tick, BeginRound, CountMembers, Merge, KeepGroup, SkipGroup,
             EndRound, Drain, Rejoin, StartDrain, FinishDrain, drainRest, roundRest, ControlTask, StartStream,
             StartPrimary, PrimaryReady, Enable, RecoverStream, FinalizeStop, RequestStop, DetachAllMedia,
             TakeCapture, Reconfigure, StartReplacement, RegisterReplacement, ReplacementReady, Abandon,
             CommitBudget, MoveMembers, StopExcess, Excess, SwapEncoders, UrgentStop, UrgentSignal, vars
    <2> QED BY <2>1 DEF Install, VacantInv, Starting, NoLeakedEncoder
  <1>3. Inv => NoLeakedEncoder
    OBVIOUS
  <1> QED BY <1>1, <1>2, <1>3, PTL DEF Spec

(***************************************************************************)
(* The gate, the capture and the empty slots of a stopped stream.          *)
(***************************************************************************)
LEMMA GateStart == Init => GateInv
  BY DEF Init, GateInv

LEMMA GateStep ==
    ASSUME GateInv, [Next]_vars
    PROVE  GateInv'
  <1> USE DEF GateInv
  <1>1. ASSUME NEW h \in Handlers, Handle(h) PROVE UNCHANGED <<captured, workerPc, enabled>>
    BY <1>1 DEF Handle, HandlerStep, BeginSelect, BeginOffer, BeginObserve, beginRest, Look, Lock, CheckGate,
             StartEncoder, NotReady, Install, Failed, Assign, stepRest, workerV
  <1>2. CASE Maintain
    BY <1>2 DEF Maintain, Tick, BeginRound, CountMembers, Merge, KeepGroup, SkipGroup, EndRound,
                Drain, Rejoin, StartDrain, FinishDrain, drainRest, roundRest, workerV
  <1>3. CASE Broadcast \/ (\E c \in Clients : Session(c)) \/ UrgentSignal \/ UrgentStop \/ UNCHANGED vars
    BY <1>3 DEF Session, Connect, Disconnect, RemoveClient, Broadcast, BroadcastTo, sessionRest, workerV,
                UrgentSignal, UrgentStop, vars
  <1>4. CASE ControlTask
    <2>1. CASE StartStream \/ StartPrimary \/ PrimaryReady \/ Enable \/ RecoverStream \/ FinalizeStop
      BY <2>1 DEF StartStream, StartPrimary, PrimaryReady, Enable, RecoverStream, FinalizeStop
    <2>2. CASE RequestStop \/ DetachAllMedia \/ TakeCapture \/ Reconfigure
      BY <2>2 DEF RequestStop, DetachAllMedia, TakeCapture, Reconfigure
    <2>3. CASE \/ StartReplacement \/ RegisterReplacement \/ ReplacementReady \/ Abandon
               \/ CommitBudget \/ MoveMembers \/ StopExcess \/ SwapEncoders
      BY <2>3 DEF StartReplacement, RegisterReplacement, ReplacementReady, Abandon, CommitBudget, MoveMembers,
                  StopExcess, Excess, SwapEncoders
    <2> QED BY <1>4, <2>1, <2>2, <2>3 DEF ControlTask
  <1> QED BY <1>1, <1>2, <1>3, <1>4 DEF Next

LEMMA QuietStart == Init => QuietInv
  BY DEF Init, QuietInv, Quiet

\* The gate is closed while the stream is quiet.
LEMMA QuietIsClosed == GateInv /\ Quiet => ~enabled
  BY DEF GateInv, Quiet

LEMMA QuietHandler ==
    ASSUME Typed, GateInv, QuietInv, NEW h \in Handlers, Handle(h)
    PROVE  QuietInv'
  <1>1. UNCHANGED <<captured, workerPc, replacement, roundPc, active, enabled>>
    BY DEF Handle, HandlerStep, BeginSelect, BeginOffer, BeginObserve, beginRest, Look, Lock, CheckGate,
           StartEncoder, NotReady, Install, Failed, Assign, stepRest, workerV, round
  <1>2. ASSUME Quiet
        PROVE  /\ UNCHANGED <<media, lifecycle>>
               /\ \A k \in Handlers : pc'[k] \notin {"register", "ready"}
    <2>1. pc[h] \notin {"register", "ready"} /\ ~enabled
      BY <1>2, QuietIsClosed DEF QuietInv
    <2>2. UNCHANGED slots /\ (UNCHANGED pc \/ \E place \in {"look", "lock", "start", "failed", "assign", "idle"} :
                                pc' = [pc EXCEPT ![h] = place])
      BY <2>1 DEF Handle, HandlerStep, BeginSelect, BeginOffer, BeginObserve, Enter, beginRest, Look, Lock,
              CheckGate, StartEncoder, NotReady, Install, Failed, Assign, Return, MayStart
    <2> QED BY <1>2, <2>2 DEF QuietInv, slots, Typed, TypeOK
  <1> QED BY <1>1, <1>2 DEF QuietInv, Quiet

LEMMA QuietRound ==
    ASSUME Typed, QuietInv, Maintain
    PROVE  QuietInv'
  <1>1. UNCHANGED <<captured, workerPc, replacement, pc>>
    BY DEF Maintain, Tick, BeginRound, CountMembers, Merge, KeepGroup, SkipGroup, EndRound,
           Drain, Rejoin, StartDrain, FinishDrain, drainRest, roundRest, workerV, handlers
  <1>2. roundPc' \notin Rounds => active' = {}
    <2>1. CASE Tick \/ BeginRound \/ EndRound
      BY <2>1 DEF Tick, BeginRound, EndRound, QuietInv, Rounds
    <2>2. CASE ~(Tick \/ BeginRound \/ EndRound)
      <3>1. roundPc \in Rounds /\ (UNCHANGED roundPc \/ roundPc' \in Rounds)
        BY <2>2 DEF Maintain, CountMembers, Merge, KeepGroup, SkipGroup,
                Drain, Rejoin, StartDrain, FinishDrain, Visiting, Advance, Rounds
      <3> QED BY <3>1
    <2> QED BY <2>1, <2>2
  <1>3. ASSUME Quiet
        PROVE  UNCHANGED <<media, lifecycle>> /\ active' = {}
    <2>1. active = {} /\ \A g \in Groups : media[g] = "none" /\ lifecycle[g] = "Stopped"
      BY <1>3 DEF QuietInv
    <2>2. ~Merge /\ ActiveGroups = {}
      BY <2>1 DEF Merge, Mergeable, ActiveGroups
    <2>3. ASSUME NEW g \in Groups, Drain(g) PROVE UNCHANGED <<media, lifecycle, active>>
      <3>1. Rejoin(g)
        BY <2>1, <2>3 DEF Drain, StartDrain, FinishDrain
      <3>2. lifecycle' = [lifecycle EXCEPT ![g] = lifecycle[g]]
        BY <2>1, <3>1 DEF Rejoin
      <3> QED BY <3>1, <3>2 DEF Rejoin, drainRest, Typed, TypeOK
    <2>4. CASE Tick \/ BeginRound \/ EndRound
      BY <2>1, <2>2, <2>4 DEF Tick, BeginRound, EndRound, slots
    <2>5. CASE CountMembers \/ KeepGroup \/ SkipGroup
      BY <2>1, <2>5 DEF CountMembers, KeepGroup, SkipGroup, slots, drainRest
    <2> QED BY <2>1, <2>2, <2>3, <2>4, <2>5 DEF Maintain
  <1> QED BY <1>1, <1>2, <1>3 DEF QuietInv, Quiet

LEMMA QuietOthers ==
    ASSUME QuietInv, Broadcast \/ (\E c \in Clients : Session(c)) \/ UrgentStop \/ UrgentSignal \/ UNCHANGED vars
    PROVE  QuietInv'
  <1>1. UNCHANGED <<media, replacement>> \/ SignalAll
    BY DEF Broadcast, Session, Connect, Disconnect, RemoveClient, BroadcastTo, UrgentStop, UrgentSignal,
           vars, sessionRest, slots, workerV
  <1>2. \A g \in Groups : /\ media[g] = "none" => media'[g] = "none"
                          /\ replacement[g] = "none" => replacement'[g] = "none"
    BY <1>1 DEF SignalAll, Signalled
  <1> QED BY <1>2, OthersLeaveLocks DEF QuietInv, Quiet

LEMMA QuietWorker ==
    ASSUME Typed, LockInv, GateInv, QuietInv, ControlTask
    PROVE  QuietInv'
  <1>1. UNCHANGED <<pc, roundPc, active>>
    BY DEF ControlTask, StartStream, StartPrimary, PrimaryReady, Enable, RecoverStream, FinalizeStop,
           RequestStop, DetachAllMedia, TakeCapture, Reconfigure, StartReplacement, RegisterReplacement,
           ReplacementReady, Abandon, CommitBudget, MoveMembers, StopExcess, Excess, SwapEncoders, workerRest,
           handlers, round
  <1> USE DEF Typed, TypeOK, Quiet
  <1>2. CASE StartStream \/ Enable \/ RecoverStream
    BY <1>1, <1>2 DEF StartStream, Enable, RecoverStream, QuietInv, GateInv, Replacing
  <1>3. CASE StartPrimary \/ PrimaryReady
    BY <1>1, <1>3 DEF StartPrimary, PrimaryReady, QuietInv, GateInv, Replacing
  <1>4. CASE FinalizeStop \/ TakeCapture \/ Reconfigure
    BY <1>1, <1>4 DEF FinalizeStop, TakeCapture, Reconfigure, QuietInv, Replacing, slots
  <1>5. CASE RequestStop
    BY <1>1, <1>5 DEF RequestStop, SignalAll, Signalled, QuietInv, Replacing
  <1>6. CASE DetachAllMedia
    <2>1. /\ \A g \in Groups : media'[g] = "none" /\ lifecycle'[g] = "Stopped"
          /\ lifecycleLock = "free" /\ UNCHANGED replacement /\ workerPc = "detach" /\ workerPc' = "take"
      BY <1>6 DEF DetachAllMedia
    <2>2. active = {} /\ \A h \in Handlers : pc[h] \notin {"register", "ready"}
      BY <2>1, BoundsAssumption DEF LockInv, QuietInv, Starting
    <2> QED BY <1>1, <2>1, <2>2 DEF QuietInv, Replacing
  <1>7. CASE StartReplacement \/ RegisterReplacement \/ ReplacementReady
    <2>1. UNCHANGED <<captured, media, lifecycle>> /\ workerPc \in Replacing /\ workerPc' \in Replacing
      BY <1>7 DEF StartReplacement, RegisterReplacement, ReplacementReady, Replacing, slots
    <2>2. Quiet => ~captured /\ Replaceable = {} /\ ~RegisterReplacement /\ ~ReplacementReady
      BY <2>1 DEF QuietInv, Replaceable, RegisterReplacement, ReplacementReady, Replacing
    <2>3. Quiet => UNCHANGED replacement /\ workerPc' = "commit"
      BY <1>7, <2>2 DEF StartReplacement
    <2> QED BY <1>1, <2>1, <2>2, <2>3 DEF QuietInv, Replacing
  <1>8. CASE Abandon \/ CommitBudget \/ MoveMembers
    BY <1>1, <1>8 DEF Abandon, CommitBudget, MoveMembers, QuietInv, Replacing, slots
  <1>9. CASE StopExcess \/ SwapEncoders
    BY <1>1, <1>9 DEF StopExcess, Excess, SwapEncoders, QuietInv, Replacing
  <1> QED BY <1>2, <1>3, <1>4, <1>5, <1>6, <1>7, <1>8, <1>9 DEF ControlTask

StreamInv == Typed /\ LockInv /\ GateInv /\ QuietInv

LEMMA StreamStart == Init => StreamInv
  BY TypedStart, LockStart, GateStart, QuietStart DEF StreamInv

LEMMA StreamStep == StreamInv /\ [Next]_vars => StreamInv'
  BY TypedStep, LockStep, GateStep, QuietHandler, QuietRound, QuietOthers, QuietWorker DEF StreamInv, Next

\* StoppedStreamIsEmpty (server.rs, stop_stream_resources): detach_all_media takes the
\* lifecycle lock, so it removes what was being started, and who looks later finds
\* the gate closed; a round of maintenance that began before is over by then.
THEOREM StoppedMeansEmpty == Spec => []StoppedStreamIsEmpty
  <1>1. StreamInv => StoppedStreamIsEmpty
    BY DEF StreamInv, QuietInv, Quiet, StoppedStreamIsEmpty
  <1> QED BY StreamStart, StreamStep, <1>1, PTL DEF Spec

(***************************************************************************)
(* The primary group.                                                      *)
(***************************************************************************)
LEMMA PrimaryStart == Init => PrimaryInv
  BY GroupsAreNumbers DEF Init, PrimaryInv, Replacing

LEMMA PrimaryHandler ==
    ASSUME StreamInv, VacantInv, PrimaryInv, NEW h \in Handlers, Handle(h)
    PROVE  PrimaryInv'
  <1>1. UNCHANGED <<enabled, workerPc, replacement, wanted>>
    BY DEF Handle, HandlerStep, BeginSelect, BeginOffer, BeginObserve, beginRest, Look, Lock, CheckGate,
           StartEncoder, NotReady, Install, Failed, Assign, stepRest, workerV
  <1>2. CASE Install(h)
    <2>1. workerPc \notin Replacing /\ workerPc # "register" /\ media[group[h]] = "none"
      BY <1>2, BoundsAssumption DEF Install, StreamInv, LockInv, VacantInv, Starting, Replacing
    <2>2. /\ media' = [media EXCEPT ![group[h]] = held[h]]
          /\ lifecycle' = [lifecycle EXCEPT ![group[h]] = "Active"]
      BY <1>2 DEF Install
    <2> QED BY <1>1, <2>1, <2>2, GroupsAreNumbers DEF PrimaryInv, StreamInv, Typed, TypeOK
  <1>3. CASE ~Install(h)
    <2>1. UNCHANGED slots
      BY <1>3 DEF Handle, HandlerStep, BeginSelect, BeginOffer, BeginObserve, beginRest, Look, Lock, CheckGate,
                  StartEncoder, NotReady, Failed, Assign
    <2> QED BY <1>1, <2>1 DEF PrimaryInv, Replaceable, slots
  <1> QED BY <1>2, <1>3

LEMMA PrimaryRound ==
    ASSUME StreamInv, PrimaryInv, Maintain
    PROVE  PrimaryInv'
  <1>1. UNCHANGED <<enabled, workerPc, replacement, wanted>>
    BY DEF Maintain, Tick, BeginRound, CountMembers, Merge, KeepGroup, SkipGroup, EndRound,
           Drain, Rejoin, StartDrain, FinishDrain, drainRest, roundRest, workerV
  <1>2. \/ UNCHANGED <<media, lifecycle>>
        \/ /\ roundPc \in Rounds
           /\ \E g \in Groups \ {0} : /\ \E place \in {"Stopped", "Active", "Draining"} :
                                            lifecycle' = [lifecycle EXCEPT ![g] = place]
                                      /\ UNCHANGED media \/ media' = [media EXCEPT ![g] = "none"]
    <2>1. CASE Merge
      BY <2>1 DEF Merge, Mergeable, Rounds, StreamInv, Typed, TypeOK
    <2>2. ASSUME NEW g \in Groups, Drain(g)
          PROVE  /\ roundPc \in Rounds /\ g # 0
                 /\ \E place \in {"Stopped", "Active", "Draining"} : lifecycle' = [lifecycle EXCEPT ![g] = place]
                 /\ UNCHANGED media \/ media' = [media EXCEPT ![g] = "none"]
      <3>1. lifecycle[g] \in {"Stopped", "Active", "Draining"}
        BY DEF StreamInv, Typed, TypeOK
      <3>2. Visiting(g)
        BY <2>2 DEF Drain, Rejoin, StartDrain, FinishDrain
      <3>3. UNCHANGED media \/ media' = [media EXCEPT ![g] = "none"]
        BY <2>2 DEF Drain, Rejoin, StartDrain, FinishDrain
      <3>4. \E place \in {"Stopped", "Active", "Draining"} : lifecycle' = [lifecycle EXCEPT ![g] = place]
        BY <2>2, <3>1 DEF Drain, Rejoin, StartDrain, FinishDrain
      <3> QED BY <3>2, <3>3, <3>4 DEF Visiting, Rounds
    <2>3. CASE Tick \/ BeginRound \/ EndRound \/ CountMembers \/ KeepGroup \/ SkipGroup
      BY <2>3 DEF Tick, BeginRound, EndRound, CountMembers, KeepGroup, SkipGroup, slots, drainRest
    <2> QED BY <2>1, <2>2, <2>3 DEF Maintain
  <1>3. media'[0] = media[0] /\ lifecycle'[0] = lifecycle[0]
    BY <1>2, GroupsAreNumbers DEF StreamInv, Typed, TypeOK
  <1>4. workerPc = "register" => UNCHANGED <<media, lifecycle>>
    BY <1>2 DEF StreamInv, LockInv, Replacing
  <1> QED BY <1>1, <1>3, <1>4 DEF PrimaryInv, Replaceable

LEMMA PrimaryOthers ==
    ASSUME StreamInv, PrimaryInv,
           Broadcast \/ (\E c \in Clients : Session(c)) \/ UrgentStop \/ UrgentSignal \/ UNCHANGED vars
    PROVE  PrimaryInv'
  <1>1. /\ UNCHANGED <<media, replacement>> \/ SignalAll
        /\ enabled' => enabled
    BY DEF Broadcast, Session, Connect, Disconnect, RemoveClient, BroadcastTo, UrgentStop, UrgentSignal,
           vars, sessionRest, slots, workerV
  <1>2. \A g \in Groups : (media'[g] = "none" <=> media[g] = "none")
                          /\ (replacement'[g] = "none" <=> replacement[g] = "none")
    BY <1>1 DEF SignalAll, Signalled
  <1>3. UNCHANGED <<lifecycle, workerPc, wanted>>
    BY OthersLeaveLocks
  <1>4. Replaceable' = Replaceable
    BY <1>2, <1>3 DEF Replaceable
  <1> QED BY <1>1, <1>2, <1>3, <1>4, GroupsAreNumbers DEF PrimaryInv

LEMMA PrimaryWorker ==
    ASSUME StreamInv, PrimaryInv, ControlTask
    PROVE  PrimaryInv'
  <1> USE GroupsAreNumbers DEF StreamInv, Typed, TypeOK
  <1>1. CASE StartStream \/ Enable \/ RecoverStream \/ FinalizeStop \/ TakeCapture
    BY <1>1 DEF StartStream, Enable, RecoverStream, FinalizeStop, TakeCapture, PrimaryInv, Replacing, slots
  <1>2. CASE StartPrimary
    BY <1>2 DEF StartPrimary, PrimaryInv, Replacing, slots
  <1>3. CASE PrimaryReady
    BY <1>3 DEF PrimaryReady, PrimaryInv, Replacing
  <1>4. CASE RequestStop
    BY <1>4 DEF RequestStop, SignalAll, Signalled, PrimaryInv, Replacing
  <1>5. CASE DetachAllMedia
    BY <1>5 DEF DetachAllMedia, PrimaryInv, Replacing, GateInv
  <1>6. CASE Reconfigure
    BY <1>6 DEF Reconfigure, PrimaryInv, Replacing, QuietInv, slots
  <1>7. CASE StartReplacement
    <2>1. UNCHANGED <<enabled, media, lifecycle, replacement, wanted>> /\ workerPc = "replace"
          /\ workerPc' \in {"commit", "register", "abandon"} /\ (workerPc' = "register" => Replaceable # {})
      BY <1>7 DEF StartReplacement, slots
    <2>2. Replaceable' = Replaceable
      BY <2>1 DEF Replaceable
    <2> QED BY <2>1, <2>2 DEF PrimaryInv, Replacing
  <1>8. CASE RegisterReplacement
    <2>1. Min(Replaceable) \in Replaceable
      BY <1>8, MinIsMember DEF RegisterReplacement, PrimaryInv, Replaceable
    <2>2. UNCHANGED <<enabled, media, lifecycle>> /\ workerPc = "register" /\ workerPc' = "replacing"
      BY <1>8 DEF RegisterReplacement, slots
    <2>3. replacement'[0] # "none" => replacement[0] # "none" \/ 0 \in Replaceable
      BY <1>8, <2>1 DEF RegisterReplacement
    <2>4. 0 \in Replaceable => lifecycle[0] = "Active"
      BY DEF Replaceable
    <2> QED BY <2>2, <2>3, <2>4 DEF PrimaryInv, Replacing
  <1>9. CASE ReplacementReady \/ CommitBudget \/ MoveMembers
    BY <1>9 DEF ReplacementReady, CommitBudget, MoveMembers, PrimaryInv, Replacing, slots
  <1>10. CASE Abandon
    BY <1>10 DEF Abandon, PrimaryInv, Replacing, slots
  <1>11. CASE StopExcess
    BY <1>11 DEF StopExcess, Excess, PrimaryInv, Replacing
  <1>12. CASE SwapEncoders
    BY <1>12 DEF SwapEncoders, PrimaryInv, Replacing
  <1> QED BY <1>1, <1>2, <1>3, <1>4, <1>5, <1>6, <1>7, <1>8, <1>9, <1>10, <1>11, <1>12 DEF ControlTask

\* PrimaryServes (server.rs, start_primary and maintain): the gate is opened with the
\* primary group in its slot, and neither a merge nor the drain phase nor a smaller
\* budget takes it away; only stop_stream_resources does, once it has closed the gate.
THEOREM PrimaryIsThere == Spec => []PrimaryServes
  <1> DEFINE Inv == StreamInv /\ VacantInv /\ PrimaryInv
  <1>1. Init => Inv
    BY StreamStart, LockStart, PrimaryStart
  <1>2. Inv /\ [Next]_vars => Inv'
    <2> SUFFICES ASSUME Inv, [Next]_vars PROVE Inv'
      OBVIOUS
    <2>1. StreamInv'
      BY StreamStep
    <2>2. VacantInv'
      BY VacantStep DEF StreamInv
    <2>3. PrimaryInv'
      BY PrimaryHandler, PrimaryRound, PrimaryOthers, PrimaryWorker DEF Next
    <2> QED BY <2>1, <2>2, <2>3
  <1>3. Inv => PrimaryServes
    BY DEF PrimaryInv, PrimaryServes
  <1> QED BY <1>1, <1>2, <1>3, PTL DEF Spec

(***************************************************************************)
(* The drain phase.                                                        *)
(***************************************************************************)
LEMMA DrainStart == Init => DrainInv
  BY DEF Init, DrainInv

\* While maintain holds the lock nobody else changes what it goes by.
LEMMA RoundIsAlone ==
    ASSUME StreamInv, roundPc \in Rounds, [Next]_vars, ~Maintain
    PROVE  UNCHANGED <<roundPc, at, seen, budget, lifecycle>>
  <1>1. lifecycleLock = "maintainer" /\ workerPc \notin Replacing \cup {"primaryReady"}
        /\ \A h \in Handlers : pc[h] \notin Starting
    BY BoundsAssumption DEF StreamInv, LockInv
  <1>2. ASSUME NEW h \in Handlers, Handle(h) PROVE UNCHANGED <<roundPc, at, seen, budget, lifecycle>>
    <2>1. ~Install(h)
      BY <1>1 DEF Install, Starting
    <2> QED BY <1>2, <2>1 DEF Handle, HandlerStep, BeginSelect, BeginOffer, BeginObserve, beginRest, Look, Lock,
               CheckGate, StartEncoder, NotReady, Failed, Assign, stepRest, round, slots
  <1>3. CASE ControlTask
    <2>1. ~PrimaryReady /\ ~DetachAllMedia /\ ~StopExcess /\ ~CommitBudget /\ ~SwapEncoders
      BY <1>1 DEF PrimaryReady, DetachAllMedia, StopExcess, Excess, CommitBudget, SwapEncoders, Replacing
    <2> QED BY <1>3, <2>1 DEF ControlTask, StartStream, StartPrimary, Enable, RecoverStream, FinalizeStop,
               RequestStop, TakeCapture, Reconfigure, StartReplacement, RegisterReplacement, ReplacementReady,
               Abandon, MoveMembers, workerRest, round, slots
  <1> QED BY <1>2, <1>3, OthersLeaveLocks DEF Next

\* The group the drain phase leaves does not drain, if it has members.
LEMMA DrainVisit ==
    ASSUME StreamInv, DrainInv, SkipGroup \/ \E g \in Groups : Drain(g)
    PROVE  DrainInv'
  <1>1. /\ roundPc = "drain" /\ Advance("unlock") /\ UNCHANGED <<seen, budget>>
        /\ \A g \in Groups : g # at => lifecycle'[g] = lifecycle[g]
        /\ \A g \in Groups : g = at /\ g # 0 => Attended(g)'
    <2>1. CASE SkipGroup
      BY <2>1 DEF SkipGroup, Visiting, Attended, Members, slots, drainRest, roundRest
    <2>2. ASSUME NEW g \in Groups, Rejoin(g) \/ StartDrain(g) \/ FinishDrain(g)
          PROVE  /\ roundPc = "drain" /\ Advance("unlock") /\ UNCHANGED <<seen, budget>>
                 /\ \A x \in Groups : x # at => lifecycle'[x] = lifecycle[x]
                 /\ g = at /\ Attended(g)'
      <3>1. roundPc = "drain" /\ at = g /\ Advance("unlock") /\ UNCHANGED <<seen, budget>>
        BY <2>2 DEF Rejoin, StartDrain, FinishDrain, Visiting, drainRest, roundRest
      <3>2. CASE Rejoin(g)
        BY <3>1, <3>2 DEF Rejoin, Attended, StreamInv, Typed, TypeOK
      <3>3. CASE StartDrain(g)
        BY <3>1, <3>3 DEF StartDrain, Attended, Members, StreamInv, Typed, TypeOK
      <3>4. CASE FinishDrain(g)
        BY <3>1, <3>4 DEF FinishDrain, Attended, StreamInv, Typed, TypeOK
      <3> QED BY <2>2, <3>1, <3>2, <3>3, <3>4
    <2> QED BY <2>1, <2>2 DEF Drain
  <1>2. \A g \in Groups : g # at /\ Attended(g) => Attended(g)'
    BY <1>1 DEF Attended, Members
  <1>3. \A g \in Groups \ {0} : g < at \/ g = at => Attended(g)'
    BY <1>1, <1>2, GroupsAreNumbers DEF DrainInv, StreamInv, Typed, TypeOK
  <1>4. CASE at = Slots - 1
    <2>1. roundPc' = "unlock" /\ \A g \in Groups : g < at \/ g = at
      BY <1>1, <1>4, BoundsAssumption DEF Advance, Groups
    <2> QED BY <1>3, <2>1 DEF DrainInv
  <1>5. CASE at # Slots - 1
    <2>1. roundPc' = "drain" /\ at' = at + 1
      BY <1>1, <1>5 DEF Advance
    <2>2. \A g \in Groups : g < at' => g < at \/ g = at
      BY <2>1, GroupsAreNumbers DEF StreamInv, Typed, TypeOK
    <2> QED BY <1>3, <2>1, <2>2 DEF DrainInv
  <1> QED BY <1>4, <1>5

LEMMA DrainStep ==
    ASSUME StreamInv, DrainInv, [Next]_vars
    PROVE  DrainInv'
  <1>1. CASE SkipGroup \/ \E g \in Groups : Drain(g)
    BY <1>1, DrainVisit
  <1>2. CASE CountMembers
    <2>1. at' = 0 /\ roundPc' \in {"merge", "drain"} /\ \A g \in Groups : ~(g < 0)
      BY <1>2, GroupsAreNumbers DEF CountMembers
    <2> QED BY <2>1 DEF DrainInv
  <1>3. CASE Tick \/ BeginRound \/ EndRound \/ Merge \/ KeepGroup
    BY <1>3 DEF Tick, BeginRound, EndRound, Merge, KeepGroup, Advance, DrainInv
  <1>4. CASE ~Maintain /\ roundPc \in Rounds
    BY <1>4, RoundIsAlone DEF DrainInv, Attended, Members
  <1>5. CASE ~Maintain /\ roundPc \notin Rounds
    <2>1. UNCHANGED roundPc
      BY <1>5, OthersLeaveLocks, ZenonT(40) DEF Next, Handle, HandlerStep, BeginSelect, BeginOffer, BeginObserve, beginRest,
         Look, Lock, CheckGate, StartEncoder, NotReady, Install, Failed, Assign, stepRest, round, ControlTask,
         StartStream, StartPrimary, PrimaryReady, Enable, RecoverStream, FinalizeStop, RequestStop,
         DetachAllMedia, TakeCapture, Reconfigure, StartReplacement, RegisterReplacement, ReplacementReady,
         Abandon, CommitBudget, MoveMembers, StopExcess, Excess, SwapEncoders, workerRest
    <2> QED BY <1>5, <2>1 DEF DrainInv, Rounds
  <1> QED BY <1>1, <1>2, <1>3, <1>4, <1>5 DEF Maintain

\* NobodyLeftDraining (server.rs, maintain): the drain phase goes by a copy of the
\* assignments made after the merges, under a lock that nobody who could mark a group
\* takes meanwhile, so also two groups merged into each other end with one active.
THEOREM MembersKeepTheirGroup == Spec => NobodyLeftDraining
  <1> DEFINE Step == roundPc = "unlock" /\ roundPc' = "idle" =>
                \A g \in Groups \ {0} : g < budget /\ Members(seen, g) # {}
                                            => lifecycle[g] # "Draining"
  <1>1. Init => StreamInv /\ DrainInv
    BY StreamStart, DrainStart
  <1>2. StreamInv /\ DrainInv /\ [Next]_vars => (StreamInv /\ DrainInv)'
    BY StreamStep, DrainStep
  <1>3. StreamInv /\ DrainInv /\ [Next]_vars => [Step]_vars
    BY DEF DrainInv, Attended
  <1>4. Spec => [][Step]_vars
    BY <1>1, <1>2, <1>3, PTL DEF Spec
  <1> QED BY <1>4 DEF NobodyLeftDraining
==============================================================================
