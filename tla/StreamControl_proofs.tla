------------------------- MODULE StreamControl_proofs -------------------------
(***************************************************************************)
(* Proofs about StreamControl, for any bounds and for builds with and      *)
(* without the window resize machinery.                                    *)
(***************************************************************************)
EXTENDS StreamControl, FiniteSetTheorems, TLAPS

(***************************************************************************)
(* Type correctness. The conjuncts of TypeOK are grouped by the tuple of    *)
(* variables they type, so that the proof of an action opens only the       *)
(* groups the action assigns to.                                           *)
(***************************************************************************)
FlagTypes == enabled \in BOOLEAN /\ resetting \in BOOLEAN
RevisionTypes == stopRevision \in Nat /\ sessionRevision \in Nat
MediaTypes ==
    /\ capture \in CaptureStates /\ primary \in PrimaryStates /\ audioActive \in BOOLEAN
ChannelTypes ==
    /\ control \in Seq(ServerCommand) /\ urgent \in Seq(Nat)
    /\ queue \in Seq(ServerCommand) /\ timers \in SUBSET Nat
UrgentTypes == urgentPc \in UrgentPcs /\ urgentStop \in Nat
WorkerTypes ==
    /\ pc \in WorkerPcs /\ then \in WorkerPcs /\ command \in ServerCommand
    /\ seenRevision \in Nat /\ built \in BOOLEAN /\ change \in Changes
MonitorTypes == monitorPc \in {"idle", "claim"} /\ recoveryPending \in BOOLEAN
HostTypes ==
    /\ hostStatus \in {"ready", "starting", "running", "stopping", "failed"}
    /\ clicks \in Seq(ServerCommand) /\ awaiting \in ServerCommand
    /\ reply \in {"none", "ok", "error"}
CountTypes ==
    issued \in Nat /\ updates \in Nat /\ timeouts \in Nat /\ failures \in Nat /\ resizes \in Nat
HistoryTypes ==
    /\ intent \in {"running", "stopped"} /\ owner \in Nat /\ graph \in Nat
    /\ shown \in [session : Nat, graph : Nat] /\ lateStops \in SUBSET Nat

Types ==
    /\ FlagTypes /\ RevisionTypes /\ MediaTypes /\ ChannelTypes /\ UrgentTypes
    /\ WorkerTypes /\ MonitorTypes /\ HostTypes /\ CountTypes /\ HistoryTypes

LEMMA TypesIsTypeOK == Types <=> TypeOK
  BY DEF Types, TypeOK, FlagTypes, RevisionTypes, MediaTypes, ChannelTypes, UrgentTypes,
     WorkerTypes, MonitorTypes, HostTypes, CountTypes, HistoryTypes

\* A group of variables an action leaves alone keeps its types.
LEMMA Stable ==
    /\ FlagTypes /\ RevisionTypes /\ UNCHANGED server => FlagTypes' /\ RevisionTypes'
    /\ MediaTypes /\ UNCHANGED media => MediaTypes'
    /\ UrgentTypes /\ UNCHANGED urgentV => UrgentTypes'
    /\ WorkerTypes /\ UNCHANGED workerV => WorkerTypes'
    /\ MonitorTypes /\ UNCHANGED monitorV => MonitorTypes'
    /\ HostTypes /\ UNCHANGED hostV => HostTypes'
    /\ CountTypes /\ UNCHANGED countV => CountTypes'
    /\ HistoryTypes /\ UNCHANGED history => HistoryTypes'
  <1>1. FlagTypes /\ RevisionTypes /\ UNCHANGED server => FlagTypes' /\ RevisionTypes'
    BY DEF FlagTypes, RevisionTypes, server
  <1>2. MediaTypes /\ UNCHANGED media => MediaTypes'
    BY DEF MediaTypes, media
  <1>3. UrgentTypes /\ UNCHANGED urgentV => UrgentTypes'
    BY DEF UrgentTypes, urgentV
  <1>4. WorkerTypes /\ UNCHANGED workerV => WorkerTypes'
    BY DEF WorkerTypes, workerV
  <1>5. MonitorTypes /\ UNCHANGED monitorV => MonitorTypes'
    BY DEF MonitorTypes, monitorV
  <1>6. HostTypes /\ UNCHANGED hostV => HostTypes'
    BY DEF HostTypes, hostV
  <1>7. CountTypes /\ UNCHANGED countV => CountTypes'
    BY DEF CountTypes, countV
  <1>8. HistoryTypes /\ UNCHANGED history => HistoryTypes'
    BY DEF HistoryTypes, history
  <1> QED BY <1>1, <1>2, <1>3, <1>4, <1>5, <1>6, <1>7, <1>8

LEMMA CommandType ==
    ASSUME NEW kind \in Kinds, NEW n \in Nat, NEW rev \in Nat
    PROVE  Cmd(kind, n, rev) \in ServerCommand
  BY DEF Cmd, ServerCommand

LEMMA NoCommandType == NoCommand \in ServerCommand
  BY CommandType DEF NoCommand, Kinds

LEMMA CommandFields ==
    ASSUME NEW c \in ServerCommand
    PROVE  c.kind \in Kinds /\ c.n \in Nat /\ c.rev \in Nat
  BY DEF ServerCommand

LEMMA TypesInit == Init => Types
  <1> SUFFICES ASSUME Init PROVE Types
    OBVIOUS
  <1> USE DEF Init
  <1>1. FlagTypes /\ MonitorTypes
    BY DEF FlagTypes, MonitorTypes
  <1>2. MediaTypes
    BY DEF MediaTypes, CaptureStates, PrimaryStates
  <1>3. UrgentTypes /\ WorkerTypes
    BY NoCommandType DEF UrgentTypes, WorkerTypes, UrgentPcs, WorkerPcs, Changes
  <1>4. HostTypes
    BY NoCommandType DEF HostTypes
  <1>5. HistoryTypes
    BY DEF HistoryTypes
  <1>6. RevisionTypes /\ ChannelTypes /\ CountTypes
    BY DEF RevisionTypes, ChannelTypes, CountTypes
  <1> QED BY <1>1, <1>2, <1>3, <1>4, <1>5, <1>6 DEF Types

LEMMA ClickType ==
    ASSUME NEW kind \in Kinds, NEW from, NEW to \in {"starting", "stopping"},
           Types, Click(kind, from, to)
    PROVE  Types'
  <1> USE DEF Types
  <1>1. CountTypes'
    BY DEF Click, CountTypes
  <1>2. Cmd(kind, issued', 0) \in ServerCommand
    BY <1>1, CommandType DEF CountTypes
  <1>3. HostTypes'
    BY <1>2 DEF Click, HostTypes
  <1>4. ChannelTypes'
    BY DEF Click, ChannelTypes
  <1> QED BY <1>1, <1>3, <1>4, Stable DEF Click

LEMMA HostType == Types /\ Host => Types'
  <1> SUFFICES ASSUME Types, Host PROVE Types'
    OBVIOUS
  <1>0. Cmd("update", 0, 0) \in ServerCommand
    BY CommandType DEF Kinds
  <1>1. CASE ClickStart
    BY <1>1, ClickType DEF ClickStart, Kinds
  <1>2. CASE ClickStop
    BY <1>2, ClickType DEF ClickStop, Kinds
  <1>3. CASE SendCommand
    BY <1>3, Stable DEF Types, SendCommand, HostTypes, ChannelTypes
  <1>4. CASE TakeReply
    BY <1>4, NoCommandType, Stable DEF Types, TakeReply, HostTypes, ChannelTypes
  <1>5. CASE AckTimeout
    <2>1. HostTypes'
      BY <1>5, NoCommandType DEF Types, AckTimeout, HostTypes
    <2>2. CountTypes'
      BY <1>5 DEF Types, AckTimeout, CountTypes
    <2>3. HistoryTypes'
      BY <1>5, NoCommandType, CommandFields DEF Types, AckTimeout, HistoryTypes, HostTypes
    <2>4. ChannelTypes'
      BY <1>5 DEF Types, AckTimeout, ChannelTypes
    <2> QED BY <1>5, <2>1, <2>2, <2>3, <2>4, Stable DEF Types, AckTimeout
  <1>6. CASE UpdateSettings
    BY <1>6, <1>0, Stable DEF Types, UpdateSettings, CountTypes, ChannelTypes
  <1> QED BY <1>1, <1>2, <1>3, <1>4, <1>5, <1>6 DEF Host

LEMMA ForwardType == Types /\ Forward => Types'
  <1> SUFFICES ASSUME Types, Forward PROVE Types'
    OBVIOUS
  <1>1. Head(control) \in ServerCommand /\ Tail(control) \in Seq(ServerCommand)
    BY DEF Types, ChannelTypes, Forward
  <1>2. Head(control).n \in Nat
    BY <1>1, CommandFields
  <1>3. control' = Tail(control) /\ UNCHANGED timers
    BY DEF Forward
  <1>4. CASE Head(control).kind = "stop"
    <2>1. urgent' = Append(urgent, Head(control).n) /\ UNCHANGED queue
      BY <1>4 DEF Forward
    <2> QED BY <1>1, <1>2, <1>3, <2>1, Stable DEF Types, ChannelTypes, Forward
  <1>5. CASE Head(control).kind # "stop"
    <2>1. queue' = Append(queue, Head(control)) /\ UNCHANGED urgent
      BY <1>5 DEF Forward
    <2> QED BY <1>1, <1>3, <2>1, Stable DEF Types, ChannelTypes, Forward
  <1> QED BY <1>4, <1>5

LEMMA UrgentType == Types /\ Urgent => Types'
  <1> SUFFICES ASSUME Types, Urgent PROVE Types'
    OBVIOUS
  <1>0. Cmd("finalize", urgentStop, 0) \in ServerCommand
    BY CommandType DEF Types, UrgentTypes, Kinds
  <1>1. CASE UrgentTake
    <2>1. UrgentTypes'
      BY <1>1 DEF Types, UrgentTake, UrgentTypes, UrgentPcs, ChannelTypes
    <2>2. FlagTypes'
      BY <1>1 DEF Types, UrgentTake, FlagTypes
    <2>3. RevisionTypes'
      BY <1>1 DEF Types, UrgentTake, RevisionTypes
    <2>4. ChannelTypes'
      BY <1>1 DEF Types, UrgentTake, ChannelTypes, urgentRest
    <2> QED BY <1>1, <2>1, <2>2, <2>3, <2>4, Stable DEF Types, UrgentTake, urgentRest
  <1>2. CASE UrgentRevise
    <2>1. UrgentTypes'
      BY <1>2 DEF Types, UrgentRevise, UrgentTypes, UrgentPcs
    <2>2. FlagTypes'
      BY <1>2 DEF Types, UrgentRevise, FlagTypes
    <2>3. RevisionTypes'
      BY <1>2 DEF Types, UrgentRevise, RevisionTypes
    <2>4. HistoryTypes'
      BY <1>2 DEF Types, UrgentRevise, HistoryTypes
    <2>5. ChannelTypes'
      BY <1>2 DEF Types, UrgentRevise, ChannelTypes, urgentRest
    <2> QED BY <1>2, <2>1, <2>2, <2>3, <2>4, <2>5, Stable DEF Types, UrgentRevise, urgentRest
  <1>3. CASE UrgentDisable
    <2>1. UrgentTypes'
      BY <1>3 DEF Types, UrgentDisable, UrgentTypes, UrgentPcs
    <2>2. FlagTypes'
      BY <1>3 DEF Types, UrgentDisable, FlagTypes, CloseGate
    <2>3. RevisionTypes'
      BY <1>3 DEF Types, UrgentDisable, RevisionTypes, CloseGate
    <2>4. ChannelTypes'
      BY <1>3 DEF Types, UrgentDisable, ChannelTypes, urgentRest
    <2> QED BY <1>3, <2>1, <2>2, <2>3, <2>4, Stable DEF Types, UrgentDisable, urgentRest
  <1>4. CASE UrgentSignal
    BY <1>4, Stable DEF Types, UrgentSignal, UrgentTypes, UrgentPcs, MediaTypes,
       SignalGraph, CaptureStates, PrimaryStates, ChannelTypes, urgentRest
  <1>5. CASE UrgentFinalize
    BY <1>5, <1>0, Stable DEF Types, UrgentFinalize, UrgentTypes, UrgentPcs, HostTypes,
       Answer, ChannelTypes, urgentRest
  <1> QED BY <1>1, <1>2, <1>3, <1>4, <1>5 DEF Urgent

Environment == MonitorCheck \/ MonitorClaim \/ ObserveResize \/ RetryTimer \/ ComponentFails

LEMMA EnvironmentType == Types /\ Environment => Types'
  <1> SUFFICES ASSUME Types, Environment PROVE Types'
    OBVIOUS
  <1>0. /\ Cmd("recover", 0, 0) \in ServerCommand
        /\ Cmd("refresh", 0, 0) \in ServerCommand
        /\ \A r \in Nat : Cmd("retry", 0, r) \in ServerCommand
    BY CommandType DEF Kinds
  <1>1. CASE MonitorCheck
    BY <1>1, Stable DEF Types, MonitorCheck, MonitorTypes, ChannelTypes
  <1>2. CASE MonitorClaim
    BY <1>2, <1>0, Stable DEF Types, MonitorClaim, MonitorTypes, ChannelTypes
  <1>3. CASE ObserveResize
    BY <1>3, <1>0, Stable DEF Types, ObserveResize, CountTypes, ChannelTypes
  <1>4. CASE RetryTimer
    BY <1>4, <1>0, Stable DEF Types, RetryTimer, ChannelTypes
  <1>5. CASE ComponentFails
    BY <1>5, Stable DEF Types, ComponentFails, Failing, CountTypes, MediaTypes,
       CaptureStates, PrimaryStates, ChannelTypes
  <1> QED BY <1>1, <1>2, <1>3, <1>4, <1>5 DEF Environment

LEMMA TakeType == Types /\ TakeCommand => Types'
  <1> SUFFICES ASSUME Types, TakeCommand PROVE Types'
    OBVIOUS
  <1>1. CASE TakeStart
    <2>1. WorkerTypes'
      BY <1>1 DEF Types, TakeStart, WorkerTypes, WorkerPcs, ChannelTypes, RevisionTypes,
         Take
    <2>2. FlagTypes'
      BY <1>1 DEF Types, TakeStart, FlagTypes
    <2>3. RevisionTypes'
      BY <1>1 DEF Types, TakeStart, RevisionTypes
    <2>4. HistoryTypes'
      BY <1>1 DEF Types, TakeStart, HistoryTypes
    <2>5. ChannelTypes'
      BY <1>1 DEF Types, TakeStart, ChannelTypes, Take, workerRest
    <2> QED BY <1>1, <2>1, <2>2, <2>3, <2>4, <2>5, Stable DEF Types, TakeStart, workerRest
  <1>2. CASE TakeFinalize
    BY <1>2, Stable DEF Types, TakeFinalize, WorkerTypes, WorkerPcs, Take, ChannelTypes,
       workerRest
  <1>3. CASE TakeUpdate
    BY <1>3, Stable DEF Types, TakeUpdate, WorkerTypes, WorkerPcs, Take, ChannelTypes,
       workerRest
  <1>4. CASE TakeRecover
    BY <1>4, Stable DEF Types, TakeRecover, WorkerTypes, WorkerPcs, Take, MonitorTypes,
       FlagTypes, RevisionTypes, ChannelTypes, workerRest
  <1>5. CASE TakeRefresh
    BY <1>5, Stable DEF Types, TakeRefresh, WorkerTypes, WorkerPcs, Take, ChannelTypes,
       workerRest
  <1>6. CASE TakeRetry
    BY <1>6, CommandFields, Stable DEF Types, TakeRetry, WorkerTypes, WorkerPcs, Take,
       ChannelTypes, workerRest
  <1> QED BY <1>1, <1>2, <1>3, <1>4, <1>5, <1>6 DEF TakeCommand

LEMMA ApplyType == Types /\ Apply => Types'
  <1> SUFFICES ASSUME Types, Apply PROVE Types'
    OBVIOUS
  <1>1. CASE ApplySettings
    BY <1>1, Stable DEF Types, ApplySettings, WorkerTypes, WorkerPcs, Changes, ChannelTypes,
       stepRest, quiet
  <1>2. CASE Recapture
    <2>1. WorkerTypes'
      BY <1>2 DEF Types, Recapture, WorkerTypes, WorkerPcs, Goto, RestartCapture
    <2>2. MediaTypes'
      BY <1>2 DEF Types, Recapture, MediaTypes, CaptureStates, RestartCapture, Failing
    <2>3. CountTypes'
      BY <1>2 DEF Types, Recapture, CountTypes, Failing, RestartCapture, countV
    <2>4. ChannelTypes'
      BY <1>2 DEF Types, Recapture, ChannelTypes, Failing, stepRest
    <2> QED BY <1>2, <2>1, <2>2, <2>3, <2>4, Stable DEF Types, Recapture, stepRest, Goto, RestartCapture
  <1>3. CASE CheckEncoders
    BY <1>3, Stable DEF Types, CheckEncoders, WorkerTypes, WorkerPcs, Goto, EncoderFailure,
       ChannelTypes, stepRest, quiet
  <1>4. CASE ReplaceEncoders
    <2>1. WorkerTypes'
      BY <1>4 DEF Types, ReplaceEncoders, WorkerTypes, WorkerPcs, Goto, EncoderFailure
    <2>2. MediaTypes'
      BY <1>4 DEF Types, ReplaceEncoders, MediaTypes, PrimaryStates, Failing
    <2>3. CountTypes'
      BY <1>4 DEF Types, ReplaceEncoders, CountTypes, Failing, countV
    <2>4. ChannelTypes'
      BY <1>4 DEF Types, ReplaceEncoders, ChannelTypes, Failing, stepRest
    <2> QED BY <1>4, <2>1, <2>2, <2>3, <2>4, Stable DEF Types, ReplaceEncoders, stepRest, Goto
  <1>5. CASE Applied
    <2>1. WorkerTypes'
      BY <1>5 DEF Types, Applied, WorkerTypes, WorkerPcs, RevisionTypes, Goto
    <2>2. FlagTypes'
      BY <1>5 DEF Types, Applied, FlagTypes
    <2>3. RevisionTypes'
      BY <1>5 DEF Types, Applied, RevisionTypes
    <2>4. HistoryTypes'
      BY <1>5 DEF Types, Applied, HistoryTypes, Show, RevisionTypes
    <2>5. ChannelTypes'
      BY <1>5 DEF Types, Applied, ChannelTypes, stepRest
    <2> QED BY <1>5, <2>1, <2>2, <2>3, <2>4, <2>5, Stable DEF Types, Applied, stepRest, Goto
  <1>6. CASE Rejected
    BY <1>6, Stable DEF Types, Rejected, WorkerTypes, WorkerPcs, Goto, HostTypes, Answer,
       ChannelTypes, stepRest
  <1> QED BY <1>1, <1>2, <1>3, <1>4, <1>5, <1>6 DEF Apply

LEMMA BuildType == Types /\ Build => Types'
  <1> SUFFICES ASSUME Types, Build PROVE Types'
    OBVIOUS
  <1>1. CASE BuildCapture
    <2>1. WorkerTypes'
      BY <1>1 DEF Types, BuildCapture, WorkerTypes, WorkerPcs
    <2>2. MediaTypes'
      BY <1>1 DEF Types, BuildCapture, MediaTypes, CaptureStates, Failing
    <2>3. CountTypes'
      BY <1>1 DEF Types, BuildCapture, CountTypes, Failing, countV
    <2>4. HistoryTypes'
      BY <1>1, CommandFields DEF Types, BuildCapture, HistoryTypes, WorkerTypes
    <2>5. ChannelTypes'
      BY <1>1 DEF Types, BuildCapture, ChannelTypes, Failing, stepRest
    <2> QED BY <1>1, <2>1, <2>2, <2>3, <2>4, <2>5, Stable DEF Types, BuildCapture, stepRest
  <1>2. CASE RegisterPrimary
    BY <1>2, Stable DEF Types, RegisterPrimary, WorkerTypes, WorkerPcs, Goto, MediaTypes,
       PrimaryStates, ChannelTypes, stepRest, quiet
  <1>3. CASE AwaitPrimary
    <2>1. WorkerTypes'
      BY <1>3 DEF Types, AwaitPrimary, WorkerTypes, WorkerPcs
    <2>2. MediaTypes'
      BY <1>3 DEF Types, AwaitPrimary, MediaTypes, PrimaryStates, Failing
    <2>3. CountTypes'
      BY <1>3 DEF Types, AwaitPrimary, CountTypes, Failing, countV
    <2>4. ChannelTypes'
      BY <1>3 DEF Types, AwaitPrimary, ChannelTypes, Failing, stepRest
    <2> QED BY <1>3, <2>1, <2>2, <2>3, <2>4, Stable DEF Types, AwaitPrimary, stepRest
  <1>4. CASE Built
    <2>1. WorkerTypes'
      BY <1>4 DEF Types, Built, WorkerTypes, WorkerPcs, Goto, TeardownThen, Done
    <2>2. MonitorTypes'
      BY <1>4 DEF Types, Built, MonitorTypes, Done, monitorV
    <2>3. ChannelTypes'
      BY <1>4 DEF Types, Built, ChannelTypes, stepRest
    <2> QED BY <1>4, <2>1, <2>2, <2>3, Stable DEF Types, Built, stepRest, Goto
  <1> QED BY <1>1, <1>2, <1>3, <1>4 DEF Build

LEMMA PublishType == Types /\ Publish => Types'
  <1> SUFFICES ASSUME Types, Publish PROVE Types'
    OBVIOUS
  <1>1. CASE Enable
    <2>1. WorkerTypes'
      BY <1>1 DEF Types, Enable, WorkerTypes, WorkerPcs, RevisionTypes, Goto
    <2>2. FlagTypes'
      BY <1>1 DEF Types, Enable, FlagTypes
    <2>3. RevisionTypes'
      BY <1>1 DEF Types, Enable, RevisionTypes
    <2>4. HistoryTypes'
      BY <1>1 DEF Types, Enable, HistoryTypes, Show, RevisionTypes
    <2>5. ChannelTypes'
      BY <1>1 DEF Types, Enable, ChannelTypes, stepRest
    <2> QED BY <1>1, <2>1, <2>2, <2>3, <2>4, <2>5, Stable DEF Types, Enable, stepRest, Goto
  <1>2. CASE Recheck
    BY <1>2, Stable DEF Types, Recheck, WorkerTypes, WorkerPcs, Goto, TeardownThen,
       ChannelTypes, stepRest, quiet
  <1>3. CASE NumberSession
    <2>1. WorkerTypes'
      BY <1>3 DEF Types, NumberSession, WorkerTypes, WorkerPcs, RevisionTypes, Goto, Done
    <2>2. FlagTypes'
      BY <1>3 DEF Types, NumberSession, FlagTypes
    <2>3. RevisionTypes'
      BY <1>3 DEF Types, NumberSession, RevisionTypes
    <2>4. MonitorTypes'
      BY <1>3 DEF Types, NumberSession, MonitorTypes, Done, monitorV
    <2>5. HistoryTypes'
      BY <1>3 DEF Types, NumberSession, HistoryTypes, Show, RevisionTypes
    <2>6. ChannelTypes'
      BY <1>3 DEF Types, NumberSession, ChannelTypes, stepRest
    <2> QED BY <1>3, <2>1, <2>2, <2>3, <2>4, <2>5, <2>6, Stable DEF Types, NumberSession, stepRest, Goto
  <1>4. CASE Activate
    BY <1>4, Stable DEF Types, Activate, WorkerTypes, WorkerPcs, Goto, MediaTypes,
       PrimaryStates, HostTypes, Answer, ChannelTypes, stepRest
  <1>5. CASE Confirm
    <2>1. WorkerTypes'
      BY <1>5 DEF Types, Confirm, WorkerTypes, WorkerPcs, Goto, TeardownThen, Done
    <2>2. MonitorTypes'
      BY <1>5 DEF Types, Confirm, MonitorTypes, Done, monitorV
    <2>3. ChannelTypes'
      BY <1>5 DEF Types, Confirm, ChannelTypes, stepRest
    <2> QED BY <1>5, <2>1, <2>2, <2>3, Stable DEF Types, Confirm, stepRest, Goto
  <1> QED BY <1>1, <1>2, <1>3, <1>4, <1>5 DEF Publish

LEMMA StopType == Types /\ StopResources => Types'
  <1> SUFFICES ASSUME Types, StopResources PROVE Types'
    OBVIOUS
  <1>1. CASE StopRequested
    <2>1. WorkerTypes'
      BY <1>1 DEF Types, StopRequested, WorkerTypes, WorkerPcs, RevisionTypes, Goto
    <2>2. FlagTypes'
      BY <1>1 DEF Types, StopRequested, FlagTypes, CloseGate
    <2>3. RevisionTypes'
      BY <1>1 DEF Types, StopRequested, RevisionTypes, CloseGate
    <2>4. ChannelTypes'
      BY <1>1 DEF Types, StopRequested, ChannelTypes, stepRest
    <2> QED BY <1>1, <2>1, <2>2, <2>3, <2>4, Stable DEF Types, StopRequested, stepRest, quiet, Goto
  <1>2. CASE TornDown
    <2>1. WorkerTypes'
      BY <1>2 DEF Types, TornDown, WorkerTypes, WorkerPcs, Goto, Done
    <2>2. MediaTypes'
      BY <1>2 DEF Types, TornDown, MediaTypes, CaptureStates, PrimaryStates, DetachGraph
    <2>3. MonitorTypes'
      BY <1>2 DEF Types, TornDown, MonitorTypes, Done, monitorV
    <2>4. ChannelTypes'
      BY <1>2 DEF Types, TornDown, ChannelTypes, stepRest
    <2> QED BY <1>2, <2>1, <2>2, <2>3, <2>4, Stable DEF Types, TornDown, stepRest, Goto
  <1>3. CASE StartFailed
    BY <1>3, Stable DEF Types, StartFailed, WorkerTypes, WorkerPcs, Goto, HostTypes, Answer,
       ChannelTypes, stepRest
  <1> QED BY <1>1, <1>2, <1>3 DEF StopResources

LEMMA RebuildType == Types /\ Rebuild => Types'
  <1> SUFFICES ASSUME Types, Rebuild PROVE Types'
    OBVIOUS
  <1>1. CASE RecoverLoad
    <2>1. WorkerTypes'
      BY <1>1 DEF Types, RecoverLoad, WorkerTypes, WorkerPcs, RevisionTypes
    <2>2. MonitorTypes'
      BY <1>1 DEF Types, RecoverLoad, MonitorTypes
    <2>3. FlagTypes'
      BY <1>1 DEF Types, RecoverLoad, FlagTypes, server
    <2>4. RevisionTypes'
      BY <1>1 DEF Types, RecoverLoad, RevisionTypes, server
    <2>5. ChannelTypes'
      BY <1>1 DEF Types, RecoverLoad, ChannelTypes, stepRest
    <2> QED BY <1>1, <2>1, <2>2, <2>3, <2>4, <2>5, Stable DEF Types, RecoverLoad, stepRest
  <1>2. CASE Prepare
    BY <1>2, Stable DEF Types, Prepare, WorkerTypes, WorkerPcs, Goto, FlagTypes,
       RevisionTypes, ChannelTypes, stepRest, quiet
  <1>3. CASE Restart
    BY <1>3, Stable DEF Types, Restart, WorkerTypes, WorkerPcs, Goto, ChannelTypes,
       stepRest, quiet
  <1>4. CASE Reset
    <2>1. WorkerTypes'
      BY <1>4 DEF Types, Reset, WorkerTypes, WorkerPcs, RevisionTypes, TeardownThen
    <2>2. FlagTypes'
      BY <1>4 DEF Types, Reset, FlagTypes
    <2>3. RevisionTypes'
      BY <1>4 DEF Types, Reset, RevisionTypes
    <2>4. ChannelTypes'
      BY <1>4 DEF Types, Reset, ChannelTypes, stepRest
    <2> QED BY <1>4, <2>1, <2>2, <2>3, <2>4, Stable DEF Types, Reset, stepRest, quiet
  <1>5. CASE Clean
    <2>1. WorkerTypes'
      BY <1>5 DEF Types, Clean, WorkerTypes, WorkerPcs, Goto, Done
    <2>2. MonitorTypes'
      BY <1>5 DEF Types, Clean, MonitorTypes, Done, monitorV
    <2>3. ChannelTypes'
      BY <1>5 DEF Types, Clean, ChannelTypes, stepRest
    <2> QED BY <1>5, <2>1, <2>2, <2>3, Stable DEF Types, Clean, stepRest, Goto
  <1>6. CASE RecoverFailed
    <2>1. WorkerTypes'
      BY <1>6 DEF Types, RecoverFailed, WorkerTypes, WorkerPcs, RevisionTypes, Goto, Done
    <2>2. MonitorTypes'
      BY <1>6 DEF Types, RecoverFailed, MonitorTypes, Done
    <2>3. FlagTypes'
      BY <1>6 DEF Types, RecoverFailed, FlagTypes, server
    <2>4. RevisionTypes'
      BY <1>6 DEF Types, RecoverFailed, RevisionTypes, server
    <2>5. HostTypes'
      BY <1>6 DEF Types, RecoverFailed, HostTypes
    <2>6. ChannelTypes'
      BY <1>6 DEF Types, RecoverFailed, ChannelTypes, stepRest
    <2> QED BY <1>6, <2>1, <2>2, <2>3, <2>4, <2>5, <2>6, Stable DEF Types, RecoverFailed, stepRest, Goto
  <1>7. CASE ScheduleRetry
    <2>1. WorkerTypes'
      BY <1>7 DEF Types, ScheduleRetry, WorkerTypes, WorkerPcs, Goto, Done
    <2>2. MonitorTypes'
      BY <1>7 DEF Types, ScheduleRetry, MonitorTypes, Done
    <2>3. ChannelTypes'
      BY <1>7 DEF Types, ScheduleRetry, ChannelTypes, WorkerTypes
    <2> QED BY <1>7, <2>1, <2>2, <2>3, Stable DEF Types, ScheduleRetry, stepRest, Goto
  <1> QED BY <1>1, <1>2, <1>3, <1>4, <1>5, <1>6, <1>7 DEF Rebuild

\* Every step of every task keeps the types of the fields and channels.
LEMMA TypesStep == Types /\ [Next]_vars => Types'
  <1>1. Types /\ Worker => Types'
    BY TakeType, ApplyType, BuildType, PublishType, StopType, RebuildType DEF Worker
  <1>2. Types /\ UNCHANGED vars => Types'
    BY Stable DEF vars, Types, ChannelTypes
  <1> QED BY HostType, ForwardType, UrgentType, EnvironmentType, <1>1, <1>2 DEF Next, Environment

\* The control plane is well typed: every field of ServerState and every command
\* in a channel keeps its type, for any number of clicks, failures and resizes.
THEOREM TypeCorrect == Spec => []TypeOK
  BY TypesInit, TypesStep, TypesIsTypeOK, PTL DEF Spec

(***************************************************************************)
(* The gate and the graph behind it. GraphBehindEnabled is not inductive:  *)
(* the worker empties the slots at "teardown" and fills them from "capture" *)
(* to "ready", so the gate must be known to be closed there, and what a     *)
(* build has achieved must be remembered until "enable" opens the gate.     *)
(***************************************************************************)
ClosedPcs == {"teardown", "clean", "capture", "register", "ready", "startFailed",
              "recoverFailed", "retry"}
SettingsPcs == {"apply", "recapture", "checkEncoders", "replaceEncoders", "rollback",
                "recheckEncoders", "restoreEncoders", "applied", "rejected"}

GateInv ==
    /\ enabled => GraphBuilt
    /\ then \in {"idle", "clean", "startFailed", "recoverFailed", "retry"}
    /\ pc \in ClosedPcs => ~enabled
    /\ pc \in {"register", "ready"} => capture # "none"
    /\ pc = "ready" => primary # "none"
    /\ pc = "enable" \/ (pc = "built" /\ built) => GraphBuilt
    /\ pc \in SettingsPcs \cup {"prepare", "restart"} => command.kind # "recover"

LEMMA GateInit == Init => GateInv
  BY DEF Init, GateInv, ClosedPcs, SettingsPcs

gateVars == <<enabled, capture, primary, then, pc, built, command>>

LEMMA GateStable == GateInv /\ UNCHANGED gateVars => GateInv'
  BY DEF GateInv, gateVars, GraphBuilt

\* What the tasks other than the worker do to the gate and the slots.
LEMMA GateOthers ==
    GateInv /\ (Host \/ Forward \/ Urgent \/ Environment) => GateInv'
  <1> USE DEF gateVars, server, media, workerV
  <1>1. Host => UNCHANGED gateVars
    BY DEF Host, ClickStart, ClickStop, Click, SendCommand, TakeReply, AckTimeout,
       UpdateSettings
  <1>2. Forward => UNCHANGED gateVars
    BY DEF Forward
  <1>3. UrgentTake \/ UrgentRevise \/ UrgentFinalize => UNCHANGED gateVars
    BY DEF UrgentTake, UrgentRevise, UrgentFinalize, urgentRest
  <1>4. GateInv /\ UrgentDisable => GateInv'
    BY DEF GateInv, GraphBuilt, UrgentDisable, CloseGate, urgentRest
  <1>5. GateInv /\ UrgentSignal => GateInv'
    BY DEF GateInv, GraphBuilt, UrgentSignal, SignalGraph, urgentRest
  <1>6. MonitorCheck \/ MonitorClaim \/ ObserveResize \/ RetryTimer => UNCHANGED gateVars
    BY DEF MonitorCheck, MonitorClaim, ObserveResize, RetryTimer
  <1>7. GateInv /\ ComponentFails => GateInv'
    BY DEF GateInv, GraphBuilt, ComponentFails
  <1> QED BY <1>1, <1>2, <1>3, <1>4, <1>5, <1>6, <1>7, GateStable DEF Urgent, Environment

LEMMA GateTake == GateInv /\ TakeCommand => GateInv'
  <1> SUFFICES ASSUME GateInv, TakeCommand PROVE GateInv'
    OBVIOUS
  <1> USE DEF GateInv, GraphBuilt, ClosedPcs, SettingsPcs
  <1>1. CASE TakeStart
    BY <1>1 DEF TakeStart, Take, server, media
  <1>2. CASE TakeFinalize
    BY <1>2 DEF TakeFinalize, Take, server, media
  <1>3. CASE TakeUpdate
    BY <1>3 DEF TakeUpdate, Take, server, media
  <1>4. CASE TakeRecover
    BY <1>4 DEF TakeRecover, Take, server, media
  <1>5. CASE TakeRefresh
    BY <1>5 DEF TakeRefresh, Take, server, media
  <1>6. CASE TakeRetry
    BY <1>6 DEF TakeRetry, Take, server, media
  <1> QED BY <1>1, <1>2, <1>3, <1>4, <1>5, <1>6 DEF TakeCommand

LEMMA GateApply == GateInv /\ Apply => GateInv'
  <1> SUFFICES ASSUME GateInv, Apply PROVE GateInv'
    OBVIOUS
  <1> USE DEF GateInv, GraphBuilt, ClosedPcs, SettingsPcs
  <1>1. CASE ApplySettings
    BY <1>1 DEF ApplySettings, server, media
  <1>2. CASE Recapture
    BY <1>2 DEF Recapture, Goto, server, media, RestartCapture
  <1>3. CASE CheckEncoders
    BY <1>3 DEF CheckEncoders, Goto, server, media, EncoderFailure
  <1>4. CASE ReplaceEncoders
    BY <1>4 DEF ReplaceEncoders, Goto, server, media, EncoderFailure
  <1>5. CASE Applied
    BY <1>5 DEF Applied, Goto, server, media
  <1>6. CASE Rejected
    BY <1>6 DEF Rejected, Goto, server, media
  <1> QED BY <1>1, <1>2, <1>3, <1>4, <1>5, <1>6 DEF Apply

LEMMA GateBuild == GateInv /\ Build => GateInv'
  <1> SUFFICES ASSUME GateInv, Build PROVE GateInv'
    OBVIOUS
  <1> USE DEF GateInv, GraphBuilt, ClosedPcs, SettingsPcs
  <1>1. CASE BuildCapture
    BY <1>1 DEF BuildCapture, server, media
  <1>2. CASE RegisterPrimary
    BY <1>2 DEF RegisterPrimary, Goto, server, media
  <1>3. CASE AwaitPrimary
    BY <1>3 DEF AwaitPrimary, server, media
  <1>4. CASE Built
    BY <1>4 DEF Built, Goto, server, media, TeardownThen, Done
  <1> QED BY <1>1, <1>2, <1>3, <1>4 DEF Build

LEMMA GatePublish == GateInv /\ Publish => GateInv'
  <1> SUFFICES ASSUME GateInv, Publish PROVE GateInv'
    OBVIOUS
  <1> USE DEF GateInv, GraphBuilt, ClosedPcs, SettingsPcs
  <1>1. CASE Enable
    BY <1>1 DEF Enable, Goto, server, media
  <1>2. CASE Recheck
    BY <1>2 DEF Recheck, Goto, server, media, TeardownThen
  <1>3. CASE NumberSession
    BY <1>3 DEF NumberSession, Goto, server, media, Done
  <1>4. CASE Activate
    BY <1>4 DEF Activate, Goto, server, media
  <1>5. CASE Confirm
    BY <1>5 DEF Confirm, Goto, server, media, TeardownThen, Done
  <1> QED BY <1>1, <1>2, <1>3, <1>4, <1>5 DEF Publish

LEMMA GateStop == GateInv /\ StopResources => GateInv'
  <1> SUFFICES ASSUME GateInv, StopResources PROVE GateInv'
    OBVIOUS
  <1> USE DEF GateInv, GraphBuilt, ClosedPcs, SettingsPcs
  <1>1. CASE StopRequested
    BY <1>1 DEF StopRequested, Goto, server, media, CloseGate
  <1>2. CASE TornDown
    BY <1>2 DEF TornDown, Goto, server, media, DetachGraph, Done
  <1>3. CASE StartFailed
    BY <1>3 DEF StartFailed, Goto, server, media
  <1> QED BY <1>1, <1>2, <1>3 DEF StopResources

LEMMA GateRebuild == GateInv /\ Rebuild => GateInv'
  <1> SUFFICES ASSUME GateInv, Rebuild PROVE GateInv'
    OBVIOUS
  <1> USE DEF GateInv, GraphBuilt, ClosedPcs, SettingsPcs
  <1>1. CASE RecoverLoad
    BY <1>1 DEF RecoverLoad, server, media
  <1>2. CASE Prepare
    BY <1>2 DEF Prepare, Goto, server, media
  <1>3. CASE Restart
    BY <1>3 DEF Restart, Goto, server, media
  <1>4. CASE Reset
    BY <1>4 DEF Reset, Goto, server, media, TeardownThen
  <1>5. CASE Clean
    BY <1>5 DEF Clean, Goto, server, media, Done
  <1>6. CASE RecoverFailed
    BY <1>6 DEF RecoverFailed, Goto, server, media, Done
  <1>7. CASE ScheduleRetry
    BY <1>7 DEF ScheduleRetry, Goto, server, media, Done
  <1> QED BY <1>1, <1>2, <1>3, <1>4, <1>5, <1>6, <1>7 DEF Rebuild

LEMMA GateStep == GateInv /\ [Next]_vars => GateInv'
  <1>1. GateInv /\ Worker => GateInv'
    BY GateTake, GateApply, GateBuild, GatePublish, GateStop, GateRebuild DEF Worker
  <1>2. GateInv /\ UNCHANGED vars => GateInv'
    BY GateStable DEF vars, gateVars, server, media, workerV
  <1> QED BY GateOthers, <1>1, <1>2 DEF Next, Environment

\* Whatever Stop, recovery, resize and update do, and in whatever order, the gate
\* stream_enabled is only open in front of a capture slot and a primary group
\* that are occupied.
THEOREM GateGuardsGraph == Spec => []GraphBehindEnabled
  <1>1. GateInv => GraphBehindEnabled
    BY DEF GateInv, GraphBuilt, GraphBehindEnabled
  <1> QED BY GateInit, GateStep, <1>1, PTL DEF Spec

(***************************************************************************)
(* A superseded recovery. GateInv says where the worker has the gate closed *)
(* when it gives a recovery up; the other ways to end one have just looked  *)
(* at the revision.                                                        *)
(***************************************************************************)
\* The step that ends a recovery the host has overtaken.
GivenUp == pc \notin {"idle", "recoverLoad"} /\ pc' = "idle" /\ ByMonitor /\ Superseded

LEMMA OthersKeepPc == Host \/ Forward \/ Urgent \/ Environment \/ UNCHANGED vars => pc' = pc
  <1> USE DEF workerV
  <1>1. Host => pc' = pc
    BY DEF Host, ClickStart, ClickStop, Click, SendCommand, TakeReply, AckTimeout,
       UpdateSettings
  <1>2. Forward => pc' = pc
    BY DEF Forward
  <1>3. Urgent => pc' = pc
    BY DEF Urgent, UrgentTake, UrgentRevise, UrgentDisable, UrgentSignal, UrgentFinalize,
       urgentRest
  <1>4. Environment => pc' = pc
    BY DEF Environment, MonitorCheck, MonitorClaim, ObserveResize, RetryTimer, ComponentFails
  <1>5. UNCHANGED vars => pc' = pc
    BY DEF vars
  <1> QED BY <1>1, <1>2, <1>3, <1>4, <1>5

LEMMA RecoveryClosed == GateInv /\ Worker /\ GivenUp => ~enabled'
  <1> SUFFICES ASSUME GateInv, Worker, GivenUp PROVE ~enabled'
    OBVIOUS
  <1> USE DEF GivenUp, ByMonitor, ByHost, ByObserver, server
  <1>1. CASE TakeCommand
    BY <1>1 DEF TakeCommand, Take, TakeStart, TakeFinalize, TakeUpdate, TakeRecover,
       TakeRefresh, TakeRetry
  <1>2. CASE Apply
    <2>1. pc \in SettingsPcs
      BY <1>2 DEF Apply, ApplySettings, Recapture, CheckEncoders, ReplaceEncoders, Applied,
         Rejected, SettingsPcs
    <2> QED BY <2>1 DEF GateInv
  <1>3. CASE Build
    BY <1>3 DEF Build, BuildCapture, RegisterPrimary, AwaitPrimary, Built, Goto,
       TeardownThen, Done
  <1>4. CASE Publish
    BY <1>4 DEF Publish, Enable, Recheck, NumberSession, Activate, Confirm, Goto,
       TeardownThen, Done
  <1>5. CASE StopResources
    BY <1>5 DEF StopResources, StopRequested, TornDown, StartFailed, Goto, GateInv, ClosedPcs
  <1>6. CASE Rebuild
    BY <1>6 DEF Rebuild, RecoverLoad, Prepare, Restart, Reset, Clean, RecoverFailed,
       ScheduleRetry, Goto, TeardownThen, Done, GateInv, ClosedPcs, SettingsPcs
  <1> QED BY <1>1, <1>2, <1>3, <1>4, <1>5, <1>6 DEF Worker

\* A RecoverStream that a Stop or a Start has overtaken never leaves the gate open
\* when it ends, wherever in its teardown, build or publication it was overtaken.
THEOREM OvertakenRecovery == Spec => SupersededRecoveryStaysClosed
  <1>1. GateInv /\ [Next]_vars
          => [pc \notin {"idle", "recoverLoad"} /\ pc' = "idle" /\ ByMonitor /\ Superseded
                => ~enabled']_vars
    BY OthersKeepPc, RecoveryClosed DEF Next, Environment, GivenUp
  <1> QED BY GateInit, GateStep, <1>1, PTL DEF Spec, SupersededRecoveryStaysClosed

(***************************************************************************)
(* The promise to those who watch. What was shown last is the graph and the *)
(* session of an open gate. While the worker replaces encoders the capture   *)
(* slot stays occupied, and without a capture there is no pipeline: a graph  *)
(* is begun in front of empty slots.                                        *)
(***************************************************************************)
OwnInv ==
    /\ capture = "none" => primary = "none"
    /\ pc \in {"replaceEncoders", "restoreEncoders"} => capture # "none"

ShownInv == enabled => shown = [session |-> sessionRevision, graph |-> graph]

PromiseInv == Types /\ GateInv /\ OwnInv /\ ShownInv

LEMMA OwnStep ==
    ASSUME GateInv, OwnInv, [Next]_vars
    PROVE  OwnInv'
  <1> USE DEF OwnInv, GateInv, server, media, workerV, Goto, TeardownThen, Done
  <1>1. CASE Host \/ Forward \/ MonitorCheck \/ MonitorClaim \/ ObserveResize \/ RetryTimer \/ UNCHANGED vars
    <2>1. UNCHANGED <<capture, primary, pc>>
      BY <1>1 DEF Host, ClickStart, ClickStop, Click, SendCommand, TakeReply, AckTimeout, UpdateSettings,
                  Forward, MonitorCheck, MonitorClaim, ObserveResize, RetryTimer, vars
    <2> QED BY <2>1
  <1>2. CASE Urgent
    BY <1>2 DEF Urgent, UrgentTake, UrgentRevise, UrgentDisable, UrgentSignal, UrgentFinalize, SignalGraph,
                urgentRest
  <1>3. CASE ComponentFails
    BY <1>3 DEF ComponentFails
  <1>4. CASE TakeCommand
    BY <1>4 DEF TakeCommand, TakeStart, TakeFinalize, TakeUpdate, TakeRecover, TakeRefresh, TakeRetry
  <1>5. CASE Apply
    BY <1>5 DEF Apply, ApplySettings, Recapture, RestartCapture, CheckEncoders, EncoderFailure, ReplaceEncoders,
                Applied, Rejected
  <1>6. CASE Build
    BY <1>6 DEF Build, BuildCapture, RegisterPrimary, AwaitPrimary, Built, ClosedPcs
  <1>7. CASE Publish
    BY <1>7 DEF Publish, Enable, Recheck, NumberSession, Activate, Confirm, GraphBuilt
  <1>8. CASE StopResources
    BY <1>8 DEF StopResources, StopRequested, TornDown, StartFailed, DetachGraph
  <1>9. CASE Rebuild
    BY <1>9 DEF Rebuild, RecoverLoad, Prepare, Restart, Reset, Clean, RecoverFailed, ScheduleRetry
  <1> QED BY <1>1, <1>2, <1>3, <1>4, <1>5, <1>6, <1>7, <1>8, <1>9 DEF Next, Worker

\* A step as those who watch see it.
Watched == ShownInv' /\ (Promise!Next \/ UNCHANGED Promise!vars)

shownVars == <<enabled, sessionRevision, graph, shown>>
slots == <<capture, primary>>

\* The five things a step can do to the gate, the graph and its number.
LEMMA PromiseMoves ==
    ASSUME PromiseInv, GateInv',
           \/ UNCHANGED shownVars
           \/ UNCHANGED <<shown, graph, slots>> /\ enabled /\ enabled' = FALSE /\ sessionRevision' = sessionRevision + 1
           \/ UNCHANGED <<shown, graph, enabled, slots>> /\ ~enabled /\ sessionRevision' = sessionRevision + 1
           \/ /\ UNCHANGED <<shown, sessionRevision, enabled>> /\ ~enabled /\ graph' = graph + 1
              /\ ~GraphBuilt /\ ~GraphBuilt'
           \/ /\ Show /\ enabled' /\ UNCHANGED <<graph, slots>>
              /\ \/ sessionRevision' = sessionRevision
                 \/ enabled /\ sessionRevision' = sessionRevision + 1
    PROVE  Watched
  <1> USE DEF Promise!Next, Promise!vars, ShownInv, Watched
  <1>0. /\ enabled \in BOOLEAN /\ (enabled => GraphBuilt) /\ (enabled' => GraphBuilt')
        /\ GraphBuilt \in BOOLEAN /\ GraphBuilt' \in BOOLEAN
        /\ UNCHANGED slots => GraphBuilt' = GraphBuilt
    BY DEF PromiseInv, Types, FlagTypes, GateInv, GraphBuilt, slots
  <1>1. ShownInv
    BY DEF PromiseInv
  <1>2. CASE UNCHANGED shownVars
    BY <1>0, <1>1, <1>2 DEF shownVars, Promise!Complete, Promise!Discard
  <1>3. CASE UNCHANGED <<shown, graph, slots>> /\ enabled /\ enabled' = FALSE /\ sessionRevision' = sessionRevision + 1
    BY <1>0, <1>3 DEF Promise!Close
  <1>4. CASE UNCHANGED <<shown, graph, enabled, slots>> /\ ~enabled /\ sessionRevision' = sessionRevision + 1
    BY <1>0, <1>4 DEF Promise!Renumber
  <1>5. CASE /\ UNCHANGED <<shown, sessionRevision, enabled>> /\ ~enabled /\ graph' = graph + 1
             /\ ~GraphBuilt /\ ~GraphBuilt'
    BY <1>0, <1>5 DEF Promise!Begin
  <1>6. CASE /\ Show /\ enabled' /\ UNCHANGED <<graph, slots>>
             /\ \/ sessionRevision' = sessionRevision
                \/ enabled /\ sessionRevision' = sessionRevision + 1
    <2>1. shown' = [session |-> sessionRevision', graph |-> graph] /\ ShownInv'
      BY <1>6 DEF Show
    <2>2. CASE enabled /\ sessionRevision' = sessionRevision
      BY <1>0, <1>1, <1>6, <2>1, <2>2
    <2>3. CASE enabled /\ sessionRevision' = sessionRevision + 1
      BY <1>0, <1>6, <2>1, <2>3 DEF Promise!Renumber
    <2>4. CASE ~enabled
      BY <1>0, <1>6, <2>1, <2>4 DEF Promise!Open
    <2> QED BY <1>6, <2>2, <2>3, <2>4
  <1> QED BY <1>2, <1>3, <1>4, <1>5, <1>6

LEMMA PromiseStep ==
    ASSUME PromiseInv, [Next]_vars
    PROVE  Watched
  <1> USE DEF server, media, history, quiet, stepRest, workerRest, urgentRest, shownVars, slots
  <1>0. GateInv' /\ enabled \in BOOLEAN
    BY GateStep DEF PromiseInv, Types, FlagTypes
  <1>1. CASE Host \/ Forward \/ MonitorCheck \/ MonitorClaim \/ ObserveResize \/ RetryTimer \/ ComponentFails
    <2>1. UNCHANGED shownVars
      BY <1>1 DEF Host, ClickStart, ClickStop, Click, SendCommand, TakeReply, AckTimeout, UpdateSettings,
                  Forward, MonitorCheck, MonitorClaim, ObserveResize, RetryTimer, ComponentFails
    <2> QED BY <2>1, <1>0, PromiseMoves
  <1>2. CASE Urgent
    <2>1. \/ UNCHANGED shownVars
          \/ UNCHANGED <<shown, graph, slots>> /\ enabled /\ enabled' = FALSE /\ sessionRevision' = sessionRevision + 1
      BY <1>0, <1>2 DEF Urgent, UrgentTake, UrgentRevise, UrgentDisable, UrgentSignal, UrgentFinalize, CloseGate
    <2> QED BY <2>1, <1>0, PromiseMoves
  <1>3. CASE TakeCommand
    <2>1. UNCHANGED shownVars
      BY <1>3 DEF TakeCommand, TakeStart, TakeFinalize, TakeUpdate, TakeRecover, TakeRefresh, TakeRetry
    <2> QED BY <2>1, <1>0, PromiseMoves
  <1>4. CASE Apply
    <2>1. ApplySettings \/ Recapture \/ CheckEncoders \/ ReplaceEncoders \/ Rejected => UNCHANGED shownVars
      BY DEF ApplySettings, Recapture, CheckEncoders, ReplaceEncoders, Rejected
    <2>2. Applied /\ ~enabled =>
            \/ UNCHANGED shownVars
            \/ UNCHANGED <<shown, graph, enabled, slots>> /\ sessionRevision' = sessionRevision + 1
      BY DEF Applied
    <2>3. Applied /\ enabled =>
            \/ UNCHANGED shownVars
            \/ Show /\ enabled' /\ UNCHANGED <<graph, slots>> /\ sessionRevision' = sessionRevision + 1
      BY DEF Applied
    <2> QED BY <1>4, <2>1, <2>2, <2>3, <1>0, PromiseMoves DEF Apply
  <1>5. CASE Build
    <2>1. RegisterPrimary \/ AwaitPrimary \/ Built => UNCHANGED shownVars
      BY DEF RegisterPrimary, AwaitPrimary, Built
    <2>2. BuildCapture =>
            \/ UNCHANGED shownVars
            \/ /\ UNCHANGED <<shown, sessionRevision, enabled>> /\ ~enabled /\ graph' = graph + 1
               /\ ~GraphBuilt /\ ~GraphBuilt'
      BY DEF BuildCapture, PromiseInv, GateInv, OwnInv, ClosedPcs, GraphBuilt
    <2> QED BY <1>5, <2>1, <2>2, <1>0, PromiseMoves DEF Build
  <1>6. CASE Publish
    <2>1. Recheck \/ Activate \/ Confirm => UNCHANGED shownVars
      BY DEF Recheck, Activate, Confirm
    <2>2. Enable => Show /\ enabled' /\ UNCHANGED <<graph, slots>> /\ sessionRevision' = sessionRevision
      BY DEF Enable
    <2>3. NumberSession /\ ~enabled =>
            UNCHANGED <<shown, graph, enabled, slots>> /\ sessionRevision' = sessionRevision + 1
      BY DEF NumberSession
    <2>4. NumberSession /\ enabled =>
            Show /\ enabled' /\ UNCHANGED <<graph, slots>> /\ sessionRevision' = sessionRevision + 1
      BY DEF NumberSession
    <2> QED BY <1>6, <2>1, <2>2, <2>3, <2>4, <1>0, PromiseMoves DEF Publish
  <1>7. CASE StopResources
    <2>1. \/ UNCHANGED shownVars
          \/ UNCHANGED <<shown, graph, slots>> /\ enabled /\ enabled' = FALSE /\ sessionRevision' = sessionRevision + 1
      BY <1>0, <1>7 DEF StopResources, StopRequested, TornDown, StartFailed, CloseGate
    <2> QED BY <2>1, <1>0, PromiseMoves
  <1>8. CASE Rebuild
    <2>1. RecoverLoad \/ Prepare \/ Restart \/ Reset \/ Clean \/ ScheduleRetry => UNCHANGED shownVars
      BY DEF RecoverLoad, Prepare, Restart, Reset, Clean, ScheduleRetry
    <2>2. RecoverFailed =>
            \/ UNCHANGED shownVars
            \/ UNCHANGED <<shown, graph, enabled, slots>> /\ ~enabled /\ sessionRevision' = sessionRevision + 1
      BY <1>0 DEF RecoverFailed, PromiseInv, GateInv, ClosedPcs
    <2> QED BY <1>8, <2>1, <2>2, <1>0, PromiseMoves DEF Rebuild
  <1>9. CASE UNCHANGED vars
    <2>1. UNCHANGED shownVars
      BY <1>9 DEF vars
    <2> QED BY <2>1, <1>0, PromiseMoves
  <1> QED BY <1>1, <1>2, <1>3, <1>4, <1>5, <1>6, <1>7, <1>8, <1>9 DEF Next, Worker

LEMMA PromiseInit == Init => PromiseInv /\ Promise!Init
  <1> SUFFICES ASSUME Init PROVE PromiseInv /\ Promise!Init
    OBVIOUS
  <1>1. OwnInv /\ ShownInv /\ Promise!Init
    BY DEF Init, OwnInv, ShownInv, Promise!Init, GraphBuilt
  <1> QED BY <1>1, TypesInit, GateInit DEF PromiseInv

\* The tasks of the control plane together do nothing but what Stream promises: none of
\* the worker, the urgent stop, the monitor and the observer opens the gate early, builds
\* behind an open one or closes it without a number.
THEOREM KeepsPromise == Spec => ImplementsStream
  <1>1. PromiseInv /\ [Next]_vars => PromiseInv'
    BY TypesStep, GateStep, OwnStep, PromiseStep DEF PromiseInv, Watched
  <1>2. PromiseInv /\ [Next]_vars => [Promise!Next]_(Promise!vars)
    BY PromiseStep DEF Watched
  <1> QED BY <1>1, <1>2, PromiseInit, PTL DEF Spec, ImplementsStream, Promise!Spec

\* Why the promise is enough: whoever was admitted last still has the current graph, or
\* the number it was admitted under is spent.
Spent ==
    /\ sessionRevision \in Nat /\ graph \in Nat /\ shown \in [session : Nat, graph : Nat]
    /\ shown.session <= sessionRevision
    /\ enabled => shown.graph = graph
    /\ ~enabled /\ shown.graph # 0 => shown.session < sessionRevision

LEMMA SpentStep ==
    ASSUME Spent, Promise!Next \/ UNCHANGED Promise!vars
    PROVE  /\ Spent'
           /\ shown.graph \notin {0, shown'.graph} => shown'.session > shown.session
  <1> USE DEF Spent
  <1>1. shown.session \in Nat /\ shown.graph \in Nat
    OBVIOUS
  <1>2. CASE Promise!Open \/ (Promise!Renumber /\ enabled)
    <2>1. /\ shown' = [session |-> sessionRevision', graph |-> graph] /\ enabled' /\ graph' = graph
          /\ sessionRevision' = sessionRevision \/ sessionRevision' = sessionRevision + 1
      BY <1>2 DEF Promise!Open, Promise!Renumber
    <2>2. shown'.session = sessionRevision' /\ shown'.graph = graph /\ sessionRevision' \in Nat
      BY <2>1
    <2>3. Spent'
      BY <2>1, <2>2
    <2>4. CASE Promise!Open
      BY <1>1, <2>2, <2>4 DEF Promise!Open
    <2>5. CASE Promise!Renumber /\ enabled
      BY <1>1, <2>2, <2>5 DEF Promise!Renumber
    <2> QED BY <1>2, <2>3, <2>4, <2>5
  <1>3. CASE Promise!Begin \/ Promise!Complete \/ Promise!Discard
    BY <1>1, <1>3 DEF Promise!Begin, Promise!Complete, Promise!Discard
  <1>4. CASE Promise!Close \/ (Promise!Renumber /\ ~enabled)
    BY <1>1, <1>4 DEF Promise!Close, Promise!Renumber
  <1>5. CASE UNCHANGED Promise!vars
    BY <1>1, <1>5 DEF Promise!vars
  <1> QED BY <1>2, <1>3, <1>4, <1>5 DEF Promise!Next

\* Two graphs are never visible under one media_session_revision, for any stream that
\* keeps the promise.
THEOREM PromiseNumbersGraphs == Promise!Spec => Promise!RevisionSeparatesGraphs
  <1>1. Promise!Init => Spent
    BY DEF Promise!Init, Spent
  <1>2. Spent /\ [Promise!Next]_(Promise!vars)
          => /\ Spent'
             /\ [shown.graph \notin {0, shown'.graph} => shown'.session > shown.session]_(Promise!vars)
    BY SpentStep
  <1> QED BY <1>1, <1>2, PTL DEF Promise!Spec, Promise!RevisionSeparatesGraphs

\* And so for the control plane: closing the gate numbers the session that ends, and only
\* behind a closed gate is a graph replaced.
THEOREM GraphsAreNumbered == Spec => Promise!RevisionSeparatesGraphs
  BY KeepsPromise, PromiseNumbersGraphs, PTL DEF ImplementsStream

(***************************************************************************)
(* The channels: what sending and taking a command changes.                *)
(***************************************************************************)
\* The places of the commands of one kind in a channel, and their numbers.
Inside(q, kind) == {i \in DOMAIN q : q[i].kind = kind}
Numbers(q, kind) == {n \in Nat : \E i \in DOMAIN q : q[i].kind = kind /\ q[i].n = n}

LEMMA Sent ==
    ASSUME NEW q \in Seq(ServerCommand), NEW c \in ServerCommand
    PROVE  /\ DOMAIN Append(q, c) = 1 .. Len(q) + 1 /\ DOMAIN q = 1 .. Len(q) /\ Len(q) \in Nat
           /\ \A i \in DOMAIN q : Append(q, c)[i] = q[i] /\ q[i] \in ServerCommand
           /\ Append(q, c)[Len(q) + 1] = c
           /\ \A kind \in Kinds : c.kind # kind => Inside(Append(q, c), kind) = Inside(q, kind)
           /\ \A kind \in Kinds : c.kind = kind =>
                Inside(Append(q, c), kind) = Inside(q, kind) \cup {Len(q) + 1}
           /\ \A kind \in Kinds : Numbers(Append(q, c), kind)
                = Numbers(q, kind) \cup (IF c.kind = kind THEN {c.n} ELSE {})
  <1>1. /\ DOMAIN Append(q, c) = 1 .. Len(q) + 1 /\ DOMAIN q = 1 .. Len(q) /\ Len(q) \in Nat
        /\ \A i \in DOMAIN q : Append(q, c)[i] = q[i] /\ q[i] \in ServerCommand
        /\ Append(q, c)[Len(q) + 1] = c
    OBVIOUS
  <1>2. DOMAIN Append(q, c) = DOMAIN q \cup {Len(q) + 1} /\ Len(q) + 1 \notin DOMAIN q
    BY <1>1
  <1>3. \A kind \in Kinds : /\ c.kind # kind => Inside(Append(q, c), kind) = Inside(q, kind)
                            /\ c.kind = kind =>
                                 Inside(Append(q, c), kind) = Inside(q, kind) \cup {Len(q) + 1}
    BY <1>1, <1>2 DEF Inside
  <1>4. ASSUME NEW kind \in Kinds
        PROVE  Numbers(Append(q, c), kind) = Numbers(q, kind) \cup (IF c.kind = kind THEN {c.n} ELSE {})
    BY <1>1, <1>2, CommandFields DEF Numbers
  <1> QED BY <1>1, <1>3, <1>4

LEMMA SentOther ==
    ASSUME NEW q \in Seq(ServerCommand), NEW c \in ServerCommand, NEW kind \in Kinds, c.kind # kind
    PROVE  /\ Numbers(Append(q, c), kind) = Numbers(q, kind)
           /\ Inside(Append(q, c), kind) = Inside(q, kind)
  <1>1. Numbers(Append(q, c), kind) = Numbers(q, kind) \cup (IF c.kind = kind THEN {c.n} ELSE {})
    BY Sent
  <1>2. Inside(Append(q, c), kind) = Inside(q, kind)
    BY Sent
  <1> QED BY <1>1, <1>2

LEMMA SentSame ==
    ASSUME NEW q \in Seq(ServerCommand), NEW c \in ServerCommand, c.kind \in Kinds
    PROVE  /\ Numbers(Append(q, c), c.kind) = Numbers(q, c.kind) \cup {c.n}
           /\ Inside(Append(q, c), c.kind) = Inside(q, c.kind) \cup {Len(q) + 1}
  <1>1. Numbers(Append(q, c), c.kind) = Numbers(q, c.kind) \cup (IF c.kind = c.kind THEN {c.n} ELSE {})
    BY Sent
  <1>2. Inside(Append(q, c), c.kind) = Inside(q, c.kind) \cup {Len(q) + 1}
    BY Sent
  <1> QED BY <1>1, <1>2

LEMMA Taken ==
    ASSUME NEW q \in Seq(ServerCommand), q # <<>>
    PROVE  /\ Head(q) = q[1] /\ Head(q) \in ServerCommand /\ Tail(q) \in Seq(ServerCommand)
           /\ 1 \in DOMAIN q /\ \A i \in DOMAIN q : i = 1 \/ i - 1 \in DOMAIN Tail(q)
           /\ \A i \in DOMAIN Tail(q) : /\ i + 1 \in DOMAIN q /\ i + 1 # 1 /\ i \in Nat
                                        /\ Tail(q)[i] = q[i + 1]
           /\ \A kind \in Kinds : Inside(q, kind) \subseteq {1} => Inside(Tail(q), kind) = {}
           /\ \A kind \in Kinds : \A j \in DOMAIN q : Inside(q, kind) = {j} /\ j # 1 =>
                Inside(Tail(q), kind) = {j - 1}
           /\ \A kind \in Kinds : Numbers(Tail(q), kind) \subseteq Numbers(q, kind)
           /\ \A kind \in Kinds : Numbers(q, kind)
                = Numbers(Tail(q), kind) \cup (IF Head(q).kind = kind THEN {Head(q).n} ELSE {})
  <1>1. /\ Head(q) = q[1] /\ Head(q) \in ServerCommand /\ Tail(q) \in Seq(ServerCommand)
        /\ Len(q) \in Nat /\ Len(q) > 0 /\ DOMAIN q = 1 .. Len(q)
        /\ DOMAIN Tail(q) = 1 .. Len(q) - 1
        /\ \A i \in 1 .. Len(q) - 1 : Tail(q)[i] = q[i + 1]
    OBVIOUS
  <1>2. /\ 1 \in DOMAIN q /\ \A i \in DOMAIN q : i \in Nat /\ (i = 1 \/ i - 1 \in DOMAIN Tail(q))
        /\ \A i \in DOMAIN Tail(q) : /\ i + 1 \in DOMAIN q /\ i + 1 # 1 /\ i \in Nat
                                     /\ Tail(q)[i] = q[i + 1]
    BY <1>1
  <1>3. \A kind \in Kinds : Inside(q, kind) \subseteq {1} => Inside(Tail(q), kind) = {}
    BY <1>2 DEF Inside
  <1>4. ASSUME NEW kind \in Kinds, NEW j \in DOMAIN q, Inside(q, kind) = {j}, j # 1
        PROVE  Inside(Tail(q), kind) = {j - 1}
    <2>1. j - 1 \in DOMAIN Tail(q) /\ j \in Nat /\ q[j].kind = kind
      BY <1>2, <1>4 DEF Inside
    <2>2. j - 1 \in Inside(Tail(q), kind)
      <3>1. Tail(q)[j - 1] = q[(j - 1) + 1] /\ (j - 1) + 1 = j
        BY <1>2, <2>1
      <3> QED BY <2>1, <3>1 DEF Inside
    <2>3. ASSUME NEW i \in Inside(Tail(q), kind) PROVE i = j - 1
      <3>1. i \in Nat /\ i + 1 \in Inside(q, kind)
        BY <1>2, <2>3 DEF Inside
      <3> QED BY <1>4, <2>1, <3>1
    <2> QED BY <2>2, <2>3
  <1>5. ASSUME NEW kind \in Kinds
        PROVE  /\ Numbers(Tail(q), kind) \subseteq Numbers(q, kind)
               /\ Numbers(q, kind) \subseteq
                    Numbers(Tail(q), kind) \cup (IF Head(q).kind = kind THEN {Head(q).n} ELSE {})
               /\ Head(q).kind = kind => Head(q).n \in Numbers(q, kind)
    <2>1. Numbers(Tail(q), kind) \subseteq Numbers(q, kind)
      BY <1>2 DEF Numbers
    <2>2. ASSUME NEW n \in Numbers(q, kind), ~(Head(q).kind = kind /\ Head(q).n = n)
          PROVE  n \in Numbers(Tail(q), kind)
      <3>1. PICK i \in DOMAIN q : q[i].kind = kind /\ q[i].n = n /\ n \in Nat
        BY DEF Numbers
      <3>2. i - 1 \in DOMAIN Tail(q) /\ Tail(q)[i - 1] = q[i]
        BY <1>1, <1>2, <2>2, <3>1
      <3> QED BY <3>1, <3>2 DEF Numbers
    <2>3. Head(q).kind = kind => Head(q).n \in Numbers(q, kind)
      BY <1>1, <1>2, CommandFields DEF Numbers
    <2> QED BY <2>1, <2>2, <2>3
  <1> QED BY <1>1, <1>2, <1>3, <1>4, <1>5

\* What the commands are that the tasks send.
LEMMA CommandsSent ==
    /\ \A n \in Nat : /\ Cmd("finalize", n, 0) \in ServerCommand
                      /\ Cmd("finalize", n, 0).kind = "finalize" /\ Cmd("finalize", n, 0).n = n
                      /\ Cmd("start", n, 0) \in ServerCommand
                      /\ Cmd("start", n, 0).kind = "start" /\ Cmd("start", n, 0).n = n
                      /\ Cmd("stop", n, 0) \in ServerCommand
                      /\ Cmd("stop", n, 0).kind = "stop" /\ Cmd("stop", n, 0).n = n
                      /\ Cmd("retry", 0, n) \in ServerCommand
                      /\ Cmd("retry", 0, n).kind = "retry" /\ Cmd("retry", 0, n).n = 0
    /\ \A kind \in {"update", "recover", "refresh"} :
            /\ Cmd(kind, 0, 0) \in ServerCommand /\ Cmd(kind, 0, 0).kind = kind /\ Cmd(kind, 0, 0).n = 0
  <1>1. {"finalize", "start", "stop", "retry", "update", "recover", "refresh"} \subseteq Kinds
    BY DEF Kinds
  <1>2. \A kind \in Kinds, n, rev \in Nat : Cmd(kind, n, rev).kind = kind /\ Cmd(kind, n, rev).n = n
    BY DEF Cmd
  <1> QED BY <1>1, <1>2, CommandType

(***************************************************************************)
(* Who put what into the channels, and where the worker is with it.        *)
(***************************************************************************)
OriginInv ==
    /\ \A i \in DOMAIN clicks : clicks[i].kind \in {"start", "stop"}
    /\ \A i \in DOMAIN control : control[i].kind \in {"start", "stop", "update"}
    /\ pc = "startFailed" \/ (pc \in {"disable", "teardown"} /\ then = "startFailed") => ByHost
    /\ pc = "recoverLoad" => ByMonitor
    /\ command.kind = "finalize" /\ pc # "idle" => pc \in {"disable", "teardown"} /\ then = "idle"

\* What the worker does when it takes a command...
LEMMA TakeEffect ==
    ASSUME Types, TakeCommand
    PROVE  /\ pc = "idle" /\ queue # <<>> /\ command' = Head(queue) /\ queue' = Tail(queue)
           /\ UNCHANGED <<control, urgent, urgentPc, urgentStop, clicks, awaiting, reply, issued,
                          lateStops, owner, timers, enabled, media>>
           /\ command'.kind \notin {"recover"} => UNCHANGED recoveryPending
           /\ command'.kind = "recover" => recoveryPending' = enabled
                                           /\ pc' = (IF enabled THEN "recoverLoad" ELSE "idle")
           /\ command'.kind = "finalize" => pc' = "disable" /\ then' = "idle"
           /\ command'.kind \in {"start", "update"} => pc' = "apply"
           /\ pc' \in {"idle", "apply", "disable", "recoverLoad", "prepare", "restart"}
           /\ pc' = "recoverLoad" => command'.kind = "recover"
           /\ pc' = "disable" => then' = "idle"
           /\ intent' = IF command'.kind = "start" THEN "running" ELSE intent
  BY DEF TakeCommand, TakeStart, TakeFinalize, TakeUpdate, TakeRecover, TakeRefresh, TakeRetry, Take,
         workerRest, urgentV, countV, hostV, history, monitorV, server

\* ...and while it executes one.
Work == Apply \/ Build \/ Publish \/ StopResources \/ Rebuild

LEMMA WorkLeaves ==
    ASSUME Work
    PROVE  /\ pc # "idle"
           /\ UNCHANGED <<command, control, queue, urgent, urgentPc, urgentStop, clicks, awaiting, issued,
                          lateStops, intent>>
  <1> USE DEF stepRest, quiet, urgentV, countV, hostV, history, Goto, TeardownThen, Done, Answer, Failing
  <1>1. CASE Apply
    BY <1>1 DEF Apply, ApplySettings, Recapture, RestartCapture, CheckEncoders, ReplaceEncoders, Applied, Rejected
  <1>2. CASE Build
    BY <1>2 DEF Build, BuildCapture, RegisterPrimary, AwaitPrimary, Built
  <1>3. CASE Publish
    BY <1>3 DEF Publish, Enable, Recheck, NumberSession, Activate, Confirm
  <1>4. CASE StopResources
    BY <1>4 DEF StopResources, StopRequested, TornDown, StartFailed
  <1>5. CASE Rebuild
    BY <1>5 DEF Rebuild, RecoverLoad, Prepare, Restart, Reset, Clean, RecoverFailed, ScheduleRetry
  <1> QED BY <1>1, <1>2, <1>3, <1>4, <1>5 DEF Work

\* Only a Start is answered by the worker, and only a Start makes a graph the host's.
LEMMA WorkAnswers ==
    ASSUME OriginInv, Work
    PROVE  /\ owner' = owner \/ (ByHost /\ owner' = command.n)
           /\ reply' = reply \/ (ByHost /\ awaiting.n = command.n)
           /\ reply' = "ok" /\ reply # "ok" => pc = "activate"
  <1> USE DEF stepRest, quiet, hostV, history, Answer
  <1>1. CASE Apply
    BY <1>1 DEF Apply, ApplySettings, Recapture, CheckEncoders, ReplaceEncoders, Applied, Rejected
  <1>2. CASE Build
    BY <1>2 DEF Build, BuildCapture, RegisterPrimary, AwaitPrimary, Built
  <1>3. CASE Publish
    BY <1>3 DEF Publish, Enable, Recheck, NumberSession, Activate, Confirm
  <1>4. CASE StopResources
    BY <1>4 DEF StopResources, StopRequested, TornDown, StartFailed, OriginInv
  <1>5. CASE Rebuild
    BY <1>5 DEF Rebuild, RecoverLoad, Prepare, Restart, Reset, Clean, RecoverFailed, ScheduleRetry
  <1> QED BY <1>1, <1>2, <1>3, <1>4, <1>5 DEF Work

\* A RecoverStream drops its pending guard when it ends, and nobody else does.
LEMMA WorkRecovers ==
    ASSUME Types, GateInv, OriginInv, Work
    PROVE  IF pc' = "idle" /\ ByMonitor THEN ~recoveryPending' ELSE UNCHANGED recoveryPending
  <1> USE DEF stepRest, quiet, monitorV, ByMonitor, ByHost, ByObserver, Goto, TeardownThen, Types, MonitorTypes
  <1>0. Done => /\ pc' = "idle"
                /\ IF ByMonitor THEN ~recoveryPending' ELSE UNCHANGED recoveryPending
    BY DEF Done
  <1>1. CASE Apply
    <2>1. pc \in SettingsPcs
      BY <1>1 DEF Apply, ApplySettings, Recapture, CheckEncoders, ReplaceEncoders, Applied, Rejected, SettingsPcs
    <2>2. ~ByMonitor
      BY <2>1 DEF GateInv
    <2> QED BY <1>1, <2>2 DEF Apply, ApplySettings, Recapture, CheckEncoders, ReplaceEncoders, Applied, Rejected
  <1>2. CASE Build
    BY <1>2, <1>0 DEF Build, BuildCapture, RegisterPrimary, AwaitPrimary, Built
  <1>3. CASE Publish
    BY <1>3, <1>0 DEF Publish, Enable, Recheck, NumberSession, Activate, Confirm
  <1>4. CASE StopResources
    BY <1>4, <1>0 DEF StopResources, StopRequested, TornDown, StartFailed, OriginInv, GateInv
  <1>5. CASE Rebuild
    <2>1. pc \in {"prepare", "restart"} => ~ByMonitor
      BY DEF GateInv
    <2> QED BY <1>5, <2>1, <1>0 DEF Rebuild, RecoverLoad, Prepare, Restart, Reset, Clean, RecoverFailed, ScheduleRetry,
                             OriginInv
  <1> QED BY <1>1, <1>2, <1>3, <1>4, <1>5 DEF Work

\* Where the worker goes.
LEMMA WorkMoves ==
    ASSUME GateInv, OriginInv, Work
    PROVE  /\ pc' # "recoverLoad"
           /\ pc' = "startFailed" => pc = "teardown" /\ then = "startFailed"
           /\ pc' \in {"disable", "teardown"} => \/ then' = then /\ pc \in {"disable", "teardown"}
                                                \/ (then' = "startFailed" => ByHost)
           /\ pc \in {"disable", "teardown"} =>
                then' = then /\ (pc' = "teardown" \/ (pc' = then /\ pc = "teardown"))
  <1> USE DEF ByHost, ByMonitor, ByObserver, Goto, TeardownThen, Done, GateInv
  <1>1. CASE Apply
    BY <1>1 DEF Apply, ApplySettings, Recapture, RestartCapture, CheckEncoders, ReplaceEncoders, Applied, Rejected,
                EncoderFailure
  <1>2. CASE Build
    BY <1>2 DEF Build, BuildCapture, RegisterPrimary, AwaitPrimary, Built
  <1>3. CASE Publish
    BY <1>3 DEF Publish, Enable, Recheck, NumberSession, Activate, Confirm
  <1>4. CASE StopResources
    <2>1. CASE StopRequested
      <3>1. pc = "disable" /\ pc' = "teardown" /\ then' = then
        BY <2>1 DEF StopRequested
      <3> QED BY <3>1
    <2>2. CASE TornDown
      <3>1. pc = "teardown" /\ pc' = then /\ then' = then
        BY <2>2 DEF TornDown
      <3> QED BY <3>1
    <2>3. CASE StartFailed
      BY <2>3 DEF StartFailed
    <2> QED BY <1>4, <2>1, <2>2, <2>3 DEF StopResources
  <1>5. CASE Rebuild
    BY <1>5 DEF Rebuild, RecoverLoad, Prepare, Restart, Reset, Clean, RecoverFailed, ScheduleRetry
  <1> QED BY <1>1, <1>2, <1>3, <1>4, <1>5 DEF Work

LEMMA OthersLeaveWorker == Host \/ Forward \/ Urgent \/ Environment \/ UNCHANGED vars =>
                             UNCHANGED <<pc, then, command>>
  <1> USE DEF workerV
  <1>1. Host => UNCHANGED <<pc, then, command>>
    BY DEF Host, ClickStart, ClickStop, Click, SendCommand, TakeReply, AckTimeout, UpdateSettings
  <1>2. Forward => UNCHANGED <<pc, then, command>>
    BY DEF Forward
  <1>3. Urgent => UNCHANGED <<pc, then, command>>
    BY DEF Urgent, UrgentTake, UrgentRevise, UrgentDisable, UrgentSignal, UrgentFinalize, urgentRest
  <1>4. Environment => UNCHANGED <<pc, then, command>>
    BY DEF Environment, MonitorCheck, MonitorClaim, ObserveResize, RetryTimer, ComponentFails
  <1> QED BY <1>1, <1>2, <1>3, <1>4 DEF vars

LEMMA OriginInit == Init => OriginInv
  BY DEF Init, OriginInv, NoCommand, Cmd

LEMMA OriginStep ==
    ASSUME Types, GateInv, OriginInv, [Next]_vars
    PROVE  OriginInv'
  <1>1. (\A i \in DOMAIN clicks : clicks[i].kind \in {"start", "stop"})'
    <2>1. CASE ClickStart \/ ClickStop
      <3>1. issued' \in Nat /\ clicks \in Seq(ServerCommand)
        BY <2>1 DEF ClickStart, ClickStop, Click, Types, CountTypes, HostTypes
      <3>2. PICK kind \in {"start", "stop"} : clicks' = Append(clicks, Cmd(kind, issued', 0))
        BY <2>1 DEF ClickStart, ClickStop, Click
      <3>3. Cmd(kind, issued', 0) \in ServerCommand /\ Cmd(kind, issued', 0).kind = kind
        BY <3>1, CommandsSent
      <3> QED BY <3>1, <3>2, <3>3, Sent DEF OriginInv
    <2>2. CASE SendCommand
      <3>1. clicks \in Seq(ServerCommand) /\ clicks # <<>> /\ clicks' = Tail(clicks)
        BY <2>2 DEF SendCommand, Types, HostTypes
      <3> QED BY <3>1, Taken DEF OriginInv
    <2>3. CASE UNCHANGED clicks
      BY <2>3 DEF OriginInv
    <2>4. TakeReply \/ AckTimeout \/ UpdateSettings \/ Forward \/ Urgent \/ Environment \/ UNCHANGED vars
            => UNCHANGED clicks
      BY DEF TakeReply, AckTimeout, UpdateSettings, Forward, Urgent, UrgentTake, UrgentRevise, UrgentDisable,
             UrgentSignal, UrgentFinalize, Environment, MonitorCheck, MonitorClaim, ObserveResize, RetryTimer,
             ComponentFails, vars, hostV, Answer
    <2>5. Worker => UNCHANGED clicks
      BY WorkLeaves, TakeEffect DEF Worker, Work
    <2> QED BY <2>1, <2>2, <2>3, <2>4, <2>5 DEF Next, Host, Environment
  <1>2. (\A i \in DOMAIN control : control[i].kind \in {"start", "stop", "update"})'
    <2>1. CASE SendCommand
      <3>1. /\ clicks \in Seq(ServerCommand) /\ clicks # <<>> /\ control \in Seq(ServerCommand)
            /\ control' = Append(control, Head(clicks))
        BY <2>1 DEF SendCommand, Types, HostTypes, ChannelTypes
      <3>2. Head(clicks) \in ServerCommand /\ Head(clicks).kind \in {"start", "stop"}
        BY <3>1, Taken DEF OriginInv
      <3> QED BY <3>1, <3>2, Sent DEF OriginInv
    <2>2. CASE UpdateSettings
      <3>1. control \in Seq(ServerCommand) /\ control' = Append(control, Cmd("update", 0, 0))
        BY <2>2 DEF UpdateSettings, Types, ChannelTypes
      <3> QED BY <3>1, CommandsSent, Sent DEF OriginInv
    <2>3. CASE Forward
      <3>1. control \in Seq(ServerCommand) /\ control # <<>> /\ control' = Tail(control)
        BY <2>3 DEF Forward, Types, ChannelTypes
      <3> QED BY <3>1, Taken DEF OriginInv
    <2>4. CASE UNCHANGED control
      BY <2>4 DEF OriginInv
    <2>5. ClickStart \/ ClickStop \/ TakeReply \/ AckTimeout \/ Urgent \/ Environment \/ UNCHANGED vars
            => UNCHANGED control
      BY DEF ClickStart, ClickStop, Click, TakeReply, AckTimeout, Urgent, UrgentTake, UrgentRevise,
             UrgentDisable, UrgentSignal, UrgentFinalize, Environment, MonitorCheck, MonitorClaim,
             ObserveResize, RetryTimer, ComponentFails, vars, urgentRest
    <2>6. Worker => UNCHANGED control
      BY WorkLeaves, TakeEffect DEF Worker, Work
    <2> QED BY <2>1, <2>2, <2>3, <2>4, <2>5, <2>6 DEF Next, Host, Environment
  <1>3. /\ pc' = "startFailed" \/ (pc' \in {"disable", "teardown"} /\ then' = "startFailed") => ByHost'
        /\ pc' = "recoverLoad" => ByMonitor'
        /\ command'.kind = "finalize" /\ pc' # "idle" => pc' \in {"disable", "teardown"} /\ then' = "idle"
    <2>1. CASE TakeCommand
      BY <2>1, TakeEffect DEF ByHost, ByMonitor
    <2>2. CASE Work
      BY <2>2, WorkLeaves, WorkMoves DEF OriginInv, ByHost, ByMonitor
    <2>3. CASE UNCHANGED <<pc, then, command>>
      BY <2>3 DEF OriginInv, ByHost, ByMonitor
    <2> QED BY <2>1, <2>2, <2>3, OthersLeaveWorker DEF Next, Environment, Worker, Work
  <1> QED BY <1>1, <1>2, <1>3 DEF OriginInv
\* What the tasks other than the worker send to the serialized queue, and when.
LEMMA QueueMoves ==
    ASSUME Types, OriginInv, Host \/ Forward \/ Urgent \/ Environment \/ UNCHANGED vars
    PROVE  \/ UNCHANGED <<queue, recoveryPending>>
           \/ \E c \in ServerCommand :
                /\ queue' = Append(queue, c)
                /\ \/ c.kind \in {"start", "update"} /\ Forward /\ UNCHANGED recoveryPending
                   \/ c.kind = "finalize" /\ urgentPc = "finalize" /\ UNCHANGED recoveryPending
                   \/ c.kind = "refresh" /\ Windows /\ UNCHANGED recoveryPending
                   \/ c.kind = "retry" /\ timers # {} /\ UNCHANGED recoveryPending
                   \/ c.kind = "recover" /\ ~recoveryPending /\ recoveryPending'
  <1>1. CASE Host
    BY <1>1 DEF Host, ClickStart, ClickStop, Click, SendCommand, TakeReply, AckTimeout, UpdateSettings, monitorV
  <1>2. CASE Forward
    <2>1. control \in Seq(ServerCommand) /\ control # <<>>
      BY <1>2 DEF Forward, Types, ChannelTypes
    <2>2. Head(control) \in ServerCommand /\ Head(control).kind \in {"start", "stop", "update"}
      BY <2>1, Taken DEF OriginInv
    <2> QED BY <1>2, <2>2 DEF Forward, monitorV
  <1>3. CASE Urgent
    <2>1. UrgentTake \/ UrgentRevise \/ UrgentDisable \/ UrgentSignal => UNCHANGED <<queue, recoveryPending>>
      BY DEF UrgentTake, UrgentRevise, UrgentDisable, UrgentSignal, urgentRest, monitorV
    <2>2. UrgentFinalize => /\ queue' = Append(queue, Cmd("finalize", urgentStop, 0))
                            /\ urgentPc = "finalize" /\ UNCHANGED recoveryPending
      BY DEF UrgentFinalize, urgentRest, monitorV
    <2>3. urgentStop \in Nat
      BY DEF Types, UrgentTypes
    <2> QED BY <1>3, <2>1, <2>2, <2>3, CommandsSent DEF Urgent
  <1>4. CASE Environment
    <2>1. MonitorCheck \/ ComponentFails => UNCHANGED <<queue, recoveryPending>>
      BY DEF MonitorCheck, ComponentFails, monitorV
    <2>2. MonitorClaim /\ recoveryPending => UNCHANGED <<queue, recoveryPending>>
      BY DEF MonitorClaim, Types, MonitorTypes
    <2>3. MonitorClaim /\ ~recoveryPending => queue' = Append(queue, Cmd("recover", 0, 0)) /\ recoveryPending'
      BY DEF MonitorClaim
    <2>4. ObserveResize => queue' = Append(queue, Cmd("refresh", 0, 0)) /\ Windows /\ UNCHANGED recoveryPending
      BY DEF ObserveResize, monitorV
    <2>5. RetryTimer => \E r \in Nat : queue' = Append(queue, Cmd("retry", 0, r)) /\ timers # {}
                                       /\ UNCHANGED recoveryPending
      BY DEF RetryTimer, monitorV, Types, ChannelTypes
    <2> QED BY <1>4, <2>1, <2>2, <2>3, <2>4, <2>5, CommandsSent DEF Environment
  <1>5. CASE UNCHANGED vars
    BY <1>5 DEF vars, monitorV
  <1> QED BY <1>1, <1>2, <1>3, <1>4, <1>5

(***************************************************************************)
(* The recovery flag. Counted without cardinalities: a set flag stands for  *)
(* the recovery the worker executes, or for the only one in the queue.      *)
(***************************************************************************)
Recovering == pc # "idle" /\ ByMonitor

FlagInv ==
    \/ recoveryPending /\ Recovering /\ Inside(queue, "recover") = {}
    \/ recoveryPending /\ ~Recovering /\ \E i \in DOMAIN queue : Inside(queue, "recover") = {i}
    \/ ~recoveryPending /\ ~Recovering /\ Inside(queue, "recover") = {}

LEMMA FlagStep ==
    ASSUME Types, GateInv, OriginInv, FlagInv, [Next]_vars
    PROVE  FlagInv'
  <1>0. queue \in Seq(ServerCommand) /\ "recover" \in Kinds /\ recoveryPending \in BOOLEAN
    BY DEF Types, ChannelTypes, MonitorTypes, Kinds
  <1>1. CASE Host \/ Forward \/ Urgent \/ Environment \/ UNCHANGED vars
    <2>1. Recovering' = Recovering
      BY <1>1, OthersLeaveWorker DEF Recovering, ByMonitor
    <2>2. CASE UNCHANGED <<queue, recoveryPending>>
      BY <2>1, <2>2 DEF FlagInv, Inside
    <2>3. ASSUME NEW c \in ServerCommand, queue' = Append(queue, c), c.kind # "recover", UNCHANGED recoveryPending
          PROVE  FlagInv'
      <3>1. Inside(queue', "recover") = Inside(queue, "recover") /\ DOMAIN queue \subseteq DOMAIN queue'
        BY <1>0, <2>3, Sent
      <3> QED BY <2>1, <2>3, <3>1 DEF FlagInv
    <2>4. ASSUME NEW c \in ServerCommand, queue' = Append(queue, c), c.kind = "recover", ~recoveryPending,
                 recoveryPending'
          PROVE  FlagInv'
      <3>1. Inside(queue', "recover") = Inside(queue, "recover") \cup {Len(queue) + 1}
        BY <1>0, <2>4, Sent
      <3>2. Len(queue) + 1 \in DOMAIN queue'
        BY <1>0, <2>4, Sent
      <3> QED BY <2>1, <2>4, <3>1, <3>2 DEF FlagInv
    <2> QED BY <1>1, <2>2, <2>3, <2>4, QueueMoves
  <1>2. CASE TakeCommand
    <2>1. /\ pc = "idle" /\ queue # <<>> /\ command' = Head(queue) /\ queue' = Tail(queue) /\ ~Recovering
          /\ Head(queue) = queue[1] /\ 1 \in DOMAIN queue
      BY <1>0, <1>2, TakeEffect, Taken DEF Recovering
    <2>2. CASE command'.kind = "recover"
      <3>1. 1 \in Inside(queue, "recover")
        BY <2>1, <2>2 DEF Inside
      <3>2. recoveryPending /\ Inside(queue, "recover") = {1}
        BY <2>1, <3>1 DEF FlagInv
      <3>3. Inside(queue', "recover") = {}
        BY <1>0, <2>1, <3>2, Taken
      <3>4. recoveryPending' = enabled /\ pc' = (IF enabled THEN "recoverLoad" ELSE "idle")
        BY <1>2, <2>2, TakeEffect
      <3> QED BY <2>2, <3>3, <3>4 DEF FlagInv, Recovering, ByMonitor
    <2>3. CASE command'.kind # "recover"
      <3>1. 1 \notin Inside(queue, "recover")
        BY <2>1, <2>3 DEF Inside
      <3>2. UNCHANGED recoveryPending /\ ~Recovering'
        BY <1>2, <2>3, TakeEffect DEF Recovering, ByMonitor
      <3>3. CASE Inside(queue, "recover") = {}
        <4>1. Inside(queue', "recover") = {}
          BY <1>0, <2>1, <3>3, Taken
        <4> QED BY <2>1, <3>2, <3>3, <4>1 DEF FlagInv
      <3>4. ASSUME NEW j \in DOMAIN queue, Inside(queue, "recover") = {j} PROVE FlagInv'
        <4>1. j # 1 /\ recoveryPending
          BY <2>1, <3>1, <3>4 DEF FlagInv
        <4>2. Inside(queue', "recover") = {j - 1} /\ j - 1 \in DOMAIN queue'
          BY <1>0, <2>1, <3>4, <4>1, Taken
        <4> QED BY <3>2, <4>1, <4>2 DEF FlagInv
      <3> QED BY <2>1, <3>3, <3>4 DEF FlagInv
    <2> QED BY <2>2, <2>3
  <1>3. CASE Work
    <2>1. pc # "idle" /\ UNCHANGED <<command, queue>>
      BY <1>3, WorkLeaves
    <2>2. IF pc' = "idle" /\ ByMonitor THEN ~recoveryPending' ELSE UNCHANGED recoveryPending
      BY <1>3, WorkRecovers
    <2> QED BY <2>1, <2>2 DEF FlagInv, Recovering, ByMonitor
  <1> QED BY <1>1, <1>2, <1>3 DEF Next, Environment, Worker, Work

\* recovery_pending is exactly "one RecoverStream is queued or being executed": the
\* compare_exchange of stream_health_monitor and the guard the command carries pair up.
THEOREM FlagIsExact == Spec => []RecoveryFlag
  <1>1. Init => FlagInv
    BY DEF Init, FlagInv, Recovering, Inside
  <1>2. FlagInv => RecoveryFlag
    <2>1. Inside(queue, "recover") = {i \in DOMAIN queue : queue[i].kind = "recover"}
      BY DEF Inside
    <2>2. Cardinality({}) = 0 /\ \A i : Cardinality({i}) = 1
      BY FS_EmptySet, FS_Singleton
    <2>3. FlagInv => /\ Cardinality(Inside(queue, "recover")) \in {0, 1}
                     /\ recoveryPending /\ Recovering => Cardinality(Inside(queue, "recover")) = 0
                     /\ recoveryPending /\ ~Recovering => Cardinality(Inside(queue, "recover")) = 1
                     /\ ~recoveryPending => ~Recovering /\ Cardinality(Inside(queue, "recover")) = 0
      BY <2>2 DEF FlagInv
    <2> QED BY <2>1, <2>3 DEF RecoveryFlag, Recovering
  <1> QED BY <1>1, <1>2, TypesInit, TypesStep, GateInit, GateStep, OriginInit, OriginStep, FlagStep, PTL DEF Spec

(***************************************************************************)
(* Stop wins, in builds without the resize machinery. From the moment a     *)
(* Stop takes its revision, the stop is under way or the stream is closed;  *)
(* the worker that finds it closed has nothing that opens it.              *)
(***************************************************************************)
NoResizing ==
    /\ \A i \in DOMAIN queue : queue[i].kind \notin {"refresh", "retry"}
    /\ timers = {} /\ ~ByObserver
    /\ pc # "retry" /\ (pc \in {"disable", "teardown"} => then # "retry")

StopUnderWay ==
    \/ urgentPc \in {"disable", "signal", "finalize"}
    \/ Inside(queue, "finalize") # {}
    \/ command.kind = "finalize" /\ pc # "idle"

Closed ==
    /\ ~enabled /\ capture = "none" /\ primary = "none" /\ ~audioActive
    /\ pc = "idle" \/ (command.kind = "update" /\ pc \in {"apply", "checkEncoders", "applied"})

StopInv == intent = "stopped" => StopUnderWay \/ Closed

LEMMA NoResizingStep ==
    ASSUME ~Windows, Types, GateInv, OriginInv, NoResizing, [Next]_vars
    PROVE  NoResizing'
  <1>0. queue \in Seq(ServerCommand)
    BY DEF Types, ChannelTypes
  <1>1. CASE Host \/ Forward \/ Urgent \/ Environment \/ UNCHANGED vars
    <2>1. UNCHANGED <<pc, then, command>>
      BY <1>1, OthersLeaveWorker
    <2>2. UNCHANGED timers
      BY <1>1 DEF Host, ClickStart, ClickStop, Click, SendCommand, TakeReply, AckTimeout, UpdateSettings,
         Forward, Urgent, UrgentTake, UrgentRevise, UrgentDisable, UrgentSignal, UrgentFinalize, urgentRest,
         Environment, MonitorCheck, MonitorClaim, ObserveResize, RetryTimer, ComponentFails, vars, NoResizing
    <2>3. \/ UNCHANGED queue
          \/ \E c \in ServerCommand : queue' = Append(queue, c) /\ c.kind \notin {"refresh", "retry"}
      BY <1>1, QueueMoves DEF NoResizing
    <2>4. \A i \in DOMAIN queue' : queue'[i].kind \notin {"refresh", "retry"}
      <3>1. ASSUME NEW c \in ServerCommand, queue' = Append(queue, c), c.kind \notin {"refresh", "retry"}
            PROVE  \A i \in DOMAIN queue' : queue'[i].kind \notin {"refresh", "retry"}
        BY <1>0, <3>1, Sent DEF NoResizing
      <3> QED BY <2>3, <3>1 DEF NoResizing
    <2> QED BY <2>1, <2>2, <2>4 DEF NoResizing, ByObserver
  <1>2. CASE TakeCommand
    <2>1. \A i \in DOMAIN queue' : queue'[i].kind \notin {"refresh", "retry"}
      BY <1>0, <1>2, TakeEffect, Taken DEF NoResizing
    <2>2. command'.kind \notin {"refresh", "retry"}
      BY <1>0, <1>2, TakeEffect, Taken DEF NoResizing
    <2> QED BY <1>2, <2>1, <2>2, TakeEffect DEF NoResizing, ByObserver
  <1>3. CASE Work
    <2>1. UNCHANGED <<queue, command>>
      BY <1>3, WorkLeaves
    <2>2. ~ScheduleRetry /\ ~ByObserver
      BY DEF ScheduleRetry, NoResizing
    <2>3. UNCHANGED timers
      BY <1>3, <2>2 DEF Work, Apply, ApplySettings, Recapture, CheckEncoders, ReplaceEncoders, Applied, Rejected,
         Build, BuildCapture, RegisterPrimary, AwaitPrimary, Built, Publish, Enable, Recheck, NumberSession,
         Activate, Confirm, StopResources, StopRequested, TornDown, StartFailed, Rebuild, RecoverLoad, Prepare,
         Restart, Reset, Clean, RecoverFailed, stepRest
    <2>4. pc' = "retry" => pc = "teardown" /\ then = "retry"
      <3> USE DEF Goto, TeardownThen, Done
      <3>1. Apply => pc' # "retry"
        BY DEF Apply, ApplySettings, Recapture, RestartCapture, CheckEncoders, ReplaceEncoders, Applied, Rejected,
               EncoderFailure
      <3>2. Build \/ Publish \/ Rebuild => pc' # "retry"
        BY DEF Build, BuildCapture, RegisterPrimary, AwaitPrimary, Built, Publish, Enable, Recheck, NumberSession,
               Activate, Confirm, Rebuild, RecoverLoad, Prepare, Restart, Reset, Clean, RecoverFailed, ScheduleRetry
      <3>3. StopResources => (pc' = "retry" => pc = "teardown" /\ then = "retry")
        BY DEF StopResources, StopRequested, TornDown, StartFailed
      <3> QED BY <1>3, <3>1, <3>2, <3>3 DEF Work
    <2>5. pc' \in {"disable", "teardown"} =>
            then' # "retry" \/ (then' = then /\ pc \in {"disable", "teardown"})
      <3> USE DEF Goto, TeardownThen, Done
      <3>1. Apply => pc' \notin {"disable", "teardown"}
        BY DEF Apply, ApplySettings, Recapture, RestartCapture, CheckEncoders, ReplaceEncoders, Applied, Rejected,
               EncoderFailure
      <3>2. Build \/ Publish \/ Rebuild => pc' \notin {"disable", "teardown"} \/ then' # "retry"
        BY <2>2 DEF Build, BuildCapture, RegisterPrimary, AwaitPrimary, Built, Publish, Enable, Recheck,
               NumberSession, Activate, Confirm, Rebuild, RecoverLoad, Prepare, Restart, Reset, Clean,
               RecoverFailed, ScheduleRetry
      <3>3. StopResources => pc' \notin {"disable", "teardown"} \/ (then' = then /\ pc \in {"disable", "teardown"})
        BY DEF StopResources, StopRequested, TornDown, StartFailed
      <3> QED BY <1>3, <3>1, <3>2, <3>3 DEF Work
    <2> QED BY <2>1, <2>3, <2>4, <2>5 DEF NoResizing, ByObserver
  <1> QED BY <1>1, <1>2, <1>3 DEF Next, Environment, Worker, Work

LEMMA StopStep ==
    ASSUME ~Windows, Types, GateInv, OriginInv, NoResizing, StopInv, [Next]_vars
    PROVE  StopInv'
  <1>0. queue \in Seq(ServerCommand) /\ "finalize" \in Kinds
    BY DEF Types, ChannelTypes, Kinds
  <1>1. ASSUME queue' = queue \/ \E c \in ServerCommand : queue' = Append(queue, c)
        PROVE  Inside(queue, "finalize") # {} => Inside(queue', "finalize") # {}
    <2>1. ASSUME NEW c \in ServerCommand
          PROVE  Inside(queue, "finalize") \subseteq Inside(Append(queue, c), "finalize")
      <3>1. CASE c.kind = "finalize"
        BY <1>0, <3>1, Sent
      <3>2. CASE c.kind # "finalize"
        BY <1>0, <3>2, Sent
      <3> QED BY <3>1, <3>2
    <2> QED BY <1>1, <2>1
  <1>2. CASE Host \/ Forward \/ Environment \/ UNCHANGED vars
    <2>1. UNCHANGED <<pc, then, command>>
      BY <1>2, OthersLeaveWorker
    <2>2. UNCHANGED <<intent, urgentPc>>
      BY <1>2 DEF Host, ClickStart, ClickStop, Click, SendCommand, TakeReply, AckTimeout, UpdateSettings,
         Forward, Environment, MonitorCheck, MonitorClaim, ObserveResize, RetryTimer, ComponentFails, vars,
         history, urgentV
    <2>3. UNCHANGED <<enabled, capture, primary, audioActive>> \/ ComponentFails
      BY <1>2 DEF Host, ClickStart, ClickStop, Click, SendCommand, TakeReply, AckTimeout, UpdateSettings,
         Forward, Environment, MonitorCheck, MonitorClaim, ObserveResize, RetryTimer, vars, server, media
    <2>4. Closed => Closed'
      BY <2>1, <2>3 DEF Closed, ComponentFails
    <2>5. StopUnderWay => StopUnderWay'
      BY <1>1, <1>2, <2>1, <2>2, QueueMoves DEF StopUnderWay
    <2> QED BY <2>2, <2>4, <2>5 DEF StopInv
  <1>3. CASE Urgent
    <2>1. UNCHANGED <<pc, then, command>>
      BY <1>3, OthersLeaveWorker
    <2>2. CASE UrgentTake
      <3>1. /\ UNCHANGED <<intent, enabled, capture, primary, audioActive, queue>>
            /\ urgentPc = "idle"
        BY <2>2 DEF UrgentTake, media, history
      <3> QED BY <2>1, <3>1 DEF StopInv, StopUnderWay, Closed
    <2>3. CASE UrgentRevise \/ UrgentDisable \/ UrgentSignal
      BY <2>3 DEF UrgentRevise, UrgentDisable, UrgentSignal, StopInv, StopUnderWay
    <2>4. CASE UrgentFinalize
      <3>1. urgentStop \in Nat /\ queue' = Append(queue, Cmd("finalize", urgentStop, 0))
        BY <2>4 DEF UrgentFinalize, Types, UrgentTypes
      <3>2. Inside(queue', "finalize") # {}
        <4> DEFINE c == Cmd("finalize", urgentStop, 0)
        <4>1. c \in ServerCommand /\ c.kind = "finalize"
          BY <3>1, CommandsSent
        <4> HIDE DEF c
        <4>2. Inside(Append(queue, c), "finalize") = Inside(queue, "finalize") \cup {Len(queue) + 1}
          BY <1>0, <4>1, Sent
        <4> QED BY <3>1, <4>2 DEF c
      <3> QED BY <3>2 DEF StopInv, StopUnderWay
    <2> QED BY <1>3, <2>2, <2>3, <2>4 DEF Urgent
  <1>4. CASE TakeCommand
    <2>1. /\ pc = "idle" /\ queue # <<>> /\ command' = Head(queue) /\ queue' = Tail(queue)
          /\ Head(queue) = queue[1] /\ Head(queue) \in ServerCommand /\ 1 \in DOMAIN queue
          /\ UNCHANGED <<urgentPc, enabled, capture, primary, audioActive>>
      BY <1>0, <1>4, TakeEffect, Taken DEF media
    <2>2. CASE command'.kind = "finalize"
      BY <1>4, <2>2, TakeEffect DEF StopInv, StopUnderWay
    <2>3. CASE command'.kind = "start"
      BY <1>4, <2>3, TakeEffect DEF StopInv
    <2>4. CASE command'.kind \in {"update", "recover"}
      <3>1. UNCHANGED intent
        BY <1>4, <2>4, TakeEffect
      <3>2. Inside(queue, "finalize") # {} => Inside(queue', "finalize") # {}
        <4>1. SUFFICES ASSUME NEW i \in DOMAIN queue, queue[i].kind = "finalize"
                       PROVE  Inside(Tail(queue), "finalize") # {}
          BY <2>1 DEF Inside
        <4>2. i # 1 /\ i \in Nat /\ i - 1 \in DOMAIN Tail(queue)
          BY <1>0, <2>1, <2>4, <4>1, Taken
        <4>3. Tail(queue)[i - 1] = queue[(i - 1) + 1] /\ (i - 1) + 1 = i
          BY <1>0, <2>1, <4>2, Taken
        <4> QED BY <4>1, <4>2, <4>3 DEF Inside
      <3>3. StopUnderWay => StopUnderWay'
        BY <2>1, <3>2 DEF StopUnderWay
      <3>4. Closed => Closed'
        <4>1. ~enabled => pc' = (IF command'.kind = "update" THEN "apply" ELSE "idle")
          BY <1>4, <2>4, TakeEffect
        <4> QED BY <2>1, <2>4, <4>1 DEF Closed
      <3> QED BY <3>1, <3>3, <3>4 DEF StopInv
    <2>5. command'.kind \in {"start", "finalize", "update", "recover"}
      <3>1. command'.kind \in {"start", "finalize", "update", "recover", "refresh", "retry"}
        BY <1>4 DEF TakeCommand, TakeStart, TakeFinalize, TakeUpdate, TakeRecover, TakeRefresh, TakeRetry, Take
      <3> QED BY <2>1, <3>1 DEF NoResizing
    <2> QED BY <2>2, <2>3, <2>4, <2>5
  <1>5. CASE Work
    <2>1. pc # "idle" /\ UNCHANGED <<intent, command, queue, urgentPc>>
      BY <1>5, WorkLeaves
    <2>2. CASE command.kind = "finalize"
      <3>1. pc \in {"disable", "teardown"} /\ then = "idle"
        BY <2>1, <2>2 DEF OriginInv
      <3>2. CASE pc' = "idle"
        <4>1. pc = "teardown" /\ TornDown
          BY <1>5, <3>1, <3>2 DEF Work, Apply, ApplySettings, Recapture, CheckEncoders, ReplaceEncoders, Applied,
             Rejected, Build, BuildCapture, RegisterPrimary, AwaitPrimary, Built, Publish, Enable, Recheck,
             NumberSession, Activate, Confirm, StopResources, StopRequested, StartFailed, TornDown, Rebuild,
             RecoverLoad, Prepare, Restart, Reset, Clean, RecoverFailed, ScheduleRetry, Goto
        <4>2. ~enabled /\ UNCHANGED enabled /\ DetachGraph
          BY <4>1 DEF GateInv, ClosedPcs, TornDown, server
        <4> QED BY <3>2, <4>2 DEF StopInv, Closed, DetachGraph
      <3>3. CASE pc' # "idle"
        BY <2>1, <2>2, <3>3 DEF StopInv, StopUnderWay
      <3> QED BY <3>2, <3>3
    <2>3. CASE command.kind # "finalize" /\ StopUnderWay
      BY <2>1, <2>3 DEF StopInv, StopUnderWay
    <2>4. CASE Closed
      <3>1. command.kind = "update" /\ pc \in {"apply", "checkEncoders", "applied"}
        BY <2>1, <2>4 DEF Closed
      <3>2. ApplySettings \/ (CheckEncoders /\ pc = "checkEncoders") \/ Applied
        BY <1>5, <3>1 DEF Work, Apply, Recapture, CheckEncoders, ReplaceEncoders, Rejected, Build, BuildCapture,
           RegisterPrimary, AwaitPrimary, Built, Publish, Enable, Recheck, NumberSession, Activate, Confirm,
           StopResources, StopRequested, StartFailed, TornDown, Rebuild, RecoverLoad, Prepare, Restart, Reset,
           Clean, RecoverFailed, ScheduleRetry
      <3>3. UNCHANGED <<enabled, capture, primary, audioActive>>
        BY <3>2 DEF ApplySettings, CheckEncoders, Applied, server, media
      <3>4. pc' \in {"idle", "checkEncoders", "applied"}
        BY <2>4, <3>1, <3>2 DEF ApplySettings, CheckEncoders, Applied, Goto, Closed
      <3> QED BY <2>1, <2>4, <3>1, <3>3, <3>4 DEF StopInv, Closed
    <2> QED BY <2>1, <2>2, <2>3, <2>4 DEF StopInv
  <1> QED BY <1>2, <1>3, <1>4, <1>5 DEF Next, Environment, Worker, Work

\* When the host's last word was Stop and everything that Stop set in motion has happened,
\* the gate is closed, both slots are empty and audio is off: no Start, update or recovery
\* that was under way brings the stream back. The builds of the resize machinery are
\* excepted, whose restart may be stamped with the revision of the Stop itself.
THEOREM StopHasTheLastWord ==
    ASSUME ~Windows
    PROVE  Spec => []StopWins
  <1>1. Init => NoResizing /\ StopInv
    BY DEF Init, NoResizing, StopInv, Closed, ByObserver, NoCommand, Cmd
  <1>2. StopInv => StopWins
    <2>1. StopSettled => urgentPc = "idle" /\ Inside(queue, "finalize") = {}
      BY DEF StopSettled, Inside
    <2> QED BY <2>1 DEF StopInv, StopWins, StopUnderWay, Closed
  <1>3. Types /\ GateInv /\ OriginInv /\ NoResizing /\ StopInv /\ [Next]_vars => NoResizing' /\ StopInv'
    BY NoResizingStep, StopStep
  <1> QED BY <1>1, <1>2, <1>3, TypesInit, TypesStep, GateInit, GateStep, OriginInit, OriginStep, PTL DEF Spec

(***************************************************************************)
(* The host's clicks on their way. A Stop overtakes everything the worker   *)
(* has before it, its deferred cleanup does not: it is queued behind the    *)
(* Starts sent before the Stop and ahead of those sent after, because the   *)
(* host waits for the acknowledgement that follows the queueing.           *)
(***************************************************************************)
Elements(q) == {n \in Nat : \E i \in DOMAIN q : q[i] = n}

\* The Starts that are sent and not forgotten, the Stops that are sent and not queued.
Starts == Numbers(control, "start") \cup Numbers(queue, "start") \cup {owner}
            \cup (IF ByHost THEN {command.n} ELSE {})
Stops == Numbers(control, "stop") \cup Elements(urgent)
            \cup (IF urgentPc = "idle" THEN {} ELSE {urgentStop})

\* Clicks are numbered in their order and sent in it.
NumberInv ==
    /\ Starts \subseteq 0 .. issued /\ Stops \subseteq 1 .. issued
    /\ \A i \in DOMAIN clicks : clicks[i].n \in 1 .. issued /\ \A m \in Starts \cup Stops : m < clicks[i].n
    /\ \A i, j \in DOMAIN clicks : i < j => clicks[i].n < clicks[j].n

\* The Stops stay in their order on both channels.
OrderInv ==
    /\ \A i, j \in Inside(control, "stop") : i < j => control[i].n < control[j].n
    /\ \A i, j \in DOMAIN urgent : i < j => urgent[i] < urgent[j]
    /\ \A a \in Elements(urgent), b \in Numbers(control, "stop") : a < b
    /\ urgentPc # "idle" => \A b \in Elements(urgent) \cup Numbers(control, "stop") : urgentStop < b

\* A Stop that is not queued is the one the host waits for, or the host has given it up.
AwaitInv ==
    \A n \in Stops \ lateStops : /\ awaiting.kind = "stop" /\ awaiting.n = n /\ reply = "none"
                                 /\ \A m \in Starts : m < n

\* The cleanup of a Stop comes after the Starts before it.
CleanupInv ==
    /\ \A n \in Numbers(queue, "finalize") \ lateStops : owner < n /\ (ByHost => command.n < n)
    /\ \A i \in Inside(queue, "finalize"), j \in Inside(queue, "start") :
            j < i /\ queue[i].n \notin lateStops => queue[j].n < queue[i].n
    /\ command.kind = "finalize" /\ command.n \notin lateStops /\ pc # "idle" => owner < command.n

\* A Start that is about to be answered has opened the gate, and no Stop is at work.
LiveInv ==
    /\ pc = "recheck" => ByMonitor
    /\ pc = "confirm" => ~ByHost
    /\ pc \in {"session", "activate"} /\ ByHost /\ lateStops = {}
         /\ awaiting.kind = "start" /\ awaiting.n = command.n => enabled

Traffic == NumberInv /\ OrderInv /\ AwaitInv /\ CleanupInv /\ LiveInv

LEMMA NumbersAreNumbers ==
    Types => /\ Starts \subseteq Nat /\ Stops \subseteq Nat /\ owner \in Starts /\ issued \in Nat /\ owner \in Nat
             /\ command.n \in Nat /\ (ByHost => command.n \in Starts)
             /\ urgentStop \in Nat /\ (urgentPc # "idle" => urgentStop \in Stops)
             /\ control \in Seq(ServerCommand) /\ queue \in Seq(ServerCommand) /\ clicks \in Seq(ServerCommand)
             /\ urgent \in Seq(Nat)
  BY CommandFields DEF Types, HistoryTypes, WorkerTypes, UrgentTypes, ChannelTypes, HostTypes, CountTypes,
     Starts, Stops, Numbers, Elements

\* A command in a channel is among the numbers of its kind.
LEMMA NumberOf ==
    ASSUME NEW q \in Seq(ServerCommand), NEW kind \in Kinds, NEW i \in Inside(q, kind)
    PROVE  q[i].n \in Numbers(q, kind) /\ q[i].n \in Nat /\ i \in DOMAIN q /\ i \in Nat
  <1>1. q[i] \in ServerCommand /\ i \in DOMAIN q /\ i \in Nat
    BY DEF Inside
  <1> QED BY <1>1, CommandFields DEF Inside, Numbers

LEMMA SentNumber ==
    ASSUME NEW q \in Seq(Nat), NEW n \in Nat
    PROVE  /\ DOMAIN q = 1 .. Len(q) /\ DOMAIN Append(q, n) = 1 .. Len(q) + 1 /\ Len(q) \in Nat
           /\ \A i \in DOMAIN q : Append(q, n)[i] = q[i] /\ q[i] \in Elements(q)
           /\ Append(q, n)[Len(q) + 1] = n
           /\ Elements(Append(q, n)) = Elements(q) \cup {n}
  <1>1. /\ DOMAIN q = 1 .. Len(q) /\ DOMAIN Append(q, n) = 1 .. Len(q) + 1 /\ Len(q) \in Nat
        /\ \A i \in DOMAIN q : Append(q, n)[i] = q[i] /\ q[i] \in Nat
        /\ Append(q, n)[Len(q) + 1] = n
    OBVIOUS
  <1>2. DOMAIN Append(q, n) = DOMAIN q \cup {Len(q) + 1}
    BY <1>1
  <1> QED BY <1>1, <1>2 DEF Elements

LEMMA TakenNumber ==
    ASSUME NEW q \in Seq(Nat), q # <<>>
    PROVE  /\ Head(q) = q[1] /\ Head(q) \in Nat /\ 1 \in DOMAIN q
           /\ \A i \in DOMAIN Tail(q) : i + 1 \in DOMAIN q /\ i \in Nat /\ i > 0 /\ Tail(q)[i] = q[i + 1]
           /\ Elements(q) = Elements(Tail(q)) \cup {Head(q)}
           /\ \A n \in Elements(Tail(q)) : \E i \in DOMAIN Tail(q) : Tail(q)[i] = n
  <1>1. /\ Head(q) = q[1] /\ Head(q) \in Nat /\ Len(q) \in Nat /\ Len(q) > 0 /\ DOMAIN q = 1 .. Len(q)
        /\ DOMAIN Tail(q) = 1 .. Len(q) - 1
        /\ \A i \in 1 .. Len(q) - 1 : Tail(q)[i] = q[i + 1]
    OBVIOUS
  <1>2. /\ 1 \in DOMAIN q
        /\ \A i \in DOMAIN Tail(q) : i + 1 \in DOMAIN q /\ i \in Nat /\ i > 0 /\ Tail(q)[i] = q[i + 1]
        /\ \A i \in DOMAIN q : i = 1 \/ (i - 1 \in DOMAIN Tail(q) /\ Tail(q)[i - 1] = q[i])
    BY <1>1, SMTT(20)
  <1>3. Elements(q) = Elements(Tail(q)) \cup {Head(q)}
    <2>1. \A n : n \in Elements(q) <=> n = Head(q) \/ n \in Elements(Tail(q))
      <3>1. ASSUME NEW n \in Elements(q) PROVE n = Head(q) \/ n \in Elements(Tail(q))
        BY <1>1, <1>2 DEF Elements
      <3>2. Head(q) \in Elements(q)
        BY <1>1, <1>2 DEF Elements
      <3>3. ASSUME NEW n \in Elements(Tail(q)) PROVE n \in Elements(q)
        BY <1>2 DEF Elements
      <3> QED BY <3>1, <3>2, <3>3
    <2> QED BY <2>1
  <1>4. \A n \in Elements(Tail(q)) : \E i \in DOMAIN Tail(q) : Tail(q)[i] = n
    BY DEF Elements
  <1> QED BY <1>1, <1>2, <1>3, <1>4

\* What keeps the parts as long as nothing is sent.
LEMMA TrafficKept ==
    ASSUME Types, Traffic, Starts' \subseteq Starts
    PROVE  /\ Stops' \subseteq Stops /\ UNCHANGED <<clicks, issued>> => NumberInv'
           /\ Stops' \subseteq Stops /\ lateStops \subseteq lateStops' /\ UNCHANGED <<awaiting, reply>> => AwaitInv'
           /\ UNCHANGED <<control, urgent, urgentPc, urgentStop>> => OrderInv' /\ Stops' = Stops
  <1>1. Stops' \subseteq Stops /\ UNCHANGED <<clicks, issued>> => NumberInv'
    BY DEF Traffic, NumberInv
  <1>2. Stops' \subseteq Stops /\ lateStops \subseteq lateStops' /\ UNCHANGED <<awaiting, reply>> => AwaitInv'
    BY DEF Traffic, AwaitInv
  <1>3. UNCHANGED <<control, urgent, urgentPc, urgentStop>> => OrderInv' /\ Stops' = Stops
    BY DEF Traffic, OrderInv, Stops
  <1> QED BY <1>1, <1>2, <1>3

LEMMA ClickTraffic ==
    ASSUME Types, Traffic, ClickStart \/ ClickStop
    PROVE  Traffic'
  <1>1. PICK kind \in {"start", "stop"} : /\ clicks' = Append(clicks, Cmd(kind, issued', 0))
                                          /\ issued' = issued + 1
    BY DEF ClickStart, ClickStop, Click
  <1>2. UNCHANGED <<control, queue, urgent, urgentPc, urgentStop, command, owner, awaiting, reply, lateStops, pc,
                    enabled>>
    BY DEF ClickStart, ClickStop, Click, urgentV, workerV, history, server
  <1>3. Starts' = Starts /\ Stops' = Stops
    BY <1>2 DEF Starts, Stops, ByHost
  <1>4. NumberInv'
    <2> DEFINE c == Cmd(kind, issued', 0)
    <2>1. c \in ServerCommand /\ c.n = issued + 1 /\ issued \in Nat
      BY <1>1, NumbersAreNumbers, CommandsSent
    <2> HIDE DEF c
    <2>2. clicks' = Append(clicks, c)
      BY <1>1 DEF c
    <2>3. /\ DOMAIN clicks' = 1 .. Len(clicks) + 1 /\ DOMAIN clicks = 1 .. Len(clicks) /\ Len(clicks) \in Nat
          /\ \A i \in DOMAIN clicks : clicks'[i] = clicks[i]
          /\ clicks'[Len(clicks) + 1] = c
      BY <2>1, <2>2, NumbersAreNumbers, Sent
    <2>4. \A i \in DOMAIN clicks' : i \in DOMAIN clicks \/ i = Len(clicks) + 1
      BY <2>3
    <2>5. Starts' \subseteq 0 .. issued' /\ Stops' \subseteq 1 .. issued'
      BY <1>1, <1>3, <2>1 DEF Traffic, NumberInv
    <2>6. ASSUME NEW i \in DOMAIN clicks'
          PROVE  clicks'[i].n \in 1 .. issued' /\ \A m \in Starts' \cup Stops' : m < clicks'[i].n
      <3>1. CASE i \in DOMAIN clicks
        BY <1>1, <1>3, <2>1, <2>3, <3>1 DEF Traffic, NumberInv
      <3>2. CASE i = Len(clicks) + 1
        BY <1>1, <1>3, <2>1, <2>3, <3>2 DEF Traffic, NumberInv
      <3> QED BY <2>4, <3>1, <3>2
    <2>7. ASSUME NEW i \in DOMAIN clicks', NEW j \in DOMAIN clicks', i < j
          PROVE  clicks'[i].n < clicks'[j].n
      <3>1. i \in DOMAIN clicks
        BY <2>3, <2>7
      <3>2. CASE j \in DOMAIN clicks
        BY <2>3, <2>7, <3>1, <3>2 DEF Traffic, NumberInv
      <3>3. CASE j = Len(clicks) + 1
        BY <2>1, <2>3, <3>1, <3>3 DEF Traffic, NumberInv
      <3> QED BY <2>4, <3>2, <3>3
    <2> QED BY <2>5, <2>6, <2>7 DEF NumberInv
  <1>5. OrderInv' /\ AwaitInv'
    BY <1>2, <1>3, TrafficKept
  <1>6. CleanupInv' /\ LiveInv'
    BY <1>2 DEF Traffic, CleanupInv, LiveInv, ByHost, ByMonitor
  <1> QED BY <1>4, <1>5, <1>6 DEF Traffic

LEMMA SendTraffic ==
    ASSUME Types, OriginInv, Traffic, SendCommand
    PROVE  Traffic'
  <1> DEFINE c == Head(clicks)
  <1>1. /\ clicks # <<>> /\ control' = Append(control, c) /\ clicks' = Tail(clicks) /\ awaiting' = c
        /\ reply' = "none" /\ awaiting = NoCommand
        /\ UNCHANGED <<queue, urgent, urgentPc, urgentStop, command, owner, lateStops, pc, enabled, issued>>
    BY DEF SendCommand, urgentV, workerV, history, server, countV
  <1>2. /\ c \in ServerCommand /\ c.kind \in {"start", "stop"} /\ c.n \in 1 .. issued /\ c = clicks[1]
        /\ \A m \in Starts \cup Stops : m < c.n
    BY <1>1, NumbersAreNumbers, Taken DEF OriginInv, Traffic, NumberInv
  <1> HIDE DEF c
  <1>3. /\ Numbers(control', "start") = Numbers(control, "start") \cup (IF c.kind = "start" THEN {c.n} ELSE {})
        /\ Numbers(control', "stop") = Numbers(control, "stop") \cup (IF c.kind = "stop" THEN {c.n} ELSE {})
    BY <1>1, <1>2, NumbersAreNumbers, Sent DEF Kinds
  <1>4. /\ Starts' = Starts \cup (IF c.kind = "start" THEN {c.n} ELSE {})
        /\ Stops' = Stops \cup (IF c.kind = "stop" THEN {c.n} ELSE {})
    BY <1>1, <1>3 DEF Starts, Stops, ByHost
  <1>5. Stops \subseteq lateStops
    BY <1>1 DEF Traffic, AwaitInv, NoCommand, Cmd
  <1>6. NumberInv'
    <2>1. issued \in Nat
      BY NumbersAreNumbers
    <2>2. Starts' \subseteq 0 .. issued' /\ Stops' \subseteq 1 .. issued'
      <3>1. /\ Starts \subseteq 0 .. issued /\ Stops \subseteq 1 .. issued
            /\ c.n \in 0 .. issued /\ c.n \in 1 .. issued /\ issued' = issued
        BY <1>1, <1>2, <2>1 DEF Traffic, NumberInv
      <3>2. Starts' \subseteq Starts \cup {c.n} /\ Stops' \subseteq Stops \cup {c.n}
        BY <1>4
      <3> QED BY <3>1, <3>2
    <2>3. \A i \in DOMAIN clicks' : /\ i + 1 \in DOMAIN clicks /\ clicks'[i] = clicks[i + 1] /\ i \in Nat
                                    /\ 1 \in DOMAIN clicks /\ 1 < i + 1
      <3>1. clicks \in Seq(ServerCommand) /\ clicks # <<>> /\ clicks' = Tail(clicks)
        BY <1>1, NumbersAreNumbers
      <3>2. \A i \in DOMAIN Tail(clicks) : /\ i + 1 \in DOMAIN clicks /\ i \in Nat
                                           /\ Tail(clicks)[i] = clicks[i + 1]
        BY <3>1, Taken
      <3>3. 1 \in DOMAIN clicks
        BY <3>1, Taken
      <3>4. \A i \in DOMAIN Tail(clicks) : 1 < i + 1
        <4>1. DOMAIN Tail(clicks) = 1 .. Len(clicks) - 1 /\ Len(clicks) \in Nat
          BY <3>1
        <4> QED BY <4>1
      <3> QED BY <3>1, <3>2, <3>3, <3>4
    <2>4. ASSUME NEW i \in DOMAIN clicks'
          PROVE  clicks'[i].n \in 1 .. issued' /\ \A m \in Starts' \cup Stops' : m < clicks'[i].n
      <3>1. c.n < clicks'[i].n
        BY <1>2, <2>3 DEF Traffic, NumberInv
      <3>2. clicks'[i].n \in 1 .. issued /\ \A m \in Starts \cup Stops : m < clicks'[i].n
        BY <2>3 DEF Traffic, NumberInv
      <3> QED BY <1>1, <1>4, <3>1, <3>2
    <2>5. \A i, j \in DOMAIN clicks' : i < j => clicks'[i].n < clicks'[j].n
      BY <2>3 DEF Traffic, NumberInv
    <2> QED BY <2>2, <2>4, <2>5 DEF NumberInv
  <1>7. OrderInv'
    <2>1. ASSUME NEW i \in Inside(control', "stop"), NEW j \in Inside(control', "stop"), i < j
          PROVE  control'[i].n < control'[j].n
      <3>1. /\ \A k \in DOMAIN control : control'[k] = control[k] /\ k \in Nat /\ k < Len(control) + 1
            /\ control'[Len(control) + 1] = c
            /\ Inside(control', "stop") \subseteq Inside(control, "stop") \cup {Len(control) + 1}
            /\ c.kind # "stop" => Inside(control', "stop") = Inside(control, "stop")
            /\ Len(control) \in Nat
        <4>1. Inside(control', "stop") = Inside(control, "stop")
              \/ (c.kind = "stop" /\ Inside(control', "stop") = Inside(control, "stop") \cup {Len(control) + 1})
          BY <1>1, <1>2, NumbersAreNumbers, Sent DEF Kinds
        <4>2. /\ \A k \in DOMAIN control : control'[k] = control[k] /\ k \in Nat /\ k < Len(control) + 1
              /\ control'[Len(control) + 1] = c /\ Len(control) \in Nat
          <5>1. control \in Seq(ServerCommand) /\ c \in ServerCommand /\ control' = Append(control, c)
            BY <1>1, <1>2, NumbersAreNumbers
          <5> QED BY <5>1, Sent
        <4> QED BY <4>1, <4>2
      <3>2. Inside(control, "stop") \subseteq DOMAIN control
        BY DEF Inside
      <3>3. i \in Inside(control, "stop")
        BY <2>1, <3>1, <3>2
      <3>4. control[i].n \in Stops
        BY <3>3, NumberOf, NumbersAreNumbers DEF Stops, Kinds
      <3>5. CASE j \in Inside(control, "stop")
        BY <2>1, <3>1, <3>2, <3>3, <3>5 DEF Traffic, OrderInv
      <3>6. CASE j = Len(control) + 1
        BY <1>2, <3>1, <3>2, <3>3, <3>4, <3>6
      <3> QED BY <2>1, <3>1, <3>5, <3>6
    <2>2. \A b \in Numbers(control', "stop") : b \in Numbers(control, "stop") \/ \A a \in Stops : a < b
      BY <1>2, <1>3
    <2>3. \A a \in Elements(urgent), b \in Numbers(control', "stop") : a < b
      BY <2>2 DEF Traffic, OrderInv, Stops
    <2>4. urgentPc # "idle" => \A b \in Elements(urgent) \cup Numbers(control', "stop") : urgentStop < b
      BY <2>2 DEF Traffic, OrderInv, Stops
    <2> QED BY <1>1, <2>1, <2>3, <2>4 DEF Traffic, OrderInv
  <1>8. AwaitInv'
    BY <1>1, <1>2, <1>4, <1>5 DEF AwaitInv
  <1>9. CleanupInv'
    BY <1>1 DEF Traffic, CleanupInv, ByHost
  <1>10. LiveInv'
    <2>1. ByHost => command.n < c.n /\ command.n \in Nat
      BY <1>2, NumbersAreNumbers
    <2> QED BY <1>1, <1>2, <2>1 DEF Traffic, LiveInv, ByHost, ByMonitor
  <1> QED BY <1>6, <1>7, <1>8, <1>9, <1>10 DEF Traffic
\* The host takes an answer or gives up waiting for it.
LEMMA AnswerTraffic ==
    ASSUME Types, Traffic, TakeReply \/ AckTimeout
    PROVE  Traffic'
  <1>1. UNCHANGED <<clicks, control, queue, urgent, urgentPc, urgentStop, command, owner, pc, enabled, issued>>
    BY DEF TakeReply, AckTimeout, urgentV, workerV, history, server, countV
  <1>2. Starts' = Starts /\ Stops' = Stops
    BY <1>1 DEF Starts, Stops, ByHost
  <1>3. NumberInv' /\ OrderInv'
    BY <1>1, <1>2, TrafficKept
  <1>4. /\ lateStops \subseteq lateStops' /\ awaiting' = NoCommand
        /\ Stops \subseteq lateStops'
    <2>1. CASE TakeReply
      BY <2>1 DEF TakeReply, history, Traffic, AwaitInv
    <2>2. CASE AckTimeout
      <3>1. /\ awaiting' = NoCommand
            /\ lateStops' = IF awaiting.kind = "stop" THEN lateStops \cup {awaiting.n} ELSE lateStops
        BY <2>2 DEF AckTimeout
      <3> QED BY <3>1 DEF Traffic, AwaitInv
    <2> QED BY <2>1, <2>2
  <1>5. AwaitInv'
    BY <1>2, <1>4 DEF AwaitInv
  <1>6. CleanupInv'
    BY <1>1, <1>4 DEF Traffic, CleanupInv, ByHost
  <1>7. LiveInv'
    BY <1>1, <1>4 DEF Traffic, LiveInv, ByHost, ByMonitor, NoCommand, Cmd
  <1> QED BY <1>3, <1>5, <1>6, <1>7 DEF Traffic

\* A command no host waits for is sent to the worker, or an update to the forwarder.
LEMMA InternalTraffic ==
    ASSUME Types, OriginInv, Traffic, UpdateSettings \/ Environment \/ UNCHANGED vars
    PROVE  Traffic'
  <1>1. UNCHANGED <<clicks, urgent, urgentPc, urgentStop, command, owner, awaiting, reply, lateStops, pc, enabled,
                    issued>>
    BY DEF UpdateSettings, Environment, MonitorCheck, MonitorClaim, ObserveResize, RetryTimer, ComponentFails,
           Failing, urgentV, workerV, history, server, countV, hostV, vars
  <1>2. control' = control \/ control' = Append(control, Cmd("update", 0, 0))
    BY DEF UpdateSettings, Environment, MonitorCheck, MonitorClaim, ObserveResize, RetryTimer, ComponentFails, vars
  <1>3. \/ queue' = queue
        \/ \E e \in ServerCommand : queue' = Append(queue, e) /\ e.kind \in {"recover", "refresh", "retry"}
    <2>1. UpdateSettings \/ UNCHANGED vars => queue' = queue
      BY DEF UpdateSettings, vars
    <2>2. Environment => \/ queue' = queue
                         \/ queue' = Append(queue, Cmd("recover", 0, 0))
                         \/ queue' = Append(queue, Cmd("refresh", 0, 0))
                         \/ \E r \in Nat : queue' = Append(queue, Cmd("retry", 0, r))
      BY DEF Environment, MonitorCheck, MonitorClaim, ObserveResize, RetryTimer, ComponentFails, Types, ChannelTypes
    <2> QED BY <2>1, <2>2, CommandsSent
  <1>4. \A kind \in {"start", "stop"} : /\ Numbers(control', kind) = Numbers(control, kind)
                                        /\ Inside(control', kind) = Inside(control, kind)
    <2>1. /\ control \in Seq(ServerCommand) /\ {"start", "stop"} \subseteq Kinds
          /\ Cmd("update", 0, 0) \in ServerCommand /\ Cmd("update", 0, 0).kind \notin {"start", "stop"}
      <3>1. control \in Seq(ServerCommand)
        BY NumbersAreNumbers
      <3>2. Cmd("update", 0, 0) \in ServerCommand /\ Cmd("update", 0, 0).kind = "update"
        BY CommandsSent
      <3> QED BY <3>1, <3>2 DEF Kinds
    <2>2. ASSUME NEW kind \in {"start", "stop"}
          PROVE  /\ Numbers(Append(control, Cmd("update", 0, 0)), kind) = Numbers(control, kind)
                 /\ Inside(Append(control, Cmd("update", 0, 0)), kind) = Inside(control, kind)
      BY <2>1, SentOther
    <2> QED BY <1>2, <2>2
  <1>5. \A kind \in {"start", "finalize"} : /\ Numbers(queue', kind) = Numbers(queue, kind)
                                            /\ Inside(queue', kind) = Inside(queue, kind)
    <2>1. ASSUME NEW e \in ServerCommand, e.kind \in {"recover", "refresh", "retry"}, NEW kind \in {"start", "finalize"}
          PROVE  /\ Numbers(Append(queue, e), kind) = Numbers(queue, kind)
                 /\ Inside(Append(queue, e), kind) = Inside(queue, kind)
      <3>1. kind \in Kinds /\ e.kind # kind /\ queue \in Seq(ServerCommand)
        BY <2>1, NumbersAreNumbers DEF Kinds
      <3> QED BY <3>1, SentOther
    <2> QED BY <1>3, <2>1
  <1>6. /\ \A i \in DOMAIN control : control'[i] = control[i]
        /\ \A i \in DOMAIN queue : queue'[i] = queue[i]
    <2>1. ASSUME NEW q \in Seq(ServerCommand), NEW e \in ServerCommand
          PROVE  \A i \in DOMAIN q : Append(q, e)[i] = q[i]
      BY Sent
    <2>2. Cmd("update", 0, 0) \in ServerCommand
      BY CommandsSent
    <2>3. control \in Seq(ServerCommand) /\ queue \in Seq(ServerCommand)
      BY NumbersAreNumbers
    <2>4. \A i \in DOMAIN control : control'[i] = control[i]
      BY <1>2, <2>1, <2>2, <2>3
    <2>5. \A i \in DOMAIN queue : queue'[i] = queue[i]
      BY <1>3, <2>1, <2>3
    <2> QED BY <2>4, <2>5
  <1>7. Starts' = Starts /\ Stops' = Stops
    BY <1>1, <1>4, <1>5 DEF Starts, Stops, ByHost
  <1>8. NumberInv' /\ AwaitInv'
    BY <1>1, <1>7, TrafficKept
  <1>9. OrderInv'
    BY <1>1, <1>4, <1>6 DEF Traffic, OrderInv, Inside
  <1>10. CleanupInv'
    BY <1>1, <1>5, <1>6 DEF Traffic, CleanupInv, ByHost, Inside
  <1>11. LiveInv'
    BY <1>1 DEF Traffic, LiveInv, ByHost, ByMonitor
  <1> QED BY <1>8, <1>9, <1>10, <1>11 DEF Traffic

\* control_forward_task splits the channel of the host in two.
LEMMA ForwardTraffic ==
    ASSUME Types, OriginInv, Traffic, Forward
    PROVE  Traffic'
  <1> DEFINE c == Head(control)
  <1>1. /\ control # <<>> /\ control' = Tail(control)
        /\ IF c.kind = "stop" THEN urgent' = Append(urgent, c.n) /\ UNCHANGED queue
                              ELSE queue' = Append(queue, c) /\ UNCHANGED urgent
        /\ UNCHANGED <<clicks, urgentPc, urgentStop, command, owner, awaiting, reply, lateStops, pc, enabled, issued>>
    BY DEF Forward, urgentV, workerV, history, server, countV, hostV
  <1>2. /\ c \in ServerCommand /\ c.n \in Nat /\ c.kind \in {"start", "stop", "update"} /\ c = control[1]
        /\ 1 \in DOMAIN control
        /\ \A i \in DOMAIN control' : /\ i + 1 \in DOMAIN control /\ control'[i] = control[i + 1]
                                      /\ i \in Nat /\ 1 < i + 1
        /\ \A kind \in Kinds : Numbers(control, kind)
              = Numbers(control', kind) \cup (IF c.kind = kind THEN {c.n} ELSE {})
    <2>1. c \in ServerCommand /\ c = control[1] /\ 1 \in DOMAIN control
      BY <1>1, NumbersAreNumbers, Taken
    <2>2. c.n \in Nat /\ c.kind \in {"start", "stop", "update"}
      BY <2>1, CommandFields DEF OriginInv
    <2>3. \A i \in DOMAIN control' : /\ i + 1 \in DOMAIN control /\ control'[i] = control[i + 1]
                                     /\ i \in Nat /\ 1 < i + 1
      BY <1>1, NumbersAreNumbers, Taken
    <2>4. \A kind \in Kinds : Numbers(control, kind)
              = Numbers(control', kind) \cup (IF c.kind = kind THEN {c.n} ELSE {})
      BY <1>1, NumbersAreNumbers, Taken
    <2> QED BY <2>1, <2>2, <2>3, <2>4
  <1> HIDE DEF c
  <1>3. \A i \in Inside(control', "stop") : i + 1 \in Inside(control, "stop")
    BY <1>2 DEF Inside
  <1>4. \A i, j \in Inside(control', "stop") : i < j => control'[i].n < control'[j].n
    <2>1. ASSUME NEW i \in Inside(control', "stop"), NEW j \in Inside(control', "stop"), i < j
          PROVE  control'[i].n < control'[j].n
      <3>1. i \in Nat /\ j \in Nat /\ control'[i] = control[i + 1] /\ control'[j] = control[j + 1]
        BY <1>2 DEF Inside
      <3> QED BY <1>3, <2>1, <3>1 DEF Traffic, OrderInv
    <2> QED BY <2>1
  <1>5. CASE c.kind = "stop"
    <2>1. Numbers(control, "start") = Numbers(control', "start")
          /\ Numbers(control, "stop") = Numbers(control', "stop") \cup {c.n}
      BY <1>2, <1>5 DEF Kinds
    <2>2. /\ Elements(urgent') = Elements(urgent) \cup {c.n}
          /\ DOMAIN urgent = 1 .. Len(urgent) /\ DOMAIN urgent' = 1 .. Len(urgent) + 1 /\ Len(urgent) \in Nat
          /\ \A i \in DOMAIN urgent : urgent'[i] = urgent[i] /\ urgent[i] \in Elements(urgent)
          /\ urgent'[Len(urgent) + 1] = c.n
      <3>1. urgent' = Append(urgent, c.n) /\ urgent \in Seq(Nat)
        BY <1>1, <1>5, NumbersAreNumbers
      <3> QED BY <1>2, <3>1, SentNumber
    <2>3. Starts' = Starts /\ Stops' = Stops
      BY <1>1, <1>5, <2>1, <2>2 DEF Starts, Stops, ByHost
    <2>4. NumberInv' /\ AwaitInv'
      BY <1>1, <2>3, TrafficKept
    <2>5. \A a \in Elements(urgent) : a < c.n
      BY <2>1 DEF Traffic, OrderInv
    <2>6. \A i, j \in DOMAIN urgent' : i < j => urgent'[i] < urgent'[j]
      <3>1. ASSUME NEW i \in DOMAIN urgent', NEW j \in DOMAIN urgent', i < j
            PROVE  urgent'[i] < urgent'[j]
        <4>1. i \in DOMAIN urgent /\ (j \in DOMAIN urgent \/ j = Len(urgent) + 1)
          BY <2>2, <3>1
        <4> QED BY <2>2, <2>5, <3>1, <4>1 DEF Traffic, OrderInv
      <3> QED BY <3>1
    <2>7. \A b \in Numbers(control', "stop") : c.n < b
      <3>1. ASSUME NEW i \in Inside(control', "stop") PROVE c.n < control'[i].n
        <4>1. 1 \in Inside(control, "stop") /\ i + 1 \in Inside(control, "stop") /\ 1 < i + 1
              /\ control'[i] = control[i + 1]
          BY <1>2, <1>3, <1>5 DEF Inside
        <4> QED BY <1>2, <4>1 DEF Traffic, OrderInv
      <3> QED BY <3>1 DEF Numbers, Inside
    <2>8. \A a \in Elements(urgent'), b \in Numbers(control', "stop") : a < b
      BY <2>1, <2>2, <2>7 DEF Traffic, OrderInv
    <2>9. urgentPc # "idle" => \A b \in Elements(urgent') \cup Numbers(control', "stop") : urgentStop < b
      BY <2>1, <2>2 DEF Traffic, OrderInv
    <2>10. OrderInv'
      BY <1>1, <1>4, <2>6, <2>8, <2>9 DEF OrderInv
    <2>11. CleanupInv' /\ LiveInv'
      BY <1>1, <1>5 DEF Traffic, CleanupInv, LiveInv, ByHost, ByMonitor
    <2> QED BY <2>4, <2>10, <2>11 DEF Traffic
  <1>6. CASE c.kind # "stop"
    <2>1. /\ Numbers(control, "start") = Numbers(control', "start") \cup (IF c.kind = "start" THEN {c.n} ELSE {})
          /\ Numbers(control, "stop") = Numbers(control', "stop")
      BY <1>2, <1>6 DEF Kinds
    <2>2. /\ Numbers(queue', "start") = Numbers(queue, "start") \cup (IF c.kind = "start" THEN {c.n} ELSE {})
          /\ Numbers(queue', "finalize") = Numbers(queue, "finalize")
          /\ Inside(queue', "finalize") = Inside(queue, "finalize")
          /\ \A i \in DOMAIN queue : queue'[i] = queue[i]
          /\ Inside(queue', "start") \subseteq Inside(queue, "start") \cup {Len(queue) + 1}
          /\ DOMAIN queue = 1 .. Len(queue) /\ Len(queue) \in Nat
      <3>1. queue' = Append(queue, c) /\ c.kind # "finalize" /\ {"start", "finalize"} \subseteq Kinds
        BY <1>1, <1>2, <1>6 DEF Kinds
      <3>2. /\ Numbers(queue', "finalize") = Numbers(queue, "finalize")
            /\ Inside(queue', "finalize") = Inside(queue, "finalize")
        BY <1>2, <3>1, NumbersAreNumbers, SentOther
      <3>3. /\ Numbers(queue', "start") = Numbers(queue, "start") \cup (IF c.kind = "start" THEN {c.n} ELSE {})
            /\ Inside(queue', "start") \subseteq Inside(queue, "start") \cup {Len(queue) + 1}
        <4>1. CASE c.kind = "start"
          <5>1. /\ Numbers(queue', c.kind) = Numbers(queue, c.kind) \cup {c.n}
                /\ Inside(queue', c.kind) = Inside(queue, c.kind) \cup {Len(queue) + 1}
            BY <1>2, <3>1, <4>1, NumbersAreNumbers, SentSame
          <5> QED BY <4>1, <5>1
        <4>2. CASE c.kind # "start"
          BY <1>2, <3>1, <4>2, NumbersAreNumbers, SentOther
        <4> QED BY <4>1, <4>2
      <3>4. /\ \A i \in DOMAIN queue : queue'[i] = queue[i]
            /\ DOMAIN queue = 1 .. Len(queue) /\ Len(queue) \in Nat
        BY <1>2, <3>1, NumbersAreNumbers, Sent
      <3> QED BY <3>2, <3>3, <3>4
    <2>3. Starts' = Starts /\ Stops' = Stops
      BY <1>1, <1>6, <2>1, <2>2 DEF Starts, Stops, ByHost
    <2>4. NumberInv' /\ AwaitInv'
      BY <1>1, <2>3, TrafficKept
    <2>5. OrderInv'
      BY <1>1, <1>4, <1>6, <2>1 DEF Traffic, OrderInv
    <2>6. ASSUME NEW i \in Inside(queue', "finalize"), NEW j \in Inside(queue', "start"), j < i,
                 queue'[i].n \notin lateStops
          PROVE  queue'[j].n < queue'[i].n
      <3>1. i \in Inside(queue, "finalize") /\ i \in 1 .. Len(queue)
        BY <2>2 DEF Inside
      <3>2. j \in Inside(queue, "start") /\ j \in DOMAIN queue
        BY <2>2, <2>6, <3>1 DEF Inside
      <3> QED BY <2>2, <2>6, <3>1, <3>2 DEF Traffic, CleanupInv
    <2>7. CleanupInv' /\ LiveInv'
      BY <1>1, <2>2, <2>6 DEF Traffic, CleanupInv, LiveInv, ByHost, ByMonitor
    <2> QED BY <2>4, <2>5, <2>7 DEF Traffic
  <1> QED BY <1>5, <1>6
\* urgent_stop_task takes a Stop, carries it out and queues its cleanup.
LEMMA UrgentTraffic ==
    ASSUME Types, Traffic, Urgent
    PROVE  Traffic'
  <1>1. UNCHANGED <<clicks, control, command, owner, lateStops, pc, issued, awaiting>>
    BY DEF Urgent, UrgentTake, UrgentRevise, UrgentDisable, UrgentSignal, UrgentFinalize, urgentRest, workerV,
           history, countV, hostV, Answer
  <1>2. CASE UrgentTake
    <2>1. /\ urgentPc = "idle" /\ urgentPc' = "revise" /\ urgent # <<>> /\ urgentStop' = Head(urgent)
          /\ urgent' = Tail(urgent) /\ UNCHANGED <<queue, reply, enabled>>
      BY <1>2 DEF UrgentTake, hostV
    <2>2. /\ Head(urgent) = urgent[1] /\ 1 \in DOMAIN urgent
          /\ \A i \in DOMAIN urgent' : i + 1 \in DOMAIN urgent /\ i \in Nat /\ i > 0 /\ urgent'[i] = urgent[i + 1]
          /\ Elements(urgent) = Elements(urgent') \cup {Head(urgent)}
          /\ \A n \in Elements(urgent') : \E i \in DOMAIN urgent' : urgent'[i] = n
      BY <2>1, NumbersAreNumbers, TakenNumber
    <2>3. Starts' = Starts /\ Stops' = Stops
      BY <1>1, <2>1, <2>2 DEF Starts, Stops, ByHost
    <2>4. NumberInv' /\ AwaitInv'
      BY <1>1, <2>1, <2>3, TrafficKept
    <2>5. \A i, j \in DOMAIN urgent' : i < j => urgent'[i] < urgent'[j]
      BY <2>2 DEF Traffic, OrderInv
    <2>6. \A n \in Elements(urgent') : urgentStop' < n
      BY <2>1, <2>2 DEF Traffic, OrderInv
    <2>7. /\ \A a \in Elements(urgent'), b \in Numbers(control, "stop") : a < b
          /\ \A b \in Numbers(control, "stop") : urgentStop' < b
      BY <2>1, <2>2 DEF Traffic, OrderInv
    <2>8. OrderInv'
      BY <1>1, <2>5, <2>6, <2>7 DEF Traffic, OrderInv
    <2>9. CleanupInv' /\ LiveInv'
      BY <1>1, <2>1 DEF Traffic, CleanupInv, LiveInv, ByHost, ByMonitor
    <2> QED BY <2>4, <2>8, <2>9 DEF Traffic
  <1>3. CASE UrgentRevise \/ UrgentDisable \/ UrgentSignal
    <2>1. /\ urgentPc # "idle" /\ urgentPc' # "idle" /\ UNCHANGED <<urgent, urgentStop, queue, reply>>
          /\ UNCHANGED enabled \/ urgentPc = "disable"
      BY <1>3 DEF UrgentRevise, UrgentDisable, UrgentSignal, hostV, server
    <2>2. Starts' = Starts /\ Stops' = Stops
      BY <1>1, <2>1 DEF Starts, Stops, ByHost
    <2>3. NumberInv' /\ AwaitInv'
      BY <1>1, <2>1, <2>2, TrafficKept
    <2>4. OrderInv' /\ CleanupInv'
      BY <1>1, <2>1 DEF Traffic, OrderInv, CleanupInv, ByHost
    <2>5. lateStops = {} => awaiting.kind # "start"
      BY <2>1, NumbersAreNumbers DEF Traffic, AwaitInv
    <2>6. LiveInv'
      BY <1>1, <2>5 DEF Traffic, LiveInv, ByHost, ByMonitor
    <2> QED BY <2>3, <2>4, <2>6 DEF Traffic
  <1>4. CASE UrgentFinalize
    <2> DEFINE c == Cmd("finalize", urgentStop, 0)
    <2>1. /\ urgentPc = "finalize" /\ urgentPc' = "idle" /\ queue' = Append(queue, c)
          /\ reply' = (IF awaiting.n = urgentStop THEN "ok" ELSE reply)
          /\ UNCHANGED <<urgent, urgentStop, enabled>>
      BY <1>4 DEF UrgentFinalize, Answer, server
    <2>2. c \in ServerCommand /\ c.kind = "finalize" /\ c.n = urgentStop /\ urgentStop \in Stops
      BY <2>1, NumbersAreNumbers, CommandsSent
    <2> HIDE DEF c
    <2>3. /\ Numbers(queue', "start") = Numbers(queue, "start") /\ Inside(queue', "start") = Inside(queue, "start")
          /\ Numbers(queue', "finalize") = Numbers(queue, "finalize") \cup {urgentStop}
          /\ Inside(queue', "finalize") = Inside(queue, "finalize") \cup {Len(queue) + 1}
      <3>1. Numbers(queue', "start") = Numbers(queue, "start") /\ Inside(queue', "start") = Inside(queue, "start")
        BY <2>1, <2>2, NumbersAreNumbers, SentOther DEF Kinds
      <3>2. /\ Numbers(queue', c.kind) = Numbers(queue, c.kind) \cup {c.n}
            /\ Inside(queue', c.kind) = Inside(queue, c.kind) \cup {Len(queue) + 1}
        BY <2>1, <2>2, NumbersAreNumbers, SentSame DEF Kinds
      <3> QED BY <2>2, <3>1, <3>2
    <2>4. Starts' = Starts
      BY <1>1, <2>3 DEF Starts, ByHost
    <2>5. Stops' \subseteq Stops /\ urgentStop \notin Stops'
      <3>1. \A b \in Elements(urgent) \cup Numbers(control, "stop") : urgentStop < b /\ b # urgentStop
        BY <2>1, NumbersAreNumbers DEF Traffic, OrderInv
      <3> QED BY <1>1, <2>1, <3>1 DEF Stops
    <2>6. NumberInv'
      BY <1>1, <2>4, <2>5, TrafficKept
    <2>7. OrderInv'
      BY <1>1, <2>1 DEF Traffic, OrderInv
    <2>8. AwaitInv'
      <3>1. ASSUME NEW n \in Stops' \ lateStops'
            PROVE  awaiting.kind = "stop" /\ awaiting.n = n /\ reply = "none" /\ n # urgentStop
                   /\ \A m \in Starts : m < n
        BY <1>1, <2>5, <3>1 DEF Traffic, AwaitInv
      <3> QED BY <1>1, <2>1, <2>4, <3>1 DEF AwaitInv
    <2>9. urgentStop \notin lateStops => \A m \in Starts : m < urgentStop
      BY <2>2 DEF Traffic, AwaitInv
    <2>10. \A n \in Numbers(queue', "finalize") \ lateStops : owner < n /\ (ByHost => command.n < n)
      BY <2>3, <2>9, NumbersAreNumbers DEF Traffic, CleanupInv
    <2>11. ASSUME NEW i \in Inside(queue', "finalize"), NEW j \in Inside(queue', "start"), j < i,
                  queue'[i].n \notin lateStops
           PROVE  queue'[j].n < queue'[i].n
      <3>1. /\ \A k \in DOMAIN queue : queue'[k] = queue[k]
            /\ queue'[Len(queue) + 1] = c
        BY <2>1, <2>2, NumbersAreNumbers, Sent
      <3>2. j \in Inside(queue, "start") /\ queue'[j] = queue[j]
        BY <2>3, <3>1 DEF Inside
      <3>3. CASE i \in Inside(queue, "finalize")
        BY <2>11, <3>1, <3>2, <3>3 DEF Traffic, CleanupInv, Inside
      <3>4. CASE i = Len(queue) + 1
        <4>1. queue[j].n \in Starts
          BY <3>2, NumberOf, NumbersAreNumbers DEF Starts, Kinds
        <4> QED BY <2>2, <2>9, <2>11, <3>1, <3>2, <3>4, <4>1
      <3> QED BY <2>3, <3>3, <3>4
    <2>12. CleanupInv' /\ LiveInv'
      BY <1>1, <2>1, <2>10, <2>11 DEF Traffic, CleanupInv, LiveInv, ByHost, ByMonitor
    <2> QED BY <2>6, <2>7, <2>8, <2>12 DEF Traffic
  <1> QED BY <1>2, <1>3, <1>4 DEF Urgent

\* The worker takes the next command.
LEMMA TakeTraffic ==
    ASSUME Types, Traffic, TakeCommand
    PROVE  Traffic'
  <1> DEFINE c == Head(queue)
  <1>1. /\ pc = "idle" /\ queue # <<>> /\ command' = c /\ queue' = Tail(queue)
        /\ UNCHANGED <<control, urgent, urgentPc, urgentStop, clicks, awaiting, reply, issued, lateStops, owner>>
        /\ pc' \notin {"recheck", "confirm", "session", "activate"}
    BY TakeEffect
  <1>2. /\ c = queue[1] /\ c \in ServerCommand /\ c.n \in Nat /\ 1 \in DOMAIN queue
        /\ \A i \in DOMAIN queue' : /\ i + 1 \in DOMAIN queue /\ i \in Nat /\ 1 < i + 1
                                    /\ queue'[i] = queue[i + 1]
        /\ \A kind \in Kinds : Numbers(queue', kind) \subseteq Numbers(queue, kind)
    <2>1. c = queue[1] /\ c \in ServerCommand /\ 1 \in DOMAIN queue
      BY <1>1, NumbersAreNumbers, Taken
    <2>2. \A i \in DOMAIN queue' : /\ i + 1 \in DOMAIN queue /\ i \in Nat /\ 1 < i + 1
                                   /\ queue'[i] = queue[i + 1]
      BY <1>1, NumbersAreNumbers, Taken
    <2>3. \A kind \in Kinds : Numbers(queue', kind) \subseteq Numbers(queue, kind)
      BY <1>1, NumbersAreNumbers, Taken
    <2> QED BY <2>1, <2>2, <2>3, CommandFields
  <1> HIDE DEF c
  <1>3. /\ Numbers(queue', "start") \subseteq Numbers(queue, "start")
        /\ Numbers(queue', "finalize") \subseteq Numbers(queue, "finalize")
        /\ \A i \in DOMAIN queue' : queue'[i].kind = "finalize" => i + 1 \in Inside(queue, "finalize")
        /\ \A i \in DOMAIN queue' : queue'[i].kind = "start" => i + 1 \in Inside(queue, "start")
        /\ \A kind \in Kinds : c.kind = kind => 1 \in Inside(queue, kind) /\ c.n \in Numbers(queue, kind)
    BY <1>2 DEF Kinds, Inside, Numbers
  <1>4. Starts' \subseteq Starts /\ Stops' = Stops
    BY <1>1, <1>3 DEF Starts, Stops, ByHost, Kinds
  <1>5. NumberInv' /\ OrderInv' /\ AwaitInv'
    BY <1>1, <1>4, TrafficKept
  <1>6. ASSUME NEW n \in Numbers(queue', "finalize") \ lateStops', c.kind = "start"
        PROVE  c.n < n
    <2>1. PICK i \in DOMAIN queue' : queue'[i].kind = "finalize" /\ queue'[i].n = n
      BY <1>6 DEF Numbers
    <2>2. i + 1 \in Inside(queue, "finalize") /\ 1 \in Inside(queue, "start") /\ 1 < i + 1 /\ queue[i + 1].n = n
      BY <1>2, <1>3, <1>6, <2>1 DEF Kinds
    <2> QED BY <1>1, <1>2, <1>6, <2>2 DEF Traffic, CleanupInv
  <1>7. ASSUME NEW i \in Inside(queue', "finalize"), NEW j \in Inside(queue', "start"), j < i,
               queue'[i].n \notin lateStops'
        PROVE  queue'[j].n < queue'[i].n
    <2>1. /\ i + 1 \in Inside(queue, "finalize") /\ j + 1 \in Inside(queue, "start") /\ j + 1 < i + 1
          /\ queue'[i] = queue[i + 1] /\ queue'[j] = queue[j + 1]
      BY <1>2, <1>3, <1>7 DEF Inside
    <2> QED BY <1>1, <1>7, <2>1 DEF Traffic, CleanupInv
  <1>8. c.kind = "finalize" /\ c.n \notin lateStops => owner < c.n
    BY <1>3 DEF Traffic, CleanupInv, Kinds
  <1>9. \A n \in Numbers(queue', "finalize") \ lateStops : owner < n
    BY <1>3 DEF Traffic, CleanupInv
  <1>10. CleanupInv'
    BY <1>1, <1>6, <1>7, <1>8, <1>9 DEF CleanupInv, ByHost
  <1>11. LiveInv'
    BY <1>1 DEF LiveInv
  <1> QED BY <1>5, <1>10, <1>11 DEF Traffic

\* How the worker comes to the points before an answer.
LEMMA WorkPublishes ==
    ASSUME GateInv, Work, LiveInv
    PROVE  /\ pc' = "recheck" => ByMonitor
           /\ pc' = "confirm" => ~ByHost
           /\ pc' \in {"session", "activate"} /\ ByHost => enabled' \/ (pc = "session" /\ UNCHANGED enabled)
  <1> USE DEF Goto, TeardownThen, Done, LiveInv, ByHost, ByMonitor, ByObserver
  <1>1. CASE Apply
    BY <1>1 DEF Apply, ApplySettings, Recapture, RestartCapture, CheckEncoders, ReplaceEncoders, Applied, Rejected,
                EncoderFailure
  <1>2. CASE Build
    BY <1>2 DEF Build, BuildCapture, RegisterPrimary, AwaitPrimary, Built
  <1>3. CASE Publish
    <2>1. CASE Enable
      BY <2>1 DEF Enable
    <2>2. CASE Recheck
      BY <2>2 DEF Recheck
    <2>3. CASE NumberSession
      BY <2>3 DEF NumberSession
    <2>4. CASE Activate
      BY <2>4 DEF Activate
    <2>5. CASE Confirm
      BY <2>5 DEF Confirm
    <2> QED BY <1>3, <2>1, <2>2, <2>3, <2>4, <2>5 DEF Publish
  <1>4. CASE StopResources
    <2>1. CASE StopRequested
      BY <2>1 DEF StopRequested
    <2>2. CASE TornDown
      <3>1. pc' = then /\ then \in {"idle", "clean", "startFailed", "recoverFailed", "retry"}
        BY <2>2 DEF TornDown, GateInv
      <3> QED BY <3>1
    <2>3. CASE StartFailed
      BY <2>3 DEF StartFailed
    <2> QED BY <1>4, <2>1, <2>2, <2>3 DEF StopResources
  <1>5. CASE Rebuild
    BY <1>5 DEF Rebuild, RecoverLoad, Prepare, Restart, Reset, Clean, RecoverFailed, ScheduleRetry
  <1> QED BY <1>1, <1>2, <1>3, <1>4, <1>5 DEF Work

\* The worker executes a command.
LEMMA WorkTraffic ==
    ASSUME Types, GateInv, OriginInv, Traffic, Work
    PROVE  Traffic'
  <1>1. /\ pc # "idle"
        /\ UNCHANGED <<command, control, queue, urgent, urgentPc, urgentStop, clicks, awaiting, issued, lateStops>>
    BY WorkLeaves
  <1>2. /\ owner' = owner \/ (ByHost /\ owner' = command.n)
        /\ reply' = reply \/ (ByHost /\ awaiting.n = command.n)
    BY WorkAnswers
  <1>3. Starts' \subseteq Starts /\ Stops' = Stops
    BY <1>1, <1>2 DEF Starts, Stops, ByHost
  <1>4. NumberInv' /\ OrderInv'
    BY <1>1, <1>3, TrafficKept
  <1>5. AwaitInv'
    <2>1. ASSUME NEW n \in Stops \ lateStops PROVE reply' = reply
      <3>1. awaiting.n = n /\ (ByHost => command.n < n) /\ command.n \in Nat
        BY <2>1, NumbersAreNumbers DEF Traffic, AwaitInv
      <3> QED BY <1>2, <3>1
    <2> QED BY <1>1, <1>3, <2>1 DEF Traffic, AwaitInv
  <1>6. CleanupInv'
    BY <1>1, <1>2 DEF Traffic, CleanupInv, ByHost
  <1>7. LiveInv'
    BY <1>1, WorkPublishes DEF Traffic, LiveInv, ByHost, ByMonitor
  <1> QED BY <1>4, <1>5, <1>6, <1>7 DEF Traffic

LEMMA TrafficInit == Init => Traffic
  <1> SUFFICES ASSUME Init PROVE Traffic
    OBVIOUS
  <1>1. /\ control = <<>> /\ urgent = <<>> /\ queue = <<>> /\ clicks = <<>> /\ urgentPc = "idle" /\ pc = "idle"
        /\ owner = 0 /\ issued = 0 /\ command.kind = "update"
    BY DEF Init, NoCommand, Cmd
  <1>2. DOMAIN <<>> = {}
    OBVIOUS
  <1>3. /\ \A kind : Inside(<<>>, kind) = {} /\ Numbers(<<>>, kind) = {}
        /\ Elements(<<>>) = {}
    BY <1>2 DEF Inside, Numbers, Elements
  <1>4. Starts = {0} /\ Stops = {}
    BY <1>1, <1>3 DEF Starts, Stops, ByHost
  <1> QED BY <1>1, <1>2, <1>3, <1>4 DEF Traffic, NumberInv, OrderInv, AwaitInv, CleanupInv, LiveInv

LEMMA TrafficStep == Types /\ GateInv /\ OriginInv /\ Traffic /\ [Next]_vars => Traffic'
  BY ClickTraffic, SendTraffic, AnswerTraffic, InternalTraffic, ForwardTraffic, UrgentTraffic, TakeTraffic,
     WorkTraffic DEF Next, Host, Environment, Worker, Work

LEMMA TrafficHolds == Spec => [](Types /\ OriginInv /\ Traffic)
  BY TypesInit, TypesStep, GateInit, GateStep, OriginInit, OriginStep, TrafficInit, TrafficStep, PTL DEF Spec

\* The deferred cleanup of a Stop the host saw acknowledged never tears down the graph of
\* a Start clicked after it: FinalizeStop is queued before the acknowledgement that lets
\* the UI send the next command.
THEOREM CleanupSparesLaterStart == Spec => []FinalizeSparesLaterStart
  <1>1. CleanupInv => FinalizeSparesLaterStart
    BY DEF CleanupInv, FinalizeSparesLaterStart
  <1> QED BY <1>1, TrafficHolds, PTL DEF Traffic

\* A Start is acknowledged with success only over an open gate, whatever was queued before
\* it, unless a Stop the host has given up waiting for is still at work.
THEOREM AnsweredStartIsLive == Spec => AckedStartIsLive
  <1> DEFINE Step == reply' = "ok" /\ reply # "ok" /\ awaiting.kind = "start" => enabled \/ lateStops # {}
  <1>1. Types /\ OriginInv /\ Traffic /\ [Next]_vars => [Step]_vars
    <2> SUFFICES ASSUME Types, OriginInv, Traffic, [Next]_vars, reply' = "ok", reply # "ok",
                        awaiting.kind = "start", lateStops = {}
                 PROVE  enabled
      OBVIOUS
    <2>1. CASE Work
      BY <2>1, WorkAnswers DEF Traffic, LiveInv
    <2>2. ~UrgentFinalize
      <3>1. UrgentFinalize => urgentStop \in Stops
        BY NumbersAreNumbers DEF UrgentFinalize
      <3> QED BY <3>1 DEF Traffic, AwaitInv
    <2>3. ~TakeCommand
      BY TakeEffect
    <2>4. Host \/ Forward \/ (Urgent /\ ~UrgentFinalize) \/ Environment \/ UNCHANGED vars
            => reply' = reply \/ reply' = "none"
      BY DEF Host, ClickStart, ClickStop, Click, SendCommand, TakeReply, AckTimeout, UpdateSettings, Forward,
         Urgent, UrgentTake, UrgentRevise, UrgentDisable, UrgentSignal, Environment, MonitorCheck, MonitorClaim,
         ObserveResize, RetryTimer, ComponentFails, hostV, vars
    <2> QED BY <2>1, <2>2, <2>3, <2>4 DEF Next, Environment, Worker, Work
  <1>2. Spec => [][Step]_vars
    BY <1>1, TrafficHolds, PTL DEF Spec
  <1> QED BY <1>2 DEF AckedStartIsLive
==============================================================================
