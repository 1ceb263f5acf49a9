---------------------------- MODULE StreamControl ----------------------------
(***************************************************************************)
(* The host control plane of the viewer server: the tasks that start, stop, *)
(* update, recover and resize the one media graph (raw capture, primary    *)
(* encoder group, audio source) of src/server.rs.                          *)
(*                                                                         *)
(*   forwarder      run_with_control_readiness, control_forward_task       *)
(*   urgent         urgent_stop_task                                       *)
(*   worker         control_task, one serialized command at a time         *)
(*   monitor        stream_health_monitor                                  *)
(*   observer       window_resize_monitor (Windows builds only)            *)
(*   host           the native UI and its worker_loop (src/ui.rs)          *)
(*                                                                         *)
(* Every task runs on its own thread of the tokio runtime, so the actions  *)
(* below interleave freely. One action is the code between two points at   *)
(* which another task can be observed: an await, a blocking call, or a     *)
(* store another task reads. Adjacent stores with no call between them are *)
(* one action.                                                             *)
(***************************************************************************)
EXTENDS Naturals, Sequences, FiniteSets

CONSTANTS
    Windows,        \* whether the cfg(windows) resize machinery is compiled in
    MaxCommands,    \* bound on the Start/Stop clicks of the host
    MaxUpdates,     \* bound on the live settings updates of the host
    MaxTimeouts,    \* bound on the acknowledgement timeouts of the host
    MaxFailures,    \* bound on capture and encoder failures
    MaxResizes      \* bound on the refresh commands of the resize observer

ASSUME BoundsAssumption ==
    /\ Windows \in BOOLEAN
    /\ {MaxCommands, MaxUpdates, MaxTimeouts, MaxFailures, MaxResizes} \subseteq Nat

VARIABLES
    enabled,            \* ServerState.stream_enabled
    resetting,          \* ServerState.stream_resetting
    stopRevision,       \* ServerState.stop_request_revision
    sessionRevision,    \* ServerState.media_session_revision
    capture,            \* the SharedCapture in the CaptureSlot
    primary,            \* the pipeline of group 0
    audioActive,        \* AudioPipeline.active
    control,            \* control_tx -> control_rx, host to forwarder
    urgent,             \* urgent_stop_tx -> urgent_stop_rx
    queue,              \* serialized_control_tx -> serialized_control_rx
    urgentPc, urgentStop,                   \* urgent_stop_task
    pc, then, command, seenRevision, built, change,   \* control_task
    monitorPc, recoveryPending,             \* stream_health_monitor
    timers,             \* delayed RetryWindowCapture sends, by revision
    hostStatus, clicks, awaiting, reply,    \* the UI and its worker_loop
    issued, updates, timeouts, failures, resizes, \* what the bounds count
    intent, owner, graph, shown, lateStops   \* history, read by properties only

server  == <<enabled, resetting, stopRevision, sessionRevision>>
media   == <<capture, primary, audioActive>>
workerV == <<pc, then, command, seenRevision, built, change>>
urgentV == <<urgentPc, urgentStop>>
monitorV == <<monitorPc, recoveryPending>>
hostV   == <<hostStatus, clicks, awaiting, reply>>
countV  == <<issued, updates, timeouts, failures, resizes>>
history == <<intent, owner, graph, shown, lateStops>>

vars == <<server, media, control, urgent, queue, workerV, urgentV, monitorV,
          timers, hostV, countV, history>>

(***************************************************************************)
(* Types.                                                                  *)
(***************************************************************************)
\* ServerCommand. n numbers the click of the host (0 for an internal command),
\* rev is the stop_request_revision a RetryWindowCapture carries.
Kinds == {"start", "stop", "update", "finalize", "recover", "refresh", "retry"}
ServerCommand == [kind : Kinds, n : Nat, rev : Nat]
Cmd(kind, n, rev) == [kind |-> kind, n |-> n, rev |-> rev]
NoCommand == Cmd("update", 0, 0)

\* "stopping" is a capture or pipeline that was asked to stop, "starting" a
\* pipeline that is registered with the factory and not yet in its group.
CaptureStates == {"none", "live", "failed", "stopping"}
PrimaryStates == {"none", "starting", "ready", "active", "failed", "stopping"}

WorkerPcs == {"idle", "apply", "recapture", "checkEncoders", "replaceEncoders",
              "rollback", "recheckEncoders", "restoreEncoders", "applied",
              "rejected", "capture", "register", "ready", "built", "enable", "recheck",
              "session", "activate", "confirm", "recoverLoad", "prepare",
              "restart", "reset", "disable", "teardown", "clean",
              "startFailed", "recoverFailed", "retry"}
UrgentPcs == {"idle", "revise", "disable", "signal", "finalize"}
Changes == {"none", "encoder", "capture", "audio"}

(***************************************************************************)
(* Operations several tasks share.                                         *)
(***************************************************************************)
\* stream_failure: what the health monitor may, and what it must, report. A
\* component that was asked to stop is reported once it has ended.
MayReportFailure  == capture # "live" \/ primary \in {"failed", "stopping"}
MustReportFailure == capture \in {"none", "failed"} \/ primary = "failed"

\* The capture slot and the slot of group 0 are occupied.
GraphBuilt == capture # "none" /\ primary \notin {"none", "starting"}

\* Mutant: the stopped generation gets no number of its own.
CloseGateSilently ==
    /\ enabled' = FALSE
    /\ UNCHANGED sessionRevision

\* request_stream_stop, first half: close the gate, and number the stopped
\* generation if the gate was open.
CloseGate ==
    /\ enabled' = FALSE
    /\ sessionRevision' = IF enabled THEN sessionRevision + 1 ELSE sessionRevision

\* request_stream_stop, second half: every registered pipeline and the current
\* capture are told to stop, audio delivery is switched off.
SignalGraph ==
    /\ capture' = IF capture = "none" THEN "none" ELSE "stopping"
    /\ primary' = IF primary = "none" THEN "none" ELSE "stopping"
    /\ audioActive' = FALSE

\* Mutant: the cleanup does not repeat the audio switch of the urgent phase.
DetachGraphOnly ==
    /\ capture' = "none"
    /\ primary' = "none"
    /\ UNCHANGED audioActive

\* stop_stream_resources after its request_stream_stop: the group slots and the
\* capture slot are emptied, what they held is torn down elsewhere.
DetachGraph ==
    /\ capture' = "none"
    /\ primary' = "none"
    /\ audioActive' = FALSE

Goto(label) == pc' = label /\ UNCHANGED <<then, command, seenRevision, built, change>>

\* Mutant: a finished RecoverStream forgets its pending guard.
DoneLeakingFlag ==
    /\ Goto("idle")
    /\ UNCHANGED monitorV

\* The command is finished; dropping a RecoverStream drops its pending guard.
Done ==
    /\ Goto("idle")
    /\ recoveryPending' = (recoveryPending /\ command.kind # "recover")
    /\ UNCHANGED monitorPc

\* Run stop_stream_resources and continue at next.
TeardownThen(next) ==
    /\ pc' = "disable"
    /\ then' = next
    /\ UNCHANGED <<command, seenRevision, built, change>>

Superseded == seenRevision # stopRevision
ByHost == command.kind = "start"
ByMonitor == command.kind = "recover"
ByObserver == command.kind \in {"refresh", "retry"}

\* The oneshot answer to the host's command n; dropped once nobody waits.
Answer(n, result) ==
    /\ reply' = IF awaiting.n = n THEN result ELSE reply
    /\ UNCHANGED <<hostStatus, clicks, awaiting>>

\* What a viewer can see: the graph live under the current session revision.
Show == shown' = [session |-> sessionRevision', graph |-> graph]

Failing == failures < MaxFailures /\ failures' = failures + 1
           /\ UNCHANGED <<issued, updates, timeouts, resizes>>

(***************************************************************************)
(* The host: the primary button of the UI and the UI's worker_loop, which  *)
(* sends one stream command at a time and waits for its acknowledgement.   *)
(***************************************************************************)
Click(kind, from, to) ==
    /\ hostStatus \in from
    /\ issued < MaxCommands
    /\ issued' = issued + 1
    /\ clicks' = Append(clicks, Cmd(kind, issued', 0))
    /\ hostStatus' = to
    /\ UNCHANGED <<server, media, control, urgent, queue, workerV, urgentV,
                   monitorV, timers, awaiting, reply, updates, timeouts,
                   failures, resizes, history>>

ClickStart == Click("start", {"ready", "failed"}, "starting")
ClickStop  == Click("stop", {"starting", "running"}, "stopping")

SendCommand ==
    /\ awaiting = NoCommand
    /\ clicks # <<>>
    /\ control' = Append(control, Head(clicks))
    /\ awaiting' = Head(clicks)
    /\ clicks' = Tail(clicks)
    /\ reply' = "none"
    /\ UNCHANGED <<server, media, urgent, queue, workerV, urgentV, monitorV,
                   timers, hostStatus, countV, history>>

TakeReply ==
    /\ awaiting # NoCommand
    /\ reply # "none"
    /\ hostStatus' = IF reply = "error" THEN "failed"
                     ELSE IF awaiting.kind = "start" THEN "running" ELSE "ready"
    /\ awaiting' = NoCommand
    /\ reply' = "none"
    /\ UNCHANGED <<server, media, control, urgent, queue, workerV, urgentV,
                   monitorV, timers, clicks, countV, history>>

\* STREAM_START_ACK_TIMEOUT or STREAM_STOP_ACK_TIMEOUT expires.
AckTimeout ==
    /\ awaiting # NoCommand
    /\ reply = "none"
    /\ timeouts < MaxTimeouts
    /\ timeouts' = timeouts + 1
    /\ hostStatus' = "failed"
    /\ lateStops' = IF awaiting.kind = "stop" THEN lateStops \cup {awaiting.n} ELSE lateStops
    /\ awaiting' = NoCommand
    /\ UNCHANGED <<server, media, control, urgent, queue, workerV, urgentV,
                   monitorV, timers, clicks, reply, issued, updates, failures,
                   resizes, intent, owner, graph, shown>>

\* A settings control is changed while the stream runs.
UpdateSettings ==
    /\ hostStatus = "running"
    /\ updates < MaxUpdates
    /\ updates' = updates + 1
    /\ control' = Append(control, Cmd("update", 0, 0))
    /\ UNCHANGED <<server, media, urgent, queue, workerV, urgentV, monitorV,
                   timers, hostV, issued, timeouts, failures, resizes, history>>

(***************************************************************************)
(* control_forward_task: a StopStream goes to the urgent task, every other  *)
(* command to the serialized queue.                                        *)
(***************************************************************************)
Forward ==
    /\ control # <<>>
    /\ control' = Tail(control)
    /\ IF Head(control).kind = "stop"
       THEN urgent' = Append(urgent, Head(control).n) /\ UNCHANGED queue
       ELSE queue' = Append(queue, Head(control)) /\ UNCHANGED urgent
    /\ UNCHANGED <<server, media, workerV, urgentV, monitorV, timers, hostV,
                   countV, history>>

(***************************************************************************)
(* urgent_stop_task.                                                       *)
(***************************************************************************)
urgentRest == <<control, workerV, monitorV, timers, countV>>

\* Mutant: the Stop is acknowledged when it is taken, not when it is queued.
UrgentTakeAnswering ==
    /\ urgentPc = "idle"
    /\ urgent # <<>>
    /\ urgentStop' = Head(urgent)
    /\ urgent' = Tail(urgent)
    /\ resetting' = FALSE
    /\ urgentPc' = "revise"
    /\ Answer(Head(urgent), "ok")
    /\ UNCHANGED <<enabled, stopRevision, sessionRevision, media, queue,
                   history, urgentRest>>

UrgentTake ==
    /\ urgentPc = "idle"
    /\ urgent # <<>>
    /\ urgentStop' = Head(urgent)
    /\ urgent' = Tail(urgent)
    /\ resetting' = FALSE
    /\ urgentPc' = "revise"
    /\ UNCHANGED <<enabled, stopRevision, sessionRevision, media, queue, hostV,
                   history, urgentRest>>

UrgentRevise ==
    /\ urgentPc = "revise"
    /\ stopRevision' = stopRevision + 1
    /\ intent' = "stopped"
    /\ urgentPc' = "disable"
    /\ UNCHANGED <<enabled, resetting, sessionRevision, media, urgent, queue,
                   urgentStop, hostV, owner, graph, shown, lateStops, urgentRest>>

UrgentDisable ==
    /\ urgentPc = "disable"
    /\ CloseGate
    /\ urgentPc' = "signal"
    /\ UNCHANGED <<resetting, stopRevision, media, urgent, queue, urgentStop,
                   hostV, history, urgentRest>>

UrgentSignal ==
    /\ urgentPc = "signal"
    /\ SignalGraph
    /\ urgentPc' = "finalize"
    /\ UNCHANGED <<server, urgent, queue, urgentStop, hostV, history, urgentRest>>

\* Mutant: no deferred cleanup follows the urgent phase.
UrgentFinalizeNothing ==
    /\ urgentPc = "finalize"
    /\ Answer(urgentStop, "ok")
    /\ urgentPc' = "idle"
    /\ UNCHANGED <<server, media, urgent, queue, urgentStop, history, urgentRest>>

UrgentFinalize ==
    /\ urgentPc = "finalize"
    /\ queue' = Append(queue, Cmd("finalize", urgentStop, 0))
    /\ Answer(urgentStop, "ok")
    /\ urgentPc' = "idle"
    /\ UNCHANGED <<server, media, urgent, urgentStop, history, urgentRest>>

Urgent == UrgentTake \/ UrgentRevise \/ UrgentDisable \/ UrgentSignal \/ UrgentFinalize

(***************************************************************************)
(* stream_health_monitor: one tick reads the failure, then claims the      *)
(* pending flag and sends RecoverStream.                                   *)
(***************************************************************************)
MonitorCheck ==
    /\ monitorPc = "idle"
    /\ enabled
    /\ MayReportFailure
    /\ monitorPc' = "claim"
    /\ UNCHANGED <<server, media, control, urgent, queue, workerV, urgentV,
                   recoveryPending, timers, hostV, countV, history>>

\* Mutant: the flag is claimed and the command is never sent.
MonitorClaimOnly ==
    /\ monitorPc = "claim"
    /\ monitorPc' = "idle"
    /\ recoveryPending' = TRUE
    /\ UNCHANGED <<server, media, control, urgent, queue, workerV, urgentV,
                   timers, hostV, countV, history>>

MonitorClaim ==
    /\ monitorPc = "claim"
    /\ monitorPc' = "idle"
    /\ recoveryPending' = TRUE
    /\ queue' = IF recoveryPending THEN queue
                ELSE Append(queue, Cmd("recover", 0, 0))
    /\ UNCHANGED <<server, media, control, urgent, workerV, urgentV, timers,
                   hostV, countV, history>>

(***************************************************************************)
(* window_resize_monitor: a settled resize of the captured window; and the *)
(* delayed retry send of execute_window_capture_restart_attempt.           *)
(***************************************************************************)
ObserveResize ==
    /\ Windows
    /\ enabled
    /\ capture # "none"
    /\ resizes < MaxResizes
    /\ resizes' = resizes + 1
    /\ queue' = Append(queue, Cmd("refresh", 0, 0))
    /\ UNCHANGED <<server, media, control, urgent, workerV, urgentV, monitorV,
                   timers, hostV, issued, updates, timeouts, failures, history>>

RetryTimer ==
    \E r \in timers :
        /\ timers' = timers \ {r}
        /\ queue' = Append(queue, Cmd("retry", 0, r))
        /\ UNCHANGED <<server, media, control, urgent, workerV, urgentV,
                       monitorV, hostV, countV, history>>

(***************************************************************************)
(* A capture dies or stalls, an encoder fails.                             *)
(***************************************************************************)
ComponentFails ==
    /\ Failing
    /\ \/ capture = "live" /\ capture' = "failed" /\ UNCHANGED primary
       \/ primary \in {"ready", "active"} /\ primary' = "failed" /\ UNCHANGED capture
    /\ UNCHANGED <<server, audioActive, control, urgent, queue, workerV,
                   urgentV, monitorV, timers, hostV, history>>

(***************************************************************************)
(* control_task: taking a command from the serialized queue.               *)
(***************************************************************************)
workerRest == <<control, urgent, urgentV, timers, countV>>

Take(kind) ==
    /\ pc = "idle"
    /\ queue # <<>>
    /\ Head(queue).kind = kind
    /\ command' = Head(queue)
    /\ queue' = Tail(queue)

TakeStart ==
    /\ Take("start")
    /\ resetting' = FALSE
    /\ stopRevision' = stopRevision + 1
    /\ intent' = "running"
    /\ pc' = "apply"
    /\ UNCHANGED <<enabled, sessionRevision, media, then, seenRevision, built,
                   change, monitorV, hostV, owner, graph, shown, lateStops,
                   workerRest>>

TakeFinalize ==
    /\ Take("finalize")
    /\ pc' = "disable"
    /\ then' = "idle"
    /\ UNCHANGED <<server, media, seenRevision, built, change, monitorV, hostV,
                   history, workerRest>>

TakeUpdate ==
    /\ Take("update")
    /\ pc' = "apply"
    /\ UNCHANGED <<server, media, then, seenRevision, built, change, monitorV,
                   hostV, history, workerRest>>

TakeRecover ==
    /\ Take("recover")
    /\ pc' = IF enabled THEN "recoverLoad" ELSE "idle"
    /\ recoveryPending' = enabled
    /\ UNCHANGED <<server, media, then, seenRevision, built, change, monitorPc,
                   hostV, history, workerRest>>

TakeRefresh ==
    /\ Take("refresh")
    /\ pc' = IF enabled THEN "prepare" ELSE "idle"
    /\ UNCHANGED <<server, media, then, seenRevision, built, change, monitorV,
                   hostV, history, workerRest>>

TakeRetry ==
    /\ Take("retry")
    /\ pc' = "restart"
    /\ seenRevision' = Head(queue).rev
    /\ UNCHANGED <<server, media, then, built, change, monitorV, hostV,
                   history, workerRest>>

(***************************************************************************)
(* control_task: apply_capture_settings, for StartStream and Update. The    *)
(* change is what capture_format_changed, encoder_profile_changed and      *)
(* audio_enabled find between the old and the new settings.                *)
(***************************************************************************)
stepRest == <<control, urgent, queue, urgentV, timers>>
quiet    == <<monitorV, hostV, countV, history>>

\* SharedCapture::restart in the occupied slot: a capture that was told to stop
\* stays stopped, any other may come back or not.
RestartCapture(onSuccess, onFailure) ==
    \/ /\ capture # "stopping"
       /\ capture' = "live"
       /\ Goto(onSuccess)
       /\ UNCHANGED countV
    \/ /\ capture # "stopping"
       /\ Failing
       /\ capture' = "failed"
       /\ Goto(onFailure)
    \/ /\ capture = "stopping"
       /\ UNCHANGED <<capture, countV>>
       /\ Goto(onFailure)

ApplySettings ==
    /\ pc = "apply"
    /\ \E c \in Changes : change' = c
    /\ pc' = CASE change' = "encoder" -> "checkEncoders"
               [] change' = "capture" /\ capture # "none" -> "recapture"
               [] OTHER -> "applied"
    /\ UNCHANGED <<server, media, then, command, seenRevision, built, stepRest, quiet>>

\* The capture is restarted with the new format; a failure here, or of the
\* encoders behind it, restarts it with the previous one.
Recapture ==
    /\ \/ pc = "recapture" /\ RestartCapture("checkEncoders", "rollback")
       \/ pc = "rollback" /\ RestartCapture("recheckEncoders", "rejected")
    /\ UNCHANGED <<server, primary, audioActive, stepRest, monitorV, hostV, history>>

\* Where a failed encoder replacement continues.
EncoderFailure == IF pc \in {"checkEncoders", "replaceEncoders"} /\ change = "capture"
                  THEN "rollback" ELSE "rejected"

\* reconfigure_and_restart replaces the pipeline of a visible group. Its
\* GroupFactory::start refuses while the stream is disabled.
CheckEncoders ==
    /\ pc \in {"checkEncoders", "recheckEncoders"}
    /\ Goto(CASE primary = "none" /\ pc = "checkEncoders" -> "applied"
              [] primary # "none" /\ enabled /\ pc = "checkEncoders" -> "replaceEncoders"
              [] primary # "none" /\ enabled /\ pc = "recheckEncoders" -> "restoreEncoders"
              [] OTHER -> EncoderFailure)
    /\ UNCHANGED <<server, media, stepRest, quiet>>

\* The replacement produced its first frame and takes the group's slot, or it
\* did not. A Stop that arrived meanwhile may or may not have reached it.
ReplaceEncoders ==
    /\ pc \in {"replaceEncoders", "restoreEncoders"}
    /\ \/ /\ capture # "failed"
          /\ \/ enabled /\ primary' = "active"
             \/ ~enabled /\ primary' \in {"ready", "stopping"}
          /\ Goto(IF pc = "replaceEncoders" THEN "applied" ELSE "rejected")
          /\ UNCHANGED countV
       \/ /\ IF capture = "live" /\ enabled THEN Failing ELSE UNCHANGED countV
          /\ Goto(EncoderFailure)
          /\ UNCHANGED primary
    /\ UNCHANGED <<server, capture, audioActive, stepRest, monitorV, hostV, history>>

\* An audio topology change numbers a new session. An Update ends here; a Start
\* goes on to build the graph unless it is already enabled.
Applied ==
    /\ pc = "applied"
    /\ sessionRevision' = IF change = "audio" THEN sessionRevision + 1 ELSE sessionRevision
    /\ IF enabled /\ change = "audio" THEN Show ELSE UNCHANGED shown
    /\ Goto(CASE command.kind = "update" -> "idle"
              [] enabled -> "enable"
              [] OTHER -> "capture")
    /\ UNCHANGED <<enabled, resetting, stopRevision, media, stepRest, monitorV,
                   hostV, countV, intent, owner, graph, lateStops>>

Rejected ==
    /\ pc = "rejected"
    /\ Goto("idle")
    /\ IF ByHost THEN Answer(command.n, "error") ELSE UNCHANGED hostV
    /\ UNCHANGED <<server, media, stepRest, monitorV, countV, history>>

(***************************************************************************)
(* control_task: building a graph, for StartStream, RecoverStream and the  *)
(* window restart.                                                         *)
(***************************************************************************)
\* SharedCapture::start and CaptureSlot::install.
BuildCapture ==
    /\ pc = "capture"
    /\ \/ /\ capture = "none"
          /\ capture' = "live"
          /\ graph' = graph + 1
          /\ owner' = IF ByHost THEN command.n ELSE owner
          /\ pc' = "register"
          /\ UNCHANGED <<built, countV>>
       \/ /\ IF capture = "none" THEN Failing ELSE UNCHANGED countV
          /\ built' = FALSE
          /\ pc' = "built"
          /\ UNCHANGED <<capture, graph, owner>>
    /\ UNCHANGED <<server, primary, audioActive, then, command, seenRevision,
                   change, stepRest, monitorV, hostV, intent, shown, lateStops>>

\* start_primary: the new pipeline is registered with the factory...
RegisterPrimary ==
    /\ pc = "register"
    /\ primary' = IF primary = "none" THEN "starting" ELSE primary
    /\ Goto("ready")
    /\ UNCHANGED <<server, capture, audioActive, stepRest, quiet>>

\* ...and takes the slot of group 0 once wait_until_ready succeeds.
AwaitPrimary ==
    /\ pc = "ready"
    /\ \/ /\ primary' = IF primary = "starting" THEN "ready" ELSE primary
          /\ built' = TRUE
          /\ UNCHANGED countV
       \/ /\ primary' = "none"
          /\ built' = FALSE
          /\ IF capture = "live" THEN Failing ELSE UNCHANGED countV
    /\ pc' = "built"
    /\ UNCHANGED <<server, capture, audioActive, then, command, seenRevision,
                   change, stepRest, monitorV, hostV, history>>

\* The outcome is judged: a Start only asks whether the graph was built, the
\* automatic restarts also whether the host has spoken since.
Built ==
    /\ pc = "built"
    /\ \/ ByHost /\ built /\ Goto("enable") /\ UNCHANGED monitorV
       \/ ByHost /\ ~built /\ TeardownThen("startFailed") /\ UNCHANGED monitorV
       \/ ByMonitor /\ Superseded /\ TeardownThen("idle") /\ UNCHANGED monitorV
       \/ ByObserver /\ Superseded /\ Done
       \/ ~ByHost /\ ~Superseded /\ built /\ Goto("enable") /\ UNCHANGED monitorV
       \/ ByMonitor /\ ~Superseded /\ ~built /\ TeardownThen("recoverFailed") /\ UNCHANGED monitorV
       \/ ByObserver /\ ~Superseded /\ ~built /\ TeardownThen("retry") /\ UNCHANGED monitorV
    /\ UNCHANGED <<server, media, stepRest, hostV, countV, history>>

(***************************************************************************)
(* control_task: publishing the graph.                                     *)
(***************************************************************************)
\* Mutant: only a recovery ends the status "resetting".
EnableStillResetting ==
    /\ pc = "enable"
    /\ enabled' = TRUE
    /\ resetting' = (resetting /\ ~ByMonitor)
    /\ UNCHANGED <<stopRevision, sessionRevision>>
    /\ Show
    /\ Goto(CASE ByHost -> "session" [] ByMonitor -> "recheck" [] OTHER -> "activate")
    /\ UNCHANGED <<media, stepRest, monitorV, hostV, countV, intent, owner,
                   graph, lateStops>>

Enable ==
    /\ pc = "enable"
    /\ enabled' = TRUE
    /\ resetting' = (resetting /\ ByHost)
    /\ UNCHANGED <<stopRevision, sessionRevision>>
    /\ Show
    /\ Goto(CASE ByHost -> "session" [] ByMonitor -> "recheck" [] OTHER -> "activate")
    /\ UNCHANGED <<media, stepRest, monitorV, hostV, countV, intent, owner,
                   graph, lateStops>>

Recheck ==
    /\ pc = "recheck"
    /\ IF Superseded THEN TeardownThen("idle") ELSE Goto("session")
    /\ UNCHANGED <<server, media, stepRest, quiet>>

\* A rebuilt graph is a new session: existing peers must offer again.
NumberSession ==
    /\ pc = "session"
    /\ sessionRevision' = sessionRevision + 1
    /\ IF enabled THEN Show ELSE UNCHANGED shown
    /\ IF ByObserver THEN Done ELSE Goto("activate") /\ UNCHANGED monitorV
    /\ UNCHANGED <<enabled, resetting, stopRevision, media, stepRest, hostV,
                   countV, intent, owner, graph, lateStops>>

Activate ==
    /\ pc = "activate"
    /\ primary' = IF primary = "ready" THEN "active" ELSE primary
    /\ audioActive' = TRUE
    /\ IF ByHost THEN Goto("idle") /\ Answer(command.n, "ok")
                 ELSE Goto("confirm") /\ UNCHANGED hostV
    /\ UNCHANGED <<server, capture, stepRest, monitorV, countV, history>>

\* Mutant: the last look at the revision is missing.
ConfirmBlindly ==
    /\ pc = "confirm"
    /\ \/ ByMonitor /\ Done
       \/ ByObserver /\ Goto("session") /\ UNCHANGED monitorV
    /\ UNCHANGED <<server, media, stepRest, hostV, countV, history>>

Confirm ==
    /\ pc = "confirm"
    /\ \/ ByMonitor /\ Superseded /\ TeardownThen("idle") /\ UNCHANGED monitorV
       \/ ByMonitor /\ ~Superseded /\ Done
       \/ ByObserver /\ Superseded /\ Done
       \/ ByObserver /\ ~Superseded /\ Goto("session") /\ UNCHANGED monitorV
    /\ UNCHANGED <<server, media, stepRest, hostV, countV, history>>

(***************************************************************************)
(* control_task: stop_stream_resources, in two observable parts.           *)
(***************************************************************************)
\* Mutant: the resources are released behind an open gate.
StopRequestedOpen ==
    /\ pc = "disable"
    /\ UNCHANGED <<enabled, sessionRevision>>
    /\ Goto("teardown")
    /\ UNCHANGED <<resetting, stopRevision, media, stepRest, quiet>>

StopRequested ==
    /\ pc = "disable"
    /\ CloseGate
    /\ Goto("teardown")
    /\ UNCHANGED <<resetting, stopRevision, media, stepRest, quiet>>

TornDown ==
    /\ pc = "teardown"
    /\ DetachGraph
    /\ IF then = "idle" THEN Done ELSE Goto(then) /\ UNCHANGED monitorV
    /\ UNCHANGED <<server, stepRest, hostV, countV, history>>

\* Mutant: the failure is reported as success.
StartFailedOk ==
    /\ pc = "startFailed"
    /\ Goto("idle")
    /\ Answer(command.n, "ok")
    /\ UNCHANGED <<server, media, stepRest, monitorV, countV, history>>

StartFailed ==
    /\ pc = "startFailed"
    /\ Goto("idle")
    /\ Answer(command.n, "error")
    /\ UNCHANGED <<server, media, stepRest, monitorV, countV, history>>

(***************************************************************************)
(* control_task: the internal Stop -> Start of RecoverStream and of        *)
(* restart_window_capture_graph_once.                                      *)
(***************************************************************************)
RecoverLoad ==
    /\ pc = "recoverLoad"
    /\ seenRevision' = stopRevision
    /\ \/ /\ MayReportFailure
          /\ pc' = "reset"
          /\ UNCHANGED recoveryPending
       \/ /\ ~MustReportFailure
          /\ pc' = "idle"
          /\ recoveryPending' = FALSE
    /\ UNCHANGED <<server, media, then, command, built, change, monitorPc,
                   stepRest, hostV, countV, history>>

\* prepare_window_capture_restart, after its enabled test: the request may be
\* stale, or it is stamped with the revision current now.
Prepare ==
    /\ pc = "prepare"
    /\ \/ Goto("idle")
       \/ /\ capture # "none"
          /\ pc' = "restart"
          /\ seenRevision' = stopRevision
          /\ UNCHANGED <<then, command, built, change>>
    /\ UNCHANGED <<server, media, stepRest, quiet>>

Restart ==
    /\ pc = "restart"
    /\ Goto(IF Superseded THEN "idle" ELSE "reset")
    /\ UNCHANGED <<server, media, stepRest, quiet>>

Reset ==
    /\ pc = "reset"
    /\ resetting' = TRUE
    /\ TeardownThen("clean")
    /\ UNCHANGED <<enabled, stopRevision, sessionRevision, media, stepRest, quiet>>

Clean ==
    /\ pc = "clean"
    /\ IF Superseded THEN Done ELSE Goto("capture") /\ UNCHANGED monitorV
    /\ UNCHANGED <<server, media, stepRest, hostV, countV, history>>

\* The failed recovery tells the host through the failure callback.
RecoverFailed ==
    /\ pc = "recoverFailed"
    /\ Done
    /\ IF Superseded
       THEN UNCHANGED <<server, hostStatus>>
       ELSE /\ resetting' = FALSE
            /\ enabled' = FALSE
            /\ sessionRevision' = sessionRevision + 1
            /\ UNCHANGED stopRevision
            /\ hostStatus' = "failed"
    /\ UNCHANGED <<media, stepRest, clicks, awaiting, reply, countV, history>>

\* A failed window restart schedules the next attempt under the same revision.
ScheduleRetry ==
    /\ pc = "retry"
    /\ timers' = IF Superseded THEN timers ELSE timers \cup {seenRevision}
    /\ Done
    /\ UNCHANGED <<server, media, control, urgent, queue, urgentV, hostV,
                   countV, history>>

(***************************************************************************)
(* The specification.                                                      *)
(***************************************************************************)
Init ==
    /\ enabled = FALSE /\ resetting = FALSE
    /\ stopRevision = 0 /\ sessionRevision = 0
    /\ capture = "none" /\ primary = "none" /\ audioActive = FALSE
    /\ control = <<>> /\ urgent = <<>> /\ queue = <<>>
    /\ urgentPc = "idle" /\ urgentStop = 0
    /\ pc = "idle" /\ then = "idle" /\ command = NoCommand
    /\ seenRevision = 0 /\ built = FALSE /\ change = "none"
    /\ monitorPc = "idle" /\ recoveryPending = FALSE
    /\ timers = {}
    /\ hostStatus = "ready" /\ clicks = <<>> /\ awaiting = NoCommand /\ reply = "none"
    /\ issued = 0 /\ updates = 0 /\ timeouts = 0 /\ failures = 0 /\ resizes = 0
    /\ intent = "stopped" /\ owner = 0 /\ graph = 0
    /\ shown = [session |-> 0, graph |-> 0]
    /\ lateStops = {}

Host == ClickStart \/ ClickStop \/ SendCommand \/ TakeReply \/ AckTimeout \/ UpdateSettings

Apply == ApplySettings \/ Recapture \/ CheckEncoders \/ ReplaceEncoders \/ Applied \/ Rejected
Build == BuildCapture \/ RegisterPrimary \/ AwaitPrimary \/ Built
Publish == Enable \/ Recheck \/ NumberSession \/ Activate \/ Confirm
StopResources == StopRequested \/ TornDown \/ StartFailed
Rebuild == RecoverLoad \/ Prepare \/ Restart \/ Reset \/ Clean \/ RecoverFailed \/ ScheduleRetry

TakeCommand == TakeStart \/ TakeFinalize \/ TakeUpdate \/ TakeRecover \/ TakeRefresh \/ TakeRetry
Worker == TakeCommand \/ Apply \/ Build \/ Publish \/ StopResources \/ Rebuild

Next ==
    \/ Host
    \/ Forward
    \/ Urgent
    \/ MonitorCheck \/ MonitorClaim
    \/ ObserveResize \/ RetryTimer
    \/ ComponentFails
    \/ Worker

\* Each task is scheduled by the tokio runtime; the UI's worker_loop is a
\* thread of its own. Clicks, resizes, failures and timeouts need not happen.
Fairness ==
    /\ WF_vars(SendCommand) /\ WF_vars(TakeReply)
    /\ WF_vars(Forward)
    /\ WF_vars(Urgent)
    /\ WF_vars(MonitorCheck) /\ WF_vars(MonitorClaim)
    /\ WF_vars(RetryTimer)
    /\ WF_vars(Worker)

Spec == Init /\ [][Next]_vars
FairSpec == Spec /\ Fairness

(***************************************************************************)
(* Properties.                                                             *)
(***************************************************************************)
\* Every variable holds a value of the type its field or channel has in
\* ServerState, run_with_control_readiness and worker_loop.
TypeOK ==
    /\ enabled \in BOOLEAN /\ resetting \in BOOLEAN
    /\ stopRevision \in Nat /\ sessionRevision \in Nat
    /\ capture \in CaptureStates /\ primary \in PrimaryStates
    /\ audioActive \in BOOLEAN
    /\ control \in Seq(ServerCommand) /\ urgent \in Seq(Nat)
    /\ queue \in Seq(ServerCommand)
    /\ urgentPc \in UrgentPcs /\ urgentStop \in Nat
    /\ pc \in WorkerPcs /\ then \in WorkerPcs /\ command \in ServerCommand
    /\ seenRevision \in Nat /\ built \in BOOLEAN /\ change \in Changes
    /\ monitorPc \in {"idle", "claim"} /\ recoveryPending \in BOOLEAN
    /\ timers \in SUBSET Nat
    /\ hostStatus \in {"ready", "starting", "running", "stopping", "failed"}
    /\ clicks \in Seq(ServerCommand) /\ awaiting \in ServerCommand
    /\ reply \in {"none", "ok", "error"}
    /\ {issued, updates, timeouts, failures, resizes} \subseteq Nat
    /\ intent \in {"running", "stopped"} /\ owner \in Nat /\ graph \in Nat
    /\ shown \in [session : Nat, graph : Nat] /\ lateStops \in SUBSET Nat

\* The gate stream_enabled is never open in front of an empty capture slot or an
\* empty primary group: whatever Stop, recovery, resize and update do, an
\* enabled stream has a graph that offers can bind to (its components may have
\* failed or been told to stop).
GraphBehindEnabled == enabled => GraphBuilt

\* Everything a Stop set in motion has happened.
StopSettled ==
    /\ \A i \in DOMAIN control : control[i].kind # "stop"
    /\ urgent = <<>> /\ urgentPc = "idle"
    /\ \A i \in DOMAIN queue : queue[i].kind # "finalize"

\* Stop wins: when the host's last word was Stop and the worker rests, nothing is
\* left of the stream, and no recovery that was under way brought it back.
StopWins ==
    intent = "stopped" /\ pc = "idle" /\ StopSettled
        => ~enabled /\ capture = "none" /\ primary = "none" /\ ~audioActive

\* recovery_pending is exactly "one RecoverStream is queued or being executed":
\* recoveries never pile up behind a slow one, and the flag is never leaked,
\* which would disable automatic recovery for good.
RecoveryFlag ==
    Cardinality({i \in DOMAIN queue : queue[i].kind = "recover"})
      + (IF pc # "idle" /\ ByMonitor THEN 1 ELSE 0)
    = IF recoveryPending THEN 1 ELSE 0

\* The deferred cleanup of a Stop the host saw acknowledged never tears down the
\* graph of a Start clicked after it, although both travel on different channels.
FinalizeSparesLaterStart ==
    pc \in {"disable", "teardown"} /\ command.kind = "finalize"
      /\ capture # "none" /\ command.n \notin lateStops => owner < command.n

\* What the tasks do together is what Stream promises: the gate opens only in front of
\* a whole graph, no graph is begun, completed or discarded behind an open one, and
\* every close and every rebuild gets a media_session_revision of its own, whichever
\* of the worker and the urgent task closes.
Promise == INSTANCE Stream WITH
    live <- enabled, session <- sessionRevision, whole <- GraphBuilt
ImplementsStream == Promise!Spec

\* A Start is acknowledged with success only over an open gate: whatever was
\* queued before it, no acknowledged Stop is still at work (a Stop whose
\* acknowledgement timed out may be).
AckedStartIsLive ==
    [][reply' = "ok" /\ reply # "ok" /\ awaiting.kind = "start"
         => enabled \/ lateStops # {}]_vars

\* A recovery that a Stop or a Start has overtaken leaves the gate closed when
\* its command ends, however late in its publication it was overtaken.
SupersededRecoveryStaysClosed ==
    [][pc \notin {"idle", "recoverLoad"} /\ pc' = "idle" /\ ByMonitor /\ Superseded => ~enabled']_vars

\* A failed component of an enabled stream does not stay: recovery replaces it,
\* or gives up and closes the stream.
FailureHandled == []<>~(enabled /\ MayReportFailure)

\* The host is served: every Stop is carried to its end, also behind an update, a
\* Start or a recovery that was already under way, and the worker answers every
\* Start and the urgent task every Stop.
HostServed ==
    /\ (\E i \in DOMAIN control : control[i].kind = "stop")
           ~> (~enabled /\ capture = "none" /\ primary = "none")
    /\ awaiting # NoCommand ~> awaiting = NoCommand

\* An automatic restart ends, unless the host stops the stream meanwhile.
ResetEnds == resetting ~> ~resetting \/ intent = "stopped"
==============================================================================
