-------------------------------- MODULE MCMedia --------------------------------
(***************************************************************************)
(* Model checking of the six machines around a quality group: the encoder,   *)
(* the queue of a viewer, the audio input, the pacing of the audio, the       *)
(* capture of a window and the monitor of its size. They share no state; a    *)
(* behaviour is one of them running while the others wait in an initial       *)
(* state.                                                                  *)
(***************************************************************************)
EXTENDS MediaPipeline

CONSTANTS
    Limit, MaxSamples,                                  \* of ViewerQueue
    Inputs, Off, MaxAudioRevision,                      \* of AudioPipeline
    BacklogCapacity, LiveEdgeFrames, QueueCapacity, MaxGap, MaxFrames, \* of AudioPacing
    Sizes, TitleBar, Format, MaxChanges,                \* of WindowCapture
    Windows, Dimensions, MaxMonitored, MaxEvents        \* of ResizeMonitor

VARIABLES
    part,       \* the machine that runs
    ordered, subscription, stopped, closer, closed, samples, permit, producer, viewerWriter,
    newest, shown,
    audioStop, active, audioSettings, audioRevision, audioFailure, audioEnded,
    reconfiguring, swapped, audioPc, audioRun, stream,
    audioBacklog, pending, sent, packets, audioWriter, wire, unwritten, captured, waited,
    shownSize, hidden, exists, native_id, surfaceChanges, frames, latest, pending_resize,
    sessionFailure, sessionClosed, readerPc, update, latest_frame, was_minimized, retired,
    bus, captureEnded, frameFailed,
    selected, size, minimized, moving, changes, events, watched, hooked, interactive,
    candidate, settled, emitted, hurried, refresh, restart, superseded, enabled, canvas

Parts == {"encoder", "viewer", "input", "audio", "window", "resize"}

Viewer == INSTANCE ViewerQueue WITH writer <- viewerWriter

Input == INSTANCE AudioPipeline WITH
    stop <- audioStop, settings <- audioSettings, revision <- audioRevision,
    failure <- audioFailure, ended <- audioEnded, pc <- audioPc, run <- audioRun,
    MaxRevision <- MaxAudioRevision

Audio == INSTANCE AudioPacing WITH
    backlog <- audioBacklog, queue <- packets, writer <- audioWriter

Window == INSTANCE WindowCapture WITH
    size <- shownSize, minimized <- hidden, changes <- surfaceChanges,
    failure <- sessionFailure, closed <- sessionClosed, pc <- readerPc,
    ended <- captureEnded, failed <- frameFailed

Monitor == INSTANCE ResizeMonitor WITH
    source <- selected, MaxChanges <- MaxMonitored

viewer  == <<ordered, subscription, stopped, closer, closed, samples, permit, producer,
             viewerWriter, newest, shown>>
input   == <<audioStop, active, audioSettings, audioRevision, audioFailure, audioEnded,
             reconfiguring, swapped, audioPc, audioRun, stream>>
audio   == <<audioBacklog, pending, sent, packets, audioWriter, wire, unwritten, captured, waited>>
capture == <<shownSize, hidden, exists, native_id, surfaceChanges, frames, latest,
             pending_resize, sessionFailure, sessionClosed, readerPc, update, latest_frame,
             was_minimized, retired, bus, captureEnded, frameFailed>>
resize  == <<selected, size, minimized, moving, changes, events, watched, hooked, interactive,
             candidate, settled, emitted, hurried, refresh, restart, superseded, enabled, canvas>>
MCVars  == <<part, vars, viewer, input, audio, capture, resize>>

\* Settings, inputs and sizes are interchangeable: a behaviour starts with the first.
MCInit ==
    /\ part \in Parts
    /\ Init /\ Viewer!Init /\ Input!Init /\ Audio!Init /\ Window!Init /\ Monitor!Init
    /\ part # "viewer" => ordered
    /\ settings = "s1"
    /\ audioSettings = IF part = "input" THEN "i1" ELSE "off"
    /\ size = "large" /\ (part # "window" => native_id)

EncoderRuns == part = "encoder" /\ UNCHANGED <<part, viewer, input, audio, capture, resize>>
ViewerRuns  == part = "viewer" /\ UNCHANGED <<part, vars, input, audio, capture, resize>>
InputRuns   == part = "input" /\ UNCHANGED <<part, vars, viewer, audio, capture, resize>>
AudioRuns   == part = "audio" /\ UNCHANGED <<part, vars, viewer, input, capture, resize>>
WindowRuns  == part = "window" /\ UNCHANGED <<part, vars, viewer, input, audio, resize>>
ResizeRuns  == part = "resize" /\ UNCHANGED <<part, vars, viewer, input, audio, capture>>

MCNext ==
    \/ EncoderRuns /\ Next
    \/ ViewerRuns /\ Viewer!Next
    \/ InputRuns /\ Input!Next
    \/ AudioRuns /\ Audio!Next
    \/ WindowRuns /\ Window!Next
    \/ ResizeRuns /\ Monitor!Next

\* The fairness of each machine. Only one of them runs, so one condition can stand
\* for a process of each.
MCFairness ==
    /\ WF_MCVars(\/ EncoderRuns /\ Revise
                 \/ ViewerRuns /\ Viewer!CallerStep
                 \/ InputRuns /\ Input!Swapped
                 \/ WindowRuns /\ Window!ItemClosed
                 \/ ResizeRuns /\ Monitor!EventTick)
    /\ WF_MCVars(\/ EncoderRuns /\ LoopStep
                 \/ ViewerRuns /\ Viewer!ProducerStep
                 \/ InputRuns /\ Input!Revises
                 \/ WindowRuns /\ Window!Reader
                 \/ ResizeRuns /\ Monitor!SafetyTick)
    /\ WF_MCVars(\/ EncoderRuns /\ WriterStep
                 \/ ViewerRuns /\ Viewer!WriterStep
                 \/ InputRuns /\ Input!ThreadStep
                 \/ ResizeRuns /\ Monitor!Settle)
    /\ WF_MCVars((EncoderRuns /\ Killer) \/ (ResizeRuns /\ Monitor!Control))
    /\ WF_MCVars(EncoderRuns /\ Publish)

MCSpec == MCInit /\ [][MCNext]_MCVars /\ MCFairness

\* What is assumed of the constants of the machines.
ASSUME MCAssumption ==
    /\ Viewer!LimitsAssumption /\ Input!InputsAssumption /\ Audio!CapacitiesAssumption
    /\ Window!WindowAssumption /\ Monitor!ResizeAssumption

(***************************************************************************)
(* The properties of the machines.                                         *)
(***************************************************************************)
\* A viewer's queue implements LiveEdge.
KeepsLiveEdge == Viewer!KeepsLiveEdge
\* The audio input that is open is the one the settings name.
SettingsHeard == Input!SettingsHeard
\* Lost audio becomes a gap in RTP time, once.
TimeKept == Audio!TimeKept
\* A surface of a minimized window is not shown before the window was restored.
MinimizedNotShown == Window!MinimizedNotShown
\* A capture whose window or session is gone ends.
EndsReported == Window!EndsReported
\* The capture ends up in the size of its window.
FollowsWindow == Monitor!FollowsWindow
================================================================================
