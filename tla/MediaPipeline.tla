----------------------------- MODULE MediaPipeline -----------------------------
(***************************************************************************)
(* One encoder of src/media.rs: MediaPipeline and its threads.              *)
(*                                                                         *)
(*   loop     run_shared_source_loop, run_shared_source_encoder and the     *)
(*            reader of the encoded stream, on one blocking thread          *)
(*   writer   the scoped thread that feeds captured frames to FFmpeg        *)
(*   killer   spawn_child_killer                                           *)
(*   host     request_stop and reconfigure, called by the server            *)
(*                                                                         *)
(* FFmpeg, the child, holds up to Capacity frames and returns them in order; *)
(* the capture publishes frames until it ends. A frame is numbered modulo   *)
(* Ids. What is written to the viewers is the subject of ViewerQueue.       *)
(***************************************************************************)
EXTENDS Integers, Sequences, SequencesExt

CONSTANTS
    Settings,       \* CaptureSettings
    Capacity,       \* frames in FFmpeg and its pipes
    Ids,            \* frame numbers in use, more than can be under way
    TimingLimit,    \* ENCODER_TIMING_QUEUE_LIMIT
    BacklogFrames,  \* ENCODER_BACKLOG_RESTART_FRAMES
    MaxRevision,    \* bound on capture_revision
    None            \* no frame, no settings

\* Assumed of the constants. The timings of all frames under way fit their queue:
\* ENCODER_TIMING_QUEUE_LIMIT is 120.
ASSUME PipelineAssumption ==
    /\ Capacity \in Nat \ {0} /\ Ids \in Nat /\ TimingLimit \in Nat
    /\ Capacity + 1 < Ids /\ Capacity + 1 <= TimingLimit
    /\ BacklogFrames \in Nat \ {0} /\ MaxRevision \in Nat \ {0} /\ None \notin Settings

VARIABLES
    stop, settings, revision, \* stop, capture_settings, capture_revision
    updating,       \* reconfigure holds capture_settings: the settings are new,
                    \* the revision is not
    readiness, failure, ended,
    pc, run,        \* the loop: where it is, the revision and settings it runs
    result,         \* stream_result
    backlog,        \* consecutive_backlog_frames
    child,          \* the FFmpeg process
    inside,         \* frames in the process that have not come out
    submitted,      \* EncoderTiming.submitted_frames
    writer, frame,  \* the writer thread and the frame it writes
    killer, done,   \* the killer thread and its done flag
    fresh, sourceEnded, nextId, \* the capture
    broken,         \* history: the process or the capture ended by itself
    attributed      \* history: every timing went to its own picture

host    == <<stop, settings, revision, updating>>
status  == <<readiness, failure, ended>>
process == <<child, inside>>
source  == <<fresh, sourceEnded, nextId>>
history == <<broken, attributed>>
loop    == <<pc, run, result, backlog>>
threads == <<submitted, writer, frame, killer, done>>
vars    == <<host, status, loop, process, threads, source, history>>

NoRun == [revision |-> 0, settings |-> None]

\* spawn_from_shared_source calls reconfigure before it spawns the loop.
Init ==
    /\ stop = FALSE /\ settings \in Settings /\ revision = 1 /\ updating = FALSE
    /\ readiness = "pending" /\ failure = FALSE /\ ended = FALSE
    /\ pc = "revision" /\ run = NoRun /\ result = "ok" /\ backlog = 0
    /\ child = "none" /\ inside = <<>> /\ submitted = <<>>
    /\ writer = "none" /\ frame = None /\ killer = "none" /\ done = FALSE
    /\ fresh = FALSE /\ sourceEnded = FALSE /\ nextId = 0
    /\ broken = FALSE /\ attributed = TRUE

(***************************************************************************)
(* The host.                                                               *)
(***************************************************************************)

\* request_stop: the flag, then try_lock and kill of the registered processes.
\* A process that is not registered yet is left to its killer.
RequestStop ==
    /\ ~stop
    /\ stop' = TRUE
    /\ child' = IF child = "running" THEN "dead" ELSE child
    /\ UNCHANGED <<settings, revision, updating, status, loop, inside, threads, source, history>>

\* reconfigure, under the lock of capture_settings. Equal settings change nothing.
Reconfigure(s) ==
    /\ ~updating /\ s # settings /\ revision < MaxRevision
    /\ settings' = s /\ updating' = TRUE
    /\ UNCHANGED <<stop, revision, status, loop, process, threads, source, history>>

\* Mutant: the new settings do not restart the encoder.
ReviseNothing ==
    /\ updating
    /\ updating' = FALSE
    /\ UNCHANGED <<stop, settings, revision, status, loop, process, threads, source, history>>

Revise ==
    /\ updating
    /\ revision' = revision + 1 /\ updating' = FALSE
    /\ UNCHANGED <<stop, settings, status, loop, process, threads, source, history>>

(***************************************************************************)
(* The capture and the process, which end by themselves as well.            *)
(***************************************************************************)
Publish ==
    /\ ~sourceEnded /\ ~fresh
    /\ fresh' = TRUE
    /\ UNCHANGED <<host, status, loop, process, threads, sourceEnded, nextId, history>>

SourceEnds ==
    /\ ~sourceEnded
    /\ sourceEnded' = TRUE /\ broken' = TRUE
    /\ UNCHANGED <<host, status, loop, process, threads, fresh, nextId, attributed>>

ChildCrashes ==
    /\ child \in {"spawned", "running"}
    /\ child' = "dead" /\ broken' = TRUE
    /\ UNCHANGED <<host, status, loop, inside, threads, source, attributed>>

\* FFmpeg ends when its input is closed and everything is out.
ChildFinishes ==
    /\ child = "running" /\ writer = "ended" /\ inside = <<>>
    /\ child' = "dead"
    /\ UNCHANGED <<host, status, loop, inside, threads, source, history>>

(***************************************************************************)
(* The loop.                                                               *)
(***************************************************************************)
LoopAt(place) == pc' = place

ReadRevision ==
    /\ pc = "revision" /\ ~stop
    /\ LoopAt("settings") /\ run' = [NoRun EXCEPT !.revision = revision]
    /\ UNCHANGED <<host, status, result, backlog, process, threads, source, history>>

ReadSettings ==
    /\ pc = "settings" /\ ~updating
    /\ LoopAt("spawn") /\ run' = [run EXCEPT !.settings = settings]
    /\ UNCHANGED <<host, status, result, backlog, process, threads, source, history>>

\* The settings need a higher level than the encoder was given, or FFmpeg does
\* not start.
SpawnFails ==
    /\ pc = "spawn"
    /\ LoopAt("recheck") /\ result' = "error" /\ broken' = TRUE
    /\ UNCHANGED <<host, status, run, backlog, process, threads, source, attributed>>

Spawn ==
    /\ pc = "spawn"
    /\ LoopAt("register") /\ child' = "spawned" /\ inside' = <<>>
    /\ UNCHANGED <<host, status, run, result, backlog, threads, source, history>>

\* The process is listed in encoder_children, its killer and its writer start.
Register ==
    /\ pc = "register"
    /\ LoopAt("stream") /\ backlog' = 0
    /\ child' = IF child = "spawned" THEN "running" ELSE child
    /\ submitted' = <<>> /\ writer' = "check" /\ killer' = "poll" /\ done' = FALSE
    /\ UNCHANGED <<host, status, run, result, inside, frame, source, history>>

\* encoded_frame_timing takes the oldest submitted frame for the picture.
Timed(id) ==
    /\ submitted' = IF submitted = <<>> THEN <<>> ELSE Tail(submitted)
    /\ attributed' = (attributed /\ (submitted = <<>> \/ Head(submitted) = id))

\* encoder_backlog_requires_restart: after BacklogFrames late pictures in a row.
CountBacklog(late) ==
    LET count == IF late THEN backlog + 1 ELSE 0
    IN  IF count < BacklogFrames
        THEN backlog' = count /\ UNCHANGED <<revision, pc, result>>
        ELSE backlog' = 0 /\ revision' = revision + 1 /\ result' = "ok" /\ LoopAt("reap")

\* A picture comes out. Whether its age reaches ENCODER_BACKLOG_RESTART_AGE is
\* up to the encoder; without a timing it has no age.
ReadPicture(late) ==
    /\ pc = "stream" /\ inside # <<>>
    /\ late => submitted # <<>> /\ revision < MaxRevision
    /\ inside' = Tail(inside)
    /\ Timed(Head(inside))
    /\ readiness' = IF readiness = "pending" THEN "ready" ELSE readiness
    /\ CountBacklog(late)
    /\ UNCHANGED <<stop, settings, updating, failure, ended, run, child,
                   writer, frame, killer, done, source, broken>>

\* The loop of the reader sees stop, or its stream ends.
StreamEnds ==
    /\ pc = "stream" /\ (stop \/ child = "dead")
    /\ LoopAt("reap") /\ result' = IF stop THEN "ok" ELSE "error"
    /\ UNCHANGED <<host, status, run, backlog, process, threads, source, history>>

\* kill and wait, under the lock of the process, then the killer is told.
Reap ==
    /\ pc = "reap"
    /\ LoopAt("join") /\ child' = "dead" /\ done' = TRUE
    /\ UNCHANGED <<host, status, run, result, backlog, inside, submitted,
                   writer, frame, killer, source, history>>

\* killer.join, writer.join, stream_result.and(writer_result)
Join ==
    /\ pc = "join" /\ killer = "ended" /\ writer \in {"ended", "failed"}
    /\ LoopAt("recheck")
    /\ result' = IF writer = "failed" THEN "error" ELSE result
    /\ UNCHANGED <<host, status, run, backlog, process, threads, source, history>>

\* record_result
Finish(error) ==
    /\ LoopAt("done") /\ ended' = TRUE
    /\ failure' = error
    /\ readiness' = IF error /\ readiness = "pending" THEN "failed" ELSE readiness

\* Mutant: the end of a process that a reconfiguration killed is a result.
RecheckStopOnly ==
    /\ pc = "recheck"
    /\ Finish(~stop /\ result = "error")
    /\ UNCHANGED <<host, run, result, backlog, process, threads, source, history>>

\* What ended the encoder: a stop, a new revision, or neither.
Recheck ==
    /\ pc = "recheck"
    /\ IF ~stop /\ revision # run.revision THEN LoopAt("revision") /\ UNCHANGED status
       ELSE Finish(~stop /\ result = "error")
    /\ UNCHANGED <<host, run, result, backlog, process, threads, source, history>>

StoppedBetweenRuns ==
    /\ pc = "revision" /\ stop
    /\ Finish(FALSE)
    /\ UNCHANGED <<host, run, result, backlog, process, threads, source, history>>

(***************************************************************************)
(* The writer and the killer.                                              *)
(***************************************************************************)
Superseded == stop \/ revision # run.revision

WriterCheck ==
    /\ writer = "check"
    /\ writer' = IF Superseded THEN "ended" ELSE "recv"
    /\ UNCHANGED <<host, status, loop, process, submitted, frame, killer, done, source, history>>

\* recv returns a newer frame; it is skipped when it comes too early, refused
\* when its format has changed, and otherwise recorded and written.
WriterSkips ==
    /\ writer = "recv" /\ fresh
    /\ fresh' = FALSE /\ writer' = "check"
    /\ UNCHANGED <<host, status, loop, process, submitted, frame, killer, done,
                   sourceEnded, nextId, history>>

WriterRefuses ==
    /\ writer = "recv" /\ fresh
    /\ fresh' = FALSE /\ writer' = "failed" /\ broken' = TRUE
    /\ UNCHANGED <<host, status, loop, process, submitted, frame, killer, done,
                   sourceEnded, nextId, attributed>>

\* EncoderTiming::record_input
Record(q, id) ==
    LET kept == IF Len(q) >= TimingLimit THEN Tail(q) ELSE q IN Append(kept, id)

WriterTakes ==
    /\ writer = "recv" /\ fresh
    /\ fresh' = FALSE /\ writer' = "write"
    /\ frame' = nextId /\ nextId' = (nextId + 1) % Ids
    /\ submitted' = Record(submitted, nextId)
    /\ UNCHANGED <<host, status, loop, process, killer, done, sourceEnded, history>>

\* recv: the capture has ended, with or without a failure.
WriterEof ==
    /\ writer = "recv" /\ ~fresh /\ sourceEnded
    /\ writer' \in {"ended", "failed"}
    /\ UNCHANGED <<host, status, loop, process, submitted, frame, killer, done, source, history>>

WriterWrites ==
    /\ writer = "write" /\ child = "running" /\ Len(inside) < Capacity
    /\ inside' = Append(inside, frame)
    /\ writer' = "check" /\ frame' = None
    /\ UNCHANGED <<host, status, loop, child, submitted, killer, done, source, history>>

\* Mutant: discard_input removes the oldest frame.
DiscardOldest(q, id) == Tail(q)

\* EncoderTiming::discard_input: the newest entry with this time, if any.
Discard(q, id) ==
    LET index == SelectLastInSeq(q, LAMBDA entry : entry = id)
    IN  IF index = 0 THEN q ELSE RemoveAt(q, index)

WriterFails ==
    /\ writer = "write" /\ child = "dead"
    /\ writer' = "failed" /\ frame' = None
    /\ submitted' = Discard(submitted, frame)
    /\ UNCHANGED <<host, status, loop, process, killer, done, source, history>>

\* Mutant: the killer waits for a stop only.
KillerIgnoresRevision ==
    /\ killer = "poll" /\ (stop \/ done)
    /\ killer' = "ended"
    /\ child' = IF done THEN child ELSE "dead"
    /\ UNCHANGED <<host, status, loop, inside, submitted, writer, frame, done, source, history>>

Killer ==
    /\ killer = "poll" /\ (Superseded \/ done)
    /\ killer' = "ended"
    /\ child' = IF done THEN child ELSE "dead"
    /\ UNCHANGED <<host, status, loop, inside, submitted, writer, frame, done, source, history>>

(***************************************************************************)
(* Specification.                                                          *)
(***************************************************************************)
LoopStep ==
    \/ ReadRevision \/ ReadSettings \/ Spawn \/ Register
    \/ StreamEnds \/ Reap \/ Join \/ Recheck \/ StoppedBetweenRuns

WriterStep ==
    \/ WriterCheck \/ WriterSkips \/ WriterTakes \/ WriterEof
    \/ WriterWrites \/ WriterFails

Next ==
    \/ RequestStop \/ Revise \/ \E s \in Settings : Reconfigure(s)
    \/ Publish \/ SourceEnds \/ ChildCrashes \/ ChildFinishes
    \/ LoopStep \/ SpawnFails \/ \E late \in BOOLEAN : ReadPicture(late)
    \/ WriterStep \/ WriterRefuses \/ Killer

\* The threads run. A capture that has not ended keeps publishing: the writer,
\* which every end of a run waits for, is released by nothing else.
Fairness ==
    /\ WF_vars(Revise) /\ WF_vars(LoopStep) /\ WF_vars(WriterStep) /\ WF_vars(Killer)
    /\ WF_vars(Publish)

Spec == Init /\ [][Next]_vars /\ Fairness

(***************************************************************************)
(* Properties.                                                             *)
(***************************************************************************)

\* An encoder that no change of the revision is about to restart runs with the
\* settings in force: reconfigure and the loop read and write the revision and
\* the settings in an order that loses no update.
SettingsInForce ==
    pc \in {"spawn", "register", "stream"} /\ run.revision = revision /\ ~updating
        => run.settings = settings

\* The capture time a picture is given is that of the frame it was made from,
\* although the two only meet as the heads of two queues in two threads.
TimingExact == attributed

\* A stop or a new revision kills the process and so ends its stream with an
\* error; that error is never recorded. What ends for another reason is always
\* recorded, for the health monitor and for the caller of wait_until_ready.
FailureMeansBroken ==
    /\ failure => broken
    /\ ended /\ ~stop => failure /\ readiness # "pending"

\* A stop ends the pipeline, and settings that stay take effect, whatever place
\* the loop, the writer and the killer are in when they come.
HostIsHeard ==
    <>[](ended \/ (~stop /\ (pc = "stream" => run.settings = settings)))
==============================================================================
