---------------------------- MODULE SharedCapture ----------------------------
(***************************************************************************)
(* One SharedCapture of src/shared_capture.rs: an FFmpeg child process, the *)
(* reader thread that publishes its frames into a single latest-frame slot, *)
(* the cursors of the encoders that consume them, live restarts, and Stop.  *)
(*                                                                         *)
(*   worker   the control task: restart() from apply_capture_settings, and *)
(*            the teardown of stop_stream_resources, never both at once    *)
(*   urgent   urgent_stop_task calling request_stop() at any moment        *)
(*   cleanup  the spawn_blocking thread that runs stop()                   *)
(*   reader   one thread per producer, spawn_reader                        *)
(*   cursor   a SourceSubscription                                         *)
(*                                                                         *)
(* Init is the state SharedCapture::start returns: until then nobody else   *)
(* holds the capture. restart_lock is left out: the worker is its only      *)
(* holder before the teardown and the cleanup thread its only one after.    *)
(* Producers are numbered; producer p publishes frames in the p-th format.  *)
(***************************************************************************)
EXTENDS Naturals

CONSTANTS
    Cursors,        \* the subscriptions of the encoder variants
    MaxRestarts,    \* bound on calls of restart()
    MaxFrames,      \* bound on published frames
    MaxDeaths       \* bound on FFmpeg processes that end on their own

ASSUME BoundsAssumption == {MaxRestarts, MaxFrames, MaxDeaths} \subseteq Nat

Producers == 1 .. MaxRestarts + 1
NoProducer == 0

VARIABLES
    stopped,            \* SharedCaptureInner.stopped
    generation,         \* SharedCaptureInner.generation
    observed,           \* observed_source_dimensions: generation and format
    format,             \* the producer whose CaptureFormat is current
    latest,             \* LatestFrame, and who published the frame
    slot,               \* SharedCaptureInner.child
    childLock,          \* who holds its mutex across a wait, or "free"
    process,            \* what became of each producer's FFmpeg process
    reader, readerGeneration, readerChild,  \* the reader threads
    readerSlot,         \* SharedCaptureInner.reader
    pc, producer, previous, loaded,         \* restart(), in the worker
    stopPc,             \* request_stop(), in the urgent task and in the worker
    teardown,           \* stop_producer(), in the worker and in the cleanup thread
    cursor,             \* seen_sequence and state of each subscription
    restarts, deaths    \* what the bounds count

frames   == <<latest, format, observed>>
children == <<slot, childLock, process>>
readers  == <<reader, readerGeneration, readerChild, readerSlot>>
workerV  == <<pc, producer, previous, loaded>>
stopV    == <<stopPc, teardown>>
counts   == <<restarts, deaths>>
vars     == <<stopped, generation, frames, children, readers, workerV, stopV,
              cursor, counts>>

StopCallers == {"urgent", "worker"}
WorkerPcs == {"idle", "check", "recheck", "spawn", "clear", "load", "reader", "wait",
              "committed", "failed", "stopping", "detached"}
Stoppers == {"worker", "cleanup"}
TeardownPcs == {"off", "advance", "kill", "join", "reap", "reaping"}
ReaderPcs == {"none", "check", "reading", "recheck", "publish", "eof", "exit",
              "lockChild", "waiting", "done"}
StopPcs == {"none", "stop", "advance", "kill", "finish", "done"}

(***************************************************************************)
(* Shared helpers.                                                         *)
(***************************************************************************)
\* advance_capture_generation, under the lock of the observed dimensions.
AdvanceGeneration ==
    /\ generation' = generation + 1
    /\ observed' = [observed EXCEPT !.generation = generation + 1]

\* Child::kill on the process in the slot; a killed FFmpeg exits.
KillChild ==
    process' = IF slot # NoProducer /\ process[slot] = "running"
               THEN [process EXCEPT ![slot] = "exited"] ELSE process

\* finish_reader(None): the bus has ended.
FinishReader == latest' = [latest EXCEPT !.ended = TRUE, !.failed = FALSE]

\* Whether reader p still belongs to the running capture.
Current(p) == ~stopped /\ generation = readerGeneration[p]

\* The worker is at a point of restart() and its stop_producer() has returned.
Ready(label) == pc = label /\ teardown["worker"] = "off"

\* The cleanup thread's stop() has returned.
StopReturned == pc = "detached" /\ teardown["cleanup"] = "off"

\* The reader thread in the slot has finished, or is stuck in a system call so
\* that READER_STOP_TIMEOUT expires and it is detached.
ReaderGone ==
    readerSlot # NoProducer => reader[readerSlot] \in {"done", "reading", "waiting"}

(***************************************************************************)
(* spawn_reader: the thread of producer p.                                 *)
(***************************************************************************)
readerRest == <<stopped, generation, observed, format, workerV, stopV, readerSlot,
                readerGeneration, cursor, counts>>

ReaderGoto(p, label) == reader' = [reader EXCEPT ![p] = label]

ReaderCheck(p) ==
    /\ reader[p] = "check"
    /\ ReaderGoto(p, IF Current(p) THEN "reading" ELSE "exit")
    /\ UNCHANGED <<latest, children, readerChild, readerRest>>

\* read_exact returns a frame, also one that was in the pipe of a killed process.
ReaderRead(p) ==
    /\ reader[p] = "reading"
    /\ latest.sequence < MaxFrames
    /\ ReaderGoto(p, "recheck")
    /\ UNCHANGED <<latest, children, readerChild, readerRest>>

ReaderEof(p) ==
    /\ reader[p] = "reading"
    /\ process[p] # "running"
    /\ ReaderGoto(p, "eof")
    /\ UNCHANGED <<latest, children, readerChild, readerRest>>

ReaderRecheck(p) ==
    /\ reader[p] = "recheck"
    /\ ReaderGoto(p, IF Current(p) THEN "publish" ELSE "exit")
    /\ UNCHANGED <<latest, children, readerChild, readerRest>>

\* Mutant: the frame is published without the second look under the lock.
ReaderPublishBlindly(p) ==
    /\ reader[p] = "publish"
    /\ latest' = [latest EXCEPT !.sequence = @ + 1, !.producer = p]
    /\ ReaderGoto(p, "check")
    /\ UNCHANGED <<children, readerChild, readerRest>>

\* publish_frame_at_for_generation, from the lock of the latest frame on.
ReaderPublish(p) ==
    /\ reader[p] = "publish"
    /\ latest' = IF Current(p)
                 THEN [latest EXCEPT !.sequence = @ + 1, !.producer = p] ELSE latest
    /\ ReaderGoto(p, "check")
    /\ UNCHANGED <<children, readerChild, readerRest>>

\* Mutant: the end of the process is not reported.
ReaderFinishSilently(p) ==
    /\ reader[p] = "eof"
    /\ ReaderGoto(p, "exit")
    /\ UNCHANGED <<latest, children, readerChild, readerRest>>

\* finish_reader_for_generation with the failure.
ReaderFinish(p) ==
    /\ reader[p] = "eof"
    /\ latest' = IF Current(p) THEN [latest EXCEPT !.ended = TRUE, !.failed = TRUE]
                 ELSE latest
    /\ ReaderGoto(p, "exit")
    /\ UNCHANGED <<children, readerChild, readerRest>>

ReaderExit(p) ==
    /\ reader[p] = "exit"
    /\ ReaderGoto(p, IF generation = readerGeneration[p] THEN "lockChild" ELSE "done")
    /\ UNCHANGED <<latest, children, readerChild, readerRest>>

\* The reader of the current generation reaps the process in the slot, holding
\* the mutex of the slot while it waits.
ReaderTakeChild(p) ==
    /\ reader[p] = "lockChild"
    /\ childLock = "free"
    /\ readerChild' = [readerChild EXCEPT ![p] = slot]
    /\ slot' = NoProducer
    /\ IF slot = NoProducer
       THEN ReaderGoto(p, "done") /\ UNCHANGED childLock
       ELSE ReaderGoto(p, "waiting") /\ childLock' = "reader"
    /\ UNCHANGED <<latest, process, readerRest>>

ReaderReap(p) ==
    /\ reader[p] = "waiting"
    /\ process[readerChild[p]] = "exited"
    /\ process' = [process EXCEPT ![readerChild[p]] = "reaped"]
    /\ readerChild' = [readerChild EXCEPT ![p] = NoProducer]
    /\ childLock' = "free"
    /\ ReaderGoto(p, "done")
    /\ UNCHANGED <<latest, slot, readerRest>>

\* Every step but the read itself, which may stall.
ReaderStep(p) ==
    \/ ReaderCheck(p) \/ ReaderEof(p) \/ ReaderRecheck(p) \/ ReaderPublish(p)
    \/ ReaderFinish(p) \/ ReaderExit(p) \/ ReaderTakeChild(p) \/ ReaderReap(p)

\* FFmpeg ends on its own: the monitor is unplugged, the window is closed.
ProcessDies(p) ==
    /\ process[p] = "running"
    /\ deaths < MaxDeaths
    /\ deaths' = deaths + 1
    /\ process' = [process EXCEPT ![p] = "exited"]
    /\ UNCHANGED <<stopped, generation, frames, slot, childLock, readers, workerV,
                   stopV, cursor, restarts>>

(***************************************************************************)
(* request_stop(), by the urgent task or by stop_stream_resources.         *)
(***************************************************************************)
stopRest == <<format, readers, teardown, cursor, counts>>
StopGoto(c, label) == stopPc' = [stopPc EXCEPT ![c] = label]

\* The urgent task finds the capture in the slot; the worker calls it once the
\* command it was executing is finished.
RequestStop(c) ==
    /\ stopPc[c] = "none"
    /\ \/ c = "urgent" /\ pc # "detached" /\ UNCHANGED pc
       \/ c = "worker" /\ Ready("idle") /\ pc' = "stopping"
    /\ StopGoto(c, "stop")
    /\ UNCHANGED <<stopped, generation, observed, latest, children, producer,
                   previous, loaded, stopRest>>

SetStopped(c) ==
    /\ stopPc[c] = "stop"
    /\ stopped' = TRUE
    /\ StopGoto(c, "advance")
    /\ UNCHANGED <<generation, observed, latest, children, workerV, stopRest>>

Invalidate(c) ==
    /\ stopPc[c] = "advance"
    /\ AdvanceGeneration
    /\ StopGoto(c, "kill")
    /\ UNCHANGED <<stopped, latest, children, workerV, stopRest>>

\* try_lock: a held mutex is skipped.
TryKill(c) ==
    /\ stopPc[c] = "kill"
    /\ IF childLock = "free" THEN KillChild ELSE UNCHANGED process
    /\ StopGoto(c, "finish")
    /\ UNCHANGED <<stopped, generation, observed, latest, slot, childLock, workerV,
                   stopRest>>

\* Mutant: the waiting encoders are not told.
EndFramesNot(c) ==
    /\ stopPc[c] = "finish"
    /\ StopGoto(c, "done")
    /\ UNCHANGED <<stopped, generation, observed, latest, children, workerV, stopRest>>

EndFrames(c) ==
    /\ stopPc[c] = "finish"
    /\ FinishReader
    /\ StopGoto(c, "done")
    /\ UNCHANGED <<stopped, generation, observed, children, workerV, stopRest>>

StopStep(c) == SetStopped(c) \/ Invalidate(c) \/ TryKill(c) \/ EndFrames(c)

(***************************************************************************)
(* stop_producer(), by restart() and by stop().                            *)
(***************************************************************************)
teardownRest == <<stopped, format, latest, reader, readerGeneration, readerChild, pc,
                  producer, previous, loaded, stopPc, cursor, counts>>
TeardownGoto(t, label) == teardown' = [teardown EXCEPT ![t] = label]

RetireGeneration(t) ==
    /\ teardown[t] = "advance"
    /\ AdvanceGeneration
    /\ TeardownGoto(t, "kill")
    /\ UNCHANGED <<children, readerSlot, teardownRest>>

KillProducer(t) ==
    /\ teardown[t] = "kill"
    /\ childLock = "free"
    /\ KillChild
    /\ TeardownGoto(t, "join")
    /\ UNCHANGED <<generation, observed, slot, childLock, readerSlot, teardownRest>>

JoinReader(t) ==
    /\ teardown[t] = "join"
    /\ ReaderGone
    /\ readerSlot' = NoProducer
    /\ TeardownGoto(t, "reap")
    /\ UNCHANGED <<generation, observed, children, teardownRest>>

\* Mutant: the process left in the slot is not waited for.
TakeChildUnreaped(t) ==
    /\ teardown[t] = "reap"
    /\ childLock = "free"
    /\ TeardownGoto(t, "off")
    /\ UNCHANGED <<generation, observed, children, readerSlot, teardownRest>>

\* The process left in the slot is waited for, holding the mutex.
TakeChild(t) ==
    /\ teardown[t] = "reap"
    /\ childLock = "free"
    /\ IF slot = NoProducer
       THEN TeardownGoto(t, "off") /\ UNCHANGED childLock
       ELSE TeardownGoto(t, "reaping") /\ childLock' = t
    /\ UNCHANGED <<generation, observed, slot, process, readerSlot, teardownRest>>

ReapChild(t) ==
    /\ teardown[t] = "reaping"
    /\ process[slot] = "exited"
    /\ process' = [process EXCEPT ![slot] = "reaped"]
    /\ slot' = NoProducer
    /\ childLock' = "free"
    /\ TeardownGoto(t, "off")
    /\ UNCHANGED <<generation, observed, readerSlot, teardownRest>>

StopProducer(t) ==
    RetireGeneration(t) \/ KillProducer(t) \/ JoinReader(t) \/ TakeChild(t) \/ ReapChild(t)

(***************************************************************************)
(* restart(), from apply_capture_settings; the teardown of the slot.       *)
(***************************************************************************)
restartRest == <<stopPc, cursor>>

RestartCapture ==
    /\ Ready("idle")
    /\ restarts < MaxRestarts
    /\ restarts' = restarts + 1
    /\ producer' = producer + 1
    /\ pc' = "check"
    /\ UNCHANGED <<stopped, generation, frames, children, readers, previous, loaded,
                   teardown, deaths, restartRest>>

\* restart_with_format up to its first stop_producer.
RestartBegins ==
    /\ Ready("check")
    /\ previous' = IF stopped THEN 0 ELSE latest.sequence
    /\ IF stopped THEN pc' = "idle" /\ UNCHANGED teardown
                  ELSE pc' = "recheck" /\ TeardownGoto("worker", "advance")
    /\ UNCHANGED <<stopped, generation, frames, children, readers, producer, loaded,
                   counts, restartRest>>

NewFormat ==
    /\ Ready("recheck")
    /\ IF stopped
       THEN pc' = "idle" /\ UNCHANGED <<format, observed>>
       ELSE /\ pc' = "spawn"
            /\ format' = producer
            /\ observed' = [generation |-> generation, format |-> producer]
    /\ UNCHANGED <<stopped, generation, latest, children, readers, producer, previous,
                   loaded, teardown, counts, restartRest>>

\* start_producer: spawning FFmpeg may fail.
SpawnChild ==
    /\ Ready("spawn")
    /\ \/ pc' = "failed" /\ UNCHANGED <<slot, process>>
       \/ /\ childLock = "free"
          /\ slot' = producer
          /\ process' = [process EXCEPT ![producer] = "running"]
          /\ pc' = "clear"
    /\ UNCHANGED <<stopped, generation, frames, childLock, readers, producer, previous,
                   loaded, teardown, counts, restartRest>>

ClearEnd ==
    /\ Ready("clear")
    /\ latest' = [latest EXCEPT !.ended = FALSE, !.failed = FALSE]
    /\ pc' = "load"
    /\ UNCHANGED <<stopped, generation, format, observed, children, readers, producer,
                   previous, loaded, teardown, counts, restartRest>>

LoadGeneration ==
    /\ Ready("load")
    /\ loaded' = generation
    /\ pc' = "reader"
    /\ UNCHANGED <<stopped, generation, frames, children, readers, producer, previous,
                   teardown, counts, restartRest>>

SpawnReader ==
    /\ Ready("reader")
    /\ childLock = "free"
    /\ reader' = [reader EXCEPT ![producer] = "check"]
    /\ readerGeneration' = [readerGeneration EXCEPT ![producer] = loaded]
    /\ readerSlot' = producer
    /\ loaded' = 0
    /\ pc' = "wait"
    /\ UNCHANGED <<stopped, generation, frames, children, readerChild, producer,
                   previous, teardown, counts, restartRest>>

\* wait_for_new_frame: a frame, the end of the bus, or STARTUP_FRAME_TIMEOUT.
AwaitFrame ==
    /\ Ready("wait")
    /\ \/ ~latest.ended /\ latest.sequence > previous /\ pc' = "committed"
       \/ (latest.ended \/ latest.sequence <= previous) /\ pc' = "failed"
    /\ previous' = 0
    /\ UNCHANGED <<stopped, generation, frames, children, readers, producer, loaded,
                   teardown, counts, restartRest>>

Restarted ==
    /\ Ready("committed")
    /\ pc' = "idle"
    /\ UNCHANGED <<stopped, generation, frames, children, readers, producer, previous,
                   loaded, teardown, counts, restartRest>>

RestartFailed ==
    /\ Ready("failed")
    /\ pc' = "idle"
    /\ TeardownGoto("worker", "advance")
    /\ UNCHANGED <<stopped, generation, frames, children, readers, producer, previous,
                   loaded, counts, restartRest>>

\* stop_stream_resources has taken the capture out of its slot and requested the
\* stop; a blocking thread runs stop().
DetachCapture ==
    /\ Ready("stopping")
    /\ stopPc["worker"] = "done"
    /\ pc' = "detached"
    /\ stopped' = TRUE
    /\ TeardownGoto("cleanup", "advance")
    /\ UNCHANGED <<generation, frames, children, readers, producer, previous, loaded,
                   counts, restartRest>>

Restart == RestartBegins \/ NewFormat \/ SpawnChild \/ ClearEnd \/ LoadGeneration
           \/ SpawnReader \/ AwaitFrame \/ Restarted \/ RestartFailed \/ DetachCapture

(***************************************************************************)
(* SourceSubscription: recv() by an encoder, subscribe() by its replacement. *)
(***************************************************************************)
cursorRest == <<stopped, generation, frames, children, readers, workerV, stopV, counts>>

\* Mutant: a replacement encoder may take the cached frame.
SubscribeIncludingLatest(c) ==
    /\ cursor[c].state = "none"
    /\ pc # "detached"
    /\ cursor' = [cursor EXCEPT ![c] = [state |-> "waiting", seen |-> latest.sequence - 1,
                                        since |-> format, got |-> NoProducer]]
    /\ UNCHANGED cursorRest

\* Encoders are created by several tasks, also while a restart is under way; each
\* subscribes once.
Subscribe(c) ==
    /\ cursor[c].state = "none"
    /\ pc # "detached"
    /\ cursor' = [cursor EXCEPT ![c] = [state |-> "waiting", seen |-> latest.sequence,
                                        since |-> format, got |-> NoProducer]]
    /\ UNCHANGED cursorRest

Receive(c) ==
    /\ cursor[c].state = "waiting"
    /\ latest.sequence > cursor[c].seen
    /\ cursor' = [cursor EXCEPT ![c].seen = latest.sequence, ![c].got = latest.producer]
    /\ UNCHANGED cursorRest

SourceEnded(c) ==
    /\ cursor[c].state = "waiting"
    /\ latest.sequence <= cursor[c].seen
    /\ latest.ended
    /\ cursor' = [cursor EXCEPT ![c].state = "ended"]
    /\ UNCHANGED cursorRest

Cursor(c) == Subscribe(c) \/ Receive(c) \/ SourceEnded(c)

(***************************************************************************)
(* The specification. Init: the first producer runs and has delivered its  *)
(* first frame, which wait_for_new_frame has seen.                         *)
(***************************************************************************)
First(value, rest) == [p \in Producers |-> IF p = 1 THEN value ELSE rest]

Init ==
    /\ stopped = FALSE /\ generation = 1
    /\ observed = [generation |-> 1, format |-> 1] /\ format = 1
    /\ latest = [sequence |-> 1, producer |-> 1, ended |-> FALSE, failed |-> FALSE]
    /\ slot = 1 /\ childLock = "free" /\ process = First("running", "none")
    /\ reader = First("check", "none")
    /\ readerGeneration = First(1, 0)
    /\ readerChild = [p \in Producers |-> NoProducer]
    /\ readerSlot = 1
    /\ pc = "idle" /\ producer = 1 /\ previous = 0 /\ loaded = 0
    /\ stopPc = [c \in StopCallers |-> "none"]
    /\ teardown = [t \in Stoppers |-> "off"]
    /\ cursor = [c \in Cursors |-> [state |-> "none", seen |-> 0, since |-> 1,
                                    got |-> NoProducer]]
    /\ restarts = 0 /\ deaths = 0

Next ==
    \/ \E p \in Producers : ReaderRead(p) \/ ReaderStep(p) \/ ProcessDies(p)
    \/ \E c \in StopCallers : RequestStop(c) \/ StopStep(c)
    \/ \E t \in Stoppers : StopProducer(t)
    \/ RestartCapture \/ Restart
    \/ \E c \in Cursors : Cursor(c)

\* Threads are scheduled and deadlines expire. A read of the pipe may stall as
\* long as FFmpeg runs; FFmpeg need not die, and nobody has to call restart(),
\* request_stop() or subscribe().
Fairness ==
    /\ \A p \in Producers : WF_vars(ReaderStep(p))
    /\ \A c \in StopCallers : WF_vars(StopStep(c))
    /\ \A t \in Stoppers : WF_vars(StopProducer(t))
    /\ WF_vars(Restart)
    /\ \A c \in Cursors : WF_vars(Receive(c) \/ SourceEnded(c))

Spec == Init /\ [][Next]_vars
FairSpec == Spec /\ Fairness

(***************************************************************************)
(* Properties.                                                             *)
(***************************************************************************)
\* Every variable has the type of the field or local it stands for.
TypeOK ==
    /\ stopped \in BOOLEAN /\ generation \in Nat
    /\ observed \in [generation : Nat, format : Producers] /\ format \in Producers
    /\ latest \in [sequence : Nat, producer : Producers, ended : BOOLEAN, failed : BOOLEAN]
    /\ slot \in Producers \cup {NoProducer}
    /\ childLock \in {"free", "reader", "worker", "cleanup"}
    /\ process \in [Producers -> {"none", "running", "exited", "reaped"}]
    /\ reader \in [Producers -> ReaderPcs] /\ readerGeneration \in [Producers -> Nat]
    /\ readerChild \in [Producers -> Producers \cup {NoProducer}]
    /\ readerSlot \in Producers \cup {NoProducer}
    /\ pc \in WorkerPcs /\ producer \in Producers /\ previous \in Nat /\ loaded \in Nat
    /\ stopPc \in [StopCallers -> StopPcs] /\ teardown \in [Stoppers -> TeardownPcs]
    /\ cursor \in [Cursors -> [state : {"none", "waiting", "ended"}, seen : Nat,
                               since : Producers, got : Producers \cup {NoProducer}]]
    /\ restarts \in 0 .. MaxRestarts /\ deaths \in Nat

\* When stop() has returned, no FFmpeg process of any restart is left behind,
\* whoever of the reader, restart() and stop() had to reap it.
NoProcessLeft == StopReturned => \A p \in Producers : process[p] \in {"none", "reaped"}

\* Once request_stop() has returned nothing is published any more, not by a
\* reader that was already past its checks, nor by a detached one.
QuietAfterStop ==
    [][(\E c \in StopCallers : stopPc[c] = "done") => latest'.sequence = latest.sequence]_vars

\* An encoder that subscribed after a format change never receives a frame of an
\* older format, neither the cached one nor one of a detached reader.
CursorFresh ==
    \A c \in Cursors : cursor[c].got # NoProducer => cursor[c].got >= cursor[c].since

\* The teardown releases every encoder that waits in recv().
CursorsEnd == pc = "detached" ~> \A c \in Cursors : cursor[c].state # "waiting"

\* A process that dies on its own is reported to the consumers of the bus, unless
\* a restart or a stop comes first.
EofReported ==
    Ready("idle") /\ process[format] = "exited" /\ ~stopped
        ~> latest.ended \/ stopped \/ ~Ready("idle")
==============================================================================
