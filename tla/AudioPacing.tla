------------------------------ MODULE AudioPacing ------------------------------
(***************************************************************************)
(* The way of the audio from the native stream to one viewer (src/audio.rs): *)
(* the inner loop of AudioPipeline::run with its bounded backlog, broadcast, *)
(* the bounded queue of the viewer and its run_writer.                      *)
(*                                                                         *)
(* Audio is dropped at five places: by the capture, at a splice that is not  *)
(* encoded, in the backlog, as a malformed chunk and in the viewer's queue.  *)
(* Each drop is to become a gap in the RTP time of the next packet. A chunk  *)
(* or a packet is the number of packets lost right before it; the payload is *)
(* left out, and so is u16::MAX, which stands for 22 minutes.               *)
(***************************************************************************)
EXTENDS Integers, Sequences, Sums

CONSTANTS
    BacklogCapacity,    \* AUDIO_CAPTURE_BACKLOG_CAPACITY
    LiveEdgeFrames,     \* AUDIO_STALL_LIVE_EDGE_FRAMES
    QueueCapacity,      \* AUDIO_QUEUE_CAPACITY
    MaxGap,             \* bound on what the capture or a stall loses at once
    MaxFrames           \* bound on the audio of a behaviour, in packets

\* Assumed of the constants.
CapacitiesAssumption ==
    /\ BacklogCapacity \in Nat \ {0} /\ LiveEdgeFrames \in Nat \ {0}
    /\ QueueCapacity \in Nat \ {0} /\ MaxGap \in Nat /\ MaxFrames \in Nat

VARIABLES
    backlog,    \* capture_backlog
    pending,    \* pending_dropped_packets
    sent,       \* last_broadcast_at is set
    queue,      \* samples of the viewer's AudioQueue
    writer,     \* run_writer is alive
    wire,       \* packets of RTP time the viewer was given
    unwritten,  \* history: packets of time of the write that failed
    captured,   \* history: packets of time the capture reported and did not discard
    waited      \* history: packets of time the wall clock ran ahead of the capture

vars == <<backlog, pending, sent, queue, writer, wire, unwritten, captured, waited>>

Init ==
    /\ backlog = <<>> /\ pending = 0 /\ sent = FALSE
    /\ queue = <<>> /\ writer = TRUE
    /\ wire = 0 /\ unwritten = 0 /\ captured = 0 /\ waited = 0

Larger(a, b) == IF a > b THEN a ELSE b

\* The time chunks or packets stand for: each its gap and itself.
Time(q) == Total(q) + Len(q)

\* enqueue_bounded_capture_chunk: the oldest chunk goes.
Overflow(q) == IF Len(q) >= BacklogCapacity THEN SubSeq(q, 1, 1) ELSE <<>>

\* A chunk arrives. The capture reports what it lost by sequence numbers, by
\* timestamps at a discontinuity, or both; the larger counts.
CaptureChunk(sequenceGap, recoveryGap) ==
    LET gap  == Larger(sequenceGap, recoveryGap)
        lost == Overflow(backlog)
    IN  /\ captured + gap + 1 <= MaxFrames
        /\ backlog' = Append(SubSeq(backlog, Len(lost) + 1, Len(backlog)), gap)
        /\ pending' = pending + Time(lost)
        /\ captured' = captured + gap + 1
        /\ UNCHANGED <<sent, queue, writer, wire, unwritten, waited>>

\* requires_discontinuity_concealment: a splice of less than a frame.
CaptureSplice ==
    /\ captured < MaxFrames
    /\ pending' = pending + 1 /\ captured' = captured + 1
    /\ UNCHANGED <<backlog, sent, queue, writer, wire, unwritten, waited>>

\* Another stream, or a chunk while the pipeline is paused: the timeline starts
\* afresh, and what waited to be sent is discarded with the gaps that were owed. A
\* pause forgets the last broadcast.
StartAfresh(pause) ==
    /\ backlog' = <<>> /\ pending' = 0
    /\ sent' = (sent /\ ~pause)
    /\ captured' = captured - Time(backlog) - pending
    /\ UNCHANGED <<queue, writer, wire, unwritten, waited>>

\* Mutant: what the oldest packet stood for is forgotten with it.
DropOldest(q, packet) ==
    Append(IF Len(q) >= QueueCapacity THEN Tail(q) ELSE q, packet)

\* enqueue_bounded_audio_sample: the packet after the dropped one takes its time.
EnqueueBounded(q, packet) ==
    IF Len(q) < QueueCapacity THEN Append(q, packet)
    ELSE LET rest == Append(Tail(q), packet)
         IN  [rest EXCEPT ![1] = @ + Head(q) + 1]

\* trim_capture_backlog_to_live_edge
Stale(q) == IF Len(q) > LiveEdgeFrames THEN SubSeq(q, 1, Len(q) - LiveEdgeFrames) ELSE <<>>

\* The next chunk is due. After a stall of a frame or more the backlog is trimmed;
\* what is dropped before the chunk, or the time since the last broadcast if
\* that is more, becomes the gap of its packet. A malformed chunk is dropped too.
\* elapsed: elapsed_audio_gap, the packets the wall clock misses since that broadcast.
Send(stalled, malformed, elapsed) ==
    LET stale   == IF stalled THEN Stale(backlog) ELSE <<>>
        chunk   == backlog[Len(stale) + 1]
        dropped == pending + Time(stale) + chunk
        gap     == IF sent THEN Larger(dropped, elapsed) ELSE dropped
    IN  /\ backlog # <<>> /\ waited + elapsed <= MaxFrames
        /\ backlog' = SubSeq(backlog, Len(stale) + 2, Len(backlog))
        /\ IF malformed
           THEN pending' = dropped + 1 /\ UNCHANGED <<sent, queue, waited>>
           ELSE /\ pending' = 0 /\ sent' = TRUE
                /\ queue' = EnqueueBounded(queue, gap)
                /\ waited' = waited + (IF sent THEN Larger(elapsed - dropped, 0) ELSE 0)
        /\ UNCHANGED <<writer, wire, unwritten, captured>>

WriterSends ==
    /\ writer /\ queue # <<>>
    /\ queue' = Tail(queue) /\ wire' = wire + Head(queue) + 1
    /\ UNCHANGED <<backlog, pending, sent, writer, unwritten, captured, waited>>

\* write_sample fails: the task returns and the queue is never read again.
WriterFails ==
    /\ writer /\ queue # <<>>
    /\ writer' = FALSE
    /\ queue' = Tail(queue) /\ unwritten' = unwritten + Head(queue) + 1
    /\ UNCHANGED <<backlog, pending, sent, wire, captured, waited>>

Next ==
    \/ \E s, r \in 0..MaxGap : CaptureChunk(s, r)
    \/ CaptureSplice
    \/ \E pause \in BOOLEAN : StartAfresh(pause)
    \/ \E stalled, malformed \in BOOLEAN, elapsed \in 0..MaxGap :
           Send(stalled, malformed, elapsed)
    \/ WriterSends \/ WriterFails

Spec == Init /\ [][Next]_vars

(***************************************************************************)
(* Properties.                                                             *)
(***************************************************************************)

\* No captured time is lost and none is counted twice, whichever of the five
\* places drop audio and in whatever order: the time the viewer was given, is
\* queued for, or is still owed is the time captured and what the wall clock ran
\* ahead of it. Only the packet of a failed write, after which the viewer is sent
\* nothing more, is missing.
TimeKept ==
    wire + unwritten + Time(queue) + pending + Time(backlog) = captured + waited
==============================================================================
