----------------------------- MODULE Media_proofs -----------------------------
(***************************************************************************)
(* Proofs about the machines of MCMedia: the encoder, for any settings and  *)
(* any capacity PipelineAssumption allows, the queue of a viewer, for any   *)
(* limit of it, the capture of a window and the monitor of its size, for    *)
(* any sizes, the audio input, for any settings, and the audio pacing, for   *)
(* any capacities of its queues. That something happens in the end rests on *)
(* fairness and is left to the model checker.                              *)
(***************************************************************************)
EXTENDS MCMedia, Sums_proofs, FiniteSetTheorems, TLAPS

(***************************************************************************)
(* The revision orders the host and the loop.                              *)
(***************************************************************************)

\* The loop runs a revision that was in force once.
RevisionInv ==
    /\ revision \in Nat /\ run.revision \in Nat /\ run.revision <= revision
    /\ run = [revision |-> run.revision, settings |-> run.settings]

SettingsInv == RevisionInv /\ SettingsInForce

(***************************************************************************)
(* Why a run ends.                                                         *)
(***************************************************************************)

\* A run that nothing has superseded.
Live == ~stop /\ revision = run.revision

Running == {"stream", "reap", "join"}

\* The threads and the process of a run exist while it runs.
OwnedByRun ==
    /\ writer \in {"check", "recv", "write"} => pc \in Running
    /\ killer = "poll" => pc \in Running
    /\ child = "spawned" => pc = "register"
    /\ child = "running" => pc \in {"stream", "reap"}
    /\ done \in BOOLEAN /\ (pc = "stream" => ~done)

\* In a run that nothing has superseded, what has ended was broken.
EndsAreBreaks ==
    /\ sourceEnded => broken
    /\ Live /\ pc \in Running /\ writer \in {"ended", "failed"} => broken
    /\ Live /\ pc \in {"register", "stream"} /\ child = "dead" => broken
    /\ Live /\ pc \in {"reap", "join", "recheck"} => broken /\ result = "error"

FailureInv ==
    /\ stop \in BOOLEAN /\ broken \in BOOLEAN
    /\ RevisionInv /\ OwnedByRun /\ EndsAreBreaks /\ FailureMeansBroken

(***************************************************************************)
(* The two queues of a run.                                                *)
(***************************************************************************)

\* The frames whose pictures have not been read: in the process, and in the hands
\* of the writer.
InStep ==
    /\ writer # "write" => submitted = inside
    /\ writer = "write" => submitted = Append(inside, frame)

TimingInv ==
    /\ inside \in Seq(Int) /\ Len(inside) <= Capacity
    /\ nextId \in Int /\ (writer = "write" => frame \in Int)
    /\ OwnedByRun
    /\ pc = "register" => inside = <<>>
    /\ pc = "stream" => InStep
    /\ TimingExact

LEMMA SettingsStart == Init => SettingsInv
  BY DEF Init, SettingsInv, RevisionInv, SettingsInForce, NoRun

\* Only the host and the count of late pictures write the revision, and only upwards.
LEMMA RevisionRises ==
    ASSUME RevisionInv, [Next]_vars
    PROVE  RevisionInv' /\ (revision' = revision \/ revision' = revision + 1)
  <1> USE DEF RevisionInv
  <1>1. CASE ReadRevision \/ ReadSettings
    BY <1>1 DEF ReadRevision, ReadSettings, NoRun, host
  <1>2. CASE Revise
    BY <1>2 DEF Revise, loop
  <1>3. ASSUME NEW late \in BOOLEAN, ReadPicture(late) PROVE RevisionInv' /\ (revision' = revision \/ revision' = revision + 1)
    BY <1>3 DEF ReadPicture, CountBacklog
  <1>4. CASE LoopStep /\ ~ReadRevision /\ ~ReadSettings
    BY <1>4 DEF LoopStep, Spawn, Register, StreamEnds, Reap, Join, Recheck, StoppedBetweenRuns, host
  <1>5. CASE UNCHANGED <<revision, run>>
    BY <1>5
  <1>6. CASE WriterStep \/ WriterRefuses \/ Killer
    BY <1>6, <1>5 DEF WriterStep, WriterCheck, WriterSkips, WriterTakes, WriterEof, WriterWrites,
                      WriterFails, WriterRefuses, Killer, host, loop
  <1>7. CASE RequestStop \/ (\E s \in Settings : Reconfigure(s)) \/ Publish \/ SourceEnds
             \/ ChildCrashes \/ ChildFinishes \/ SpawnFails \/ UNCHANGED vars
    BY <1>7, <1>5 DEF RequestStop, Reconfigure, Publish, SourceEnds, ChildCrashes, ChildFinishes,
                      SpawnFails, vars, host, loop
  <1> QED BY <1>1, <1>2, <1>3, <1>4, <1>6, <1>7 DEF Next

LEMMA SettingsStep == SettingsInv /\ [Next]_vars => SettingsInv'
  <1> SUFFICES ASSUME SettingsInv, [Next]_vars PROVE SettingsInForce'
    BY RevisionRises DEF SettingsInv
  <1> USE DEF SettingsInv, RevisionInv, SettingsInForce, LoopAt
  <1>1. CASE ReadRevision \/ ReadSettings
    BY <1>1 DEF ReadRevision, ReadSettings, NoRun, host
  <1>2. CASE Revise
    BY <1>2 DEF Revise, loop
  <1>3. ASSUME NEW late \in BOOLEAN, ReadPicture(late) PROVE SettingsInForce'
    BY <1>3 DEF ReadPicture, CountBacklog
  <1>4. CASE LoopStep /\ ~ReadRevision /\ ~ReadSettings
    BY <1>4 DEF LoopStep, Spawn, Register, StreamEnds, Reap, Join, Recheck, StoppedBetweenRuns,
                Finish, host
  <1>5. CASE UNCHANGED <<pc, revision, run, settings, updating>>
    BY <1>5
  <1>6. CASE WriterStep \/ WriterRefuses \/ Killer
    BY <1>6, <1>5 DEF WriterStep, WriterCheck, WriterSkips, WriterTakes, WriterEof, WriterWrites,
                      WriterFails, WriterRefuses, Killer, host, loop
  <1>7. CASE RequestStop \/ Publish \/ SourceEnds \/ ChildCrashes \/ ChildFinishes \/ UNCHANGED vars
    BY <1>7, <1>5 DEF RequestStop, Publish, SourceEnds, ChildCrashes, ChildFinishes, vars, host, loop
  <1>8. CASE (\E s \in Settings : Reconfigure(s)) \/ SpawnFails
    BY <1>8 DEF Reconfigure, SpawnFails, host, loop
  <1> QED BY <1>1, <1>2, <1>3, <1>4, <1>6, <1>7, <1>8 DEF Next

\* SettingsInForce: reconfigure stores the settings before it raises the revision
\* (media.rs:986-994) and the loop reads the revision before the settings
\* (1116-1121), so no update is lost, wherever the two interleave.
THEOREM NoSettingsLost == Spec => []SettingsInForce
  <1>1. SettingsInv => SettingsInForce
    BY DEF SettingsInv
  <1> QED BY SettingsStart, SettingsStep, <1>1, PTL DEF Spec

LEMMA FailureStart == Init => FailureInv
  <1> SUFFICES ASSUME Init PROVE FailureInv
    OBVIOUS
  <1>1. RevisionInv
    BY SettingsStart DEF SettingsInv
  <1>2. OwnedByRun
    BY DEF Init, OwnedByRun
  <1>3. EndsAreBreaks
    BY DEF Init, EndsAreBreaks, Running
  <1>4. FailureMeansBroken /\ stop \in BOOLEAN /\ broken \in BOOLEAN
    BY DEF Init, FailureMeansBroken
  <1> QED BY <1>1, <1>2, <1>3, <1>4 DEF FailureInv

\* The steps of the host, the capture and the process.
Environment ==
    \/ RequestStop \/ Revise \/ \E s \in Settings : Reconfigure(s)
    \/ Publish \/ SourceEnds \/ ChildCrashes \/ ChildFinishes

\* A run ends before its threads and its process are gone, and a new one starts after.
LEMMA OwnedByRunKept == OwnedByRun /\ [Next]_vars => OwnedByRun'
  <1> SUFFICES ASSUME OwnedByRun, [Next]_vars PROVE OwnedByRun'
    OBVIOUS
  <1> USE DEF OwnedByRun, Running, LoopAt
  <1>1. CASE Environment
    <2>1. /\ UNCHANGED <<pc, writer, killer, done>>
          /\ child' \in {child, "dead"}
      BY <1>1 DEF Environment, RequestStop, Revise, Reconfigure, Publish, SourceEnds, ChildCrashes,
                  ChildFinishes, loop, threads, process
    <2> QED BY <2>1
  <1>2. CASE ReadRevision \/ ReadSettings \/ Spawn \/ SpawnFails \/ Register
    BY <1>2 DEF ReadRevision, ReadSettings, Spawn, SpawnFails, Register, threads, process
  <1>3. CASE StreamEnds \/ Reap \/ Join
    BY <1>3 DEF StreamEnds, Reap, Join, threads, process
  <1>4. CASE Recheck \/ StoppedBetweenRuns
    BY <1>4 DEF Recheck, StoppedBetweenRuns, Finish, threads, process
  <1>5. ASSUME NEW late \in BOOLEAN, ReadPicture(late) PROVE OwnedByRun'
    BY <1>5 DEF ReadPicture, CountBacklog, Timed
  <1>6. CASE WriterStep
    BY <1>6 DEF WriterStep, WriterCheck, WriterSkips, WriterTakes, WriterEof, WriterWrites,
                WriterFails, loop, process
  <1>7. CASE WriterRefuses \/ Killer
    BY <1>7 DEF WriterRefuses, Killer, loop, process
  <1>8. CASE UNCHANGED vars
    BY <1>8 DEF vars, loop, process, threads
  <1> QED BY <1>1, <1>2, <1>3, <1>4, <1>5, <1>6, <1>7, <1>8 DEF Next, LoopStep, Environment

LEMMA FailureStep == FailureInv /\ [Next]_vars => FailureInv'
  <1> SUFFICES ASSUME FailureInv, [Next]_vars
               PROVE  stop' \in BOOLEAN /\ broken' \in BOOLEAN /\ EndsAreBreaks' /\ FailureMeansBroken'
    BY OwnedByRunKept, RevisionRises DEF FailureInv
  <1> DEFINE Goal == stop' \in BOOLEAN /\ broken' \in BOOLEAN /\ EndsAreBreaks' /\ FailureMeansBroken'
  <1> USE DEF FailureInv, RevisionInv, OwnedByRun, EndsAreBreaks, FailureMeansBroken, Live, Running, LoopAt
  <1>1. CASE RequestStop
    BY <1>1 DEF RequestStop, loop, status, threads, source, history
  <1>2. CASE Publish
    BY <1>2 DEF Publish, host, loop, status, process, threads, history
  <1>3. CASE SourceEnds
    BY <1>3 DEF SourceEnds, host, loop, status, process, threads
  <1>4. CASE ChildCrashes
    BY <1>4 DEF ChildCrashes, host, loop, status, threads, source
  <1>5. CASE ChildFinishes
    BY <1>5 DEF ChildFinishes, host, loop, status, threads, source, history
  <1>6. CASE Revise \/ \E s \in Settings : Reconfigure(s)
    BY <1>6 DEF Revise, Reconfigure, loop, status, process, threads, source, history
  <1>7. CASE ReadRevision \/ ReadSettings
    BY <1>7 DEF ReadRevision, ReadSettings, host, status, process, threads, source, history
  <1>8. CASE Spawn
    BY <1>8 DEF Spawn, host, status, threads, source, history
  <1>9. CASE SpawnFails
    BY <1>9 DEF SpawnFails, host, status, process, threads, source
  <1>10. CASE Register
    BY <1>10 DEF Register, host, status, source, history
  <1>11. CASE StreamEnds \/ Reap \/ Join
    BY <1>11 DEF StreamEnds, Reap, Join, host, status, process, threads, source, history
  <1>12. CASE Recheck \/ StoppedBetweenRuns
    BY <1>12 DEF Recheck, StoppedBetweenRuns, Finish, host, status, process, threads, source, history
  <1>13. ASSUME NEW late \in BOOLEAN, ReadPicture(late) PROVE Goal
    BY <1>13 DEF ReadPicture, CountBacklog, Timed, source
  <1>14. CASE WriterStep
    BY <1>14 DEF WriterStep, WriterCheck, WriterSkips, WriterTakes, WriterEof, WriterWrites,
                WriterFails, Superseded, host, status, loop, process, source, history
  <1>15. CASE WriterRefuses
    BY <1>15 DEF WriterRefuses, host, status, loop, process
  <1>16. CASE Killer
    BY <1>16 DEF Killer, Superseded, host, status, loop, source, history
  <1>17. CASE UNCHANGED vars
    BY <1>17 DEF vars, host, status, loop, process, threads, source, history
  <1> QED BY <1>1, <1>2, <1>3, <1>4, <1>5, <1>6, <1>7, <1>8,
           <1>9, <1>10, <1>11, <1>12, <1>13, <1>14, <1>15, <1>16, <1>17
        DEF Next, LoopStep

\* FailureMeansBroken: the error with which a stop or a new revision ends the stream
\* of the encoder is never recorded, and every other end is (media.rs:1131-1148,
\* spawn_child_killer 1305-1330, record_result).
THEOREM FailuresAreReal == Spec => []FailureMeansBroken
  <1>1. FailureInv => FailureMeansBroken
    BY DEF FailureInv
  <1> QED BY FailureStart, FailureStep, <1>1, PTL DEF Spec

\* Between two runs, and after the last, there is no process, and no thread of a run.
NothingIsLeft ==
    ended \/ pc = "spawn" =>
        /\ child \notin {"spawned", "running"}
        /\ writer \notin {"check", "recv", "write"}
        /\ killer # "poll"

LeavingInv == OwnedByRun /\ (ended => pc = "done")

LEMMA LeavingStep == LeavingInv /\ [Next]_vars => LeavingInv'
  <1> SUFFICES ASSUME LeavingInv, [Next]_vars PROVE (ended => pc = "done")'
    BY OwnedByRunKept DEF LeavingInv
  <1> USE DEF LeavingInv, host, status, loop, source
  <1>1. CASE pc = "done" /\ ended
    BY <1>1 DEF Next, LoopStep, WriterStep, vars, RequestStop, Revise, Reconfigure, Publish,
                SourceEnds, ChildCrashes, ChildFinishes, ReadRevision, ReadSettings, Spawn,
                Register, StreamEnds, Reap, Join, Recheck, StoppedBetweenRuns, SpawnFails,
                ReadPicture, WriterCheck, WriterSkips, WriterTakes, WriterEof, WriterWrites,
                WriterFails, WriterRefuses, Killer
  <1>2. CASE ~ended
    <2>1. ended' = ended \/ \E error : Finish(error)
      BY DEF Next, LoopStep, WriterStep, vars, RequestStop, Revise, Reconfigure, Publish,
             SourceEnds, ChildCrashes, ChildFinishes, ReadRevision, ReadSettings, Spawn,
             Register, StreamEnds, Reap, Join, Recheck, StoppedBetweenRuns, SpawnFails,
             ReadPicture, WriterCheck, WriterSkips, WriterTakes, WriterEof, WriterWrites,
             WriterFails, WriterRefuses, Killer
    <2> QED BY <1>2, <2>1 DEF Finish, LoopAt
  <1> QED BY <1>1, <1>2

\* media.rs. Whatever ended a run, the process is reaped and its threads are joined before
\* the next one is spawned, and before the pipeline reports that it has ended.
THEOREM RunsEndClean == Spec => []NothingIsLeft
  <1>1. Init => LeavingInv
    BY DEF Init, LeavingInv, OwnedByRun
  <1>2. LeavingInv => NothingIsLeft
    BY DEF LeavingInv, OwnedByRun, Running, NothingIsLeft
  <1> QED BY <1>1, <1>2, LeavingStep, PTL DEF Spec

\* record_input: a queue that has room keeps what it has.
LEMMA RecordAppends ==
    ASSUME NEW q \in Seq(Int), NEW id, Len(q) < TimingLimit, TimingLimit \in Nat
    PROVE  Record(q, id) = Append(q, id)
  BY DEF Record

\* discard_input takes back the newest entry.
LEMMA DiscardUndoes ==
    ASSUME NEW q \in Seq(Int), NEW id \in Int
    PROVE  Discard(Append(q, id), id) = q
  <1> DEFINE r == Append(q, id)
             I == {i \in 1 .. Len(r) : r[i] = id}
             n == Len(q) + 1
  <1>1. r \in Seq(Int) /\ Len(r) = n /\ r[n] = id /\ n \in Nat
    OBVIOUS
  <1>2. n \in I /\ \A i \in I : n >= i
    BY <1>1
  <1>3. Max(I) = n
    <2> HIDE DEF r, n
    <2>1. \A x \in I : (\A y \in I : x >= y) => x = n
      BY <1>1, <1>2
    <2>2. Max(I) \in I /\ \A y \in I : Max(I) >= y
      BY <1>2 DEF Max
    <2> QED BY <2>1, <2>2
  <1>4. RemoveAt(r, n) = q
    <2>1. SubSeq(r, 1, n - 1) = q
      BY AppendProperties, SubSeqProperties, SeqEqual, <1>1
    <2>2. SubSeq(r, n + 1, Len(r)) = <<>>
      BY <1>1, SubSeqEmpty
    <2> QED BY <2>1, <2>2, ConcatEmptySeq DEF RemoveAt
  <1>5. Discard(r, id) = IF Max(I) = 0 THEN r ELSE RemoveAt(r, Max(I))
    BY <1>2 DEF Discard, SelectLastInSeq
  <1> HIDE DEF I
  <1> QED BY <1>1, <1>3, <1>4, <1>5

LEMMA TimingStart == Init => TimingInv
  <1> SUFFICES ASSUME Init PROVE TimingInv
    OBVIOUS
  <1>1. inside \in Seq(Int) /\ Len(inside) = 0
    BY EmptySeq DEF Init
  <1>2. OwnedByRun
    BY FailureStart DEF FailureInv
  <1> QED BY <1>1, <1>2, PipelineAssumption DEF Init, TimingInv, InStep, TimingExact

\* A picture comes out: both queues lose their head, and the heads are the same frame.
LEMMA PictureInStep ==
    ASSUME TimingInv, NEW late \in BOOLEAN, ReadPicture(late)
    PROVE  TimingInv'
  <1>1. pc = "stream" /\ InStep /\ attributed = TRUE /\ inside # <<>> /\ inside \in Seq(Int)
    BY DEF ReadPicture, TimingInv, TimingExact
  <1>2. /\ Tail(inside) \in Seq(Int) /\ Len(Tail(inside)) <= Capacity
        /\ inside' = Tail(inside)
    BY <1>1, HeadTailProperties, LenProperties, PipelineAssumption DEF ReadPicture, TimingInv
  <1>3. submitted # <<>> /\ Head(submitted) = Head(inside) /\ submitted' = Tail(submitted)
    <2>1. CASE writer = "write"
      BY <1>1, <2>1, HeadTailAppend, AppendProperties DEF InStep, ReadPicture, Timed, TimingInv
    <2>2. CASE writer # "write"
      BY <1>1, <2>2 DEF InStep, ReadPicture, Timed
    <2> QED BY <2>1, <2>2
  <1>4. InStep'
    <2>1. CASE writer = "write"
      BY <1>1, <1>2, <1>3, <2>1, HeadTailAppend DEF InStep, ReadPicture
    <2>2. CASE writer # "write"
      BY <1>1, <1>2, <1>3, <2>2 DEF InStep, ReadPicture
    <2> QED BY <2>1, <2>2
  <1>5. attributed' = TRUE
    BY <1>1, <1>3 DEF ReadPicture, Timed
  <1>6. OwnedByRun'
    BY OwnedByRunKept DEF TimingInv, Next
  <1>7. pc' # "register"
    BY DEF ReadPicture, CountBacklog, LoopAt
  <1> QED BY <1>2, <1>4, <1>5, <1>6, <1>7 DEF TimingInv, TimingExact, ReadPicture, source

LEMMA WriterInStep ==
    ASSUME TimingInv, WriterStep
    PROVE  TimingInv'
  <1>1. OwnedByRun' /\ pc' = pc
    BY OwnedByRunKept DEF TimingInv, Next, WriterStep, WriterCheck, WriterSkips, WriterTakes, WriterEof,
                          WriterWrites, WriterFails, loop
  <1> USE DEF TimingInv, TimingExact
  <1>2. CASE WriterCheck \/ WriterSkips \/ WriterEof
    BY <1>1, <1>2 DEF WriterCheck, WriterSkips, WriterEof, InStep, process, source, history
  <1>3. CASE WriterTakes
    <2>1. Len(inside) \in Nat /\ Len(inside) < TimingLimit /\ TimingLimit \in Nat
      BY LenProperties, PipelineAssumption
    <2>2. pc = "stream" => submitted' = Append(inside, frame')
      BY <1>3, <2>1, RecordAppends DEF WriterTakes, InStep
    <2>3. nextId' \in Int /\ frame' \in Int
      BY <1>3, PipelineAssumption DEF WriterTakes
    <2> QED BY <1>1, <1>3, <2>2, <2>3 DEF WriterTakes, InStep, process, history
  <1>4. CASE WriterWrites
    <2>1. inside' \in Seq(Int) /\ Len(inside') <= Capacity
      BY <1>4, AppendProperties, LenProperties, PipelineAssumption DEF WriterWrites
    <2>2. pc \in {"stream", "reap", "join"}
      BY <1>4 DEF WriterWrites, OwnedByRun, Running
    <2> QED BY <1>1, <1>4, <2>1, <2>2 DEF WriterWrites, InStep, source, history
  <1>5. CASE WriterFails
    <2>1. pc = "stream" => submitted' = inside
      BY <1>5, DiscardUndoes DEF WriterFails, InStep
    <2> QED BY <1>1, <1>5, <2>1 DEF WriterFails, InStep, process, source, history
  <1> QED BY <1>2, <1>3, <1>4, <1>5 DEF WriterStep

LEMMA TimingStep == TimingInv /\ [Next]_vars => TimingInv'
  <1> SUFFICES ASSUME TimingInv, [Next]_vars PROVE TimingInv'
    OBVIOUS
  <1>1. OwnedByRun'
    BY OwnedByRunKept DEF TimingInv
  <1> USE DEF TimingInv, TimingExact, InStep, LoopAt
  <1>2. CASE Environment
    BY <1>1, <1>2 DEF Environment, RequestStop, Revise, Reconfigure, Publish, SourceEnds, ChildCrashes,
                      ChildFinishes, loop, threads, process, source, history
  <1>3. CASE ReadRevision \/ ReadSettings \/ SpawnFails
    BY <1>1, <1>3 DEF ReadRevision, ReadSettings, SpawnFails, process, threads, source, history
  <1>4. CASE Spawn
    BY <1>1, <1>4, EmptySeq, PipelineAssumption DEF Spawn, threads, source, history
  <1>5. CASE Register
    BY <1>1, <1>5 DEF Register, source, history
  <1>6. CASE StreamEnds \/ Reap \/ Join
    BY <1>1, <1>6 DEF StreamEnds, Reap, Join, process, threads, source, history
  <1>7. CASE Recheck \/ StoppedBetweenRuns
    BY <1>1, <1>7 DEF Recheck, StoppedBetweenRuns, Finish, process, threads, source, history
  <1>8. CASE \E late \in BOOLEAN : ReadPicture(late)
    BY <1>8, PictureInStep
  <1>9. CASE WriterStep
    BY <1>9, WriterInStep
  <1>10. CASE WriterRefuses \/ Killer
    BY <1>1, <1>10 DEF WriterRefuses, Killer, loop, process, source, history
  <1>11. CASE UNCHANGED vars
    BY <1>1, <1>11 DEF vars, loop, process, threads, source, history
  <1> QED BY <1>2, <1>3, <1>4, <1>5, <1>6, <1>7, <1>8, <1>9, <1>10, <1>11 DEF Next, LoopStep, Environment

\* TimingExact: the queue of the timings and the queue of the encoder hold the same
\* frames, whenever the writer is interrupted (media.rs:436-467), as long as the
\* encoder holds fewer frames than ENCODER_TIMING_QUEUE_LIMIT.
THEOREM TimingsMatch == Spec => []TimingExact
  <1>1. TimingInv => TimingExact
    BY DEF TimingInv
  <1> QED BY TimingStart, TimingStep, <1>1, PTL DEF Spec

(***************************************************************************)
(* The queue of a viewer. A step of it is one of LiveEdge, or changes       *)
(* nothing there.                                                          *)
(***************************************************************************)

Depth == IF ordered THEN Limit ELSE 1

QueueTyped ==
    /\ ordered \in BOOLEAN /\ closed \in BOOLEAN
    /\ newest \in Nat /\ shown \in Nat
    /\ samples \in Seq(Nat)
    /\ viewerWriter \in {"check", "take", "park", "send", "ended"}

\* What waits are the newest samples, without a gap, no more of them than the
\* viewer may be behind, and none that was shown.
LiveSamples ==
    /\ Len(samples) <= Depth
    /\ shown <= newest - Len(samples)
    /\ \A i \in 1..Len(samples) : samples[i] = newest - Len(samples) + i

\* run_writer returns only after close.
EndsClosed == viewerWriter = "ended" => closed

QueueInv == Viewer!LimitsAssumption /\ QueueTyped /\ LiveSamples /\ EndsClosed

\* An empty queue is a queue, and has nothing out of order.
LEMMA NoSamples ==
    ASSUME NEW q, q = <<>>
    PROVE  /\ q \in Seq(Nat) /\ Len(q) = 0
           /\ \A i \in 1..Len(q) : FALSE
  <1>1. q \in Seq(Nat) /\ Len(q) = 0
    OBVIOUS
  <1> QED BY <1>1

LEMMA QueueInit == Viewer!LimitsAssumption /\ Viewer!Init => QueueInv
  <1> SUFFICES ASSUME Viewer!LimitsAssumption, Viewer!Init PROVE QueueInv
    OBVIOUS
  <1>1. samples \in Seq(Nat) /\ Len(samples) = 0 /\ \A i \in 1..Len(samples) : FALSE
    BY NoSamples DEF Viewer!Init
  <1>2. LiveSamples
    BY <1>1 DEF Viewer!LimitsAssumption, Viewer!Init, LiveSamples, Depth
  <1> QED BY <1>1, <1>2 DEF Viewer!Init, QueueInv, QueueTyped, EndsClosed

LEMMA PushKeepsLive == QueueInv /\ Viewer!EnqueuePush => QueueInv'
  <1> SUFFICES ASSUME QueueInv, Viewer!EnqueuePush PROVE QueueInv'
    OBVIOUS
  <1> USE DEF QueueInv, Viewer!LimitsAssumption, QueueTyped
  <1> DEFINE kept == Viewer!Kept(samples)
  <1>1. /\ samples' = Append(kept, newest + 1) /\ newest' = newest + 1
        /\ UNCHANGED <<ordered, closed, viewerWriter, shown>>
    BY DEF Viewer!EnqueuePush, Viewer!caller, Viewer!task
  <1>2. /\ kept \in Seq(Nat) /\ Len(kept) + 1 <= Depth
        /\ Len(kept) <= Len(samples)
        /\ \A i \in 1..Len(kept) : kept[i] = newest - Len(kept) + i
    <2>1. CASE ordered /\ Len(samples) < Limit
      BY <2>1 DEF Viewer!Kept, LiveSamples, Depth
    <2>2. CASE ~(ordered /\ Len(samples) < Limit)
      <3>1. kept = <<>>
        BY <2>2 DEF Viewer!Kept
      <3>2. kept \in Seq(Nat) /\ Len(kept) = 0 /\ \A i \in 1..Len(kept) : FALSE
        BY <3>1, NoSamples
      <3> HIDE DEF kept
      <3> QED BY <3>2 DEF Depth
    <2> QED BY <2>1, <2>2
  <1> HIDE DEF kept
  <1>3. /\ samples' \in Seq(Nat) /\ Len(samples') = Len(kept) + 1
        /\ samples'[Len(kept) + 1] = newest + 1
        /\ \A i \in 1..Len(kept) : samples'[i] = kept[i]
    BY <1>1, <1>2
  <1>4. \A i \in 1..Len(samples') : samples'[i] = newest' - Len(samples') + i
    <2> SUFFICES ASSUME NEW i \in 1..Len(samples')
                 PROVE  samples'[i] = newest' - Len(samples') + i
      OBVIOUS
    <2>1. CASE i = Len(kept) + 1
      BY <1>1, <1>2, <1>3, <2>1
    <2>2. CASE i \in 1..Len(kept)
      BY <1>1, <1>2, <1>3, <2>2
    <2> QED BY <1>2, <1>3, <2>1, <2>2
  <1>5. LiveSamples'
    BY <1>1, <1>2, <1>3, <1>4 DEF LiveSamples, Depth
  <1> QED BY <1>1, <1>3, <1>5 DEF EndsClosed

\* The sample that is taken is the oldest that waits: newer than what was shown, and
\* among the last Depth.
LEMMA TakeIsLive ==
    ASSUME QueueInv, Viewer!WriterTake
    PROVE  /\ QueueInv'
           /\ shown' \in (shown + 1)..newest /\ shown' > newest - Depth
  <1> USE DEF QueueInv, Viewer!LimitsAssumption, QueueTyped
  <1>1. /\ samples # <<>> /\ shown' = Head(samples) /\ samples' = Tail(samples)
        /\ viewerWriter = "take" /\ viewerWriter' = "send"
        /\ UNCHANGED <<ordered, closed, newest>>
    BY DEF Viewer!WriterTake, Viewer!caller
  <1>2. /\ Len(samples) \in Nat \ {0} /\ samples[1] = newest - Len(samples) + 1
        /\ Head(samples) = samples[1]
    BY <1>1 DEF LiveSamples
  <1>3. /\ samples' \in Seq(Nat) /\ Len(samples') = Len(samples) - 1
        /\ \A i \in 1..Len(samples') : samples'[i] = samples[i + 1]
    BY <1>1, <1>2
  <1>4. LiveSamples'
    BY <1>1, <1>2, <1>3 DEF LiveSamples, Depth
  <1> QED BY <1>1, <1>2, <1>3, <1>4 DEF LiveSamples, Depth, EndsClosed

\* Whatever neither pushes nor takes leaves the order of the samples alone.
LEMMA OtherSteps ==
    ASSUME QueueInv, [Viewer!Next]_(Viewer!vars), ~Viewer!EnqueuePush, ~Viewer!WriterTake
    PROVE  QueueInv' /\ UNCHANGED <<ordered, newest, shown>>
  <1> USE DEF Viewer!caller, Viewer!queue, Viewer!task
  <1>1. UNCHANGED <<ordered, newest, shown>>
    BY DEF Viewer!Next, Viewer!vars, Viewer!CallerStep, Viewer!ProducerStep,
           Viewer!WriterStep, Viewer!List, Viewer!CloseClear, Viewer!CloseNotify,
           Viewer!Unsubscribe, Viewer!Stop, Viewer!WriteFrame, Viewer!EnqueueCheck,
           Viewer!EnqueueNotify, Viewer!WriterCheck, Viewer!WriterPark, Viewer!WriterWake,
           Viewer!WriterSent
  <1>2. samples' = samples \/ samples' = <<>>
    BY DEF Viewer!Next, Viewer!vars, Viewer!CallerStep, Viewer!ProducerStep,
           Viewer!WriterStep, Viewer!List, Viewer!CloseClear, Viewer!CloseNotify,
           Viewer!Unsubscribe, Viewer!Stop, Viewer!WriteFrame, Viewer!EnqueueCheck,
           Viewer!EnqueueNotify, Viewer!WriterCheck, Viewer!WriterPark, Viewer!WriterWake,
           Viewer!WriterSent
  <1>3. LiveSamples' /\ samples' \in Seq(Nat)
    <2>1. CASE samples' = samples
      BY <1>1, <2>1 DEF QueueInv, QueueTyped, LiveSamples, Depth
    <2>2. CASE samples' = <<>>
      <3>1. samples' \in Seq(Nat) /\ Len(samples') = 0 /\ \A i \in 1..Len(samples') : FALSE
        BY <2>2, NoSamples
      <3> QED BY <1>1, <3>1 DEF QueueInv, Viewer!LimitsAssumption, QueueTyped, LiveSamples,
                                Depth
    <2> QED BY <1>2, <2>1, <2>2
  <1>4. /\ closed' \in BOOLEAN /\ viewerWriter' \in {"check", "take", "park", "send", "ended"}
        /\ EndsClosed'
    BY DEF QueueInv, QueueTyped, EndsClosed, Viewer!Next, Viewer!vars, Viewer!CallerStep,
           Viewer!ProducerStep, Viewer!WriterStep, Viewer!List, Viewer!CloseClear,
           Viewer!CloseNotify, Viewer!Unsubscribe, Viewer!Stop, Viewer!WriteFrame,
           Viewer!EnqueueCheck, Viewer!EnqueueNotify, Viewer!WriterCheck, Viewer!WriterPark,
           Viewer!WriterWake, Viewer!WriterSent
  <1> QED BY <1>1, <1>3, <1>4 DEF QueueInv, QueueTyped

LEMMA QueueStep == QueueInv /\ [Viewer!Next]_(Viewer!vars) => QueueInv'
  BY PushKeepsLive, TakeIsLive, OtherSteps

LEMMA EdgeInit == Viewer!LimitsAssumption /\ Viewer!Init => Viewer!Edge!Init
  BY DEF Viewer!LimitsAssumption, Viewer!Init, Viewer!Edge!Init, Viewer!Phase

LEMMA EdgeStep == QueueInv /\ [Viewer!Next]_(Viewer!vars) => [Viewer!Edge!Next]_(Viewer!Edge!vars)
  <1> SUFFICES ASSUME QueueInv, [Viewer!Next]_(Viewer!vars)
               PROVE  Viewer!Edge!Next \/ UNCHANGED Viewer!Edge!vars
    OBVIOUS
  <1> USE DEF Viewer!caller, Viewer!queue, Viewer!task, Viewer!Edge!vars, Viewer!Phase
  <1>1. CASE Viewer!EnqueuePush
    BY <1>1 DEF Viewer!EnqueuePush, Viewer!Edge!Next, Viewer!Edge!Offer
  <1>2. CASE Viewer!WriterTake
    <2>1. /\ shown' \in {n \in (shown + 1)..newest : n > newest - Depth}
          /\ viewerWriter = "take" /\ viewerWriter' = "send"
          /\ UNCHANGED <<ordered, closed, newest>>
      BY <1>2, TakeIsLive DEF Viewer!WriterTake
    <2> QED BY <2>1 DEF Viewer!Edge!Next, Viewer!Edge!Show, Depth
  <1>3. CASE Viewer!Unsubscribe \/ Viewer!Stop
    <2>1. UNCHANGED <<ordered, viewerWriter, shown, newest>> /\ (closed' \/ closed' = closed)
      BY <1>3 DEF Viewer!Unsubscribe, Viewer!Stop
    <2> QED BY <2>1 DEF QueueInv, QueueTyped, EndsClosed, Viewer!Edge!Next, Viewer!Edge!Close
  <1>4. CASE Viewer!WriterCheck \/ Viewer!WriterSent
    BY <1>4 DEF Viewer!WriterCheck, Viewer!WriterSent, Viewer!Edge!Next, Viewer!Edge!End
  <1>5. CASE Viewer!WriterPark \/ Viewer!WriterWake
    BY <1>5 DEF Viewer!WriterPark, Viewer!WriterWake, Viewer!Edge!Next, Viewer!Edge!Quieten
  <1>6. CASE \/ Viewer!CallerStep \/ Viewer!WriteFrame
             \/ Viewer!EnqueueCheck \/ Viewer!EnqueueNotify \/ UNCHANGED Viewer!vars
    BY <1>6 DEF Viewer!CallerStep, Viewer!List, Viewer!CloseClear, Viewer!CloseNotify,
                Viewer!WriteFrame, Viewer!EnqueueCheck, Viewer!EnqueueNotify, Viewer!vars
  <1> QED BY <1>1, <1>2, <1>3, <1>4, <1>5, <1>6
     DEF Viewer!Next, Viewer!ProducerStep, Viewer!WriterStep

\* media.rs:1958-2002. Whatever the order of push, clear and close, a viewer is shown the
\* samples in order, none twice and none that is behind the live edge by more than the
\* queue, and after a close one sample more at most.
THEOREM KeepsLiveEdgeSafely == Viewer!Spec => Viewer!Edge!Safety
  <1>1. Viewer!LimitsAssumption
    BY MCAssumption
  <1> QED BY <1>1, QueueInit, QueueStep, EdgeInit, EdgeStep, PTL DEF Viewer!Spec, Viewer!Edge!Safety

\* A writer that waits has nothing to take and no close to see, or the one who owes it a
\* notification is about to give it. The permit that Notify stores bridges its look at
\* the empty queue and its wait.
WakeupsHold ==
    /\ viewerWriter = "park" /\ samples # <<>> => permit \/ producer = "notify"
    /\ viewerWriter \in {"take", "park"} /\ closed => permit \/ closer # "none"

LEMMA WakeupStep == WakeupsHold /\ [Viewer!Next]_(Viewer!vars) => WakeupsHold'
  <1> SUFFICES ASSUME WakeupsHold, [Viewer!Next]_(Viewer!vars) PROVE WakeupsHold'
    OBVIOUS
  <1> USE DEF WakeupsHold, Viewer!caller, Viewer!queue, Viewer!task
  <1>1. CASE Viewer!CallerStep
    BY <1>1 DEF Viewer!CallerStep, Viewer!List, Viewer!CloseClear, Viewer!CloseNotify
  <1>2. CASE Viewer!Unsubscribe \/ Viewer!Stop \/ Viewer!WriteFrame \/ UNCHANGED Viewer!vars
    BY <1>2 DEF Viewer!Unsubscribe, Viewer!Stop, Viewer!WriteFrame, Viewer!vars
  <1>3. CASE Viewer!ProducerStep
    BY <1>3 DEF Viewer!ProducerStep, Viewer!EnqueueCheck, Viewer!EnqueuePush,
                Viewer!EnqueueNotify
  <1>4. CASE Viewer!WriterStep
    BY <1>4 DEF Viewer!WriterStep, Viewer!WriterCheck, Viewer!WriterTake, Viewer!WriterPark,
                Viewer!WriterWake, Viewer!WriterSent
  <1> QED BY <1>1, <1>2, <1>3, <1>4 DEF Viewer!Next

\* media.rs:1958-2002. No wake-up of run_writer is lost, neither that of enqueue nor that
\* of close, whenever they come between its look at the queue and its wait.
THEOREM ViewerWakeups == Viewer!Spec => []WakeupsHold
  <1>1. Viewer!Init => WakeupsHold
    BY DEF Viewer!Init, WakeupsHold
  <1> QED BY <1>1, WakeupStep, PTL DEF Viewer!Spec

(***************************************************************************)
(* The capture of a window.                                                *)
(***************************************************************************)

\* A surface the compositor may have left: one of a window that is minimized now, or one
\* from before the last of its n changes, or one of a full window.
Composed(surface, n, minimizedNow) ==
    /\ surface \in [size : Sizes \cup {TitleBar}, minimized : Nat]
    /\ surface.minimized <= n
    /\ surface.minimized # 0 /\ ~minimizedNow => surface.minimized < n

Full(surface) == surface.size = Format

\* A surface that may be shown.
Restored(surface, n) ==
    /\ Full(surface) /\ surface.minimized \in Nat
    /\ surface.minimized # 0 => surface.minimized < n

\* Every place a surface passes through on its way to the encoders: the pool, the mailbox,
\* the update in the hands of the reader, the last picture it keeps, and the bus.
WindowInv ==
    /\ surfaceChanges \in Nat /\ shownSize \in Sizes
    /\ frames \in Seq([size : Sizes \cup {TitleBar}, minimized : Nat])
    /\ \A i \in 1 .. Len(frames) : Composed(frames[i], surfaceChanges, hidden)
    /\ latest # None => Composed(latest, surfaceChanges, hidden) /\ Full(latest)
    /\ update.kind = "frame" =>
          Composed(update.surface, surfaceChanges, hidden) /\ Full(update.surface)
    /\ latest_frame # None => Restored(latest_frame, surfaceChanges)
    /\ bus # None => Restored(bus, surfaceChanges)

LEMMA WindowInit == Window!Init => WindowInv
  <1> SUFFICES ASSUME Window!Init PROVE WindowInv
    OBVIOUS
  <1>1. frames = <<>> /\ Len(frames) = 0
    BY DEF Window!Init
  <1>2. Format \in Sizes
    BY MCAssumption DEF MCAssumption, Window!WindowAssumption
  <1> QED BY <1>1, <1>2 DEF Window!Init, WindowInv, Window!NoUpdate

\* frame_from_pool: pixels are read from a surface of the size of the canvas only.
LEMMA PixelsAreFull ==
    ASSUME NEW content, NEW read, Window!frame_arrival_action(content, read) = "ReadPixels"
    PROVE  content = Format
  BY DEF Window!frame_arrival_action

\* A change of the window puts every surface before it.
LEMMA ChangeAgesSurfaces ==
    ASSUME NEW surface, NEW n \in Nat, NEW before, NEW after, Composed(surface, n, before)
    PROVE  Composed(surface, n + 1, after)
  BY DEF Composed

\* What the reader finds while the window is not minimized may be shown.
LEMMA SeenMayBeShown ==
    ASSUME NEW surface, NEW n \in Nat, NEW minimizedNow, ~minimizedNow,
           Composed(surface, n, minimizedNow), Full(surface)
    PROVE  Restored(surface, n)
  BY DEF Composed, Restored

LEMMA ReturnedIsFull ==
    WindowInv =>
        (Window!Returned.kind = "frame" =>
             /\ Composed(Window!Returned.surface, surfaceChanges, hidden)
             /\ Full(Window!Returned.surface))
  BY DEF WindowInv, Window!Returned, Window!NoUpdate

LEMMA ReaderKeepsPictures == WindowInv /\ Window!Reader => WindowInv'
  <1> SUFFICES ASSUME WindowInv, Window!Reader PROVE WindowInv'
    OBVIOUS
  <1>1. /\ UNCHANGED <<surfaceChanges, hidden, shownSize>> /\ frames' \in {frames, <<>>}
        /\ latest' \in {latest, None}
    BY DEF Window!Reader, Window!Start, Window!FirstTimeout, Window!FirstLook,
           Window!FirstUpdate, Window!FirstDropped, Window!FirstFrame, Window!FirstFails,
           Window!WindowGone, Window!Repeat, Window!Look, Window!Update, Window!SessionEnds,
           Window!Judge, Window!Leave, Window!Finish, Window!next_update, Window!Drain,
           Window!window, Window!mailbox
  <1>2. /\ frames' \in Seq([size : Sizes \cup {TitleBar}, minimized : Nat])
        /\ \A i \in 1 .. Len(frames') : Composed(frames'[i], surfaceChanges, hidden)
    <2>1. CASE frames' = frames
      BY <2>1 DEF WindowInv
    <2>2. CASE frames' = <<>>
      BY <2>2
    <2> QED BY <1>1, <2>1, <2>2
  <1>3. latest' # None => Composed(latest', surfaceChanges, hidden) /\ Full(latest')
    BY <1>1 DEF WindowInv
  <1>4. /\ update'.kind = "frame" =>
               Composed(update'.surface, surfaceChanges, hidden) /\ Full(update'.surface)
        /\ latest_frame' # None => Restored(latest_frame', surfaceChanges)
        /\ bus' # None => Restored(bus', surfaceChanges)
    <2> USE DEF WindowInv, Window!window, Window!mailbox, Window!held, Window!shared,
                Window!Finish, Window!Publish
    <2>1. CASE Window!Start \/ Window!FirstTimeout \/ Window!WindowGone \/ Window!Leave
               \/ Window!FirstLook \/ Window!Look
      BY <2>1 DEF Window!Start, Window!FirstTimeout, Window!WindowGone, Window!Leave,
                  Window!FirstLook, Window!Look
    <2>2. CASE Window!FirstUpdate \/ Window!Update
      BY <2>2, ReturnedIsFull DEF Window!FirstUpdate, Window!Update, Window!next_update
    <2>3. CASE Window!FirstDropped \/ Window!FirstFails \/ Window!SessionEnds
      <3>1. update' = Window!NoUpdate /\ UNCHANGED <<latest_frame, bus>>
        BY <2>3 DEF Window!FirstDropped, Window!FirstFails, Window!SessionEnds
      <3> QED BY <3>1 DEF Window!NoUpdate
    <2>4. CASE Window!FirstFrame
      <3>1. ~hidden /\ update.kind = "frame"
        BY <2>4 DEF Window!FirstFrame
      <3>2. Restored(update.surface, surfaceChanges)
        BY <3>1, SeenMayBeShown
      <3> QED BY <2>4, <3>2 DEF Window!FirstFrame, Window!NoUpdate
    <2>5. CASE Window!Repeat
      BY <2>5 DEF Window!Repeat
    <2>6. CASE Window!Judge
      <3>1. /\ update' = Window!NoUpdate
            /\ bus' \in {bus, latest_frame'}
            /\ \/ latest_frame' = latest_frame
               \/ ~hidden /\ update.kind = "frame" /\ latest_frame' = update.surface
        BY <2>6 DEF Window!Judge
      <3>2. ~hidden /\ update.kind = "frame" => Restored(update.surface, surfaceChanges)
        BY SeenMayBeShown
      <3> QED BY <3>1, <3>2 DEF Window!NoUpdate
    <2> QED BY <2>1, <2>2, <2>3, <2>4, <2>5, <2>6 DEF Window!Reader
  <1> QED BY <1>1, <1>2, <1>3, <1>4 DEF WindowInv

LEMMA WindowStep == WindowInv /\ [Window!Next]_(Window!vars) => WindowInv'
  <1> SUFFICES ASSUME WindowInv, [Window!Next]_(Window!vars) PROVE WindowInv'
    OBVIOUS
  <1> USE DEF Window!window, Window!mailbox, Window!held, Window!shared
  <1>1. CASE Window!WindowChanges
    <2>1. /\ surfaceChanges' = surfaceChanges + 1 /\ shownSize' \in Sizes
          /\ UNCHANGED <<frames, latest, update, latest_frame, bus>>
      BY <1>1 DEF Window!WindowChanges, WindowInv
    <2>2. \A surface : Composed(surface, surfaceChanges, hidden) =>
                           Composed(surface, surfaceChanges', hidden')
      BY <2>1, ChangeAgesSurfaces DEF WindowInv
    <2>3. \A surface : Restored(surface, surfaceChanges) => Restored(surface, surfaceChanges')
      BY <2>1 DEF WindowInv, Restored
    <2> QED BY <2>1, <2>2, <2>3 DEF WindowInv
  <1>2. CASE Window!Compose
    <2>1. PICK surface \in Window!Surfaces : frames' = Append(frames, surface)
      BY <1>2 DEF Window!Compose
    <2>2. Composed(surface, surfaceChanges, hidden)
      <3>1. CASE hidden
        BY <2>1, <3>1 DEF Window!Surfaces, Composed, WindowInv
      <3>2. CASE ~hidden
        <4>1. surface = [size |-> shownSize, minimized |-> 0]
          BY <2>1, <3>2 DEF Window!Surfaces
        <4> QED BY <4>1 DEF Composed, WindowInv
      <3> QED BY <3>1, <3>2
    <2>3. /\ frames' \in Seq([size : Sizes \cup {TitleBar}, minimized : Nat])
          /\ \A i \in 1 .. Len(frames') : Composed(frames'[i], surfaceChanges, hidden)
      BY <2>1, <2>2 DEF WindowInv, Composed
    <2> QED BY <1>2, <2>3 DEF Window!Compose, WindowInv
  <1>3. CASE Window!FrameArrived \/ Window!FrameFails
    <2>1. /\ frames # <<>> /\ frames' = Tail(frames)
          /\ UNCHANGED <<surfaceChanges, hidden, shownSize, update, latest_frame, bus>>
      BY <1>3 DEF Window!FrameArrived, Window!FrameFails
    <2>2. /\ Composed(Head(frames), surfaceChanges, hidden)
          /\ frames' \in Seq([size : Sizes \cup {TitleBar}, minimized : Nat])
          /\ \A i \in 1 .. Len(frames') : Composed(frames'[i], surfaceChanges, hidden)
      BY <2>1 DEF WindowInv
    <2>3. latest' = latest \/ (latest' = Head(frames) /\ Full(Head(frames)))
      BY <1>3, PixelsAreFull DEF Window!FrameArrived, Window!FrameFails, Full
    <2> QED BY <2>1, <2>2, <2>3 DEF WindowInv
  <1>4. CASE Window!Retire \/ Window!ItemClosed \/ UNCHANGED Window!vars
    BY <1>4 DEF WindowInv, Window!Retire, Window!ItemClosed, Window!vars
  <1>5. CASE Window!Reader
    BY <1>5, ReaderKeepsPictures
  <1> QED BY <1>1, <1>2, <1>3, <1>4, <1>5 DEF Window!Next

\* shared_capture.rs:720-727, 890-921. A surface that was composed while the window was
\* minimized reaches the encoders only after the window was restored, whatever its size,
\* for any sizes and any number of changes of the window.
THEOREM MinimizedWindowIsNotShown == Window!Spec => []MinimizedNotShown
  <1>1. WindowInv => MinimizedNotShown
    BY DEF WindowInv, Restored, Full, MinimizedNotShown, Window!MinimizedNotShown
  <1> QED BY <1>1, WindowInit, WindowStep, PTL DEF Window!Spec

(***************************************************************************)
(* The pacing of the audio. What an operator of AudioPacing does to the      *)
(* time of a queue.                                                        *)
(***************************************************************************)

LEMMA TimeIsTotal ==
    ASSUME NEW q
    PROVE  Audio!Time(q) = Total(q) + Len(q)
  <1>1. Audio!Total(q) = Total(q)
    BY DEF Audio!Total, Audio!FoldLeft, Audio!MapThenFoldSet, Audio!Max,
           Total, FoldLeft, MapThenFoldSet, Max
  <1> QED BY <1>1 DEF Audio!Time

LEMMA TimeEmpty == Audio!Time(<<>>) = 0
  BY TimeIsTotal, TotalEmpty

LEMMA TimeType ==
    ASSUME NEW q \in Seq(Nat)
    PROVE  Audio!Time(q) \in Nat
  BY TimeIsTotal, TotalType

LEMMA TimeAppend ==
    ASSUME NEW q \in Seq(Nat), NEW gap \in Nat
    PROVE  Audio!Time(Append(q, gap)) = Audio!Time(q) + gap + 1
  <1>1. q \in Seq(Int) /\ Len(Append(q, gap)) = Len(q) + 1 /\ Len(q) \in Nat
    OBVIOUS
  <1>2. Total(Append(q, gap)) = Total(q) + gap /\ Total(q) \in Nat
    BY <1>1, TotalAppend, TotalType
  <1>3. Audio!Time(Append(q, gap)) = Total(Append(q, gap)) + Len(Append(q, gap))
    BY TimeIsTotal
  <1>4. Audio!Time(q) = Total(q) + Len(q)
    BY TimeIsTotal
  <1> QED BY <1>1, <1>2, <1>3, <1>4

LEMMA TimeTail ==
    ASSUME NEW q \in Seq(Nat), q # <<>>
    PROVE  Audio!Time(q) = Head(q) + 1 + Audio!Time(Tail(q))
  <1>1. /\ q \in Seq(Int) /\ Len(Tail(q)) = Len(q) - 1 /\ Len(q) \in Nat
        /\ Head(q) \in Nat /\ Tail(q) \in Seq(Nat)
    OBVIOUS
  <1>2. Total(q) = Head(q) + Total(Tail(q)) /\ Total(Tail(q)) \in Nat
    BY <1>1, TotalTail, TotalType
  <1>3. Audio!Time(q) = Total(q) + Len(q)
    BY TimeIsTotal
  <1>4. Audio!Time(Tail(q)) = Total(Tail(q)) + Len(Tail(q))
    BY TimeIsTotal
  <1> QED BY <1>1, <1>2, <1>3, <1>4

LEMMA TimeSplit ==
    ASSUME NEW q \in Seq(Nat), NEW k \in 0 .. Len(q)
    PROVE  /\ SubSeq(q, 1, k) \in Seq(Nat) /\ SubSeq(q, k + 1, Len(q)) \in Seq(Nat)
           /\ Audio!Time(q) = Audio!Time(SubSeq(q, 1, k)) + Audio!Time(SubSeq(q, k + 1, Len(q)))
  <1> DEFINE front == SubSeq(q, 1, k)
             rest  == SubSeq(q, k + 1, Len(q))
  <1>1. /\ q \in Seq(Int) /\ front \in Seq(Nat) /\ rest \in Seq(Nat)
        /\ Len(front) = k /\ Len(rest) = Len(q) - k
    OBVIOUS
  <1>2. Total(q) = Total(front) + Total(rest)
    BY <1>1, TotalSplit
  <1>3. Total(front) \in Nat /\ Total(rest) \in Nat
    BY <1>1, TotalType
  <1> HIDE DEF front, rest
  <1>4. Audio!Time(q) = Audio!Time(front) + Audio!Time(rest)
    <2>1. Audio!Time(q) = Total(q) + Len(q)
      BY TimeIsTotal
    <2>2. Audio!Time(front) = Total(front) + Len(front)
      BY TimeIsTotal
    <2>3. Audio!Time(rest) = Total(rest) + Len(rest)
      BY TimeIsTotal
    <2> QED BY <1>1, <1>2, <1>3, <2>1, <2>2, <2>3
  <1> QED BY <1>1, <1>4 DEF front, rest

\* enqueue_bounded_audio_sample: the queue grows by the time of the packet, whether
\* or not its oldest packet goes.
LEMMA TimeEnqueue ==
    ASSUME NEW q \in Seq(Nat), NEW gap \in Nat, QueueCapacity \in Nat \ {0}
    PROVE  /\ Audio!EnqueueBounded(q, gap) \in Seq(Nat)
           /\ Audio!Time(Audio!EnqueueBounded(q, gap)) = Audio!Time(q) + gap + 1
  <1>1. CASE Len(q) < QueueCapacity
    BY <1>1, TimeAppend DEF Audio!EnqueueBounded
  <1>2. CASE ~(Len(q) < QueueCapacity)
    <2> DEFINE rest == Append(Tail(q), gap)
               next == [rest EXCEPT ![1] = @ + Head(q) + 1]
    <2>1. q # <<>> /\ Head(q) \in Nat /\ Tail(q) \in Seq(Nat)
      BY <1>2
    <2>2. rest \in Seq(Nat) /\ rest # <<>> /\ Head(rest) \in Nat /\ Tail(rest) \in Seq(Nat)
      <3>1. Tail(q) \in Seq(Nat)
        BY <2>1
      <3>2. rest \in Seq(Nat)
        BY <3>1
      <3>3. Len(rest) = Len(Tail(q)) + 1
        BY <3>1
      <3> HIDE DEF rest
      <3> QED BY <3>1, <3>2, <3>3
    <2>3. Audio!Time(rest) = Audio!Time(Tail(q)) + gap + 1
      BY <2>1, TimeAppend
    <2>4. Audio!Time(q) = Head(q) + 1 + Audio!Time(Tail(q))
      BY <2>1, TimeTail
    <2> HIDE DEF rest
    <2>5. next \in Seq(Nat) /\ next # <<>> /\ Len(next) = Len(rest)
          /\ Head(next) = Head(rest) + Head(q) + 1
      BY <2>1, <2>2, SMTT(20)
    <2>6. Tail(next) = Tail(rest)
      BY <2>1, <2>2
    <2>7. Audio!Time(rest) = Head(rest) + 1 + Audio!Time(Tail(rest))
      BY <2>2, TimeTail
    <2> HIDE DEF next
    <2>8. Audio!Time(next) = Head(next) + 1 + Audio!Time(Tail(next))
      BY <2>5, TimeTail
    <2>9. Audio!EnqueueBounded(q, gap) = next
      BY <1>2 DEF Audio!EnqueueBounded, rest, next
    <2>10. Audio!Time(Tail(q)) \in Nat /\ Audio!Time(Tail(rest)) \in Nat
      BY <2>1, <2>2, TimeType
    <2> DEFINE before == Audio!Time(q)
               after  == Audio!Time(next)
               appended == Audio!Time(rest)
               kept   == Audio!Time(Tail(q))
               others == Audio!Time(Tail(rest))
               first  == Head(rest)
               oldest == Head(q)
    <2>11. after = before + gap + 1
      <3>1. before = oldest + 1 + kept /\ appended = kept + gap + 1
        BY <2>3, <2>4
      <3>2. appended = first + 1 + others
        BY <2>7
      <3>3. after = first + oldest + 1 + 1 + others
        BY <2>5, <2>6, <2>8
      <3>4. kept \in Nat /\ others \in Nat /\ first \in Nat /\ oldest \in Nat
        BY <2>1, <2>2, <2>10
      <3> HIDE DEF before, after, appended, kept, others, first, oldest
      <3> QED BY <3>1, <3>2, <3>3, <3>4
    <2> QED BY <2>5, <2>9, <2>11
  <1> QED BY <1>1, <1>2

(***************************************************************************)
(* The books of the audio balance.                                         *)
(***************************************************************************)

AudioInv ==
    /\ audioBacklog \in Seq(Nat) /\ packets \in Seq(Nat)
    /\ pending \in Nat /\ wire \in Nat /\ unwritten \in Nat /\ waited \in Nat
    /\ captured \in Int
    /\ Audio!TimeKept

LEMMA AudioStart == Audio!Init => AudioInv
  BY TimeEmpty DEF Audio!Init, AudioInv, Audio!TimeKept

LEMMA Capacities ==
    /\ BacklogCapacity \in Nat \ {0} /\ LiveEdgeFrames \in Nat \ {0}
    /\ QueueCapacity \in Nat \ {0} /\ MaxGap \in Nat /\ MaxFrames \in Nat
  BY MCAssumption DEF MCAssumption, Audio!CapacitiesAssumption

LEMMA LargerType ==
    ASSUME NEW a \in Nat, NEW b \in Nat
    PROVE  Audio!Larger(a, b) \in Nat
  BY DEF Audio!Larger

\* enqueue_bounded_capture_chunk drops a front of the backlog.
LEMMA OverflowIsFront ==
    ASSUME NEW q \in Seq(Nat)
    PROVE  \E k \in 0 .. Len(q) : Audio!Overflow(q) = SubSeq(q, 1, k) /\ Len(Audio!Overflow(q)) = k
  <1>1. CASE Len(q) >= BacklogCapacity
    <2>1. 1 \in 0 .. Len(q) /\ Audio!Overflow(q) = SubSeq(q, 1, 1)
      BY <1>1, Capacities DEF Audio!Overflow
    <2>2. Len(SubSeq(q, 1, 1)) = 1
      BY <2>1
    <2> QED BY <2>1, <2>2
  <1>2. CASE ~(Len(q) >= BacklogCapacity)
    <2>1. Audio!Overflow(q) = <<>> /\ 0 \in 0 .. Len(q)
      BY <1>2 DEF Audio!Overflow
    <2>2. SubSeq(q, 1, 0) = <<>>
      BY SubSeqEmpty
    <2> QED BY <2>1, <2>2
  <1> QED BY <1>1, <1>2

\* trim_capture_backlog_to_live_edge drops a front of the backlog and leaves a chunk.
LEMMA StaleIsFront ==
    ASSUME NEW q \in Seq(Nat), q # <<>>, NEW stalled \in BOOLEAN
    PROVE  LET stale == IF stalled THEN Audio!Stale(q) ELSE <<>>
           IN  \E k \in 0 .. Len(q) - 1 : stale = SubSeq(q, 1, k) /\ Len(stale) = k
  <1> DEFINE stale == IF stalled THEN Audio!Stale(q) ELSE <<>>
  <1>1. CASE stalled /\ Len(q) > LiveEdgeFrames
    <2> DEFINE k == Len(q) - LiveEdgeFrames
    <2>1. k \in 0 .. Len(q) - 1 /\ stale = SubSeq(q, 1, k)
      BY <1>1, Capacities DEF Audio!Stale
    <2>2. Len(SubSeq(q, 1, k)) = k
      BY <2>1
    <2> QED BY <2>1, <2>2
  <1>2. CASE ~(stalled /\ Len(q) > LiveEdgeFrames)
    <2>1. stale = <<>> /\ 0 \in 0 .. Len(q) - 1
      BY <1>2 DEF Audio!Stale
    <2>2. SubSeq(q, 1, 0) = <<>>
      BY SubSeqEmpty
    <2> QED BY <2>1, <2>2
  <1> QED BY <1>1, <1>2

LEMMA CaptureChunkBalances ==
    ASSUME AudioInv, NEW s \in Nat, NEW r \in Nat, Audio!CaptureChunk(s, r)
    PROVE  AudioInv'
  <1> DEFINE gap  == Audio!Larger(s, r)
             lost == Audio!Overflow(audioBacklog)
  <1>1. PICK k \in 0 .. Len(audioBacklog) :
                 lost = SubSeq(audioBacklog, 1, k) /\ Len(lost) = k
    BY OverflowIsFront DEF AudioInv
  <1> DEFINE rest == SubSeq(audioBacklog, k + 1, Len(audioBacklog))
  <1>2. /\ gap \in Nat /\ lost \in Seq(Nat) /\ rest \in Seq(Nat)
        /\ Audio!Time(audioBacklog) = Audio!Time(lost) + Audio!Time(rest)
    BY <1>1, LargerType, TimeSplit DEF AudioInv
  <1>3. /\ audioBacklog' = Append(rest, gap) /\ pending' = pending + Audio!Time(lost)
        /\ captured' = captured + gap + 1 /\ UNCHANGED <<packets, wire, unwritten, waited>>
    BY <1>1 DEF Audio!CaptureChunk
  <1> HIDE DEF gap, lost, rest
  <1>4. audioBacklog' \in Seq(Nat) /\ Audio!Time(audioBacklog') = Audio!Time(rest) + gap + 1
    BY <1>2, <1>3, TimeAppend
  <1>5. Audio!Time(lost) \in Nat /\ Audio!Time(rest) \in Nat /\ Audio!Time(packets) \in Nat
    BY <1>2, TimeType DEF AudioInv
  <1>6. /\ packets' \in Seq(Nat) /\ pending' \in Nat /\ wire' \in Nat /\ unwritten' \in Nat
        /\ waited' \in Nat /\ captured' \in Int
    BY <1>2, <1>3, <1>5, SMTT(20) DEF AudioInv
  <1>7. Audio!TimeKept'
    <2> DEFINE queued == Audio!Time(packets)
               owed   == Audio!Time(rest)
               moved  == Audio!Time(lost)
               owes   == Audio!Time(audioBacklog')
    <2>1. wire + unwritten + queued + pending + (moved + owed) = captured + waited
      BY <1>2 DEF AudioInv, Audio!TimeKept
    <2>2. owes = owed + gap + 1 /\ pending' = pending + moved /\ captured' = captured + gap + 1
      BY <1>3, <1>4
    <2>3. queued \in Nat /\ owed \in Nat /\ moved \in Nat /\ gap \in Nat /\ pending \in Nat
          /\ wire \in Nat /\ unwritten \in Nat /\ waited \in Nat /\ captured \in Int
      BY <1>2, <1>5 DEF AudioInv
    <2>4. wire' = wire /\ unwritten' = unwritten /\ waited' = waited /\ Audio!Time(packets') = queued
      BY <1>3
    <2> HIDE DEF queued, owed, moved, owes
    <2>5. wire' + unwritten' + queued + pending' + owes = captured' + waited'
      BY <2>1, <2>2, <2>3, <2>4
    <2> QED BY <2>4, <2>5 DEF Audio!TimeKept, owes
  <1> QED BY <1>4, <1>6, <1>7 DEF AudioInv

LEMMA StartAfreshBalances ==
    ASSUME AudioInv, NEW pause, Audio!StartAfresh(pause)
    PROVE  AudioInv'
  <1>1. /\ audioBacklog' = <<>> /\ pending' = 0
        /\ captured' = captured - Audio!Time(audioBacklog) - pending
        /\ UNCHANGED <<packets, wire, unwritten, waited>>
    BY DEF Audio!StartAfresh
  <1> DEFINE queued == Audio!Time(packets)
             owed   == Audio!Time(audioBacklog)
             owes   == Audio!Time(audioBacklog')
  <1>2. queued \in Nat /\ owed \in Nat /\ Audio!Time(packets') = queued
    BY <1>1, TimeType DEF AudioInv
  <1>3. owes = 0
    BY <1>1, TimeEmpty
  <1>4. wire + unwritten + queued + pending + owed = captured + waited
    BY DEF AudioInv, Audio!TimeKept
  <1>5. /\ wire \in Nat /\ unwritten \in Nat /\ waited \in Nat /\ captured \in Int
        /\ pending \in Nat
    BY DEF AudioInv
  <1>6. captured' = captured - owed - pending
    BY <1>1
  <1> HIDE DEF queued, owed, owes
  <1>7. wire' + unwritten' + queued + pending' + owes = captured' + waited' /\ captured' \in Int
    BY <1>1, <1>2, <1>3, <1>4, <1>5, <1>6
  <1>8. Audio!TimeKept'
    BY <1>2, <1>7 DEF Audio!TimeKept, owes
  <1> QED BY <1>1, <1>7, <1>8 DEF AudioInv

LEMMA SendBalances ==
    ASSUME AudioInv, NEW stalled \in BOOLEAN, NEW malformed \in BOOLEAN, NEW elapsed \in Nat,
           Audio!Send(stalled, malformed, elapsed)
    PROVE  AudioInv'
  <1> DEFINE stale   == IF stalled THEN Audio!Stale(audioBacklog) ELSE <<>>
             chunk   == audioBacklog[Len(stale) + 1]
             dropped == pending + Audio!Time(stale) + chunk
             gap     == IF sent THEN Audio!Larger(dropped, elapsed) ELSE dropped
             rest    == SubSeq(audioBacklog, Len(stale) + 2, Len(audioBacklog))
  <1>1. audioBacklog # <<>> /\ audioBacklog \in Seq(Nat)
    BY DEF Audio!Send, AudioInv
  <1>2. PICK k \in 0 .. Len(audioBacklog) - 1 :
                 stale = SubSeq(audioBacklog, 1, k) /\ Len(stale) = k
    BY <1>1, StaleIsFront
  <1> DEFINE ahead == IF sent THEN Audio!Larger(elapsed - dropped, 0) ELSE 0
  <1>3. /\ audioBacklog' = rest /\ UNCHANGED <<wire, unwritten, captured>>
        /\ \/ pending' = dropped + 1 /\ UNCHANGED <<packets, waited>>
           \/ /\ pending' = 0 /\ packets' = Audio!EnqueueBounded(packets, gap)
              /\ waited' = waited + ahead
    BY DEF Audio!Send
  <1>4. /\ stale \in Seq(Nat) /\ rest \in Seq(Nat) /\ chunk \in Nat
        /\ Audio!Time(audioBacklog) = Audio!Time(stale) + chunk + 1 + Audio!Time(rest)
    <2> DEFINE later == SubSeq(audioBacklog, k + 1, Len(audioBacklog))
    <2>1. /\ stale \in Seq(Nat) /\ later \in Seq(Nat)
          /\ Audio!Time(audioBacklog) = Audio!Time(stale) + Audio!Time(later)
      <3>1. k \in 0 .. Len(audioBacklog)
        BY <1>2
      <3> QED BY <1>1, <1>2, <3>1, TimeSplit
    <2>2. k + 1 \in 1 .. Len(audioBacklog) /\ Len(audioBacklog) \in k + 1 .. Len(audioBacklog)
      BY <1>1, <1>2
    <2>3. Head(later) = audioBacklog[k + 1]
          /\ Tail(later) = SubSeq(audioBacklog, (k + 1) + 1, Len(audioBacklog))
      BY <1>1, <2>2, HeadTailOfSubSeq
    <2>4. (k + 1) + 1 = k + 2
      BY <1>2
    <2>5. later # <<>> /\ Tail(later) \in Seq(Nat) /\ chunk \in Nat
      <3>1. Len(later) = Len(audioBacklog) - k /\ chunk = audioBacklog[k + 1]
        BY <1>1, <1>2
      <3>2. chunk \in Nat
        BY <1>1, <2>2, <3>1
      <3>3. Len(later) >= 1
        BY <1>1, <1>2, <3>1
      <3> HIDE DEF later, chunk
      <3> QED BY <2>1, <3>2, <3>3
    <2>6. Head(later) = chunk /\ Tail(later) = rest
      BY <1>2, <2>3, <2>4
    <2> HIDE DEF later, rest, chunk, stale
    <2>7. Audio!Time(later) = chunk + 1 + Audio!Time(rest)
      BY <2>1, <2>5, <2>6, TimeTail
    <2>8. Audio!Time(stale) \in Nat /\ Audio!Time(rest) \in Nat
      BY <2>1, <2>5, <2>6, TimeType
    <2> DEFINE all == Audio!Time(audioBacklog)
               old == Audio!Time(stale)
               new == Audio!Time(rest)
    <2>9. all = old + (chunk + 1 + new) /\ old \in Nat /\ new \in Nat /\ chunk \in Nat
      BY <2>1, <2>5, <2>7, <2>8
    <2> HIDE DEF all, old, new
    <2>10. all = old + chunk + 1 + new
      BY <2>9
    <2> QED BY <2>1, <2>5, <2>6, <2>10 DEF all, old, new
  <1>5. Audio!Time(stale) \in Nat /\ Audio!Time(rest) \in Nat /\ Audio!Time(packets) \in Nat
    BY <1>4, TimeType DEF AudioInv
  <1> DEFINE queued == Audio!Time(packets)
             queues == Audio!Time(packets')
             old    == Audio!Time(stale)
             owes   == Audio!Time(rest)
  <1>6. /\ queued \in Nat /\ old \in Nat /\ owes \in Nat /\ chunk \in Nat /\ pending \in Nat
        /\ wire \in Nat /\ unwritten \in Nat /\ waited \in Nat /\ captured \in Int
    BY <1>4, <1>5 DEF AudioInv
  <1>7. dropped = pending + old + chunk
    OBVIOUS
  <1>8. wire + unwritten + queued + pending + (old + chunk + 1 + owes) = captured + waited
    BY <1>4 DEF AudioInv, Audio!TimeKept
  <1> HIDE DEF stale, chunk, dropped, rest, old, owes, queued, queues
  <1>9. dropped \in Nat /\ gap \in Nat /\ ahead \in Nat /\ gap = dropped + ahead
    BY <1>6, <1>7 DEF Audio!Larger
  <1> HIDE DEF gap, ahead
  <1>10. CASE pending' = dropped + 1 /\ UNCHANGED <<packets, waited>>
    <2>1. queues = queued
      BY <1>10 DEF queues, queued
    <2>2. wire' + unwritten' + queues + pending' + owes = captured' + waited'
      BY <1>3, <1>6, <1>7, <1>8, <1>10, <2>1
    <2>3. Audio!TimeKept'
      BY <1>3, <2>2 DEF Audio!TimeKept, queues, owes
    <2> QED BY <1>3, <1>4, <1>9, <1>10, <2>3 DEF AudioInv
  <1>11. CASE /\ pending' = 0 /\ packets' = Audio!EnqueueBounded(packets, gap)
              /\ waited' = waited + ahead
    <2>1. packets' \in Seq(Nat) /\ queues = queued + gap + 1
      BY <1>9, <1>11, TimeEnqueue, Capacities DEF AudioInv, queues, queued
    <2>2. wire' + unwritten' + queues + pending' + owes = captured' + waited'
      BY <1>3, <1>6, <1>7, <1>8, <1>9, <1>11, <2>1
    <2>3. Audio!TimeKept'
      BY <1>3, <2>2 DEF Audio!TimeKept, queues, owes
    <2>4. waited' \in Nat
      BY <1>6, <1>9, <1>11
    <2> QED BY <1>3, <1>4, <1>11, <2>1, <2>3, <2>4 DEF AudioInv
  <1> QED BY <1>3, <1>10, <1>11

LEMMA WriterBalances ==
    ASSUME AudioInv, Audio!WriterSends \/ Audio!WriterFails
    PROVE  AudioInv'
  <1>1. /\ packets # <<>> /\ packets' = Tail(packets)
        /\ \/ wire' = wire + Head(packets) + 1 /\ unwritten' = unwritten
           \/ unwritten' = unwritten + Head(packets) + 1 /\ wire' = wire
        /\ UNCHANGED <<audioBacklog, pending, captured, waited>>
    BY DEF Audio!WriterSends, Audio!WriterFails, AudioInv
  <1>2. Head(packets) \in Nat /\ packets' \in Seq(Nat)
    BY <1>1 DEF AudioInv
  <1>3. Audio!Time(packets) = Head(packets) + 1 + Audio!Time(packets')
    BY <1>1, TimeTail DEF AudioInv
  <1>4. Audio!Time(packets') \in Nat /\ Audio!Time(audioBacklog) \in Nat
    BY <1>2, TimeType DEF AudioInv
  <1>5. wire' \in Nat /\ unwritten' \in Nat
    BY <1>1, <1>2 DEF AudioInv
  <1> DEFINE first  == Head(packets)
             queues == Audio!Time(packets')
             owed   == Audio!Time(audioBacklog)
  <1>6. wire + unwritten + (first + 1 + queues) + pending + owed = captured + waited
    BY <1>3 DEF AudioInv, Audio!TimeKept
  <1>7. /\ first \in Nat /\ queues \in Nat /\ owed \in Nat
        /\ \/ wire' = wire + first + 1 /\ unwritten' = unwritten
           \/ unwritten' = unwritten + first + 1 /\ wire' = wire
    BY <1>1, <1>2, <1>4
  <1>8. /\ wire \in Nat /\ unwritten \in Nat /\ waited \in Nat /\ captured \in Int
        /\ pending \in Nat
    BY DEF AudioInv
  <1> HIDE DEF first, queues, owed
  <1>9. wire' + unwritten' + queues + pending + owed = captured + waited
    BY <1>6, <1>7, <1>8
  <1>10. Audio!TimeKept'
    BY <1>1, <1>9 DEF Audio!TimeKept, queues, owed
  <1> QED BY <1>1, <1>2, <1>5, <1>10 DEF AudioInv

LEMMA AudioStep == AudioInv /\ [Audio!Next]_(Audio!vars) => AudioInv'
  <1> SUFFICES ASSUME AudioInv, [Audio!Next]_(Audio!vars) PROVE AudioInv'
    OBVIOUS
  <1>1. CASE \E s, r \in 0 .. MaxGap : Audio!CaptureChunk(s, r)
    BY <1>1, CaptureChunkBalances, Capacities
  <1>2. CASE Audio!CaptureSplice
    <2>1. /\ pending' = pending + 1 /\ captured' = captured + 1
          /\ UNCHANGED <<audioBacklog, packets, wire, unwritten, waited>>
      BY <1>2 DEF Audio!CaptureSplice
    <2>2. Audio!Time(packets) \in Nat /\ Audio!Time(audioBacklog) \in Nat
      BY TimeType DEF AudioInv
    <2> DEFINE queued == Audio!Time(packets)
               owed   == Audio!Time(audioBacklog)
    <2>3. wire + unwritten + queued + pending + owed = captured + waited
      BY DEF AudioInv, Audio!TimeKept
    <2>4. /\ queued \in Nat /\ owed \in Nat /\ wire \in Nat /\ unwritten \in Nat
          /\ waited \in Nat /\ captured \in Int /\ pending \in Nat
      BY <2>2 DEF AudioInv
    <2> HIDE DEF queued, owed
    <2>5. wire + unwritten + queued + pending' + owed = captured' + waited
      BY <2>1, <2>3, <2>4
    <2>6. Audio!TimeKept'
      BY <2>1, <2>5 DEF Audio!TimeKept, queued, owed
    <2> QED BY <2>1, <2>4, <2>6 DEF AudioInv
  <1>3. CASE \E pause \in BOOLEAN : Audio!StartAfresh(pause)
    BY <1>3, StartAfreshBalances
  <1>4. CASE \E stalled, malformed \in BOOLEAN, elapsed \in 0 .. MaxGap :
                 Audio!Send(stalled, malformed, elapsed)
    BY <1>4, SendBalances, Capacities
  <1>5. CASE Audio!WriterSends \/ Audio!WriterFails
    BY <1>5, WriterBalances
  <1>6. CASE UNCHANGED Audio!vars
    BY <1>6 DEF Audio!vars, AudioInv, Audio!TimeKept
  <1> QED BY <1>1, <1>2, <1>3, <1>4, <1>5, <1>6 DEF Audio!Next

\* audio.rs. No captured time is lost on its way to a viewer and none is counted
\* twice, for any capacities of the backlog and of the queue and any gaps.
THEOREM NoAudioTimeIsLost == Audio!Spec => []TimeKept
  <1>1. AudioInv => TimeKept
    BY DEF AudioInv, TimeKept
  <1> QED BY <1>1, AudioStart, AudioStep, PTL DEF Audio!Spec

(***************************************************************************)
(* The audio input.                                                        *)
(***************************************************************************)

\* An input is opened under the settings that were read after the revision, and
\* reconfigure writes the settings before the revision.
InputInv ==
    /\ audioRevision \in Nat /\ audioRun.revision \in Nat /\ audioRun.revision <= audioRevision
    /\ audioRun = [revision |-> audioRun.revision, input |-> audioRun.input]
    /\ audioPc \in {"open", "failed", "started", "stream"}
          /\ audioRun.revision = audioRevision /\ reconfiguring = "idle"
             => audioRun.input = audioSettings
    /\ stream # None => audioPc \in {"started", "stream"} /\ stream = audioRun.input

\* An input that is open is the one the settings name, or the thread is about to find
\* that its revision is superseded.
OpenInputIsNamed ==
    stream # None /\ stream # audioSettings =>
        audioRun.revision < audioRevision \/ reconfiguring # "idle"

LEMMA InputStart == Input!Init => InputInv
  BY DEF Input!Init, Input!NoRun, InputInv

LEMMA InputStep == InputInv /\ [Input!Next]_(Input!vars) => InputInv'
  <1> SUFFICES ASSUME InputInv, [Input!Next]_(Input!vars) PROVE InputInv'
    OBVIOUS
  <1> USE DEF InputInv, Input!host, Input!status, Input!thread
  <1>1. CASE Input!Stop \/ Input!Swapped \/ UNCHANGED Input!vars
    BY <1>1 DEF Input!Stop, Input!Swapped, Input!vars
  <1>2. ASSUME NEW value \in BOOLEAN, Input!SetActive(value) PROVE InputInv'
    BY <1>2 DEF Input!SetActive
  <1>3. ASSUME NEW s, Input!Reconfigure(s) PROVE InputInv'
    BY <1>3 DEF Input!Reconfigure
  <1>4. CASE Input!Revises
    BY <1>4 DEF Input!Revises, Input!ReconfigureFailure, Input!ReconfigureEnded,
                Input!ReconfigureRevise
  <1>5. CASE Input!ReadRevision \/ Input!ReadSettings
    BY <1>5 DEF Input!ReadRevision, Input!ReadSettings, Input!NoRun
  <1>6. CASE Input!Outer \/ Input!Open \/ Input!RecordFailure \/ Input!Retry \/ Input!Started
    BY <1>6 DEF Input!Outer, Input!Open, Input!RecordFailure, Input!Retry, Input!Started
  <1>7. CASE Input!StreamCloses \/ Input!EncodeFails \/ Input!RecordEnd \/ Input!End
    BY <1>7 DEF Input!StreamCloses, Input!EncodeFails, Input!RecordEnd, Input!End
  <1> QED BY <1>1, <1>2, <1>3, <1>4, <1>5, <1>6, <1>7 DEF Input!Next, Input!ThreadStep

\* audio.rs:AudioPipeline::run. An input the settings no longer name is open only while the
\* thread is about to find its revision superseded, although the settings and the revision
\* are written and read without a common lock.
THEOREM InputsAreNamed == Input!Spec => []OpenInputIsNamed
  <1>1. InputInv => OpenInputIsNamed
    BY DEF InputInv, OpenInputIsNamed
  <1> QED BY <1>1, InputStart, InputStep, PTL DEF Input!Spec

(***************************************************************************)
(* The monitor of the size of the window.                                  *)
(***************************************************************************)
Request == [source |-> selected, dimensions |-> size]

\* What the debouncer has emitted is the size of the window, as long as nothing
\* changed since.
EmittedIsSize ==
    /\ emitted \in {None, candidate}
    /\ emitted # None /\ ~hurried => emitted = size /\ ~minimized

\* It emits a size once: the request for it is not dropped before the capture has
\* that size, or the window another one.
EmittedOnceIsEnough ==
    emitted # None /\ ~hurried /\ enabled /\ canvas # size =>
        \E i \in 1 .. Len(refresh) : refresh[i] = Request

Requests == [source : Windows, dimensions : Dimensions]

MonitorInv ==
    /\ selected \in Windows /\ size \in Dimensions
    /\ refresh \in Seq(Requests)
    /\ EmittedIsSize /\ EmittedOnceIsEnough

LEMMA MonitorStart == Monitor!ResizeAssumption /\ Monitor!Init => MonitorInv
  BY DEF Monitor!ResizeAssumption, Monitor!Init, MonitorInv, EmittedIsSize, EmittedOnceIsEnough

\* A debouncer that forgets has nothing to answer for.
LEMMA ForgottenIsSafe ==
    ASSUME MonitorInv, Monitor!Forget, UNCHANGED <<selected, size, refresh>>
    PROVE  MonitorInv'
  BY DEF MonitorInv, EmittedIsSize, EmittedOnceIsEnough, Monitor!Forget, Requests

\* What changes the window or the gate marks the size that was emitted before.
LEMMA ChangeIsMarked ==
    ASSUME MonitorInv, Monitor!Change, selected' \in Windows, size' \in Dimensions
    PROVE  MonitorInv'
  BY DEF MonitorInv, EmittedIsSize, EmittedOnceIsEnough, Monitor!Change, Requests

LEMMA ObserveAsks ==
    ASSUME MonitorInv, NEW now, NEW forgotten, Monitor!Observe(now, forgotten),
           UNCHANGED Monitor!window, UNCHANGED Monitor!control
    PROVE  MonitorInv'
  <1> USE DEF MonitorInv, Monitor!window, Monitor!control
  <1>1. CASE ~enabled \/ minimized \/ size = canvas
    BY <1>1, ForgottenIsSafe DEF Monitor!Observe
  <1>2. CASE ~(~enabled \/ minimized \/ size = canvas)
    <2> DEFINE known == candidate = size /\ ~forgotten
               emits == (now \/ (known /\ settled)) /\ ~(known /\ emitted = size)
    <2>1. /\ candidate' = size
          /\ emitted' = IF emits THEN size ELSE IF known THEN emitted ELSE None
          /\ hurried' = (known /\ ~emits /\ hurried)
          /\ refresh' = IF emits THEN Append(refresh, Request) ELSE refresh
      BY <1>2 DEF Monitor!Observe, Request
    <2>2. Request \in Requests /\ Request' = Request
      BY DEF Request, Requests
    <2>3. CASE emits
      <3>1. /\ refresh' \in Seq(Requests) /\ Len(refresh') = Len(refresh) + 1
            /\ refresh'[Len(refresh) + 1] = Request
            /\ Len(refresh) + 1 \in 1 .. Len(refresh')
        BY <2>1, <2>2, <2>3
      <3> QED BY <1>2, <2>1, <2>2, <2>3, <3>1 DEF EmittedIsSize, EmittedOnceIsEnough
    <2>4. CASE ~emits /\ known
      BY <1>2, <2>1, <2>2, <2>4 DEF EmittedIsSize, EmittedOnceIsEnough
    <2>5. CASE ~emits /\ ~known
      BY <1>2, <2>1, <2>2, <2>5 DEF EmittedIsSize, EmittedOnceIsEnough
    <2> QED BY <2>3, <2>4, <2>5
  <1> QED BY <1>1, <1>2

LEMMA NothingSeen ==
    ASSUME MonitorInv, UNCHANGED <<Monitor!debouncer, refresh>>,
           UNCHANGED <<selected, size, minimized, enabled, canvas>>
    PROVE  MonitorInv'
  BY DEF MonitorInv, EmittedIsSize, EmittedOnceIsEnough, Monitor!debouncer, Request

LEMMA MonitorTicks == MonitorInv /\ Monitor!Monitor => MonitorInv'
  <1> SUFFICES ASSUME MonitorInv, Monitor!Monitor PROVE MonitorInv'
    OBVIOUS
  <1>1. UNCHANGED Monitor!window /\ UNCHANGED Monitor!control
    BY DEF Monitor!Monitor, Monitor!EventTick, Monitor!SyncTick, Monitor!SafetyTick
  <1>2. \/ Monitor!Forget /\ UNCHANGED refresh
        \/ UNCHANGED <<Monitor!debouncer, refresh>>
        \/ \E now, forgotten : Monitor!Observe(now, forgotten)
    <2>1. CASE Monitor!EventTick
      <3>1. PICK seen :
                \/ (IF seen.forget THEN Monitor!Forget ELSE UNCHANGED Monitor!debouncer)
                      /\ UNCHANGED refresh
                \/ Monitor!Rehook
                \/ Monitor!Observe(seen.observe = "settled", seen.forget)
        BY <2>1 DEF Monitor!EventTick
      <3> QED BY <3>1 DEF Monitor!Rehook
    <2>2. CASE Monitor!SyncTick
      BY <2>2 DEF Monitor!SyncTick
    <2>3. CASE Monitor!SafetyTick
      <3> DEFINE resizing == interactive /\ ~Monitor!Stale
      <3>1. \/ (IF resizing THEN UNCHANGED Monitor!debouncer ELSE Monitor!Forget)
                  /\ UNCHANGED refresh
            \/ UNCHANGED <<Monitor!debouncer, refresh>>
            \/ Monitor!Observe(Monitor!Recovered(resizing), Monitor!Stale)
        BY <2>3 DEF Monitor!SafetyTick
      <3> HIDE DEF resizing
      <3> QED BY <3>1
    <2> QED BY <2>1, <2>2, <2>3 DEF Monitor!Monitor
  <1>3. CASE Monitor!Forget /\ UNCHANGED refresh
    BY <1>1, <1>3, ForgottenIsSafe DEF Monitor!window
  <1>4. CASE UNCHANGED <<Monitor!debouncer, refresh>>
    BY <1>1, <1>4, NothingSeen DEF Monitor!window, Monitor!control
  <1>5. ASSUME NEW now, NEW forgotten, Monitor!Observe(now, forgotten) PROVE MonitorInv'
    BY <1>1, <1>5, ObserveAsks
  <1> QED BY <1>2, <1>3, <1>4, <1>5

\* prepare_window_capture_restart drops a request only for a change of the window.
LEMMA RefreshAnswers == MonitorInv /\ Monitor!Refresh => MonitorInv'
  <1> SUFFICES ASSUME MonitorInv, Monitor!Refresh PROVE MonitorInv'
    OBVIOUS
  <1> USE DEF MonitorInv, Monitor!Refresh, Monitor!window, Monitor!monitor, Monitor!debouncer
  <1>1. /\ Len(refresh) \in Nat \ {0} /\ refresh' = Tail(refresh) /\ refresh' \in Seq(Requests)
        /\ Len(refresh') = Len(refresh) - 1 /\ Head(refresh) = refresh[1]
        /\ \A i \in 1 .. Len(refresh') : refresh'[i] = refresh[i + 1]
    OBVIOUS
  <1>2. UNCHANGED <<selected, size, minimized, canvas, emitted, hurried, candidate>>
        /\ Request' = Request
    BY DEF Request
  <1>3. EmittedOnceIsEnough'
    <2> SUFFICES ASSUME emitted # None, ~hurried, enabled', canvas # size
                 PROVE  \E i \in 1 .. Len(refresh') : refresh'[i] = Request
      BY <1>2 DEF EmittedOnceIsEnough
    <2>1. enabled' = enabled /\ enabled
      OBVIOUS
    <2>2. PICK i \in 1 .. Len(refresh) : refresh[i] = Request
      BY <2>1 DEF EmittedOnceIsEnough
    <2>3. Head(refresh) # Request
      BY <2>1 DEF EmittedIsSize, Request
    <2>4. i - 1 \in 1 .. Len(refresh') /\ refresh'[i - 1] = refresh[i]
      BY <1>1, <2>2, <2>3
    <2> QED BY <2>2, <2>4
  <1> QED BY <1>1, <1>2, <1>3 DEF EmittedIsSize

LEMMA MonitorStep ==
    Monitor!ResizeAssumption /\ MonitorInv /\ [Monitor!Next]_(Monitor!vars) => MonitorInv'
  <1> SUFFICES ASSUME Monitor!ResizeAssumption, MonitorInv, [Monitor!Next]_(Monitor!vars)
               PROVE  MonitorInv'
    OBVIOUS
  <1>1. CASE \/ Monitor!Resize \/ Monitor!Minimize \/ Monitor!MoveSize
             \/ Monitor!Select \/ Monitor!Stop
    <2>1. Monitor!Change /\ selected' \in Windows /\ size' \in Dimensions
      BY <1>1 DEF MonitorInv, Monitor!Resize, Monitor!Minimize, Monitor!MoveSize,
                  Monitor!Select, Monitor!Stop
    <2> QED BY <2>1, ChangeIsMarked
  <1>2. CASE Monitor!StartStream \/ Monitor!Restarted
    <2>1. /\ UNCHANGED <<selected, size, minimized, Monitor!debouncer, refresh>>
          /\ (enabled' = enabled /\ canvas' = canvas) \/ canvas' = size
      BY <1>2 DEF Monitor!StartStream, Monitor!Restarted, Monitor!window, Monitor!monitor
    <2> QED BY <2>1 DEF MonitorInv, EmittedIsSize, EmittedOnceIsEnough, Monitor!debouncer,
                        Request
  <1>3. CASE Monitor!Settle
    BY <1>3 DEF Monitor!Settle, Monitor!window, Monitor!control, MonitorInv, EmittedIsSize,
                EmittedOnceIsEnough, Request
  <1>4. CASE Monitor!Retry \/ UNCHANGED Monitor!vars
    BY <1>4, NothingSeen DEF Monitor!Retry, Monitor!vars, Monitor!window, Monitor!monitor,
                             Monitor!control
  <1> QED BY <1>1, <1>2, <1>3, <1>4, MonitorTicks, RefreshAnswers
     DEF Monitor!Next, Monitor!Monitor

\* server.rs: WindowResizeDebouncer, prepare_window_capture_restart. A size that was emitted,
\* and that nothing but the restart of the capture can make untrue, has its request in the
\* queue until the capture has that size: whatever is lost or late, nothing is emitted in vain.
THEOREM NoRequestIsLost == Monitor!Spec => []EmittedOnceIsEnough
  <1>1. Monitor!ResizeAssumption
    BY MCAssumption
  <1>2. MonitorInv => EmittedOnceIsEnough
    BY DEF MonitorInv
  <1> QED BY <1>1, <1>2, MonitorStart, MonitorStep, PTL DEF Monitor!Spec
================================================================================
