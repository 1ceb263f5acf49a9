-------------------------- MODULE SharedCapture_proofs --------------------------
(***************************************************************************)
(* Proofs about SharedCapture, for any subscriptions and any bounds on the  *)
(* restarts, the frames and the deaths of the process.                      *)
(***************************************************************************)
EXTENDS SharedCapture, TLAPS

(***************************************************************************)
(* The invariant, by parts.                                                *)
(***************************************************************************)
Latests == [sequence : Nat, producer : Producers, ended : BOOLEAN, failed : BOOLEAN]
Cursings == [state : {"none", "waiting", "ended"}, seen : Nat, since : Producers,
             got : Producers \cup {NoProducer}]

\* Every restart has a producer of its own.
Typed == TypeOK /\ producer = restarts + 1

\* request_stop() sets stopped before anything else, and nobody takes it back.
StoppedInv == \A c \in StopCallers : stopPc[c] \notin {"none", "stop"} => stopped

\* restart() has retired the generation of the producer it replaces.
Retired ==
    \/ pc = "recheck" /\ teardown["worker"] # "advance"
    \/ pc \in {"spawn", "clear", "load", "reader"}

\* A reader that may still publish is of the current format.
GenerationInv ==
    /\ \A p \in Producers : reader[p] # "none" =>
            /\ readerGeneration[p] <= generation
            /\ readerGeneration[p] = generation => p = format
            /\ Retired => readerGeneration[p] < generation
    /\ pc = "reader" => loaded <= generation
    /\ format <= producer
    /\ pc \in {"spawn", "clear", "load", "reader"} => format = producer
    /\ pc \in {"check", "recheck"} => format < producer

\* What a subscription has not seen yet is of its format or a later one.
CursorInv == \A c \in Cursors :
    /\ cursor[c].since <= format
    /\ cursor[c].seen <= latest.sequence
    /\ cursor[c].seen < latest.sequence => latest.producer >= cursor[c].since
    /\ cursor[c].got # NoProducer => cursor[c].got >= cursor[c].since

\* The mutex of the slot, for those who hold it across a wait.
LockInv ==
    /\ \A p \in Producers : reader[p] = "waiting" => childLock = "reader"
    /\ \A p, q \in Producers : reader[p] = "waiting" /\ reader[q] = "waiting" => p = q
    /\ \A t \in Stoppers : teardown[t] = "reaping" => childLock = t

\* A process that is not reaped is in the slot, or a reader waits for it.
ChildInv ==
    /\ \A p \in Producers : process[p] \in {"running", "exited"} =>
            slot = p \/ \E q \in Producers : reader[q] = "waiting" /\ readerChild[q] = p
    /\ Ready("recheck") \/ Ready("spawn") => slot = NoProducer
    /\ NoProcessLeft

(***************************************************************************)
(* Types, and what a step does to the latest frame and to a subscription.  *)
(***************************************************************************)
LEMMA ProducersAreNumbers ==
    /\ Producers \subseteq Nat /\ 1 \in Producers /\ NoProducer \notin Producers
    /\ \A n \in Nat : n < MaxRestarts => n + 1 \in 1 .. MaxRestarts /\ n + 2 \in Producers
  BY BoundsAssumption DEF Producers, NoProducer

\* What a frame does to the latest frame.
LEMMA FramePublished ==
    ASSUME NEW x \in Latests, NEW p \in Producers
    PROVE  LET y == [x EXCEPT !.sequence = x.sequence + 1, !.producer = p]
           IN  y \in Latests /\ y.sequence = x.sequence + 1 /\ y.producer = p
  <1> DEFINE n == x.sequence + 1
             y == [x EXCEPT !.sequence = n, !.producer = p]
  <1>1. n \in Nat
    BY DEF Latests
  <1> HIDE DEF n
  <1>2. y \in Latests
    BY <1>1 DEF Latests
  <1>3. y.sequence = n /\ y.producer = p
    BY DEF Latests
  <1> QED BY <1>2, <1>3 DEF n

\* The end of the bus and its reason are no frame.
LEMMA EndMarked ==
    ASSUME NEW x \in Latests, NEW e \in BOOLEAN, NEW f \in BOOLEAN
    PROVE  LET y == [x EXCEPT !.ended = e, !.failed = f]
           IN  y \in Latests /\ y.sequence = x.sequence /\ y.producer = x.producer
  <1> DEFINE y == [x EXCEPT !.ended = e, !.failed = f]
  <1>1. y \in Latests
    BY DEF Latests
  <1>2. y.sequence = x.sequence /\ y.producer = x.producer
    BY DEF Latests
  <1> QED BY <1>1, <1>2

\* The latest frame after a step: the same, an end, or a frame that a current reader
\* of the capture publishes.
LEMMA LatestMoves ==
    ASSUME TypeOK, [Next]_vars
    PROVE  /\ latest' \in Latests
           /\ \/ latest'.sequence = latest.sequence /\ latest'.producer = latest.producer
              \/ /\ latest'.sequence = latest.sequence + 1
                 /\ \E p \in Producers : /\ reader[p] = "publish" /\ Current(p) /\ latest'.producer = p
                                         /\ UNCHANGED <<cursor, format, generation, stopped>>
  <1>1. latest \in Latests
    BY DEF TypeOK, Latests
  <1>2. CASE UNCHANGED latest
    BY <1>1, <1>2
  <1>3. CASE \E e, f \in BOOLEAN : latest' = [latest EXCEPT !.ended = e, !.failed = f]
    <2>1. PICK e \in BOOLEAN, f \in BOOLEAN : latest' = [latest EXCEPT !.ended = e, !.failed = f]
      BY <1>3
    <2> QED BY <1>1, <2>1, EndMarked
  <1>4. ASSUME NEW p \in Producers, ReaderPublish(p), Current(p)
        PROVE  /\ latest' \in Latests /\ latest'.sequence = latest.sequence + 1 /\ latest'.producer = p
               /\ reader[p] = "publish" /\ UNCHANGED <<cursor, format, generation, stopped>>
    <2>1. /\ latest' = [latest EXCEPT !.sequence = latest.sequence + 1, !.producer = p]
          /\ reader[p] = "publish" /\ UNCHANGED <<cursor, format, generation, stopped>>
      BY <1>4 DEF ReaderPublish, readerRest
    <2> QED BY <1>1, <2>1, FramePublished
  <1>5. \/ UNCHANGED latest
        \/ \E e, f \in BOOLEAN : latest' = [latest EXCEPT !.ended = e, !.failed = f]
        \/ \E p \in Producers : ReaderPublish(p) /\ Current(p)
    <2>1. ASSUME NEW p \in Producers, ReaderRead(p) \/ ReaderStep(p) \/ ProcessDies(p)
          PROVE  \/ UNCHANGED latest
                 \/ latest' = [latest EXCEPT !.ended = TRUE, !.failed = TRUE]
                 \/ ReaderPublish(p) /\ Current(p)
      BY <2>1 DEF ReaderRead, ReaderStep, ProcessDies, ReaderCheck, ReaderEof, ReaderRecheck, ReaderPublish,
                  ReaderFinish, ReaderExit, ReaderTakeChild, ReaderReap, frames
    <2>2. ASSUME NEW c \in StopCallers, RequestStop(c) \/ StopStep(c)
          PROVE  UNCHANGED latest \/ latest' = [latest EXCEPT !.ended = TRUE, !.failed = FALSE]
      BY <2>2 DEF RequestStop, StopStep, SetStopped, Invalidate, TryKill, EndFrames, FinishReader
    <2>3. ASSUME NEW t \in Stoppers, StopProducer(t) PROVE UNCHANGED latest
      BY <2>3 DEF StopProducer, RetireGeneration, KillProducer, JoinReader, TakeChild, ReapChild, teardownRest
    <2>4. RestartCapture \/ Restart =>
            UNCHANGED latest \/ latest' = [latest EXCEPT !.ended = FALSE, !.failed = FALSE]
      BY DEF RestartCapture, Restart, RestartBegins, NewFormat, SpawnChild, ClearEnd, LoadGeneration,
             SpawnReader, AwaitFrame, Restarted, RestartFailed, DetachCapture, frames
    <2>5. ASSUME NEW c \in Cursors, Cursor(c) PROVE UNCHANGED latest
      BY <2>5 DEF Cursor, Subscribe, Receive, SourceEnded, cursorRest, frames
    <2>6. UNCHANGED vars => UNCHANGED latest
      BY DEF vars, frames
    <2> QED BY <2>1, <2>2, <2>3, <2>4, <2>5, <2>6 DEF Next
  <1> QED BY <1>2, <1>3, <1>4, <1>5

\* A subscription after a step of its own.
LEMMA CursorMoves ==
    ASSUME TypeOK, NEW c \in Cursors, Cursor(c)
    PROVE  /\ cursor' \in [Cursors -> Cursings]
           /\ \A d \in Cursors : d # c => cursor'[d] = cursor[d]
           /\ \/ Subscribe(c) /\ cursor'[c].since = format /\ cursor'[c].seen = latest.sequence
                 /\ cursor'[c].got = NoProducer
              \/ Receive(c) /\ cursor'[c].since = cursor[c].since /\ cursor'[c].seen = latest.sequence
                 /\ cursor'[c].got = latest.producer
              \/ SourceEnded(c) /\ cursor'[c].since = cursor[c].since /\ cursor'[c].seen = cursor[c].seen
                 /\ cursor'[c].got = cursor[c].got
  <1>1. /\ cursor \in [Cursors -> Cursings] /\ cursor[c] \in Cursings
        /\ latest.sequence \in Nat /\ latest.producer \in Producers /\ format \in Producers
    BY DEF TypeOK, Cursings
  <1>2. ASSUME Subscribe(c)
        PROVE  \E x \in Cursings : /\ cursor' = [cursor EXCEPT ![c] = x]
                                   /\ x.since = format /\ x.seen = latest.sequence /\ x.got = NoProducer
    <2> DEFINE x == [state |-> "waiting", seen |-> latest.sequence, since |-> format, got |-> NoProducer]
    <2>1. x \in Cursings /\ x.since = format /\ x.seen = latest.sequence /\ x.got = NoProducer
      BY <1>1 DEF Cursings
    <2>2. cursor' = [cursor EXCEPT ![c] = x]
      BY <1>2 DEF Subscribe
    <2> HIDE DEF x
    <2> QED BY <2>1, <2>2
  <1>3. ASSUME Receive(c)
        PROVE  \E x \in Cursings : /\ cursor' = [cursor EXCEPT ![c] = x]
                                   /\ x.since = cursor[c].since /\ x.seen = latest.sequence
                                   /\ x.got = latest.producer
    <2> DEFINE x == [cursor[c] EXCEPT !.seen = latest.sequence, !.got = latest.producer]
    <2>1. x \in Cursings /\ x.since = cursor[c].since /\ x.seen = latest.sequence /\ x.got = latest.producer
      BY <1>1 DEF Cursings
    <2>2. cursor' = [cursor EXCEPT ![c] = x]
      BY <1>3 DEF Receive
    <2> HIDE DEF x
    <2> QED BY <2>1, <2>2
  <1>4. ASSUME SourceEnded(c)
        PROVE  \E x \in Cursings : /\ cursor' = [cursor EXCEPT ![c] = x]
                                   /\ x.since = cursor[c].since /\ x.seen = cursor[c].seen
                                   /\ x.got = cursor[c].got
    <2> DEFINE x == [cursor[c] EXCEPT !.state = "ended"]
    <2>1. x \in Cursings /\ x.since = cursor[c].since /\ x.seen = cursor[c].seen /\ x.got = cursor[c].got
      BY <1>1 DEF Cursings
    <2>2. cursor' = [cursor EXCEPT ![c] = x]
      BY <1>4 DEF SourceEnded
    <2> HIDE DEF x
    <2> QED BY <2>1, <2>2
  <1> QED BY <1>1, <1>2, <1>3, <1>4 DEF Cursor

(***************************************************************************)
(* Types.                                                                  *)
(***************************************************************************)
LEMMA TypedInit == Init => Typed
  <1> SUFFICES ASSUME Init PROVE Typed
    OBVIOUS
  <1> USE ProducersAreNumbers, BoundsAssumption DEF Init
  <1>1. /\ latest \in [sequence : Nat, producer : Producers, ended : BOOLEAN, failed : BOOLEAN]
        /\ observed \in [generation : Nat, format : Producers]
    OBVIOUS
  <1>2. /\ process \in [Producers -> {"none", "running", "exited", "reaped"}]
        /\ reader \in [Producers -> ReaderPcs] /\ readerGeneration \in [Producers -> Nat]
        /\ readerChild \in [Producers -> Producers \cup {NoProducer}]
    BY DEF First, ReaderPcs
  <1>3. cursor \in [Cursors -> [state : {"none", "waiting", "ended"}, seen : Nat, since : Producers,
                              got : Producers \cup {NoProducer}]]
    OBVIOUS
  <1>4. /\ pc \in WorkerPcs /\ stopPc \in [StopCallers -> StopPcs] /\ teardown \in [Stoppers -> TeardownPcs]
        /\ restarts \in 0 .. MaxRestarts
    BY DEF WorkerPcs, StopPcs, TeardownPcs
  <1>5. stopped \in BOOLEAN
    OBVIOUS
  <1>6. /\ generation \in Nat /\ previous \in Nat /\ loaded \in Nat /\ deaths \in Nat
        /\ producer = restarts + 1
    OBVIOUS
  <1>7. /\ format \in Producers /\ producer \in Producers /\ slot \in Producers /\ readerSlot \in Producers
        /\ childLock \in {"free", "reader", "worker", "cleanup"}
    OBVIOUS
  <1> HIDE DEF Init
  <1> QED BY <1>1, <1>2, <1>3, <1>4, <1>5, <1>6, <1>7 DEF Typed, TypeOK

LEMMA TypedStep ==
    ASSUME Typed, [Next]_vars
    PROVE  Typed'
  <1> USE ProducersAreNumbers DEF Typed, TypeOK, frames
  <1>1. latest' \in [sequence : Nat, producer : Producers, ended : BOOLEAN, failed : BOOLEAN]
    BY LatestMoves DEF Latests
  <1>2. ASSUME NEW p \in Producers, ReaderRead(p) \/ ReaderStep(p) \/ ProcessDies(p) PROVE Typed'
    <2>1. /\ reader' \in [Producers -> ReaderPcs] /\ deaths' \in Nat
          /\ UNCHANGED <<stopped, generation, observed, format, readerGeneration, readerSlot, pc, producer,
                         previous, loaded, stopPc, teardown, cursor, restarts>>
      BY <1>2 DEF ReaderRead, ReaderStep, ProcessDies, ReaderCheck, ReaderEof, ReaderRecheck, ReaderPublish,
                  ReaderFinish, ReaderExit, ReaderTakeChild, ReaderReap, ReaderGoto, ReaderPcs,
                  readerRest, workerV, stopV, counts, readers
    <2>2. /\ slot' \in Producers \cup {NoProducer}
          /\ childLock' \in {"free", "reader", "worker", "cleanup"}
          /\ process' \in [Producers -> {"none", "running", "exited", "reaped"}]
          /\ readerChild' \in [Producers -> Producers \cup {NoProducer}]
      BY <1>2 DEF ReaderRead, ReaderStep, ProcessDies, ReaderCheck, ReaderEof, ReaderRecheck, ReaderPublish,
                  ReaderFinish, ReaderExit, ReaderTakeChild, ReaderReap, ReaderGoto, children, readers
    <2> QED BY <1>1, <2>1, <2>2
  <1>3. ASSUME NEW c \in StopCallers, RequestStop(c) \/ StopStep(c) PROVE Typed'
    <2>1. /\ stopped' \in BOOLEAN
          /\ generation' \in Nat /\ observed' \in [generation : Nat, format : Producers]
      <3>1. stopped' \in BOOLEAN
        BY <1>3 DEF RequestStop, StopStep, SetStopped, Invalidate, TryKill, EndFrames
      <3>2. AdvanceGeneration \/ UNCHANGED <<generation, observed>>
        BY <1>3 DEF RequestStop, StopStep, SetStopped, Invalidate, TryKill, EndFrames
      <3> QED BY <3>1, <3>2 DEF AdvanceGeneration
    <2>2. /\ process' \in [Producers -> {"none", "running", "exited", "reaped"}]
          /\ pc' \in WorkerPcs /\ stopPc' \in [StopCallers -> StopPcs]
      <3>1. process' \in [Producers -> {"none", "running", "exited", "reaped"}]
        BY <1>3 DEF RequestStop, StopStep, SetStopped, Invalidate, TryKill, EndFrames, KillChild, children
      <3>2. pc' \in WorkerPcs
        BY <1>3 DEF RequestStop, StopStep, SetStopped, Invalidate, TryKill, EndFrames, WorkerPcs, workerV
      <3>3. stopPc' \in [StopCallers -> StopPcs]
        <4>1. \E label \in StopPcs : StopGoto(c, label)
          BY <1>3 DEF RequestStop, StopStep, SetStopped, Invalidate, TryKill, EndFrames, StopPcs
        <4> QED BY <4>1 DEF StopGoto
      <3> QED BY <3>1, <3>2, <3>3
    <2>3. /\ UNCHANGED <<format, reader, readerGeneration, readerChild, readerSlot, teardown, cursor, restarts,
                         deaths, slot, childLock, producer, previous, loaded>>
      BY <1>3 DEF RequestStop, StopStep, SetStopped, Invalidate, TryKill, EndFrames, stopRest, children,
                  readers, counts, workerV
    <2> QED BY <1>1, <2>1, <2>2, <2>3
  <1>4. ASSUME NEW t \in Stoppers, StopProducer(t) PROVE Typed'
    <2>1. /\ generation' \in Nat /\ observed' \in [generation : Nat, format : Producers]
          /\ readerSlot' \in Producers \cup {NoProducer} /\ slot' \in Producers \cup {NoProducer}
      BY <1>4 DEF StopProducer, RetireGeneration, KillProducer, JoinReader, TakeChild, ReapChild,
                  AdvanceGeneration, children
    <2>2. /\ process' \in [Producers -> {"none", "running", "exited", "reaped"}]
          /\ childLock' \in {"free", "reader", "worker", "cleanup"}
          /\ teardown' \in [Stoppers -> TeardownPcs]
      BY <1>4 DEF StopProducer, RetireGeneration, KillProducer, JoinReader, TakeChild, ReapChild,
                  KillChild, TeardownGoto, TeardownPcs, Stoppers, children
    <2>3. UNCHANGED <<stopped, format, reader, readerGeneration, readerChild, pc, producer, previous, loaded,
                      stopPc, cursor, restarts, deaths>>
      BY <1>4 DEF StopProducer, RetireGeneration, KillProducer, JoinReader, TakeChild, ReapChild,
                  teardownRest, counts
    <2> QED BY <1>1, <2>1, <2>2, <2>3
  <1>5. CASE RestartCapture
    <2>1. restarts' \in 0 .. MaxRestarts /\ producer' = restarts' + 1
      BY <1>5, BoundsAssumption DEF RestartCapture
    <2>2. producer' \in Producers /\ pc' \in WorkerPcs
      BY <1>5, <2>1, BoundsAssumption DEF RestartCapture, Producers, WorkerPcs
    <2>3. UNCHANGED <<stopped, generation, observed, format, slot, childLock, process, reader, readerGeneration,
                      readerChild, readerSlot, previous, loaded, stopPc, teardown, cursor, deaths>>
      BY <1>5 DEF RestartCapture, children, readers, restartRest
    <2> QED BY <1>1, <2>1, <2>2, <2>3
  <1>6. CASE Restart
    <2>1. /\ observed' \in [generation : Nat, format : Producers] /\ format' \in Producers
      BY <1>6 DEF Restart, RestartBegins, NewFormat, SpawnChild, ClearEnd, LoadGeneration, SpawnReader,
                  AwaitFrame, Restarted, RestartFailed, DetachCapture
    <2>5. /\ stopped' \in BOOLEAN /\ slot' \in Producers \cup {NoProducer}
          /\ process' \in [Producers -> {"none", "running", "exited", "reaped"}]
      <3>1. CASE SpawnChild
        BY <3>1 DEF SpawnChild
      <3>2. CASE ~SpawnChild
        <4>1. UNCHANGED <<slot, process>> /\ (stopped' = stopped \/ stopped' = TRUE)
          BY <1>6, <3>2 DEF Restart, RestartBegins, NewFormat, ClearEnd, LoadGeneration, SpawnReader,
                            AwaitFrame, Restarted, RestartFailed, DetachCapture, restartRest, children
        <4> QED BY <4>1
      <3> QED BY <3>1, <3>2
    <2>2. /\ reader' \in [Producers -> ReaderPcs] /\ readerGeneration' \in [Producers -> Nat]
          /\ readerSlot' \in Producers \cup {NoProducer} /\ previous' \in Nat /\ loaded' \in Nat
      BY <1>6 DEF Restart, RestartBegins, NewFormat, SpawnChild, ClearEnd, LoadGeneration, SpawnReader,
                  AwaitFrame, Restarted, RestartFailed, DetachCapture, readers, ReaderPcs
    <2>3. /\ pc' \in WorkerPcs /\ teardown' \in [Stoppers -> TeardownPcs]
      BY <1>6 DEF Restart, RestartBegins, NewFormat, SpawnChild, ClearEnd, LoadGeneration, SpawnReader,
                  AwaitFrame, Restarted, RestartFailed, DetachCapture, WorkerPcs, TeardownGoto, TeardownPcs
    <2>4. UNCHANGED <<generation, childLock, readerChild, producer, stopPc, cursor, restarts, deaths>>
      BY <1>6 DEF Restart, RestartBegins, NewFormat, SpawnChild, ClearEnd, LoadGeneration, SpawnReader,
                  AwaitFrame, Restarted, RestartFailed, DetachCapture, children, readers, counts, restartRest
    <2> QED BY <1>1, <2>1, <2>2, <2>3, <2>4, <2>5
  <1>7. ASSUME NEW c \in Cursors, Cursor(c) PROVE Typed'
    <2>1. cursor' \in [Cursors -> Cursings]
      BY <1>7, CursorMoves
    <2>2. UNCHANGED cursorRest
      BY <1>7 DEF Cursor, Subscribe, Receive, SourceEnded
    <2> QED BY <2>1, <2>2 DEF Cursings, cursorRest, children, readers, workerV, stopV, counts
  <1>8. CASE UNCHANGED vars
    BY <1>8 DEF vars, children, readers, workerV, stopV, counts
  <1> QED BY <1>2, <1>3, <1>4, <1>5, <1>6, <1>7, <1>8 DEF Next

(***************************************************************************)
(* Nothing is published after request_stop().                              *)
(***************************************************************************)
LEMMA StoppedStep ==
    ASSUME Typed, StoppedInv, [Next]_vars
    PROVE  StoppedInv'
  <1> USE DEF Typed, TypeOK, StoppedInv
  <1>1. ASSUME NEW c \in StopCallers, RequestStop(c) \/ StopStep(c) PROVE StoppedInv'
    BY <1>1 DEF RequestStop, StopStep, SetStopped, Invalidate, TryKill, EndFrames, StopGoto
  <1>2. (stopped => stopped') /\ UNCHANGED stopPc => StoppedInv'
    OBVIOUS
  <1>3. ASSUME NEW p \in Producers, ReaderRead(p) \/ ReaderStep(p) \/ ProcessDies(p) PROVE StoppedInv'
    BY <1>2, <1>3 DEF ReaderRead, ReaderStep, ProcessDies, ReaderCheck, ReaderEof, ReaderRecheck,
                      ReaderPublish, ReaderFinish, ReaderExit, ReaderTakeChild, ReaderReap, readerRest, stopV
  <1>4. ASSUME NEW t \in Stoppers, StopProducer(t) PROVE StoppedInv'
    BY <1>2, <1>4 DEF StopProducer, RetireGeneration, KillProducer, JoinReader, TakeChild, ReapChild, teardownRest
  <1>5. RestartCapture \/ Restart => StoppedInv'
    BY <1>2 DEF RestartCapture, Restart, RestartBegins, NewFormat, SpawnChild, ClearEnd, LoadGeneration,
                SpawnReader, AwaitFrame, Restarted, RestartFailed, DetachCapture, restartRest
  <1>6. ASSUME NEW c \in Cursors, Cursor(c) PROVE StoppedInv'
    BY <1>2, <1>6 DEF Cursor, Subscribe, Receive, SourceEnded, cursorRest, stopV
  <1>7. UNCHANGED vars => StoppedInv'
    BY <1>2 DEF vars, stopV
  <1> QED BY <1>1, <1>3, <1>4, <1>5, <1>6, <1>7 DEF Next

\* Every variable of the model has its type (SharedCaptureInner of src/shared_capture.rs).
THEOREM TypeCorrect == Spec => []TypeOK
  <1>1. Spec => []Typed
    BY TypedInit, TypedStep, PTL DEF Spec
  <1> QED BY <1>1, PTL DEF Typed

\* Once request_stop() has returned nothing is published any more: a publication looks
\* at stopped under the lock of the frame, and stopped is never taken back.
THEOREM NothingAfterStop == Spec => QuietAfterStop
  <1> DEFINE Step == (\E c \in StopCallers : stopPc[c] = "done") => latest'.sequence = latest.sequence
  <1>1. Spec => [](Typed /\ StoppedInv)
    <2>1. Init => StoppedInv
      BY DEF Init, StoppedInv
    <2> QED BY <2>1, TypedInit, TypedStep, StoppedStep, PTL DEF Spec
  <1>2. Typed /\ StoppedInv /\ [Next]_vars => [Step]_vars
    <2> SUFFICES ASSUME Typed, StoppedInv, [Next]_vars, NEW c \in StopCallers, stopPc[c] = "done"
                 PROVE  latest'.sequence = latest.sequence
      OBVIOUS
    <2>1. stopped
      BY DEF StoppedInv
    <2> QED BY <2>1, LatestMoves DEF Current, Typed
  <1>3. Spec => [][Step]_vars
    BY <1>1, <1>2, PTL DEF Spec
  <1> QED BY <1>3 DEF QuietAfterStop

(***************************************************************************)
(* A subscription receives only frames of its format or a later one.       *)
(***************************************************************************)
\* A reader starts in spawn_reader and nowhere else.
LEMMA ReadersStart ==
    ASSUME Typed, NEW p \in Producers, ReaderRead(p) \/ ReaderStep(p) \/ ProcessDies(p)
    PROVE  /\ \A q \in Producers : reader'[q] # "none" => reader[q] # "none"
           /\ UNCHANGED <<generation, format, readerGeneration, pc, producer, loaded, teardown, cursor>>
  BY DEF Typed, TypeOK, ReaderRead, ReaderStep, ProcessDies, ReaderCheck, ReaderEof, ReaderRecheck,
         ReaderPublish, ReaderFinish, ReaderExit, ReaderTakeChild, ReaderReap, ReaderGoto, readerRest,
         workerV, stopV, readers, frames

\* While the readers and the format stay as they are, the generation may only grow, and
\* grows when restart() has retired it.
LEMMA GenerationGrows ==
    ASSUME Typed, GenerationInv, generation' \in Nat, generation' >= generation,
           \A q \in Producers : reader'[q] # "none" => reader[q] # "none",
           UNCHANGED <<readerGeneration, format, producer, loaded>>,
           Retired' => Retired \/ generation' > generation,
           pc' = pc \/ pc' \notin {"check", "recheck", "spawn", "clear", "load", "reader"}
    PROVE  GenerationInv'
  <1> USE DEF Typed, TypeOK, GenerationInv
  <1>1. /\ format \in Nat /\ producer \in Nat /\ loaded \in Nat
        /\ \A p \in Producers : readerGeneration[p] \in Nat
    BY ProducersAreNumbers
  <1>2. /\ pc' = "reader" => loaded' <= generation'
        /\ format' <= producer'
        /\ pc' \in {"spawn", "clear", "load", "reader"} => format' = producer'
        /\ pc' \in {"check", "recheck"} => format' < producer'
    BY <1>1
  <1>3. ASSUME NEW p \in Producers, reader'[p] # "none"
        PROVE  /\ readerGeneration'[p] <= generation'
               /\ readerGeneration'[p] = generation' => p = format'
               /\ Retired' => readerGeneration'[p] < generation'
    <2>1. /\ readerGeneration[p] <= generation
          /\ readerGeneration[p] = generation => p = format
          /\ Retired => readerGeneration[p] < generation
      BY <1>3
    <2>2. /\ readerGeneration[p] \in Nat /\ generation \in Nat
          /\ readerGeneration'[p] = readerGeneration[p] /\ format' = format
      BY <1>1
    <2>3. readerGeneration'[p] <= generation'
      BY <2>1, <2>2
    <2>4. readerGeneration'[p] = generation' => p = format'
      BY <2>1, <2>2
    <2>5. Retired' => readerGeneration'[p] < generation'
      <3>1. Retired' => Retired \/ generation' > generation
        OBVIOUS
      <3> HIDE DEF Typed, TypeOK, GenerationInv
      <3> QED BY <2>1, <2>2, <3>1
    <2> QED BY <2>3, <2>4, <2>5
  <1> QED BY <1>2, <1>3

LEMMA GenerationStep ==
    ASSUME Typed, GenerationInv, [Next]_vars
    PROVE  GenerationInv'
  <1>0. /\ generation \in Nat /\ format \in Nat /\ producer \in Nat /\ loaded \in Nat
        /\ \A p \in Producers : readerGeneration[p] \in Nat
    BY ProducersAreNumbers DEF Typed, TypeOK
  <1>1. ASSUME NEW p \in Producers, ReaderRead(p) \/ ReaderStep(p) \/ ProcessDies(p) PROVE GenerationInv'
    BY <1>0, <1>1, ReadersStart, GenerationGrows DEF Retired
  <1>2. ASSUME NEW c \in StopCallers, RequestStop(c) \/ StopStep(c) PROVE GenerationInv'
    <2>1. /\ generation' = generation \/ generation' = generation + 1
          /\ pc' = pc \/ (pc = "idle" /\ pc' = "stopping")
          /\ UNCHANGED <<reader, readerGeneration, format, producer, loaded, teardown>>
      BY <1>2 DEF RequestStop, StopStep, SetStopped, Invalidate, TryKill, EndFrames, AdvanceGeneration,
                  stopRest, readers, workerV, Ready
    <2> QED BY <1>0, <2>1, GenerationGrows DEF Retired
  <1>3. ASSUME NEW t \in Stoppers, StopProducer(t) PROVE GenerationInv'
    <2>1. /\ generation' = generation \/ generation' = generation + 1
          /\ teardown["worker"] = "advance" /\ teardown'["worker"] # "advance" => generation' = generation + 1
          /\ UNCHANGED <<reader, readerGeneration, format, producer, loaded, pc>>
      BY <1>3 DEF StopProducer, RetireGeneration, KillProducer, JoinReader, TakeChild, ReapChild,
                  AdvanceGeneration, TeardownGoto, teardownRest, Typed, TypeOK, Stoppers
    <2> QED BY <1>0, <2>1, GenerationGrows DEF Retired
  <1>4. CASE RestartCapture
    <2>1. /\ producer' = producer + 1 /\ pc' = "check"
          /\ UNCHANGED <<generation, format, reader, readerGeneration>>
      BY <1>4 DEF RestartCapture, frames, readers
    <2> QED BY <1>0, <2>1 DEF GenerationInv, Retired
  <1>5. CASE NewFormat /\ ~stopped
    <2>1. /\ format' = producer /\ pc' = "spawn" /\ pc = "recheck" /\ teardown["worker"] = "off"
          /\ UNCHANGED <<generation, producer, reader, readerGeneration>>
      BY <1>5 DEF NewFormat, Ready, readers
    <2>2. \A p \in Producers : reader[p] # "none" => readerGeneration[p] < generation
      BY <2>1 DEF GenerationInv, Retired
    <2> QED BY <1>0, <2>1, <2>2 DEF GenerationInv
  <1>6. CASE LoadGeneration
    <2>1. /\ loaded' = generation /\ pc' = "reader" /\ pc = "load"
          /\ UNCHANGED <<generation, format, producer, reader, readerGeneration>>
      BY <1>6 DEF LoadGeneration, Ready, readers, frames
    <2> QED BY <1>0, <2>1 DEF GenerationInv, Retired
  <1>7. CASE SpawnReader
    <2>1. /\ pc' = "wait" /\ pc = "reader" /\ UNCHANGED <<generation, format, producer>>
          /\ \A p \in Producers : p # producer => reader'[p] = reader[p] /\ readerGeneration'[p] = readerGeneration[p]
          /\ readerGeneration'[producer] = loaded
      BY <1>7 DEF SpawnReader, Ready, frames, Typed, TypeOK
    <2> QED BY <1>0, <2>1 DEF GenerationInv, Retired
  <1>8. CASE RestartBegins
    <2>1. /\ pc = "check" /\ UNCHANGED <<generation, format, producer, loaded, reader, readerGeneration>>
          /\ pc' = "idle" \/ (pc' = "recheck" /\ teardown'["worker"] = "advance")
      BY <1>8 DEF RestartBegins, Ready, frames, readers, TeardownGoto, Typed, TypeOK, Stoppers
    <2> QED BY <1>0, <2>1 DEF GenerationInv, Retired
  <1>9. ASSUME \/ NewFormat /\ stopped
               \/ SpawnChild \/ ClearEnd \/ AwaitFrame \/ Restarted \/ RestartFailed \/ DetachCapture
        PROVE  GenerationInv'
    <2>1. /\ UNCHANGED <<generation, format, producer, loaded, reader, readerGeneration>>
          /\ \/ pc' \in {"failed", "committed", "idle", "detached"}
             \/ pc = "spawn" /\ pc' = "clear"
             \/ pc = "clear" /\ pc' = "load"
      BY <1>9 DEF NewFormat, SpawnChild, ClearEnd, AwaitFrame, Restarted, RestartFailed, DetachCapture, Ready,
                  frames, readers
    <2> QED BY <1>0, <2>1 DEF GenerationInv, Retired
  <1>10. ASSUME NEW c \in Cursors, Cursor(c) PROVE GenerationInv'
    <2>1. UNCHANGED <<generation, format, producer, loaded, reader, readerGeneration, pc, teardown>>
      BY <1>10 DEF Cursor, Subscribe, Receive, SourceEnded, cursorRest, frames, readers, workerV, stopV
    <2> QED BY <2>1 DEF GenerationInv, Retired
  <1>11. CASE UNCHANGED vars
    BY <1>11 DEF vars, frames, readers, workerV, stopV, GenerationInv, Retired
  <1> QED BY <1>1, <1>2, <1>3, <1>4, <1>5, <1>6, <1>7, <1>8, <1>9, <1>10, <1>11 DEF Next, Restart

LEMMA CursorStep ==
    ASSUME Typed, GenerationInv, CursorInv, [Next]_vars
    PROVE  CursorInv'
  <1>0. /\ latest \in Latests /\ latest.sequence \in Nat /\ latest.producer \in Nat
        /\ format \in Nat /\ producer \in Nat
        /\ \A c \in Cursors : /\ cursor[c].since \in Nat /\ cursor[c].seen \in Nat
                              /\ cursor[c].got # NoProducer => cursor[c].got \in Nat
    BY ProducersAreNumbers DEF Typed, TypeOK, Latests
  <1>1. ASSUME NEW c \in Cursors, Cursor(c) PROVE CursorInv'
    <2>1. UNCHANGED <<latest, format>>
      BY <1>1 DEF Cursor, Subscribe, Receive, SourceEnded, cursorRest, frames
    <2>2. ASSUME NEW d \in Cursors, d # c
          PROVE  cursor'[d] = cursor[d]
      BY <1>1, <2>2, CursorMoves DEF Typed
    <2>3. Receive(c) => cursor[c].seen < latest.sequence
      BY <1>0 DEF Receive
    <2>4. /\ cursor'[c].since <= format
          /\ cursor'[c].seen <= latest.sequence
          /\ cursor'[c].seen < latest.sequence => latest.producer >= cursor'[c].since
          /\ cursor'[c].got # NoProducer => cursor'[c].got >= cursor'[c].since
      BY <1>0, <1>1, <2>3, CursorMoves DEF Typed, CursorInv
    <2> QED BY <2>1, <2>2, <2>4 DEF CursorInv
  <1>2. ASSUME NEW p \in Producers, reader[p] = "publish", Current(p), latest'.producer = p,
               latest'.sequence = latest.sequence + 1, UNCHANGED <<cursor, format, generation, stopped>>
        PROVE  CursorInv'
    <2>1. p = format
      BY <1>2 DEF Current, GenerationInv
    <2> QED BY <1>0, <1>2, <2>1 DEF CursorInv
  <1>3. ASSUME latest'.sequence = latest.sequence, latest'.producer = latest.producer,
               UNCHANGED cursor, format' \in Nat, format' >= format
        PROVE  CursorInv'
    BY <1>0, <1>3 DEF CursorInv
  <1>4. \/ \E c \in Cursors : Cursor(c)
        \/ UNCHANGED cursor /\ format' \in Nat /\ format' >= format
    <2>1. ASSUME NEW p \in Producers, ReaderRead(p) \/ ReaderStep(p) \/ ProcessDies(p)
          PROVE  UNCHANGED <<cursor, format>>
      BY <2>1, ReadersStart
    <2>2. ASSUME NEW c \in StopCallers, RequestStop(c) \/ StopStep(c) PROVE UNCHANGED <<cursor, format>>
      BY <2>2 DEF RequestStop, StopStep, SetStopped, Invalidate, TryKill, EndFrames, stopRest
    <2>3. ASSUME NEW t \in Stoppers, StopProducer(t) PROVE UNCHANGED <<cursor, format>>
      BY <2>3 DEF StopProducer, RetireGeneration, KillProducer, JoinReader, TakeChild, ReapChild, teardownRest
    <2>4. RestartCapture \/ Restart => UNCHANGED cursor /\ (format' = format \/ format' = producer)
      BY DEF RestartCapture, Restart, RestartBegins, NewFormat, SpawnChild, ClearEnd, LoadGeneration,
             SpawnReader, AwaitFrame, Restarted, RestartFailed, DetachCapture, restartRest, frames
    <2>5. format <= producer
      BY DEF GenerationInv
    <2>6. UNCHANGED vars => UNCHANGED <<cursor, format>>
      BY DEF vars, frames
    <2> QED BY <1>0, <2>1, <2>2, <2>3, <2>4, <2>5, <2>6 DEF Next
  <1> QED BY <1>1, <1>2, <1>3, <1>4, LatestMoves DEF Typed

\* An encoder that subscribed after a format change never receives a frame of an older
\* format: a new subscription starts behind the cached frame, and of two readers the one
\* of the older format has a generation that restart() has retired.
THEOREM FreshFramesOnly == Spec => []CursorFresh
  <1>1. Init => GenerationInv /\ CursorInv
    BY ProducersAreNumbers DEF Init, GenerationInv, CursorInv, Retired, First
  <1>2. Spec => [](Typed /\ GenerationInv /\ CursorInv)
    BY <1>1, TypedInit, TypedStep, GenerationStep, CursorStep, PTL DEF Spec
  <1>3. CursorInv => CursorFresh
    BY DEF CursorInv, CursorFresh
  <1> QED BY <1>2, <1>3, PTL

(***************************************************************************)
(* No process is left behind.                                              *)
(***************************************************************************)
\* The mutex of the slot is held by the one who waits for a process.
LEMMA LockStep ==
    ASSUME Typed, LockInv, [Next]_vars
    PROVE  LockInv'
  <1> USE DEF Typed, TypeOK
  <1>1. ASSUME NEW p \in Producers, ReaderRead(p) \/ ReaderStep(p) \/ ProcessDies(p) PROVE LockInv'
    <2>1. UNCHANGED teardown
      BY <1>1, ReadersStart
    <2>2. CASE ReaderTakeChild(p)
      BY <2>1, <2>2 DEF ReaderTakeChild, ReaderGoto, LockInv, Stoppers
    <2>3. CASE ReaderReap(p)
      BY <2>1, <2>3 DEF ReaderReap, ReaderGoto, LockInv, Stoppers
    <2>4. ASSUME \/ ReaderRead(p) \/ ProcessDies(p) \/ ReaderCheck(p) \/ ReaderEof(p) \/ ReaderRecheck(p)
                 \/ ReaderPublish(p) \/ ReaderFinish(p) \/ ReaderExit(p)
          PROVE  UNCHANGED childLock /\ \A q \in Producers : reader'[q] = "waiting" => reader[q] = "waiting"
      BY <2>4 DEF ReaderRead, ProcessDies, ReaderCheck, ReaderEof, ReaderRecheck, ReaderPublish, ReaderFinish,
                  ReaderExit, ReaderGoto, children, readers
    <2> QED BY <1>1, <2>1, <2>2, <2>3, <2>4 DEF ReaderStep, LockInv
  <1>2. ASSUME NEW c \in StopCallers, RequestStop(c) \/ StopStep(c) PROVE LockInv'
    BY <1>2 DEF RequestStop, StopStep, SetStopped, Invalidate, TryKill, EndFrames, stopRest, children, readers, LockInv
  <1>3. ASSUME NEW t \in Stoppers, StopProducer(t) PROVE LockInv'
    <2>1. UNCHANGED reader
      BY <1>3 DEF StopProducer, RetireGeneration, KillProducer, JoinReader, TakeChild, ReapChild, teardownRest
    <2>2. CASE TakeChild(t) \/ ReapChild(t)
      BY <2>1, <2>2 DEF TakeChild, ReapChild, TeardownGoto, LockInv, Stoppers
    <2>3. CASE RetireGeneration(t) \/ KillProducer(t) \/ JoinReader(t)
      BY <2>1, <2>3 DEF RetireGeneration, KillProducer, JoinReader, TeardownGoto, LockInv, children
    <2> QED BY <1>3, <2>2, <2>3 DEF StopProducer
  <1>4. ASSUME RestartCapture \/ Restart PROVE LockInv'
    <2>1. /\ UNCHANGED childLock
          /\ \A p \in Producers : reader'[p] = "waiting" => reader[p] = "waiting"
          /\ \A t \in Stoppers : teardown'[t] = "reaping" => teardown[t] = "reaping"
      BY <1>4 DEF RestartCapture, Restart, RestartBegins, NewFormat, SpawnChild, ClearEnd, LoadGeneration,
                  SpawnReader, AwaitFrame, Restarted, RestartFailed, DetachCapture, children, readers,
                  TeardownGoto
    <2> QED BY <2>1 DEF LockInv
  <1>5. ASSUME NEW c \in Cursors, Cursor(c) PROVE LockInv'
    BY <1>5 DEF Cursor, Subscribe, Receive, SourceEnded, cursorRest, children, readers, stopV, LockInv
  <1>6. CASE UNCHANGED vars
    BY <1>6 DEF vars, children, readers, stopV, LockInv
  <1> QED BY <1>1, <1>2, <1>3, <1>4, <1>5, <1>6 DEF Next

\* Nothing changes for ChildInv as long as no process starts or leaves the slot, and
\* nobody reaches a point that relies on the slot being empty.
LEMMA ChildKept ==
    ASSUME Typed, ChildInv,
           \A p \in Producers : process'[p] \in {"running", "exited"} => process[p] \in {"running", "exited"},
           \A p \in Producers : process'[p] = process[p] \/ process'[p] = "exited",
           \A p \in Producers : reader[p] = "waiting" => reader'[p] = "waiting" /\ readerChild'[p] = readerChild[p],
           UNCHANGED slot,
           Ready("recheck")' \/ Ready("spawn")' => Ready("recheck") \/ Ready("spawn"),
           StopReturned' => StopReturned
    PROVE  ChildInv'
  <1>1. \A p \in Producers : process'[p] \in {"running", "exited"} =>
            slot' = p \/ \E q \in Producers : reader'[q] = "waiting" /\ readerChild'[q] = p
    BY DEF ChildInv
  <1>2. Ready("recheck")' \/ Ready("spawn")' => slot' = NoProducer
    BY DEF ChildInv
  <1>3. NoProcessLeft'
    BY DEF ChildInv, NoProcessLeft, Typed, TypeOK
  <1> QED BY <1>1, <1>2, <1>3 DEF ChildInv

LEMMA ChildStep ==
    ASSUME Typed, LockInv, ChildInv, [Next]_vars
    PROVE  ChildInv'
  <1> USE DEF Typed, TypeOK
  <1>1. ASSUME NEW p \in Producers, ReaderRead(p) \/ ReaderStep(p) \/ ProcessDies(p) PROVE ChildInv'
    <2>1. UNCHANGED <<pc, teardown>>
      BY <1>1, ReadersStart
    <2>2. UNCHANGED <<Ready("recheck"), Ready("spawn"), StopReturned>>
      BY <2>1 DEF Ready, StopReturned
    <2>3. CASE ReaderTakeChild(p)
      <3>1. UNCHANGED process /\ slot' = NoProducer
        BY <2>3 DEF ReaderTakeChild
      <3>2. \A q \in Producers : reader[q] # "waiting"
        BY <2>3 DEF ReaderTakeChild, LockInv
      <3>3. slot # NoProducer => reader'[p] = "waiting" /\ readerChild'[p] = slot
        BY <2>3 DEF ReaderTakeChild, ReaderGoto
      <3>4. slot \in Producers \cup {NoProducer}
        OBVIOUS
      <3>5. \A q \in Producers : process[q] \in {"running", "exited"} => slot = q
        BY <3>2 DEF ChildInv
      <3>6. \A q \in Producers : process'[q] \in {"running", "exited"} =>
                slot' = q \/ \E r \in Producers : reader'[r] = "waiting" /\ readerChild'[r] = q
        BY <3>1, <3>3, <3>5, ProducersAreNumbers
      <3> QED BY <2>2, <3>1, <3>6 DEF ChildInv, NoProcessLeft
    <2>4. CASE ReaderReap(p)
      <3>1. /\ UNCHANGED slot /\ reader[p] = "waiting"
            /\ \A q \in Producers : q # p => reader'[q] = reader[q] /\ readerChild'[q] = readerChild[q]
        BY <2>4 DEF ReaderReap, ReaderGoto
      <3>2. process' = [process EXCEPT ![readerChild[p]] = "reaped"]
        BY <2>4 DEF ReaderReap
      <3>3. \A q \in Producers : /\ process'[q] \in {"running", "exited"} => q # readerChild[p]
                                 /\ process'[q] = process[q] \/ process'[q] = "reaped"
        BY <3>2
      <3>4. \A q \in Producers : process'[q] \in {"running", "exited"} =>
                slot' = q \/ \E r \in Producers : reader'[r] = "waiting" /\ readerChild'[r] = q
        BY <3>1, <3>3 DEF ChildInv
      <3> QED BY <2>2, <3>1, <3>3, <3>4 DEF ChildInv, NoProcessLeft
    <2>5. ASSUME \/ ReaderRead(p) \/ ProcessDies(p) \/ ReaderCheck(p) \/ ReaderEof(p) \/ ReaderRecheck(p)
                 \/ ReaderPublish(p) \/ ReaderFinish(p) \/ ReaderExit(p)
          PROVE  ChildInv'
      <3>1. UNCHANGED <<slot, readerChild>>
        BY <2>5 DEF ReaderRead, ProcessDies, ReaderCheck, ReaderEof, ReaderRecheck, ReaderPublish,
                    ReaderFinish, ReaderExit, children, readers
      <3>2. \A q \in Producers : reader[q] = "waiting" => reader'[q] = "waiting"
        BY <2>5 DEF ReaderRead, ProcessDies, ReaderCheck, ReaderEof, ReaderRecheck, ReaderPublish,
                    ReaderFinish, ReaderExit, ReaderGoto, readers
      <3>3. UNCHANGED process \/ (process[p] = "running" /\ process' = [process EXCEPT ![p] = "exited"])
        BY <2>5 DEF ReaderRead, ProcessDies, ReaderCheck, ReaderEof, ReaderRecheck, ReaderPublish,
                    ReaderFinish, ReaderExit, children
      <3> QED BY <2>2, <3>1, <3>2, <3>3, ChildKept
    <2> QED BY <1>1, <2>3, <2>4, <2>5 DEF ReaderStep
  <1>2. ASSUME NEW c \in StopCallers, RequestStop(c) \/ StopStep(c) PROVE ChildInv'
    <2>1. /\ UNCHANGED <<slot, reader, readerChild, teardown>> /\ (UNCHANGED process \/ KillChild)
          /\ pc' = pc \/ (pc = "idle" /\ pc' = "stopping")
      BY <1>2 DEF RequestStop, StopStep, SetStopped, Invalidate, TryKill, EndFrames, stopRest, readers,
                  children, workerV, Ready
    <2>2. \A p \in Producers : process'[p] = process[p] \/ (process[p] = "running" /\ process'[p] = "exited")
      BY <2>1 DEF KillChild
    <2> QED BY <2>1, <2>2, ChildKept DEF Ready, StopReturned
  <1>3. ASSUME NEW t \in Stoppers, StopProducer(t) PROVE ChildInv'
    <2>1. UNCHANGED <<reader, readerChild, pc>>
      BY <1>3 DEF StopProducer, RetireGeneration, KillProducer, JoinReader, TakeChild, ReapChild, teardownRest
    <2>2. \A s \in Stoppers : s # t => teardown'[s] = teardown[s]
      BY <1>3 DEF StopProducer, RetireGeneration, KillProducer, JoinReader, TakeChild, ReapChild, TeardownGoto
    <2>3. CASE RetireGeneration(t) \/ KillProducer(t) \/ JoinReader(t)
      <3>1. UNCHANGED slot /\ (UNCHANGED process \/ KillChild) /\ teardown[t] # "off" /\ teardown'[t] # "off"
        BY <2>3 DEF RetireGeneration, KillProducer, JoinReader, TeardownGoto, children
      <3>2. \A p \in Producers : process'[p] = process[p] \/ (process[p] = "running" /\ process'[p] = "exited")
        BY <3>1 DEF KillChild
      <3> QED BY <2>1, <2>2, <3>1, <3>2, ChildKept DEF Ready, StopReturned, Stoppers
    <2>4. CASE TakeChild(t) /\ slot # NoProducer
      <3>1. UNCHANGED <<slot, process>> /\ teardown'[t] # "off"
        BY <2>4 DEF TakeChild, TeardownGoto
      <3> QED BY <2>1, <2>2, <3>1, ChildKept DEF Ready, StopReturned, Stoppers
    <2>5. ASSUME UNCHANGED process, slot' = NoProducer, slot = NoProducer,
                 \A q \in Producers : reader[q] # "waiting"
          PROVE  ChildInv'
      <3>1. \A p \in Producers : process[p] \notin {"running", "exited"}
        BY <2>5, ProducersAreNumbers DEF ChildInv
      <3> QED BY <2>5, <3>1 DEF ChildInv, NoProcessLeft
    <2>6. CASE TakeChild(t) /\ slot = NoProducer
      BY <2>5, <2>6 DEF TakeChild, LockInv
    <2>7. CASE ReapChild(t)
      <3>1. slot' = NoProducer /\ process' = [process EXCEPT ![slot] = "reaped"]
        BY <2>7 DEF ReapChild
      <3>2. \A q \in Producers : reader[q] # "waiting"
        BY <2>7 DEF ReapChild, LockInv, Stoppers
      <3>3. \A p \in Producers : process'[p] \in {"none", "reaped"}
        BY <3>1, <3>2 DEF ChildInv
      <3> QED BY <3>1, <3>3 DEF ChildInv, NoProcessLeft
    <2> QED BY <1>3, <2>3, <2>4, <2>6, <2>7 DEF StopProducer
  <1>4. CASE SpawnChild
    <2>1. UNCHANGED <<reader, readerChild, teardown>> /\ pc = "spawn" /\ pc' \in {"failed", "clear"}
      BY <1>4 DEF SpawnChild, readers, Ready
    <2>2. CASE UNCHANGED <<slot, process>>
      BY <2>1, <2>2, ChildKept DEF Ready, StopReturned
    <2>3. CASE slot' = producer /\ process' = [process EXCEPT ![producer] = "running"]
      <3>1. slot = NoProducer
        BY <1>4 DEF SpawnChild, ChildInv
      <3>2. \A p \in Producers : process'[p] \in {"running", "exited"} =>
                slot' = p \/ \E q \in Producers : reader'[q] = "waiting" /\ readerChild'[q] = p
        BY <2>1, <2>3, <3>1, ProducersAreNumbers DEF ChildInv
      <3> QED BY <2>1, <3>2 DEF ChildInv, NoProcessLeft, StopReturned, Ready
    <2> QED BY <1>4, <2>2, <2>3 DEF SpawnChild
  <1>5. CASE RestartBegins
    <2>1. /\ UNCHANGED <<slot, process, reader, readerChild>>
          /\ pc' = "idle" \/ (pc' = "recheck" /\ teardown'["worker"] = "advance")
      BY <1>5 DEF RestartBegins, children, readers, TeardownGoto, Stoppers
    <2> QED BY <2>1, ChildKept DEF Ready, StopReturned
  <1>6. CASE SpawnReader
    <2>1. /\ UNCHANGED <<slot, process, readerChild>> /\ pc' = "wait"
          /\ \A p \in Producers : reader[p] # "waiting"
      BY <1>6 DEF SpawnReader, children, LockInv
    <2> QED BY <2>1, ChildKept DEF Ready, StopReturned
  <1>7. ASSUME RestartCapture \/ NewFormat \/ ClearEnd \/ LoadGeneration \/ AwaitFrame \/ Restarted \/ RestartFailed
        PROVE  ChildInv'
    <2>1. /\ UNCHANGED <<slot, process, reader, readerChild>>
          /\ \/ pc' \notin {"recheck", "spawn", "detached"}
             \/ Ready("recheck") /\ pc' = "spawn"
      BY <1>7 DEF RestartCapture, NewFormat, ClearEnd, LoadGeneration, AwaitFrame, Restarted, RestartFailed,
                  children, readers
    <2> QED BY <2>1, ChildKept DEF Ready, StopReturned
  <1>8. CASE DetachCapture
    <2>1. /\ UNCHANGED <<slot, process, reader, readerChild>> /\ pc' = "detached"
          /\ teardown'["cleanup"] = "advance"
      BY <1>8 DEF DetachCapture, children, readers, TeardownGoto, Stoppers
    <2> QED BY <2>1, ChildKept DEF Ready, StopReturned
  <1>9. ASSUME NEW c \in Cursors, Cursor(c) PROVE ChildInv'
    <2>1. UNCHANGED <<slot, process, reader, readerChild, pc, teardown>>
      BY <1>9 DEF Cursor, Subscribe, Receive, SourceEnded, cursorRest, children, readers, workerV, stopV
    <2> QED BY <2>1, ChildKept DEF Ready, StopReturned
  <1>10. CASE UNCHANGED vars
    <2>1. UNCHANGED <<slot, process, reader, readerChild, pc, teardown>>
      BY <1>10 DEF vars, children, readers, workerV, stopV
    <2> QED BY <2>1, ChildKept DEF Ready, StopReturned
  <1> QED BY <1>1, <1>2, <1>3, <1>4, <1>5, <1>6, <1>7, <1>8, <1>9, <1>10 DEF Next, Restart

\* When stop() has returned no FFmpeg process is left: each is reaped by its reader, by
\* the restart that replaces it, or by stop().
THEOREM EveryProcessIsReaped == Spec => []NoProcessLeft
  <1>1. Init => LockInv /\ ChildInv
    BY ProducersAreNumbers DEF Init, LockInv, ChildInv, NoProcessLeft, StopReturned, Ready, First, Stoppers
  <1>2. Spec => [](Typed /\ LockInv /\ ChildInv)
    BY <1>1, TypedInit, TypedStep, LockStep, ChildStep, PTL DEF Spec
  <1> QED BY <1>2, PTL DEF ChildInv
==============================================================================
