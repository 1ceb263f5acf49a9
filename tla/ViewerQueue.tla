------------------------------ MODULE ViewerQueue ------------------------------
(***************************************************************************)
(* One viewer of a MediaPipeline (src/media.rs): its SubscriberQueue between *)
(*                                                                         *)
(*   producer  write_frame on the encoder's thread                          *)
(*   writer    the task run_writer                                         *)
(*   caller    subscribe, unsubscribe and stop                             *)
(*                                                                         *)
(* The caller closes a queue under the lock of the subscribers, which       *)
(* write_frame takes only to copy them. A sample is its number. The capture  *)
(* times kept for the browser are left out.                                *)
(***************************************************************************)
EXTENDS Integers, Sequences

CONSTANTS
    Limit,       \* MAX_QUEUED_H264_NALS
    MaxSamples   \* bound on the samples of one viewer

\* Assumed of the constants.
LimitsAssumption ==
    Limit \in Nat \ {0} /\ MaxSamples \in Nat

VARIABLES
    ordered,        \* preserve_nal_order
    subscription,   \* "spawned", "listed", then "removed"
    stopped,        \* stop has closed the subscribers
    closer,         \* the close under the lock: "none", "clear", "notify"
    closed, samples, permit,    \* SubscriberQueue; the permit of its Notify
    producer,       \* write_frame: "idle", "check", "push", "notify"
    writer,         \* run_writer: "check", "take", "park", "send", "ended"
    newest, shown   \* samples queued so far, the last one taken by the writer

caller == <<subscription, stopped, closer, closed>>
queue  == <<samples, permit>>
task   == <<writer, shown>>
vars   == <<ordered, caller, queue, producer, task, newest>>

\* subscribe: the writer is spawned before the queue is listed.
Init ==
    /\ ordered \in BOOLEAN
    /\ subscription = "spawned" /\ stopped = FALSE /\ closer = "none" /\ closed = FALSE
    /\ samples = <<>> /\ permit = FALSE
    /\ producer = "idle"
    /\ writer = "check" /\ shown = 0 /\ newest = 0

(***************************************************************************)
(* The caller.                                                             *)
(***************************************************************************)
List ==
    /\ subscription = "spawned" /\ closer = "none"
    /\ subscription' = "listed"
    /\ UNCHANGED <<ordered, stopped, closer, closed, queue, producer, task, newest>>

Unsubscribe ==
    /\ subscription = "listed" /\ closer = "none"
    /\ subscription' = "removed"
    /\ closed' = TRUE /\ closer' = "clear"
    /\ UNCHANGED <<ordered, stopped, queue, producer, task, newest>>

Stop ==
    /\ ~stopped /\ closer = "none"
    /\ stopped' = TRUE
    /\ IF subscription = "listed"
       THEN closed' = TRUE /\ closer' = "clear"
       ELSE UNCHANGED <<closed, closer>>
    /\ UNCHANGED <<ordered, subscription, queue, producer, task, newest>>

CloseClear ==
    /\ closer = "clear"
    /\ samples' = <<>> /\ closer' = "notify"
    /\ UNCHANGED <<ordered, subscription, stopped, closed, permit, producer, task, newest>>

\* Mutant: the writer is not told that its queue is closed.
CloseSilently ==
    /\ closer = "notify"
    /\ closer' = "none"
    /\ UNCHANGED <<ordered, subscription, stopped, closed, queue, producer, task, newest>>

CloseNotify ==
    /\ closer = "notify"
    /\ permit' = TRUE /\ closer' = "none"
    /\ UNCHANGED <<ordered, subscription, stopped, closed, samples, producer, task, newest>>

(***************************************************************************)
(* write_frame and enqueue.                                                *)
(***************************************************************************)
WriteFrame ==
    /\ producer = "idle" /\ closer = "none" /\ newest < MaxSamples
    /\ subscription = "listed"
    /\ producer' = "check"
    /\ UNCHANGED <<ordered, caller, queue, task, newest>>

EnqueueCheck ==
    /\ producer = "check"
    /\ producer' = IF closed THEN "idle" ELSE "push"
    /\ UNCHANGED <<ordered, caller, queue, task, newest>>

\* What stays in the queue when a sample arrives.
Kept(q) == IF ordered /\ Len(q) < Limit THEN q ELSE <<>>

EnqueuePush ==
    /\ producer = "push"
    /\ samples' = Append(Kept(samples), newest + 1)
    /\ newest' = newest + 1
    /\ producer' = "notify"
    /\ UNCHANGED <<ordered, caller, permit, task>>

EnqueueNotify ==
    /\ producer = "notify"
    /\ permit' = TRUE /\ producer' = "idle"
    /\ UNCHANGED <<ordered, caller, samples, task, newest>>

(***************************************************************************)
(* run_writer.                                                             *)
(***************************************************************************)
WriterCheck ==
    /\ writer = "check"
    /\ writer' = IF closed THEN "ended" ELSE "take"
    /\ UNCHANGED <<ordered, caller, queue, producer, shown, newest>>

WriterTake ==
    /\ writer = "take" /\ samples # <<>>
    /\ shown' = Head(samples) /\ samples' = Tail(samples)
    /\ writer' = "send"
    /\ UNCHANGED <<ordered, caller, permit, producer, newest>>

WriterPark ==
    /\ writer = "take" /\ samples = <<>>
    /\ writer' = "park"
    /\ UNCHANGED <<ordered, caller, queue, producer, shown, newest>>

\* notified().await: a permit stored before the wait ends it too.
WriterWake ==
    /\ writer = "park" /\ permit
    /\ permit' = FALSE /\ writer' = "check"
    /\ UNCHANGED <<ordered, caller, samples, producer, shown, newest>>

\* write_sample returns, with an error or without.
WriterSent ==
    /\ writer = "send"
    /\ \/ writer' = "check"
       \/ closed /\ writer' = "ended"
    /\ UNCHANGED <<ordered, caller, queue, producer, shown, newest>>

(***************************************************************************)
(* Specification.                                                          *)
(***************************************************************************)
CallerStep == List \/ CloseClear \/ CloseNotify
ProducerStep == EnqueueCheck \/ EnqueueNotify \/ EnqueuePush
WriterStep == WriterCheck \/ WriterTake \/ WriterPark \/ WriterWake \/ WriterSent

Next == CallerStep \/ Unsubscribe \/ Stop \/ WriteFrame \/ ProducerStep \/ WriterStep

\* Threads and tasks that have begun a call go on, and a send returns.
Fairness == WF_vars(CallerStep) /\ WF_vars(ProducerStep) /\ WF_vars(WriterStep)

Spec == Init /\ [][Next]_vars /\ Fairness

(***************************************************************************)
(* Properties.                                                             *)
(***************************************************************************)

\* The phase of LiveEdge: a writer past its test of closed may take one sample
\* more, one that has it in hand takes none.
Phase ==
    IF writer = "ended" THEN "ended"
    ELSE IF ~closed THEN "open"
    ELSE IF writer = "take" THEN "closed" ELSE "quiet"

Edge == INSTANCE LiveEdge WITH
    depth <- IF ordered THEN Limit ELSE 1, phase <- Phase

\* The queue implements LiveEdge: whatever the order of push, clear and the two
\* notifications, no sample is shown late, twice or out of order, no wake-up is
\* lost, and a closed queue ends its task.
KeepsLiveEdge == Edge!Spec
==============================================================================
