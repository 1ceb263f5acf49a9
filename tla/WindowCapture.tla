----------------------------- MODULE WindowCapture -----------------------------
(***************************************************************************)
(* The capture of one window: the Windows Graphics Capture session and its   *)
(* one-frame mailbox (src/window_capture.rs), and the thread that moves the  *)
(* updates to the frame bus (spawn_window_reader of src/shared_capture.rs).  *)
(* The window itself, resized, minimized, restored or closed at any moment,  *)
(* is the environment. A surface is its size and, when it is one of the       *)
(* minimized window, the time the window was minimized.                      *)
(***************************************************************************)
EXTENDS Integers, Sequences

CONSTANTS
    Sizes,          \* sizes of the window
    TitleBar,       \* the size of a title bar
    Format,         \* the size the capture was asked for
    MaxChanges,     \* bound on what happens to the window
    None            \* no picture

\* Assumed of the constants.
WindowAssumption ==
    /\ Format \in Sizes /\ MaxChanges \in Nat

\* Direct3D11CaptureFramePool::CreateFreeThreaded with 2 buffers.
PoolBuffers == 2

VARIABLES
    size, minimized, exists,    \* the window
    native_id,                  \* its handle is known (source_native_id is Some)
    frames,                     \* composed frames in the buffers of the pool
    latest, pending_resize, failure, closed,    \* FrameState, the mailbox
    pc, update,                 \* the reader: where it is, what next_update returned
    latest_frame, was_minimized,
    retired,                    \* the capture is stopped, or of an older generation
    bus, ended,                 \* what the reader leaves in SharedCaptureInner
    failed,                     \* history: a frame has failed
    changes                     \* counts what happened to the window

window  == <<size, minimized, exists, native_id, changes>>
mailbox == <<latest, pending_resize, failure, closed>>
shared  == <<bus, ended>>
held    == <<latest_frame, was_minimized>>
vars    == <<window, frames, mailbox, failed, pc, update, held, retired, shared>>

NoUpdate == [kind |-> "none", surface |-> None]

Init ==
    /\ size = Format /\ minimized = FALSE /\ exists = TRUE /\ native_id \in BOOLEAN /\ changes = 0
    /\ frames = <<>>
    /\ latest = None /\ pending_resize = FALSE /\ failure = FALSE /\ closed = FALSE
    /\ failed = FALSE
    /\ pc = "start" /\ update = NoUpdate
    /\ latest_frame = None /\ was_minimized = FALSE
    /\ retired = FALSE /\ bus = None /\ ended = FALSE

(***************************************************************************)
(* The window, and the capture that replaces this one.                     *)
(***************************************************************************)
WindowChanges ==
    /\ exists /\ changes < MaxChanges
    /\ \/ ~minimized /\ size' \in Sizes \ {size} /\ UNCHANGED <<minimized, exists>>
       \/ ~minimized /\ minimized' = TRUE /\ UNCHANGED <<size, exists>>
       \/ minimized /\ minimized' = FALSE /\ size' \in Sizes /\ UNCHANGED exists
       \/ exists' = FALSE /\ minimized' = FALSE /\ UNCHANGED size
    /\ changes' = changes + 1
    /\ UNCHANGED <<native_id, frames, mailbox, pc, update, held, failed, retired, shared>>

\* stopped, or advance_capture_generation.
Retire ==
    /\ ~retired /\ retired' = TRUE
    /\ UNCHANGED <<window, frames, mailbox, pc, update, held, failed, shared>>

(***************************************************************************)
(* The session and its callbacks.                                          *)
(***************************************************************************)
Capturing == pc \notin {"start", "done"}

\* What the compositor shows: of a minimized window commonly the title bar, or a
\* surface of any size. minimized: which change minimized it, 0 for a full window.
Surfaces ==
    IF minimized THEN [size : Sizes \cup {TitleBar}, minimized : {changes}]
    ELSE {[size |-> size, minimized |-> 0]}

\* The compositor leaves a frame in a free buffer of the pool.
Compose ==
    /\ Capturing /\ exists /\ Len(frames) < PoolBuffers
    /\ \E surface \in Surfaces : frames' = Append(frames, surface)
    /\ UNCHANGED <<window, mailbox, pc, update, held, failed, retired, shared>>

\* What to do with a frame of that content. frame_pool_size starts as the size of
\* the canvas, and a frame that differs from it does not change it.
frame_arrival_action(content, read) ==
    IF content # Format THEN "Resize"
    ELSE IF read THEN "ReadPixels" ELSE "SkipPixels"

\* FrameArrived, and frame_from_pool. Between two readings of pixels an interval
\* passes (should_readback): a frame may be read or skipped.
FrameArrived ==
    /\ Capturing /\ frames # <<>>
    /\ frames' = Tail(frames)
    /\ \E read \in BOOLEAN :
          LET act == frame_arrival_action(Head(frames).size, read) IN
          /\ latest' = IF act = "ReadPixels" /\ ~closed THEN Head(frames) ELSE latest
          /\ pending_resize' = (pending_resize \/ (act = "Resize" /\ ~closed))
    /\ UNCHANGED <<window, failure, closed, pc, update, held, failed, retired, shared>>

\* An error of Direct3D or of the pool, which has closed the frame.
FrameFails ==
    /\ Capturing /\ frames # <<>> /\ ~closed
    /\ frames' = Tail(frames) /\ pending_resize' = FALSE /\ failure' = TRUE
    /\ failed' = TRUE
    /\ UNCHANGED <<window, latest, closed, pc, update, held, retired, shared>>

\* The item reports that its window is gone.
ItemClosed ==
    /\ Capturing /\ ~exists /\ ~closed
    /\ pending_resize' = FALSE /\ closed' = TRUE
    /\ UNCHANGED <<window, frames, latest, failure, pc, update, held, failed, retired, shared>>

(***************************************************************************)
(* next_update: a failure, the end, a resize, a frame, or a timeout.        *)
(***************************************************************************)
Returned ==
    IF failure THEN [kind |-> "failure", surface |-> None]
    ELSE IF closed THEN NoUpdate
    ELSE IF pending_resize THEN [kind |-> "resized", surface |-> None]
    ELSE IF latest # None THEN [kind |-> "frame", surface |-> latest]
    ELSE NoUpdate

\* Mutant: the failure is taken out of the mailbox, as the other updates are.
TakeFailure ==
    /\ pending_resize' = (pending_resize /\ Returned.kind # "resized")
    /\ latest' = IF Returned.kind = "frame" THEN None ELSE latest
    /\ failure' = FALSE
    /\ UNCHANGED closed

\* What is returned is taken out of the mailbox, but for a failure and the end.
Drain ==
    /\ pending_resize' = (pending_resize /\ Returned.kind # "resized")
    /\ latest' = IF Returned.kind = "frame" THEN None ELSE latest
    /\ UNCHANGED <<failure, closed>>

next_update == update' = Returned /\ Drain

(***************************************************************************)
(* The reader. What it leaves in the shared capture is dropped when it is   *)
(* retired. The dimensions it records for the resize monitor are left out:  *)
(* the monitor asks the window itself.                                     *)
(***************************************************************************)
Publish(picture) == bus' = IF retired THEN bus ELSE picture

\* finish_reader_for_generation, then the session is closed.
Finish ==
    /\ pc' = "done" /\ ended' = (ended \/ ~retired)
    /\ closed' = TRUE /\ pending_resize' = FALSE /\ frames' = <<>>
    /\ UNCHANGED <<latest, failure>>

Leave ==
    /\ retired /\ pc \in {"first", "running"}
    /\ pc' = "done" /\ closed' = TRUE /\ pending_resize' = FALSE /\ frames' = <<>>
    /\ UNCHANGED <<window, latest, failure, update, held, failed, retired, shared>>

\* The session opens at the size of the canvas, or the capture fails.
Start ==
    /\ pc = "start"
    /\ \/ /\ exists /\ size = Format /\ pc' = "first"
          /\ UNCHANGED <<frames, mailbox, ended>>
       \/ Finish
    /\ UNCHANGED <<window, update, held, failed, retired, bus>>

\* WGC_FIRST_FRAME_TIMEOUT.
FirstTimeout ==
    /\ pc = "first" /\ ~retired /\ Finish
    /\ UNCHANGED <<window, update, held, failed, retired, bus>>

\* Of a minimized window no frame is taken.
FirstLook ==
    /\ pc = "first" /\ ~retired /\ ~minimized
    /\ pc' = "await first"
    /\ UNCHANGED <<window, frames, mailbox, update, held, failed, retired, shared>>

\* next_update has waited for a frame, or for its timeout.
FirstUpdate ==
    /\ pc = "await first"
    /\ next_update /\ pc' = "judge first"
    /\ UNCHANGED <<window, frames, held, failed, retired, shared>>

\* The window may have been minimized while next_update waited.
FirstDropped ==
    /\ pc = "judge first"
    /\ minimized \/ (update = NoUpdate /\ ~closed)
    /\ pc' = "first" /\ update' = NoUpdate
    /\ UNCHANGED <<window, frames, mailbox, held, failed, retired, shared>>

FirstFrame ==
    /\ pc = "judge first" /\ ~minimized /\ update.kind = "frame"
    /\ Publish(update.surface) /\ latest_frame' = update.surface
    /\ pc' = "running" /\ update' = NoUpdate
    /\ UNCHANGED <<window, frames, mailbox, was_minimized, failed, retired, ended>>

FirstFails ==
    /\ pc = "judge first" /\ ~minimized /\ update.kind # "frame"
    /\ update = NoUpdate => closed
    /\ Finish /\ update' = NoUpdate
    /\ UNCHANGED <<window, held, failed, retired, bus>>

\* The handle of the window is gone.
WindowGone ==
    /\ pc = "running" /\ ~retired /\ native_id /\ ~exists
    /\ Finish
    /\ UNCHANGED <<window, update, held, failed, retired, bus>>

\* Of a minimized window the updates are drained, and the last picture repeated.
Repeat ==
    /\ pc = "running" /\ ~retired /\ minimized
    /\ Drain /\ Publish(latest_frame) /\ was_minimized' = TRUE
    /\ UNCHANGED <<window, frames, pc, update, latest_frame, failed, retired, ended>>

Look ==
    /\ pc = "running" /\ ~retired /\ ~minimized /\ (native_id => exists)
    /\ pc' = "await"
    /\ UNCHANGED <<window, frames, mailbox, update, held, failed, retired, shared>>

Update ==
    /\ pc = "await"
    /\ next_update /\ pc' = "judge"
    /\ UNCHANGED <<window, frames, held, failed, retired, shared>>

\* A failure, or the end of the session, ends the capture.
SessionEnds ==
    /\ pc = "judge"
    /\ update.kind = "failure" \/ (update = NoUpdate /\ closed)
    /\ Finish /\ update' = NoUpdate
    /\ UNCHANGED <<window, held, failed, retired, bus>>

\* restored_surface_is_stale: after a restore, a frame that is not of the size
\* the item has now.
Stale == was_minimized /\ exists /\ size # update.surface.size

\* Mutant: that the window was minimized while next_update waited is not looked at.
JudgeUnseen ==
    /\ pc = "judge" /\ update.kind # "failure" /\ (update = NoUpdate => ~closed)
    /\ IF update.kind # "frame" \/ Stale
         THEN Publish(latest_frame) /\ UNCHANGED held
         ELSE /\ Publish(update.surface) /\ latest_frame' = update.surface
              /\ was_minimized' = FALSE
    /\ pc' = "running" /\ update' = NoUpdate
    /\ UNCHANGED <<window, frames, mailbox, failed, retired, ended>>

\* A frame becomes the picture, or the last one is repeated.
Judge ==
    /\ pc = "judge" /\ update.kind # "failure" /\ (update = NoUpdate => ~closed)
    /\ IF minimized \/ update.kind # "frame" \/ Stale
         THEN /\ Publish(latest_frame)
              /\ was_minimized' = (was_minimized \/ minimized)
              /\ UNCHANGED latest_frame
         ELSE /\ Publish(update.surface) /\ latest_frame' = update.surface
              /\ was_minimized' = FALSE
    /\ pc' = "running" /\ update' = NoUpdate
    /\ UNCHANGED <<window, frames, mailbox, failed, retired, ended>>

Reader ==
    \/ Start \/ FirstTimeout \/ FirstLook \/ FirstUpdate \/ FirstDropped \/ FirstFrame
    \/ FirstFails \/ WindowGone \/ Repeat \/ Look \/ Update \/ SessionEnds \/ Judge \/ Leave

Next ==
    \/ WindowChanges \/ Retire
    \/ Compose \/ FrameArrived \/ FrameFails \/ ItemClosed
    \/ Reader

\* The thread runs, and the system reports a window that is gone.
Fairness == WF_vars(Reader) /\ WF_vars(ItemClosed)

Spec == Init /\ [][Next]_vars /\ Fairness

(***************************************************************************)
(* Properties.                                                             *)
(***************************************************************************)
\* The encoders are never shown a minimized window: whenever it is minimized between
\* the composition of a frame, its callback, the mailbox and the two looks of the reader,
\* a surface of it, and be it of the size they were started for, reaches them only after
\* the window was restored. (Then it may: restored_surface_is_stale compares sizes.)
MinimizedNotShown ==
    bus # None => bus.size = Format /\ (bus.minimized # 0 => bus.minimized < changes)

\* A session that fails, or whose window is gone, ends the capture, so that the
\* health monitor recovers it: nobody goes on repeating the last picture. Only a
\* window that stays minimized, whose updates are drained, delays it.
EndsReported == []<>((~failed /\ exists) \/ ended \/ retired \/ minimized)
================================================================================
