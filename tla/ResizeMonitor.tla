----------------------------- MODULE ResizeMonitor -----------------------------
(***************************************************************************)
(* How the capture follows the size of its window: the hook that reports     *)
(* what happens to the window (WindowResizeWatcher of src/window_capture.rs), *)
(* window_resize_monitor and its debouncer, and the refresh command that      *)
(* restarts the capture (src/server.rs). The restart itself, and the stops    *)
(* and recoveries it competes with, are the subject of StreamControl.        *)
(***************************************************************************)
EXTENDS Integers, Sequences, SequencesExt

CONSTANTS
    Windows,        \* 1 .. n: the windows the host selects, one after the other
    Dimensions,     \* sizes of a window
    MaxChanges,     \* bound on what happens to the windows and on stops
    MaxEvents,      \* bound on the events that wait
    None            \* no size

\* Assumed of the constants.
ResizeAssumption ==
    /\ Windows \subseteq Nat \ {0} /\ 1 \in Windows
    /\ \A w \in Windows : w > 1 => w - 1 \in Windows
    /\ None \notin Dimensions /\ MaxChanges \in Nat /\ MaxEvents \in Nat

VARIABLES
    source,                     \* settings: the window that is selected
    size, minimized, moving,    \* that window; moving is its modal move/size loop
    changes,
    events,                     \* WindowResizeEvents in the channel
    watched, hooked,            \* watched_source, 0 for none; event_watcher is Some
    interactive,                \* interactive_resize
    candidate, settled, emitted,    \* WindowResizeDebouncer; settled: the candidate is old
    refresh,                    \* RefreshWindowCapture commands in the queue
    restart,                    \* "no", "starting", "waiting" for the next attempt
    superseded,                 \* a stop came after the restart began
    enabled, canvas,            \* stream_enabled, source_dimensions of the capture
    hurried     \* history: something changed after the debouncer emitted a size, and
                \* it has not forgotten that size since

window    == <<source, size, minimized, moving, changes>>
debouncer == <<candidate, settled, emitted, hurried>>
monitor   == <<watched, hooked, interactive, debouncer>>
control   == <<restart, superseded, enabled, canvas>>
vars      == <<window, events, monitor, refresh, control>>

Init ==
    /\ source = 1 /\ size \in Dimensions /\ minimized = FALSE /\ moving = FALSE /\ changes = 0
    /\ events = <<>> /\ watched = 0 /\ hooked = FALSE /\ interactive = FALSE
    /\ candidate = None /\ settled = FALSE /\ emitted = None /\ hurried = FALSE
    /\ refresh = <<>> /\ restart = "no" /\ superseded = FALSE
    /\ enabled = TRUE /\ canvas = size

(***************************************************************************)
(* The windows, the hook and the host.                                     *)
(***************************************************************************)
Change ==
    /\ changes < MaxChanges
    /\ changes' = changes + 1
    /\ hurried' = (emitted # None)
    /\ UNCHANGED <<watched, hooked, interactive, candidate, settled, emitted, refresh>>

\* window_resize_event_proc. An event is lost without a hook, and may be lost with one.
Report(event) ==
    \/ UNCHANGED events
    \/ hooked /\ watched = source /\ Len(events) < MaxEvents /\ events' = Append(events, event)

Resize ==
    /\ ~minimized /\ Change
    /\ size' \in Dimensions \ {size} /\ Report("LocationChange")
    /\ UNCHANGED <<source, minimized, moving, control>>

Minimize ==
    /\ ~moving /\ Change
    /\ minimized' = ~minimized /\ Report("LocationChange")
    /\ UNCHANGED <<source, size, moving, control>>

MoveSize ==
    /\ ~minimized /\ Change
    /\ moving' = ~moving
    /\ Report(IF moving THEN "MoveSizeEnd" ELSE "MoveSizeStart")
    /\ UNCHANGED <<source, size, minimized, control>>

\* The update that selects another window starts its capture, between two commands.
Select ==
    /\ source + 1 \in Windows /\ restart = "no" /\ Change
    /\ source' = source + 1 /\ size' \in Dimensions
    /\ minimized' = FALSE /\ moving' = FALSE
    /\ canvas' = IF enabled THEN size' ELSE canvas
    /\ UNCHANGED <<events, restart, superseded, enabled>>

Stop ==
    /\ enabled \/ (restart # "no" /\ ~superseded)
    /\ Change
    /\ enabled' = FALSE /\ superseded' = (restart # "no")
    /\ UNCHANGED <<source, size, minimized, moving, events, restart, canvas>>

\* A start of a minimized window is refused.
StartStream ==
    /\ ~enabled /\ ~minimized /\ restart # "starting" /\ (restart # "no" => superseded)
    /\ enabled' = TRUE /\ canvas' = size
    /\ UNCHANGED <<window, events, monitor, refresh, restart, superseded>>

(***************************************************************************)
(* window_resize_monitor.                                                  *)
(***************************************************************************)
Forget == candidate' = None /\ settled' = FALSE /\ emitted' = None /\ hurried' = FALSE

\* sync_window_resize_watcher: another window was selected since the last look, or
\* the last attempt to set the hook has failed.
Stale == watched # source \/ ~hooked

\* WindowResizeWatcher::start, which may fail.
Watch ==
    /\ watched' = source
    /\ IF Stale THEN hooked' \in BOOLEAN ELSE UNCHANGED hooked

Rehook ==
    /\ Watch /\ interactive' = FALSE /\ Forget
    /\ UNCHANGED refresh

\* observe_window_resize: a size that differs from the canvas is emitted once, at
\* once when the user let go of the window, else when it was seen long enough.
\* forgotten: the debouncer was reset just before.
Observe(now, forgotten) ==
    IF ~enabled \/ minimized \/ size = canvas THEN Forget /\ UNCHANGED refresh
    ELSE LET known == candidate = size /\ ~forgotten
             emits == (now \/ (known /\ settled)) /\ ~(known /\ emitted = size)
         IN /\ candidate' = size /\ settled' = (known /\ settled)
            /\ emitted' = IF emits THEN size ELSE IF known THEN emitted ELSE None
            /\ hurried' = (known /\ ~emits /\ hurried)
            /\ refresh' = IF emits THEN Append(refresh, [source |-> source, dimensions |-> size])
                          ELSE refresh

\* WINDOW_RESIZE_SAFETY_SETTLE_TIME passes.
Settle ==
    /\ candidate # None /\ ~settled /\ settled' = TRUE
    /\ UNCHANGED <<window, events, watched, hooked, interactive, candidate, emitted, hurried,
                   refresh, control>>

\* window_resize_event_action, and the look at the window that missed its start.
\* observe: "no", "candidate" or "settled"; forget: the debouncer was reset.
Classify(acc, event) ==
    LET inside == acc.interactive \/ (event = "LocationChange" /\ moving) IN
    IF event = "MoveSizeStart" THEN [interactive |-> TRUE, observe |-> "no", forget |-> TRUE]
    ELSE IF event = "MoveSizeEnd" THEN
        [interactive |-> FALSE, observe |-> "settled", forget |-> acc.forget]
    ELSE IF inside THEN
        [acc EXCEPT !.interactive = TRUE, !.forget = @ \/ ~acc.interactive]
    ELSE [acc EXCEPT !.observe = IF @ = "settled" THEN @ ELSE "candidate"]

\* All events that wait are taken at once.
EventTick ==
    /\ events # <<>> /\ events' = <<>>
    /\ LET seen == FoldLeft(Classify,
                       [interactive |-> interactive, observe |-> "no", forget |-> FALSE], events)
       IN IF seen.observe = "no" THEN
              /\ interactive' = seen.interactive
              /\ IF seen.forget THEN Forget ELSE UNCHANGED debouncer
              /\ UNCHANGED <<watched, hooked, refresh>>
          ELSE IF Stale THEN Rehook
          ELSE /\ interactive' = seen.interactive /\ UNCHANGED <<watched, hooked>>
               /\ Observe(seen.observe = "settled", seen.forget)
    /\ UNCHANGED <<window, control>>

\* Every 100 ms. A watcher that is set, or could not be, forgets, and a loop that is
\* found begins.
SyncTick ==
    /\ Stale \/ (moving /\ ~interactive)
    /\ Watch /\ interactive' = moving /\ Forget
    /\ UNCHANGED <<window, events, refresh, control>>

\* Mutant: the end of the loop is only learnt from its event.
TrustEvents(resizing) == FALSE

\* The safety poll finds that the loop has ended without its event.
Recovered(resizing) == resizing /\ ~moving

\* Every second.
SafetyTick ==
    /\ LET resizing == interactive /\ ~Stale IN
       IF moving THEN
           /\ IF resizing THEN UNCHANGED debouncer ELSE Forget
           /\ interactive' = TRUE /\ UNCHANGED refresh
       ELSE /\ interactive' = (resizing /\ ~Recovered(resizing))
            /\ IF interactive' THEN UNCHANGED <<debouncer, refresh>>
               ELSE Observe(Recovered(resizing), Stale)
    /\ Watch
    /\ UNCHANGED <<window, events, control>>

(***************************************************************************)
(* The refresh command.                                                    *)
(***************************************************************************)
\* prepare_window_capture_restart. A request is dropped when it is of another
\* window, or the window has another size or is minimized now.
Refresh ==
    /\ refresh # <<>> /\ restart # "starting"
    /\ refresh' = Tail(refresh)
    /\ IF /\ enabled /\ Head(refresh).source = source /\ ~minimized
          /\ Head(refresh).dimensions # canvas /\ Head(refresh).dimensions = size
         THEN restart' = "starting" /\ superseded' = FALSE /\ enabled' = FALSE
         ELSE UNCHANGED <<restart, superseded, enabled>>
    /\ UNCHANGED <<window, events, monitor, canvas>>

\* A new capture starts at the size the window has by then. It fails while the
\* window is minimized, and may fail while the compositor is in transition.
Restarted ==
    /\ restart = "starting"
    /\ \/ superseded /\ restart' = "no" /\ superseded' = FALSE /\ UNCHANGED <<enabled, canvas>>
       \/ /\ ~superseded /\ ~minimized
          /\ restart' = "no" /\ enabled' = TRUE /\ canvas' = size /\ UNCHANGED superseded
       \/ /\ ~superseded /\ (minimized \/ moving)
          /\ restart' = "waiting" /\ UNCHANGED <<superseded, enabled, canvas>>
    /\ UNCHANGED <<window, events, monitor, refresh>>

\* The next attempt, unless a stop came meanwhile.
Retry ==
    /\ restart = "waiting"
    /\ restart' = IF superseded THEN "no" ELSE "starting"
    /\ superseded' = FALSE
    /\ UNCHANGED <<window, events, monitor, refresh, enabled, canvas>>

Monitor == EventTick \/ SyncTick \/ SafetyTick
Control == Refresh \/ Restarted \/ Retry

Next ==
    \/ Resize \/ Minimize \/ MoveSize \/ Select \/ Stop \/ StartStream
    \/ EventTick \/ SyncTick \/ SafetyTick \/ Settle
    \/ Refresh \/ Restarted \/ Retry

\* The polls, the time that passes, and the task that executes the commands.
Fairness ==
    WF_vars(EventTick) /\ WF_vars(SafetyTick) /\ WF_vars(Settle) /\ WF_vars(Control)

Spec == Init /\ [][Next]_vars /\ Fairness

(***************************************************************************)
(* Properties.                                                             *)
(***************************************************************************)
\* A capture that streams ends up in the size its window has, whatever becomes of
\* the events of a hook that is set: however the user drags the window, minimizes it,
\* or selects another one, and when the events are late, lost, or of the window before.
\* Two cases are excused. While the hook cannot be set, each look of the watcher makes
\* the debouncer forget, so that no size settles: the safety poll needs the hook. And a
\* window may change again before the debouncer looked at what became of the size it
\* had emitted: if it is of that size again, nobody asks again.
FollowsWindow ==
    []<>(\/ ~enabled /\ restart = "no"
         \/ minimized \/ moving \/ ~hooked \/ hurried
         \/ canvas = size)
================================================================================
