----------------------------- MODULE AudioPipeline -----------------------------
(***************************************************************************)
(* AudioPipeline of src/audio.rs: the thread run opens the audio input that  *)
(* the settings name and closes it when the revision it read is superseded,  *)
(* while the server reconfigures, activates and pauses the pipeline.        *)
(* What the thread does with the samples is the subject of AudioPacing.     *)
(***************************************************************************)
EXTENDS Integers

CONSTANTS
    Inputs,         \* audio settings that capture: mode, window, exclusions
    Off,            \* audio_mode "off"
    MaxRevision,    \* bound on revision
    None            \* no input

\* Assumed of the constants.
InputsAssumption ==
    Off \notin Inputs /\ None \notin Inputs \cup {Off} /\ MaxRevision \in Nat

VARIABLES
    stop, active, settings, revision, failure, ended,
    reconfiguring,  \* what reconfigure does next, or "idle"
    swapped,        \* activate and deactivate calls that have yet to revise
    pc, run,        \* the thread: where it is, the revision and input it runs
    stream          \* the native input that is open

host   == <<stop, active, settings, reconfiguring, swapped>>
status == <<failure, ended>>
thread == <<pc, run, stream>>
vars   == <<host, revision, status, thread>>

NoRun == [revision |-> 0, input |-> None]

\* spawn reconfigures before it spawns the thread.
Init ==
    /\ stop = FALSE /\ active = FALSE /\ revision = 1
    /\ settings \in Inputs \cup {Off}
    /\ failure = FALSE /\ ended = FALSE
    /\ reconfiguring = "idle" /\ swapped = 0
    /\ pc = "outer" /\ run = NoRun /\ stream = None

Revising == swapped + (IF reconfiguring = "idle" THEN 0 ELSE 1)
MayRevise == revision + Revising < MaxRevision

(***************************************************************************)
(* The server.                                                             *)
(***************************************************************************)
Stop ==
    /\ ~stop /\ stop' = TRUE
    /\ UNCHANGED <<active, settings, reconfiguring, swapped, revision, status, thread>>

\* activate and deactivate: swap, and one revision if that changed anything.
SetActive(value) ==
    /\ active # value /\ MayRevise
    /\ active' = value /\ swapped' = swapped + 1
    /\ UNCHANGED <<stop, settings, reconfiguring, revision, status, thread>>

Swapped ==
    /\ swapped > 0
    /\ swapped' = swapped - 1 /\ revision' = revision + 1
    /\ UNCHANGED <<stop, active, settings, reconfiguring, status, thread>>

\* reconfigure with a changed input. One caller at a time.
Reconfigure(s) ==
    /\ reconfiguring = "idle" /\ s # settings /\ MayRevise
    /\ settings' = s /\ reconfiguring' = "failure"
    /\ UNCHANGED <<stop, active, swapped, revision, status, thread>>

ReconfigureFailure ==
    /\ reconfiguring = "failure"
    /\ failure' = FALSE /\ reconfiguring' = "ended"
    /\ UNCHANGED <<stop, active, settings, swapped, revision, ended, thread>>

ReconfigureEnded ==
    /\ reconfiguring = "ended"
    /\ ended' = FALSE /\ reconfiguring' = "revise"
    /\ UNCHANGED <<stop, active, settings, swapped, revision, failure, thread>>

ReconfigureRevise ==
    /\ reconfiguring = "revise"
    /\ revision' = revision + 1 /\ reconfiguring' = "idle"
    /\ UNCHANGED <<stop, active, settings, swapped, status, thread>>

(***************************************************************************)
(* run.                                                                    *)
(***************************************************************************)
Outer ==
    /\ pc = "outer"
    /\ \/ stop /\ pc' = "end"
       \/ ~stop /\ active /\ pc' = "revision"
    /\ UNCHANGED <<host, revision, status, run, stream>>

ReadRevision ==
    /\ pc = "revision"
    /\ pc' = "settings" /\ run' = [NoRun EXCEPT !.revision = revision]
    /\ UNCHANGED <<host, revision, status, stream>>

\* Mutant: the revision that is run is read with the settings' input in hand.
OpenReadsRevision ==
    /\ pc = "open"
    /\ run' = [run EXCEPT !.revision = revision]
    /\ \/ pc' = "started" /\ stream' = run.input
       \/ pc' = "failed" /\ UNCHANGED stream
    /\ UNCHANGED <<host, revision, status>>

\* The settings are copied under their lock.
ReadSettings ==
    /\ pc = "settings"
    /\ IF settings = Off THEN pc' = "outer" /\ UNCHANGED run
       ELSE pc' = "open" /\ run' = [run EXCEPT !.input = settings]
    /\ UNCHANGED <<host, revision, status, stream>>

\* open_stream and start, which fail for reasons of the system: no device, no
\* such window, an exclusion that cannot be enforced.
Open ==
    /\ pc = "open"
    /\ \/ pc' = "started" /\ stream' = run.input
       \/ pc' = "failed" /\ UNCHANGED stream
    /\ UNCHANGED <<host, revision, status, run>>

RecordFailure ==
    /\ pc = "failed"
    /\ failure' = TRUE /\ pc' = "retry"
    /\ UNCHANGED <<host, revision, ended, run, stream>>

\* wait_for_retry ends by its deadline, or earlier.
Retry ==
    /\ pc = "retry" /\ pc' = "outer"
    /\ UNCHANGED <<host, revision, status, run, stream>>

Started ==
    /\ pc = "started"
    /\ failure' = FALSE /\ pc' = "stream"
    /\ UNCHANGED <<host, revision, ended, run, stream>>

StreamCloses ==
    /\ pc = "stream" /\ (stop \/ revision # run.revision)
    /\ stream' = None /\ pc' = "outer"
    /\ UNCHANGED <<host, revision, status, run>>

\* encode fails: run returns its error, which spawn records.
EncodeFails ==
    /\ pc = "stream"
    /\ stream' = None /\ pc' = "broken"
    /\ UNCHANGED <<host, revision, status, run>>

RecordEnd ==
    /\ pc = "broken"
    /\ failure' = TRUE /\ pc' = "end"
    /\ UNCHANGED <<host, revision, ended, run, stream>>

End ==
    /\ pc = "end"
    /\ ended' = TRUE /\ pc' = "done"
    /\ UNCHANGED <<host, revision, failure, run, stream>>

(***************************************************************************)
(* Specification.                                                          *)
(***************************************************************************)
Revises == ReconfigureFailure \/ ReconfigureEnded \/ ReconfigureRevise
ThreadStep ==
    \/ Outer \/ ReadRevision \/ ReadSettings \/ Open \/ RecordFailure \/ Retry
    \/ Started \/ StreamCloses \/ RecordEnd \/ End

Next ==
    \/ Stop \/ Swapped \/ Revises \/ \E value \in BOOLEAN : SetActive(value)
    \/ \E s \in Inputs \cup {Off} : Reconfigure(s)
    \/ ThreadStep \/ EncodeFails

\* Calls that have begun go on, and the thread runs.
Fairness == WF_vars(Swapped) /\ WF_vars(Revises) /\ WF_vars(ThreadStep)

Spec == Init /\ [][Next]_vars /\ Fairness

(***************************************************************************)
(* Properties.                                                             *)
(***************************************************************************)

\* An input the settings no longer name, because audio was switched off, another
\* window was chosen or a process was excluded, is closed; the one they name is
\* opened, or tried, as long as the pipeline is active. The settings and the
\* revision are written and read without a common lock.
SettingsHeard ==
    []<>(/\ stream \in {settings, None}
         /\ \/ run.input = settings /\ pc \in {"failed", "started", "stream"}
            \/ settings = Off \/ ~active \/ stop \/ pc = "done")
==============================================================================
