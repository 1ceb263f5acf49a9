--------------------------------- MODULE Stream ---------------------------------
(***************************************************************************)
(* What the control plane promises whoever watches the stream, a viewer that *)
(* polls /api/client/status as well as a handler that is about to bind an    *)
(* offer. Offers are admitted only in front of a whole graph; a graph is     *)
(* begun, completed and discarded only while they are not; and an admission  *)
(* that ends takes its session number with it.                              *)
(***************************************************************************)
EXTENDS Naturals

VARIABLES
    live,       \* offers are admitted
    session,    \* the number by which a viewer knows that it has to offer again
    graph,      \* graphs begun so far, the latest of which is the one that counts
    whole,      \* a capture and the encoders of the primary group are in place
    shown       \* what could be watched last: a graph, and under which number

vars == <<live, session, graph, whole, shown>>

Init ==
    /\ live = FALSE /\ session = 0 /\ graph = 0 /\ whole = FALSE
    /\ shown = [session |-> 0, graph |-> 0]

\* Behind the closed gate.
Begin ==
    /\ ~live /\ ~whole
    /\ graph' = graph + 1
    /\ UNCHANGED <<live, session, whole, shown>>

Complete ==
    /\ ~live /\ ~whole
    /\ whole' = TRUE
    /\ UNCHANGED <<live, session, graph, shown>>

Discard ==
    /\ ~live /\ whole
    /\ whole' = FALSE
    /\ UNCHANGED <<live, session, graph, shown>>

\* The gate.
Open ==
    /\ ~live /\ whole
    /\ live' = TRUE
    /\ shown' = [session |-> session, graph |-> graph]
    /\ UNCHANGED <<session, graph, whole>>

Close ==
    /\ live
    /\ live' = FALSE
    /\ session' = session + 1
    /\ UNCHANGED <<graph, whole, shown>>

\* The viewers are asked to offer again, whether they can now or not.
Renumber ==
    /\ session' = session + 1
    /\ shown' = IF live THEN [session |-> session', graph |-> graph] ELSE shown
    /\ UNCHANGED <<live, graph, whole>>

Next == Begin \/ Complete \/ Discard \/ Open \/ Close \/ Renumber

Spec == Init /\ [][Next]_vars

(***************************************************************************)
(* What follows from the promise alone.                                     *)
(***************************************************************************)
\* The offer handler tests stream_enabled alone: whom it admits finds a capture and
\* encoders to bind to.
AdmittedFindsGraph == live => whole

\* Two different graphs are never shown under one number, however many stops,
\* recoveries and settings lie between them: a viewer that compares numbers always
\* notices that it has to offer again (media_session_revision).
RevisionSeparatesGraphs ==
    [][shown.graph \notin {0, shown'.graph} => shown'.session > shown.session]_vars
================================================================================
