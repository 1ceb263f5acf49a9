-------------------------------- MODULE LiveEdge --------------------------------
(***************************************************************************)
(* What the sender of one viewer promises: a live stream, not a recording.  *)
(* Samples are numbered in the order the encoder offers them. The viewer is *)
(* shown them in order, none twice, each while it is among the last depth   *)
(* that were offered; and when no newer one comes, the newest is shown.     *)
(* Closing the sender lets at most one more through, and ends it.           *)
(***************************************************************************)
EXTENDS Integers

VARIABLES
    depth,  \* how far behind the live edge a sample may be, plus one; constant
    newest, \* samples offered
    shown,  \* the last sample shown
    phase   \* "open", "closed": one more may be shown, "quiet": none, "ended"

vars == <<depth, newest, shown, phase>>

Init ==
    /\ depth \in Nat \ {0}
    /\ newest = 0 /\ shown = 0 /\ phase = "open"

Offer ==
    /\ newest' = newest + 1
    /\ UNCHANGED <<depth, shown, phase>>

Show ==
    /\ phase \in {"open", "closed"}
    /\ shown' \in {n \in (shown + 1)..newest : n > newest - depth}
    /\ phase' = IF phase = "closed" THEN "quiet" ELSE phase
    /\ UNCHANGED <<depth, newest>>

Close ==
    /\ phase = "open"
    /\ phase' \in {"closed", "quiet"}
    /\ UNCHANGED <<depth, newest, shown>>

Quieten ==
    /\ phase = "closed" /\ phase' = "quiet"
    /\ UNCHANGED <<depth, newest, shown>>

End ==
    /\ phase = "quiet" /\ phase' = "ended"
    /\ UNCHANGED <<depth, newest, shown>>

Next == Offer \/ Show \/ Close \/ Quieten \/ End

\* The newest sample can be shown until it has been.
Fairness == WF_vars(Show) /\ WF_vars(Quieten) /\ WF_vars(End)

\* What it never does, and all it promises.
Safety == Init /\ [][Next]_vars
Spec   == Safety /\ Fairness
==============================================================================
