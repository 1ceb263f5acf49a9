--------------------------- MODULE MCTranscodeGroups ---------------------------
(***************************************************************************)
(* Model checking of TranscodeGroups. Viewers and handlers are              *)
(* interchangeable; the runs of liveness properties do not use that.        *)
(***************************************************************************)
EXTENDS TranscodeGroups, TLC

Symmetry == Permutations(Clients) \cup Permutations(Handlers)
==============================================================================
