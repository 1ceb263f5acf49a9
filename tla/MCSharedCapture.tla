--------------------------- MODULE MCSharedCapture ---------------------------
(***************************************************************************)
(* Instances of SharedCapture for TLC.                                     *)
(***************************************************************************)
EXTENDS SharedCapture
==============================================================================
