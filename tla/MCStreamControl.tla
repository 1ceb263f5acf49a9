--------------------------- MODULE MCStreamControl ---------------------------
(***************************************************************************)
(* Instances of StreamControl for TLC. The bounds are given in the cfgs.   *)
(***************************************************************************)
EXTENDS StreamControl
==============================================================================
