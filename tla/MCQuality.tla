------------------------------- MODULE MCQuality -------------------------------
(***************************************************************************)
(* Model checking of Quality: the settings, the probes and the telemetry,   *)
(* chosen at the boundaries of the ladder.                                 *)
(***************************************************************************)
EXTENDS Quality, TLC

CONSTANTS v1, v2

\* A host that offers 720 lines at 50 pictures, between two steps of the ladder, or
\* one profile for all.
MCSettings ==
    {[height |-> 720, fps |-> 50, bitrate |-> 700, automatic |-> FALSE,
      adaptive |-> TRUE, groups |-> None],
     [height |-> 480, fps |-> 30, bitrate |-> 200, automatic |-> TRUE,
      adaptive |-> FALSE, groups |-> None]}

\* A calm path, a lossy one that stalls, and one with headroom for every rung.
MCWindows ==
    {[available |-> None, lossy |-> FALSE, dropped |-> 0, freezes |-> 0],
     [available |-> 400, lossy |-> TRUE, dropped |-> 0, freezes |-> 3],
     [available |-> 3000, lossy |-> FALSE, dropped |-> 0, freezes |-> 0]}

MCProbes == {[rate |-> 900, late |-> FALSE]}

\* One viewer has no H.264, the other nothing the host encodes but it.
MCSupported == v1 :> {"vp8", "vp9"} @@ v2 :> {"h264", "vp8"}

\* 16 Mbit/s, above the 14 Mbit/s of H.264 level 3.1, for viewers that have H.264.
LevelSettings ==
    {[height |-> 1080, fps |-> 60, bitrate |-> 1600, automatic |-> FALSE,
      adaptive |-> TRUE, groups |-> None]}
LevelProbes == {[rate |-> 2000, late |-> FALSE]}
LevelSupported == [c \in Clients |-> {"h264"}]
================================================================================
