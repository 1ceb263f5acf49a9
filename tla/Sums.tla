---------------------------------- MODULE Sums ----------------------------------
(***************************************************************************)
(* The sum of a sequence of numbers: what the byte counters and the clocks  *)
(* of the models are compared with.                                        *)
(***************************************************************************)
EXTENDS Integers, Sequences, SequencesExt

Total(q) == FoldLeft(LAMBDA sum, n : sum + n, 0, q)
=================================================================================
