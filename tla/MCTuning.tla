---------------------------- MODULE MCTuning -----------------------------
(* Instances of Tuning for TLC: rings of up to 16, requested on both sides *)
(* of every power of two; intervals below, at and above a minimum of 2 ms, *)
(* and, in the second instance, one that an int takes for negative.        *)
EXTENDS Tuning
=============================================================================
