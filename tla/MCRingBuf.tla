---------------------------- MODULE MCRingBuf ----------------------------
(* Instance of RingBuf for TLC: two tasks that use two descriptors, alone  *)
(* or together, and a ring of two slots that is lapped twice.              *)
EXTENDS RingBuf
=============================================================================
