--------------------------- MODULE MCConsumers ---------------------------
(* Instance of Consumers for TLC: a ring of two samples and batches of two *)
(* with and without limits, so that a limit falls inside a batch and a     *)
(* slow program is lapped.                                                 *)
EXTENDS Consumers
=============================================================================
