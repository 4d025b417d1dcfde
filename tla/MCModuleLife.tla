-------------------------- MODULE MCModuleLife --------------------------
(* Instances of ModuleLife for TLC: two files that can be open while the   *)
(* module is loaded, unloaded and loaded again.                            *)
EXTENDS ModuleLife
=============================================================================
