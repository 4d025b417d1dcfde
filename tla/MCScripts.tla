---------------------------- MODULE MCScripts ----------------------------
(* Instances of Scripts for TLC: two people with a script each, and a file *)
(* that keeps the module busy.                                             *)
EXTENDS Scripts
=============================================================================
