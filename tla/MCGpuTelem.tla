--------------------------- MODULE MCGpuTelem ---------------------------
(* Instances of GpuTelem for TLC: two threads, with a file each or with    *)
(* one file between them.                                                  *)
EXTENDS GpuTelem, TLC

CONSTANTS t1, t2, f1, f2

OwnFile == (t1 :> {f1}) @@ (t2 :> {f2})
SharedFile == (t1 :> {f1}) @@ (t2 :> {f1})
SoloFile == t1 :> {f1}
=============================================================================
