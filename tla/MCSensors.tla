---------------------------- MODULE MCSensors ----------------------------
(* Instance of Validate, and so of Sensors, for TLC: two hwmon             *)
(* directories; a u32 of 16 values, a u64 of 256 and 10 Hz in a MHz, with  *)
(* readings on both sides of every limit and every sentinel.               *)
EXTENDS Validate, TLC

AroundLimits ==
  ("temp" :> {-9, -8, -1, 0, 7}) @@ ("fan" :> {-1, 0, 15})
    @@ ("power" :> {0, 255}) @@ ("freq" :> {-5, 9, 159, 160})
=============================================================================
