---------------------------- MODULE TelemStream ----------------------------
(***************************************************************************)
(* What the ring buffer promises its readers (kernel/ringbuf.h:9-17 of the *)
(* header's design note): one producer appends samples to an unbounded     *)
(* log; every open file descriptor has a cursor of its own and is handed   *)
(* the log in order; of a reader that falls more than Size samples behind  *)
(* exactly the samples beyond the window are skipped, and counted.         *)
(*                                                                         *)
(* The k-th sample of the log is the number k: the collector stamps each   *)
(* sample with a time of its own, so a sample is told apart by its rank.   *)
(***************************************************************************)
EXTENDS Integers, Sequences

CONSTANTS
  Size,   \* number of samples the window keeps (struct ring_buf.size)
  Fds     \* file descriptors that can be open on the device

VARIABLES
  head,      \* number of samples appended so far
  opened,    \* the open descriptors
  start,     \* start[f]: value of head when f was opened
  cursor,    \* cursor[f]: rank of the last sample f went past
  received,  \* received[f]: the samples handed to f since it was opened
  dropped    \* number of skipped samples, all descriptors together

vars == <<head, opened, start, cursor, received, dropped>>

Init ==
  /\ head = 0
  /\ opened = {}
  /\ start = [f \in Fds |-> 0]
  /\ cursor = [f \in Fds |-> 0]
  /\ received = [f \in Fds |-> <<>>]
  /\ dropped = 0

(* Samples Oldest+1 .. head are still in the window. *)
Oldest == IF head > Size THEN head - Size ELSE 0

(* A faulty variant: a reader that fell behind is moved up to the head. *)
ResumeAtHead(f) == IF cursor[f] < Oldest THEN head ELSE cursor[f]

(* Where f continues: at its cursor, or at the oldest sample still there. *)
Resume(f) == IF cursor[f] < Oldest THEN Oldest ELSE cursor[f]

Publish ==
  /\ head' = head + 1
  /\ UNCHANGED <<opened, start, cursor, received, dropped>>

(* A new reader is placed at the head: it sees only later samples. *)
Attach(f) ==
  /\ f \notin opened
  /\ opened' = opened \cup {f}
  /\ start' = [start EXCEPT ![f] = head]
  /\ cursor' = [cursor EXCEPT ![f] = head]
  /\ received' = [received EXCEPT ![f] = <<>>]
  /\ UNCHANGED <<head, dropped>>

Detach(f) ==
  /\ f \in opened
  /\ opened' = opened \ {f}
  /\ start' = [start EXCEPT ![f] = 0]
  /\ cursor' = [cursor EXCEPT ![f] = 0]
  /\ received' = [received EXCEPT ![f] = <<>>]
  /\ UNCHANGED <<head, dropped>>

(* A faulty variant: the skip is not added to the cursor. *)
ConsumeForgetsSkip(f, n) ==
  /\ f \in opened
  /\ n <= head - Resume(f)
  /\ received' = [received EXCEPT
                    ![f] = @ \o [i \in 1..n |-> Resume(f) + i]]
  /\ cursor' = [cursor EXCEPT ![f] = @ + n]
  /\ dropped' = dropped + (Resume(f) - cursor[f])
  /\ UNCHANGED <<head, opened, start>>

(* f skips what has left the window and is handed the next n samples. *)
Consume(f, n) ==
  /\ f \in opened
  /\ n <= head - Resume(f)
  /\ received' = [received EXCEPT
                    ![f] = @ \o [i \in 1..n |-> Resume(f) + i]]
  /\ cursor' = [cursor EXCEPT ![f] = Resume(f) + n]
  /\ dropped' = dropped + (Resume(f) - cursor[f])
  /\ UNCHANGED <<head, opened, start>>

Next ==
  \/ Publish
  \/ \E f \in Fds : Attach(f) \/ Detach(f) \/ (\E n \in 0..Size : Consume(f, n))

Spec == Init /\ [][Next]_vars
=============================================================================
