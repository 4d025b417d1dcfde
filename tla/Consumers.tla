----------------------------- MODULE Consumers -----------------------------
(***************************************************************************)
(* The C reader and the Python consumer on one device, each with a file of *)
(* its own (gpu_telem.h:33-34), while the collector goes on pushing.  Each *)
(* may be ended and started again.                                         *)
(***************************************************************************)
EXTENDS Integers, Sequences

CONSTANTS
  Size,          \* samples the ring keeps
  CBatch, Maxes,    \* the C reader's BATCH and values of -n
  PyBatch, Counts,  \* the Python consumer's BATCH and values of --count
  MaxHead           \* bound: samples pushed in a behaviour

ASSUME ConsumersAssumption ==
  /\ {Size, CBatch, PyBatch} \subseteq Nat \ {0}
  /\ Maxes \subseteq Int /\ Counts \subseteq Int
  /\ MaxHead \in Nat

VARIABLES
  head, opened, start, cursor, received, dropped,
  cpc, max, total, running, ceintr, batch, printed,
  pypc, count, idx, rest, tripped, pyeintr, rows

ring == <<head, opened, start, cursor, received, dropped>>
cown == <<cpc, max, total, running, ceintr, batch, printed>>
pyown == <<pypc, count, idx, rest, tripped, pyeintr, rows>>
vars == <<ring, cown, pyown>>

Fds == {"c", "py"}

Ring == INSTANCE TelemStream
C == INSTANCE CReader
       WITH Fd <- "c", BATCH <- CBatch, pc <- cpc, eintr <- ceintr
Py == INSTANCE PyConsumer
        WITH Fd <- "py", BATCH <- PyBatch, pc <- pypc, eintr <- pyeintr

Init == Ring!Init /\ C!OwnInit /\ Py!OwnInit

(* The collector, seen from the consumers. *)
Produce ==
  /\ head < MaxHead
  /\ Ring!Publish
  /\ UNCHANGED <<cown, pyown>>

CStep == C!Step /\ UNCHANGED pyown
PyStep == Py!Step /\ UNCHANGED cown

Next ==
  \/ Produce
  \/ CStep \/ (C!Outside /\ UNCHANGED pyown)
  \/ PyStep \/ (Py!Outside /\ UNCHANGED cown)

(* The two processes are scheduled; samples and signals need never come. *)
Spec == Init /\ [][Next]_vars /\ WF_vars(CStep) /\ WF_vars(PyStep)

-----------------------------------------------------------------------------
(* The stream under the two programs: no cursor is past the head.          *)
StreamTypeOK ==
  /\ head \in Nat /\ opened \subseteq Fds
  /\ start \in [Fds -> Nat] /\ cursor \in [Fds -> 0..head]
  /\ received \in [Fds -> Seq(Nat)]
  /\ dropped \in Nat

TypeOK == StreamTypeOK /\ C!OwnTypeOK /\ Py!OwnTypeOK

(* Neither program prints more than it was told to. *)
AtMostLimit == C!AtMostMax /\ Py!AtMostCount

(* What a program reads it prints, once and in order, however signals,     *)
(* timeouts, errors and the other program come in between; only the Python *)
(* consumer gives samples up, and only by stopping inside a batch.         *)
ReadIsPrinted == C!AllPrinted /\ Py!RowsAreSamples

(* The C reader never sleeps in read(), where no signal would end it.      *)
ReadHasData == C!ReadHasData

(* The Python consumer's indexes and its final count are those of its rows *)
(* (consumer.py:263-267).                                                  *)
RowsNumbered == Py!RowsNumbered

(* A signal ends either program, whenever it comes and with no sample to   *)
(* come (gpu_telem_reader.c:119, consumer.py:188).                         *)
SignalsStop == C!SignalStops /\ Py!InterruptStops
=============================================================================
