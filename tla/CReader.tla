------------------------------ MODULE CReader ------------------------------
(***************************************************************************)
(* user/gpu_telem_reader.c: poll, read, print, until max samples were      *)
(* printed or a signal has cleared g_running.  The device is TelemStream,  *)
(* with what GpuTelem shows of its calls: poll() reports POLLIN only when  *)
(* there is a sample, and an event wins over a signal.                     *)
(***************************************************************************)
EXTENDS Integers, Sequences

CONSTANTS
  Size,   \* samples the ring keeps
  Fds,    \* open files of the device
  Fd,     \* the one this program opens
  BATCH,  \* room in batch[]
  Maxes   \* values of -n, an option that may be left out

VARIABLES
  head, opened, start, cursor, received, dropped,  \* the ring: TelemStream
  pc,         \* "exited", "test", "call", "poll", "read", "print", "close"
  max,        \* the limit, negative for none
  total,      \* samples printed
  running,    \* g_running
  eintr,      \* a signal came during the poll()
  batch,      \* the samples in batch[]
  printed     \* history: the samples printed

ring == <<head, opened, start, cursor, received, dropped>>
own == <<pc, max, total, running, eintr, batch, printed>>
vars == <<ring, own>>

Ring == INSTANCE TelemStream

Available == head > cursor[Fd]
Lesser(a, b) == IF a < b THEN a ELSE b

OwnInit ==
  /\ pc = "exited"
  /\ max = -1 /\ total = 0
  /\ running = TRUE /\ eintr = FALSE
  /\ batch = <<>> /\ printed = <<>>

-----------------------------------------------------------------------------
(* The program goes from one label to another, with nothing else changed. *)
Moves(from, to) ==
  /\ pc = from
  /\ pc' = to
  /\ UNCHANGED <<ring, max, total, running, eintr, batch, printed>>

(* A faulty variant: max is unsigned. *)
LimitUnsigned(n) == IF n = {} THEN 255 ELSE CHOOSE v \in n : TRUE

(* The value of -n, or -1 without it. *)
Limit(n) == IF n = {} THEN -1 ELSE CHOOSE v \in n : TRUE

(* A new process: options, signal handlers, open(). *)
Exec(n) ==
  /\ pc = "exited"
  /\ Ring!Attach(Fd)
  /\ max' = Limit(n) /\ total' = 0
  /\ running' = TRUE /\ eintr' = FALSE
  /\ batch' = <<>> /\ printed' = <<>>
  /\ pc' = "test"

(* on_signal() runs at once; during the poll() it makes the call return. *)
Signal ==
  /\ pc # "exited"
  /\ running \/ (pc = "poll" /\ ~eintr)
  /\ running' = FALSE
  /\ eintr' = (eintr \/ pc = "poll")
  /\ UNCHANGED <<ring, pc, max, total, batch, printed>>

(* The loop's condition. *)
Test ==
  Moves("test", IF running /\ (max < 0 \/ total < max) THEN "call" ELSE "close")

(* The process enters poll(); a signal before this does not end the call. *)
PollEnter ==
  /\ pc = "call"
  /\ eintr' = FALSE
  /\ pc' = "poll"
  /\ UNCHANGED <<ring, max, total, running, batch, printed>>

PollIn == Available /\ Moves("poll", "read")

(* A faulty variant: poll() with a timeout of -1. *)
PollNeverTimesOut == ~Available /\ eintr /\ Moves("poll", "test")

(* A faulty variant: no look at revents, every return of poll() reads. *)
PollEmptyReads == ~Available /\ Moves("poll", "read")

(* EINTR, or the timeout of a second: the loop's condition again. *)
PollEmpty == ~Available /\ Moves("poll", "test")

(* A faulty variant: the last batch is as large as the others. *)
WantAll == BATCH

(* What the next read() asks for. *)
Want == IF max >= 0 THEN Lesser(max - total, BATCH) ELSE BATCH

(* read() would sleep through signals (signal() restarts it) if there were *)
(* no sample.                                                              *)
Read ==
  LET n == Lesser(Lesser(Want, Size), head - Ring!Resume(Fd)) IN
  /\ pc = "read"
  /\ Available
  /\ Ring!Consume(Fd, n)
  /\ batch' = [i \in 1..n |-> Ring!Resume(Fd) + i]
  /\ pc' = "print"
  /\ UNCHANGED <<max, total, running, eintr, printed>>

(* poll() or read() fails other than by a signal: the loop is left. *)
CallFails == Moves("poll", "close") \/ (Available /\ Moves("read", "close"))

PrintBatch ==
  /\ pc = "print"
  /\ printed' = printed \o batch
  /\ total' = total + Len(batch)
  /\ batch' = <<>>
  /\ pc' = IF batch = <<>> THEN "close" ELSE "test"
  /\ UNCHANGED <<ring, max, running, eintr>>

Close ==
  /\ pc = "close"
  /\ Ring!Detach(Fd)
  /\ pc' = "exited"
  /\ UNCHANGED <<max, total, running, eintr, batch, printed>>

(* What the process does once it runs: poll()'s timeout included. *)
Step ==
  \/ Test \/ PollEnter \/ PollIn \/ PollEmpty
  \/ Read \/ PrintBatch \/ Close

(* What is done to it. *)
Outside == Signal \/ CallFails \/ \E n \in {{}} \cup {{v} : v \in Maxes} : Exec(n)

-----------------------------------------------------------------------------
OwnTypeOK ==
  /\ pc \in {"exited", "test", "call", "poll", "read", "print", "close"}
  /\ max \in Maxes \cup {-1}
  /\ total \in Nat
  /\ running \in BOOLEAN /\ eintr \in BOOLEAN
  /\ batch \in Seq(Nat) /\ printed \in Seq(Nat)

(* "-n 20: print 20 samples then exit" (gpu_telem_reader.c:12): never more *)
(* than that, and no sample is taken from the device that the limit keeps  *)
(* from being printed.                                                     *)
AtMostMax == max >= 0 => total + Len(batch) <= max

(* Every sample read is printed, once, in order and before the next poll() *)
(* or the end of the program, however signals, timeouts and a failing      *)
(* read() come in between.                                                 *)
AllPrinted ==
  pc # "exited" =>
    /\ printed \o batch = received[Fd]
    /\ total = Len(printed)
    /\ pc # "print" => batch = <<>>

(* The program reads only when there is a sample: it never sleeps in       *)
(* read(), where a signal would not end the wait.                          *)
ReadHasData == pc = "read" => Available

(* A signal ends the program (gpu_telem_reader.c:119), even one that comes *)
(* between the test of g_running and poll(), and with no sample to come.   *)
SignalStops == (pc # "exited" /\ ~running) ~> (pc = "exited")
=============================================================================
