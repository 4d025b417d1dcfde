---------------------------- MODULE PyConsumer -----------------------------
(***************************************************************************)
(* user/consumer.py: GpuTelemReader.samples() polls, reads a batch and     *)
(* yields its samples one by one to a loop that prints and counts them,    *)
(* until the count is reached or a signal raises KeyboardInterrupt.  The   *)
(* table, JSON and CSV loops are alike.  The device is TelemStream, as in  *)
(* CReader.                                                                *)
(*                                                                         *)
(* Python runs a signal's handler between two bytecodes: a signal is       *)
(* noted at once, and the exception comes when Python gets to look.        *)
(***************************************************************************)
EXTENDS Integers, Sequences

CONSTANTS
  Size,   \* samples the ring keeps
  Fds,    \* open files of the device
  Fd,     \* the one this program opens
  BATCH,  \* samples per read()
  Counts  \* values of --count; 0 without the option

VARIABLES
  head, opened, start, cursor, received, dropped,  \* the ring: TelemStream
  pc,       \* "exited", "oneshot", "setup", "loop", "call", "poll",
            \* "readv", "next", "print", "count", "stop"
  count,    \* args.count
  idx,      \* rows counted
  rest,     \* the samples of the batch not yet yielded
  tripped,  \* a signal was noted and its handler has not run
  eintr,    \* a signal came during the poll()
  rows      \* history: the rows printed, <<index, sample>>

ring == <<head, opened, start, cursor, received, dropped>>
own == <<pc, count, idx, rest, tripped, eintr, rows>>
vars == <<ring, own>>

Ring == INSTANCE TelemStream

Available == head > cursor[Fd]
Lesser(a, b) == IF a < b THEN a ELSE b

OwnInit ==
  /\ pc = "exited"
  /\ count = 0 /\ idx = 0
  /\ rest = <<>>
  /\ tripped = FALSE /\ eintr = FALSE
  /\ rows = <<>>

-----------------------------------------------------------------------------
(* The program goes from one label to another, with nothing else changed;  *)
(* Goes does so in Python, where it looks for signals, Moves in a call.    *)
Moves(from, to) ==
  /\ pc = from
  /\ pc' = to
  /\ UNCHANGED <<ring, count, idx, rest, tripped, eintr, rows>>

Goes(from, to) == ~tripped /\ Moves(from, to)

(* The file is closed, by the program or by the end of the process.        *)
Ends ==
  /\ Ring!Detach(Fd)
  /\ pc' = "exited"
  /\ tripped' = FALSE
  /\ UNCHANGED <<count, idx, rest, eintr, rows>>

(* A new process: arguments and GpuTelemReader(); with --set-interval it   *)
(* is a one-shot.                                                          *)
Exec(n) ==
  /\ pc = "exited"
  /\ Ring!Attach(Fd)
  /\ count' = n /\ idx' = 0
  /\ rest' = <<>>
  /\ tripped' = FALSE /\ eintr' = FALSE
  /\ rows' = <<>>
  /\ pc' \in {"setup", "oneshot"}

Signal ==
  /\ pc # "exited"
  /\ ~tripped \/ (pc = "poll" /\ ~eintr)
  /\ tripped' = TRUE
  /\ eintr' = (eintr \/ pc = "poll")
  /\ UNCHANGED <<ring, pc, count, idx, rest, rows>>

(* The handler raises KeyboardInterrupt.  In the loop or the generator it  *)
(* is caught; before the try, or in what follows it, it ends the program   *)
(* with a traceback and the process's exit closes the file.                *)
InterruptCaught ==
  /\ pc \in {"loop", "readv", "next", "print", "count"}
  /\ tripped
  /\ tripped' = FALSE
  /\ pc' = "stop"
  /\ UNCHANGED <<ring, count, idx, rest, eintr, rows>>

InterruptUncaught == pc \in {"oneshot", "setup", "stop"} /\ tripped /\ Ends

(* --set-interval: the ioctl (what it does is Tuning's), close(), exit; an *)
(* error of the ioctl ends the process, too.                               *)
OneShot == pc = "oneshot" /\ ~tripped /\ Ends

(* ring_size(), interval_ms(), the handlers and the header. *)
Setup == Goes("setup", "loop")

-----------------------------------------------------------------------------
(* samples().  A signal after Python's last look and before the system     *)
(* call is not noticed until the call returns.                             *)
PollCall == Goes("loop", "call")

PollEnter ==
  /\ pc = "call"
  /\ eintr' = FALSE
  /\ pc' = "poll"
  /\ UNCHANGED <<ring, count, idx, rest, tripped, rows>>

PollIn == Available /\ Moves("poll", "readv")

(* The timeout; or EINTR, where Python looks for signals before it would   *)
(* call again.                                                             *)
PollEmpty == ~Available /\ Moves("poll", "loop")

Readv ==
  LET n == Lesser(Lesser(BATCH, Size), head - Ring!Resume(Fd)) IN
  /\ pc = "readv"
  /\ ~tripped
  /\ Available
  /\ Ring!Consume(Fd, n)
  /\ rest' = [i \in 1..n |-> Ring!Resume(Fd) + i]
  /\ pc' = IF n = 0 THEN "stop" ELSE "next"
  /\ UNCHANGED <<count, idx, tripped, eintr, rows>>

(* An OSError of poll() or readv() is caught by nobody. *)
CallFails == (pc = "poll" \/ (pc = "readv" /\ ~tripped /\ Available)) /\ Ends

(* A faulty variant: the last sample of a batch is not yielded. *)
YieldButLast == Goes("next", IF Len(rest) <= 1 THEN "loop" ELSE "print")

(* The for loop takes the next sample, or the generator the next batch. *)
Yield == Goes("next", IF rest = <<>> THEN "loop" ELSE "print")

PrintRow ==
  /\ pc = "print"
  /\ ~tripped
  /\ rows' = Append(rows, <<idx, Head(rest)>>)
  /\ rest' = Tail(rest)
  /\ pc' = "count"
  /\ UNCHANGED <<ring, count, idx, tripped, eintr>>

(* A faulty variant: rows are counted only when there is a limit. *)
CountIfLimited ==
  /\ pc = "count"
  /\ ~tripped
  /\ idx' = IF count # 0 THEN idx + 1 ELSE idx
  /\ pc' = IF count # 0 /\ idx + 1 >= count THEN "stop" ELSE "next"
  /\ UNCHANGED <<ring, count, rest, tripped, eintr, rows>>

(* "if args.count": a negative count stops after the first row, too. *)
Count ==
  /\ pc = "count"
  /\ ~tripped
  /\ idx' = idx + 1
  /\ pc' = IF count # 0 /\ idx + 1 >= count THEN "stop" ELSE "next"
  /\ UNCHANGED <<ring, count, rest, tripped, eintr, rows>>

(* The summary line, and reader.close(). *)
Stop == pc = "stop" /\ ~tripped /\ Ends

(* What the process does once it runs: poll()'s timeout included. *)
Step ==
  \/ InterruptCaught \/ InterruptUncaught \/ OneShot \/ Setup
  \/ PollCall \/ PollEnter \/ PollIn \/ PollEmpty \/ Readv
  \/ Yield \/ PrintRow \/ Count \/ Stop

(* What is done to it. *)
Outside == Signal \/ CallFails \/ \E n \in Counts : Exec(n)

-----------------------------------------------------------------------------
OwnTypeOK ==
  /\ pc \in {"exited", "oneshot", "setup", "loop", "call", "poll", "readv",
             "next", "print", "count", "stop"}
  /\ count \in Counts \cup {0}
  /\ idx \in Nat
  /\ rest \in Seq(Nat)
  /\ tripped \in BOOLEAN /\ eintr \in BOOLEAN
  /\ rows \in Seq(Nat \X Nat)

(* "exit after N samples" (consumer.py:229), in every output mode. *)
AtMostCount == count > 0 => Len(rows) <= count

(* The rows, followed by what is left of the batch, are the samples read,  *)
(* in order and none twice, and the next batch is fetched only when all of *)
(* this one is printed: samples are given up only by stopping.             *)
RowsAreSamples ==
  pc # "exited" =>
    /\ [i \in 1..Len(rows) |-> rows[i][2]] \o rest = received[Fd]
    /\ pc \in {"loop", "call", "poll", "readv"} => rest = <<>>

(* Rows are numbered 0, 1, 2, ..., and the count of the summary is the     *)
(* number of rows, less one when the signal came between print and count.  *)
RowsNumbered ==
  /\ \A i \in 1..Len(rows) : rows[i][1] = i - 1
  /\ pc # "exited" =>
       \/ idx = Len(rows)
       \/ pc \in {"count", "stop"} /\ idx = Len(rows) - 1

(* Ctrl-C ends the program, whatever it is doing and with no sample to     *)
(* come: poll()'s timeout covers the one moment it could be missed.        *)
InterruptStops == (pc # "exited" /\ tripped) ~> (pc = "exited")
=============================================================================
