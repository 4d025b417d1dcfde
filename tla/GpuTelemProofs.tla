------------------------- MODULE GpuTelemProofs -------------------------
(***************************************************************************)
(* Proofs about GpuTelem, for every ring size, any number of threads and   *)
(* files, every way of sharing the files between the threads and any       *)
(* number of pushed samples.                                               *)
(*                                                                         *)
(* First what holds however files are shared, then what needs a file to    *)
(* have one thread (Private), then the refinement of Device.               *)
(***************************************************************************)
EXTENDS GpuTelem, SequenceTheorems, TLAPS

-----------------------------------------------------------------------------
(* The parts of the inductive invariant.                                   *)

(* A cursor is between the open() of its file and the head of the ring. *)
Cursors == \A f \in Fds : start[f] <= cursor[f] /\ cursor[f] <= head

(* Only a read that has consumed holds samples. *)
Buffers == \A t \in Tasks : kbuf[t] # <<>> => pc[t] = "copyout"

(* A thread in poll() stays on the queue until poll() returns; one in      *)
(* read() is on it only while it waits; only entries of poll() are marked. *)
Queued ==
  /\ \A t \in triggered : Polls(t)
  /\ \A t \in Tasks : Polls(t) => t \in waiting
  /\ \A t \in waiting : pc[t] \in {"prepare", "recheck", "asleep"} \/ Polls(t)

(* The file of a call exists. *)
InUse == \A t \in Tasks : pc[t] # "user" => file[t] \in opened

-----------------------------------------------------------------------------
LEMMA SizePositive == Size \in Nat /\ Size > 0
BY SizeAssumption

(* ring_consume() moves the cursor up, past what it skips, which has left  *)
(* the window, and past the samples it copies; never past the head.        *)
LEMMA ResumeBounds ==
  ASSUME TypeOK, Cursors, NEW f \in Fds
  PROVE  /\ Ring!Resume(f) \in Nat
         /\ cursor[f] <= Ring!Resume(f) /\ Ring!Resume(f) <= head
         /\ cursor[f] < Ring!Resume(f) => Ring!Resume(f) <= head - Size
         /\ Ring!Resume(f) = IF cursor[f] < head - Size THEN head - Size
                                                        ELSE cursor[f]
<1>1. head \in Nat /\ cursor[f] \in Nat /\ cursor[f] <= head
  BY BoundAssumption DEF TypeOK, Cursors
<1> QED
  BY <1>1, SizePositive DEF Ring!Resume, Ring!Oldest

LEMMA LesserBounds ==
  ASSUME NEW a \in Nat, NEW b \in Nat
  PROVE  /\ Lesser(a, b) \in Nat
         /\ Lesser(a, b) <= a /\ Lesser(a, b) <= b
         /\ a > 0 /\ b > 0 => Lesser(a, b) > 0
BY DEF Lesser

(* What a read of file[t] that resumes after sample r and takes n does to  *)
(* the cursor and to kbuf.                                                 *)
Takes(t, r, n) ==
  /\ r = Ring!Resume(file[t])
  /\ cursor[file[t]] <= r /\ r + n <= head
  /\ cursor[file[t]] < r => r <= head - Size
  /\ r < head /\ room[t] > 0 => n > 0
  /\ cursor' = [cursor EXCEPT ![file[t]] = r + n]
  /\ kbuf' = [kbuf EXCEPT ![t] = [i \in 1..n |-> r + i]]
  /\ [i \in 1..n |-> r + i] \in Seq(Nat)
  /\ Len([i \in 1..n |-> r + i]) = n
  /\ received' = [received EXCEPT ![file[t]] = @ \o [i \in 1..n |-> r + i]]
  /\ dropped' = dropped + (r - cursor[file[t]])

LEMMA ConsumeTakes ==
  ASSUME TypeOK, Cursors, NEW t \in Tasks, Consume(t)
  PROVE  \E r, n \in Nat : Takes(t, r, n)
<1> DEFINE r == Ring!Resume(file[t])
           n == Lesser(head - r, room[t])
<1>1. file[t] \in Fds /\ room[t] \in Nat /\ head \in Nat
  BY SizePositive, BoundAssumption DEF TypeOK
<1>2. /\ r \in Nat /\ cursor[file[t]] <= r /\ r <= head
      /\ cursor[file[t]] < r => r <= head - Size
  BY <1>1, ResumeBounds
<1>3. /\ head - r \in Nat
      /\ r < head => head - r > 0
  BY <1>1, <1>2
<1>4. n \in Nat /\ n <= head - r /\ (r < head /\ room[t] > 0 => n > 0)
  BY <1>1, <1>3, LesserBounds
<1>5. /\ cursor' = [cursor EXCEPT ![file[t]] = r + n]
      /\ kbuf' = [kbuf EXCEPT ![t] = [i \in 1..n |-> r + i]]
      /\ received' = [received EXCEPT
                        ![file[t]] = @ \o [i \in 1..n |-> r + i]]
      /\ dropped' = dropped + (r - cursor[file[t]])
  BY DEF Consume, Ring!Consume
<1> HIDE DEF r, n
<1>6. [i \in 1..n |-> r + i] \in Seq(Nat) /\ Len([i \in 1..n |-> r + i]) = n
  BY <1>2, <1>4
<1>7. r + n <= head
  BY <1>1, <1>2, <1>4
<1>8. r = Ring!Resume(file[t])
  BY DEF r
<1> QED
  BY <1>2, <1>4, <1>5, <1>6, <1>7, <1>8 DEF Takes

-----------------------------------------------------------------------------
(* Type correctness. *)

LEMMA InitType == Init => TypeOK /\ Cursors
<1> SUFFICES ASSUME Init PROVE TypeOK /\ Cursors
  OBVIOUS
<1>1. file \in [Tasks -> Fds]
  <2>1. \A t \in Tasks : (CHOOSE f \in Owner[t] : TRUE) \in Owner[t]
    <3>1. \A t \in Tasks : \E f : f \in Owner[t]
      BY OwnerAssumption
    <3> QED
      BY <3>1, Zenon
  <2>2. \A t \in Tasks : (CHOOSE f \in Owner[t] : TRUE) \in Fds
    BY <2>1, OwnerAssumption
  <2> QED
    BY <2>2, Zenon DEF Init
<1>2. /\ head \in 0..MaxHead /\ dropped \in Nat
      /\ start \in [Fds -> Nat] /\ cursor \in [Fds -> Nat]
      /\ received \in [Fds -> Seq(Nat)] /\ delivered \in [Fds -> Seq(Nat)]
      /\ faulted \in [Fds -> SUBSET Nat]
      /\ room \in [Tasks -> 0..Size] /\ kbuf \in [Tasks -> Seq(Nat)]
  BY SizeAssumption, BoundAssumption DEF Init, Ring!Init
<1> QED
  BY <1>1, <1>2 DEF Init, Ring!Init, TypeOK, Cursors

LEMMA TypeStep ==
  ASSUME TypeOK, Cursors, Buffers, Queued, [Next]_vars
  PROVE  TypeOK'
<1> USE DEF TypeOK, ring, call, wq, given, Goto, Return
<1>1. CASE CollectorPush
  BY <1>1, BoundAssumption DEF CollectorPush, Ring!Publish
<1>2. CASE CollectorWake
  BY <1>2 DEF CollectorWake
<1>3. ASSUME NEW t \in Tasks, NEW f \in Fds, Open(t, f)
      PROVE  TypeOK'
  BY <1>3, BoundAssumption DEF Open, Ring!Attach, Forget
<1>4. ASSUME NEW t \in Tasks, Refused(t)
      PROVE  TypeOK'
  BY <1>4 DEF Refused
<1>5. ASSUME NEW t \in Tasks, NEW f \in Fds, Close(t, f)
      PROVE  TypeOK'
  BY <1>5 DEF Close
<1>6. ASSUME NEW t \in Tasks, NEW f \in Fds, Poll(t, f)
      PROVE  TypeOK'
  BY <1>6 DEF Poll
<1>7. ASSUME NEW t \in Tasks, NEW f \in Fds, NEW count \in Counts,
             Read(t, f, count)
      PROVE  TypeOK'
  <2>1. MaxSamples(count) \in 0..Size
    BY SizePositive, CountsAssumption, LesserBounds DEF MaxSamples
  <2> QED
    BY <1>7, <2>1 DEF Read
<1>8. ASSUME NEW t \in Tasks, Signal(t)
      PROVE  TypeOK'
  BY <1>8 DEF Signal
<1>9. ASSUME NEW t \in Tasks, NEW from, NEW to,
             Moves(t, from, to), to \in {"prepare", "asleep", "consume"}
      PROVE  TypeOK'
  BY <1>9 DEF Moves
<1>10. ASSUME NEW t \in Tasks, NEW from, Fails(t, from)
       PROVE  TypeOK'
  BY <1>10 DEF Fails
<1>11. ASSUME NEW t \in Tasks, WaitPrepare(t)
       PROVE  TypeOK'
  BY <1>11 DEF WaitPrepare, Queued, Polls
<1>12. ASSUME NEW t \in Tasks, WaitRecheck(t)
       PROVE  TypeOK'
  BY <1>12 DEF WaitRecheck, Queued, Polls
<1>13. ASSUME NEW t \in Tasks, Consume(t)
       PROVE  TypeOK'
  <2>1. file[t] \in Fds
    OBVIOUS
  <2>2. PICK r \in Nat, n \in Nat : Takes(t, r, n)
    BY <1>13, ConsumeTakes
  <2>3. /\ cursor' = [cursor EXCEPT ![file[t]] = r + n]
        /\ kbuf' = [kbuf EXCEPT ![t] = [i \in 1..n |-> r + i]]
        /\ [i \in 1..n |-> r + i] \in Seq(Nat)
    BY <2>2, Zenon DEF Takes
  <2>4. cursor' \in [Fds -> Nat] /\ kbuf' \in [Tasks -> Seq(Nat)]
    BY <2>1, <2>3
  <2>5. dropped' \in Nat
    <3>1. cursor[file[t]] \in Nat /\ dropped \in Nat
      BY <2>1
    <3>2. cursor[file[t]] <= r /\ dropped' = dropped + (r - cursor[file[t]])
      BY <2>2, Zenon DEF Takes
    <3> QED
      BY <3>1, <3>2
  <2>6. /\ received' = [received EXCEPT
                          ![file[t]] = @ \o [i \in 1..n |-> r + i]]
        /\ [i \in 1..n |-> r + i] \in Seq(Nat)
    BY <2>2, Zenon DEF Takes
  <2>7. received[file[t]] \o [i \in 1..n |-> r + i] \in Seq(Nat)
    BY <2>1, <2>6, ConcatProperties
  <2>8. received' \in [Fds -> Seq(Nat)]
    BY <2>1, <2>6, <2>7
  <2> QED
    BY <1>13, <2>4, <2>5, <2>8 DEF Consume, Ring!Consume
<1>14. ASSUME NEW t \in Tasks, CopyToUser(t)
       PROVE  TypeOK'
  <2>1. delivered[file[t]] \o kbuf[t] \in Seq(Nat)
    BY ConcatProperties
  <2>2. delivered' \in [Fds -> Seq(Nat)]
    BY <1>14, <2>1 DEF CopyToUser
  <2> QED
    BY <1>14, <2>2 DEF CopyToUser
<1>15. ASSUME NEW t \in Tasks, CopyFaults(t)
       PROVE  TypeOK'
  <2>1. Range(kbuf[t]) \subseteq Nat
    BY LenProperties, ElementOfSeq DEF Range
  <2> QED
    BY <1>15, <2>1 DEF CopyFaults
<1>16. ASSUME NEW t \in Tasks, PollCheck(t)
       PROVE  TypeOK'
  BY <1>16 DEF PollCheck, PollReturn
<1>17. ASSUME NEW t \in Tasks, NEW label \in {"pollcheck", "polltimeout"},
              PollSleepEnds(t, label)
       PROVE  TypeOK'
  BY <1>17 DEF PollSleepEnds
<1>18. ASSUME NEW f \in Fds, Release(f)
       PROVE  TypeOK'
  BY <1>18 DEF Release, Ring!Detach, Forget
<1>19. CASE UNCHANGED vars
  BY <1>19 DEF vars
<1> QED
  BY <1>1, <1>2, <1>3, <1>4, <1>5, <1>6, <1>7, <1>8, <1>9, <1>10, <1>11,
     <1>12, <1>13, <1>14, <1>15, <1>16, <1>17, <1>18, <1>19
     DEF Next, Collector, UserStep, KernelStep, OpenFails, ReadShort,
         ReadNonblock, WaitFirstCheck, WaitWakes, AllocFails, PollWakes,
         PollTimeout

-----------------------------------------------------------------------------
(* What the steps do to the samples: five of them move samples, the others *)
(* leave the ring and every buffer alone, and change the file of a thread  *)
(* only when it is in no call.                                             *)

Quiet ==
  /\ UNCHANGED <<ring, kbuf, given>>
  /\ file' \in [Tasks -> Fds]
  /\ \A t \in Tasks : file'[t] # file[t] => pc[t] = "user"

LEMMA DataSteps ==
  ASSUME TypeOK, [Next]_vars
  PROVE  \/ Quiet
         \/ CollectorPush
         \/ \E t \in Tasks, f \in Fds : Open(t, f)
         \/ \E t \in Tasks : Consume(t) \/ CopyToUser(t) \/ CopyFaults(t)
         \/ \E f \in Fds : Release(f)
<1> USE DEF ring, call, given
<1>0. file \in [Tasks -> Fds]
  BY DEF TypeOK
<1>1. ASSUME UNCHANGED <<ring, call, given>>
      PROVE  Quiet
  BY <1>0, <1>1 DEF Quiet
<1>2. CASE CollectorWake
  BY <1>1, <1>2 DEF CollectorWake
<1>3. ASSUME NEW t \in Tasks, \/ Refused(t) \/ Signal(t)
                              \/ \E f \in Fds : Close(t, f)
      PROVE  Quiet
  BY <1>1, <1>3 DEF Refused, Signal, Close
<1>4. ASSUME NEW t \in Tasks, NEW f \in Fds,
             Poll(t, f) \/ \E count \in Counts : Read(t, f, count)
      PROVE  Quiet
  <2>1. /\ UNCHANGED <<ring, kbuf, given>>
        /\ pc[t] = "user"
        /\ file' = [file EXCEPT ![t] = f]
    BY <1>4 DEF Poll, Read
  <2> QED
    BY <1>0, <2>1 DEF Quiet
<1>5. ASSUME NEW t \in Tasks,
             \/ ReadNonblock(t) \/ WaitFirstCheck(t) \/ WaitPrepare(t)
             \/ WaitRecheck(t) \/ WaitWakes(t) \/ AllocFails(t)
             \/ PollCheck(t) \/ PollWakes(t) \/ PollTimeout(t)
      PROVE  Quiet
  BY <1>1, <1>5
     DEF ReadNonblock, WaitFirstCheck, WaitPrepare, WaitRecheck, WaitWakes,
         AllocFails, PollCheck, PollWakes, PollTimeout, PollSleepEnds,
         Moves, Fails
<1>6. CASE UNCHANGED vars
  BY <1>1, <1>6 DEF vars
<1> QED
  BY <1>2, <1>3, <1>4, <1>5, <1>6
     DEF Next, Collector, UserStep, KernelStep, OpenFails, ReadShort

-----------------------------------------------------------------------------
(* The parts that hold however files are shared. *)

LEMMA CursorsStep ==
  ASSUME TypeOK, TypeOK', Cursors, [Next]_vars
  PROVE  Cursors'
<1>0. /\ head \in Nat /\ head' \in Nat
      /\ start \in [Fds -> Nat] /\ cursor \in [Fds -> Nat]
  BY BoundAssumption DEF TypeOK
<1>1. CASE Quiet
  BY <1>1 DEF Quiet, Cursors, ring
<1>2. CASE CollectorPush
  BY <1>0, <1>2 DEF CollectorPush, Ring!Publish, Cursors
<1>3. ASSUME NEW t \in Tasks, NEW f \in Fds, Open(t, f)
      PROVE  Cursors'
  BY <1>0, <1>3 DEF Open, Ring!Attach, Cursors
<1>4. ASSUME NEW t \in Tasks, Consume(t)
      PROVE  Cursors'
  <2>1. PICK r \in Nat, n \in Nat : Takes(t, r, n)
    BY <1>4, ConsumeTakes
  <2>2. /\ cursor' = [cursor EXCEPT ![file[t]] = r + n]
        /\ cursor[file[t]] <= r /\ r + n <= head
    BY <2>1, Zenon DEF Takes
  <2>3. head' = head /\ start' = start
    BY <1>4 DEF Consume, Ring!Consume
  <2> QED
    BY <1>0, <2>2, <2>3 DEF Cursors
<1>5. ASSUME NEW t \in Tasks, CopyToUser(t) \/ CopyFaults(t)
      PROVE  Cursors'
  BY <1>5 DEF CopyToUser, CopyFaults, Cursors, ring
<1>6. ASSUME NEW f \in Fds, Release(f)
      PROVE  Cursors'
  BY <1>0, <1>6 DEF Release, Ring!Detach, Cursors
<1> QED
  BY <1>1, <1>2, <1>3, <1>4, <1>5, <1>6, DataSteps

LEMMA BuffersStep ==
  ASSUME TypeOK, Buffers, [Next]_vars
  PROVE  Buffers'
<1> USE DEF TypeOK, Buffers, ring, call, wq, given, Goto, Return
<1>1. CASE Collector
  BY <1>1 DEF Collector, CollectorPush, CollectorWake
<1>2. ASSUME NEW t \in Tasks, NEW f \in Fds,
             \/ Open(t, f) \/ Close(t, f) \/ Poll(t, f)
             \/ \E count \in Counts : Read(t, f, count)
      PROVE  Buffers'
  BY <1>2 DEF Open, Close, Poll, Read
<1>3. ASSUME NEW t \in Tasks, Refused(t) \/ Signal(t)
      PROVE  Buffers'
  BY <1>3 DEF Refused, Signal
<1>4. ASSUME NEW t \in Tasks,
             \/ ReadNonblock(t) \/ WaitFirstCheck(t) \/ WaitPrepare(t)
             \/ WaitRecheck(t) \/ WaitWakes(t) \/ AllocFails(t)
      PROVE  Buffers'
  BY <1>4
     DEF ReadNonblock, WaitFirstCheck, WaitPrepare, WaitRecheck, WaitWakes,
         AllocFails, Moves, Fails
<1>5. ASSUME NEW t \in Tasks,
             \/ PollCheck(t) \/ PollWakes(t) \/ PollTimeout(t)
      PROVE  Buffers'
  BY <1>5 DEF PollCheck, PollReturn, PollWakes, PollTimeout, PollSleepEnds
<1>6. ASSUME NEW t \in Tasks, Consume(t) \/ CopyToUser(t) \/ CopyFaults(t)
      PROVE  Buffers'
  BY <1>6 DEF Consume, CopyToUser, CopyFaults
<1>7. ASSUME NEW f \in Fds, Release(f)
      PROVE  Buffers'
  BY <1>7 DEF Release
<1>8. CASE UNCHANGED vars
  BY <1>8 DEF vars
<1> QED
  BY <1>1, <1>2, <1>3, <1>4, <1>5, <1>6, <1>7, <1>8
     DEF Next, UserStep, KernelStep, OpenFails, ReadShort

LEMMA QueuedStep ==
  ASSUME TypeOK, Queued, [Next]_vars
  PROVE  Queued'
<1> USE DEF TypeOK, Queued, Polls, ring, call, wq, given, Goto, Return
<1>1. CASE Collector
  BY <1>1 DEF Collector, CollectorPush, CollectorWake
<1>2. ASSUME NEW t \in Tasks, NEW f \in Fds,
             \/ Open(t, f) \/ Close(t, f) \/ Poll(t, f)
             \/ \E count \in Counts : Read(t, f, count)
      PROVE  Queued'
  BY <1>2 DEF Open, Close, Poll, Read
<1>3. ASSUME NEW t \in Tasks, Refused(t) \/ Signal(t)
      PROVE  Queued'
  BY <1>3 DEF Refused, Signal
<1>4. ASSUME NEW t \in Tasks,
             ReadNonblock(t) \/ WaitFirstCheck(t) \/ AllocFails(t)
      PROVE  Queued'
  BY <1>4 DEF ReadNonblock, WaitFirstCheck, AllocFails, Moves, Fails
<1>5. ASSUME NEW t \in Tasks, WaitPrepare(t) \/ WaitWakes(t)
      PROVE  Queued'
  BY <1>5 DEF WaitPrepare, WaitWakes, Moves
<1>6. ASSUME NEW t \in Tasks, WaitRecheck(t)
      PROVE  Queued'
  BY <1>6 DEF WaitRecheck
<1>7. ASSUME NEW t \in Tasks,
             \/ PollCheck(t) \/ PollWakes(t) \/ PollTimeout(t)
      PROVE  Queued'
  BY <1>7 DEF PollCheck, PollReturn, PollWakes, PollTimeout, PollSleepEnds
<1>8. ASSUME NEW t \in Tasks, Consume(t) \/ CopyToUser(t) \/ CopyFaults(t)
      PROVE  Queued'
  BY <1>8 DEF Consume, CopyToUser, CopyFaults
<1>9. ASSUME NEW f \in Fds, Release(f)
      PROVE  Queued'
  BY <1>9 DEF Release
<1>10. CASE UNCHANGED vars
  BY <1>10 DEF vars
<1> QED
  BY <1>1, <1>2, <1>3, <1>4, <1>5, <1>6, <1>7, <1>8, <1>9, <1>10
     DEF Next, UserStep, KernelStep, OpenFails, ReadShort

LEMMA InUseStep ==
  ASSUME TypeOK, InUse, [Next]_vars
  PROVE  InUse'
<1> USE DEF TypeOK, InUse, ring, call, wq, given, Goto, Return
<1>1. CASE Collector
  BY <1>1 DEF Collector, CollectorPush, CollectorWake, Ring!Publish
<1>2. ASSUME NEW t \in Tasks, NEW f \in Fds,
             \/ Open(t, f) \/ Close(t, f) \/ Poll(t, f)
             \/ \E count \in Counts : Read(t, f, count)
      PROVE  InUse'
  <2>1. CASE Open(t, f)
    BY <2>1 DEF Open, Ring!Attach
  <2>2. CASE Close(t, f)
    BY <2>2 DEF Close
  <2>3. CASE Poll(t, f)
    BY <2>3 DEF Poll
  <2>4. CASE \E count \in Counts : Read(t, f, count)
    BY <2>4 DEF Read
  <2> QED
    BY <1>2, <2>1, <2>2, <2>3, <2>4
<1>3. ASSUME NEW t \in Tasks, Refused(t) \/ Signal(t)
      PROVE  InUse'
  BY <1>3 DEF Refused, Signal
<1>4. ASSUME NEW t \in Tasks,
             \/ ReadNonblock(t) \/ WaitFirstCheck(t) \/ WaitPrepare(t)
             \/ WaitRecheck(t) \/ WaitWakes(t) \/ AllocFails(t)
      PROVE  InUse'
  BY <1>4
     DEF ReadNonblock, WaitFirstCheck, WaitPrepare, WaitRecheck, WaitWakes,
         AllocFails, Moves, Fails
<1>5. ASSUME NEW t \in Tasks,
             \/ PollCheck(t) \/ PollWakes(t) \/ PollTimeout(t)
      PROVE  InUse'
  BY <1>5 DEF PollCheck, PollReturn, PollWakes, PollTimeout, PollSleepEnds
<1>6. ASSUME NEW t \in Tasks, Consume(t) \/ CopyToUser(t) \/ CopyFaults(t)
      PROVE  InUse'
  BY <1>6 DEF Consume, Ring!Consume, CopyToUser, CopyFaults
<1>7. ASSUME NEW f \in Fds, Release(f)
      PROVE  InUse'
  BY <1>7 DEF Release, Ring!Detach, InCall
<1>8. CASE UNCHANGED vars
  BY <1>8 DEF vars
<1> QED
  BY <1>1, <1>2, <1>3, <1>4, <1>5, <1>6, <1>7, <1>8
     DEF Next, UserStep, KernelStep, OpenFails, ReadShort

(* The window between a thread's last check and its sleep: the thread is   *)
(* on the queue before that check, so a push after it is followed by a     *)
(* wake_up that finds the thread there.                                    *)
LEMMA NoLostWakeupStep ==
  ASSUME TypeOK, TypeOK', Cursors, Queued, InUse, NoLostWakeup, [Next]_vars
  PROVE  NoLostWakeup'
<1>0. /\ head \in Nat /\ head' \in Nat /\ cursor \in [Fds -> Nat]
      /\ pc \in [Tasks -> {"user", "nonblock", "check", "prepare",
                           "recheck", "interrupted", "asleep", "consume",
                           "copyout", "pollcheck", "pollsleep",
                           "polltimeout"}]
      /\ file \in [Tasks -> Fds]
      /\ opened \subseteq Fds /\ linked \subseteq opened
  BY BoundAssumption DEF TypeOK
<1> USE <1>0 DEF NoLostWakeup, Available, ring, call, wq, given, Goto, Return
<1>1. CASE CollectorPush
  BY <1>1 DEF CollectorPush
<1>2. CASE CollectorWake
  BY <1>2 DEF CollectorWake, Queued, Polls
<1>3. ASSUME NEW t \in Tasks, NEW f \in Fds, Open(t, f)
      PROVE  NoLostWakeup'
  <2>1. /\ f \notin opened /\ pc[t] = "user"
        /\ cursor' = [cursor EXCEPT ![f] = head]
        /\ file' = [file EXCEPT ![t] = f]
        /\ UNCHANGED <<head, cpc, pc, waiting, triggered>>
    BY <1>3 DEF Open, Ring!Attach
  <2>2. \A u \in Tasks : pc[u] # "user" => u # t /\ file[u] # f
    BY <2>1 DEF InUse
  <2>3. \A u \in Tasks : pc[u] # "user" =>
          file'[u] = file[u] /\ cursor'[file[u]] = cursor[file[u]]
    BY <2>1, <2>2
  <2> QED
    BY <2>1, <2>3
<1>4. ASSUME NEW t \in Tasks, NEW f \in Fds,
             \/ Close(t, f) \/ Poll(t, f)
             \/ \E count \in Counts : Read(t, f, count)
      PROVE  NoLostWakeup'
  BY <1>4 DEF Close, Poll, Read
<1>5. ASSUME NEW t \in Tasks, Refused(t) \/ Signal(t)
      PROVE  NoLostWakeup'
  BY <1>5 DEF Refused, Signal
<1>6. ASSUME NEW t \in Tasks,
             \/ ReadNonblock(t) \/ WaitFirstCheck(t) \/ WaitPrepare(t)
             \/ WaitWakes(t) \/ AllocFails(t)
      PROVE  NoLostWakeup'
  BY <1>6
     DEF ReadNonblock, WaitFirstCheck, WaitPrepare, WaitWakes, AllocFails,
         Moves, Fails
<1>7. ASSUME NEW t \in Tasks, WaitRecheck(t)
      PROVE  NoLostWakeup'
  BY <1>7 DEF WaitRecheck
<1>8. ASSUME NEW t \in Tasks, PollCheck(t)
      PROVE  NoLostWakeup'
  BY <1>8 DEF PollCheck, PollReturn
<1>9. ASSUME NEW t \in Tasks, PollWakes(t) \/ PollTimeout(t)
      PROVE  NoLostWakeup'
  BY <1>9 DEF PollWakes, PollTimeout, PollSleepEnds
<1>10. ASSUME NEW t \in Tasks, Consume(t)
       PROVE  NoLostWakeup'
  <2>1. PICK r \in Nat, n \in Nat : Takes(t, r, n)
    BY <1>10, ConsumeTakes
  <2>2. /\ cursor' = [cursor EXCEPT ![file[t]] = r + n]
        /\ cursor[file[t]] <= r
    BY <2>1, Zenon DEF Takes
  <2>3. \A f \in Fds : cursor[f] <= cursor'[f]
    BY <2>2
  <2>4. /\ head' = head /\ file' = file
        /\ cpc' = cpc /\ waiting' = waiting /\ triggered' = triggered
        /\ pc' = [pc EXCEPT ![t] = "copyout"]
    BY <1>10 DEF Consume, Ring!Consume
  <2>5. cursor' \in [Fds -> Nat]
    BY DEF TypeOK
  <2> QED
    BY <2>3, <2>4, <2>5
<1>11. ASSUME NEW t \in Tasks, CopyToUser(t) \/ CopyFaults(t)
       PROVE  NoLostWakeup'
  BY <1>11 DEF CopyToUser, CopyFaults
<1>12. ASSUME NEW f \in Fds, Release(f)
       PROVE  NoLostWakeup'
  BY <1>12 DEF Release, Ring!Detach, InCall, InUse
<1>13. CASE UNCHANGED vars
  BY <1>13 DEF vars
<1> QED
  BY <1>1, <1>2, <1>3, <1>4, <1>5, <1>6, <1>7, <1>8, <1>9, <1>10, <1>11,
     <1>12, <1>13
     DEF Next, Collector, UserStep, KernelStep, OpenFails, ReadShort

(* The five parts together, for every behaviour. *)
SharedInv == TypeOK /\ Cursors /\ Buffers /\ Queued /\ InUse /\ NoLostWakeup

LEMMA SharedInvariant == Spec => []SharedInv
<1>1. Init => SharedInv
  BY InitType
     DEF Init, Ring!Init, SharedInv, Buffers, Queued, Polls, InUse,
         NoLostWakeup
<1>2. SharedInv /\ [Next]_vars => SharedInv'
  BY TypeStep, CursorsStep, BuffersStep, QueuedStep, InUseStep,
     NoLostWakeupStep DEF SharedInv
<1> QED
  BY <1>1, <1>2, PTL DEF Spec

(* Every variable keeps its type: no cursor, count or list of samples ever *)
(* leaves its range, and only open files have a descriptor.                *)
THEOREM TypeCorrect == Spec => []TypeOK
BY SharedInvariant, PTL DEF SharedInv

(* No thread sleeps in read() or poll() on data that is already there      *)
(* unless the collector is on its way to wake_up_interruptible().          *)
THEOREM WakeupsKept == Spec => []NoLostWakeup
BY SharedInvariant, PTL DEF SharedInv

(* gpu_telem_release() never frees the reader_ctx of a call in progress,   *)
(* and no thread is left on the queue outside the waits of its call.       *)
THEOREM ReleaseIsLast == Spec => []NoUseAfterRelease
<1>1. SharedInv => NoUseAfterRelease
  BY DEF SharedInv, Queued, InUse, NoUseAfterRelease, TypeOK
<1> QED
  BY <1>1, SharedInvariant, PTL

-----------------------------------------------------------------------------
(* Lists of samples. *)

Within(s, a, b) == \A i \in 1..Len(s) : a < s[i] /\ s[i] <= b
Distinct(s) == \A i, j \in 1..Len(s) : i # j => s[i] # s[j]
Apart(s, r) == \A i \in 1..Len(s), j \in 1..Len(r) : s[i] # r[j]
Rising(s) == \A i, j \in 1..Len(s) : i < j => s[i] < s[j]
Before(s, r) == \A i \in 1..Len(s), j \in 1..Len(r) : s[i] < r[j]

LEMMA ConcatElement ==
  ASSUME NEW s \in Seq(Nat), NEW r \in Seq(Nat), NEW i \in 1..Len(s \o r)
  PROVE  \/ i \in 1..Len(s) /\ (s \o r)[i] = s[i]
         \/ /\ i - Len(s) \in 1..Len(r)
            /\ i > Len(s)
            /\ (s \o r)[i] = r[i - Len(s)]
BY ConcatProperties, LenProperties

(* What copy_to_user() appends to what a file delivered before. *)
LEMMA ConcatLists ==
  ASSUME NEW s \in Seq(Nat), NEW r \in Seq(Nat)
  PROVE  /\ \A a, b \in Nat : Within(s, a, b) /\ Within(r, a, b)
                                => Within(s \o r, a, b)
         /\ Distinct(s) /\ Distinct(r) /\ Apart(r, s) => Distinct(s \o r)
         /\ \A q \in Seq(Nat) : Apart(q, s) /\ Apart(q, r) => Apart(q, s \o r)
         /\ Rising(s) /\ Rising(r) /\ Before(s, r) => Rising(s \o r)
         /\ Range(s \o r) = Range(s) \cup Range(r)
<1> DEFINE w == s \o r
<1>0. /\ Len(s) \in Nat /\ Len(r) \in Nat
      /\ \A i \in 1..Len(s) : s[i] \in Nat
      /\ \A i \in 1..Len(r) : r[i] \in Nat
  BY LenProperties, ElementOfSeq
<1>1. \A i \in 1..Len(w) : \/ i \in 1..Len(s) /\ w[i] = s[i]
                           \/ /\ i - Len(s) \in 1..Len(r)
                              /\ i > Len(s)
                              /\ w[i] = r[i - Len(s)]
  BY ConcatElement
<1>2. /\ w \in Seq(Nat) /\ Len(w) = Len(s) + Len(r)
      /\ DOMAIN w = 1..Len(w)
      /\ DOMAIN s = 1..Len(s) /\ DOMAIN r = 1..Len(r)
      /\ \A i \in 1..Len(s) : i \in 1..Len(w) /\ w[i] = s[i]
      /\ \A i \in 1..Len(r) : /\ Len(s) + i \in 1..Len(w)
                              /\ w[Len(s) + i] = r[i]
  BY <1>0, ConcatProperties, LenProperties
<1> HIDE DEF w
<1>3. ASSUME NEW a \in Nat, NEW b \in Nat, Within(s, a, b), Within(r, a, b)
      PROVE  Within(w, a, b)
  BY <1>1, <1>3 DEF Within
<1>4. ASSUME Distinct(s), Distinct(r), Apart(r, s)
      PROVE  Distinct(w)
  <2> SUFFICES ASSUME NEW i \in 1..Len(w), NEW j \in 1..Len(w), i # j
               PROVE  w[i] # w[j]
    BY DEF Distinct
  <2>1. CASE i \in 1..Len(s) /\ j \in 1..Len(s)
    BY <1>2, <1>4, <2>1 DEF Distinct
  <2>2. CASE i \in 1..Len(s) /\ j \notin 1..Len(s)
    <3>1. /\ j - Len(s) \in 1..Len(r) /\ w[j] = r[j - Len(s)]
          /\ w[i] = s[i]
      BY <1>1, <1>2, <2>2
    <3> QED
      BY <1>4, <2>2, <3>1 DEF Apart
  <2>3. CASE i \notin 1..Len(s) /\ j \in 1..Len(s)
    <3>1. /\ i - Len(s) \in 1..Len(r) /\ w[i] = r[i - Len(s)]
          /\ w[j] = s[j]
      BY <1>1, <1>2, <2>3
    <3> QED
      BY <1>4, <2>3, <3>1 DEF Apart
  <2>4. CASE i \notin 1..Len(s) /\ j \notin 1..Len(s)
    <3>1. /\ i - Len(s) \in 1..Len(r) /\ w[i] = r[i - Len(s)]
          /\ j - Len(s) \in 1..Len(r) /\ w[j] = r[j - Len(s)]
      BY <1>1, <2>4
    <3>2. i \in Int /\ j \in Int /\ Len(s) \in Int
      BY <1>0
    <3>3. i - Len(s) # j - Len(s)
      BY <3>2
    <3> QED
      BY <1>4, <3>1, <3>3 DEF Distinct
  <2> QED
    BY <2>1, <2>2, <2>3, <2>4
<1>5. ASSUME NEW q \in Seq(Nat), Apart(q, s), Apart(q, r)
      PROVE  Apart(q, w)
  BY <1>1, <1>5 DEF Apart
<1>6. ASSUME Rising(s), Rising(r), Before(s, r)
      PROVE  Rising(w)
  <2> SUFFICES ASSUME NEW i \in 1..Len(w), NEW j \in 1..Len(w), i < j
               PROVE  w[i] < w[j]
    BY DEF Rising
  <2>1. CASE i \in 1..Len(s) /\ j \in 1..Len(s)
    BY <1>2, <1>6, <2>1 DEF Rising
  <2>2. CASE i \in 1..Len(s) /\ j \notin 1..Len(s)
    BY <1>1, <1>2, <1>6, <2>2 DEF Before
  <2>3. CASE i \notin 1..Len(s) /\ j \in 1..Len(s)
    BY <1>0, <1>1, <1>2, <1>6, <2>3 DEF Before
  <2>4. CASE i \notin 1..Len(s) /\ j \notin 1..Len(s)
    <3>1. /\ i - Len(s) \in 1..Len(r) /\ w[i] = r[i - Len(s)]
          /\ j - Len(s) \in 1..Len(r) /\ w[j] = r[j - Len(s)]
      BY <1>1, <2>4
    <3>2. i \in Int /\ j \in Int /\ Len(s) \in Int
      BY <1>0
    <3>3. i - Len(s) < j - Len(s)
      BY <3>2
    <3> QED
      BY <1>6, <3>1, <3>3 DEF Rising
  <2> QED
    BY <2>1, <2>2, <2>3, <2>4
<1>7. Range(w) = Range(s) \cup Range(r)
  <2>1. \A k \in Range(w) : k \in Range(s) \cup Range(r)
    BY <1>1, <1>2 DEF Range
  <2>2. \A k \in Range(s) \cup Range(r) : k \in Range(w)
    BY <1>2 DEF Range
  <2> QED
    BY <2>1, <2>2
<1> QED
  BY <1>3, <1>4, <1>5, <1>6, <1>7 DEF w

(* What ring_consume() copies is a run of consecutive samples. *)
LEMMA RunList ==
  ASSUME NEW a \in Nat, NEW n \in Nat, NEW s \in Seq(Nat),
         s = [i \in 1..n |-> a + i], Len(s) = n
  PROVE  /\ Within(s, a, a + n) /\ Distinct(s) /\ Rising(s)
         /\ \A k \in Nat : a < k /\ k <= a + n => k \in Range(s)
<1>1. \A i \in 1..Len(s) : s[i] = a + i
  OBVIOUS
<1>2. ASSUME NEW k \in Nat, a < k, k <= a + n
      PROVE  k \in Range(s)
  <2>1. k - a \in 1..n /\ s[k - a] = k
    BY <1>2
  <2> QED
    BY <2>1 DEF Range
<1> QED
  BY <1>1, <1>2 DEF Within, Distinct, Rising

LEMMA EmptyList ==
  /\ <<>> \in Seq(Nat) /\ Range(<<>>) = {}
  /\ \A a, b : Within(<<>>, a, b)
  /\ Distinct(<<>>) /\ Rising(<<>>)
  /\ \A s \in Seq(Nat) : /\ Apart(s, <<>>) /\ Apart(<<>>, s)
                         /\ Before(s, <<>>) /\ Before(<<>>, s)
BY DEF Within, Distinct, Rising, Apart, Before, Range

-----------------------------------------------------------------------------
(* Samples of one file, wherever they are. *)

(* They were pushed after the open() and the cursor is past them. *)
SampleBounds ==
  /\ \A f \in Fds : Within(delivered[f], start[f], cursor[f])
  /\ \A t \in Tasks : Within(kbuf[t], start[file[t]], cursor[file[t]])

(* None is in two places: not even in the buffers of two threads that read *)
(* the same file.                                                          *)
Once ==
  /\ \A f \in Fds : Distinct(delivered[f])
  /\ \A t \in Tasks : Distinct(kbuf[t]) /\ Apart(kbuf[t], delivered[file[t]])
  /\ \A t, u \in Tasks : t # u /\ file[t] = file[u] => Apart(kbuf[t], kbuf[u])

(* A step that opens a file, or calls on another one, is taken by a thread *)
(* without samples; no samples are left of a file that is opened or        *)
(* released.                                                               *)
LEMMA BufferedFile ==
  ASSUME TypeOK, Buffers, InUse, [Next]_vars
  PROVE  /\ \A t \in Tasks : kbuf[t] # <<>> =>
              pc[t] = "copyout" /\ file'[t] = file[t] /\ file[t] \in opened
         /\ \A t \in Tasks, f \in Fds : Open(t, f) =>
              \A u \in Tasks : kbuf[u] # <<>> => u # t /\ file[u] # f
         /\ \A f \in Fds : Release(f) =>
              \A u \in Tasks : kbuf[u] # <<>> => file[u] # f
<1>1. \A t \in Tasks : kbuf[t] # <<>> =>
        pc[t] = "copyout" /\ pc[t] # "user" /\ file[t] \in opened
  BY DEF Buffers, InUse
<1>2. ASSUME NEW t \in Tasks, NEW f \in Fds, Open(t, f)
      PROVE  /\ \A u \in Tasks : kbuf[u] # <<>> => u # t /\ file[u] # f
             /\ \A u \in Tasks : kbuf[u] # <<>> => file'[u] = file[u]
  BY <1>1, <1>2 DEF Open, Ring!Attach, TypeOK
<1>3. ASSUME NEW f \in Fds, Release(f)
      PROVE  /\ \A u \in Tasks : kbuf[u] # <<>> => file[u] # f
             /\ file' = file
  BY <1>1, <1>3 DEF Release, InCall, call
<1>4. ASSUME NEW t \in Tasks, kbuf[t] # <<>>
      PROVE  file'[t] = file[t]
  BY <1>1, <1>2, <1>3, <1>4, DataSteps
     DEF Quiet, CollectorPush, Consume, CopyToUser, CopyFaults, call
<1> QED
  BY <1>1, <1>2, <1>3, <1>4

LEMMA SampleBoundsStep ==
  ASSUME TypeOK, TypeOK', Cursors, Buffers, InUse, SampleBounds, [Next]_vars
  PROVE  SampleBounds'
<1>0. /\ file \in [Tasks -> Fds] /\ file' \in [Tasks -> Fds]
      /\ cursor \in [Fds -> Nat] /\ cursor' \in [Fds -> Nat]
      /\ start \in [Fds -> Nat]
      /\ delivered \in [Fds -> Seq(Nat)] /\ kbuf \in [Tasks -> Seq(Nat)]
      /\ head \in Nat
  BY BoundAssumption DEF TypeOK
<1>1. CASE Quiet
  <2>1. /\ UNCHANGED <<start, cursor, delivered, kbuf>>
        /\ \A t \in Tasks : kbuf[t] # <<>> => file'[t] = file[t]
    BY <1>1, BufferedFile DEF Quiet, ring, given
  <2> QED
    BY <2>1, EmptyList DEF SampleBounds
<1>2. CASE CollectorPush
  BY <1>2 DEF CollectorPush, Ring!Publish, SampleBounds, call, given
<1>3. ASSUME NEW t \in Tasks, NEW f \in Fds, Open(t, f)
      PROVE  SampleBounds'
  <2>1. /\ start' = [start EXCEPT ![f] = head]
        /\ cursor' = [cursor EXCEPT ![f] = head]
        /\ delivered' = [delivered EXCEPT ![f] = <<>>]
        /\ kbuf' = kbuf
    BY <1>3 DEF Open, Ring!Attach, Forget
  <2>2. \A u \in Tasks : kbuf[u] # <<>> => file'[u] = file[u] /\ file[u] # f
    BY <1>3, BufferedFile
  <2>3. ASSUME NEW g \in Fds
        PROVE  Within(delivered'[g], start'[g], cursor'[g])
    BY <1>0, <2>1, EmptyList DEF SampleBounds
  <2>4. ASSUME NEW u \in Tasks
        PROVE  Within(kbuf'[u], start'[file'[u]], cursor'[file'[u]])
    BY <1>0, <2>1, <2>2, EmptyList DEF SampleBounds
  <2> QED
    BY <2>3, <2>4 DEF SampleBounds
<1>4. ASSUME NEW t \in Tasks, Consume(t)
      PROVE  SampleBounds'
  <2>1. PICK r \in Nat, n \in Nat : Takes(t, r, n)
    BY <1>4, ConsumeTakes
  <2>2. /\ cursor' = [cursor EXCEPT ![file[t]] = r + n]
        /\ kbuf' = [kbuf EXCEPT ![t] = [i \in 1..n |-> r + i]]
        /\ [i \in 1..n |-> r + i] \in Seq(Nat)
        /\ Len([i \in 1..n |-> r + i]) = n
        /\ cursor[file[t]] <= r
    BY <2>1, Zenon DEF Takes
  <2>3. file' = file /\ start' = start /\ delivered' = delivered
    BY <1>4 DEF Consume, Ring!Consume, given
  <2>4. \A g \in Fds : start[g] <= cursor[g] /\ cursor[g] <= cursor'[g]
    BY <1>0, <2>2 DEF Cursors
  <2>5. \A g \in Fds, s \in Seq(Nat) :
          Within(s, start[g], cursor[g]) => Within(s, start[g], cursor'[g])
    <3>1. \A s \in Seq(Nat) : \A i \in 1..Len(s) : s[i] \in Nat
      BY ElementOfSeq
    <3> QED
      BY <1>0, <2>4, <3>1 DEF Within
  <2>6. Within(kbuf'[t], start[file[t]], cursor'[file[t]])
    <3>1. kbuf'[t] = [i \in 1..n |-> r + i] /\ cursor'[file[t]] = r + n
      BY <1>0, <2>2
    <3>2. Within(kbuf'[t], r, r + n)
      BY <2>2, <3>1, RunList
    <3>3. start[file[t]] <= r /\ start[file[t]] \in Nat
      BY <1>0, <2>2, <2>4
    <3>4. \A i \in 1..Len(kbuf'[t]) : kbuf'[t][i] \in Nat
      BY <2>2, <3>1, ElementOfSeq
    <3> QED
      BY <3>1, <3>2, <3>3, <3>4 DEF Within
  <2>7. ASSUME NEW u \in Tasks
        PROVE  Within(kbuf'[u], start[file[u]], cursor'[file[u]])
    BY <1>0, <2>2, <2>5, <2>6 DEF SampleBounds
  <2> QED
    BY <1>0, <2>3, <2>5, <2>7 DEF SampleBounds
<1>5. ASSUME NEW t \in Tasks, CopyToUser(t)
      PROVE  SampleBounds'
  <2>1. /\ delivered' = [delivered EXCEPT ![file[t]] = @ \o kbuf[t]]
        /\ kbuf' = [kbuf EXCEPT ![t] = <<>>]
        /\ UNCHANGED <<start, cursor, file>>
    BY <1>5 DEF CopyToUser, ring
  <2>2. Within(delivered[file[t]] \o kbuf[t], start[file[t]],
                cursor[file[t]])
    BY <1>0, ConcatLists DEF SampleBounds
  <2> QED
    BY <1>0, <2>1, <2>2, EmptyList DEF SampleBounds
<1>6. ASSUME NEW t \in Tasks, CopyFaults(t)
      PROVE  SampleBounds'
  <2>1. /\ kbuf' = [kbuf EXCEPT ![t] = <<>>]
        /\ UNCHANGED <<start, cursor, file, delivered>>
    BY <1>6 DEF CopyFaults, ring
  <2> QED
    BY <1>0, <2>1, EmptyList DEF SampleBounds
<1>7. ASSUME NEW f \in Fds, Release(f)
      PROVE  SampleBounds'
  <2>1. /\ start' = [start EXCEPT ![f] = 0]
        /\ cursor' = [cursor EXCEPT ![f] = 0]
        /\ delivered' = [delivered EXCEPT ![f] = <<>>]
        /\ UNCHANGED <<kbuf, file>>
    BY <1>7 DEF Release, Ring!Detach, Forget, call
  <2>2. \A u \in Tasks : kbuf[u] # <<>> => file[u] # f
    BY <1>7, BufferedFile
  <2> QED
    BY <1>0, <2>1, <2>2, EmptyList DEF SampleBounds
<1> QED
  BY <1>1, <1>2, <1>3, <1>4, <1>5, <1>6, <1>7, DataSteps

(* A list that ends where another starts. *)
LEMMA ListsApart ==
  ASSUME NEW s \in Seq(Nat), NEW q \in Seq(Nat),
         NEW a \in Nat, NEW b \in Nat, NEW c \in Nat, NEW d \in Nat,
         Within(s, a, b), Within(q, c, d), b <= c
  PROVE  Apart(s, q) /\ Apart(q, s) /\ Before(s, q)
<1>1. /\ \A i \in 1..Len(s) : s[i] \in Nat
      /\ \A i \in 1..Len(q) : q[i] \in Nat
  BY ElementOfSeq
<1>2. \A i \in 1..Len(s), j \in 1..Len(q) : s[i] <= b /\ c < q[j]
  BY DEF Within
<1>3. \A i \in 1..Len(s), j \in 1..Len(q) : s[i] < q[j] /\ s[i] # q[j]
  BY <1>1, <1>2
<1> QED
  BY <1>3 DEF Apart, Before

LEMMA OnceStep ==
  ASSUME TypeOK, TypeOK', Cursors, Buffers, InUse, SampleBounds, Once,
         [Next]_vars
  PROVE  Once'
<1>0. /\ file \in [Tasks -> Fds] /\ file' \in [Tasks -> Fds]
      /\ cursor \in [Fds -> Nat] /\ start \in [Fds -> Nat]
      /\ delivered \in [Fds -> Seq(Nat)] /\ kbuf \in [Tasks -> Seq(Nat)]
  BY DEF TypeOK
<1>1. CASE Quiet
  <2>1. /\ UNCHANGED <<delivered, kbuf>>
        /\ \A t \in Tasks : kbuf[t] # <<>> => file'[t] = file[t]
    BY <1>1, BufferedFile DEF Quiet, given
  <2>2. \A t \in Tasks : Apart(kbuf[t], delivered[file'[t]])
    BY <1>0, <2>1, EmptyList DEF Once
  <2>3. \A t, u \in Tasks : t # u /\ file'[t] = file'[u]
                              => Apart(kbuf[t], kbuf[u])
    BY <1>0, <2>1, EmptyList DEF Once
  <2> QED
    BY <2>1, <2>2, <2>3 DEF Once
<1>2. CASE CollectorPush
  BY <1>2 DEF CollectorPush, Once, call, given
<1>3. ASSUME NEW t \in Tasks, NEW f \in Fds, Open(t, f)
      PROVE  Once'
  <2>1. /\ delivered' = [delivered EXCEPT ![f] = <<>>]
        /\ kbuf' = kbuf
    BY <1>3 DEF Open, Forget
  <2>2. \A u \in Tasks : kbuf[u] # <<>> => file'[u] = file[u] /\ file[u] # f
    BY <1>3, BufferedFile
  <2>3. \A u \in Tasks : Apart(kbuf[u], delivered'[file'[u]])
    BY <1>0, <2>1, <2>2, EmptyList DEF Once
  <2>4. \A u, v \in Tasks : u # v /\ file'[u] = file'[v]
                              => Apart(kbuf[u], kbuf[v])
    BY <1>0, <2>2, EmptyList DEF Once
  <2> QED
    BY <1>0, <2>1, <2>3, <2>4, EmptyList DEF Once
<1>4. ASSUME NEW t \in Tasks, Consume(t)
      PROVE  Once'
  <2>1. PICK r \in Nat, n \in Nat : Takes(t, r, n)
    BY <1>4, ConsumeTakes
  <2> DEFINE s == [i \in 1..n |-> r + i]
  <2>2. /\ kbuf' = [kbuf EXCEPT ![t] = s]
        /\ s \in Seq(Nat) /\ Len(s) = n
        /\ cursor[file[t]] <= r
    BY <2>1, Zenon DEF Takes
  <2>3. file' = file /\ delivered' = delivered
    BY <1>4 DEF Consume, given
  <2>4. Within(s, r, r + n) /\ Distinct(s)
    BY <2>2, RunList
  <2> HIDE DEF s
  <2>5. Apart(s, delivered[file[t]])
    BY <1>0, <2>2, <2>4, ListsApart DEF SampleBounds
  <2>6. \A u \in Tasks : file[u] = file[t] =>
          Apart(s, kbuf[u]) /\ Apart(kbuf[u], s)
    <3> SUFFICES ASSUME NEW u \in Tasks, file[u] = file[t]
                 PROVE  Apart(s, kbuf[u]) /\ Apart(kbuf[u], s)
      OBVIOUS
    <3>1. Within(kbuf[u], start[file[t]], cursor[file[t]])
      BY DEF SampleBounds
    <3>2. /\ start[file[t]] \in Nat /\ cursor[file[t]] \in Nat
          /\ r + n \in Nat /\ kbuf[u] \in Seq(Nat)
      BY <1>0
    <3> QED
      BY <2>2, <2>4, <3>1, <3>2, ListsApart
  <2>7. \A u \in Tasks : Distinct(kbuf'[u])
                           /\ Apart(kbuf'[u], delivered[file[u]])
    BY <1>0, <2>2, <2>4, <2>5 DEF Once
  <2>8. \A u, v \in Tasks : u # v /\ file[u] = file[v]
                              => Apart(kbuf'[u], kbuf'[v])
    BY <1>0, <2>2, <2>6 DEF Once
  <2> QED
    BY <2>3, <2>7, <2>8 DEF Once
<1>5. ASSUME NEW t \in Tasks, CopyToUser(t)
      PROVE  Once'
  <2>1. /\ delivered' = [delivered EXCEPT ![file[t]] = @ \o kbuf[t]]
        /\ kbuf' = [kbuf EXCEPT ![t] = <<>>]
        /\ file' = file
    BY <1>5 DEF CopyToUser
  <2>2. Distinct(delivered[file[t]] \o kbuf[t])
    BY <1>0, ConcatLists DEF Once
  <2>3. \A u \in Tasks : u # t /\ file[u] = file[t] =>
          Apart(kbuf[u], delivered[file[t]] \o kbuf[t])
    BY <1>0, ConcatLists DEF Once
  <2>4. delivered[file[t]] \o kbuf[t] \in Seq(Nat)
    BY <1>0, ConcatProperties
  <2>5. \A f \in Fds : Distinct(delivered'[f])
    BY <1>0, <2>1, <2>2 DEF Once
  <2>6. \A u \in Tasks : Distinct(kbuf'[u])
                           /\ Apart(kbuf'[u], delivered'[file[u]])
    BY <1>0, <2>1, <2>3, <2>4, EmptyList DEF Once
  <2>7. \A u, v \in Tasks : u # v /\ file[u] = file[v]
                              => Apart(kbuf'[u], kbuf'[v])
    BY <1>0, <2>1, EmptyList DEF Once
  <2> QED
    BY <2>1, <2>5, <2>6, <2>7 DEF Once
<1>6. ASSUME NEW t \in Tasks, CopyFaults(t)
      PROVE  Once'
  <2>1. /\ kbuf' = [kbuf EXCEPT ![t] = <<>>]
        /\ file' = file /\ delivered' = delivered
    BY <1>6 DEF CopyFaults
  <2>2. \A u \in Tasks : Distinct(kbuf'[u])
                           /\ Apart(kbuf'[u], delivered[file[u]])
    BY <1>0, <2>1, EmptyList DEF Once
  <2>3. \A u, v \in Tasks : u # v /\ file[u] = file[v]
                              => Apart(kbuf'[u], kbuf'[v])
    BY <1>0, <2>1, EmptyList DEF Once
  <2> QED
    BY <2>1, <2>2, <2>3 DEF Once
<1>7. ASSUME NEW f \in Fds, Release(f)
      PROVE  Once'
  <2>1. /\ delivered' = [delivered EXCEPT ![f] = <<>>]
        /\ kbuf' = kbuf /\ file' = file
    BY <1>7 DEF Release, Forget, call
  <2>2. \A u \in Tasks : Apart(kbuf[u], delivered'[file[u]])
    BY <1>0, <2>1, EmptyList DEF Once
  <2> QED
    BY <1>0, <2>1, <2>2, EmptyList DEF Once
<1> QED
  BY <1>1, <1>2, <1>3, <1>4, <1>5, <1>6, <1>7, DataSteps

LEMMA LossExplainedStep ==
  ASSUME TypeOK, TypeOK', Cursors, Buffers, InUse, LossExplained, [Next]_vars
  PROVE  LossExplained'
<1>0. /\ file \in [Tasks -> Fds] /\ file' \in [Tasks -> Fds]
      /\ cursor \in [Fds -> Nat] /\ start \in [Fds -> Nat]
      /\ delivered \in [Fds -> Seq(Nat)] /\ kbuf \in [Tasks -> Seq(Nat)]
      /\ faulted \in [Fds -> SUBSET Nat]
      /\ head \in Nat /\ Size \in Nat
  BY BoundAssumption, SizePositive DEF TypeOK
<1>e. \A t \in Tasks : \A k \in Range(kbuf[t]) : kbuf[t] # <<>>
  BY EmptyList
<1>1. CASE Quiet
  <2>1. /\ UNCHANGED <<head, opened, start, cursor, delivered, faulted, kbuf>>
        /\ \A t \in Tasks : kbuf[t] # <<>> => file'[t] = file[t]
    BY <1>1, BufferedFile DEF Quiet, ring, given
  <2> QED
    BY <1>e, <2>1 DEF LossExplained
<1>2. CASE CollectorPush
  <2>1. /\ head' = head + 1
        /\ UNCHANGED <<opened, start, cursor, delivered, faulted, kbuf, file>>
    BY <1>2 DEF CollectorPush, Ring!Publish, call, given
  <2> QED
    BY <1>0, <2>1 DEF LossExplained
<1>3. ASSUME NEW t \in Tasks, NEW f \in Fds, Open(t, f)
      PROVE  LossExplained'
  <2>1. /\ start' = [start EXCEPT ![f] = head]
        /\ cursor' = [cursor EXCEPT ![f] = head]
        /\ delivered' = [delivered EXCEPT ![f] = <<>>]
        /\ faulted' = [faulted EXCEPT ![f] = {}]
        /\ opened' = opened \cup {f}
        /\ head' = head /\ kbuf' = kbuf
    BY <1>3 DEF Open, Ring!Attach, Forget
  <2>2. \A u \in Tasks : kbuf[u] # <<>> => file'[u] = file[u]
    BY <1>3, BufferedFile
  <2>3. ASSUME NEW g \in opened', g # f, NEW k \in start'[g] + 1 .. cursor'[g]
        PROVE  \/ k <= head - Size
               \/ k \in Range(delivered'[g]) \cup faulted'[g]
               \/ \E u \in Tasks : file'[u] = g /\ k \in Range(kbuf[u])
    <3>1. g \in opened /\ g \in Fds
      BY <2>1, <2>3 DEF TypeOK
    <3>2. /\ start'[g] = start[g] /\ cursor'[g] = cursor[g]
          /\ delivered'[g] = delivered[g] /\ faulted'[g] = faulted[g]
      BY <1>0, <2>1, <2>3, <3>1
    <3>3. \/ k <= head - Size
          \/ k \in Range(delivered[g]) \cup faulted[g]
          \/ \E u \in Tasks : file[u] = g /\ k \in Range(kbuf[u])
      BY <2>3, <3>1, <3>2 DEF LossExplained
    <3> QED
      BY <1>e, <2>2, <3>2, <3>3
  <2>4. start'[f] + 1 .. cursor'[f] = {}
    BY <1>0, <2>1
  <2> QED
    BY <2>1, <2>3, <2>4 DEF LossExplained
<1>4. ASSUME NEW t \in Tasks, Consume(t)
      PROVE  LossExplained'
  <2>1. PICK r \in Nat, n \in Nat : Takes(t, r, n)
    BY <1>4, ConsumeTakes
  <2> DEFINE s == [i \in 1..n |-> r + i]
  <2>2. /\ kbuf' = [kbuf EXCEPT ![t] = s]
        /\ cursor' = [cursor EXCEPT ![file[t]] = r + n]
        /\ s \in Seq(Nat) /\ Len(s) = n
        /\ cursor[file[t]] <= r
        /\ cursor[file[t]] < r => r <= head - Size
    BY <2>1, Zenon DEF Takes
  <2>3. \A k \in Nat : r < k /\ k <= r + n => k \in Range(s)
    BY <2>2, RunList
  <2> HIDE DEF s
  <2>4. UNCHANGED <<head, opened, start, delivered, faulted, file>>
    BY <1>4 DEF Consume, Ring!Consume, given
  <2>5. kbuf[t] = <<>>
    BY <1>4 DEF Consume, Buffers
  <2>6. \A u \in Tasks : \A k \in Range(kbuf[u]) : k \in Range(kbuf'[u])
    BY <1>0, <1>e, <2>2, <2>5
  <2> SUFFICES ASSUME NEW g \in opened, NEW k \in start[g] + 1 .. cursor'[g]
               PROVE  \/ k <= head - Size
                      \/ k \in Range(delivered[g]) \cup faulted[g]
                      \/ \E u \in Tasks : file[u] = g /\ k \in Range(kbuf'[u])
    BY <2>4 DEF LossExplained
  <2>7. g \in Fds
    BY DEF TypeOK
  <2>8. CASE k <= cursor[g]
    <3>1. k \in start[g] + 1 .. cursor[g]
      BY <1>0, <2>7, <2>8
    <3> QED
      BY <2>6, <3>1 DEF LossExplained
  <2>9. CASE k > cursor[g]
    <3>1. g = file[t] /\ k <= r + n /\ k \in Nat
      BY <1>0, <2>2, <2>7, <2>9
    <3>2. CASE k <= r
      BY <1>0, <2>2, <2>7, <2>9, <3>1, <3>2
    <3>3. CASE r < k
      <4>1. kbuf'[t] = s
        BY <1>0, <2>2
      <4> QED
        BY <2>3, <3>1, <3>3, <4>1
    <3> QED
      BY <3>1, <3>2, <3>3
  <2> QED
    BY <1>0, <2>7, <2>8, <2>9
<1>5. ASSUME NEW t \in Tasks, CopyToUser(t) \/ CopyFaults(t)
      PROVE  LossExplained'
  <2>1. /\ kbuf' = [kbuf EXCEPT ![t] = <<>>]
        /\ UNCHANGED <<head, opened, start, cursor, file>>
        /\ \/ /\ delivered' = [delivered EXCEPT ![file[t]] = @ \o kbuf[t]]
              /\ faulted' = faulted
           \/ /\ faulted' = [faulted EXCEPT ![file[t]] = @ \cup Range(kbuf[t])]
              /\ delivered' = delivered
    BY <1>5 DEF CopyToUser, CopyFaults, ring
  <2>2. Range(delivered[file[t]] \o kbuf[t])
          = Range(delivered[file[t]]) \cup Range(kbuf[t])
    BY <1>0, ConcatLists
  <2>3. \A f \in Fds : Range(delivered[f]) \subseteq Range(delivered'[f])
                         /\ faulted[f] \subseteq faulted'[f]
    <3>1. CASE /\ delivered' = [delivered EXCEPT ![file[t]] = @ \o kbuf[t]]
               /\ faulted' = faulted
      BY <1>0, <2>2, <3>1
    <3>2. CASE /\ faulted' = [faulted EXCEPT
                                ![file[t]] = @ \cup Range(kbuf[t])]
               /\ delivered' = delivered
      BY <1>0, <3>2
    <3> QED
      BY <2>1, <3>1, <3>2
  <2>4. Range(kbuf[t])
          \subseteq Range(delivered'[file[t]]) \cup faulted'[file[t]]
    <3>1. CASE delivered' = [delivered EXCEPT ![file[t]] = @ \o kbuf[t]]
      BY <1>0, <2>2, <3>1
    <3>2. CASE faulted' = [faulted EXCEPT
                             ![file[t]] = @ \cup Range(kbuf[t])]
      BY <1>0, <3>2
    <3> QED
      BY <2>1, <3>1, <3>2
  <2>5. \A u \in Tasks : u # t => kbuf'[u] = kbuf[u]
    BY <1>0, <2>1
  <2>6. opened \subseteq Fds
    BY DEF TypeOK
  <2> SUFFICES ASSUME NEW g \in opened, NEW k \in start[g] + 1 .. cursor[g]
               PROVE  \/ k <= head - Size
                      \/ k \in Range(delivered'[g]) \cup faulted'[g]
                      \/ \E u \in Tasks : file[u] = g /\ k \in Range(kbuf'[u])
    BY <2>1 DEF LossExplained
  <2>7. \/ k <= head - Size
        \/ k \in Range(delivered[g]) \cup faulted[g]
        \/ \E u \in Tasks : file[u] = g /\ k \in Range(kbuf[u])
    BY DEF LossExplained
  <2> QED
    BY <2>3, <2>4, <2>5, <2>6, <2>7
<1>6. ASSUME NEW f \in Fds, Release(f)
      PROVE  LossExplained'
  <2>1. /\ start' = [start EXCEPT ![f] = 0]
        /\ cursor' = [cursor EXCEPT ![f] = 0]
        /\ delivered' = [delivered EXCEPT ![f] = <<>>]
        /\ faulted' = [faulted EXCEPT ![f] = {}]
        /\ opened' = opened \ {f}
        /\ UNCHANGED <<head, kbuf, file>>
    BY <1>6 DEF Release, Ring!Detach, Forget, call
  <2>2. \A g \in opened' :
          /\ g \in opened
          /\ start'[g] = start[g] /\ cursor'[g] = cursor[g]
          /\ delivered'[g] = delivered[g] /\ faulted'[g] = faulted[g]
    BY <1>0, <2>1 DEF TypeOK
  <2> QED
    BY <2>1, <2>2 DEF LossExplained
<1> QED
  BY <1>1, <1>2, <1>3, <1>4, <1>5, <1>6, DataSteps

(* The histories of a file are empty before its open() and after its       *)
(* release().                                                              *)
Forgotten == \A f \in Fds \ opened : delivered[f] = <<>> /\ faulted[f] = {}

LEMMA ForgottenStep ==
  ASSUME TypeOK, InUse, Forgotten, [Next]_vars
  PROVE  Forgotten'
<1> USE DEF TypeOK, Forgotten
<1>1. CASE Quiet
  BY <1>1 DEF Quiet, ring, given
<1>2. CASE CollectorPush
  BY <1>2 DEF CollectorPush, Ring!Publish, given
<1>3. ASSUME NEW t \in Tasks, NEW f \in Fds, Open(t, f)
      PROVE  Forgotten'
  BY <1>3 DEF Open, Ring!Attach, Forget
<1>4. ASSUME NEW t \in Tasks, Consume(t)
      PROVE  Forgotten'
  BY <1>4 DEF Consume, Ring!Consume, given
<1>5. ASSUME NEW t \in Tasks, CopyToUser(t) \/ CopyFaults(t)
      PROVE  Forgotten'
  BY <1>5 DEF CopyToUser, CopyFaults, ring, InUse
<1>6. ASSUME NEW f \in Fds, Release(f)
      PROVE  Forgotten'
  BY <1>6 DEF Release, Ring!Detach, Forget
<1> QED
  BY <1>1, <1>2, <1>3, <1>4, <1>5, <1>6, DataSteps

SampleInv == SampleBounds /\ Once /\ LossExplained /\ Forgotten

LEMMA SampleInvariant == Spec => []SampleInv
<1>1. Init => SampleInv
  <2> SUFFICES ASSUME Init PROVE SampleInv
    OBVIOUS
  <2>1. /\ \A f \in Fds : delivered[f] = <<>>
        /\ \A f \in Fds : faulted[f] = {}
        /\ \A t \in Tasks : kbuf[t] = <<>>
        /\ opened = {}
    BY DEF Init, Ring!Init
  <2>2. \A t \in Tasks : file[t] \in Fds
    BY InitType DEF TypeOK
  <2>3. \A t \in Tasks, f \in Fds : Apart(kbuf[t], delivered[f])
    BY <2>1, EmptyList
  <2>4. \A t, u \in Tasks : Apart(kbuf[t], kbuf[u])
    BY <2>1, EmptyList
  <2> QED
    BY <2>1, <2>2, <2>3, <2>4, EmptyList
       DEF SampleInv, SampleBounds, Once, LossExplained, Forgotten
<1>2. SharedInv /\ SharedInv' /\ SampleInv /\ [Next]_vars => SampleInv'
  BY SampleBoundsStep, OnceStep, LossExplainedStep, ForgottenStep
     DEF SharedInv, SampleInv
<1> QED
  BY <1>1, <1>2, SharedInvariant, PTL DEF Spec

(* No sample of a file is handed to user space twice, whichever threads    *)
(* read it and however their reads overlap.                                *)
THEOREM HandedOutOnce == Spec => []AtMostOnce
<1>1. SharedInv /\ SampleInv => AtMostOnce
  BY DEF SharedInv, TypeOK, SampleInv, Once, Distinct, AtMostOnce
<1> QED
  BY <1>1, SharedInvariant, SampleInvariant, PTL

(* Only an overrun and -EFAULT lose samples: every other sample a cursor   *)
(* has passed is in user space or in the buffer of a read.                 *)
THEOREM LossesExplained == Spec => []LossExplained
BY SampleInvariant, PTL DEF SampleInv

-----------------------------------------------------------------------------
(* What needs every file to have one thread.                               *)

InRead(t) == pc[t] \in {"nonblock", "check", "prepare", "recheck",
                        "interrupted", "asleep", "consume"}

(* The file a thread found readable stays so until that thread consumes.   *)
(* A call is made through a descriptor of the thread's own, which nobody   *)
(* else closes.                                                            *)
Readable ==
  \A t \in Tasks :
    /\ file[t] \in Owner[t]
    /\ pc[t] # "user" => file[t] \in linked
    /\ InRead(t) => room[t] > 0
    /\ pc[t] = "consume" => Available(file[t])
    /\ pc[t] = "user" /\ ret[t] = "POLLIN"
         => file[t] \in linked /\ Available(file[t])

(* A read that has consumed holds a sample. *)
Filled ==
  \A t \in Tasks :
    /\ pc[t] = "copyout" => kbuf[t] # <<>>
    /\ ret[t] # "empty"

(* A file delivered older samples than its reader holds. *)
Ordered ==
  /\ \A f \in Fds : Rising(delivered[f])
  /\ \A t \in Tasks : Rising(kbuf[t]) /\ Before(delivered[file[t]], kbuf[t])

LEMMA ReadableStep ==
  ASSUME Private, TypeOK, TypeOK', Cursors, InUse, Readable, [Next]_vars
  PROVE  Readable'
<1>0. /\ head \in Nat /\ head' \in Nat
      /\ cursor \in [Fds -> Nat] /\ cursor' \in [Fds -> Nat]
      /\ pc \in [Tasks -> {"user", "nonblock", "check", "prepare",
                           "recheck", "interrupted", "asleep", "consume",
                           "copyout", "pollcheck", "pollsleep",
                           "polltimeout"}]
      /\ file \in [Tasks -> Fds] /\ room \in [Tasks -> Nat]
      /\ ret \in [Tasks -> {"none", "data", "empty", "POLLIN", "error"}]
      /\ opened \subseteq Fds /\ linked \subseteq opened
  BY BoundAssumption, SizePositive DEF TypeOK
<1>p. \A t, u \in Tasks : t # u => Owner[t] \cap Owner[u] = {}
  BY DEF Private
<1> USE <1>0 DEF Readable, InRead, Available, ring, call, wq, given, Goto, Return
<1>1. CASE CollectorPush
  BY <1>1 DEF CollectorPush, Ring!Publish
<1>2. CASE CollectorWake
  BY <1>2 DEF CollectorWake
<1>3. ASSUME NEW t \in Tasks, NEW f \in Fds, Open(t, f)
      PROVE  Readable'
  <2>1. /\ f \notin opened /\ pc[t] = "user" /\ f \in Owner[t]
        /\ cursor' = [cursor EXCEPT ![f] = head]
        /\ file' = [file EXCEPT ![t] = f]
        /\ ret' = [ret EXCEPT ![t] = "none"]
        /\ linked' = linked \cup {f}
        /\ UNCHANGED <<head, pc, room>>
    BY <1>3 DEF Open, Ring!Attach
  <2>2. f \notin linked
    BY <2>1
  <2> QED
    BY <2>1, <2>2
<1>4. ASSUME NEW t \in Tasks, NEW f \in Fds, Close(t, f)
      PROVE  Readable'
  BY <1>4, <1>p DEF Close
<1>5. ASSUME NEW t \in Tasks, NEW f \in Fds, Poll(t, f)
      PROVE  Readable'
  BY <1>5 DEF Poll
<1>6. ASSUME NEW t \in Tasks, NEW f \in Fds, NEW count \in Counts,
             Read(t, f, count)
      PROVE  Readable'
  <2>1. MaxSamples(count) \in Nat /\ MaxSamples(count) > 0
    BY <1>6, SizePositive, CountsAssumption, LesserBounds DEF MaxSamples, Read
  <2> QED
    BY <1>6, <2>1 DEF Read
<1>7. ASSUME NEW t \in Tasks, Refused(t) \/ Signal(t)
      PROVE  Readable'
  BY <1>7 DEF Refused, Signal
<1>8. ASSUME NEW t \in Tasks,
             \/ ReadNonblock(t) \/ WaitFirstCheck(t) \/ WaitPrepare(t)
             \/ WaitRecheck(t) \/ WaitWakes(t) \/ AllocFails(t)
      PROVE  Readable'
  BY <1>8
     DEF ReadNonblock, WaitFirstCheck, WaitPrepare, WaitRecheck, WaitWakes,
         AllocFails, Moves, Fails
<1>9. ASSUME NEW t \in Tasks,
             \/ PollCheck(t) \/ PollWakes(t) \/ PollTimeout(t)
      PROVE  Readable'
  BY <1>9 DEF PollCheck, PollReturn, PollWakes, PollTimeout, PollSleepEnds
<1>10. ASSUME NEW t \in Tasks, Consume(t)
       PROVE  Readable'
  <2>1. /\ pc[t] = "consume"
        /\ pc' = [pc EXCEPT ![t] = "copyout"]
        /\ UNCHANGED <<head, linked, file, room, ret>>
    BY <1>10 DEF Consume, Ring!Consume
  <2>2. PICK r \in Nat, n \in Nat : Takes(t, r, n)
    BY <1>10, ConsumeTakes
  <2>3. cursor' = [cursor EXCEPT ![file[t]] = r + n]
    BY <2>2, Zenon DEF Takes
  <2>4. \A u \in Tasks : u # t => file[u] # file[t]
    BY <1>p
  <2>5. \A u \in Tasks : u # t => cursor'[file[u]] = cursor[file[u]]
    BY <2>3, <2>4
  <2> QED
    BY <2>1, <2>5
<1>11. ASSUME NEW t \in Tasks, CopyToUser(t) \/ CopyFaults(t)
       PROVE  Readable'
  BY <1>11 DEF CopyToUser, CopyFaults
<1>12. ASSUME NEW f \in Fds, Release(f)
       PROVE  Readable'
  BY <1>12 DEF Release, Ring!Detach, InCall
<1>13. CASE UNCHANGED vars
  BY <1>13 DEF vars
<1> QED
  BY <1>1, <1>2, <1>3, <1>4, <1>5, <1>6, <1>7, <1>8, <1>9, <1>10, <1>11,
     <1>12, <1>13
     DEF Next, Collector, UserStep, KernelStep, OpenFails, ReadShort

LEMMA ConsumeHasData ==
  ASSUME TypeOK, Cursors, Readable, NEW t \in Tasks, Consume(t)
  PROVE  kbuf'[t] # <<>>
<1>1. PICK r \in Nat, n \in Nat : Takes(t, r, n)
  BY ConsumeTakes
<1>2. pc[t] = "consume" /\ room[t] > 0 /\ head > cursor[file[t]]
  BY DEF Consume, Readable, InRead, Available
<1>3. /\ head \in Nat /\ file[t] \in Fds /\ cursor[file[t]] \in Nat
      /\ Size \in Nat \ {0}
  BY BoundAssumption, SizeAssumption DEF TypeOK
<1>4. /\ cursor[file[t]] <= r
      /\ cursor[file[t]] < r => r <= head - Size
      /\ r < head /\ room[t] > 0 => n > 0
  BY <1>1, Zenon DEF Takes
<1>5. r < head
  BY <1>2, <1>3, <1>4
<1>6. n > 0
  BY <1>2, <1>4, <1>5
<1>7. Len(kbuf'[t]) = n
  <2>1. /\ kbuf' = [kbuf EXCEPT ![t] = [i \in 1..n |-> r + i]]
        /\ Len([i \in 1..n |-> r + i]) = n
    BY <1>1, Zenon DEF Takes
  <2> QED
    BY <2>1 DEF TypeOK
<1> QED
  BY <1>6, <1>7

LEMMA FilledStep ==
  ASSUME TypeOK, Cursors, Readable, Filled, [Next]_vars
  PROVE  Filled'
<1> USE DEF TypeOK, Filled, ring, call, wq, given, Goto, Return
<1>1. CASE Collector
  BY <1>1 DEF Collector, CollectorPush, CollectorWake
<1>2. ASSUME NEW t \in Tasks, NEW f \in Fds,
             \/ Open(t, f) \/ Close(t, f) \/ Poll(t, f)
             \/ \E count \in Counts : Read(t, f, count)
      PROVE  Filled'
  BY <1>2 DEF Open, Close, Poll, Read
<1>3. ASSUME NEW t \in Tasks, Refused(t) \/ Signal(t)
      PROVE  Filled'
  BY <1>3 DEF Refused, Signal
<1>4. ASSUME NEW t \in Tasks,
             \/ ReadNonblock(t) \/ WaitFirstCheck(t) \/ WaitPrepare(t)
             \/ WaitRecheck(t) \/ WaitWakes(t) \/ AllocFails(t)
      PROVE  Filled'
  BY <1>4
     DEF ReadNonblock, WaitFirstCheck, WaitPrepare, WaitRecheck, WaitWakes,
         AllocFails, Moves, Fails
<1>5. ASSUME NEW t \in Tasks,
             \/ PollCheck(t) \/ PollWakes(t) \/ PollTimeout(t)
      PROVE  Filled'
  BY <1>5 DEF PollCheck, PollReturn, PollWakes, PollTimeout, PollSleepEnds
<1>6. ASSUME NEW t \in Tasks, Consume(t)
      PROVE  Filled'
  <2>1. kbuf'[t] # <<>>
    BY <1>6, ConsumeHasData
  <2>2. /\ pc' = [pc EXCEPT ![t] = "copyout"] /\ ret' = ret
        /\ \A u \in Tasks : u # t => kbuf'[u] = kbuf[u]
    BY <1>6 DEF Consume
  <2> QED
    BY <2>1, <2>2
<1>7. ASSUME NEW t \in Tasks, CopyToUser(t) \/ CopyFaults(t)
      PROVE  Filled'
  BY <1>7 DEF CopyToUser, CopyFaults
<1>8. ASSUME NEW f \in Fds, Release(f)
      PROVE  Filled'
  BY <1>8 DEF Release
<1>9. CASE UNCHANGED vars
  BY <1>9 DEF vars
<1> QED
  BY <1>1, <1>2, <1>3, <1>4, <1>5, <1>6, <1>7, <1>8, <1>9
     DEF Next, UserStep, KernelStep, OpenFails, ReadShort

LEMMA OrderedStep ==
  ASSUME Private, TypeOK, TypeOK', Cursors, Buffers, InUse, SampleBounds,
         Readable, Ordered, [Next]_vars
  PROVE  Ordered'
<1>0. /\ file \in [Tasks -> Fds] /\ file' \in [Tasks -> Fds]
      /\ cursor \in [Fds -> Nat] /\ start \in [Fds -> Nat]
      /\ delivered \in [Fds -> Seq(Nat)] /\ kbuf \in [Tasks -> Seq(Nat)]
  BY DEF TypeOK
<1>p. \A t, u \in Tasks : t # u => file[t] # file[u]
  BY DEF Private, Readable
<1>1. CASE Quiet
  <2>1. /\ UNCHANGED <<delivered, kbuf>>
        /\ \A t \in Tasks : kbuf[t] # <<>> => file'[t] = file[t]
    BY <1>1, BufferedFile DEF Quiet, given
  <2>2. \A t \in Tasks : Before(delivered[file'[t]], kbuf[t])
    BY <1>0, <2>1, EmptyList DEF Ordered
  <2> QED
    BY <2>1, <2>2 DEF Ordered
<1>2. CASE CollectorPush
  BY <1>2 DEF CollectorPush, Ordered, call, given
<1>3. ASSUME NEW t \in Tasks, NEW f \in Fds, Open(t, f)
      PROVE  Ordered'
  <2>1. /\ delivered' = [delivered EXCEPT ![f] = <<>>]
        /\ kbuf' = kbuf
    BY <1>3 DEF Open, Forget
  <2>2. \A u \in Tasks : kbuf[u] # <<>> => file'[u] = file[u] /\ file[u] # f
    BY <1>3, BufferedFile
  <2>3. \A u \in Tasks : Before(delivered'[file'[u]], kbuf[u])
    BY <1>0, <2>1, <2>2, EmptyList DEF Ordered
  <2> QED
    BY <1>0, <2>1, <2>3, EmptyList DEF Ordered
<1>4. ASSUME NEW t \in Tasks, Consume(t)
      PROVE  Ordered'
  <2>1. PICK r \in Nat, n \in Nat : Takes(t, r, n)
    BY <1>4, ConsumeTakes
  <2> DEFINE s == [i \in 1..n |-> r + i]
  <2>2. /\ kbuf' = [kbuf EXCEPT ![t] = s]
        /\ s \in Seq(Nat) /\ Len(s) = n
        /\ cursor[file[t]] <= r
    BY <2>1, Zenon DEF Takes
  <2>3. file' = file /\ delivered' = delivered
    BY <1>4 DEF Consume, given
  <2>4. Within(s, r, r + n) /\ Rising(s)
    BY <2>2, RunList
  <2> HIDE DEF s
  <2>5. Before(delivered[file[t]], s)
    BY <1>0, <2>2, <2>4, ListsApart DEF SampleBounds
  <2> QED
    BY <1>0, <2>2, <2>3, <2>4, <2>5 DEF Ordered
<1>5. ASSUME NEW t \in Tasks, CopyToUser(t)
      PROVE  Ordered'
  <2>1. /\ delivered' = [delivered EXCEPT ![file[t]] = @ \o kbuf[t]]
        /\ kbuf' = [kbuf EXCEPT ![t] = <<>>]
        /\ file' = file
    BY <1>5 DEF CopyToUser
  <2>2. Rising(delivered[file[t]] \o kbuf[t])
    BY <1>0, ConcatLists DEF Ordered
  <2>3. delivered[file[t]] \o kbuf[t] \in Seq(Nat)
    BY <1>0, ConcatProperties
  <2>4. \A u \in Tasks : u # t => delivered'[file[u]] = delivered[file[u]]
    BY <1>0, <1>p, <2>1
  <2>5. \A u \in Tasks : Rising(kbuf'[u])
                           /\ Before(delivered'[file[u]], kbuf'[u])
    BY <1>0, <2>1, <2>3, <2>4, EmptyList DEF Ordered
  <2> QED
    BY <1>0, <2>1, <2>2, <2>5 DEF Ordered
<1>6. ASSUME NEW t \in Tasks, CopyFaults(t)
      PROVE  Ordered'
  <2>1. /\ kbuf' = [kbuf EXCEPT ![t] = <<>>]
        /\ file' = file /\ delivered' = delivered
    BY <1>6 DEF CopyFaults
  <2> QED
    BY <1>0, <2>1, EmptyList DEF Ordered
<1>7. ASSUME NEW f \in Fds, Release(f)
      PROVE  Ordered'
  <2>1. /\ delivered' = [delivered EXCEPT ![f] = <<>>]
        /\ kbuf' = kbuf /\ file' = file
    BY <1>7 DEF Release, Forget, call
  <2> QED
    BY <1>0, <2>1, EmptyList DEF Ordered
<1> QED
  BY <1>1, <1>2, <1>3, <1>4, <1>5, <1>6, <1>7, DataSteps

PrivateInv == Readable /\ Filled /\ Ordered

LEMMA PrivateInvariant ==
  ASSUME Private
  PROVE  Spec => []PrivateInv
<1>1. Init => PrivateInv
  <2> SUFFICES ASSUME Init PROVE PrivateInv
    OBVIOUS
  <2>1. /\ \A f \in Fds : delivered[f] = <<>>
        /\ \A t \in Tasks : /\ kbuf[t] = <<>> /\ pc[t] = "user"
                            /\ ret[t] = "none"
    BY DEF Init
  <2>2. \A t \in Tasks : file[t] \in Owner[t]
    <3>1. \A t \in Tasks : \E f : f \in Owner[t]
      BY OwnerAssumption
    <3>2. \A t \in Tasks : (CHOOSE f \in Owner[t] : TRUE) \in Owner[t]
      BY <3>1, Zenon
    <3> QED
      BY <3>2, Zenon DEF Init
  <2>3. \A t \in Tasks : file[t] \in Fds
    BY InitType DEF TypeOK
  <2> QED
    BY <2>1, <2>2, <2>3, EmptyList
       DEF PrivateInv, Readable, Filled, Ordered, InRead
<1>2. SharedInv /\ SharedInv' /\ SampleInv /\ PrivateInv /\ [Next]_vars
        => PrivateInv'
  <2> SUFFICES ASSUME SharedInv, SharedInv', SampleInv, PrivateInv,
                      [Next]_vars
               PROVE  PrivateInv'
    OBVIOUS
  <2>1. Readable'
    BY ReadableStep DEF SharedInv, PrivateInv
  <2>2. Filled'
    BY FilledStep DEF SharedInv, PrivateInv
  <2>3. Ordered'
    BY OrderedStep DEF SharedInv, SampleInv, PrivateInv
  <2> QED
    BY <2>1, <2>2, <2>3 DEF PrivateInv
<1> QED
  BY <1>1, <1>2, SharedInvariant, SampleInvariant, PTL DEF Spec

(* A thread that has its file to itself never gets 0 bytes from read():    *)
(* what its wait saw is still there, in part at least, when it consumes.   *)
THEOREM ReadsGetData ==
  ASSUME Private
  PROVE  Spec => []ReadNeverEmpty
<1>1. PrivateInv => ReadNeverEmpty
  BY DEF PrivateInv, Filled, ReadNeverEmpty
<1> QED
  BY <1>1, PrivateInvariant, PTL

(* POLLIN stays true until the thread that was told reads.                 *)
THEOREM PollinStays ==
  ASSUME Private
  PROVE  Spec => []PollinMeansReadable
<1>1. PrivateInv => PollinMeansReadable
  BY DEF PrivateInv, Readable, PollinMeansReadable
<1> QED
  BY <1>1, PrivateInvariant, PTL

(* A file's reads return an increasing run of the samples pushed since its *)
(* open(), through errors, faults and overruns.                            *)
THEOREM ReadsInOrder ==
  ASSUME Private
  PROVE  Spec => []DeliveredInOrder
<1>1. SharedInv /\ SampleInv /\ PrivateInv => DeliveredInOrder
  BY DEF SharedInv, TypeOK, SampleInv, SampleBounds, Within, PrivateInv,
         Ordered, Rising, DeliveredInOrder
<1> QED
  BY <1>1, SharedInvariant, SampleInvariant, PrivateInvariant, PTL

-----------------------------------------------------------------------------
(* GpuTelem implements Device.  Each step is matched with the step of      *)
(* Device it is, or with none.                                             *)

(* Where Device sees the threads. *)
At == [t \in Tasks |-> CASE pc[t] = "user" -> "user"
                         [] Polls(t) -> "poll"
                         [] pc[t] = "copyout" -> "took"
                         [] OTHER -> "read"]

(* What Device sees of a thread that goes to a label. *)
Place(label) ==
  CASE label = "user" -> "user"
    [] label \in {"pollcheck", "pollsleep", "polltimeout"} -> "poll"
    [] label = "copyout" -> "took"
    [] OTHER -> "read"

LEMMA AtPlace == \A t \in Tasks : At[t] = Place(pc[t])
BY DEF At, Place, Polls

LEMMA GotoPlace ==
  ASSUME TypeOK, NEW t \in Tasks, NEW label, Goto(t, label)
  PROVE  At' = [At EXCEPT ![t] = Place(label)]
<1>1. /\ At \in [Tasks -> {"user", "poll", "took", "read"}]
      /\ At' \in [Tasks -> {"user", "poll", "took", "read"}]
  BY DEF At
<1>2. \A u \in Tasks : At'[u] = IF u = t THEN Place(label) ELSE At[u]
  BY DEF TypeOK, At, Place, Polls, Goto
<1>3. Place(label) \in {"user", "poll", "took", "read"}
  BY DEF Place
<1> QED
  BY <1>1, <1>2, <1>3

(* A step inside a call that Device does not see. *)
LEMMA GotoSamePlace ==
  ASSUME TypeOK, NEW t \in Tasks, NEW label,
         Goto(t, label), Place(label) = Place(pc[t])
  PROVE  At' = At
<1>1. At' = [At EXCEPT ![t] = At[t]]
  BY AtPlace, GotoPlace
<1> QED
  BY <1>1 DEF At

LEMMA InitDevice == Init => Dev!Init
<1> SUFFICES ASSUME Init PROVE Dev!Init
  OBVIOUS
<1>1. file \in [Tasks -> Fds]
  BY InitType DEF TypeOK
<1>2. At = [t \in Tasks |-> "user"]
  BY DEF At, Polls, Init
<1> QED
  BY <1>1, <1>2 DEF Init, Ring!Init, Dev!Init, At

LEMMA StepDevice ==
  ASSUME Private, TypeOK, Cursors, InUse, Buffers, Forgotten, Readable,
         Filled, [Next]_vars
  PROVE  [Dev!Next]_(Dev!vars)
<1> USE DEF Dev!vars, Dev!calls, Dev!files, Dev!given,
            ring, call, wq, given, Return
<1>0. /\ file \in [Tasks -> Fds]
      /\ At \in [Tasks -> {"user", "poll", "took", "read"}]
  <2>1. file \in [Tasks -> Fds]
    BY DEF TypeOK
  <2>2. \A t \in Tasks : Place(pc[t]) \in {"user", "poll", "took", "read"}
    BY DEF Place
  <2>3. At \in [Tasks -> {"user", "poll", "took", "read"}]
    BY <2>2, AtPlace DEF At
  <2> QED
    BY <2>1, <2>3
<1>a. \A t \in Tasks : At[t] = Place(pc[t])
  BY AtPlace
<1>b. \A t \in Tasks :
        /\ pc[t] = "user" => At[t] = "user"
        /\ pc[t] \in {"pollcheck", "pollsleep", "polltimeout"} => At[t] = "poll"
        /\ pc[t] = "copyout" <=> At[t] = "took"
        /\ pc[t] = "consume" => At[t] = "read"
  BY <1>a DEF Place
<1>c. ASSUME NEW t \in Tasks, NEW label, Goto(t, label)
      PROVE  At' = [At EXCEPT ![t] = Place(label)]
  BY <1>0, <1>c, GotoPlace
<1>d. ASSUME pc' = pc
      PROVE  At' = At
  BY <1>d DEF At, Polls
<1>s. ASSUME At' = At,
             UNCHANGED <<head, cursor, opened, linked, file, kbuf, ret,
                         delivered, faulted>>
      PROVE  UNCHANGED Dev!vars
  BY <1>s DEF At
<1>1. CASE CollectorPush
  <2>1. Dev!Push
    BY <1>1, <1>d DEF CollectorPush, Ring!Publish, Dev!Push, At
  <2> QED
    BY <2>1 DEF Dev!Next
<1>2. CASE CollectorWake
  BY <1>2, <1>d, <1>s DEF CollectorWake
<1>3. ASSUME NEW t \in Tasks, NEW f \in Fds, Open(t, f)
      PROVE  Dev!Next
  <2>1. delivered' = delivered /\ faulted' = faulted
    BY <1>3 DEF Open, Ring!Attach, Forget, Forgotten, TypeOK
  <2>2. Dev!Opens(t, f)
    BY <1>3, <1>b, <1>d, <2>1 DEF Open, Ring!Attach, Dev!Opens, At
  <2> QED
    BY <2>2 DEF Dev!Next
<1>4. ASSUME NEW t \in Tasks, NEW f \in Fds, Close(t, f)
      PROVE  Dev!Next
  <2>1. Dev!Closes(t, f)
    BY <1>4, <1>b, <1>d DEF Close, Dev!Closes, At
  <2> QED
    BY <2>1 DEF Dev!Next
<1>5. ASSUME NEW t \in Tasks, NEW f \in Fds,
             Poll(t, f) \/ \E count \in Counts : Read(t, f, count)
      PROVE  Dev!Next
  <2>1. \E what \in {"read", "poll"} : At' = [At EXCEPT ![t] = what]
    BY <1>5, <1>c DEF Poll, Read, Place
  <2>2. Dev!Calls(t, f)
    BY <1>5, <1>b, <2>1 DEF Poll, Read, Dev!Calls, At
  <2> QED
    BY <2>2 DEF Dev!Next
(* The calls that end with an errno. *)
<1>6. ASSUME NEW t \in Tasks, pc[t] # "copyout",
             At' = [At EXCEPT ![t] = "user"],
             ret' = [ret EXCEPT ![t] = "error"],
             UNCHANGED <<head, cursor, opened, linked, file, kbuf,
                         delivered, faulted>>
      PROVE  Dev!Next
  <2>1. Dev!Errs(t)
    BY <1>6, <1>b DEF Dev!Errs, Dev!Ends, At
  <2> QED
    BY <2>1 DEF Dev!Next
<1>7. ASSUME NEW t \in Tasks, Refused(t)
      PROVE  Dev!Next
  <2>1. At' = [At EXCEPT ![t] = "user"]
    BY <1>0, <1>7, <1>b, <1>d DEF Refused
  <2> QED
    BY <1>6, <1>7, <2>1 DEF Refused
<1>8. ASSUME NEW t \in Tasks, Signal(t)
      PROVE  UNCHANGED Dev!vars
  BY <1>8, <1>d, <1>s DEF Signal
<1>9. ASSUME NEW t \in Tasks, NEW from, Fails(t, from), from # "copyout"
      PROVE  Dev!Next
  <2>1. At' = [At EXCEPT ![t] = "user"]
    BY <1>9, <1>c DEF Fails, Place
  <2> QED
    BY <1>6, <1>9, <2>1 DEF Fails
<1>10. ASSUME NEW t \in Tasks, NEW from, NEW to, Moves(t, from, to),
              Place(from) = Place(to)
       PROVE  UNCHANGED Dev!vars
  <2>1. At' = At
    BY <1>0, <1>10, GotoSamePlace DEF Moves
  <2> QED
    BY <1>10, <1>s, <2>1 DEF Moves
<1>11. ASSUME NEW t \in Tasks, WaitPrepare(t)
       PROVE  UNCHANGED Dev!vars
  <2>1. At' = At
    BY <1>0, <1>11, GotoSamePlace DEF WaitPrepare, Place
  <2> QED
    BY <1>11, <1>s, <2>1 DEF WaitPrepare
<1>12. ASSUME NEW t \in Tasks, WaitRecheck(t)
       PROVE  Dev!Next \/ UNCHANGED Dev!vars
  <2>1. CASE Return(t, "error")
    <3>1. At' = [At EXCEPT ![t] = "user"]
      BY <1>c, <2>1 DEF Place
    <3> QED
      BY <1>6, <1>12, <2>1, <3>1 DEF WaitRecheck
  <2>2. CASE (Goto(t, "consume") \/ Goto(t, "asleep")) /\ ret' = ret
    <3>1. At' = At
      BY <1>0, <1>12, <2>2, GotoSamePlace DEF WaitRecheck, Place
    <3> QED
      BY <1>12, <1>s, <2>2, <3>1 DEF WaitRecheck
  <2> QED
    BY <1>12, <2>1, <2>2 DEF WaitRecheck
<1>13. ASSUME NEW t \in Tasks, Consume(t)
       PROVE  Dev!Next
  <2>1. PICK r \in Nat, n \in Nat : Takes(t, r, n)
    BY <1>13, ConsumeTakes
  <2> DEFINE s == [i \in 1..n |-> r + i]
  <2>2. /\ kbuf' = [kbuf EXCEPT ![t] = s]
        /\ cursor' = [cursor EXCEPT ![file[t]] = r + n]
        /\ Len(s) = n
        /\ r = Ring!Resume(file[t])
        /\ r + n <= head
    BY <2>1, Zenon DEF Takes
  <2>3. r = IF cursor[file[t]] < head - Size THEN head - Size
                                             ELSE cursor[file[t]]
    BY <1>0, <2>2, ResumeBounds
  <2>4. n \in 1..head - r
    <3>1. kbuf'[t] = s
      BY <2>2 DEF TypeOK
    <3>2. kbuf'[t] # <<>>
      BY <1>13, ConsumeHasData
    <3>3. n # 0
      BY <3>1, <3>2
    <3> QED
      BY <2>2, <3>3, BoundAssumption DEF TypeOK
  <2>5. At' = [At EXCEPT ![t] = "took"] /\ At[t] = "read"
    BY <1>13, <1>b, <1>c DEF Consume, Place
  <2>6. UNCHANGED <<head, file, opened, linked, ret, delivered, faulted>>
    BY <1>13 DEF Consume, Ring!Consume
  <2>7. Dev!Takes(t)
    BY <2>2, <2>3, <2>4, <2>5, <2>6 DEF Dev!Takes, At
  <2> QED
    BY <2>7 DEF Dev!Next
<1>14. ASSUME NEW t \in Tasks, CopyToUser(t)
       PROVE  Dev!Next
  <2>1. /\ At[t] = "took"
        /\ At' = [At EXCEPT ![t] = "user"]
    BY <1>14, <1>b, <1>c DEF CopyToUser, Place
  <2>2. kbuf[t] # <<>>
    BY <1>14 DEF CopyToUser, Filled
  <2>3. Dev!Gives(t)
    BY <1>14, <2>1, <2>2 DEF CopyToUser, Dev!Gives, Dev!Ends, At
  <2> QED
    BY <2>3 DEF Dev!Next
<1>15. ASSUME NEW t \in Tasks, CopyFaults(t)
       PROVE  Dev!Next
  <2>1. /\ At[t] = "took"
        /\ At' = [At EXCEPT ![t] = "user"]
    BY <1>15, <1>b, <1>c DEF CopyFaults, Place
  <2>2. Dev!Gives(t)
    BY <1>15, <2>1 DEF CopyFaults, Dev!Gives, Dev!Ends, At, Dev!Range, Range
  <2> QED
    BY <2>2 DEF Dev!Next
<1>16. ASSUME NEW t \in Tasks, PollCheck(t)
       PROVE  Dev!Next \/ UNCHANGED Dev!vars
  <2>1. CASE PollReturn(t, "error")
    <3>1. At' = [At EXCEPT ![t] = "user"]
      BY <1>c, <2>1 DEF PollReturn, Place
    <3> QED
      BY <1>6, <1>16, <2>1, <3>1 DEF PollCheck, PollReturn
  <2>2. CASE \/ PollReturn(t, "none")
             \/ Available(file[t]) /\ PollReturn(t, "POLLIN")
    <3>1. At' = [At EXCEPT ![t] = "user"] /\ At[t] = "poll"
      BY <1>16, <1>b, <1>c, <2>2 DEF PollCheck, PollReturn, Place
    <3>2. Dev!PollEnds(t)
      BY <1>16, <2>2, <3>1
         DEF PollCheck, PollReturn, Available, Dev!PollEnds, Dev!Ends, At
    <3> QED
      BY <3>2 DEF Dev!Next
  <2>3. CASE Goto(t, "pollsleep") /\ ret' = ret
    <3>1. At' = At
      BY <1>0, <1>16, <2>3, GotoSamePlace DEF PollCheck, Place
    <3> QED
      BY <1>16, <1>s, <2>3, <3>1 DEF PollCheck
  <2> QED
    BY <1>16, <2>1, <2>2, <2>3 DEF PollCheck
<1>17. ASSUME NEW t \in Tasks, NEW label \in {"pollcheck", "polltimeout"},
              PollSleepEnds(t, label)
       PROVE  UNCHANGED Dev!vars
  <2>1. At' = At
    BY <1>0, <1>17, GotoSamePlace DEF PollSleepEnds, Place
  <2> QED
    BY <1>17, <1>s, <2>1 DEF PollSleepEnds
<1>18. ASSUME NEW f \in Fds, Release(f)
       PROVE  Dev!Next
  <2>1. \A t \in Tasks : At[t] # "user" => file[t] # f
    BY <1>18, <1>b DEF Release, InCall
  <2>2. Dev!Vanishes(f)
    BY <1>18, <1>d, <2>1 DEF Release, Ring!Detach, Forget, Dev!Vanishes, At
  <2> QED
    BY <2>2 DEF Dev!Next
<1>19. CASE UNCHANGED vars
  BY <1>19, <1>d, <1>s DEF vars
<1>20. ASSUME NEW t \in Tasks,
              \/ ReadNonblock(t) \/ WaitFirstCheck(t) \/ WaitWakes(t)
              \/ AllocFails(t)
       PROVE  Dev!Next \/ UNCHANGED Dev!vars
  BY <1>9, <1>10, <1>20
     DEF ReadNonblock, WaitFirstCheck, WaitWakes, AllocFails, Place
<1> QED
  BY <1>1, <1>2, <1>3, <1>4, <1>5, <1>7, <1>8, <1>11, <1>12, <1>13, <1>14,
     <1>15, <1>16, <1>17, <1>18, <1>19, <1>20
     DEF Next, Collector, UserStep, KernelStep, OpenFails, ReadShort,
         PollWakes, PollTimeout

(* Threads with files of their own cannot tell /dev/gpu_telem from the     *)
(* abstract device, whose calls take effect at one moment.                 *)
THEOREM DeviceImplemented ==
  ASSUME Private
  PROVE  Spec => ImplementsDevice
<1>1. /\ SharedInv /\ SharedInv' /\ SampleInv /\ PrivateInv /\ [Next]_vars
      => [Dev!Next]_(Dev!vars)
  BY StepDevice DEF SharedInv, SampleInv, PrivateInv
<1> QED
  BY <1>1, InitDevice, SharedInvariant, SampleInvariant, PrivateInvariant,
     PTL DEF Spec, ImplementsDevice, Dev!Spec
=============================================================================
