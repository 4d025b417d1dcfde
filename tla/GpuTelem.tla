------------------------------ MODULE GpuTelem ------------------------------
(***************************************************************************)
(* /dev/gpu_telem (kernel/gpu_telem_core.c): the collector thread pushes   *)
(* samples and wakes the wait queue; tasks open the device, block in       *)
(* read() or poll() until their descriptor has data, and close it.         *)
(*                                                                         *)
(* The ring is TelemStream, which RingBuf is shown to implement: a push    *)
(* and a ring_consume() are one step each.  The steps between them are     *)
(* those of wait_event_interruptible() and of the poll() system call, so   *)
(* that a check of the ring and the sleep it decides on are apart.         *)
(***************************************************************************)
EXTENDS Integers, Sequences, Functions

CONSTANTS
  Size,     \* gdev.ring.size
  Tasks,    \* user threads
  Fds,      \* open files of the device, each with its reader_ctx
  Owner,    \* Owner[t]: the files thread t uses
  Counts,   \* whole samples the buffer given to read() has room for
  MaxHead   \* bound: samples the collector pushes in a behaviour

ASSUME SizeAssumption == Size \in Nat \ {0}
ASSUME OwnerAssumption == Owner \in [Tasks -> (SUBSET Fds) \ {{}}]
ASSUME CountsAssumption == Counts \subseteq Nat
ASSUME BoundAssumption == MaxHead \in Nat

VARIABLES
  head, opened, start, cursor, received, dropped,  \* the ring: TelemStream
  linked,     \* files a descriptor still refers to: close() not called
  cpc,        \* where the collector is in its loop
  pc,         \* pc[t]: where t is in a system call, or "user"
  file,       \* file[t]: the file of t's current or last call
  room,       \* room[t]: max_samples of t's read()
  kbuf,       \* kbuf[t]: the samples ring_consume() left in kbuf
  ret,        \* ret[t]: what t's last call returned; "error" for every errno
  waiting,    \* threads with an entry on gdev.wq
  triggered,  \* poll(): threads whose entry was woken (pwq->triggered)
  signal,     \* threads with a signal pending
  delivered,  \* history: delivered[f]: what reads of f returned to user space
  faulted     \* history: faulted[f]: samples in a read that returned -EFAULT

ring == <<head, opened, start, cursor, received, dropped>>
call == <<file, room, kbuf>>
wq == <<waiting, triggered>>
given == <<delivered, faulted>>
vars == <<ring, linked, cpc, pc, call, ret, wq, signal, given>>

Ring == INSTANCE TelemStream

(* ring_data_available(): a lockless read of head_seq. *)
Available(f) == head > cursor[f]

Lesser(a, b) == IF a < b THEN a ELSE b

Init ==
  /\ Ring!Init
  /\ linked = {}
  /\ cpc = "push"
  /\ pc = [t \in Tasks |-> "user"]
  /\ file = [t \in Tasks |-> CHOOSE f \in Owner[t] : TRUE]
  /\ room = [t \in Tasks |-> 0]
  /\ kbuf = [t \in Tasks |-> <<>>]
  /\ ret = [t \in Tasks |-> "none"]
  /\ waiting = {}
  /\ triggered = {}
  /\ signal = {}
  /\ delivered = [f \in Fds |-> <<>>]
  /\ faulted = [f \in Fds |-> {}]

-----------------------------------------------------------------------------
(* collector_thread(): push, wake the queue, and sleep until the next push. *)

CollectorPush ==
  /\ cpc = "push"
  /\ head < MaxHead
  /\ Ring!Publish
  /\ cpc' = "wake"
  /\ UNCHANGED <<linked, pc, call, ret, wq, signal, given>>

Polls(t) == pc[t] \in {"pollcheck", "pollsleep", "polltimeout"}

(* A faulty variant: only one of the waiting threads is woken. *)
CollectorWakeOne ==
  /\ cpc = "wake"
  /\ cpc' = "push"
  /\ \/ waiting = {} /\ UNCHANGED wq
     \/ \E t \in waiting :
          /\ waiting' = IF Polls(t) THEN waiting ELSE waiting \ {t}
          /\ triggered' = IF Polls(t) THEN triggered \cup {t} ELSE triggered
  /\ UNCHANGED <<ring, linked, pc, call, ret, signal, given>>

(* Every entry is woken: read()'s removes itself from the queue, poll()'s  *)
(* stays on it and is marked.                                              *)
CollectorWake ==
  /\ cpc = "wake"
  /\ waiting' = {t \in waiting : Polls(t)}
  /\ triggered' = waiting'
  /\ cpc' = "push"
  /\ UNCHANGED <<ring, linked, pc, call, ret, signal, given>>

Collector == CollectorPush \/ CollectorWake

-----------------------------------------------------------------------------
(* System calls.  A call ends with data, an event, an error or nothing to  *)
(* tell; a signal that is pending then is handled on the way back to user  *)
(* space.                                                                  *)

Goto(t, label) == pc' = [pc EXCEPT ![t] = label]

Return(t, value) ==
  /\ Goto(t, "user")
  /\ ret' = [ret EXCEPT ![t] = value]
  /\ signal' = signal \ {t}

(* The thread moves on inside its call, or ends it with an errno. *)
Moves(t, from, to) ==
  /\ pc[t] = from
  /\ Goto(t, to)
  /\ UNCHANGED <<ring, linked, cpc, call, ret, wq, signal, given>>

Fails(t, from) ==
  /\ pc[t] = from
  /\ Return(t, "error")
  /\ UNCHANGED <<ring, linked, cpc, call, wq, given>>

(* A call that is refused before it does anything. *)
Refused(t) ==
  /\ pc[t] = "user"
  /\ ret' = [ret EXCEPT ![t] = "error"]
  /\ UNCHANGED <<ring, linked, cpc, pc, call, wq, signal, given>>

(* The histories of a file start and end with it. *)
Forget(f) ==
  /\ delivered' = [delivered EXCEPT ![f] = <<>>]
  /\ faulted' = [faulted EXCEPT ![f] = {}]

InCall(f) == \E t \in Tasks : pc[t] # "user" /\ file[t] = f

Open(t, f) ==
  /\ pc[t] = "user"
  /\ f \in Owner[t]
  /\ Ring!Attach(f)
  /\ linked' = linked \cup {f}
  /\ Forget(f)
  /\ file' = [file EXCEPT ![t] = f]
  /\ ret' = [ret EXCEPT ![t] = "none"]
  /\ UNCHANGED <<cpc, pc, room, kbuf, wq, signal>>

(* kzalloc() of the reader_ctx fails, -ENOMEM: the file is not opened. *)
OpenFails(t, f) == f \in Owner[t] \ opened /\ Refused(t)

(* close() drops the descriptor; the file lives on while a call uses it.   *)
Close(t, f) ==
  /\ pc[t] = "user"
  /\ f \in Owner[t] \cap linked
  /\ linked' = linked \ {f}
  /\ ret' = [ret EXCEPT ![t] = "none"]
  /\ UNCHANGED <<ring, cpc, pc, call, wq, signal, given>>

(* A faulty variant: the reader_ctx is freed by close(), calls or not. *)
ReleaseAtClose(f) ==
  /\ f \notin linked
  /\ Ring!Detach(f)
  /\ Forget(f)
  /\ UNCHANGED <<linked, cpc, pc, call, ret, wq, signal>>

(* gpu_telem_release(), at the last reference to the file. *)
Release(f) ==
  /\ f \notin linked
  /\ ~InCall(f)
  /\ Ring!Detach(f)
  /\ Forget(f)
  /\ UNCHANGED <<linked, cpc, pc, call, ret, wq, signal>>

-----------------------------------------------------------------------------
(* gpu_telem_read() *)

(* No room for one sample: -EINVAL. *)
ReadShort(t) == 0 \in Counts /\ Owner[t] \cap linked # {} /\ Refused(t)

(* A faulty variant: max_samples is not capped by the ring size. *)
MaxSamplesUncapped(count) == count

(* count / sizeof(struct gpu_sample), at most the ring. *)
MaxSamples(count) == Lesser(count, Size)

Read(t, f, count) ==
  /\ pc[t] = "user"
  /\ f \in Owner[t] \cap linked
  /\ count > 0
  /\ file' = [file EXCEPT ![t] = f]
  /\ room' = [room EXCEPT ![t] = MaxSamples(count)]
  /\ ret' = [ret EXCEPT ![t] = "none"]
  /\ Goto(t, "nonblock") \/ Goto(t, "check")
  /\ UNCHANGED <<ring, linked, cpc, kbuf, wq, signal, given>>

(* O_NONBLOCK: one check, and -EAGAIN when there is nothing. *)
ReadNonblock(t) ==
  IF Available(file[t]) THEN Moves(t, "nonblock", "consume")
                        ELSE Fails(t, "nonblock")

(* wait_event_interruptible() tests the condition before it queues. *)
WaitFirstCheck(t) ==
  Moves(t, "check", IF Available(file[t]) THEN "consume" ELSE "prepare")

(* A faulty variant: the thread sleeps without a second check. *)
WaitPrepareBlind(t) ==
  /\ pc[t] = "prepare"
  /\ IF t \in signal
       THEN waiting' = waiting \ {t} /\ Goto(t, "interrupted")
       ELSE waiting' = waiting \cup {t} /\ Goto(t, "asleep")
  /\ UNCHANGED <<ring, linked, cpc, call, ret, triggered, signal, given>>

(* prepare_to_wait_event(): queue the thread and mark it sleeping, or note *)
(* the pending signal.                                                     *)
WaitPrepare(t) ==
  /\ pc[t] = "prepare"
  /\ IF t \in signal
       THEN waiting' = waiting \ {t} /\ Goto(t, "interrupted")
       ELSE waiting' = waiting \cup {t} /\ Goto(t, "recheck")
  /\ UNCHANGED <<ring, linked, cpc, call, ret, triggered, signal, given>>

(* The condition is tested again once the thread is on the queue; it wins  *)
(* over a signal, which makes the call return -ERESTARTSYS.                *)
WaitRecheck(t) ==
  /\ pc[t] \in {"recheck", "interrupted"}
  /\ \/ /\ Available(file[t])
        /\ waiting' = waiting \ {t}
        /\ Goto(t, "consume")
        /\ UNCHANGED <<ret, signal>>
     \/ /\ ~Available(file[t])
        /\ pc[t] = "recheck"
        /\ Goto(t, "asleep")
        /\ UNCHANGED <<waiting, ret, signal>>
     \/ /\ ~Available(file[t])
        /\ pc[t] = "interrupted"
        /\ Return(t, "error")
        /\ UNCHANGED waiting
  /\ UNCHANGED <<ring, linked, cpc, call, triggered, given>>

(* A faulty variant: wait_event(), which no signal ends. *)
WaitWakesByEventOnly(t) == t \notin waiting /\ Moves(t, "asleep", "prepare")

(* schedule() returns when the entry was woken or a signal is pending. *)
WaitWakes(t) ==
  (t \notin waiting \/ t \in signal) /\ Moves(t, "asleep", "prepare")

(* A faulty variant: kbuf is allocated after the samples were taken. *)
AllocFailsLate(t) ==
  /\ pc[t] = "copyout"
  /\ kbuf' = [kbuf EXCEPT ![t] = <<>>]
  /\ Return(t, "error")
  /\ UNCHANGED <<ring, linked, cpc, file, room, wq, given>>

(* kmalloc_array() fails: -ENOMEM before anything is consumed. *)
AllocFails(t) == Fails(t, "consume")

(* kmalloc_array() and ring_consume(): the samples that are there now. *)
Consume(t) ==
  LET f == file[t]
      n == Lesser(head - Ring!Resume(f), room[t])
  IN
  /\ pc[t] = "consume"
  /\ Ring!Consume(f, n)
  /\ kbuf' = [kbuf EXCEPT ![t] = [i \in 1..n |-> Ring!Resume(f) + i]]
  /\ Goto(t, "copyout")
  /\ UNCHANGED <<linked, cpc, file, room, ret, wq, signal, given>>

CopyToUser(t) ==
  /\ pc[t] = "copyout"
  /\ delivered' = [delivered EXCEPT ![file[t]] = @ \o kbuf[t]]
  /\ kbuf' = [kbuf EXCEPT ![t] = <<>>]
  /\ Return(t, IF kbuf[t] = <<>> THEN "empty" ELSE "data")
  /\ UNCHANGED <<ring, linked, cpc, file, room, wq, faulted>>

(* A faulty variant: on a fault next_seq is moved back, without the lock. *)
CopyFaultsRewinds(t) ==
  /\ pc[t] = "copyout"
  /\ kbuf[t] # <<>>
  /\ cursor' = [cursor EXCEPT ![file[t]] = @ - Len(kbuf[t])]
  /\ kbuf' = [kbuf EXCEPT ![t] = <<>>]
  /\ Return(t, "error")
  /\ UNCHANGED <<head, opened, start, received, dropped,
                 linked, cpc, file, room, wq, given>>

(* copy_to_user() faults, -EFAULT: kbuf is freed, next_seq stays advanced. *)
CopyFaults(t) ==
  /\ pc[t] = "copyout"
  /\ kbuf[t] # <<>>
  /\ kbuf' = [kbuf EXCEPT ![t] = <<>>]
  /\ faulted' = [faulted EXCEPT ![file[t]] = @ \cup Range(kbuf[t])]
  /\ Return(t, "error")
  /\ UNCHANGED <<ring, linked, cpc, file, room, wq, delivered>>

-----------------------------------------------------------------------------
(* poll() on one file: the kernel's loop around gpu_telem_poll(). *)

(* poll_wait() queues the thread before anything is tested. *)
Poll(t, f) ==
  /\ pc[t] = "user"
  /\ f \in Owner[t] \cap linked
  /\ file' = [file EXCEPT ![t] = f]
  /\ ret' = [ret EXCEPT ![t] = "none"]
  /\ waiting' = waiting \cup {t}
  /\ triggered' = triggered \ {t}
  /\ Goto(t, "pollcheck")
  /\ UNCHANGED <<ring, linked, cpc, room, kbuf, signal, given>>

PollReturn(t, value) ==
  /\ Return(t, value)
  /\ waiting' = waiting \ {t}
  /\ triggered' = triggered \ {t}

(* gpu_telem_poll()'s test, and what the system call makes of it: an event *)
(* wins over a signal, a signal over the timeout.                          *)
PollCheck(t) ==
  /\ pc[t] \in {"pollcheck", "polltimeout"}
  /\ \/ Available(file[t]) /\ PollReturn(t, "POLLIN")
     \/ ~Available(file[t]) /\ t \in signal /\ PollReturn(t, "error")
     \/ /\ ~Available(file[t]) /\ t \notin signal
        /\ pc[t] = "polltimeout"
        /\ PollReturn(t, "none")
     \/ /\ ~Available(file[t]) /\ t \notin signal
        /\ pc[t] = "pollcheck"
        /\ Goto(t, "pollsleep")
        /\ UNCHANGED <<ret, wq, signal>>
  /\ UNCHANGED <<ring, linked, cpc, call, given>>

(* A faulty variant: whatever ends the sleep is reported as POLLIN. *)
PollWakesReady(t) ==
  /\ pc[t] = "pollsleep"
  /\ t \in triggered \/ t \in signal
  /\ PollReturn(t, "POLLIN")
  /\ UNCHANGED <<ring, linked, cpc, call, given>>

(* The sleep ends: pwq->triggered is reset before the test is repeated. *)
PollSleepEnds(t, label) ==
  /\ pc[t] = "pollsleep"
  /\ triggered' = triggered \ {t}
  /\ Goto(t, label)
  /\ UNCHANGED <<ring, linked, cpc, call, ret, waiting, signal, given>>

PollWakes(t) ==
  (t \in triggered \/ t \in signal) /\ PollSleepEnds(t, "pollcheck")

PollTimeout(t) == PollSleepEnds(t, "polltimeout")

-----------------------------------------------------------------------------
(* A signal wakes the thread, which looks at it where the code does. *)
Signal(t) ==
  /\ pc[t] # "user"
  /\ t \notin signal
  /\ signal' = signal \cup {t}
  /\ UNCHANGED <<ring, linked, cpc, pc, call, ret, wq, given>>

(* What t calls, or fails to call, is up to the program. *)
UserStep(t) ==
  \/ \E f \in Fds :
       \/ Open(t, f) \/ OpenFails(t, f) \/ Close(t, f) \/ Poll(t, f)
       \/ \E count \in Counts : Read(t, f, count)
  \/ ReadShort(t)
  \/ Signal(t)

(* What the kernel does for t once t is in a call. *)
KernelStep(t) ==
  \/ ReadNonblock(t) \/ WaitFirstCheck(t) \/ WaitPrepare(t) \/ WaitRecheck(t)
  \/ WaitWakes(t) \/ AllocFails(t) \/ Consume(t) \/ CopyToUser(t)
  \/ CopyFaults(t) \/ PollCheck(t) \/ PollWakes(t)

Next ==
  \/ Collector
  \/ \E t \in Tasks : UserStep(t) \/ KernelStep(t) \/ PollTimeout(t)
  \/ \E f \in Fds : Release(f)

Spec == Init /\ [][Next]_vars

(* The collector is scheduled, and a thread that can run inside the kernel *)
(* does; nothing is assumed of calls, signals or timeouts.                 *)
FairSpec ==
  /\ Spec
  /\ WF_vars(Collector)
  /\ \A t \in Tasks : WF_vars(KernelStep(t))

-----------------------------------------------------------------------------
(* No two threads use one file (gpu_telem.h:38 leaves the rest undefined). *)
Private == \A t, u \in Tasks : t # u => Owner[t] \cap Owner[u] = {}

TypeOK ==
  /\ head \in 0..MaxHead
  /\ opened \subseteq Fds /\ linked \subseteq opened
  /\ start \in [Fds -> Nat] /\ cursor \in [Fds -> Nat]
  /\ received \in [Fds -> Seq(Nat)] /\ delivered \in [Fds -> Seq(Nat)]
  /\ faulted \in [Fds -> SUBSET Nat]
  /\ dropped \in Nat
  /\ cpc \in {"push", "wake"}
  /\ pc \in [Tasks -> {"user", "nonblock", "check", "prepare", "recheck",
                       "interrupted", "asleep", "consume", "copyout",
                       "pollcheck", "pollsleep", "polltimeout"}]
  /\ file \in [Tasks -> Fds]
  /\ room \in [Tasks -> 0..Size]
  /\ kbuf \in [Tasks -> Seq(Nat)]
  /\ ret \in [Tasks -> {"none", "data", "empty", "POLLIN", "error"}]
  /\ waiting \subseteq Tasks /\ triggered \subseteq waiting
  /\ signal \subseteq Tasks

(* No wakeup is lost: a thread asleep in read() or poll() although its     *)
(* file has data is about to be woken, because the collector is between    *)
(* its push and its wake_up, or will be by a signal.  The window the       *)
(* comments at gpu_telem_core.c:320-322 and ringbuf.c:66-71 speak of.      *)
NoLostWakeup ==
  \A t \in Tasks :
    /\ pc[t] = "asleep" /\ t \in waiting /\ Available(file[t])
         => cpc = "wake"
    /\ pc[t] = "pollsleep" /\ t \notin triggered /\ Available(file[t])
         => cpc = "wake"

(* A call never runs on a file that gpu_telem_release() has freed, and a   *)
(* thread is on the queue only while it waits: release() leaves no entry   *)
(* of a dead file behind (gpu_telem_core.c:240-241).                       *)
NoUseAfterRelease ==
  \A t \in Tasks :
    /\ pc[t] # "user" => file[t] \in opened
    /\ t \in waiting => pc[t] \in {"prepare", "recheck", "asleep"} \/ Polls(t)

(* A read never returns 0 bytes, which both consumers take for the end of  *)
(* the stream (gpu_telem_reader.c:140, consumer.py:191): between the check *)
(* at gpu_telem_core.c:287-293 and ring_consume() at 302 the samples that  *)
(* were seen may be overwritten, but never all go away.                    *)
ReadNeverEmpty == \A t \in Tasks : ret[t] # "empty"

(* What a program sees of a call: it is before its samples were taken,     *)
(* after, or in poll(); the queue, the signals and the steps of the wait   *)
(* are hidden.                                                             *)
Dev == INSTANCE Device WITH
  at <- [t \in Tasks |->
           CASE pc[t] = "user" -> "user"
             [] Polls(t) -> "poll"
             [] pc[t] = "copyout" -> "took"
             [] OTHER -> "read"],
  taken <- kbuf,
  lost <- faulted

(* The device, with all the steps of its waits and copies, is the abstract *)
(* one: a read takes, at one moment, one sample or more, the next ones its *)
(* file is due, and hands over all of them or, on -EFAULT, none; a call    *)
(* that fails otherwise takes nothing; POLLIN is true when it is reported  *)
(* (gpu_telem_core.c:252-271 and 315-323).                                 *)
ImplementsDevice == Dev!Spec

(* After poll() has reported POLLIN the file stays readable until the      *)
(* thread reads it, so a program that polls first is not stuck in read().  *)
PollinMeansReadable ==
  \A t \in Tasks :
    pc[t] = "user" /\ ret[t] = "POLLIN" => Available(file[t])

(* User space is handed, per open file, an increasing run of samples       *)
(* pushed since the open() (gpu_telem_core.c:211-214): never one twice,    *)
(* never an older one, whatever errors and overruns happen in between.     *)
DeliveredInOrder ==
  \A f \in opened :
    /\ \A i \in 1..Len(delivered[f]) :
         start[f] < delivered[f][i] /\ delivered[f][i] <= cursor[f]
    /\ \A i, j \in 1..Len(delivered[f]) :
         i < j => delivered[f][i] < delivered[f][j]

(* No sample of a file is handed out twice, even to two threads that read  *)
(* the same file at once: ring_consume() advances next_seq under the lock. *)
AtMostOnce ==
  \A f \in opened : \A i, j \in 1..Len(delivered[f]) :
    i # j => delivered[f][i] # delivered[f][j]

(* A sample the cursor has passed was handed to user space, is on its way  *)
(* there, was overwritten before its slow reader came, or was in a read    *)
(* that returned -EFAULT: no other error path of gpu_telem_read() loses    *)
(* samples, whatever interrupts or fails between its steps.                *)
LossExplained ==
  \A f \in opened : \A k \in start[f] + 1 .. cursor[f] :
    \/ k <= head - Size
    \/ k \in Range(delivered[f]) \cup faulted[f]
    \/ \E t \in Tasks : file[t] = f /\ k \in Range(kbuf[t])

(* The promise of gpu_telem.h:33-34, every reader sees every sample, with  *)
(* the overrun policy as its only exception.                               *)
EverySampleSeen ==
  \A f \in opened : \A k \in start[f] + 1 .. cursor[f] :
    \/ k <= head - Size
    \/ k \in Range(delivered[f])
    \/ \E t \in Tasks : file[t] = f /\ k \in Range(kbuf[t])

(* A thread blocked in read() or poll() with more samples to come returns: *)
(* the next push wakes it, and no check it makes can miss the push.        *)
BlockedReturns ==
  \A t \in Tasks :
    pc[t] # "user" /\ cursor[file[t]] < MaxHead ~> pc[t] = "user"

(* A signal ends a blocked read() or poll(), even if no sample ever comes  *)
(* (Ctrl-C, gpu_telem_core.c:260-262).                                     *)
SignalEndsCall ==
  \A t \in Tasks : t \in signal ~> pc[t] = "user"
=============================================================================
