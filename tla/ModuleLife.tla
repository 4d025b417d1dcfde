----------------------------- MODULE ModuleLife -----------------------------
(***************************************************************************)
(* insmod and rmmod of gpu_telem (kernel/gpu_telem_core.c): gpu_telem_init *)
(* takes its resources one by one and unwinds when a step fails, the       *)
(* collector thread starts, runs and is stopped, gpu_telem_exit gives the  *)
(* resources back, and all the while user space may open /dev/gpu_telem.   *)
(* The module reference that every open file holds (fops.owner) is the     *)
(* kernel's; what a file reads is GpuTelem's business.                     *)
(***************************************************************************)
EXTENDS Integers, Sequences, FiniteSets

CONSTANTS
  Files,          \* open files of /dev/gpu_telem there can be
  CanFail,        \* the steps of gpu_telem_init() that may fail
  StopInterrupts  \* kthread_stop() ends an msleep_interruptible() (Linux 6.0 on)

Resources == {"ring", "region", "cdev", "class", "device"}

ASSUME FilesAssumption == IsFiniteSet(Files)
ASSUME CanFailAssumption == CanFail \subseteq Resources \cup {"thread"}
ASSUME StopAssumption == StopInterrupts \in BOOLEAN

VARIABLES
  mod,     \* the module: absent, in init, unwinding a failed init, live, in exit
  at,      \* the step init, the unwinding or exit is at
  held,    \* resources taken and not yet given back
  failed,  \* history: the step of the last insmod that failed, or "none"
  thread,  \* the collector thread
  stop,    \* kthread_should_stop()
  file,    \* file[f]: closed, opening, open, reading (blocked), or stale
  refs,    \* references that open files hold on the module
  unload,  \* history: the last rmmod: "none", "running" or "finished"
  asked    \* history: files blocked in read() since that rmmod was issued

fileVars == <<file, refs, asked>>
threadVars == <<thread, stop>>
vars == <<mod, at, held, failed, threadVars, fileVars, unload>>

Init ==
  /\ mod = "absent"
  /\ at = 0
  /\ held = {}
  /\ failed = "none"
  /\ thread = "none"
  /\ stop = FALSE
  /\ file = [f \in Files |-> "closed"]
  /\ refs = 0
  /\ unload = "none"
  /\ asked = {}

-----------------------------------------------------------------------------
(* What gpu_telem_init() takes, in order, and what the code after its      *)
(* labels gives back, in order; gpu_telem_exit() ends with the same list.  *)
InitOrder == <<"ring", "region", "cdev", "class", "device", "thread">>
CleanupOrder == <<"device", "class", "cdev", "region", "ring">>

(* A faulty variant: a failed device_create() jumps to err_device. *)
FailLabelTooEarly(step) ==
  CASE step = "thread" -> 1 [] step = "device" -> 1 [] step = "class" -> 3
    [] step = "cdev" -> 4 [] step = "region" -> 5 [] step = "ring" -> 6

(* The label a failing step jumps to, as a place in CleanupOrder:          *)
(* err_device, err_class, err_cdev, err_unregister, err_ring, or return.   *)
FailLabel(step) ==
  CASE step = "thread" -> 1 [] step = "device" -> 2 [] step = "class" -> 3
    [] step = "cdev" -> 4 [] step = "region" -> 5 [] step = "ring" -> 6

Insmod ==
  /\ mod = "absent"
  /\ mod' = "init"
  /\ at' = 1
  /\ failed' = "none"
  /\ unload' = "none"
  /\ asked' = {}
  /\ UNCHANGED <<held, threadVars, file, refs>>

InitTakes ==
  /\ mod = "init"
  /\ at <= Len(InitOrder) - 1
  /\ held' = held \cup {InitOrder[at]}
  /\ at' = at + 1
  /\ UNCHANGED <<mod, failed, threadVars, fileVars, unload>>

(* kthread_run(): the thread exists and may run from here on. *)
InitRunsThread ==
  /\ mod = "init"
  /\ at = Len(InitOrder)
  /\ thread' = "ready"
  /\ stop' = FALSE
  /\ at' = at + 1
  /\ UNCHANGED <<mod, held, failed, fileVars, unload>>

InitFails ==
  /\ mod = "init"
  /\ at <= Len(InitOrder)
  /\ InitOrder[at] \in CanFail
  /\ failed' = InitOrder[at]
  /\ mod' = "unwind"
  /\ at' = FailLabel(InitOrder[at])
  /\ UNCHANGED <<held, threadVars, fileVars, unload>>

InitReturns ==
  /\ mod = "init"
  /\ at > Len(InitOrder)
  /\ mod' = "live"
  /\ at' = 0
  /\ UNCHANGED <<held, failed, threadVars, fileVars, unload>>

(* One call of the unwinding, or of gpu_telem_exit() after kthread_stop(). *)
Cleanup ==
  /\ mod \in {"unwind", "exit"}
  /\ at \in DOMAIN CleanupOrder
  /\ held' = held \ {CleanupOrder[at]}
  /\ at' = at + 1
  /\ UNCHANGED <<mod, failed, threadVars, fileVars, unload>>

(* The function returns and the kernel frees the module's memory; a file   *)
(* that is still open has its operations in that memory.                   *)
ModuleFreed ==
  /\ mod \in {"unwind", "exit"}
  /\ at > Len(CleanupOrder)
  /\ mod' = "absent"
  /\ at' = 0
  /\ unload' = IF mod = "exit" THEN "finished" ELSE unload
  /\ file' = [f \in Files |-> IF file[f] = "closed" THEN "closed" ELSE "stale"]
  /\ refs' = 0
  /\ UNCHANGED <<held, failed, threadVars, asked>>

-----------------------------------------------------------------------------
(* rmmod: with files open the kernel refuses, and unload.sh fails. *)
Rmmod ==
  /\ mod = "live"
  /\ asked' = {f \in Files : file[f] = "reading"}
  /\ IF refs > 0
       THEN unload' = "finished" /\ UNCHANGED <<mod, at>>
       ELSE unload' = "running" /\ mod' = "exit" /\ at' = 0
  /\ UNCHANGED <<held, failed, threadVars, file, refs>>

(* kthread_stop(): the flag is set and the thread woken ... *)
ExitStops ==
  /\ mod = "exit"
  /\ at = 0
  /\ ~stop
  /\ stop' = TRUE
  /\ UNCHANGED <<mod, at, held, failed, thread, fileVars, unload>>

(* A faulty variant: the exit does not wait for the thread. *)
ExitJoinsEarly ==
  /\ mod = "exit"
  /\ at = 0
  /\ stop
  /\ at' = 1
  /\ UNCHANGED <<mod, held, failed, threadVars, fileVars, unload>>

(* ... and the caller waits until the thread has returned. *)
ExitJoins ==
  /\ mod = "exit"
  /\ at = 0
  /\ stop
  /\ thread = "exited"
  /\ thread' = "none"
  /\ at' = 1
  /\ UNCHANGED <<mod, held, failed, stop, fileVars, unload>>

(* The steps inside init and exit, and the two that end them. *)
ModuleWorks ==
  \/ InitTakes \/ InitRunsThread \/ InitFails \/ Cleanup
  \/ ExitStops \/ ExitJoins

ModuleStep == ModuleWorks \/ InitReturns \/ ModuleFreed

-----------------------------------------------------------------------------
(* collector_thread().  A thread that is stopped before it first runs      *)
(* never enters the function.                                              *)
ThreadMoves(from, to) ==
  /\ thread \in from
  /\ thread' = to
  /\ UNCHANGED <<mod, at, held, failed, stop, fileVars, unload>>

ThreadChecks == ThreadMoves({"ready", "check"}, IF stop THEN "exited" ELSE "push")

(* collect_sample(), ring_push() and wake_up_interruptible(). *)
ThreadPushes == ThreadMoves({"push"}, "sleep")

(* A faulty variant: msleep(), which only the timer ends. *)
ThreadSleepsOn == stop /\ StopInterrupts /\ ThreadMoves({"sleep"}, "sleep")

(* msleep_interruptible() is cut short: it returns the time left, break. *)
ThreadBreaks == stop /\ StopInterrupts /\ ThreadMoves({"sleep"}, "exited")

(* interval_ms have passed. *)
TimerExpires == ThreadMoves({"sleep"}, "check")

ThreadStep == ThreadChecks \/ ThreadPushes \/ ThreadBreaks

-----------------------------------------------------------------------------
(* File f goes on, and takes or drops this many references on the module. *)
FileMoves(f, from, to, taken) ==
  /\ file[f] = from
  /\ file' = [file EXCEPT ![f] = to]
  /\ refs' = refs + taken
  /\ asked' = asked \ {f}
  /\ UNCHANGED <<mod, at, held, failed, threadVars, unload>>

CanOpen == {"cdev", "device"} \subseteq held /\ mod \in {"init", "unwind", "live"}

(* A faulty variant: file_operations without an owner, no reference taken. *)
OpenWithoutOwner(f) == CanOpen /\ FileMoves(f, "closed", "opening", 0)

(* The kernel's open(): the node is there and the module is not going away *)
(* (a module whose init still runs or unwinds can be opened); it takes a   *)
(* reference and calls gpu_telem_open().                                   *)
OpenLooksUp(f) == CanOpen /\ FileMoves(f, "closed", "opening", 1)

(* The reader_ctx is allocated, or the open fails with -ENOMEM. *)
OpenReturns(f) ==
  FileMoves(f, "opening", "open", 0) \/ FileMoves(f, "opening", "closed", -1)

ReadBlocks(f) == FileMoves(f, "open", "reading", 0)

(* read() returns with samples or because of a signal. *)
ReadReturns(f) == FileMoves(f, "reading", "open", 0)

(* A faulty variant: the reference is dropped twice. *)
ReleaseTwice(f) == FileMoves(f, "open", "closed", -2)

Release(f) == FileMoves(f, "open", "closed", -1)

FileStep(f) ==
  OpenLooksUp(f) \/ OpenReturns(f) \/ ReadBlocks(f) \/ ReadReturns(f) \/ Release(f)

-----------------------------------------------------------------------------
Next ==
  \/ Insmod \/ Rmmod \/ ModuleStep
  \/ ThreadStep \/ TimerExpires
  \/ \E f \in Files : FileStep(f)

Spec == Init /\ [][Next]_vars

(* The thread in init or exit and the collector are scheduled.  Nothing is *)
(* assumed of the timer: interval_ms may be weeks (SET_INTERVAL_MS has no  *)
(* upper bound).                                                           *)
FairSpec == Spec /\ WF_vars(ModuleStep) /\ WF_vars(ThreadStep)

-----------------------------------------------------------------------------
InUse(f) == file[f] \in {"opening", "open", "reading"}

TypeOK ==
  /\ mod \in {"absent", "init", "unwind", "live", "exit"}
  /\ at \in 0..Len(InitOrder) + 1
  /\ held \subseteq Resources
  /\ failed \in Resources \cup {"thread", "none"}
  /\ thread \in {"none", "ready", "check", "push", "sleep", "exited"}
  /\ stop \in BOOLEAN
  /\ file \in [Files -> {"closed", "opening", "open", "reading", "stale"}]
  /\ refs \in 0..Cardinality(Files)
  /\ unload \in {"none", "running", "finished"}
  /\ asked \subseteq Files

(* The call that init, the unwinding or exit makes next is about a         *)
(* resource that is not held, or that is.                                  *)
TakesNext(r) == mod = "init" /\ at \in 1..Len(InitOrder) - 1 /\ r = InitOrder[at]
GivesNext(r) ==
  mod \in {"unwind", "exit"} /\ at \in DOMAIN CleanupOrder /\ r = CleanupOrder[at]

(* Nothing leaks: whichever step of init fails, and after every exit, an   *)
(* absent module holds nothing and has no thread; a live one holds         *)
(* everything.  And nothing is given back that was not taken, or is given  *)
(* back a second time, nor taken twice: every call that returns a resource *)
(* meets one that is held (gpu_telem_core.c:407-455, 458-472).             *)
Balanced ==
  /\ mod = "absent" => held = {} /\ thread = "none"
  /\ mod = "live" => held = Resources /\ thread # "none"
  /\ \A r \in Resources : /\ TakesNext(r) => r \notin held
                          /\ GivesNext(r) => r \in held

(* ring_push() never runs on a ring that was not made or was destroyed: no *)
(* ring_push() after kthread_stop() (gpu_telem_core.c:460-466).            *)
PushHasRing == thread = "push" => "ring" \in held

(* An open file has its ring and its module, from the moment the node can  *)
(* be opened, while init goes on, and against rmmod.  The one exception is *)
(* kthread_run() failing, the only step after device_create(): the         *)
(* unwinding does not look for files opened meanwhile.                     *)
FilesKeepModule ==
  \A f \in Files :
    InUse(f) =>
      \/ "ring" \in held /\ mod \notin {"absent", "exit"}
      \/ mod = "unwind" /\ failed = "thread"

(* rmmod comes to an end however long the sampling interval is: the sleep  *)
(* of the collector is cut short (gpu_telem_core.c:462-463).               *)
ExitEnds == (mod = "exit") ~> (mod = "absent")

(* What unload.sh:6 and :24 say of a process blocked in read(): when the   *)
(* unloading has been done, it no longer is.                               *)
UnloadWakesReaders == unload = "finished" => asked = {}
=============================================================================
