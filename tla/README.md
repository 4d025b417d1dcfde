# Verification of gpu_telem

TLA+ models, TLC runs and TLAPS proofs for the `gpu_telem` kernel module and the programs around it: a collector
thread samples GPU sensors into a ring buffer, and any number of readers stream the samples from `/dev/gpu_telem`
through `read()` and `poll()`.

## 1. Inventory

| part | source | state | operations | what makes it hard | what makes it correct |
|---|---|---|---|---|---|
| ring buffer | `kernel/ringbuf.c`, `ringbuf.h` | `samples[]`, `head_seq`, `dropped`, spinlock; one `next_seq` per open file | `ring_push`, `ring_consume`, `ring_data_available`, `ring_init`, `ring_destroy` | one writer and many readers; a sample takes several stores; `head_seq` is also read without the lock; readers are lapped | whole samples, in order, lost only when overwritten, losses counted |
| character device | `kernel/gpu_telem_core.c:206-370` | `reader_ctx` per file, the wait queue `gdev.wq`, `interval_ms` | `open`, `release`, `read`, `poll`, `ioctl` | test-then-sleep against a concurrent push and wake-up, signals, timeouts, allocation and copy failures, a file closed while another thread is in a call | no wakeup lost, reads never empty, no loss without a reason, blocked calls return |
| collector thread | `gpu_telem_core.c:155-204` | its place in the loop | collect, push, wake, sleep | stopped at any point, its sleep as long as the user asked | no push into a missing ring, stops promptly |
| init and exit | `gpu_telem_core.c:372-476` | six resources taken in order | `gpu_telem_init` with five labels, `gpu_telem_exit` | a failure at each step, opens while init still runs, `rmmod` with open files | everything given back exactly, files keep their module |
| hwmon probe and sysfs | `gpu_telem_core.c:59-182` | four paths, the sample on the thread's stack | `probe_hwmon_paths`, `sysfs_read_s64`, `collect_sample` | each of four nodes may fail on its own, any time; the struct is used again | nothing of an older collection stays in a sample |
| sample ABI | `include/gpu_telem_uapi.h` | - | `struct gpu_sample`, ioctl numbers | sentinels that are also possible readings; casts that narrow | what was read is what is shown |
| C reader | `user/gpu_telem_reader.c` | `total`, `g_running` | poll, read, print | signal between test and poll, a limit inside a batch | stops after a signal, prints at most `max` samples, each once |
| Python consumer | `user/consumer.py` | the batch being yielded, `idx` | poll, readv, unpack, three output loops | KeyboardInterrupt between any two bytecodes, a batch left half-way | at most `count` rows, numbered, in order, none twice |
| NVML check | `user/nvml_validate.cpp` | the NVML session, one sample | init, read, a table of rows | every answer may be missing on its own; sentinels; other tests for "unavailable" than the other programs | compares only readings, agrees with the consumers, closes its session |
| plotter | `user/plot_telem.py` | - | charts from a CSV file | - | - |
| load and unload scripts | `scripts/load.sh`, `unload.sh` | the command each script is at | lsmod, rmmod, insmod, wait for the node, chmod | check-then-act, several scripts at once, `set -e` and `pipefail` | always end, say only what is true |
| other scripts | `scripts/run_qemu.sh`, `dmesg_watch.sh`, `probe_gpu.sh` | - | QEMU image, dmesg, printing | - | - |

The collector calls `ring_push()` and then wakes `gdev.wq`; `read()` and `poll()` test `ring_data_available()` and
sleep on `gdev.wq`; `read()` then calls `ring_consume()` and copies to user space. Files and the collector share
only the ring and the queue. `gpu_telem_init` and `gpu_telem_exit` create and destroy both around them. The user
programs see only system calls.

The hazards of this code, each at its line, are listed in `PROJECT.json` with the property that would notice it.

## 2. Modules

### TelemStream: what the ring promises
An unbounded log with a cursor per reader. `Publish` appends; `Attach` places a new reader at the head; `Consume(f, n)`
skips what has left the window of `Size` samples, counts it, and hands over the next `n`. The k-th sample is the
number k: the collector stamps samples with increasing times, so rank is all a reader can tell them apart by.

### RingBuf: the ring as it is coded
One step per memory access another thread could observe. `ring_push()` is `PushLock`, one `PushWord` per word of the
sample, `PushPublish` (`head_seq++`) and `PushUnlock`. `ring_consume()` is `ConsumeLock`, then `ConsumeNothing` (the
early return) or `ConsumeWindow` (fast-forward and `to_copy`), then `CopyWord` and `CopyNext` for each iteration, and
`ConsumeUnlock`. `Attach` is the lockless read of `head_seq` in `gpu_telem_open()`, and may come at any point of a push.
`ring_consume()` is called by any task on any open descriptor, also by two tasks on one. `received`, `start` and
`retired` are histories. A word of the k-th sample holds k; `Stamp` tells a whole sample from a torn one.
`mask` is `size - 1` and `size` a power of two, so `seq & mask` is written `seq % Size`.

### GpuTelem: the device
Built from `TelemStream`'s actions, one per call of the ring, which `RingBuf` is proved to implement. In between are the
steps of `wait_event_interruptible()` (test, queue, test again, sleep, woken) and of the poll system call (queue, test,
sleep, woken or timed out, test again). `CollectorWake` removes the entries of readers and marks those of pollers, as the
kernel's wake functions do. A signal may come at any point of a call and is handled when the call returns. Every error
path is an action of its own: short count (`ReadShort`), nothing there (`ReadNonblock`), interrupted (`WaitRecheck`),
`OpenFails`, `AllocFails`, `CopyFaults`; error codes are one value, `"error"`, because no property tells them apart.
`Owner` says which threads use which file; `close()` and `release()` are separate, since a call keeps its file alive.
The part of Linux the driver relies on (wait queue, poll loop, signals) is modelled from how the driver uses it and is
marked external in the map.

### Device: what a program may think of the device
Calls that take effect at one moment: a read that succeeds takes, in one step, the next samples of its file (`Takes`),
then gives all of them or none (`Gives`); any other call takes nothing (`Errs`, `PollEnds`). `GpuTelem!Dev` maps the many
places a thread can be at inside a call to "not yet", "took its samples" and "in poll", and `ImplementsDevice` is the whole
abstract specification as a property. It is checked for files used by one thread; two threads that read one file are left
undefined by `gpu_telem.h:38`, and the second may come back empty.

### ModuleLife: init, exit, thread and open files
`gpu_telem_init` walks `InitOrder`; a step in `CanFail` may fail and jump to `FailLabel`, from where `Cleanup` falls
through `CleanupOrder`. `Balanced` looks at each of these calls before it is made (`TakesNext`, `GivesNext`), since `held` is a
set and would not show that something was given back twice or without having been taken. `gpu_telem_exit` sets the stop flag, waits for the thread (`ExitJoins`) and runs the same
cleanup. The collector is checked, pushing or asleep. A file can be opened as soon as the device node exists and until
the module is going away, and holds a module reference (`fops.owner`). `StopInterrupts` says whether the kernel's
`kthread_stop()` ends an interruptible sleep (Linux 6.0 on).

### Scripts: load.sh and unload.sh
A person (`Admins`) starts a script at any time (`Run`); each of its commands is a step. `Lsmod` looks, `RmmodStarts`,
`RmmodRefused`, `InsmodStarts` and `InsmodRefused` act on whatever is there by then, `RmmodReturns`, `InsmodReturns` and
`InsmodFails` join `ModuleLife`'s exit and init to the command that waits for them. `set -e` is `Leave`: a command that fails ends
the script, except in the `do_unload || true` of a reload, where bash switches it off (`EndUnload`). With `PipeBreaks` the
pipe `lsmod | grep -q` may fail although the line is there, since `pipefail` reports an lsmod killed by SIGPIPE. `alone`, `by` and `told`
are histories for the properties: `LoadedIsOwn` and `UnloadedIsTrue` are about a script that runs alone, the second about the
moment at which it prints its line, since a reload goes on to load the module again. `unload.sh` takes the steps of `load.sh unload`.

### Sensors: from the node to the screen
`ProbeGiven`, `ProbeSlot` (one iteration of the loop over hwmon0..9) and `ProbeEnds` are `probe_hwmon_paths()`. `Stamp`, four
times `ReadNode` and `Push` are one round of the collector: each node is read separately and may fail separately.
A reading is a set of at most one number, so that "unavailable" is not a number. `Field` is the casts of
`collect_sample()` with their widths, `CShows`, `PythonShows` and `NvmlShows` are what the three programs make of a field, and `CLayout`
and `PyLayout` are the struct and the `struct` format string, laid out by the rules of C and of Python; `Unpacked` is what
Python finds at the bytes where C has put a field.

`ShownIsRead` states what the programs do with a reading that is missing, and they differ: Python says n/a of every
field, the C reader (`gpu_telem_reader.c:62-64`) of the temperature only and prints 0 for a fan, a power or a clock, which
`gpu_telem_uapi.h:52-54` defines as unavailable. Somebody who reads its table cannot tell a fan at rest from a card without a fan sensor.

### Validate: the NVML comparison
`nvml_validate.cpp` beside that collector: `GuardInit` (`nvmlInit()`, if it is built with NVML) and `GuardHandle` (the handle of the GPU,
or the constructor's own `nvmlShutdown()` when it is refused), `OpenDevice`, `PushRead` (the blocking
read of the next sample) or `ReadFails`, a `PrintRow` per metric, `Exit` (the destructor, which shuts down only a guard that is `ok`).
`sessions` counts what was opened and not closed; it would be 1 at the end if a shutdown were forgotten and -1 if one were done twice.
NVML answers each question with a number or an error, as it
likes; `row.answer` keeps it, so that `TableSound` can compare the row with the answer to its own question. `Note` is the difference the program prints for temperature and power; `NvmlColumn` includes what `printf` may show
for the temperature, a double passed to `%u` (`nvml_validate.cpp:183`), which is undefined: the column may hold any number, and `TableSound` says
of it only whether there was an answer. The collector's next round waits for the table (a bound: the program works on a copy).

### Tuning: ring size and sampling interval
`Insmod` is the parameter handling of `gpu_telem_init()` with `next_pow2()` and the second check in `ring_init()`;
`SetInterval` is the ioctl, `Accepts` its check, `FirstInterval` the clamp of the parameter. `CollectorStarts`, `CollectorSleeps` and `CollectorWakes` are the collector's loop, with a `Tick` that passes a
millisecond. Time is kept as distances (how long to sleep, how old the last stamp is), so the state space is
finite without a bound on time.

### CReader, PyConsumer and Consumers: the programs
Each program is a module with a program counter over its loop, on top of `TelemStream`'s `Attach`, `Consume` and `Detach`; what
`poll()` and `read()` promise them is what `GpuTelem` shows (`PollinMeansReadable`, `ReadNeverEmpty`, `SignalEndsCall`). A signal sets `g_running`
at once in C; in Python it is noted (`tripped`) and becomes a KeyboardInterrupt when Python looks, caught in the loop and
not before or after it. Both have the window between the test and the system call, in which a signal does not end
`poll()`. `Consumers` runs both on one device, interleaved with the collector. The three output modes of the consumer have the
same control flow and are one loop; `--set-interval` is a run of its own without the loop (`OneShot`).

Operators named as a faulty variant (`SkipTooFar`, `WaitPrepareBlind`, ...) are not part of any specification: each is
a plausible mistake in the definition that follows it, and substituting it must break the property it is paired with
in `PROJECT.json`.

## 3. Runs

| run | question | bounds | states |
|---|---|---|---|
| `ring` | `RingBuf` satisfies its invariants and implements `TelemStream` | 2 slots, 2 words, 2 tasks, 2 descriptors, 5 samples | 227 000 |
| `shared` | two threads on one file: lifetime, no duplicates, no lost wakeup | 2 slots, 3 samples | 728 000 |
| `solo` | one reader lapped more than twice, every error path: POLLIN is honoured, calls are atomic, blocked calls return | 2 slots, 5 samples, batches of 1 and more than the ring | 50 000 |
| `scripts` | load, fail, unload, reload by two people with two files: nothing leaks or is given back untaken, every script ends, and one that says "Loaded" has loaded | none but the two people and files | 108 000 |
| `sensors` | the first GPU is probed, samples hold this collection's readings, the programs show them and the NVML table compares them, in a session closed once | 2 hwmon directories, a u32 of 16 values, a u64 of 256, 2 NVML answers | 511 000 |
| `tuning` | the ring size fits, samples keep their distance, a new interval takes effect | rings up to 16, intervals 0 to 5 ms, minimum 2 ms | 17 000 |
| `consumers` | both programs print what they read, keep to their limits and stop on a signal | 2 slots, batches of 2, limits of 1 and none, 3 samples | 224 000 |
| `fault` | violation: `-EFAULT` loses samples still in the ring | as `solo`, 3 samples | |
| `old_kernel` | violation: before Linux 6.0 `rmmod` waits for the timer | two files | |
| `unload` | violation: `unload.sh` says blocked readers get `-EIO` | two files | |
| `reload` | violation: a reload says "unloaded" of a module that is busy | as `scripts`, without broken pipes | |
| `stuck` | violation: an interval of 2^31 ms cannot be taken back | intervals below and at `Half` | |

Two words suffice to see a torn sample; a ring of two slots lapped twice meets every case of the overrun boundary
(not behind, exactly `Size` behind, one more, several more), and size 1 is the degenerate ring. Two tasks are one that
holds the lock and one that wants it; two descriptors show independence, and the faulty variants show that these
bounds are wide enough for the mistakes they stand for. `MaxHead` bounds what is pushed: it guards
`PushLock`, `CollectorPush` and `Produce` only. In `sensors` the widths are scaled down and the readings lie on both sides of
every limit and on every sentinel; two directories give every order of a GPU, another chip and none; only order and remainders matter to the casts. In `tuning` the requested sizes lie on both
sides of every power of two and of `MaxRing`. In `consumers` a limit of 1 falls inside a batch of 2 and three samples lap a ring
of two. A deadlock is checked in every run.

Fairness. `GpuTelem!FairSpec` assumes weak fairness of the collector (a kernel thread that is scheduled) and of each
thread's steps inside the kernel, which end or sleep. Nothing is assumed of what programs call, of signals, or of poll
timeouts, so `BlockedReturns` shows that the wakeup, not the timeout, ends the wait. It is stated of a file with one
reader: of two threads on one file the other may take the sample. `Scripts!ScriptsFairSpec` assumes weak fairness of init
and exit, of the collector, and of the commands of each script that has been started; nobody has to start one, to close a file or to
let the timer expire. `ModuleLife!FairSpec` assumes
weak fairness of the thread in init or exit and of the collector, and nothing of the sampling timer, since
`interval_ms` can be up to 49 days. `Tuning` assumes weak fairness of the collector and of time; nobody has to call
`ioctl()`. `Consumers` assumes weak fairness of each program's own steps, the timeout of its `poll()` among them (1000 ms in C, 1500 in Python);
samples, signals and failures need never come.

### What the violation runs show
- `fault`: `ring_consume()` advances `next_seq` before `copy_to_user()`; on `-EFAULT` the samples are skipped and not
  counted. `LossExplained`, which passes, says that this is the only such path.
- `unload`: `rmmod` with an open file is refused, and no path of the driver returns `-EIO`.
- `stuck`: `SET_INTERVAL_MS` checks the minimum only, and `msleep_interruptible()` takes a time that is negative as an int for
  the longest there is. The collector then sleeps for good and the header's promise, tuning without reloading, is gone.
- `reload`: `set -e` does not hold inside `do_unload || true`, so a refused `rmmod` is followed by `gpu_telem unloaded.`; the
  load that follows fails at its own `rmmod`. The property is about the step that prints the line: a reload whose `rmmod` succeeds satisfies it, and so would
a `do_unload` that stopped at a refused one. `LoadedIsOwn`, which passes, says that the mistake ends there: "Loaded" is never
  printed for somebody else's module.
- `old_kernel`: the comment in `gpu_telem_exit` holds on Linux 6.0 and later only; the code also supports older kernels.

`FilesKeepModule` carries an exception that is worth knowing: when `kthread_run()` fails, files opened since
`device_create()` are left behind with a module that is freed.

## 4. Proofs

Every invariant that a passing run checks is also proved, for every value of the constants that the assumptions beside
them allow, and so are the two refinements and the bounds on the sampling interval. TLC checks the same formulas on small instances.

| module | about | lemmas it rests on |
|---|---|---|
| `RingBufProofs` | `RingBuf`, and that it implements `TelemStream` | `FiniteFolds` for the sum in `DroppedExact` |
| `GpuTelemProofs` | `GpuTelem`, and that it implements `Device` | - |
| `ScriptsProofs` | `ModuleLife`, and `Scripts` on top of it | - |
| `LayoutProofs` | the layouts of `struct gpu_sample` in `Sensors` | `FiniteFolds` for the fold in `Offsets` |
| `SensorsProofs` | `Sensors`, and `Validate` beside it | `LayoutProofs` |
| `TuningProofs` | `Tuning` | - |
| `ConsumersProofs` | `Consumers`, `CReader`, `PyConsumer` | - |

**`RingBufProofs`**: every ring size `ring_init()` accepts (any power of two up to 4096, `SizeAssumption`), at
least one word per sample, any sets of tasks and descriptors, any bound on the samples pushed.

- `TypeCorrect`: `Spec => []TypeOK`.
- `Invariance`: `Spec => []IInv`. `InOrder` and `OnlyOverwrittenLost` are not inductive: that a copied word belongs to
  the sample a reader is due needs the lock to exclude the writer (`LockInv`), the copied prefixes to be what they should
  (`PushInv`, `CopyInv`) and the window to be intact (`WindowIntact`). `WindowIntact` in turn rests on `SlotDistinct`: two
  sequence numbers less than `Size` apart never share a slot. Each part has a lemma (`LockStep`, `PushStep`, `WindowStep`,
  `CopyStep`, `OrderStep`, `LostStep`) with a step per action.
- `WindowSafe`, `OrderSafe`, `LossSafe`: the three safety properties.
- `DropsCounted`: `dropped` is the sum of what each descriptor was moved past. Of the steps, only `ConsumeWindow` changes a summand,
  and by what it adds to the counter; `CopyNext` moves the cursor and lengthens what was received, which cancel; `Detach` moves a summand to `retired`. `DropInv` adds that
  finitely many files are open, without which there is no sum to speak of.
- `Refinement`: `Spec => ImplementsStream`. `ConsumeWindow` is `Consume(f, 0)`, `CopyNext` is `Consume(f, 1)`,
  `PushPublish` is `Publish`, `Attach` and `Detach` are themselves and the other steps change nothing a reader can see.

**`FiniteFolds`** is about the folds of the community modules, not about this code. They are recursive functions over the subsets of a set,
so nothing is known of them until that recursion has one and only one solution (`FoldExists`, `FoldsAgree`).
Induction is by the well-founded order of finite subsets, over a set of sets rather than a predicate (`FiniteInduction`), because
library rules that take an operator cannot be instantiated here. `SumWithout`, `SumAgrees` and `SumGrows` are what `DropsCounted` needs.

**`GpuTelemProofs`**: any threads, any files, any sharing of files between threads (`OwnerAssumption`: each thread has one), any
ring size, any counts.

- `TypeCorrect`, `WakeupsKept` (`NoLostWakeup`), `ReleaseIsLast` (`NoUseAfterRelease`) from `SharedInv`. A thread cannot miss a push because of where it is when the
  collector looks at the queue: `Queued` says which places of a call are on the queue, and each wait tests once more after
  it has queued. That release comes last needs that the file of every call exists (`InUse`).
- `HandedOutOnce` (`AtMostOnce`), `LossesExplained` (`LossExplained`) from `SampleInv`. Between `ring_consume()` and `copy_to_user()` samples are in the
  buffer of a read. `Once` says that no sample is in two buffers, or in one and already in user space; `SampleBounds` that
  all of them lie between the file's `open()` and its cursor; `Forgotten` that a file opened again starts afresh.
- Under `Private` (no two threads use one file; `gpu_telem.h:38` leaves the rest undefined, and run `shared` has such files):
  `ReadsGetData` (`ReadNeverEmpty`), `PollinStays` (`PollinMeansReadable`), `ReadsInOrder` (`DeliveredInOrder`) from `PrivateInv`: what a thread found
  readable stays readable until that thread consumes (`Readable`), so a read that goes on has a sample (`Filled`), and what it holds comes after what was delivered (`Ordered`).
- `DeviceImplemented`: `Spec => ImplementsDevice`, under `Private`. `StepDevice` matches each step: `Consume` is `Takes`,
  `CopyToUser` and `CopyFaults` are the two forms of `Gives`, the errors are `Errs`, and the steps of waiting are stutters.

**`ScriptsProofs`**: any set of failing init steps, either `kthread_stop()`, any people at their scripts, finitely many files (`FilesAssumption`: the kernel counts them).

- `NothingLeaks` (`Balanced`), `PushIsSafe` (`PushHasRing`), `OpenFilesAreSafe` (`FilesKeepModule`), `LifeTypeCorrect` from `LifeInv`. `Progress` says which
  prefix of the resources is held at each step of init and which suffix is gone at each step of the cleanup: that is what ties the five labels to the order of init, and every call of the cleanup to something that is held.
  `Users` says where the collector and the files may be then, `RefsCount` that the module's count is the number of files in use.
- `ScriptsKeepModule`: `ScriptsSpec => Spec`. Every step of the scripts is one of the module's or leaves it alone, so the above holds under any number of scripts.
- `ScriptsTypeCorrect`, `LoadedMeansOwn` (`LoadedIsOwn`) from `AloneInv`: from its `insmod` on, the module is that of the script that runs alone (`OwnInsmod`).

**`LayoutProofs`**: `OffsetsAre` computes the fold over the ten fields step by step, for C's alignment and for the unaligned format
string: the same offsets, which are those in the comment of `gpu_telem_uapi.h:35-47`, and 48 bytes.

**`SensorsProofs`**: any gap-free run of hwmon directories (`SlotsAssumption`: the code counts up from 0), any readings, any even widths, any answers of NVML.

- `SensorTypeCorrect`, `FirstIsFound` (`ProbeFindsFirst`), `SamplesAreOwn` (`SampleIsOwn`) from `SensorInv`: `Scanned` says that no directory before the present one is a GPU's, `Collected` that
  each field come to so far is what its node of this round makes of it.
- `ReadIsShown` (`ShownIsRead`): what was pushed is a collection (`PushedOwn`), a sound reading passes the casts unchanged (`SoundSurvives`), and
  Python finds it where C put it (`UnpackedIs`); what each program makes of a sentinel is `SoundIsShown`.
- `ValidateKeepsSensors`: beside `nvml_validate` the collector behaves as before. `ValidateTypeCorrect` and `TableIsSound` (`TableSound`) from `TableInv`:
  the sample of the table is one collection (`KernelSample`), the row printed last is made of it and of the answer to its question (`RowOfSample`), and the
  session belongs to the guard from the handle on (`GuardInv`).

**`TuningProofs`**: any minimum, any requested sizes and intervals, any bound on the work and on the timer's
lateness, any power of two up to 4096 (`MAX_RING_SIZE`) as the maximum of the ring (`TuningAssumption`).

- `SleepInvariance`: `Spec => []IInv`. `KeepsInterval` speaks of two stamps in the past, so it is not inductive: `ClocksAgree` says how the
  timer and the age of the stamp go together while the collector sleeps, and `SleepIsFresh` that one stamp since the
  interval was written means that the sleep under way is of that interval.
- `NeverTooFastAlways` and `KeepsIntervalAlways`: the two properties.
- `TuningTypeCorrect`, and `RingSizeAlwaysFits` (`RingSizeFits`): the loop of `next_pow2()` ends in a power of two that is at least the argument and less than
  twice it (`NextPow2Rounds`, the loop's recursion unrolled once for each of the thirteen powers), so the second check in `ring_init()` never refuses what the first has let pass.

**`ConsumersProofs`**: any ring, batches and limits. `ConsumersTypeCorrect`, `LimitsKept` (`AtMostLimit`), `ReadsArePrinted` (`ReadIsPrinted`), `ReadsHaveData` (`ReadHasData`) and `RowsAreNumbered` (`RowsNumbered`)
from `IInv`, which has the stream's part in `Cursors` and `Counters`. In C the batch is empty but between `read()` and the loop that prints it (`BatchIsFresh`), and the program polls only below its limit
(`BelowMax`). In Python `idx` is the number of rows, or one less in the window between print and count, where a KeyboardInterrupt may
strike (`Counted`).

Only model-checked: liveness under fairness, which is out of the prover's reach (`BlockedReturns`, `SignalEndsCall`, `ScriptsEnd`,
`TunedWithoutReload`, `SignalsStop`), and the violation runs, whose counterexamples TLC shows.

## 5. Not modelled

- The ioctls that only report (`GET_RING_SIZE`, `GET_INTERVAL_MS`).
- The fields that the collector always fills with a constant: utilisation, memory clock, throttle bits.
- Formatting: units, floating point, the widths of columns, parsing of numbers and paths. NVML's own readings and their
  tolerances: an answer has nothing to do with the sensor. hwmon directories that are renumbered after the probe.
- In the scripts: sudo, the output of dmesg and lsof, and the path of the module file (`load.sh` looks for `gpu_telem.ko` above
  `scripts/`, `kernel/Makefile` builds it in `kernel/`): `LooksForFile` may find it or not.
- Memory ordering: the models are sequentially consistent. Pushes and consumes are under one spinlock, and the one
  lockless read (`ring_data_available`, `open`) is ordered by the wait queue's own lock.
- 64-bit wrap of `head_seq` (not in the life of a machine) and tearing of its load on 32-bit kernels.
- `plot_telem.py`, the diagnostic and QEMU scripts, the Makefiles: output, floating point and
  environment set-up without a protocol.

## 6. Plan

1. Done: `TelemStream`, `RingBuf`, `GpuTelem` with the abstract `Device` it implements, `ModuleLife` with
   `Scripts` on top, `Sensors` with `Validate`, `Tuning`, `CReader`, `PyConsumer`, `Consumers`; the proofs of all their invariants and of both refinements.
2. Next: the composition of the two refinements, so that what `GpuTelem` shows over `TelemStream` is stated of a device over
   `RingBuf`; the safety half of the liveness properties (that a thread asleep in `read()` after a signal has only steps out of the call before it);
   action properties of the ring (the cursor and the counter never go back).
