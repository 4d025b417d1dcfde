------------------------------- MODULE Tuning -------------------------------
(***************************************************************************)
(* The two numbers that shape the stream: the ring size and the sampling   *)
(* interval.  gpu_telem_init() derives both from module parameters, the    *)
(* ioctls report them and set the interval at any time, and the collector  *)
(* reads the interval when it goes to sleep (kernel/gpu_telem_core.c).     *)
(*                                                                         *)
(* Time passes in milliseconds and is kept as distances: how long the      *)
(* collector has yet to sleep, how old its last stamp is.                  *)
(***************************************************************************)
EXTENDS Integers

CONSTANTS
  MinMs,      \* MIN_SAMPLE_MS
  MaxRing,    \* MAX_RING_SIZE, a power of two
  Half,       \* 2^31: milliseconds that are negative as an int
  Sizes,      \* values of the ring_size parameter
  Intervals,  \* values of the sample_ms parameter and of SET_INTERVAL_MS
  Work,       \* the longest collect_sample() and ring_push() take, in ms
  Late        \* how late a timer may wake the collector, its jiffy included

ASSUME TuningAssumption ==
  /\ MinMs \in Nat \ {0} /\ MaxRing \in {2^k : k \in 1..12} /\ Half \in Nat
  /\ Sizes \subseteq Nat /\ Intervals \subseteq Nat
  /\ Work \in Nat /\ Late \in Nat

VARIABLES
  loaded,    \* "no", "yes", or "refused" when init returned -EINVAL
  asked,     \* the ring_size parameter of the last insmod
  size,      \* gdev.ring.size
  interval,  \* gdev.interval_ms
  pc,        \* the collector: "off", "ready", "collect", "sleep" or "stuck"
  left,      \* ms until its timer is due; below 0 when it is overdue
  age,       \* ms since its last stamp
  slept,     \* the interval it read when it last went to sleep
  fresh,     \* history: stamps since interval_ms was written, counted to 2
  gap        \* history: the distance of the last two stamps, 0 if none

timing == <<pc, left, age, slept, gap>>
vars == <<loaded, asked, size, interval, timing, fresh>>

Larger(a, b) == IF a > b THEN a ELSE b
Lesser(a, b) == IF a < b THEN a ELSE b

-----------------------------------------------------------------------------
(* A faulty variant: rounds down. *)
NextPow2Below(n) ==
  LET grow[p \in Nat] == IF 2 * p < n THEN grow[2 * p] ELSE p IN grow[1]

(* next_pow2() *)
NextPow2(n) == LET grow[p \in Nat] == IF p < n THEN grow[2 * p] ELSE p IN grow[1]

(* n & (n - 1) is zero *)
IsPow2(n) == \E k \in 0..n : n = 2^k

(* What ring_init() tests by itself. *)
RingAccepts(n) == n > 0 /\ IsPow2(n) /\ n <= MaxRing

Init ==
  /\ loaded = "no"
  /\ asked = 0
  /\ size = 0
  /\ interval = 0
  /\ pc = "off"
  /\ left = 0 /\ age = 0 /\ slept = 0 /\ gap = 0
  /\ fresh = 0

(* A faulty variant: sample_ms is taken as it is. *)
FirstIntervalUnclamped(sample_ms) == sample_ms

FirstInterval(sample_ms) == Larger(sample_ms, MinMs)

(* gpu_telem_init(): a size out of range is refused, others are rounded    *)
(* up; ring_init() looks at the rounded size once more.  A refused insmod  *)
(* can be repeated.                                                        *)
Insmod(ring_size, sample_ms) ==
  LET sz == IF IsPow2(ring_size) THEN ring_size ELSE NextPow2(ring_size) IN
  /\ loaded # "yes"
  /\ asked' = ring_size
  /\ IF 2 <= ring_size /\ ring_size <= MaxRing /\ RingAccepts(sz)
       THEN /\ loaded' = "yes"
            /\ size' = sz
            /\ interval' = FirstInterval(sample_ms)
            /\ pc' = "ready"
       ELSE /\ loaded' = "refused"
            /\ UNCHANGED <<size, interval, pc>>
  /\ UNCHANGED <<left, age, slept, gap, fresh>>

-----------------------------------------------------------------------------
(* A faulty variant: no minimum. *)
AcceptsAny(ms) == ms \in Nat

(* What SET_INTERVAL_MS does not answer with -EINVAL. *)
Accepts(ms) == ms >= MinMs

(* GPU_TELEM_SET_INTERVAL_MS leaves a sleep that has begun as it is.       *)
SetInterval(ms) ==
  /\ loaded = "yes"
  /\ Accepts(ms)
  /\ interval' = ms
  /\ fresh' = 0
  /\ UNCHANGED <<loaded, asked, size, timing>>

-----------------------------------------------------------------------------
(* collector_thread() *)

CollectorStarts ==
  /\ pc = "ready"
  /\ pc' = "collect"
  /\ age' = 0
  /\ fresh' = Lesser(fresh + 1, 2)
  /\ UNCHANGED <<loaded, asked, size, interval, left, slept, gap>>

(* A faulty variant: the interval is read once, when the thread starts. *)
IntervalReadOnce == IF slept = 0 THEN interval ELSE slept

(* A faulty variant: the interval is rounded down to ticks of 2 ms. *)
IntervalInTicks == (interval \div 2) * 2

(* READ_ONCE(gdev.interval_ms), each time round the loop. *)
IntervalRead == interval

(* The sample is pushed; msleep_interruptible(gdev.interval_ms).  To the   *)
(* kernel a time that is negative as an int is the longest there is.       *)
CollectorSleeps ==
  /\ pc = "collect"
  /\ slept' = IntervalRead
  /\ left' = slept'
  /\ pc' = IF slept' >= Half THEN "stuck" ELSE "sleep"
  /\ UNCHANGED <<loaded, asked, size, interval, age, fresh, gap>>

(* The timer has fired: the next collect_sample() stamps. *)
CollectorWakes ==
  /\ pc = "sleep"
  /\ left <= 0
  /\ pc' = "collect"
  /\ gap' = age
  /\ age' = 0
  /\ fresh' = Lesser(fresh + 1, 2)
  /\ UNCHANGED <<loaded, asked, size, interval, left, slept>>

Collector == CollectorStarts \/ CollectorSleeps \/ CollectorWakes

(* A millisecond passes; the work and the timer keep their limits. *)
Tick ==
  /\ \/ pc = "collect" /\ age < Work /\ UNCHANGED left
     \/ pc = "sleep" /\ left > -Late /\ left' = left - 1
  /\ age' = age + 1
  /\ UNCHANGED <<loaded, asked, size, interval, pc, slept, fresh, gap>>

Next ==
  \/ \E n \in Sizes, ms \in Intervals : Insmod(n, ms)
  \/ \E ms \in Intervals : SetInterval(ms)
  \/ Collector
  \/ Tick

(* Time passes and the collector is scheduled; nobody has to call ioctl(). *)
Spec == Init /\ [][Next]_vars /\ WF_vars(Collector) /\ WF_vars(Tick)

-----------------------------------------------------------------------------
TypeOK ==
  /\ loaded \in {"no", "yes", "refused"}
  /\ asked \in Nat /\ size \in 0..MaxRing
  /\ interval \in Nat /\ (loaded = "yes" => interval >= MinMs) /\ slept \in Nat
  /\ pc \in {"off", "ready", "collect", "sleep", "stuck"}
  /\ left \in Int /\ age \in Nat /\ gap \in Nat
  /\ fresh \in 0..2

(* The ring is the smallest power of two that holds what was asked for, so *)
(* that "& mask" in ringbuf.c is a modulo, and a size is refused exactly   *)
(* when it is outside 2..MaxRing: rounding up never gets past the limit    *)
(* that ring_init() checks again (gpu_telem_core.c:387-395).               *)
RingSizeFits ==
  /\ loaded = "yes" =>
       /\ \E k \in 1..MaxRing : size = 2^k
       /\ asked <= size /\ size < 2 * asked /\ size <= MaxRing
  /\ loaded = "refused" => asked < 2 \/ asked > MaxRing

(* Samples are never closer together than the minimum, whatever the module *)
(* was loaded with and whoever sets the interval whenever                  *)
(* (gpu_telem_core.c:353 and 401).                                         *)
NeverTooFast == gap # 0 => gap >= MinMs

(* Once two samples were stamped since the interval was last written, the  *)
(* distance of the last two is that interval plus the time the work takes  *)
(* and the timer is late: one sleep at most keeps to an older interval,    *)
(* and no distance is shorter than asked for.                              *)
KeepsInterval ==
  fresh = 2 /\ gap # 0 =>
    interval <= gap /\ gap <= interval + Work + Late

(* The stream can be tuned while the module stays loaded                   *)
(* (gpu_telem_uapi.h:69-70): the last interval set is, sooner or later,    *)
(* the one the collector sleeps for.                                       *)
TunedWithoutReload ==
  \A ms \in Intervals :
    ms < Half => ((<>[](loaded = "yes" /\ interval = ms)) => <>[](slept = ms))
=============================================================================
