---------------------------- MODULE TuningProofs ----------------------------
(***************************************************************************)
(* Proofs about Tuning, for every minimum, every set of requested sizes    *)
(* and intervals, and every bound on the work and on the timer's lateness. *)
(***************************************************************************)
EXTENDS Tuning, TLAPS

(* The types that the sleep rests on. *)
SleepTypes ==
  /\ interval \in Nat /\ slept \in Nat
  /\ left \in Int /\ age \in Nat /\ gap \in Nat
  /\ fresh \in 0..2

(* Only a loaded module has a collector, and then no interval is too short. *)
MinimumKept ==
  /\ pc # "off" => loaded = "yes"
  /\ loaded = "yes" => interval >= MinMs

(* How far the collector's timer has run: age and left are two readings of *)
(* the same clock, one started at the stamp and one at the sleep, at most  *)
(* Work later.                                                             *)
ClocksAgree ==
  /\ pc = "collect" => age <= Work
  /\ pc = "sleep" =>
       /\ slept >= MinMs
       /\ slept <= age + left /\ age + left <= slept + Work
       /\ -Late <= left

(* A stamp since interval_ms was last written means that the sleep under   *)
(* way is of that interval.                                                *)
SleepIsFresh ==
  /\ pc \in {"off", "ready"} => fresh = 0 /\ gap = 0
  /\ pc = "sleep" /\ fresh > 0 => slept = interval

IInv ==
  /\ SleepTypes /\ MinimumKept /\ ClocksAgree /\ SleepIsFresh
  /\ NeverTooFast /\ KeepsInterval

-----------------------------------------------------------------------------
LEMMA InitIInv == Init => IInv
  BY TuningAssumption
     DEF Init, IInv, SleepTypes, MinimumKept, ClocksAgree, SleepIsFresh,
         NeverTooFast, KeepsInterval

(* insmod has no collector yet, so only the minimum is at stake. *)
LEMMA InsmodStep ==
  ASSUME NEW n \in Sizes, NEW ms \in Intervals, IInv, Insmod(n, ms)
  PROVE  IInv'
<1>0. MinMs \in Nat /\ ms \in Nat
  BY TuningAssumption
<1>1. Larger(ms, MinMs) \in Nat /\ Larger(ms, MinMs) >= MinMs
  BY <1>0 DEF Larger
<1>2. loaded # "yes" /\ pc = "off" /\ fresh = 0 /\ gap = 0
  BY DEF IInv, MinimumKept, SleepIsFresh, Insmod, FirstInterval
<1>3. \/ loaded' = "yes" /\ interval' = Larger(ms, MinMs) /\ pc' = "ready"
      \/ loaded' = "refused" /\ UNCHANGED <<size, interval, pc>>
  BY DEF Insmod, FirstInterval
<1>4. UNCHANGED <<left, age, slept, gap, fresh>>
  BY DEF Insmod, FirstInterval
<1>5. SleepTypes' /\ MinimumKept'
  BY <1>0, <1>1, <1>2, <1>3, <1>4 DEF IInv, SleepTypes, MinimumKept
<1>6. ClocksAgree' /\ SleepIsFresh' /\ NeverTooFast' /\ KeepsInterval'
  BY <1>2, <1>3, <1>4
     DEF ClocksAgree, SleepIsFresh, NeverTooFast, KeepsInterval
<1> QED BY <1>5, <1>6 DEF IInv

(* A new interval makes every stamp so far stale. *)
LEMMA SetIntervalStep ==
  ASSUME NEW ms \in Intervals, IInv, SetInterval(ms)
  PROVE  IInv'
<1>0. MinMs \in Nat /\ ms \in Nat
  BY TuningAssumption
<1>1. /\ ms >= MinMs /\ interval' = ms /\ fresh' = 0
      /\ UNCHANGED <<loaded, pc, left, age, slept, gap>>
  BY DEF SetInterval, Accepts, timing
<1>2. SleepTypes' /\ MinimumKept' /\ ClocksAgree'
  BY <1>0, <1>1 DEF IInv, SleepTypes, MinimumKept, ClocksAgree
<1>3. SleepIsFresh' /\ NeverTooFast' /\ KeepsInterval'
  BY <1>1 DEF IInv, SleepIsFresh, NeverTooFast, KeepsInterval
<1> QED BY <1>2, <1>3 DEF IInv

LEMMA CollectorStartsStep == IInv /\ CollectorStarts => IInv'
<1> SUFFICES ASSUME IInv, CollectorStarts PROVE IInv'
  OBVIOUS
<1>0. MinMs \in Nat /\ Work \in Nat /\ Late \in Nat
  BY TuningAssumption
<1>1. /\ fresh = 0 /\ gap = 0 /\ pc' = "collect" /\ age' = 0
      /\ fresh' = 1
      /\ UNCHANGED <<loaded, interval, left, slept, gap>>
  BY DEF IInv, SleepIsFresh, CollectorStarts, Lesser
<1>2. SleepTypes' /\ MinimumKept' /\ ClocksAgree'
  BY <1>0, <1>1
     DEF IInv, SleepTypes, MinimumKept, ClocksAgree, CollectorStarts
<1>3. SleepIsFresh' /\ NeverTooFast' /\ KeepsInterval'
  BY <1>1 DEF SleepIsFresh, NeverTooFast, KeepsInterval
<1> QED BY <1>2, <1>3 DEF IInv

(* The sleep begins at most Work after the stamp, with the whole interval  *)
(* to go.                                                                  *)
LEMMA CollectorSleepsStep == IInv /\ CollectorSleeps => IInv'
<1> SUFFICES ASSUME IInv, CollectorSleeps PROVE IInv'
  OBVIOUS
<1>0. MinMs \in Nat /\ Work \in Nat /\ Late \in Nat /\ Half \in Nat
  BY TuningAssumption
<1>1. /\ pc = "collect" /\ slept' = interval /\ left' = interval
      /\ pc' \in {"stuck", "sleep"}
      /\ UNCHANGED <<loaded, interval, age, fresh, gap>>
  BY DEF CollectorSleeps, IntervalRead
<1>2. SleepTypes' /\ MinimumKept'
  BY <1>0, <1>1 DEF IInv, SleepTypes, MinimumKept
<1>3. ClocksAgree'
  BY <1>0, <1>1 DEF IInv, SleepTypes, MinimumKept, ClocksAgree
<1>4. SleepIsFresh' /\ NeverTooFast' /\ KeepsInterval'
  BY <1>1 DEF IInv, SleepIsFresh, NeverTooFast, KeepsInterval
<1> QED BY <1>2, <1>3, <1>4 DEF IInv

(* The timer is due: what it has run is the distance of the stamps. *)
LEMMA CollectorWakesStep == IInv /\ CollectorWakes => IInv'
<1> SUFFICES ASSUME IInv, CollectorWakes PROVE IInv'
  OBVIOUS
<1>0. MinMs \in Nat /\ Work \in Nat /\ Late \in Nat
  BY TuningAssumption
<1>1. /\ pc = "sleep" /\ left <= 0 /\ pc' = "collect"
      /\ gap' = age /\ age' = 0
      /\ fresh' = (IF fresh + 1 < 2 THEN fresh + 1 ELSE 2)
      /\ UNCHANGED <<loaded, interval, left, slept>>
  BY DEF CollectorWakes, Lesser
<1>2. /\ interval \in Nat /\ slept \in Nat /\ left \in Int /\ age \in Nat
      /\ fresh \in 0..2
  BY DEF IInv, SleepTypes
<1>3. slept >= MinMs /\ slept <= age /\ age <= slept + Work + Late
  BY <1>0, <1>1, <1>2 DEF IInv, ClocksAgree
<1>4. SleepTypes' /\ MinimumKept' /\ ClocksAgree' /\ SleepIsFresh'
  BY <1>0, <1>1, <1>2
     DEF IInv, SleepTypes, MinimumKept, ClocksAgree, SleepIsFresh
<1>5. NeverTooFast'
  BY <1>0, <1>1, <1>2, <1>3 DEF NeverTooFast
<1>6. fresh' = 2 => slept = interval
  BY <1>1, <1>2 DEF IInv, SleepIsFresh
<1>7. KeepsInterval'
  BY <1>0, <1>1, <1>2, <1>3, <1>6 DEF KeepsInterval
<1> QED BY <1>4, <1>5, <1>7 DEF IInv

LEMMA TickStep == IInv /\ Tick => IInv'
<1> SUFFICES ASSUME IInv, Tick PROVE IInv'
  OBVIOUS
<1>0. MinMs \in Nat /\ Work \in Nat /\ Late \in Nat
  BY TuningAssumption
<1>1. /\ \/ pc = "collect" /\ age < Work /\ left' = left
         \/ pc = "sleep" /\ left > -Late /\ left' = left - 1
      /\ age' = age + 1
      /\ UNCHANGED <<loaded, interval, pc, slept, fresh, gap>>
  BY DEF Tick
<1>2. slept \in Nat /\ left \in Int /\ age \in Nat
  BY DEF IInv, SleepTypes
<1>3. SleepTypes' /\ MinimumKept'
  BY <1>1, <1>2 DEF IInv, SleepTypes, MinimumKept
<1>4. ClocksAgree'
  BY <1>0, <1>1, <1>2 DEF IInv, ClocksAgree
<1>5. SleepIsFresh' /\ NeverTooFast' /\ KeepsInterval'
  BY <1>1 DEF IInv, SleepIsFresh, NeverTooFast, KeepsInterval
<1> QED BY <1>3, <1>4, <1>5 DEF IInv

LEMMA StutterStep == IInv /\ UNCHANGED vars => IInv'
  BY DEF IInv, SleepTypes, MinimumKept, ClocksAgree, SleepIsFresh,
         NeverTooFast, KeepsInterval, vars, timing

-----------------------------------------------------------------------------
(* The invariant holds in every state: an older interval is in force for   *)
(* the sleep that was under way when the interval was written and for no   *)
(* other.                                                                  *)
THEOREM SleepInvariance == Spec => []IInv
<1>1. IInv /\ [Next]_vars => IInv'
  <2> SUFFICES ASSUME IInv, [Next]_vars PROVE IInv'
    OBVIOUS
  <2>1. CASE \E n \in Sizes, ms \in Intervals : Insmod(n, ms)
    BY <2>1, InsmodStep
  <2>2. CASE \E ms \in Intervals : SetInterval(ms)
    BY <2>2, SetIntervalStep
  <2>3. CASE Collector
    BY <2>3, CollectorStartsStep, CollectorSleepsStep, CollectorWakesStep
       DEF Collector
  <2>4. CASE Tick
    BY <2>4, TickStep
  <2>5. CASE UNCHANGED vars
    BY <2>5, StutterStep
  <2> QED BY <2>1, <2>2, <2>3, <2>4, <2>5 DEF Next
<1> QED BY InitIInv, <1>1, PTL DEF Spec

(* No two samples are stamped less than MIN_SAMPLE_MS apart, for any       *)
(* sample_ms and any calls of SET_INTERVAL_MS (gpu_telem_core.c:353, 401). *)
THEOREM NeverTooFastAlways == Spec => []NeverTooFast
<1>1. IInv => NeverTooFast
  BY DEF IInv
<1> QED BY SleepInvariance, <1>1, PTL

(* Two stamps after the interval was last written, samples are as far      *)
(* apart as asked, late at most by the work and the timer                  *)
(* (msleep_interruptible(gdev.interval_ms), gpu_telem_core.c:198).         *)
THEOREM KeepsIntervalAlways == Spec => []KeepsInterval
<1>1. IInv => KeepsInterval
  BY DEF IInv
<1> QED BY SleepInvariance, <1>1, PTL

-----------------------------------------------------------------------------
(***************************************************************************)
(* The size of the ring.  next_pow2()'s loop is a function that a CHOOSE   *)
(* defines by its recursion, and nothing is known of it before some        *)
(* function is known to obey that recursion: one that sends p to where     *)
(* doubling takes it.                                                      *)
(***************************************************************************)

(* The powers of two that a size can be rounded to. *)
Pows == {1, 2, 4, 8, 16, 32, 64, 128, 256, 512, 1024, 2048, 4096}

(* The loop's function, with a name. *)
Grow(n) == CHOOSE g : g = [p \in Nat |-> IF p < n THEN g[2 * p] ELSE p]

(* What doubling as long as a number is below n can reach from p, and      *)
(* where it ends.                                                          *)
Closed(S, n) == \A x \in S : x < n => 2 * x \in S
Reach(p, n) == {q \in Nat : \A S \in SUBSET Nat :
                              p \in S /\ Closed(S, n) => q \in S}
Ends(p, n) == {q \in Reach(p, n) : q >= n}

(* A number below n ends where its double does. *)
LEMMA EndsDouble ==
  ASSUME NEW n \in Nat, NEW p \in Nat, p < n
  PROVE  Ends(p, n) = Ends(2 * p, n)
<1>1. Reach(2 * p, n) \subseteq Reach(p, n)
  BY DEF Reach, Closed
<1>2. ASSUME NEW q \in Reach(p, n), q >= n
      PROVE  q \in Reach(2 * p, n)
  <2> SUFFICES ASSUME NEW S \in SUBSET Nat, 2 * p \in S, Closed(S, n)
               PROVE  q \in S
    BY <1>2 DEF Reach
  <2>1. Closed(S \cup {p}, n) /\ S \cup {p} \in SUBSET Nat
    BY DEF Closed
  <2>2. q \in S \cup {p}
    BY <1>2, <2>1 DEF Reach
  <2> QED BY <1>2, <2>2 DEF Reach
<1> QED BY <1>1, <1>2 DEF Ends

(* A number that is not below n is where it ends. *)
LEMMA EndsHere ==
  ASSUME NEW n \in Nat, NEW p \in Nat, n <= p
  PROVE  Ends(p, n) = {p}
<1>1. Closed({p}, n)
  BY DEF Closed
<1>2. \A q \in Reach(p, n) : q = p
  BY <1>1 DEF Reach
<1>3. p \in Reach(p, n)
  BY DEF Reach
<1> QED BY <1>2, <1>3 DEF Ends

(* So the recursion is obeyed. *)
LEMMA GrowRecursion ==
  ASSUME NEW n \in Nat
  PROVE  Grow(n) = [p \in Nat |-> IF p < n THEN Grow(n)[2 * p] ELSE p]
<1> DEFINE h == [p \in Nat |-> CHOOSE q : q \in Ends(p, n)]
<1>1. ASSUME NEW p \in Nat
      PROVE  h[p] = IF p < n THEN h[2 * p] ELSE p
  <2>1. h[p] = (CHOOSE q : q \in Ends(p, n)) /\ 2 * p \in Nat
    OBVIOUS
  <2>2. h[2 * p] = (CHOOSE q : q \in Ends(2 * p, n))
    BY <2>1
  <2>3. CASE p < n
    BY <2>1, <2>2, <2>3, EndsDouble, Zenon
  <2>4. CASE ~ (p < n)
    <3>1. Ends(p, n) = {p}
      BY <2>4, EndsHere
    <3>2. (CHOOSE q : q \in {p}) = p
      OBVIOUS
    <3> QED BY <2>1, <2>4, <3>1, <3>2
  <2> QED BY <2>3, <2>4
<1>2. h = [p \in Nat |-> IF p < n THEN h[2 * p] ELSE p]
  <2>1. h = [p \in Nat |-> h[p]]
    OBVIOUS
  <2> HIDE DEF h
  <2> QED BY <1>1, <2>1
<1> HIDE DEF h
<1> QED BY <1>2, Zenon DEF Grow

LEMMA GrowStep ==
  ASSUME NEW n \in Nat, NEW p \in Nat
  PROVE  Grow(n)[p] = IF p < n THEN Grow(n)[2 * p] ELSE p
<1>1. PICK g : g = Grow(n)
  OBVIOUS
<1>2. g = [q \in Nat |-> IF q < n THEN g[2 * q] ELSE q]
  BY <1>1, GrowRecursion
<1>3. g[p] = IF p < n THEN g[2 * p] ELSE p
  BY <1>2
<1> QED BY <1>1, <1>3

(* next_pow2() of a size in range is the power of two at or above it that  *)
(* is below its double, hence the least one.                               *)
LEMMA NextPow2Rounds ==
  ASSUME NEW n \in Nat, 1 <= n, n <= 4096
  PROVE  NextPow2(n) \in Pows /\ n <= NextPow2(n) /\ NextPow2(n) < 2 * n
<1> DEFINE g == Grow(n)
<1>1. NextPow2(n) = g[1]
  BY DEF NextPow2, Grow
<1>2. ASSUME NEW p \in Nat
      PROVE  g[p] = IF p < n THEN g[2 * p] ELSE p
  BY GrowStep
<1> HIDE DEF g
<1>3. /\ g[1] = IF 1 < n THEN g[2] ELSE 1
      /\ g[2] = IF 2 < n THEN g[4] ELSE 2
      /\ g[4] = IF 4 < n THEN g[8] ELSE 4
      /\ g[8] = IF 8 < n THEN g[16] ELSE 8
      /\ g[16] = IF 16 < n THEN g[32] ELSE 16
      /\ g[32] = IF 32 < n THEN g[64] ELSE 32
      /\ g[64] = IF 64 < n THEN g[128] ELSE 64
  BY <1>2
<1>4. /\ g[128] = IF 128 < n THEN g[256] ELSE 128
      /\ g[256] = IF 256 < n THEN g[512] ELSE 256
      /\ g[512] = IF 512 < n THEN g[1024] ELSE 512
      /\ g[1024] = IF 1024 < n THEN g[2048] ELSE 1024
      /\ g[2048] = IF 2048 < n THEN g[4096] ELSE 2048
      /\ g[4096] = 4096
  BY <1>2
<1>5. g[1] \in Pows /\ n <= g[1] /\ g[1] < 2 * n
  BY <1>3, <1>4 DEF Pows
<1> QED BY <1>1, <1>5

(* The powers, with 2^k given a name that the provers leave alone. *)
Exp(k) == 2^k

LEMMA Exponents ==
  /\ Exp(0) = 1 /\ Exp(1) = 2 /\ Exp(2) = 4 /\ Exp(3) = 8 /\ Exp(4) = 16
  /\ Exp(5) = 32 /\ Exp(6) = 64 /\ Exp(7) = 128 /\ Exp(8) = 256
  /\ Exp(9) = 512 /\ Exp(10) = 1024 /\ Exp(11) = 2048 /\ Exp(12) = 4096
  BY DEF Exp

(* n & (n - 1) is zero for these. *)
LEMMA PowsArePow2 ==
  ASSUME NEW q \in Pows
  PROVE  IsPow2(q)
<1>1. \E k \in 0..12 : k <= q /\ q = Exp(k)
  BY Exponents DEF Pows
<1>2. PICK k \in 0..12 : k <= q /\ q = Exp(k)
  BY <1>1
<1>3. k \in 0..q
  BY <1>2 DEF Pows
<1>4. q = 2^k
  BY <1>2, Zenon DEF Exp
<1> QED BY <1>3, <1>4 DEF IsPow2

(* MAX_RING_SIZE is one of them, and nothing that is rounded up gets past  *)
(* it.                                                                     *)
LEMMA MaxRingIsPow ==
  /\ MaxRing \in Pows /\ MaxRing >= 2
  /\ \A q \in Pows : q < 2 * MaxRing => q <= MaxRing
<1>1. PICK k \in 1..12 : MaxRing = 2^k
  BY TuningAssumption
<1>2. MaxRing = Exp(k)
  BY <1>1, Zenon DEF Exp
<1>3. MaxRing \in {2, 4, 8, 16, 32, 64, 128, 256, 512, 1024, 2048, 4096}
  BY <1>2, Exponents
<1> QED BY <1>3 DEF Pows

(* The ring's size as insmod computes it from ring_size. *)
Rounded(n) == IF IsPow2(n) THEN n ELSE NextPow2(n)

(* Whatever is in range is rounded to a power of two that ring_init()      *)
(* takes.                                                                  *)
LEMMA RoundedFits ==
  ASSUME NEW n \in Nat, 2 <= n, n <= MaxRing
  PROVE  /\ Rounded(n) \in Nat
         /\ RingAccepts(Rounded(n))
         /\ n <= Rounded(n) /\ Rounded(n) < 2 * n
<1>1. MaxRing \in Nat /\ MaxRing <= 4096 /\ 1 <= n /\ n <= 4096
  BY MaxRingIsPow DEF Pows
<1>2. CASE IsPow2(n)
  BY <1>1, <1>2 DEF Rounded, RingAccepts
<1>3. CASE ~ IsPow2(n)
  <2>0. Rounded(n) = NextPow2(n)
    BY <1>3, Zenon DEF Rounded
  <2>1. Rounded(n) \in Pows /\ n <= Rounded(n) /\ Rounded(n) < 2 * n
    <3>1. NextPow2(n) \in Pows /\ n <= NextPow2(n) /\ NextPow2(n) < 2 * n
      BY <1>1, NextPow2Rounds
    <3> QED BY <2>0, <3>1
  <2>2. Rounded(n) \in Nat
    BY <2>1 DEF Pows
  <2>3. Rounded(n) <= MaxRing
    BY <1>1, <2>1, <2>2, MaxRingIsPow
  <2>4. IsPow2(Rounded(n))
    BY <2>1, PowsArePow2
  <2> HIDE DEF Rounded
  <2> QED BY <2>1, <2>2, <2>3, <2>4 DEF RingAccepts
<1> QED BY <1>2, <1>3

(* A power of two from 2 up to MaxRing has its exponent there as well. *)
LEMMA ExponentInRange ==
  ASSUME NEW q \in Nat, 2 <= q, RingAccepts(q)
  PROVE  \E k \in 1..MaxRing : q = 2^k
<1>1. MaxRing \in Nat
  BY MaxRingIsPow DEF Pows
<1>2. PICK k \in 0..q : q = 2^k
  BY DEF RingAccepts, IsPow2
<1>3. k # 0
  <2>1. q = Exp(k)
    BY <1>2, Zenon DEF Exp
  <2> QED BY <2>1, Exponents
<1>4. q <= MaxRing
  BY DEF RingAccepts
<1>5. k \in 1..MaxRing
  BY <1>1, <1>3, <1>4
<1> QED BY <1>2, <1>5

-----------------------------------------------------------------------------
(* A size that was taken fits, one that was refused was out of range. *)
LEMMA InsmodSizeStep ==
  ASSUME NEW n \in Sizes, NEW ms \in Intervals, TypeOK, RingSizeFits,
         Insmod(n, ms)
  PROVE  TypeOK' /\ RingSizeFits'
<1>0. /\ MinMs \in Nat /\ ms \in Nat /\ n \in Nat /\ MaxRing \in Nat
  BY TuningAssumption, MaxRingIsPow DEF Pows
<1>1. /\ asked' = n /\ UNCHANGED <<left, age, slept, gap, fresh>>
      /\ \/ /\ 2 <= n /\ n <= MaxRing /\ RingAccepts(Rounded(n))
            /\ loaded' = "yes" /\ size' = Rounded(n)
            /\ interval' = Larger(ms, MinMs) /\ pc' = "ready"
         \/ /\ ~ (2 <= n /\ n <= MaxRing /\ RingAccepts(Rounded(n)))
            /\ loaded' = "refused" /\ UNCHANGED <<size, interval, pc>>
  BY DEF Insmod, FirstInterval, Rounded
<1>2. CASE 2 <= n /\ n <= MaxRing /\ RingAccepts(Rounded(n))
  <2>1. /\ Rounded(n) \in Nat /\ RingAccepts(Rounded(n))
        /\ n <= Rounded(n) /\ Rounded(n) < 2 * n
    BY <1>0, <1>2, RoundedFits
  <2>2. 2 <= Rounded(n) /\ Rounded(n) <= MaxRing
    BY <1>0, <1>2, <2>1 DEF RingAccepts
  <2>3. \E k \in 1..MaxRing : Rounded(n) = 2^k
    BY <2>1, <2>2, ExponentInRange
  <2>4. loaded' = "yes" /\ size' = Rounded(n) /\ asked' = n
    BY <1>1, <1>2
  <2>5. RingSizeFits'
    BY <2>1, <2>2, <2>3, <2>4 DEF RingSizeFits
  <2>6. interval' = Larger(ms, MinMs) /\ pc' = "ready"
    BY <1>1, <1>2
  <2>7. Larger(ms, MinMs) \in Nat /\ Larger(ms, MinMs) >= MinMs
    BY <1>0 DEF Larger
  <2>8. TypeOK'
    BY <1>0, <1>1, <2>1, <2>2, <2>4, <2>6, <2>7 DEF TypeOK
  <2> QED BY <2>5, <2>8
<1>3. CASE ~ (2 <= n /\ n <= MaxRing /\ RingAccepts(Rounded(n)))
  <2>1. n < 2 \/ n > MaxRing
    BY <1>0, <1>3, RoundedFits
  <2>2. loaded' = "refused" /\ asked' = n /\ UNCHANGED <<size, interval, pc>>
    BY <1>1, <1>3
  <2>3. RingSizeFits'
    BY <2>1, <2>2 DEF RingSizeFits
  <2>4. TypeOK'
    BY <1>0, <1>1, <2>2 DEF TypeOK
  <2> QED BY <2>3, <2>4
<1> QED BY <1>2, <1>3

(* Nothing but insmod touches the size. *)
LEMMA SizeKept ==
  ASSUME RingSizeFits, UNCHANGED <<loaded, asked, size>>
  PROVE  RingSizeFits'
  BY DEF RingSizeFits

(* Invariant: the types, and the size that the sizes in range round to. *)
LEMMA SizeInvariance == Spec => [](TypeOK /\ RingSizeFits)
<1>0. MinMs \in Nat /\ MaxRing \in Nat /\ Intervals \subseteq Nat
  BY TuningAssumption, MaxRingIsPow DEF Pows
<1>1. Init => TypeOK /\ RingSizeFits
  BY <1>0 DEF Init, TypeOK, RingSizeFits
<1>2. TypeOK /\ RingSizeFits /\ [Next]_vars => (TypeOK /\ RingSizeFits)'
  <2> SUFFICES ASSUME TypeOK, RingSizeFits, [Next]_vars
               PROVE  TypeOK' /\ RingSizeFits'
    OBVIOUS
  <2>1. ASSUME NEW n \in Sizes, NEW ms \in Intervals, Insmod(n, ms)
        PROVE  TypeOK' /\ RingSizeFits'
    BY <2>1, InsmodSizeStep
  <2>2. ASSUME NEW ms \in Intervals, SetInterval(ms)
        PROVE  TypeOK' /\ RingSizeFits'
    <3>1. /\ ms \in Nat /\ ms >= MinMs /\ interval' = ms /\ fresh' = 0
          /\ UNCHANGED <<loaded, asked, size, pc, left, age, slept, gap>>
      BY <1>0, <2>2 DEF SetInterval, Accepts, timing
    <3>2. TypeOK'
      BY <3>1 DEF TypeOK
    <3> QED BY <3>1, <3>2, SizeKept
  <2>3. CASE CollectorStarts
    <3>1. UNCHANGED <<loaded, asked, size>>
      BY <2>3 DEF CollectorStarts
    <3>2. TypeOK'
      BY <2>3 DEF CollectorStarts, TypeOK, Lesser
    <3> QED BY <3>1, <3>2, SizeKept
  <2>4. CASE CollectorSleeps
    <3>1. UNCHANGED <<loaded, asked, size>>
      BY <2>4 DEF CollectorSleeps
    <3>2. /\ slept' = interval /\ left' = interval
          /\ pc' \in {"stuck", "sleep"}
          /\ UNCHANGED <<loaded, asked, size, interval, age, fresh, gap>>
      BY <2>4 DEF CollectorSleeps, IntervalRead
    <3>3. TypeOK'
      BY <3>2 DEF TypeOK
    <3> QED BY <3>1, <3>3, SizeKept
  <2>5. CASE CollectorWakes
    <3>1. UNCHANGED <<loaded, asked, size>>
      BY <2>5 DEF CollectorWakes
    <3>2. TypeOK'
      BY <2>5 DEF CollectorWakes, TypeOK, Lesser
    <3> QED BY <3>1, <3>2, SizeKept
  <2>6. CASE Tick
    <3>1. UNCHANGED <<loaded, asked, size>>
      BY <2>6 DEF Tick
    <3>2. TypeOK'
      BY <2>6 DEF Tick, TypeOK
    <3> QED BY <3>1, <3>2, SizeKept
  <2>7. CASE UNCHANGED vars
    BY <2>7 DEF vars, timing, TypeOK, RingSizeFits
  <2> QED BY <2>1, <2>2, <2>3, <2>4, <2>5, <2>6, <2>7 DEF Next, Collector
<1> QED BY <1>1, <1>2, PTL DEF Spec

(* The ring's size, the interval and the collector's clocks keep their     *)
(* types, and no loaded module has an interval below the minimum           *)
(* (gpu_telem_init() and gpu_ioctl(), gpu_telem_core.c:353, 401).          *)
THEOREM TuningTypeCorrect == Spec => []TypeOK
BY SizeInvariance, PTL

(* For every ring_size, the ring is the smallest power of two that holds   *)
(* it, and insmod refuses exactly the sizes outside 2..MAX_RING_SIZE       *)
(* (next_pow2() and gpu_telem_init(), gpu_telem_core.c:374-395).           *)
THEOREM RingSizeAlwaysFits == Spec => []RingSizeFits
BY SizeInvariance, PTL
=============================================================================
