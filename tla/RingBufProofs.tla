--------------------------- MODULE RingBufProofs ---------------------------
(***************************************************************************)
(* Proofs about RingBuf, for every ring size that ring_init() accepts and  *)
(* any number of words, tasks, descriptors and pushed samples.             *)
(***************************************************************************)
EXTENDS RingBuf, FiniteFolds, TLAPS

-----------------------------------------------------------------------------
(* Slots. *)

(* seq & mask names a slot of the ring, whatever the sequence number. *)
LEMMA SlotType ==
  ASSUME NEW k \in Nat
  PROVE  Slot(k) \in Slots
BY SizeAssumption DEF Slot, Slots, RingSizes

(* Fewer than Size apart, two sequence numbers never share a slot: the     *)
(* slot ring_push() overwrites is not one a reader may still copy.         *)
LEMMA SlotDistinct ==
  ASSUME NEW a \in Nat, NEW b \in Nat, a < b, b - a < Size
  PROVE  Slot(a) # Slot(b)
BY SizeAssumption DEF Slot, RingSizes

LEMMA SizePositive == Size \in Nat /\ Size > 0
BY SizeAssumption DEF RingSizes

LEMMA StampType ==
  ASSUME NEW raw \in [Words -> Nat]
  PROVE  Stamp(raw) \in Nat
BY WordsAssumption DEF Stamp, Words

(* A sample copied whole is recognised. *)
LEMMA StampWhole ==
  ASSUME NEW raw \in [Words -> Nat], NEW k \in Nat,
         \A w \in Words : raw[w] = k
  PROVE  Stamp(raw) = k
BY WordsAssumption DEF Stamp, Words

(* The fast-forward is never negative and leaves at most Size samples. *)
LEMMA SkipBounds ==
  ASSUME NEW behind \in Nat, behind > 0
  PROVE  /\ Skip(behind) \in Nat
         /\ behind - Skip(behind) \in 1..Size
         /\ Skip(behind) > 0 => behind - Skip(behind) = Size
BY SizePositive DEF Skip

LEMMA LesserBounds ==
  ASSUME NEW a \in Nat, NEW b \in Nat
  PROVE  Lesser(a, b) \in Nat /\ Lesser(a, b) <= a /\ Lesser(a, b) <= b
BY DEF Lesser

-----------------------------------------------------------------------------
(* Type correctness: next_seq, dropped and the copy registers stay natural *)
(* numbers, head_seq stays within its bound, for every step of the ring.   *)
PushBounded == wpc = "copy" => head_seq < MaxHead

THEOREM TypeCorrect == Spec => []TypeOK
<1> DEFINE TInv == TypeOK /\ PushBounded
<1>1. Init => TInv
  <2> SUFFICES ASSUME Init PROVE TInv
    OBVIOUS
  <2>1. fd \in [Tasks -> Fds]
    <3>1. (CHOOSE f \in Fds : TRUE) \in Fds
      BY FdsAssumption, Zenon
    <3> QED
      BY <3>1, Zenon DEF Init
  <2>2. /\ head_seq \in 0..MaxHead
        /\ wword \in 1..NWords + 1
        /\ word \in [Tasks -> 1..NWords + 1]
    BY BoundAssumption, WordsAssumption DEF Init
  <2>3. /\ samples \in [Slots -> [Words -> Nat]]
        /\ out \in [Tasks -> [Words -> Nat]]
    BY DEF Init, Sample
  <2>4. /\ dropped \in Nat /\ retired \in Int
        /\ left \in [Tasks -> Nat]
        /\ next_seq \in [Fds -> Nat] /\ start \in [Fds -> Nat]
        /\ received \in [Fds -> Seq(Nat)]
        /\ opened \subseteq Fds
    BY DEF Init
  <2>5. /\ lock \in BOOLEAN /\ wpc = "idle"
        /\ pc \in [Tasks -> {"idle", "locked", "copy"}]
    BY DEF Init
  <2> QED
    BY <2>1, <2>2, <2>3, <2>4, <2>5 DEF TypeOK, PushBounded
<1>2. TInv /\ [Next]_vars => TInv'
  <2> SUFFICES ASSUME TypeOK, PushBounded, [Next]_vars
               PROVE  TypeOK' /\ PushBounded'
    OBVIOUS
  <2> USE DEF TypeOK, PushBounded, ringVars, taskVars, fdVars
  <2>1. CASE PushLock
    BY <2>1, WordsAssumption DEF PushLock
  <2>2. CASE PushWord
    <3>1. Slot(head_seq) \in Slots /\ wword \in Words /\ head_seq + 1 \in Nat
      BY <2>2, SlotType, BoundAssumption DEF PushWord, Words
    <3>2. samples' \in [Slots -> [Words -> Nat]]
      BY <2>2, <3>1 DEF PushWord
    <3> QED
      BY <2>2, <3>2, WordsAssumption DEF PushWord
  <2>3. CASE PushPublish
    BY <2>3, BoundAssumption, WordsAssumption DEF PushPublish
  <2>4. CASE PushUnlock
    BY <2>4 DEF PushUnlock
  <2>5. ASSUME NEW t \in Tasks, ConsumeLock(t)
        PROVE  TypeOK' /\ PushBounded'
    <3>1. fd' \in [Tasks -> Fds] /\ left' \in [Tasks -> Nat]
      BY <2>5, MaxArgsAssumption DEF ConsumeLock
    <3> QED
      BY <2>5, <3>1 DEF ConsumeLock
  <2>6. ASSUME NEW t \in Tasks, ConsumeNothing(t)
        PROVE  TypeOK' /\ PushBounded'
    BY <2>6 DEF ConsumeNothing
  <2>7. ASSUME NEW t \in Tasks, ConsumeWindow(t)
        PROVE  TypeOK' /\ PushBounded'
    <3> DEFINE behind == head_seq - next_seq[fd[t]]
    <3>1. behind \in Nat /\ behind > 0
      BY <2>7, BoundAssumption DEF ConsumeWindow
    <3> HIDE DEF behind
    <3>2. Skip(behind) \in Nat /\ behind - Skip(behind) \in Nat
      <4>1. behind - Skip(behind) \in 1..Size /\ Skip(behind) \in Nat
        BY <3>1, SkipBounds
      <4> QED
        BY <4>1, SizePositive
    <3>3. dropped' = dropped + Skip(behind)
          /\ next_seq' = [next_seq EXCEPT ![fd[t]] = @ + Skip(behind)]
          /\ left' = [left EXCEPT ![t] = Lesser(behind - Skip(behind), @)]
          /\ word' = [word EXCEPT ![t] = 1]
          /\ pc' = [pc EXCEPT ![t] = "copy"]
          /\ UNCHANGED <<ringVars, fd, out, opened, start, received, retired>>
      BY <2>7 DEF ConsumeWindow, behind
    <3>4. Lesser(behind - Skip(behind), left[t]) \in Nat
      BY <3>2 DEF Lesser
    <3>5. /\ dropped' \in Nat
          /\ next_seq' \in [Fds -> Nat]
          /\ left' \in [Tasks -> Nat]
          /\ word' \in [Tasks -> 1..NWords + 1]
          /\ pc' \in [Tasks -> {"idle", "locked", "copy"}]
      BY <3>2, <3>3, <3>4, WordsAssumption
    <3> QED
      BY <3>3, <3>5
  <2>8. ASSUME NEW t \in Tasks, CopyWord(t)
        PROVE  TypeOK' /\ PushBounded'
    <3>1. /\ Slot(next_seq[fd[t]]) \in Slots
          /\ word[t] \in Words
      BY <2>8, SlotType DEF CopyWord, Words
    <3>2. samples[Slot(next_seq[fd[t]])][word[t]] \in Nat
      BY <3>1
    <3>3. out' \in [Tasks -> [Words -> Nat]]
      BY <2>8, <3>1, <3>2 DEF CopyWord
    <3>4. word' \in [Tasks -> 1..NWords + 1]
      BY <2>8, WordsAssumption DEF CopyWord
    <3> QED
      BY <2>8, <3>3, <3>4 DEF CopyWord
  <2>9. ASSUME NEW t \in Tasks, CopyNext(t)
        PROVE  TypeOK' /\ PushBounded'
    <3>1. Stamp(out[t]) \in Nat
      BY StampType
    <3>2. received' \in [Fds -> Seq(Nat)]
      BY <2>9, <3>1 DEF CopyNext
    <3>3. Sample(0) \in [Words -> Nat]
      BY DEF Sample
    <3> QED
      BY <2>9, <3>2, <3>3, WordsAssumption DEF CopyNext
  <2>10. ASSUME NEW t \in Tasks, ConsumeUnlock(t)
         PROVE  TypeOK' /\ PushBounded'
    BY <2>10 DEF ConsumeUnlock
  <2>11. ASSUME NEW f \in Fds, Attach(f)
         PROVE  TypeOK' /\ PushBounded'
    BY <2>11, BoundAssumption DEF Attach
  <2>12. ASSUME NEW f \in Fds, Detach(f)
         PROVE  TypeOK' /\ PushBounded'
    <3>1. Skipped(f) \in Int
      BY DEF Skipped
    <3> QED
      BY <2>12, <3>1 DEF Detach
  <2>13. CASE UNCHANGED vars
    BY <2>13 DEF vars
  <2> QED
    BY <2>1, <2>2, <2>3, <2>4, <2>5, <2>6, <2>7, <2>8, <2>9, <2>10, <2>11,
       <2>12, <2>13 DEF Next, Push, Read
<1> QED
  BY <1>1, <1>2, PTL DEF Spec

-----------------------------------------------------------------------------
(* The invariant, part by part.  Each lemma says that a step of a typed    *)
(* state that satisfies IInv preserves one part of it.                     *)

(* The spinlock: no step lets two threads into the critical sections. *)
LEMMA LockStep ==
  ASSUME TypeOK, LockInv, [Next]_vars
  PROVE  LockInv'
<1> USE DEF TypeOK, LockInv, ringVars, taskVars, fdVars
<1>1. CASE PushLock
  BY <1>1 DEF PushLock
<1>2. CASE PushWord
  BY <1>2 DEF PushWord
<1>3. CASE PushPublish
  BY <1>3 DEF PushPublish
<1>4. CASE PushUnlock
  BY <1>4 DEF PushUnlock
<1>5. ASSUME NEW t \in Tasks, ConsumeLock(t)
      PROVE  LockInv'
  BY <1>5 DEF ConsumeLock
<1>6. ASSUME NEW t \in Tasks, ConsumeNothing(t)
      PROVE  LockInv'
  BY <1>6 DEF ConsumeNothing
<1>7. ASSUME NEW t \in Tasks, ConsumeWindow(t)
      PROVE  LockInv'
  BY <1>7 DEF ConsumeWindow
<1>8. ASSUME NEW t \in Tasks, CopyWord(t) \/ CopyNext(t)
      PROVE  LockInv'
  BY <1>8 DEF CopyWord, CopyNext
<1>9. ASSUME NEW t \in Tasks, ConsumeUnlock(t)
      PROVE  LockInv'
  BY <1>9 DEF ConsumeUnlock
<1>10. ASSUME NEW f \in Fds, Attach(f) \/ Detach(f)
       PROVE  LockInv'
  BY <1>10 DEF Attach, Detach
<1>11. CASE UNCHANGED vars
  BY <1>11 DEF vars
<1> QED
  BY <1>1, <1>2, <1>3, <1>4, <1>5, <1>6, <1>7, <1>8, <1>9, <1>10, <1>11
     DEF Next, Push, Read

(* Only ring_push() writes slots and head_seq. *)
LEMMA ReadersLeaveRing ==
  ASSUME [Next]_vars, ~Push
  PROVE  UNCHANGED <<samples, head_seq, wpc, wword>>
BY DEF Next, Push, Read, ConsumeLock, ConsumeNothing, ConsumeWindow, CopyWord,
       CopyNext, ConsumeUnlock, Attach, Detach, vars, ringVars

LEMMA PushStep ==
  ASSUME TypeOK, TypeOK', PushInv, [Next]_vars
  PROVE  PushInv'
<1> USE DEF TypeOK, PushInv
<1>1. CASE PushLock
  BY <1>1 DEF PushLock
<1>2. CASE PushWord
  <2>1. Slot(head_seq) \in Slots /\ wword \in Words
    BY <1>2, SlotType DEF PushWord, Words
  <2>2. samples'[Slot(head_seq)] =
          [samples[Slot(head_seq)] EXCEPT ![wword] = head_seq + 1]
    BY <1>2, <2>1 DEF PushWord
  <2>3. \A w \in 1..wword : samples'[Slot(head_seq)][w] = head_seq + 1
    BY <1>2, <2>1, <2>2 DEF PushWord, Words
  <2> QED
    BY <1>2, <2>3 DEF PushWord
<1>3. CASE PushPublish \/ PushUnlock
  BY <1>3 DEF PushPublish, PushUnlock
<1>4. CASE ~Push
  BY <1>4, ReadersLeaveRing
<1> QED
  BY <1>1, <1>2, <1>3, <1>4 DEF Push

(* The window: a push overwrites only the slot of the sample that leaves   *)
(* the window, and publishes a sample only when all its words are there.   *)
LEMMA WindowStep ==
  ASSUME TypeOK, TypeOK', PushInv, WindowIntact, [Next]_vars
  PROVE  WindowIntact'
<1> USE DEF TypeOK
<1>1. CASE PushLock
  BY <1>1, SizePositive DEF PushLock, WindowIntact
<1>2. CASE PushWord
  <2> SUFFICES ASSUME NEW k \in 0..head_seq - 1, head_seq - Size < k
               PROVE  samples'[Slot(k)] = Sample(k + 1)
    BY <1>2 DEF PushWord, WindowIntact
  <2>1. samples[Slot(k)] = Sample(k + 1)
    BY <1>2 DEF PushWord, WindowIntact
  <2>2. Slot(k) # Slot(head_seq)
    BY SlotDistinct, SizePositive
  <2>3. Slot(k) \in Slots /\ Slot(head_seq) \in Slots
    BY SlotType
  <2> QED
    BY <1>2, <2>1, <2>2, <2>3 DEF PushWord
<1>3. CASE PushPublish
  <2> SUFFICES ASSUME NEW k \in 0..head_seq, head_seq - Size < k
               PROVE  samples[Slot(k)] = Sample(k + 1)
    BY <1>3, SizePositive DEF PushPublish, WindowIntact
  <2>1. CASE k < head_seq
    BY <1>3, <2>1 DEF PushPublish, WindowIntact
  <2>2. CASE k = head_seq
    <3>1. \A w \in Words : samples[Slot(k)][w] = k + 1
      BY <1>3, <2>2, WordsAssumption DEF PushPublish, PushInv, Words
    <3>2. samples[Slot(k)] \in [Words -> Nat]
      BY SlotType
    <3>3. samples[Slot(k)] = [w \in Words |-> samples[Slot(k)][w]]
      BY <3>2
    <3> QED
      BY <3>1, <3>3, Zenon DEF Sample
  <2> QED
    BY <2>1, <2>2
<1>4. CASE PushUnlock
  BY <1>4 DEF PushUnlock, WindowIntact
<1>5. CASE ~Push
  BY <1>5, ReadersLeaveRing DEF WindowIntact
<1> QED
  BY <1>1, <1>2, <1>3, <1>4, <1>5 DEF Push

(* The copy loop stays inside the window, and what it has copied is the    *)
(* sample the reader is due.                                               *)
LEMMA CopyStep ==
  ASSUME TypeOK, TypeOK', LockInv, WindowIntact, CopyInv, [Next]_vars
  PROVE  CopyInv'
<1> USE DEF ringVars, taskVars, fdVars
<1>0. /\ head_seq \in Nat
      /\ pc \in [Tasks -> {"idle", "locked", "copy"}]
      /\ fd \in [Tasks -> Fds] /\ next_seq \in [Fds -> Nat]
      /\ left \in [Tasks -> Nat] /\ word \in [Tasks -> 1..NWords + 1]
      /\ out \in [Tasks -> [Words -> Nat]]
  BY BoundAssumption DEF TypeOK
<1>1. CASE PushLock \/ PushWord \/ PushUnlock
  BY <1>0, <1>1 DEF PushLock, PushWord, PushUnlock, CopyInv
<1>2. CASE PushPublish
  BY <1>0, <1>2 DEF PushPublish, CopyInv, LockInv
<1>3. ASSUME NEW t \in Tasks, ConsumeLock(t)
      PROVE  CopyInv'
  BY <1>0, <1>3 DEF ConsumeLock, CopyInv, LockInv
<1>4. ASSUME NEW t \in Tasks, ConsumeNothing(t) \/ ConsumeUnlock(t)
      PROVE  CopyInv'
  BY <1>0, <1>4 DEF ConsumeNothing, ConsumeUnlock, CopyInv
<1>5. ASSUME NEW t \in Tasks, ConsumeWindow(t)
      PROVE  CopyInv'
  <2> DEFINE f == fd[t]
             behind == head_seq - next_seq[f]
  <2>1. f \in Fds /\ f \in opened /\ head_seq \in Nat /\ next_seq[f] \in Nat
    BY <1>0, <1>5 DEF ConsumeWindow, CopyInv
  <2>2. behind \in Nat /\ behind > 0
    BY <1>0, <1>5, <2>1 DEF ConsumeWindow
  <2>3. /\ next_seq'[f] = next_seq[f] + Skip(behind)
        /\ left'[t] = Lesser(behind - Skip(behind), left[t])
        /\ word'[t] = 1
    BY <1>0, <1>5, <2>1 DEF ConsumeWindow
  <2>4. /\ \A u \in Tasks : u # t => pc'[u] = "idle"
        /\ UNCHANGED <<head_seq, fd, opened>>
    BY <1>0, <1>5 DEF ConsumeWindow, LockInv
  <2> HIDE DEF behind
  <2>5. Skip(behind) \in Nat /\ behind - Skip(behind) \in 1..Size
    BY <2>2, SkipBounds
  <2>6. /\ Lesser(behind - Skip(behind), left[t]) \in Nat
        /\ Lesser(behind - Skip(behind), left[t]) <= behind - Skip(behind)
    BY <1>0, <2>5, SizePositive, LesserBounds
  <2>7. /\ next_seq'[f] + left'[t] <= head_seq
        /\ head_seq - next_seq'[f] <= Size
    BY <2>1, <2>2, <2>3, <2>5, <2>6, SizePositive DEF behind
  <2> QED
    BY <2>1, <2>3, <2>4, <2>7 DEF CopyInv
<1>6. ASSUME NEW t \in Tasks, CopyWord(t)
      PROVE  CopyInv'
  <2> DEFINE k == next_seq[fd[t]]
  <2>1. /\ k \in Nat /\ k < head_seq /\ head_seq - k <= Size
        /\ wpc = "idle" /\ word[t] \in Words
    BY <1>0, <1>6, BoundAssumption DEF CopyWord, CopyInv, LockInv, Words
  <2>2. samples[Slot(k)] = Sample(k + 1)
    BY <1>0, <2>1, SizePositive DEF WindowIntact
  <2>3. samples[Slot(k)][word[t]] = k + 1
    BY <2>1, <2>2 DEF Sample
  <2>4. /\ out' = [out EXCEPT ![t][word[t]] = k + 1]
        /\ word' = [word EXCEPT ![t] = @ + 1]
        /\ UNCHANGED <<head_seq, pc, fd, left, opened, next_seq>>
    BY <1>0, <1>6, <2>3 DEF CopyWord
  <2> HIDE DEF k
  <2>5. \A w \in 1..word'[t] - 1 : out'[t][w] = k + 1
    <3>1. \A w \in 1..word[t] - 1 : out[t][w] = k + 1
      BY <1>0, <1>6 DEF CopyWord, CopyInv, k
    <3>2. out'[t] = [out[t] EXCEPT ![word[t]] = k + 1]
      BY <1>0, <2>4
    <3>3. word'[t] = word[t] + 1 /\ out[t] \in [Words -> Nat]
      BY <1>0, <2>4
    <3>4. word[t] \in 1..NWords
      BY <2>1 DEF Words
    <3>5. \A w \in 1..word[t] : out'[t][w] = k + 1
      <4> SUFFICES ASSUME NEW w \in 1..word[t] PROVE out'[t][w] = k + 1
        OBVIOUS
      <4>1. w \in DOMAIN out[t]
        BY <3>3, <3>4, WordsAssumption DEF Words
      <4> QED
        BY <3>1, <3>2, <3>4, <4>1, WordsAssumption
    <3> QED
      BY <3>3, <3>4, <3>5, WordsAssumption
  <2>6. \A u \in Tasks : u # t => pc[u] = "idle"
    BY <1>0, <1>6 DEF CopyWord, LockInv
  <2> QED
    BY <1>0, <1>6, <2>4, <2>5, <2>6 DEF CopyInv, CopyWord, k
<1>7. ASSUME NEW t \in Tasks, CopyNext(t)
      PROVE  CopyInv'
  <2>1. \A u \in Tasks : u # t => pc[u] = "idle"
    BY <1>0, <1>7 DEF CopyNext, LockInv
  <2>2. next_seq'[fd[t]] = next_seq[fd[t]] + 1 /\ left'[t] = left[t] - 1
    BY <1>0, <1>7 DEF CopyNext
  <2> QED
    BY <1>0, <1>7, <2>1, <2>2, BoundAssumption, SizePositive DEF CopyNext, CopyInv
<1>8. ASSUME NEW f \in Fds, Attach(f)
      PROVE  CopyInv'
  BY <1>0, <1>8 DEF Attach, CopyInv
<1>9. ASSUME NEW f \in Fds, Detach(f)
      PROVE  CopyInv'
  BY <1>0, <1>9 DEF Detach, CopyInv
<1>10. CASE UNCHANGED vars
  BY <1>0, <1>10 DEF vars, CopyInv
<1> QED
  BY <1>1, <1>2, <1>3, <1>4, <1>5, <1>6, <1>7, <1>8, <1>9, <1>10
     DEF Next, Push, Read

(* A completed iteration hands the reader exactly the sample it is due. *)
LEMMA CopiedIsDue ==
  ASSUME TypeOK, CopyInv, NEW t \in Tasks, CopyNext(t)
  PROVE  /\ fd[t] \in opened
         /\ next_seq[fd[t]] < head_seq
         /\ received' = [received EXCEPT ![fd[t]] = Append(@, next_seq[fd[t]] + 1)]
<1>0. /\ head_seq \in Nat /\ next_seq[fd[t]] \in Nat /\ left[t] \in Nat
      /\ word[t] \in 1..NWords + 1 /\ out[t] \in [Words -> Nat]
  BY BoundAssumption DEF TypeOK
<1>1. \A w \in Words : out[t][w] = next_seq[fd[t]] + 1
  <2>1. pc[t] = "copy" /\ word[t] > NWords
    BY DEF CopyNext
  <2>2. \A w \in 1..word[t] - 1 : out[t][w] = next_seq[fd[t]] + 1
    BY <2>1 DEF CopyInv
  <2>3. Words = 1..word[t] - 1
    BY <1>0, <2>1, WordsAssumption DEF Words
  <2> QED
    BY <2>2, <2>3
<1>2. next_seq[fd[t]] + 1 \in Nat
  BY <1>0
<1>3. Stamp(out[t]) = next_seq[fd[t]] + 1
  BY <1>0, <1>1, <1>2, StampWhole
<1> QED
  BY <1>0, <1>3 DEF CopyNext, CopyInv

(* A move of one cursor forward, and no further than head_seq, keeps what  *)
(* every descriptor was handed in order.                                   *)
LEMMA OrderStep ==
  ASSUME TypeOK, TypeOK', CopyInv, InOrder, [Next]_vars
  PROVE  InOrder'
<1> USE DEF ringVars, taskVars, fdVars
<1>0. /\ head_seq \in Nat /\ fd \in [Tasks -> Fds]
      /\ opened \subseteq Fds
      /\ next_seq \in [Fds -> Nat] /\ start \in [Fds -> Nat]
      /\ received \in [Fds -> Seq(Nat)]
  BY BoundAssumption DEF TypeOK
<1>1. CASE PushLock \/ PushWord \/ PushUnlock
  BY <1>1 DEF PushLock, PushWord, PushUnlock, InOrder
<1>2. CASE PushPublish
  BY <1>0, <1>2 DEF PushPublish, InOrder
<1>3. ASSUME NEW t \in Tasks,
             ConsumeLock(t) \/ ConsumeNothing(t) \/ CopyWord(t) \/ ConsumeUnlock(t)
      PROVE  InOrder'
  BY <1>3 DEF ConsumeLock, ConsumeNothing, CopyWord, ConsumeUnlock, InOrder
<1>4. ASSUME NEW t \in Tasks, ConsumeWindow(t)
      PROVE  InOrder'
  <2> DEFINE f == fd[t]
             behind == head_seq - next_seq[f]
  <2>1. f \in Fds /\ head_seq \in Nat /\ next_seq[f] \in Nat
    BY <1>0
  <2>2. behind \in Nat /\ behind > 0
    BY <1>0, <1>4, <2>1 DEF ConsumeWindow
  <2>3. /\ next_seq' = [next_seq EXCEPT ![f] = @ + Skip(behind)]
        /\ UNCHANGED <<head_seq, opened, start, received>>
    BY <1>4 DEF ConsumeWindow
  <2> HIDE DEF behind
  <2>4. Skip(behind) \in Nat /\ behind - Skip(behind) \in 1..Size
    BY <2>2, SkipBounds
  <2>5. next_seq[f] <= next_seq'[f] /\ next_seq'[f] <= head_seq
    BY <1>0, <2>1, <2>3, <2>4, SizePositive DEF behind
  <2>6. \A g \in opened :
          /\ next_seq[g] <= next_seq'[g] /\ next_seq'[g] <= head_seq
          /\ next_seq'[g] \in Nat
    <3> SUFFICES ASSUME NEW g \in opened
                 PROVE  /\ next_seq[g] <= next_seq'[g]
                        /\ next_seq'[g] <= head_seq
                        /\ next_seq'[g] \in Nat
      OBVIOUS
    <3>1. g \in Fds /\ next_seq[g] \in Nat /\ next_seq[g] <= head_seq
      BY <1>0 DEF InOrder
    <3>2. CASE g = f
      BY <1>0, <2>1, <2>3, <2>4, <2>5, <3>2
    <3>3. CASE g # f
      BY <1>0, <2>3, <3>1, <3>3
    <3> QED
      BY <3>2, <3>3
  <2> QED
    BY <1>0, <2>3, <2>6 DEF InOrder
<1>5. ASSUME NEW t \in Tasks, CopyNext(t)
      PROVE  InOrder'
  <2> DEFINE f == fd[t]
             s == received[f]
             k == next_seq[f] + 1
  <2>1. /\ f \in opened /\ k <= head_seq /\ k \in Nat /\ s \in Seq(Nat)
        /\ received' = [received EXCEPT ![f] = Append(s, k)]
    <3>1. f \in opened /\ next_seq[f] \in Nat /\ s \in Seq(Nat)
      BY <1>0, <1>5, CopiedIsDue
    <3> QED
      BY <1>0, <1>5, <3>1, CopiedIsDue
  <2>2. /\ next_seq' = [next_seq EXCEPT ![f] = k]
        /\ UNCHANGED <<head_seq, opened, start>>
    BY <1>0, <1>5 DEF CopyNext
  <2>3. /\ Len(received'[f]) = Len(s) + 1
        /\ received'[f][Len(s) + 1] = k
        /\ \A i \in 1..Len(s) : received'[f][i] = s[i]
    BY <1>0, <2>1
  <2>4. /\ \A i \in 1..Len(s) : start[f] < s[i] /\ s[i] < k
        /\ \A i, j \in 1..Len(s) : i < j => s[i] < s[j]
    BY <1>0, <2>1 DEF InOrder
  <2>5. start[f] < k
    BY <1>0, <2>1 DEF InOrder
  <2> HIDE DEF k, s
  <2>6. /\ \A i \in 1..Len(received'[f]) :
             start'[f] < received'[f][i] /\ received'[f][i] <= next_seq'[f]
        /\ \A i, j \in 1..Len(received'[f]) :
             i < j => received'[f][i] < received'[f][j]
        /\ start'[f] <= next_seq'[f] /\ next_seq'[f] <= head_seq'
    BY <1>0, <2>1, <2>2, <2>3, <2>4, <2>5
  <2>7. \A g \in opened :
          g # f => received'[g] = received[g] /\ next_seq'[g] = next_seq[g]
    BY <1>0, <2>1, <2>2
  <2> QED
    BY <1>0, <2>2, <2>6, <2>7 DEF InOrder
<1>6. ASSUME NEW f \in Fds, Attach(f)
      PROVE  InOrder'
  BY <1>0, <1>6 DEF Attach, InOrder
<1>7. ASSUME NEW f \in Fds, Detach(f)
      PROVE  InOrder'
  BY <1>0, <1>7 DEF Detach, InOrder
<1>8. CASE UNCHANGED vars
  BY <1>8 DEF vars, InOrder
<1> QED
  BY <1>1, <1>2, <1>3, <1>4, <1>5, <1>6, <1>7, <1>8 DEF Next, Push, Read

(* The fast-forward stops at the oldest sample the ring holds, so what it  *)
(* passes over has left the window; the copy loop passes over nothing.     *)
LEMMA LostStep ==
  ASSUME TypeOK, TypeOK', CopyInv, InOrder, OnlyOverwrittenLost, [Next]_vars
  PROVE  OnlyOverwrittenLost'
<1> USE DEF ringVars, taskVars, fdVars
<1>0. /\ head_seq \in Nat /\ fd \in [Tasks -> Fds]
      /\ opened \subseteq Fds
      /\ next_seq \in [Fds -> Nat] /\ start \in [Fds -> Nat]
      /\ received \in [Fds -> Seq(Nat)]
  BY BoundAssumption DEF TypeOK
<1>1. CASE PushLock \/ PushWord \/ PushUnlock
  BY <1>1 DEF PushLock, PushWord, PushUnlock, OnlyOverwrittenLost
<1>2. CASE PushPublish
  BY <1>0, <1>2, SizePositive DEF PushPublish, OnlyOverwrittenLost
<1>3. ASSUME NEW t \in Tasks,
             ConsumeLock(t) \/ ConsumeNothing(t) \/ CopyWord(t) \/ ConsumeUnlock(t)
      PROVE  OnlyOverwrittenLost'
  BY <1>3 DEF ConsumeLock, ConsumeNothing, CopyWord, ConsumeUnlock,
              OnlyOverwrittenLost
<1>4. ASSUME NEW t \in Tasks, ConsumeWindow(t)
      PROVE  OnlyOverwrittenLost'
  <2> DEFINE f == fd[t]
             behind == head_seq - next_seq[f]
  <2>1. f \in Fds /\ f \in opened /\ next_seq[f] \in Nat /\ start[f] \in Nat
    BY <1>0, <1>4 DEF ConsumeWindow, CopyInv
  <2>2. behind \in Nat /\ behind > 0
    BY <1>0, <1>4, <2>1 DEF ConsumeWindow
  <2>3. /\ next_seq' = [next_seq EXCEPT ![f] = @ + Skip(behind)]
        /\ UNCHANGED <<head_seq, opened, start, received>>
    BY <1>4 DEF ConsumeWindow
  <2> HIDE DEF behind
  <2>4. /\ Skip(behind) \in Nat
        /\ Skip(behind) > 0 => behind - Skip(behind) = Size
    BY <2>2, SkipBounds
  <2>5. Skip(behind) > 0 => next_seq[f] + Skip(behind) = head_seq - Size
    <3>1. behind = head_seq - next_seq[f]
      BY DEF behind
    <3>2. ASSUME NEW h \in Nat, NEW n \in Nat, NEW x \in Nat, h - n - x = Size
          PROVE  n + x = h - Size
      BY <3>2, SizePositive
    <3> QED
      BY <1>0, <2>1, <2>4, <3>1, <3>2
  <2>6. ASSUME NEW k \in start[f] + 1 .. next_seq[f] + Skip(behind),
               k > next_seq[f]
        PROVE  k <= head_seq - Size
    BY <1>0, <2>1, <2>4, <2>5, <2>6, SizePositive
  <2>7. ASSUME NEW k \in start[f] + 1 .. next_seq[f] + Skip(behind),
               k <= next_seq[f]
        PROVE  \/ \E i \in 1..Len(received[f]) : received[f][i] = k
               \/ k <= head_seq - Size
    <3>1. k \in start[f] + 1 .. next_seq[f]
      BY <2>1, <2>4, <2>7
    <3> QED
      BY <2>1, <3>1 DEF OnlyOverwrittenLost
  <2>8. \A k \in start[f] + 1 .. next_seq[f] + Skip(behind) :
          \/ \E i \in 1..Len(received[f]) : received[f][i] = k
          \/ k <= head_seq - Size
    <3> SUFFICES ASSUME NEW k \in start[f] + 1 .. next_seq[f] + Skip(behind)
                 PROVE  \/ \E i \in 1..Len(received[f]) : received[f][i] = k
                        \/ k <= head_seq - Size
      OBVIOUS
    <3>1. k > next_seq[f] \/ k <= next_seq[f]
      BY <2>1, <2>4
    <3> QED
      BY <2>6, <2>7, <3>1
  <2>9. /\ next_seq'[f] = next_seq[f] + Skip(behind)
        /\ \A g \in opened : g # f => next_seq'[g] = next_seq[g]
    BY <1>0, <2>1, <2>3
  <2> QED
    BY <2>3, <2>8, <2>9 DEF OnlyOverwrittenLost
<1>5. ASSUME NEW t \in Tasks, CopyNext(t)
      PROVE  OnlyOverwrittenLost'
  <2> DEFINE f == fd[t]
             s == received[f]
             n == next_seq[f]
  <2>1. /\ f \in opened /\ f \in Fds /\ n \in Nat /\ s \in Seq(Nat)
        /\ start[f] \in Nat
    BY <1>0, <1>5, CopiedIsDue
  <2>2. received' = [received EXCEPT ![f] = Append(s, n + 1)]
    BY <1>0, <1>5, <2>1, CopiedIsDue
  <2>3. /\ next_seq' = [next_seq EXCEPT ![f] = n + 1]
        /\ UNCHANGED <<head_seq, opened, start>>
    BY <1>0, <1>5 DEF CopyNext
  <2>4. /\ Len(received'[f]) = Len(s) + 1
        /\ received'[f][Len(s) + 1] = n + 1
        /\ \A i \in 1..Len(s) : received'[f][i] = s[i]
        /\ Len(s) \in Nat
    BY <1>0, <2>1, <2>2
  <2>5. \A k \in start[f] + 1 .. n :
          \/ \E i \in 1..Len(s) : s[i] = k
          \/ k <= head_seq - Size
    BY <2>1 DEF OnlyOverwrittenLost
  <2> HIDE DEF s, n
  <2>6. \A k \in start[f] + 1 .. n + 1 :
          \/ \E i \in 1..Len(received'[f]) : received'[f][i] = k
          \/ k <= head_seq - Size
    <3> SUFFICES ASSUME NEW k \in start[f] + 1 .. n + 1
                 PROVE  \/ \E i \in 1..Len(received'[f]) : received'[f][i] = k
                        \/ k <= head_seq - Size
      OBVIOUS
    <3>1. CASE k = n + 1
      BY <2>4, <3>1
    <3>2. CASE k # n + 1
      <4>1. k \in start[f] + 1 .. n
        BY <2>1, <3>2
      <4> QED
        BY <2>4, <2>5, <4>1
    <3> QED
      BY <3>1, <3>2
  <2>7. /\ next_seq'[f] = n + 1
        /\ \A g \in opened :
             g # f => received'[g] = received[g] /\ next_seq'[g] = next_seq[g]
    BY <1>0, <2>1, <2>2, <2>3
  <2> QED
    BY <2>3, <2>6, <2>7 DEF OnlyOverwrittenLost
<1>6. ASSUME NEW f \in Fds, Attach(f)
      PROVE  OnlyOverwrittenLost'
  BY <1>0, <1>6 DEF Attach, OnlyOverwrittenLost
<1>7. ASSUME NEW f \in Fds, Detach(f)
      PROVE  OnlyOverwrittenLost'
  BY <1>0, <1>7 DEF Detach, OnlyOverwrittenLost
<1>8. CASE UNCHANGED vars
  BY <1>8 DEF vars, OnlyOverwrittenLost
<1> QED
  BY <1>1, <1>2, <1>3, <1>4, <1>5, <1>6, <1>7, <1>8 DEF Next, Push, Read

-----------------------------------------------------------------------------
(* The invariant of the critical sections holds in every reachable state:  *)
(* the spinlock protocol of ring_push() and ring_consume() is enough.      *)
THEOREM Invariance == Spec => []IInv
<1>1. Init => IInv
  <2> SUFFICES ASSUME Init PROVE IInv
    OBVIOUS
  <2>1. LockInv /\ PushInv /\ CopyInv
    BY DEF Init, LockInv, PushInv, CopyInv
  <2>2. head_seq = 0 /\ opened = {}
    BY DEF Init
  <2>3. WindowIntact /\ InOrder /\ OnlyOverwrittenLost
    BY <2>2 DEF WindowIntact, InOrder, OnlyOverwrittenLost
  <2> QED
    BY <2>1, <2>3 DEF IInv
<1>2. TypeOK /\ TypeOK' /\ IInv /\ [Next]_vars => IInv'
  <2> SUFFICES ASSUME TypeOK, TypeOK', IInv, [Next]_vars
               PROVE  IInv'
    OBVIOUS
  <2>1. LockInv'
    BY LockStep DEF IInv
  <2>2. PushInv'
    BY PushStep DEF IInv
  <2>3. WindowIntact'
    BY WindowStep DEF IInv
  <2>4. CopyInv'
    BY CopyStep DEF IInv
  <2>5. InOrder'
    BY OrderStep DEF IInv
  <2>6. OnlyOverwrittenLost'
    BY LostStep DEF IInv
  <2> QED
    BY <2>1, <2>2, <2>3, <2>4, <2>5, <2>6 DEF IInv
<1> QED
  BY <1>1, <1>2, TypeCorrect, PTL DEF Spec

(* No reader can see a torn or half-overwritten sample in the window       *)
(* (ringbuf.c:54-59).                                                      *)
THEOREM WindowSafe == Spec => []WindowIntact
<1>1. IInv => WindowIntact
  BY DEF IInv
<1> QED
  BY <1>1, Invariance, PTL

(* Every descriptor is handed an increasing sequence of published samples, *)
(* each pushed after it was opened (ringbuf.h:12-13).                      *)
THEOREM OrderSafe == Spec => []InOrder
<1>1. IInv => InOrder
  BY DEF IInv
<1> QED
  BY <1>1, Invariance, PTL

(* The overrun policy loses only what the ring has overwritten             *)
(* (ringbuf.h:14-16, ringbuf.c:91-103).                                    *)
THEOREM LossSafe == Spec => []OnlyOverwrittenLost
<1>1. IInv => OnlyOverwrittenLost
  BY DEF IInv
<1> QED
  BY <1>1, Invariance, PTL

-----------------------------------------------------------------------------
(* The refinement. *)

LEMMA NoneAppended ==
  ASSUME NEW s \in Seq(Nat), NEW k \in Nat
  PROVE  s \o [i \in 1..0 |-> k + i] = s
<1>1. [i \in 1..0 |-> k + i] = << >>
  OBVIOUS
<1> QED
  BY <1>1

LEMMA OneAppended ==
  ASSUME NEW s \in Seq(Nat), NEW k \in Nat
  PROVE  s \o [i \in 1..1 |-> k + i] = Append(s, k + 1)
<1>1. [i \in 1..1 |-> k + i] = <<k + 1>>
  OBVIOUS
<1> QED
  BY <1>1

(* The fast-forward takes a reader to where the stream resumes it. *)
LEMMA WindowRefines ==
  ASSUME TypeOK, CopyInv, NEW t \in Tasks, ConsumeWindow(t)
  PROVE  Stream!Consume(fd[t], 0)
<1> DEFINE f == fd[t]
           n == next_seq[f]
           behind == head_seq - n
<1>1. /\ f \in opened /\ f \in Fds /\ n \in Nat /\ head_seq \in Nat
      /\ received \in [Fds -> Seq(Nat)] /\ dropped \in Nat
      /\ next_seq \in [Fds -> Nat]
  BY BoundAssumption DEF TypeOK, CopyInv, ConsumeWindow
<1>2. behind \in Nat /\ behind > 0
  BY <1>1 DEF ConsumeWindow
<1>3. /\ next_seq' = [next_seq EXCEPT ![f] = n + Skip(behind)]
      /\ dropped' = dropped + Skip(behind)
      /\ UNCHANGED <<head_seq, opened, start, received>>
  BY DEF ConsumeWindow, ringVars
<1>4. Stream!Resume(f) = n + Skip(behind)
  BY <1>1, <1>2, SizePositive DEF Stream!Resume, Stream!Oldest, Skip
<1>5. Skip(behind) \in Nat /\ Skip(behind) <= behind
  BY <1>2, SizePositive DEF Skip
<1> HIDE DEF f, n
<1>6. /\ Stream!Resume(f) \in Nat /\ 0 <= head_seq - Stream!Resume(f)
      /\ Stream!Resume(f) - n = Skip(behind)
  BY <1>1, <1>2, <1>4, <1>5
<1>7. received' = [received EXCEPT
                     ![f] = @ \o [i \in 1..0 |-> Stream!Resume(f) + i]]
  <2>1. received[f] \o [i \in 1..0 |-> Stream!Resume(f) + i] = received[f]
    BY <1>1, <1>6, NoneAppended
  <2> QED
    BY <1>1, <1>3, <2>1
<1>8. /\ next_seq' = [next_seq EXCEPT ![f] = Stream!Resume(f) + 0]
      /\ dropped' = dropped + (Stream!Resume(f) - n)
  <2>1. Stream!Resume(f) + 0 = n + Skip(behind)
    BY <1>4, <1>6
  <2> QED
    BY <1>3, <1>6, <2>1
<1> QED
  BY <1>1, <1>3, <1>6, <1>7, <1>8 DEF Stream!Consume, f, n

(* A completed iteration hands over the next sample of the stream. *)
LEMMA CopyRefines ==
  ASSUME TypeOK, CopyInv, NEW t \in Tasks, CopyNext(t)
  PROVE  Stream!Consume(fd[t], 1)
<1> DEFINE f == fd[t]
           n == next_seq[f]
<1>1. /\ f \in opened /\ n \in Nat /\ head_seq \in Nat /\ n < head_seq
      /\ received \in [Fds -> Seq(Nat)] /\ dropped \in Nat
      /\ f \in Fds
  BY CopiedIsDue, BoundAssumption DEF TypeOK
<1>2. head_seq - n <= Size
  BY DEF CopyNext, CopyInv
<1>3. received' = [received EXCEPT ![f] = Append(@, n + 1)]
  BY CopiedIsDue
<1>4. /\ next_seq' = [next_seq EXCEPT ![f] = n + 1]
      /\ UNCHANGED <<head_seq, opened, start, dropped>>
  BY DEF CopyNext, ringVars
<1>5. Stream!Resume(f) = n
  BY <1>1, <1>2, SizePositive DEF Stream!Resume, Stream!Oldest
<1> HIDE DEF f, n
<1>6. received' = [received EXCEPT
                     ![f] = @ \o [i \in 1..1 |-> Stream!Resume(f) + i]]
  <2>1. received[f] \o [i \in 1..1 |-> Stream!Resume(f) + i]
          = Append(received[f], n + 1)
    BY <1>1, <1>5, OneAppended
  <2> QED
    BY <1>1, <1>3, <2>1
<1>7. /\ 1 <= head_seq - Stream!Resume(f)
      /\ next_seq' = [next_seq EXCEPT ![f] = Stream!Resume(f) + 1]
      /\ dropped' = dropped + (Stream!Resume(f) - n)
  BY <1>1, <1>4, <1>5
<1> QED
  BY <1>1, <1>4, <1>6, <1>7 DEF Stream!Consume, f, n

(* What a reader is handed by the locked, word-by-word ring is what the    *)
(* abstract stream hands it: every step publishes, attaches, detaches or   *)
(* delivers as the stream may, or changes nothing a reader can see         *)
(* (ringbuf.h:9-17).                                                       *)
THEOREM Refinement == Spec => ImplementsStream
<1>1. Init => Stream!Init
  BY DEF Init, Stream!Init
<1>2. TypeOK /\ IInv /\ [Next]_vars => [Stream!Next]_(Stream!vars)
  <2> SUFFICES ASSUME TypeOK, IInv, [Next]_vars
               PROVE  Stream!Next \/ UNCHANGED Stream!vars
    BY DEF Stream!vars
  <2> USE DEF ringVars, taskVars, fdVars
  <2>1. CopyInv
    BY DEF IInv
  <2>2. CASE PushLock \/ PushWord \/ PushUnlock
    BY <2>2 DEF PushLock, PushWord, PushUnlock, Stream!vars
  <2>3. CASE PushPublish
    BY <2>3 DEF PushPublish, Stream!Next, Stream!Publish
  <2>4. ASSUME NEW t \in Tasks,
               ConsumeLock(t) \/ ConsumeNothing(t) \/ CopyWord(t) \/ ConsumeUnlock(t)
        PROVE  UNCHANGED Stream!vars
    BY <2>4 DEF ConsumeLock, ConsumeNothing, CopyWord, ConsumeUnlock, Stream!vars
  <2>5. ASSUME NEW t \in Tasks, ConsumeWindow(t) \/ CopyNext(t)
        PROVE  Stream!Next
    <3>1. fd[t] \in Fds
      BY DEF TypeOK
    <3>2. Stream!Consume(fd[t], 0) \/ Stream!Consume(fd[t], 1)
      BY <2>1, <2>5, WindowRefines, CopyRefines
    <3>3. 0 \in 0..Size /\ 1 \in 0..Size
      BY SizePositive
    <3> QED
      BY <3>1, <3>2, <3>3 DEF Stream!Next
  <2>6. ASSUME NEW f \in Fds, Attach(f)
        PROVE  Stream!Next
    BY <2>6 DEF Attach, Stream!Next, Stream!Attach
  <2>7. ASSUME NEW f \in Fds, Detach(f)
        PROVE  Stream!Next
    BY <2>7 DEF Detach, Stream!Next, Stream!Detach
  <2>8. CASE UNCHANGED vars
    BY <2>8 DEF vars, Stream!vars
  <2> QED
    BY <2>2, <2>3, <2>4, <2>5, <2>6, <2>7, <2>8 DEF Next, Push, Read
<1> QED
  BY <1>1, <1>2, TypeCorrect, Invariance, PTL DEF Spec, ImplementsStream, Stream!Spec

-----------------------------------------------------------------------------
(***************************************************************************)
(* The count of dropped samples.                                           *)
(***************************************************************************)

(* How many samples each descriptor was moved past, and the property with  *)
(* what the sum needs: only finitely many descriptors are ever open.       *)
AllSkipped == [f \in Fds |-> Skipped(f)]

DropInv == IsFiniteSet(opened) /\ DroppedExact

(* ring_consume() counts what it skips; open() and release() move a        *)
(* descriptor's share between the two terms of the sum.                    *)
LEMMA DropStep ==
  ASSUME TypeOK, TypeOK', CopyInv, DropInv, [Next]_vars
  PROVE  DropInv'
<1> DEFINE v == AllSkipped
           w == AllSkipped'
           Sum(g, S) == SumFunctionOnSet(g, S)
<1>1. /\ DOMAIN v = Fds /\ DOMAIN w = Fds
      /\ \A f \in Fds : v[f] = Skipped(f) /\ w[f] = Skipped(f)'
  BY DEF AllSkipped
<1>2. \A f \in Fds : /\ next_seq[f] \in Nat /\ start[f] \in Nat
                     /\ received[f] \in Seq(Nat) /\ Len(received[f]) \in Nat
  BY DEF TypeOK
<1>3. \A f \in Fds : /\ next_seq'[f] \in Nat /\ start'[f] \in Nat
                     /\ received'[f] \in Seq(Nat) /\ Len(received'[f]) \in Nat
  BY DEF TypeOK
<1>4. Summable(v) /\ Summable(w)
  <2>1. \A f \in Fds : Skipped(f) \in Int /\ Skipped(f)' \in Int
    BY <1>2, <1>3 DEF Skipped
  <2> QED BY <1>1, <2>1 DEF Summable
<1>5. /\ IsFiniteSet(opened) /\ opened \in FiniteSubsetsOf(DOMAIN v)
      /\ dropped = retired + Sum(v, opened)
  BY <1>1 DEF DropInv, DroppedExact, AllSkipped, TypeOK, FiniteSubsetsOf
<1>6. /\ DroppedExact' <=> dropped' = retired' + Sum(w, opened')
      /\ dropped \in Nat /\ retired \in Int /\ Sum(v, opened) \in Int
  BY <1>4, <1>5, SumIsTotal DEF DroppedExact, AllSkipped, TypeOK
<1> HIDE DEF v, w, Sum
(* Steps that leave every share and both counters alone. *)
<1>7. ASSUME UNCHANGED <<opened, dropped, retired>>,
             \A f \in opened : w[f] = v[f]
      PROVE  DropInv'
  <2>1. Sum(v, opened) = Sum(w, opened)
    BY <1>1, <1>4, <1>5, <1>7, SumAgrees DEF Sum
  <2> QED BY <1>5, <1>6, <1>7, <2>1 DEF DropInv
<1>8. ASSUME UNCHANGED <<opened, dropped, retired, next_seq, start, received>>
      PROVE  DropInv'
  <2>1. \A f \in opened : w[f] = v[f]
    BY <1>1, <1>8 DEF Skipped, TypeOK
  <2> QED BY <1>7, <1>8, <2>1
<1>9. ASSUME Push
      PROVE  DropInv'
  BY <1>8, <1>9 DEF Push, PushLock, PushWord, PushPublish, PushUnlock, fdVars
<1>10. ASSUME NEW t \in Tasks, ConsumeWindow(t)
       PROVE  DropInv'
  <2> DEFINE f == fd[t]
             n == Skip(head_seq - next_seq[f])
  <2>1. f \in opened /\ f \in Fds
    BY <1>10 DEF CopyInv, ConsumeWindow, TypeOK
  <2>2. n \in Nat
    <3>1. head_seq - next_seq[f] \in Nat /\ head_seq - next_seq[f] > 0
      BY <1>2, <1>10, <2>1 DEF ConsumeWindow, TypeOK
    <3> QED BY <3>1, SkipBounds
  <2>3. /\ dropped' = dropped + n
        /\ next_seq' = [next_seq EXCEPT ![f] = @ + n]
        /\ UNCHANGED <<opened, start, received, retired>>
    BY <1>10 DEF ConsumeWindow
  <2> HIDE DEF n
  <2>4. w[f] = v[f] + n
    <3>1. next_seq'[f] = next_seq[f] + n
      BY <2>1, <2>3 DEF TypeOK
    <3> QED BY <1>1, <1>2, <2>1, <2>2, <2>3, <3>1 DEF Skipped
  <2>5. \A g \in opened \ {f} : w[g] = v[g]
    BY <1>1, <2>1, <2>3 DEF Skipped, TypeOK
  <2>6. Sum(w, opened) = Sum(v, opened) + n
    BY <1>1, <1>4, <1>5, <2>1, <2>2, <2>4, <2>5, SumGrows DEF Sum
  <2> QED BY <1>5, <1>6, <2>2, <2>3, <2>6 DEF DropInv
<1>11. ASSUME NEW t \in Tasks, CopyNext(t)
       PROVE  DropInv'
  <2> DEFINE f == fd[t]
  <2>1. f \in opened /\ f \in Fds
    BY <1>11 DEF CopyInv, CopyNext, TypeOK
  <2>2. /\ next_seq' = [next_seq EXCEPT ![f] = @ + 1]
        /\ received' = [received EXCEPT ![f] = Append(@, Stamp(out[t]))]
        /\ UNCHANGED <<opened, dropped, retired, start>>
    BY <1>11 DEF CopyNext
  <2>3. w[f] = v[f]
    <3>1. /\ next_seq'[f] = next_seq[f] + 1
          /\ received'[f] = Append(received[f], Stamp(out[t]))
      BY <2>1, <2>2 DEF TypeOK
    <3>2. Len(received'[f]) = Len(received[f]) + 1
      BY <1>2, <2>1, <3>1
    <3>3. start'[f] = start[f]
      BY <2>2
    <3>4. /\ w[f] = next_seq'[f] - start'[f] - Len(received'[f])
          /\ v[f] = next_seq[f] - start[f] - Len(received[f])
      BY <1>1, <2>1 DEF Skipped
    <3>5. /\ next_seq[f] \in Int /\ start[f] \in Int
          /\ Len(received[f]) \in Int
      BY <1>2, <2>1
    <3>6. next_seq'[f] = next_seq[f] + 1
      BY <3>1
    <3> HIDE DEF f
    <3> QED BY <3>2, <3>3, <3>4, <3>5, <3>6
  <2>4. \A g \in opened \ {f} : w[g] = v[g]
    BY <1>1, <2>1, <2>2 DEF Skipped, TypeOK
  <2> QED BY <1>7, <2>2, <2>3, <2>4
<1>12. ASSUME NEW t \in Tasks,
              ConsumeLock(t) \/ ConsumeNothing(t) \/ CopyWord(t)
                \/ ConsumeUnlock(t)
       PROVE  DropInv'
  BY <1>8, <1>12
     DEF ConsumeLock, ConsumeNothing, CopyWord, ConsumeUnlock, fdVars
<1>13. ASSUME NEW f \in Fds, Attach(f)
       PROVE  DropInv'
  <2>1. /\ f \notin opened /\ opened' = opened \cup {f}
        /\ next_seq'[f] = start'[f] /\ received'[f] = <<>>
        /\ UNCHANGED <<dropped, retired>>
        /\ \A g \in opened : /\ next_seq'[g] = next_seq[g]
                             /\ start'[g] = start[g]
                             /\ received'[g] = received[g]
    BY <1>13 DEF Attach, TypeOK
  <2>2. w[f] = 0
    BY <1>1, <1>3, <2>1 DEF Skipped
  <2>3. \A g \in opened : w[g] = v[g]
    BY <1>1, <2>1 DEF Skipped, TypeOK
  <2>4. IsFiniteSet(opened') /\ opened' \in FiniteSubsetsOf(DOMAIN w)
    BY <1>1, <1>5, <2>1, FS_AddElement DEF FiniteSubsetsOf, TypeOK
  <2>5. opened' \ {f} = opened
    BY <2>1
  <2>6. Sum(w, opened') = w[f] + Sum(w, opened)
    BY <1>4, <2>1, <2>4, <2>5, SumWithout DEF Sum
  <2>7. Sum(v, opened) = Sum(w, opened)
    BY <1>1, <1>4, <1>5, <2>3, SumAgrees DEF Sum
  <2> QED BY <1>5, <1>6, <2>1, <2>2, <2>4, <2>6, <2>7 DEF DropInv
<1>14. ASSUME NEW f \in Fds, Detach(f)
       PROVE  DropInv'
  <2>1. /\ f \in opened /\ opened' = opened \ {f}
        /\ retired' = retired + Skipped(f) /\ dropped' = dropped
        /\ \A g \in opened \ {f} : /\ next_seq'[g] = next_seq[g]
                                   /\ start'[g] = start[g]
                                   /\ received'[g] = received[g]
    BY <1>14 DEF Detach, TypeOK
  <2>2. retired' = retired + v[f] /\ v[f] \in Int
    BY <1>1, <1>4, <2>1 DEF Summable
  <2>3. \A g \in opened' : w[g] = v[g]
    BY <1>1, <2>1 DEF Skipped, TypeOK
  <2>4. IsFiniteSet(opened') /\ opened' \in FiniteSubsetsOf(DOMAIN v)
    BY <1>5, <2>1, FS_RemoveElement DEF FiniteSubsetsOf
  <2>5. Sum(v, opened) = v[f] + Sum(v, opened')
    BY <1>4, <1>5, <2>1, SumWithout DEF Sum
  <2>6. Sum(v, opened') = Sum(w, opened')
    BY <1>1, <1>4, <2>3, <2>4, SumAgrees DEF Sum
  <2>7. Sum(v, opened') \in Int
    BY <1>4, <2>4, SumIsTotal DEF Sum
  <2> QED BY <1>5, <1>6, <2>1, <2>2, <2>4, <2>5, <2>6, <2>7 DEF DropInv
<1>15. CASE UNCHANGED vars
  BY <1>8, <1>15 DEF vars, fdVars
<1> QED
  BY <1>9, <1>10, <1>11, <1>12, <1>13, <1>14, <1>15 DEF Next, Read

(* r->dropped counts every sample that a descriptor was moved past, and    *)
(* nothing else, for any number of descriptors opened and closed           *)
(* (ringbuf.c:98).                                                         *)
THEOREM DropsCounted == Spec => []DroppedExact
<1>1. Init => DropInv
  <2> SUFFICES ASSUME Init
               PROVE  DropInv
    OBVIOUS
  <2>1. opened = {} /\ dropped = 0 /\ retired = 0
    BY DEF Init
  <2>2. Summable([f \in Fds |-> Skipped(f)])
    <3>1. \A f \in Fds : Skipped(f) = 0
      BY DEF Init, Skipped
    <3> QED BY <3>1 DEF Summable
  <2>3. SumFunctionOnSet([f \in Fds |-> Skipped(f)], opened) = 0
    BY <2>1, <2>2, SumOfNothing
  <2> QED BY <2>1, <2>3, FS_EmptySet DEF DropInv, DroppedExact
<1>2. TypeOK /\ TypeOK' /\ IInv /\ DropInv /\ [Next]_vars => DropInv'
  BY DropStep DEF IInv
<1>3. DropInv => DroppedExact
  BY DEF DropInv
<1> QED
  BY <1>1, <1>2, <1>3, TypeCorrect, Invariance, PTL DEF Spec
=============================================================================
