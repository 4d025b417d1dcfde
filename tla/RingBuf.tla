------------------------------ MODULE RingBuf ------------------------------
(***************************************************************************)
(* kernel/ringbuf.c, one step per memory access that another thread can    *)
(* observe: the spinlock is taken and released, a sample is copied word    *)
(* by word, head_seq is published inside the critical section and read     *)
(* without the lock by a descriptor that is being opened.                  *)
(*                                                                         *)
(* The k-th sample pushed is NWords words that all hold k (the collector's *)
(* timestamps differ, so samples are told apart); a slot that was never    *)
(* written holds zeroes, as vzalloc() leaves it.                           *)
(***************************************************************************)
EXTENDS Integers, Sequences, Functions

CONSTANTS
  Size,      \* r->size
  NWords,    \* words of struct gpu_sample, copied one at a time
  Tasks,     \* threads that call ring_consume()
  Fds,       \* descriptors, each with its own reader_ctx.next_seq
  MaxArgs,   \* values of ring_consume()'s max argument
  MaxHead    \* bound: samples pushed in a behaviour

(* The sizes ring_init() accepts: powers of two up to 4096. *)
RingSizes == {1, 2, 4, 8, 16, 32, 64, 128, 256, 512, 1024, 2048, 4096}

ASSUME SizeAssumption == Size \in RingSizes
ASSUME WordsAssumption == NWords \in Nat \ {0}
ASSUME MaxArgsAssumption == MaxArgs \subseteq Nat \ {0}
ASSUME FdsAssumption == Fds # {}
ASSUME BoundAssumption == MaxHead \in Nat

VARIABLES
  samples,   \* r->samples: slot -> word -> value
  head_seq,  \* r->head_seq
  dropped,   \* r->dropped
  lock,      \* r->lock is held
  wpc,       \* where the collector is in ring_push()
  wword,     \* the word ring_push() copies next
  pc,        \* pc[t]: where task t is in ring_consume()
  fd,        \* fd[t]: the descriptor t's next_seq pointer belongs to
  left,      \* left[t]: max on entry, then iterations of the copy loop left
  word,      \* word[t]: the word of out[i] that is copied next
  out,       \* out[t]: the words of out[i] copied so far
  opened,    \* descriptors that are open
  next_seq,  \* next_seq[f]: reader_ctx.next_seq of f
  start,     \* history: next_seq[f] when f was opened
  received,  \* history: what the copy loops stored for f since then
  retired    \* history: samples skipped by descriptors since closed

ringVars == <<samples, head_seq, lock, wpc, wword>>
taskVars == <<pc, fd, left, word, out>>
fdVars == <<opened, next_seq, start, received, retired>>
vars == <<ringVars, dropped, taskVars, fdVars>>

Words == 1..NWords
Slots == 0..Size-1

(* head_seq & mask, with mask = size - 1 and size a power of two. *)
Slot(seq) == seq % Size

Sample(k) == [w \in Words |-> k]

(* What a copied sample is to a reader: the rank of the sample pushed, or 0 *)
(* when its words are not those of one sample.                             *)
Stamp(raw) == IF \A w \in Words : raw[w] = raw[1] THEN raw[1] ELSE 0

Lesser(a, b) == IF a < b THEN a ELSE b

Init ==
  /\ samples = [s \in Slots |-> Sample(0)]
  /\ head_seq = 0
  /\ dropped = 0
  /\ lock = FALSE
  /\ wpc = "idle"
  /\ wword = 1
  /\ pc = [t \in Tasks |-> "idle"]
  /\ fd = [t \in Tasks |-> CHOOSE f \in Fds : TRUE]
  /\ left = [t \in Tasks |-> 0]
  /\ word = [t \in Tasks |-> 1]
  /\ out = [t \in Tasks |-> Sample(0)]
  /\ opened = {}
  /\ next_seq = [f \in Fds |-> 0]
  /\ start = [f \in Fds |-> 0]
  /\ received = [f \in Fds |-> <<>>]
  /\ retired = 0

-----------------------------------------------------------------------------
(* ring_push(), called by the collector thread only. *)

(* A faulty variant: the producer does not wait for the lock. *)
PushLockIgnored ==
  /\ wpc = "idle"
  /\ head_seq < MaxHead
  /\ lock' = TRUE
  /\ wpc' = "copy"
  /\ wword' = 1
  /\ UNCHANGED <<samples, head_seq, dropped, taskVars, fdVars>>

PushLock ==
  /\ wpc = "idle"
  /\ ~lock
  /\ head_seq < MaxHead
  /\ lock' = TRUE
  /\ wpc' = "copy"
  /\ wword' = 1
  /\ UNCHANGED <<samples, head_seq, dropped, taskVars, fdVars>>

PushWord ==
  /\ wpc = "copy"
  /\ wword <= NWords
  /\ samples' = [samples EXCEPT ![Slot(head_seq)][wword] = head_seq + 1]
  /\ wword' = wword + 1
  /\ UNCHANGED <<head_seq, dropped, lock, wpc, taskVars, fdVars>>

(* A faulty variant: head_seq is stored before the sample is complete. *)
PushPublishEarly ==
  /\ wpc = "copy"
  /\ head_seq' = head_seq + 1
  /\ wpc' = "unlock"
  /\ wword' = 1
  /\ UNCHANGED <<samples, dropped, lock, taskVars, fdVars>>

PushPublish ==
  /\ wpc = "copy"
  /\ wword > NWords
  /\ head_seq' = head_seq + 1
  /\ wpc' = "unlock"
  /\ wword' = 1
  /\ UNCHANGED <<samples, dropped, lock, taskVars, fdVars>>

PushUnlock ==
  /\ wpc = "unlock"
  /\ lock' = FALSE
  /\ wpc' = "idle"
  /\ UNCHANGED <<samples, head_seq, wword, dropped, taskVars, fdVars>>

-----------------------------------------------------------------------------
(* ring_consume(), called by any task on any open descriptor, two tasks on *)
(* one descriptor included.                                                *)

(* A faulty variant: a reader does not wait for the lock. *)
ConsumeLockIgnored(t) ==
  /\ pc[t] = "idle"
  /\ lock' = TRUE
  /\ pc' = [pc EXCEPT ![t] = "locked"]
  /\ \E f \in opened : fd' = [fd EXCEPT ![t] = f]
  /\ \E max \in MaxArgs : left' = [left EXCEPT ![t] = max]
  /\ UNCHANGED <<samples, head_seq, wpc, wword, dropped, word, out, fdVars>>

ConsumeLock(t) ==
  /\ pc[t] = "idle"
  /\ ~lock
  /\ lock' = TRUE
  /\ pc' = [pc EXCEPT ![t] = "locked"]
  /\ \E f \in opened : fd' = [fd EXCEPT ![t] = f]
  /\ \E max \in MaxArgs : left' = [left EXCEPT ![t] = max]
  /\ UNCHANGED <<samples, head_seq, wpc, wword, dropped, word, out, fdVars>>

(* Nothing new for this reader: unlock and return 0. *)
ConsumeNothing(t) ==
  /\ pc[t] = "locked"
  /\ head_seq <= next_seq[fd[t]]
  /\ lock' = FALSE
  /\ pc' = [pc EXCEPT ![t] = "idle"]
  /\ left' = [left EXCEPT ![t] = 0]
  /\ UNCHANGED <<samples, head_seq, wpc, wword, dropped, fd, word, out, fdVars>>

(* Faulty variants of the overrun boundary: no test, one sample too far,   *)
(* and one sample too late.                                                *)
SkipAlways(behind) == behind - Size
SkipTooFar(behind) == IF behind >= Size THEN behind - Size + 1 ELSE 0
SkipTooLate(behind) == IF behind > Size + 1 THEN behind - Size ELSE 0

(* How far a reader that fell behind is moved forward. *)
Skip(behind) == IF behind > Size THEN behind - Size ELSE 0

(* A faulty variant: only a skip of two samples or more is counted. *)
ConsumeWindowUncounted(t) ==
  LET behind == head_seq - next_seq[fd[t]]
      skip == Skip(behind)
  IN
  /\ pc[t] = "locked"
  /\ head_seq > next_seq[fd[t]]
  /\ dropped' = IF skip > 1 THEN dropped + skip ELSE dropped
  /\ next_seq' = [next_seq EXCEPT ![fd[t]] = @ + skip]
  /\ left' = [left EXCEPT ![t] = Lesser(behind - skip, @)]
  /\ word' = [word EXCEPT ![t] = 1]
  /\ pc' = [pc EXCEPT ![t] = "copy"]
  /\ UNCHANGED <<ringVars, fd, out, opened, start, received, retired>>

ConsumeWindow(t) ==
  LET behind == head_seq - next_seq[fd[t]]
      skip == Skip(behind)
  IN
  /\ pc[t] = "locked"
  /\ head_seq > next_seq[fd[t]]
  /\ dropped' = dropped + skip
  /\ next_seq' = [next_seq EXCEPT ![fd[t]] = @ + skip]
  /\ left' = [left EXCEPT ![t] = Lesser(behind - skip, @)]
  /\ word' = [word EXCEPT ![t] = 1]
  /\ pc' = [pc EXCEPT ![t] = "copy"]
  /\ UNCHANGED <<ringVars, fd, out, opened, start, received, retired>>

CopyWord(t) ==
  /\ pc[t] = "copy"
  /\ left[t] > 0
  /\ word[t] <= NWords
  /\ out' = [out EXCEPT ![t][word[t]] = samples[Slot(next_seq[fd[t]])][word[t]]]
  /\ word' = [word EXCEPT ![t] = @ + 1]
  /\ UNCHANGED <<ringVars, dropped, pc, fd, left, fdVars>>

(* out[i] is complete: next_seq moves on, and the loop with it. *)
CopyNext(t) ==
  /\ pc[t] = "copy"
  /\ left[t] > 0
  /\ word[t] > NWords
  /\ next_seq' = [next_seq EXCEPT ![fd[t]] = @ + 1]
  /\ received' = [received EXCEPT ![fd[t]] = Append(@, Stamp(out[t]))]
  /\ left' = [left EXCEPT ![t] = @ - 1]
  /\ word' = [word EXCEPT ![t] = 1]
  /\ out' = [out EXCEPT ![t] = Sample(0)]
  /\ UNCHANGED <<ringVars, dropped, pc, fd, opened, start, retired>>

ConsumeUnlock(t) ==
  /\ pc[t] = "copy"
  /\ left[t] = 0
  /\ lock' = FALSE
  /\ pc' = [pc EXCEPT ![t] = "idle"]
  /\ UNCHANGED <<samples, head_seq, wpc, wword, dropped, fd, left, word, out, fdVars>>

-----------------------------------------------------------------------------
(* gpu_telem_open(): next_seq is a READ_ONCE of head_seq, without the lock. *)
Attach(f) ==
  /\ f \notin opened
  /\ opened' = opened \cup {f}
  /\ next_seq' = [next_seq EXCEPT ![f] = head_seq]
  /\ start' = [start EXCEPT ![f] = head_seq]
  /\ received' = [received EXCEPT ![f] = <<>>]
  /\ UNCHANGED <<ringVars, dropped, taskVars, retired>>

(* Samples f was moved past without being handed them. *)
Skipped(f) == next_seq[f] - start[f] - Len(received[f])

(* gpu_telem_release(): the last reference is gone, so no call is running. *)
Detach(f) ==
  /\ f \in opened
  /\ \A t \in Tasks : pc[t] # "idle" => fd[t] # f
  /\ opened' = opened \ {f}
  /\ retired' = retired + Skipped(f)
  /\ next_seq' = [next_seq EXCEPT ![f] = 0]
  /\ start' = [start EXCEPT ![f] = 0]
  /\ received' = [received EXCEPT ![f] = <<>>]
  /\ UNCHANGED <<ringVars, dropped, taskVars>>

-----------------------------------------------------------------------------
Push == PushLock \/ PushWord \/ PushPublish \/ PushUnlock

Read(t) ==
  \/ ConsumeLock(t)
  \/ ConsumeNothing(t)
  \/ ConsumeWindow(t)
  \/ CopyWord(t)
  \/ CopyNext(t)
  \/ ConsumeUnlock(t)

Next ==
  \/ Push
  \/ \E t \in Tasks : Read(t)
  \/ \E f \in Fds : Attach(f) \/ Detach(f)

Spec == Init /\ [][Next]_vars

-----------------------------------------------------------------------------
(* Every variable has its type: head_seq stays within the bound, and       *)
(* dropped and next_seq never go negative. *)
TypeOK ==
  /\ samples \in [Slots -> [Words -> Nat]]
  /\ head_seq \in 0..MaxHead
  /\ dropped \in Nat
  /\ lock \in BOOLEAN
  /\ wpc \in {"idle", "copy", "unlock"}
  /\ wword \in 1..NWords + 1
  /\ pc \in [Tasks -> {"idle", "locked", "copy"}]
  /\ fd \in [Tasks -> Fds]
  /\ left \in [Tasks -> Nat]
  /\ word \in [Tasks -> 1..NWords + 1]
  /\ out \in [Tasks -> [Words -> Nat]]
  /\ opened \subseteq Fds
  /\ next_seq \in [Fds -> Nat]
  /\ start \in [Fds -> Nat]
  /\ received \in [Fds -> Seq(Nat)]
  /\ retired \in Int

(* Seen from outside the critical section, the Size samples below head_seq *)
(* are whole in their slots; only the oldest of them is being overwritten  *)
(* while ring_push() copies (the claim of ringbuf.c:54-59).                *)
WindowIntact ==
  \A k \in 0..head_seq - 1 :
    (IF wpc = "copy" THEN head_seq - Size < k ELSE head_seq - Size <= k)
      => samples[Slot(k)] = Sample(k + 1)

(* Each descriptor is handed whole samples, in the order they were pushed, *)
(* none twice, all pushed after it was opened and none not yet published,  *)
(* however its reads interleave with pushes, with other readers and with   *)
(* a second task on the same descriptor (ringbuf.h:12-13, each fd sees the *)
(* stream).                                                                *)
InOrder ==
  \A f \in opened :
    /\ \A i \in 1..Len(received[f]) :
         start[f] < received[f][i] /\ received[f][i] <= next_seq[f]
    /\ \A i, j \in 1..Len(received[f]) :
         i < j => received[f][i] < received[f][j]
    /\ start[f] <= next_seq[f] /\ next_seq[f] <= head_seq

(* A descriptor misses a sample only when the ring no longer holds it: the *)
(* fast-forward never skips a sample that could still have been delivered  *)
(* (the overrun policy of ringbuf.h:14-16).                                *)
OnlyOverwrittenLost ==
  \A f \in opened : \A k \in start[f] + 1 .. next_seq[f] :
    \/ \E i \in 1..Len(received[f]) : received[f][i] = k
    \/ k <= head_seq - Size

(* r->dropped is exactly the number of samples that the descriptors, open  *)
(* and closed, were moved past without being handed them (ringbuf.c:98).   *)
DroppedExact ==
  dropped = retired + SumFunctionOnSet([f \in Fds |-> Skipped(f)], opened)

(* What holds between the steps of a critical section, and makes the       *)
(* properties above inductive.                                             *)
LockInv ==
  /\ wpc # "idle" => lock
  /\ \A t \in Tasks : pc[t] # "idle" => lock /\ wpc = "idle"
  /\ \A t, u \in Tasks : pc[t] # "idle" /\ pc[u] # "idle" => t = u

PushInv ==
  wpc = "copy" =>
    \A w \in 1..wword - 1 : samples[Slot(head_seq)][w] = head_seq + 1

CopyInv ==
  \A t \in Tasks :
    /\ pc[t] # "idle" => fd[t] \in opened
    /\ pc[t] = "copy" =>
         /\ next_seq[fd[t]] + left[t] <= head_seq
         /\ head_seq - next_seq[fd[t]] <= Size
         /\ \A w \in 1..word[t] - 1 : out[t][w] = next_seq[fd[t]] + 1

(* The invariant of the critical sections of ring_push() and               *)
(* ring_consume(): with the lock held by one thread at a time, the words   *)
(* copied so far are those of the sample at head_seq or at next_seq, and   *)
(* every reader's position is consistent with what it was handed.          *)
IInv ==
  LockInv /\ PushInv /\ WindowIntact /\ CopyInv /\ InOrder /\ OnlyOverwrittenLost

(* The ring implements the promise of TelemStream. *)
Stream == INSTANCE TelemStream WITH head <- head_seq, cursor <- next_seq

(* Each step of the locked, word-by-word ring is a step of the abstract    *)
(* stream or changes nothing a reader can see (ringbuf.h:9-17).            *)
ImplementsStream == Stream!Spec
=============================================================================
