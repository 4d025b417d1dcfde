-------------------------- MODULE ConsumersProofs --------------------------
(***************************************************************************)
(* Proofs about Consumers, for every ring size, all batch sizes of the two *)
(* programs and all values of -n and --count.                              *)
(***************************************************************************)
EXTENDS Consumers, SequenceTheorems, TLAPS

-----------------------------------------------------------------------------
(* The inductive invariant.                                                *)

(* The ring, as far as the programs rely on it: no cursor is past the      *)
(* head.                                                                   *)
Cursors ==
  /\ head \in Nat
  /\ opened \subseteq Fds
  /\ cursor \in [Fds -> Nat] /\ received \in [Fds -> Seq(Nat)]
  /\ \A f \in Fds : cursor[f] <= head

(* What the ring counts, and where the files were opened.                  *)
Counters == start \in [Fds -> Nat] /\ dropped \in Nat

(* The C reader: samples are in batch[] only between read() and the loop   *)
(* that prints them, and it polls only below its limit.                    *)
BatchIsFresh == cpc # "print" => batch = <<>>

BelowMax == cpc \in {"call", "poll", "read"} /\ max >= 0 => total < max

CInv ==
  /\ C!OwnTypeOK /\ BatchIsFresh /\ BelowMax
  /\ C!AtMostMax /\ C!AllPrinted /\ C!ReadHasData

(* The Python consumer: idx counts the rows, and is one behind between     *)
(* print and count; while rows are to come, the limit is not reached.      *)
Counted ==
  /\ pypc \in {"oneshot", "setup", "loop", "call", "poll", "readv", "next",
               "print"} => idx = Len(rows)
  /\ pypc = "count" => idx = Len(rows) - 1
  /\ pypc = "stop" => idx = Len(rows) \/ idx = Len(rows) - 1
  /\ pypc \notin {"exited", "stop"} /\ count > 0 => idx < count

RestIsLeft ==
  /\ pypc = "print" => rest # <<>>
  /\ pypc \in {"oneshot", "setup"} => rest = <<>>

PyInv ==
  /\ Py!OwnTypeOK /\ Counted /\ RestIsLeft
  /\ Py!AtMostCount /\ Py!RowsAreSamples /\ Py!RowsNumbered

IInv == Cursors /\ Counters /\ CInv /\ PyInv

-----------------------------------------------------------------------------
(* The sequences of samples.                                               *)

LEMMA RunIsSeq ==
  ASSUME NEW n \in Nat, NEW r \in Nat
  PROVE  /\ [i \in 1..n |-> r + i] \in Seq(Nat)
         /\ Len([i \in 1..n |-> r + i]) = n
OBVIOUS

(* The samples of the rows. *)
SampleOf(rs) == [i \in 1..Len(rs) |-> rs[i][2]]

LEMMA SamplesOfRows ==
  ASSUME NEW rs \in Seq(Nat \X Nat)
  PROVE  SampleOf(rs) \in Seq(Nat) /\ Len(SampleOf(rs)) = Len(rs)
<1>1. Len(rs) \in Nat /\ \A i \in 1..Len(rs) : rs[i] \in Nat \X Nat
  BY LenProperties, ElementOfSeq
<1> QED
  BY <1>1 DEF SampleOf

(* A row takes the first sample of the rest of the batch.                  *)
LEMMA RowTakesFirst ==
  ASSUME NEW rs \in Seq(Nat \X Nat), NEW rt \in Seq(Nat), rt # <<>>,
         NEW k \in Nat
  PROVE  LET new == Append(rs, <<k, Head(rt)>>) IN
         /\ new \in Seq(Nat \X Nat) /\ Len(new) = Len(rs) + 1
         /\ new[Len(rs) + 1] = <<k, Head(rt)>>
         /\ \A i \in 1..Len(rs) : new[i] = rs[i]
         /\ Tail(rt) \in Seq(Nat)
         /\ SampleOf(new) \o Tail(rt) = SampleOf(rs) \o rt
<1> DEFINE e == <<k, Head(rt)>>
           new == Append(rs, e)
<1>1. /\ Head(rt) \in Nat /\ Tail(rt) \in Seq(Nat)
      /\ rt = <<Head(rt)>> \o Tail(rt)
  BY HeadTailProperties
<1>2. e \in Nat \X Nat /\ e[2] = Head(rt)
  BY <1>1
<1> HIDE DEF e
<1>3. /\ new \in Seq(Nat \X Nat) /\ Len(new) = Len(rs) + 1
      /\ new[Len(rs) + 1] = e
      /\ \A i \in 1..Len(rs) : new[i] = rs[i]
  BY <1>2, AppendProperties
<1> HIDE DEF new
<1>4. SampleOf(new) = Append(SampleOf(rs), Head(rt))
  <2>1. Len(rs) \in Nat
    BY LenProperties
  <2>2. /\ SampleOf(new) \in Seq(Nat) /\ SampleOf(rs) \in Seq(Nat)
        /\ Len(SampleOf(new)) = Len(rs) + 1 /\ Len(SampleOf(rs)) = Len(rs)
    BY <1>3, SamplesOfRows
  <2>3. /\ Append(SampleOf(rs), Head(rt)) \in Seq(Nat)
        /\ Len(Append(SampleOf(rs), Head(rt))) = Len(rs) + 1
        /\ Append(SampleOf(rs), Head(rt))[Len(rs) + 1] = Head(rt)
        /\ \A i \in 1..Len(rs) :
             Append(SampleOf(rs), Head(rt))[i] = SampleOf(rs)[i]
    BY <1>1, <2>2, AppendProperties
  <2>4. \A i \in 1..Len(rs) + 1 :
          SampleOf(new)[i] = Append(SampleOf(rs), Head(rt))[i]
    <3>1. /\ \A i \in 1..Len(rs) + 1 : SampleOf(new)[i] = new[i][2]
          /\ \A i \in 1..Len(rs) : SampleOf(rs)[i] = rs[i][2]
      BY <1>3 DEF SampleOf
    <3>2. \A i \in 1..Len(rs) + 1 : i \in 1..Len(rs) \/ i = Len(rs) + 1
      BY <2>1
    <3> QED
      BY <1>2, <1>3, <2>3, <3>1, <3>2
  <2> QED
    BY <2>2, <2>3, <2>4, SeqEqual
<1>5. SampleOf(new) \o Tail(rt) = SampleOf(rs) \o rt
  <2>1. SampleOf(rs) \in Seq(Nat) /\ <<Head(rt)>> \in Seq(Nat)
    BY <1>1, SamplesOfRows
  <2>2. Append(SampleOf(rs), Head(rt)) = SampleOf(rs) \o <<Head(rt)>>
    BY <1>1, <2>1, AppendIsConcat
  <2>3. (SampleOf(rs) \o <<Head(rt)>>) \o Tail(rt)
          = SampleOf(rs) \o (<<Head(rt)>> \o Tail(rt))
    BY <1>1, <2>1, ConcatAssociative
  <2> QED
    BY <1>1, <1>4, <2>2, <2>3
<1> QED
  BY <1>1, <1>3, <1>5 DEF e, new

-----------------------------------------------------------------------------
(* What a step of a program does to the ring.                              *)

Still == UNCHANGED <<head, opened, cursor, received>>

Attaches(f) ==
  /\ head' = head /\ opened' = opened \cup {f}
  /\ cursor' = [cursor EXCEPT ![f] = head]
  /\ received' = [received EXCEPT ![f] = <<>>]

Detaches(f) ==
  /\ head' = head /\ opened' = opened \ {f}
  /\ cursor' = [cursor EXCEPT ![f] = 0]
  /\ received' = [received EXCEPT ![f] = <<>>]

(* f resumes after sample r and takes n samples, taken. *)
Took(f, r, n, taken) ==
  /\ r + n <= head
  /\ head' = head /\ opened' = opened
  /\ taken = [i \in 1..n |-> r + i]
  /\ taken \in Seq(Nat) /\ Len(taken) = n
  /\ cursor' = [cursor EXCEPT ![f] = r + n]
  /\ received' = [received EXCEPT ![f] = @ \o taken]

LEMMA SizesPositive ==
  /\ Size \in Nat /\ Size > 0 /\ CBatch \in Nat /\ CBatch > 0
  /\ PyBatch \in Nat /\ PyBatch > 0
BY ConsumersAssumption

LEMMA CReadTakes ==
  ASSUME Cursors, CInv, C!Read
  PROVE  \E r, n \in Nat : /\ Took("c", r, n, batch')
                           /\ max >= 0 => n <= max - total
<1> DEFINE r == C!Ring!Resume("c")
           want == C!Want
           n == C!Lesser(C!Lesser(want, Size), head - r)
<1>1. cursor["c"] \in Nat /\ cursor["c"] <= head /\ head \in Nat
  BY DEF Cursors, Fds
<1>2. r \in Nat /\ r <= head
  BY <1>1, SizesPositive DEF C!Ring!Resume, C!Ring!Oldest
<1>3. want \in Nat /\ (max >= 0 => want <= max - total)
  <2>1. max \in Int /\ total \in Nat
    BY ConsumersAssumption DEF CInv, C!OwnTypeOK
  <2>2. max >= 0 => total < max
    BY DEF CInv, BelowMax, C!Read
  <2> QED
    BY <2>1, <2>2, SizesPositive DEF C!Want, C!Lesser
<1>4. /\ batch' = [i \in 1..n |-> r + i]
      /\ head' = head /\ opened' = opened
      /\ cursor' = [cursor EXCEPT !["c"] = r + n]
      /\ received' = [received EXCEPT !["c"] = @ \o [i \in 1..n |-> r + i]]
  BY DEF C!Read, C!Ring!Consume
<1>5. n \in Nat /\ n <= head - r /\ n <= want
  BY <1>1, <1>2, <1>3, SizesPositive DEF C!Lesser
<1> HIDE DEF r, n, want
<1>6. [i \in 1..n |-> r + i] \in Seq(Nat) /\ Len([i \in 1..n |-> r + i]) = n
  BY <1>2, <1>5, RunIsSeq
<1>7. r + n <= head
  BY <1>1, <1>2, <1>5
<1>8. Took("c", r, n, batch')
  BY <1>4, <1>6, <1>7 DEF Took
<1>9. max >= 0 => n <= max - total
  <2>1. max \in Int /\ total \in Nat
    BY ConsumersAssumption DEF CInv, C!OwnTypeOK
  <2> QED
    BY <1>3, <1>5, <2>1
<1> QED
  BY <1>2, <1>5, <1>8, <1>9

LEMMA PyReadTakes ==
  ASSUME Cursors, Py!Readv
  PROVE  \E r, n \in Nat : /\ Took("py", r, n, rest')
                           /\ pypc' = IF n = 0 THEN "stop" ELSE "next"
<1> DEFINE r == Py!Ring!Resume("py")
           n == Py!Lesser(Py!Lesser(PyBatch, Size), head - r)
<1>1. cursor["py"] \in Nat /\ cursor["py"] <= head /\ head \in Nat
  BY DEF Cursors, Fds
<1>2. r \in Nat /\ r <= head
  BY <1>1, SizesPositive DEF Py!Ring!Resume, Py!Ring!Oldest
<1>3. /\ rest' = [i \in 1..n |-> r + i]
      /\ pypc' = IF n = 0 THEN "stop" ELSE "next"
      /\ head' = head /\ opened' = opened
      /\ cursor' = [cursor EXCEPT !["py"] = r + n]
      /\ received' = [received EXCEPT !["py"] = @ \o [i \in 1..n |-> r + i]]
  BY DEF Py!Readv, Py!Ring!Consume
<1>4. n \in Nat /\ n <= head - r
  BY <1>1, <1>2, SizesPositive DEF Py!Lesser
<1> HIDE DEF r, n
<1>5. [i \in 1..n |-> r + i] \in Seq(Nat) /\ Len([i \in 1..n |-> r + i]) = n
  BY <1>2, <1>4, RunIsSeq
<1>6. r + n <= head
  BY <1>1, <1>2, <1>4
<1>7. Took("py", r, n, rest')
  BY <1>3, <1>5, <1>6 DEF Took
<1> QED
  BY <1>2, <1>3, <1>4, <1>7

(* What either program does to the ring is to its own file. *)
RingStep(f) ==
  \/ Still \/ Attaches(f) \/ Detaches(f)
  \/ \E r, n \in Nat : \E taken : Took(f, r, n, taken)

LEMMA CSteps ==
  ASSUME Cursors, CInv, C!Step \/ C!Outside
  PROVE  RingStep("c")
<1> USE DEF C!ring
<1>1. CASE C!Read
  BY <1>1, CReadTakes, Zenon DEF RingStep
<1>2. CASE C!Close
  BY <1>2 DEF C!Close, C!Ring!Detach, RingStep, Detaches
<1>3. ASSUME NEW n, C!Exec(n)
      PROVE  RingStep("c")
  BY <1>3 DEF C!Exec, C!Ring!Attach, RingStep, Attaches
<1>4. CASE C!Test \/ C!PollEnter \/ C!PollIn \/ C!PollEmpty \/ C!PrintBatch
             \/ C!Signal \/ C!CallFails
  <2>1. Still
    BY <1>4 DEF C!Test, C!PollEnter, C!PollIn, C!PollEmpty, C!PrintBatch,
                C!Signal, C!CallFails, C!Moves, Still
  <2> QED
    BY <2>1 DEF RingStep
<1> QED
  BY <1>1, <1>2, <1>3, <1>4 DEF C!Step, C!Outside

LEMMA PySteps ==
  ASSUME Cursors, Py!Step \/ Py!Outside
  PROVE  RingStep("py")
<1> USE DEF Py!ring
<1>1. CASE Py!Readv
  BY <1>1, PyReadTakes, Zenon DEF RingStep
<1>2. CASE Py!Ends
  BY <1>2 DEF Py!Ends, Py!Ring!Detach, RingStep, Detaches
<1>3. ASSUME NEW n, Py!Exec(n)
      PROVE  RingStep("py")
  BY <1>3 DEF Py!Exec, Py!Ring!Attach, RingStep, Attaches
<1>4. CASE Py!InterruptCaught \/ Py!Setup \/ Py!PollCall \/ Py!PollEnter
             \/ Py!PollIn \/ Py!PollEmpty \/ Py!Yield \/ Py!PrintRow
             \/ Py!Count \/ Py!Signal
  <2>1. Still
    BY <1>4 DEF Py!InterruptCaught, Py!Setup, Py!PollCall, Py!PollEnter,
                Py!PollIn, Py!PollEmpty, Py!Yield, Py!PrintRow, Py!Count,
                Py!Signal, Py!Goes, Py!Moves, Still
  <2> QED
    BY <2>1 DEF RingStep
<1> QED
  BY <1>1, <1>2, <1>3, <1>4
     DEF Py!Step, Py!Outside, Py!InterruptUncaught, Py!OneShot, Py!Stop,
         Py!CallFails

(* So the other file keeps its cursor and what it was handed, and no       *)
(* cursor gets past the head.                                              *)
LEMMA RingStepKeeps ==
  ASSUME Cursors, NEW f \in Fds, RingStep(f)
  PROVE  /\ Cursors' /\ head' = head
         /\ \A g \in Fds : g # f => /\ cursor'[g] = cursor[g]
                                    /\ received'[g] = received[g]
<1>0. <<>> \in Seq(Nat)
  OBVIOUS
<1>1. CASE Still
  BY <1>1 DEF Still, Cursors
<1>2. CASE Attaches(f)
  <2>1. Cursors'
    BY <1>0, <1>2 DEF Attaches, Cursors
  <2> QED
    BY <1>2, <2>1 DEF Attaches, Cursors
<1>3. CASE Detaches(f)
  <2>1. Cursors'
    BY <1>0, <1>3 DEF Detaches, Cursors
  <2> QED
    BY <1>3, <2>1 DEF Detaches, Cursors
<1>4. ASSUME NEW r \in Nat, NEW n \in Nat, NEW taken, Took(f, r, n, taken)
      PROVE  /\ Cursors' /\ head' = head
             /\ \A g \in Fds : g # f => /\ cursor'[g] = cursor[g]
                                        /\ received'[g] = received[g]
  <2>1. received[f] \o taken \in Seq(Nat)
    BY <1>4, ConcatProperties DEF Took, Cursors
  <2> QED
    BY <1>4, <2>1 DEF Took, Cursors
<1> QED
  BY <1>1, <1>2, <1>3, <1>4 DEF RingStep

(* A file is opened at the head, and a read adds what it skips to dropped: *)
(* it resumes no earlier than its cursor.                                  *)
LEMMA ReadCounts ==
  ASSUME Cursors, Counters, NEW f \in Fds, NEW r \in Int, r >= cursor[f],
         dropped' = dropped + (r - cursor[f]), UNCHANGED start
  PROVE  Counters'
<1>1. cursor[f] \in Nat /\ dropped \in Nat
  BY DEF Cursors, Counters
<1>2. dropped' \in Nat
  BY <1>1
<1> QED
  BY <1>2 DEF Counters

LEMMA CCounts ==
  ASSUME Cursors, Counters, C!Step \/ C!Outside
  PROVE  Counters'
<1> USE DEF C!ring
<1>h. head \in Nat /\ "c" \in Fds /\ cursor["c"] \in Nat /\ cursor["c"] <= head
  BY DEF Cursors, Fds
<1>1. CASE C!Read
  <2> DEFINE r == C!Ring!Resume("c")
  <2>1. r \in Int /\ r >= cursor["c"]
    BY <1>h, SizesPositive DEF C!Ring!Resume, C!Ring!Oldest
  <2>2. dropped' = dropped + (r - cursor["c"]) /\ UNCHANGED start
    BY <1>1 DEF C!Read, C!Ring!Consume
  <2> HIDE DEF r
  <2> QED
    BY <1>h, <2>1, <2>2, ReadCounts
<1>2. CASE C!Close
  BY <1>2 DEF C!Close, C!Ring!Detach, Counters
<1>3. ASSUME NEW n, C!Exec(n)
      PROVE  Counters'
  BY <1>h, <1>3 DEF C!Exec, C!Ring!Attach, Counters
<1>4. CASE C!Test \/ C!PollEnter \/ C!PollIn \/ C!PollEmpty \/ C!PrintBatch
             \/ C!Signal \/ C!CallFails
  BY <1>4 DEF C!Test, C!PollEnter, C!PollIn, C!PollEmpty, C!PrintBatch,
              C!Signal, C!CallFails, C!Moves, Counters
<1> QED
  BY <1>1, <1>2, <1>3, <1>4 DEF C!Step, C!Outside

LEMMA PyCounts ==
  ASSUME Cursors, Counters, Py!Step \/ Py!Outside
  PROVE  Counters'
<1> USE DEF Py!ring
<1>h. /\ head \in Nat /\ "py" \in Fds
      /\ cursor["py"] \in Nat /\ cursor["py"] <= head
  BY DEF Cursors, Fds
<1>1. CASE Py!Readv
  <2> DEFINE r == Py!Ring!Resume("py")
  <2>1. r \in Int /\ r >= cursor["py"]
    BY <1>h, SizesPositive DEF Py!Ring!Resume, Py!Ring!Oldest
  <2>2. dropped' = dropped + (r - cursor["py"]) /\ UNCHANGED start
    BY <1>1 DEF Py!Readv, Py!Ring!Consume
  <2> HIDE DEF r
  <2> QED
    BY <1>h, <2>1, <2>2, ReadCounts
<1>2. CASE Py!Ends
  BY <1>2 DEF Py!Ends, Py!Ring!Detach, Counters
<1>3. ASSUME NEW n, Py!Exec(n)
      PROVE  Counters'
  BY <1>h, <1>3 DEF Py!Exec, Py!Ring!Attach, Counters
<1>4. CASE Py!InterruptCaught \/ Py!Setup \/ Py!PollCall \/ Py!PollEnter
             \/ Py!PollIn \/ Py!PollEmpty \/ Py!Yield \/ Py!PrintRow
             \/ Py!Count \/ Py!Signal
  BY <1>4 DEF Py!InterruptCaught, Py!Setup, Py!PollCall, Py!PollEnter,
              Py!PollIn, Py!PollEmpty, Py!Yield, Py!PrintRow, Py!Count,
              Py!Signal, Py!Goes, Py!Moves, Counters
<1> QED
  BY <1>1, <1>2, <1>3, <1>4
     DEF Py!Step, Py!Outside, Py!InterruptUncaught, Py!OneShot, Py!Stop,
         Py!CallFails

-----------------------------------------------------------------------------
(* The C reader.                                                           *)

LEMMA CFrame ==
  ASSUME Cursors, CInv, UNCHANGED cown, head' \in Nat, head <= head',
         cursor'["c"] = cursor["c"], received'["c"] = received["c"]
  PROVE  CInv'
<1>1. /\ cpc' = cpc /\ max' = max /\ total' = total /\ batch' = batch
      /\ running' = running /\ ceintr' = ceintr /\ printed' = printed
  BY DEF cown
<1>2. cursor["c"] \in Nat /\ head \in Nat
  BY DEF Cursors, Fds
<1>3. C!Available => C!Available'
  BY <1>2 DEF C!Available
<1> QED
  BY <1>1, <1>3 DEF CInv, C!OwnTypeOK, BatchIsFresh, BelowMax, C!AtMostMax,
     C!AllPrinted, C!ReadHasData

(* A step that leaves the ring, batch[] and what was printed alone.        *)
LEMMA CMoves ==
  ASSUME Cursors, CInv, UNCHANGED <<ring, max, total, batch, printed>>,
         running' \in BOOLEAN, ceintr' \in BOOLEAN,
         cpc # "exited", cpc # "print",
         cpc' \in {"test", "call", "poll", "read", "close"},
         cpc' \in {"call", "poll", "read"} /\ max >= 0 => total < max,
         cpc' = "read" => C!Available
  PROVE  CInv'
<1>1. /\ max' = max /\ total' = total /\ batch' = batch
      /\ head' = head /\ cursor' = cursor /\ received' = received
      /\ printed' = printed
  BY DEF ring
<1>2. max \in Int /\ total \in Nat
  BY ConsumersAssumption DEF CInv, C!OwnTypeOK
<1>3. BelowMax' /\ BatchIsFresh'
  BY <1>1, <1>2 DEF CInv, BelowMax, BatchIsFresh
<1>4. C!OwnTypeOK' /\ C!AtMostMax' /\ C!AllPrinted' /\ C!ReadHasData'
  BY <1>1 DEF CInv, C!OwnTypeOK, BatchIsFresh, C!AtMostMax, C!AllPrinted,
     C!ReadHasData, C!Available
<1> QED
  BY <1>3, <1>4 DEF CInv

LEMMA CExecStep ==
  ASSUME Cursors, CInv, NEW n \in {{}} \cup {{v} : v \in Maxes}, C!Exec(n)
  PROVE  CInv'
<1>1. C!Limit(n) \in Maxes \cup {-1}
  BY DEF C!Limit
<1>2. /\ cpc' = "test" /\ max' = C!Limit(n) /\ total' = 0
      /\ running' = TRUE /\ ceintr' = FALSE
      /\ batch' = <<>> /\ printed' = <<>> /\ received'["c"] = <<>>
  BY DEF C!Exec, C!Ring!Attach, Cursors, Fds
<1>3. <<>> \in Seq(Nat) /\ Len(<<>>) = 0 /\ <<>> \o <<>> = <<>>
  OBVIOUS
<1>4. max' \in Maxes \cup {-1}
  BY <1>1, <1>2
<1>5. max' \in Int
  <2>1. Maxes \subseteq Int
    BY ConsumersAssumption
  <2>2. Maxes \cup {-1} \subseteq Int
    BY <2>1
  <2> QED
    BY <1>4, <2>2
<1>6. C!OwnTypeOK'
  BY <1>2, <1>3, <1>4 DEF C!OwnTypeOK
<1>7. C!AtMostMax' /\ C!AllPrinted' /\ C!ReadHasData' /\ BatchIsFresh'
      /\ BelowMax'
  BY <1>2, <1>3, <1>5
     DEF BatchIsFresh, BelowMax, C!AtMostMax, C!AllPrinted, C!ReadHasData
<1> QED
  BY <1>6, <1>7 DEF CInv

LEMMA CReadStep ==
  ASSUME Cursors, CInv, C!Read
  PROVE  CInv'
<1>1. PICK r, n \in Nat : /\ Took("c", r, n, batch')
                          /\ max >= 0 => n <= max - total
  BY CReadTakes
<1>2. /\ batch' \in Seq(Nat) /\ Len(batch') = n
      /\ received'["c"] = received["c"] \o batch'
  BY <1>1 DEF Took, Cursors, Fds
<1>3. /\ cpc = "read" /\ cpc' = "print"
      /\ max' = max /\ total' = total /\ printed' = printed
      /\ running' = running /\ ceintr' = ceintr
  BY DEF C!Read
<1>4. printed = received["c"] /\ printed \in Seq(Nat) /\ total = Len(printed)
  <2>1. printed \in Seq(Nat) /\ batch = <<>> /\ printed \o batch = received["c"]
    BY <1>3 DEF CInv, C!OwnTypeOK, BatchIsFresh, C!AllPrinted
  <2>2. printed \o <<>> = printed
    BY <2>1, ConcatEmptySeq
  <2> QED
    BY <1>3, <2>1, <2>2 DEF CInv, C!AllPrinted
<1>5. C!AtMostMax'
  <2>1. max \in Int /\ total \in Nat
    BY ConsumersAssumption DEF CInv, C!OwnTypeOK
  <2> QED
    BY <1>1, <1>2, <1>3, <2>1 DEF C!AtMostMax
<1>6. C!AllPrinted'
  BY <1>2, <1>3, <1>4 DEF C!AllPrinted
<1> QED
  BY <1>2, <1>3, <1>5, <1>6
     DEF CInv, C!OwnTypeOK, BatchIsFresh, BelowMax, C!ReadHasData

LEMMA CPrintStep ==
  ASSUME Cursors, CInv, C!PrintBatch
  PROVE  CInv'
<1>1. /\ cpc = "print" /\ cpc' \in {"close", "test"}
      /\ printed' = printed \o batch /\ total' = total + Len(batch)
      /\ batch' = <<>> /\ max' = max /\ running' = running
      /\ ceintr' = ceintr /\ received' = received
  BY DEF C!PrintBatch, C!ring
<1>2. /\ printed \in Seq(Nat) /\ batch \in Seq(Nat) /\ total = Len(printed)
      /\ printed \o batch = received["c"]
  BY <1>1 DEF CInv, C!OwnTypeOK, C!AllPrinted
<1>3. /\ printed' \in Seq(Nat) /\ Len(printed') = total'
      /\ printed' \o <<>> = received'["c"]
      /\ total' \in Nat
  <2>1. printed \o batch \in Seq(Nat) /\ Len(printed \o batch) = total'
    BY <1>1, <1>2, ConcatProperties
  <2>2. (printed \o batch) \o <<>> = printed \o batch
    BY <2>1, ConcatEmptySeq
  <2>3. total' \in Nat
    BY <2>1, LenProperties
  <2> QED
    BY <1>1, <1>2, <2>1, <2>2, <2>3
<1>4. <<>> \in Seq(Nat) /\ Len(<<>>) = 0
  OBVIOUS
<1>5. C!AtMostMax'
  BY <1>1, <1>3, <1>4 DEF CInv, C!AtMostMax
<1>6. C!AllPrinted' /\ BatchIsFresh' /\ BelowMax' /\ C!ReadHasData'
  BY <1>1, <1>3 DEF C!AllPrinted, BatchIsFresh, BelowMax, C!ReadHasData
<1> QED
  BY <1>1, <1>3, <1>4, <1>5, <1>6 DEF CInv, C!OwnTypeOK

LEMMA CCloseStep ==
  ASSUME Cursors, CInv, C!Close
  PROVE  CInv'
BY DEF C!Close, CInv, C!OwnTypeOK, BatchIsFresh, BelowMax, C!AtMostMax,
       C!AllPrinted, C!ReadHasData

LEMMA CSignalStep ==
  ASSUME Cursors, CInv, C!Signal
  PROVE  CInv'
<1>1. /\ cpc' = cpc /\ max' = max /\ total' = total /\ batch' = batch
      /\ head' = head /\ cursor' = cursor /\ received' = received
      /\ printed' = printed /\ running' = FALSE
  BY DEF C!Signal, C!ring
<1>2. ceintr' \in BOOLEAN
  BY DEF C!Signal
<1> QED
  BY <1>1, <1>2 DEF CInv, C!OwnTypeOK, BatchIsFresh, BelowMax, C!AtMostMax,
     C!AllPrinted, C!ReadHasData, C!Available

LEMMA CInvStep ==
  ASSUME Cursors, CInv, C!Step \/ C!Outside
  PROVE  CInv'
<1> USE DEF C!ring, ring
<1>t. running \in BOOLEAN /\ ceintr \in BOOLEAN
  BY DEF CInv, C!OwnTypeOK
<1>b. max \in Int /\ total \in Nat
  BY ConsumersAssumption DEF CInv, C!OwnTypeOK
<1>1. CASE C!Test
  BY <1>t, <1>b, <1>1, CMoves DEF C!Test, C!Moves
<1>2. CASE C!PollEnter
  BY <1>t, <1>2, CMoves DEF C!PollEnter, CInv, BelowMax
<1>3. CASE C!PollIn \/ C!PollEmpty
  BY <1>t, <1>3, CMoves DEF C!PollIn, C!PollEmpty, C!Moves, CInv, BelowMax
<1>4. CASE C!CallFails
  BY <1>t, <1>4, CMoves DEF C!CallFails, C!Moves
<1> QED
  BY <1>1, <1>2, <1>3, <1>4, CReadStep, CPrintStep, CCloseStep, CSignalStep,
     CExecStep DEF C!Step, C!Outside

-----------------------------------------------------------------------------
(* The Python consumer.                                                    *)

LEMMA PyFrame ==
  ASSUME PyInv, UNCHANGED pyown, received'["py"] = received["py"]
  PROVE  PyInv'
<1>1. /\ pypc' = pypc /\ count' = count /\ idx' = idx /\ rest' = rest
      /\ tripped' = tripped /\ pyeintr' = pyeintr /\ rows' = rows
  BY DEF pyown
<1> QED
  BY <1>1 DEF PyInv, Py!OwnTypeOK, Counted, RestIsLeft, Py!AtMostCount,
     Py!RowsAreSamples, Py!RowsNumbered

(* A step that leaves the ring, the rest of the batch and the rows alone.  *)
LEMMA PyMoves ==
  ASSUME PyInv, UNCHANGED <<ring, count, idx, rest, rows>>,
         tripped' \in BOOLEAN, pyeintr' \in BOOLEAN, pypc # "exited",
         \/ pypc' = pypc
         \/ pypc' = "stop"
         \/ /\ pypc \notin {"count", "stop"}
            /\ pypc' \in {"loop", "call", "poll", "readv", "print"}
            /\ pypc' = "print" <=> rest # <<>>
  PROVE  PyInv'
<1>1. /\ count' = count /\ idx' = idx /\ rest' = rest
      /\ received' = received /\ rows' = rows
  BY DEF ring
<1>2. Counted' /\ RestIsLeft' /\ Py!RowsNumbered'
  BY <1>1 DEF PyInv, Counted, RestIsLeft, Py!OwnTypeOK, Py!RowsNumbered
<1>3. Py!OwnTypeOK' /\ Py!AtMostCount' /\ Py!RowsAreSamples'
  BY <1>1 DEF PyInv, Py!OwnTypeOK, Py!AtMostCount, Py!RowsAreSamples
<1> QED
  BY <1>2, <1>3 DEF PyInv

LEMMA PyExecStep ==
  ASSUME Cursors, PyInv, NEW n \in Counts, Py!Exec(n)
  PROVE  PyInv'
<1>1. /\ pypc' \in {"setup", "oneshot"} /\ count' = n /\ idx' = 0
      /\ tripped' = FALSE /\ pyeintr' = FALSE
      /\ rest' = <<>> /\ rows' = <<>> /\ received'["py"] = <<>>
  BY DEF Py!Exec, Py!Ring!Attach, Cursors, Fds
<1>2. /\ <<>> \in Seq(Nat) /\ <<>> \in Seq(Nat \X Nat) /\ Len(<<>>) = 0
      /\ SampleOf(<<>>) \o <<>> = <<>>
  <2>1. SampleOf(<<>>) = <<>>
    BY DEF SampleOf
  <2> QED
    BY <2>1
<1>3. n \in Int
  BY ConsumersAssumption
<1>4. Py!RowsAreSamples'
  BY <1>1, <1>2 DEF Py!RowsAreSamples, SampleOf
<1>5. Py!OwnTypeOK' /\ Counted' /\ RestIsLeft'
  BY <1>1, <1>2, <1>3 DEF Py!OwnTypeOK, Counted, RestIsLeft
<1>6. Py!AtMostCount' /\ Py!RowsNumbered'
  BY <1>1, <1>2, <1>3 DEF Py!AtMostCount, Py!RowsNumbered
<1> QED
  BY <1>4, <1>5, <1>6 DEF PyInv

LEMMA PyEndsStep ==
  ASSUME PyInv, Py!Ends
  PROVE  PyInv'
<1>1. /\ pypc' = "exited" /\ tripped' = FALSE /\ pyeintr' = pyeintr
      /\ count' = count /\ idx' = idx /\ rest' = rest /\ rows' = rows
  BY DEF Py!Ends
<1> QED
  BY <1>1 DEF PyInv, Py!OwnTypeOK, Counted, RestIsLeft, Py!AtMostCount,
     Py!RowsAreSamples, Py!RowsNumbered

LEMMA PyReadStep ==
  ASSUME Cursors, PyInv, Py!Readv
  PROVE  PyInv'
<1>1. PICK r, n \in Nat : /\ Took("py", r, n, rest')
                          /\ pypc' = IF n = 0 THEN "stop" ELSE "next"
  BY PyReadTakes
<1>2. /\ rest' \in Seq(Nat) /\ pypc' \in {"stop", "next"}
      /\ received'["py"] = received["py"] \o rest'
  BY <1>1 DEF Took, Cursors, Fds
<1>3. /\ pypc = "readv" /\ rows' = rows /\ idx' = idx /\ count' = count
      /\ tripped' = tripped /\ pyeintr' = pyeintr
  BY DEF Py!Readv
<1>4. SampleOf(rows) = received["py"]
  <2>1. SampleOf(rows) \o <<>> = received["py"]
    BY <1>3 DEF PyInv, Py!RowsAreSamples, SampleOf
  <2>2. SampleOf(rows) \in Seq(Nat)
    BY SamplesOfRows DEF PyInv, Py!OwnTypeOK
  <2> QED
    BY <2>1, <2>2, ConcatEmptySeq
<1>5. Py!RowsAreSamples'
  <2>1. SampleOf(rows') = SampleOf(rows)
    BY <1>3
  <2>2. SampleOf(rows') \o rest' = received'["py"]
    BY <1>2, <1>4, <2>1
  <2> QED
    BY <1>2, <2>2 DEF Py!RowsAreSamples, SampleOf
<1> QED
  BY <1>2, <1>3, <1>5 DEF PyInv, Py!OwnTypeOK, Counted, RestIsLeft,
     Py!AtMostCount, Py!RowsNumbered

LEMMA PyPrintStep ==
  ASSUME PyInv, Py!PrintRow
  PROVE  PyInv'
<1>1. /\ pypc = "print" /\ pypc' = "count"
      /\ rows' = Append(rows, <<idx, Head(rest)>>) /\ rest' = Tail(rest)
      /\ count' = count /\ idx' = idx /\ tripped' = tripped
      /\ pyeintr' = pyeintr /\ received' = received
  BY DEF Py!PrintRow, Py!ring
<1>2. /\ rows \in Seq(Nat \X Nat) /\ rest \in Seq(Nat) /\ rest # <<>>
      /\ idx \in Nat /\ idx = Len(rows)
      /\ count > 0 => idx < count
      /\ \A i \in 1..Len(rows) : rows[i][1] = i - 1
      /\ SampleOf(rows) \o rest = received["py"]
  BY <1>1 DEF PyInv, Py!OwnTypeOK, Counted, RestIsLeft, Py!RowsNumbered,
     Py!RowsAreSamples, SampleOf
<1>3. /\ rows' \in Seq(Nat \X Nat) /\ Len(rows') = Len(rows) + 1
      /\ rows'[Len(rows) + 1] = <<idx, Head(rest)>>
      /\ \A i \in 1..Len(rows) : rows'[i] = rows[i]
      /\ rest' \in Seq(Nat)
      /\ SampleOf(rows') \o rest' = SampleOf(rows) \o rest
  BY <1>1, <1>2, RowTakesFirst
<1>4. Py!RowsAreSamples'
  BY <1>1, <1>2, <1>3 DEF Py!RowsAreSamples, SampleOf
<1>5. Py!RowsNumbered'
  <2>1. \A i \in 1..Len(rows') : i \in 1..Len(rows) \/ i = Len(rows) + 1
    BY <1>2, <1>3
  <2>2. rows'[Len(rows) + 1][1] = (Len(rows) + 1) - 1
    BY <1>2, <1>3
  <2>3. \A i \in 1..Len(rows) : rows'[i][1] = i - 1
    BY <1>2, <1>3
  <2>4. \A i \in 1..Len(rows') : rows'[i][1] = i - 1
    BY <2>1, <2>2, <2>3
  <2> QED
    BY <1>1, <1>2, <1>3, <2>4 DEF Py!RowsNumbered
<1>6. Py!OwnTypeOK'
  BY <1>1, <1>3 DEF PyInv, Py!OwnTypeOK
<1>7. Py!AtMostCount' /\ Counted' /\ RestIsLeft'
  <2>1. count \in Int
    BY ConsumersAssumption DEF PyInv, Py!OwnTypeOK
  <2> QED
    BY <1>1, <1>2, <1>3, <2>1 DEF Py!AtMostCount, Counted, RestIsLeft
<1> QED
  BY <1>4, <1>5, <1>6, <1>7 DEF PyInv

LEMMA PyCountStep ==
  ASSUME PyInv, Py!Count
  PROVE  PyInv'
<1>1. /\ pypc = "count" /\ idx' = idx + 1
      /\ pypc' = IF count # 0 /\ idx + 1 >= count THEN "stop" ELSE "next"
      /\ rows' = rows /\ rest' = rest /\ count' = count
      /\ tripped' = tripped /\ pyeintr' = pyeintr /\ received' = received
  BY DEF Py!Count, Py!ring
<1>2. /\ idx \in Nat /\ idx = Len(rows) - 1 /\ count \in Int
      /\ Len(rows) \in Nat
  BY <1>1, ConsumersAssumption, LenProperties
     DEF PyInv, Py!OwnTypeOK, Counted
<1>3. Counted' /\ RestIsLeft'
  BY <1>1, <1>2 DEF Counted, RestIsLeft
<1>4. Py!RowsNumbered' /\ Py!AtMostCount' /\ Py!RowsAreSamples'
  BY <1>1, <1>2
     DEF PyInv, Py!RowsNumbered, Py!AtMostCount, Py!RowsAreSamples
<1> QED
  BY <1>1, <1>2, <1>3, <1>4 DEF PyInv, Py!OwnTypeOK

LEMMA PyInvStep ==
  ASSUME Cursors, PyInv, Py!Step \/ Py!Outside
  PROVE  PyInv'
<1> USE DEF Py!ring, ring
<1>t. tripped \in BOOLEAN /\ pyeintr \in BOOLEAN
  BY DEF PyInv, Py!OwnTypeOK
<1>1. CASE Py!InterruptCaught \/ Py!Signal
  BY <1>t, <1>1, PyMoves DEF Py!InterruptCaught, Py!Signal
<1>2. CASE Py!Setup \/ Py!PollCall \/ Py!PollIn \/ Py!PollEmpty \/ Py!Yield
  BY <1>t, <1>2, PyMoves
     DEF Py!Setup, Py!PollCall, Py!PollIn, Py!PollEmpty, Py!Yield, Py!Goes,
         Py!Moves, PyInv, RestIsLeft, Py!RowsAreSamples
<1>3. CASE Py!PollEnter
  BY <1>t, <1>3, PyMoves DEF Py!PollEnter, PyInv, Py!RowsAreSamples
<1>4. CASE Py!InterruptUncaught \/ Py!OneShot \/ Py!Stop \/ Py!CallFails
  BY <1>4, PyEndsStep
     DEF Py!InterruptUncaught, Py!OneShot, Py!Stop, Py!CallFails
<1> QED
  BY <1>1, <1>2, <1>3, <1>4, PyExecStep, PyReadStep, PyPrintStep, PyCountStep
     DEF Py!Step, Py!Outside

-----------------------------------------------------------------------------
(* Both together.                                                          *)

LEMMA ConsumersInit == Init => IInv
<1> SUFFICES ASSUME Init PROVE IInv
  OBVIOUS
<1>1. /\ <<>> \in Seq(Nat) /\ <<>> \in Seq(Nat \X Nat) /\ Len(<<>>) = 0
  OBVIOUS
<1>2. Cursors
  <2>1. /\ head = 0 /\ opened = {} /\ cursor = [f \in Fds |-> 0]
        /\ received = [f \in Fds |-> <<>>]
    BY DEF Init, Ring!Init
  <2> QED
    BY <1>1, <2>1 DEF Cursors
<1>s. Counters
  <2>1. start = [f \in Fds |-> 0] /\ dropped = 0
    BY DEF Init, Ring!Init
  <2> QED
    BY <2>1 DEF Counters
<1>3. CInv
  <2>1. /\ cpc = "exited" /\ max = -1 /\ total = 0
        /\ running = TRUE /\ ceintr = FALSE
        /\ batch = <<>> /\ printed = <<>>
    BY DEF Init, C!OwnInit
  <2>2. C!OwnTypeOK
    BY <1>1, <2>1 DEF C!OwnTypeOK
  <2>3. ~(max >= 0)
    BY <2>1
  <2> QED
    BY <2>1, <2>2, <2>3 DEF CInv, BatchIsFresh, BelowMax, C!AtMostMax,
       C!AllPrinted, C!ReadHasData
<1>4. PyInv
  <2>1. /\ pypc = "exited" /\ count = 0 /\ idx = 0 /\ rest = <<>>
        /\ tripped = FALSE /\ pyeintr = FALSE /\ rows = <<>>
    BY DEF Init, Py!OwnInit
  <2>2. Py!OwnTypeOK
    BY <1>1, <2>1 DEF Py!OwnTypeOK
  <2>3. Counted /\ RestIsLeft /\ Py!RowsAreSamples
    BY <2>1 DEF Counted, RestIsLeft, Py!RowsAreSamples
  <2>4. Py!AtMostCount /\ Py!RowsNumbered
    BY <1>1, <2>1 DEF Py!AtMostCount, Py!RowsNumbered
  <2> QED
    BY <2>2, <2>3, <2>4 DEF PyInv
<1> QED
  BY <1>s, <1>2, <1>3, <1>4 DEF IInv

LEMMA ConsumersStep ==
  ASSUME IInv, [Next]_vars
  PROVE  IInv'
<1> USE DEF IInv
<1>h. head \in Nat
  BY DEF Cursors
<1>f. "c" \in Fds /\ "py" \in Fds
  BY DEF Fds
<1>1. CASE Produce
  <2>1. /\ head' = head + 1 /\ UNCHANGED <<opened, cursor, received>>
        /\ UNCHANGED <<cown, pyown>>
    BY <1>1 DEF Produce, Ring!Publish
  <2>2. Cursors'
    BY <2>1 DEF Cursors
  <2>3. Counters'
    BY <1>1 DEF Produce, Ring!Publish, Counters
  <2> QED
    BY <1>h, <2>1, <2>2, <2>3, CFrame, PyFrame
<1>2. CASE (C!Step \/ C!Outside) /\ UNCHANGED pyown
  <2>1. RingStep("c")
    BY <1>2, CSteps
  <2>2. Cursors' /\ received'["py"] = received["py"]
    BY <1>f, <2>1, RingStepKeeps
  <2>3. Counters'
    BY <1>2, CCounts
  <2> QED
    BY <1>2, <2>2, <2>3, CInvStep, PyFrame
<1>3. CASE (Py!Step \/ Py!Outside) /\ UNCHANGED cown
  <2>1. RingStep("py")
    BY <1>3, PySteps
  <2>2. /\ Cursors' /\ head' = head
        /\ cursor'["c"] = cursor["c"] /\ received'["c"] = received["c"]
    BY <1>f, <2>1, RingStepKeeps
  <2>3. Counters'
    BY <1>3, PyCounts
  <2> QED
    BY <1>3, <1>h, <2>2, <2>3, PyInvStep, CFrame
<1>4. CASE UNCHANGED vars
  <2>1. UNCHANGED <<head, opened, cursor, received, cown, pyown>>
    BY <1>4 DEF vars, ring
  <2>2. Cursors'
    BY <2>1 DEF Cursors
  <2>3. Counters'
    BY <1>4 DEF vars, ring, Counters
  <2> QED
    BY <1>h, <2>1, <2>2, <2>3, CFrame, PyFrame
<1> QED
  BY <1>1, <1>2, <1>3, <1>4 DEF Next, CStep, PyStep

LEMMA ConsumersInvariant == Spec => []IInv
<1>1. IInv /\ [Next]_vars => IInv'
  BY ConsumersStep
<1> QED
  BY <1>1, ConsumersInit, PTL DEF Spec

(* The variables of the two programs, and of the stream under them, keep   *)
(* to their types; no file's cursor is ever past the head.                 *)
THEOREM ConsumersTypeCorrect == Spec => []TypeOK
<1>1. IInv => TypeOK
  <2>1. Cursors => cursor \in [Fds -> 0..head]
    BY DEF Cursors
  <2> QED
    BY <2>1 DEF IInv, Cursors, Counters, CInv, PyInv, TypeOK, StreamTypeOK
<1> QED
  BY <1>1, ConsumersInvariant, PTL

(* Neither program prints more than it was told to, whatever the sizes of  *)
(* ring and batches: the last batch of the C reader is cut to what is left *)
(* of its limit.                                                           *)
THEOREM LimitsKept == Spec => []AtMostLimit
<1>1. IInv => AtMostLimit
  BY DEF IInv, CInv, PyInv, AtMostLimit
<1> QED
  BY <1>1, ConsumersInvariant, PTL

(* What a program reads it prints, once and in order, whenever signals,    *)
(* timeouts and errors come.                                               *)
THEOREM ReadsArePrinted == Spec => []ReadIsPrinted
<1>1. IInv => ReadIsPrinted
  BY DEF IInv, CInv, PyInv, ReadIsPrinted
<1> QED
  BY <1>1, ConsumersInvariant, PTL

(* The C reader calls read() only when there is a sample.                  *)
THEOREM ReadsHaveData == Spec => []ReadHasData
<1>1. IInv => ReadHasData
  BY DEF IInv, CInv, ReadHasData
<1> QED
  BY <1>1, ConsumersInvariant, PTL

(* The rows of the Python consumer are numbered without a gap, and its     *)
(* final count is the number of rows, or one less after a signal.          *)
THEOREM RowsAreNumbered == Spec => []RowsNumbered
<1>1. IInv => RowsNumbered
  BY DEF IInv, PyInv, RowsNumbered
<1> QED
  BY <1>1, ConsumersInvariant, PTL
=============================================================================
