--------------------------- MODULE SensorsProofs ---------------------------
(***************************************************************************)
(* Proofs about Sensors and Validate, for every number of hwmon            *)
(* directories, all readings, all widths of the fields and all answers of  *)
(* the vendor's library.  Where the fields of a sample are comes from      *)
(* LayoutProofs.                                                           *)
(***************************************************************************)
EXTENDS Validate, LayoutProofs, TLAPS

-----------------------------------------------------------------------------
(* The casts of C: what they do to any number, and that they leave alone   *)
(* the numbers that fit.                                                   *)

LEMMA UnsignedRange ==
  ASSUME NEW n \in Nat, n > 0, NEW v \in Int
  PROVE  /\ Unsigned(v, n) \in 0..n - 1
         /\ 0 <= v /\ v < n => Unsigned(v, n) = v
BY DEF Unsigned

LEMMA SignedRange ==
  ASSUME NEW n \in Nat, n > 0, n % 2 = 0, NEW v \in Int
  PROVE  /\ Signed(v, n) \in -(n \div 2) .. n \div 2 - 1
         /\ -(n \div 2) <= v /\ v < n \div 2 => Signed(v, n) = v
<1>1. PICK h \in Nat : n = 2 * h /\ n \div 2 = h
  OBVIOUS
<1>2. v % n \in 0..n - 1
  OBVIOUS
<1>3. /\ 0 <= v /\ v < n => v % n = v
      /\ -n <= v /\ v < 0 => v % n = v + n
  OBVIOUS
<1> QED
  BY <1>1, <1>2, <1>3 DEF Signed

LEMMA QuotientRange ==
  ASSUME NEW d \in Nat, d > 0, NEW v \in Int
  PROVE  /\ Quotient(v, d) \in Int
         /\ v >= 0 => Quotient(v, d) = v \div d /\ v \div d \in Nat
BY DEF Quotient

(* Every number a node can be read as fits its field.                      *)
FieldType == [temp |-> -(U32 \div 2) .. U32 \div 2 - 1, fan |-> 0..U32 - 1,
              power |-> 0..U64 - 1, freq |-> 0..U32 - 1]

LEMMA FieldFits ==
  ASSUME NEW s \in Sensor, NEW v \in Int
  PROVE  Field(s, v) \in FieldType[s] /\ Unavailable(s) \in FieldType[s]
<1>1. /\ Signed(v, U32) \in -(U32 \div 2) .. U32 \div 2 - 1
      /\ Unsigned(v, U32) \in 0..U32 - 1
      /\ Unsigned(v, U64) \in 0..U64 - 1
  BY WidthAssumption, UnsignedRange, SignedRange
<1>2. Unsigned(Quotient(v, Mega), U32) \in 0..U32 - 1
  BY WidthAssumption, QuotientRange, UnsignedRange
<1>3. /\ -1 \in -(U32 \div 2) .. U32 \div 2 - 1
      /\ 0 \in 0..U32 - 1 /\ 0 \in 0..U64 - 1
  BY WidthAssumption
<1>4. CASE s = "temp"
  BY <1>1, <1>3, <1>4 DEF Field, FieldType, Unavailable
<1>5. CASE s = "fan"
  BY <1>1, <1>3, <1>5 DEF Field, FieldType, Unavailable
<1>6. CASE s = "power"
  BY <1>1, <1>3, <1>6 DEF Field, FieldType, Unavailable
<1>7. CASE s = "freq"
  BY <1>2, <1>3, <1>7 DEF Field, FieldType, Unavailable
<1> QED
  BY <1>4, <1>5, <1>6, <1>7 DEF Sensor

(* A sound reading passes through its field unchanged.                     *)
LEMMA SoundSurvives ==
  ASSUME NEW s \in Sensor, NEW v \in Int, Sound(s, v)
  PROVE  Field(s, v) = Unit(s, v)
<1>1. CASE s = "temp"
  BY <1>1, WidthAssumption, SignedRange DEF Sound, Field, Unit
<1>2. CASE s = "fan" \/ s = "power"
  BY <1>2, WidthAssumption, UnsignedRange DEF Sound, Field, Unit
<1>3. CASE s = "freq"
  <2>1. 0 <= v /\ v < U32 * Mega
    BY <1>3 DEF Sound
  <2>2. Quotient(v, Mega) = v \div Mega /\ v \div Mega \in Nat
    BY <2>1, WidthAssumption, QuotientRange
  <2>3. v \div Mega < U32
    BY <2>1, WidthAssumption
  <2> QED
    BY <1>3, <2>2, <2>3, WidthAssumption, UnsignedRange DEF Field, Unit
<1> QED
  BY <1>1, <1>2, <1>3 DEF Sensor

(* Every sound reading is shown as it was read, whatever the widths,       *)
(* unless it is the sentinel; a node that failed is n/a in the Python      *)
(* consumer.                                                               *)
LEMMA SoundIsShown ==
  \A s \in Sensor :
    /\ PythonShows(s, Unavailable(s)) = {}
    /\ CShows(s, Unavailable(s)) = IF s = "temp" THEN {} ELSE {0}
    /\ \A v \in Int : Sound(s, v) =>
         LET x == Field(s, v) IN
         /\ x = Unit(s, v)
         /\ CShows(s, x) = {x} \/ (s = "temp" /\ v = -1)
         /\ PythonShows(s, x) = {x} \/ x = Unavailable(s)
<1>1. TAKE s \in Sensor
<1>2. /\ PythonShows(s, Unavailable(s)) = {}
      /\ CShows(s, Unavailable(s)) = IF s = "temp" THEN {} ELSE {0}
  BY DEF PythonShows, CShows, Unavailable
<1>3. ASSUME NEW v \in Int, Sound(s, v)
      PROVE  Field(s, v) = Unit(s, v)
  BY <1>3, SoundSurvives
<1> QED
  BY <1>2, <1>3 DEF CShows, PythonShows, Unavailable, Unit

-----------------------------------------------------------------------------
(* The inductive invariant of Sensors.                                     *)

LEMMA OrderIs ==
  /\ Len(Order) = 4
  /\ \A k \in 1..4 : Order[k] \in Sensor
  /\ \A s \in Sensor : \E k \in 1..4 : Order[k] = s
  /\ \A j, k \in 1..4 : Order[j] = Order[k] => j = k
<1>1. /\ Order[1] = "temp" /\ Order[2] = "fan"
      /\ Order[3] = "power" /\ Order[4] = "freq" /\ Len(Order) = 4
  BY DEF Order
<1>2. \A k \in 1..4 : k = 1 \/ k = 2 \/ k = 3 \/ k = 4
  OBVIOUS
<1>3. 1 \in 1..4 /\ 2 \in 1..4 /\ 3 \in 1..4 /\ 4 \in 1..4
  OBVIOUS
<1>4. \A s \in Sensor : \E k \in 1..4 : Order[k] = s
  BY <1>1, <1>3 DEF Sensor
<1> QED
  BY <1>1, <1>2, <1>4 DEF Sensor

(* TypeOK, and that the struct has all its fields.                         *)
SensorTypes ==
  /\ chip \in [Slots -> {"gpu", "other", "absent"}]
  /\ given \subseteq Slots /\ path \subseteq Slots
  /\ at \in Nat
  /\ pc \in {"probe", "stamp", "read", "push"}
  /\ sample \in [Sensor -> Int]
  /\ \A s \in Sensor : sample[s] \in FieldType[s]
  /\ got \in [Sensor -> SUBSET Int]
  /\ \A s \in Sensor : got[s] \subseteq Readings[s]

(* The scan: no GPU so far.                                                *)
Scanned ==
  pc = "probe" => path = {} /\ \A j \in Slots : j < at => chip[j] # "gpu"

(* x is what a node that was read as r leaves in field s.                  *)
Own(s, x, r) ==
  \/ r = {} /\ x = Unavailable(s)
  \/ \E v \in Readings[s] : r = {v} /\ x = Field(s, v)

(* A collection: the fields that were come to are of this collection, of   *)
(* the others nothing was read yet.                                        *)
Collected ==
  /\ pc = "read" =>
       /\ at \in 1..4
       /\ \A k \in 1..at - 1 : Own(Order[k], sample[Order[k]], got[Order[k]])
       /\ \A k \in at..4 : got[Order[k]] = {}
  /\ pc = "push" => \A s \in Sensor : Own(s, sample[s], got[s])

SensorInv == SensorTypes /\ Scanned /\ Collected /\ ProbeFindsFirst

LEMMA TypesAreTypeOK == SensorTypes => TypeOK
BY DEF SensorTypes, TypeOK, FieldType, Sensor

LEMMA SensorInit == Init => SensorInv
<1> SUFFICES ASSUME Init PROVE SensorInv
  OBVIOUS
<1>1. \A s \in Sensor : 0 \in FieldType[s]
  BY WidthAssumption DEF Sensor, FieldType
<1>2. SensorTypes
  BY <1>1 DEF Init, SensorTypes
<1> QED
  BY <1>2, SlotsAssumption DEF Init, SensorInv, Scanned, Collected, ProbeFindsFirst

LEMMA ProbeStep ==
  ASSUME SensorInv, ProbeGiven \/ ProbeSlot \/ ProbeEnds
  PROVE  SensorInv'
<1> USE DEF SensorInv
<1>1. /\ pc = "probe" /\ pc' \in {"probe", "stamp"}
      /\ UNCHANGED <<chip, given, sample, got>>
  BY DEF ProbeGiven, ProbeSlot, ProbeEnds
<1>2. Collected'
  BY <1>1 DEF Collected
<1>3. SensorTypes'
  BY <1>1 DEF SensorTypes, ProbeGiven, ProbeSlot, ProbeEnds
<1>4. Scanned' /\ ProbeFindsFirst'
  <2>1. path = {} /\ \A j \in Slots : j < at => chip[j] # "gpu"
    BY <1>1 DEF Scanned
  <2>2. CASE ProbeGiven
    BY <1>1, <2>2 DEF ProbeGiven, Scanned, ProbeFindsFirst
  <2>3. CASE ProbeSlot /\ chip[at] # "gpu"
    BY <1>1, <2>1, <2>3, SlotsAssumption
       DEF ProbeSlot, Scanned, ProbeFindsFirst, SensorTypes
  <2>4. CASE ProbeSlot /\ chip[at] = "gpu"
    <3> DEFINE gpus == {i \in Slots : chip[i] = "gpu"}
    <3>1. at \in gpus /\ given = {} /\ path' = {at} /\ pc' = "stamp"
      BY <2>4 DEF ProbeSlot
    <3>2. \A i \in gpus : i \in Nat /\ at <= i
      BY <2>1, <3>1, SlotsAssumption
    <3>3. \A i \in gpus : (\A j \in gpus : i <= j) <=> i = at
      BY <3>1, <3>2
    <3>4. {i \in gpus : \A j \in gpus : i <= j} = {at}
      BY <3>1, <3>3
    <3> QED
      BY <1>1, <3>1, <3>4 DEF Scanned, ProbeFindsFirst
  (* The slots are numbered without a gap, so none is left to look at.     *)
  <2>5. CASE ProbeEnds
    <3>1. \A j \in Slots : j < at
      <4>1. at \in Nat /\ at \notin Slots
        BY <2>5 DEF ProbeEnds, SensorTypes
      <4>2. ASSUME NEW j \in Slots, ~ (j < at)
            PROVE  FALSE
        <5>1. j \in Nat /\ 0..j \subseteq Slots
          BY SlotsAssumption
        <5>2. at \in 0..j
          BY <4>1, <4>2, <5>1
        <5> QED BY <4>1, <5>1, <5>2
      <4> QED BY <4>2
    <3>2. {i \in Slots : chip[i] = "gpu"} = {}
      BY <2>1, <3>1
    <3> QED
      BY <1>1, <2>1, <2>5, <3>2 DEF ProbeEnds, Scanned, ProbeFindsFirst
  <2> QED
    BY <2>2, <2>3, <2>4, <2>5
<1> QED
  BY <1>2, <1>3, <1>4

LEMMA ReadNodeStep ==
  ASSUME SensorInv, ReadNode
  PROVE  SensorInv'
<1> DEFINE s == Order[at]
<1> USE DEF SensorInv
<1>1. /\ pc = "read" /\ at \in 1..4 /\ s \in Sensor
      /\ at' = at + 1
      /\ pc' = IF at = 4 THEN "push" ELSE "read"
      /\ UNCHANGED <<chip, given, path>>
  BY OrderIs DEF ReadNode, Collected
<1>2. PICK r \in SysfsRead(s) :
        /\ sample' = [sample EXCEPT ![s] =
                        IF r = {} THEN Unavailable(s)
                                  ELSE Field(s, CHOOSE v \in r : TRUE)]
        /\ got' = [got EXCEPT ![s] = r]
  BY DEF ReadNode
<1>3. r = {} \/ \E v \in Readings[s] : r = {v}
  BY <1>2 DEF SysfsRead
<1>4. Readings[s] \subseteq Int
  BY <1>1, ReadingsAssumption
<1> HIDE DEF s
<1>5. PICK x : /\ sample' = [sample EXCEPT ![s] = x] /\ Own(s, x, r)
               /\ x \in FieldType[s]
  <2>1. CASE r = {}
    <3>1. Unavailable(s) \in FieldType[s]
      BY <1>1, FieldFits
    <3> QED
      BY <1>2, <2>1, <3>1 DEF Own
  <2>2. ASSUME NEW v \in Readings[s], r = {v}
        PROVE  /\ sample' = [sample EXCEPT ![s] = Field(s, v)]
               /\ Own(s, Field(s, v), r) /\ Field(s, v) \in FieldType[s]
    <3>1. (CHOOSE w \in r : TRUE) = v /\ r # {}
      BY <2>2
    <3>2. Field(s, v) \in FieldType[s]
      BY <1>1, <1>4, FieldFits
    <3> QED
      BY <1>2, <2>2, <3>1, <3>2 DEF Own
  <2> QED
    BY <1>3, <2>1, <2>2
<1>6. x \in Int
  BY <1>1, <1>5, WidthAssumption DEF FieldType, Sensor
<1>7. /\ sample'[s] = x /\ got'[s] = r
      /\ \A t \in Sensor : t # s => sample'[t] = sample[t] /\ got'[t] = got[t]
  BY <1>1, <1>2, <1>5 DEF SensorTypes
<1>8. SensorTypes'
  BY <1>1, <1>2, <1>3, <1>4, <1>5, <1>6, <1>7 DEF SensorTypes
<1>9. \A k \in 1..at : Own(Order[k], sample'[Order[k]], got'[Order[k]])
  BY <1>1, <1>5, <1>7, OrderIs DEF Collected, s
<1>10. \A k \in at + 1..4 : got'[Order[k]] = {}
  BY <1>1, <1>7, OrderIs DEF Collected, s
<1>11. Collected'
  <2>1. CASE at = 4
    BY <1>1, <1>9, <2>1, OrderIs DEF Collected
  <2>2. CASE at # 4
    BY <1>1, <1>9, <1>10, <2>2 DEF Collected
  <2> QED
    BY <2>1, <2>2
<1> QED
  BY <1>1, <1>8, <1>11 DEF Scanned, ProbeFindsFirst

LEMMA SensorStep ==
  ASSUME SensorInv, [Next]_vars
  PROVE  SensorInv'
<1>1. CASE Stamp
  <2>1. SensorTypes' /\ Collected'
    BY <1>1, OrderIs DEF Stamp, SensorInv, SensorTypes, Collected
  <2> QED
    BY <1>1, <2>1 DEF Stamp, SensorInv, Scanned, ProbeFindsFirst
<1>2. CASE Push
  BY <1>2 DEF Push, SensorInv, SensorTypes, Collected, Scanned, ProbeFindsFirst
<1>3. CASE UNCHANGED vars
  BY <1>3 DEF vars, SensorInv, SensorTypes, Collected, Scanned, ProbeFindsFirst
<1> QED
  BY <1>1, <1>2, <1>3, ProbeStep, ReadNodeStep DEF Next

LEMMA SensorInvariant == Spec => []SensorInv
<1>1. SensorInv /\ [Next]_vars => SensorInv'
  BY SensorStep
<1> QED
  BY <1>1, SensorInit, PTL DEF Spec

LEMMA SensorSafe == SensorInv => TypeOK /\ ProbeFindsFirst /\ SampleIsOwn
BY TypesAreTypeOK DEF SensorInv, Collected, Own, SampleIsOwn

(* The fields of struct gpu_sample stay within their widths, whatever      *)
(* number a node holds.                                                    *)
THEOREM SensorTypeCorrect == Spec => []TypeOK
BY SensorSafe, SensorInvariant, PTL

(* The probe settles on the directory the user named or else on the first  *)
(* GPU, and on none only when there is none, however many directories are  *)
(* looked at and whatever is in them.                                      *)
THEOREM FirstIsFound == Spec => []ProbeFindsFirst
BY SensorSafe, SensorInvariant, PTL

(* A sample holds nothing of an earlier collection, whichever nodes fail.  *)
THEOREM SamplesAreOwn == Spec => []SampleIsOwn
BY SensorSafe, SensorInvariant, PTL

(* What was pushed is a collection, until the next round begins: ring_push *)
(* copies the struct.                                                      *)
PushedOwn ==
  pushed # <<>> => \A s \in Sensor : Own(s, pushed[1][s], pushed[2][s])

LEMMA PushedStep ==
  ASSUME SensorInv, PushedOwn, [Next]_vars
  PROVE  PushedOwn'
<1>1. CASE Push
  <2>1. pushed'[1] = sample /\ pushed'[2] = got
    BY <1>1 DEF Push
  <2>2. \A s \in Sensor : Own(s, sample[s], got[s])
    BY <1>1 DEF Push, SensorInv, Collected
  <2> QED BY <2>1, <2>2 DEF PushedOwn
<1>2. CASE Stamp
  BY <1>2 DEF Stamp, PushedOwn
<1>3. CASE ProbeGiven \/ ProbeSlot \/ ProbeEnds \/ ReadNode \/ UNCHANGED vars
  BY <1>3
     DEF ProbeGiven, ProbeSlot, ProbeEnds, ReadNode, vars, PushedOwn
<1> QED BY <1>1, <1>2, <1>3 DEF Next

LEMMA PushedIsShown == PushedOwn => ShownIsRead
<1> SUFFICES ASSUME PushedOwn, pushed # <<>>
             PROVE  /\ COffsets.size = PyOffsets.size
                    /\ \A s \in Sensor :
                         LET x == pushed[1][s]
                             r == pushed[2][s]
                         IN /\ Unpacked(s, pushed[1]) = {x}
                            /\ r = {} =>
                                 /\ PythonShows(s, x) = {}
                                 /\ CShows(s, x) = IF s = "temp" THEN {} ELSE {0}
                            /\ \A v \in r :
                                 Sound(s, v) =>
                                   /\ x = Unit(s, v)
                                   /\ CShows(s, x) = {x} \/ (s = "temp" /\ v = -1)
                                   /\ PythonShows(s, x) = {x} \/ x = Unavailable(s)
  BY DEF ShownIsRead
<1>1. COffsets.size = PyOffsets.size
  BY OffsetsAre
<1>2. ASSUME NEW s \in Sensor, NEW x, x = pushed[1][s], NEW r, r = pushed[2][s]
      PROVE  /\ Unpacked(s, pushed[1]) = {x}
             /\ r = {} => /\ PythonShows(s, x) = {}
                          /\ CShows(s, x) = IF s = "temp" THEN {} ELSE {0}
             /\ \A v \in r :
                  Sound(s, v) =>
                    /\ x = Unit(s, v)
                    /\ CShows(s, x) = {x} \/ (s = "temp" /\ v = -1)
                    /\ PythonShows(s, x) = {x} \/ x = Unavailable(s)
  <2>1. Own(s, x, r)
    BY <1>2 DEF PushedOwn
  <2>2. Unpacked(s, pushed[1]) = {x}
    BY <1>2, UnpackedIs
  <2>3. r = {} => /\ PythonShows(s, x) = {}
                  /\ CShows(s, x) = IF s = "temp" THEN {} ELSE {0}
    BY <2>1, SoundIsShown DEF Own
  <2>4. ASSUME NEW v \in r, Sound(s, v)
        PROVE  /\ x = Unit(s, v)
               /\ CShows(s, x) = {x} \/ (s = "temp" /\ v = -1)
               /\ PythonShows(s, x) = {x} \/ x = Unavailable(s)
    <3>1. x = Field(s, v) /\ v \in Int
      BY <2>1, ReadingsAssumption DEF Own
    <3> QED BY <2>4, <3>1, SoundIsShown
  <2> QED BY <2>2, <2>3, <2>4
<1> QED BY <1>1, <1>2

(* A sound reading is shown as it was read by the C reader and, through    *)
(* the bytes it unpacks, by the Python consumer, for all widths and        *)
(* readings; a node that failed is n/a in Python, and in C n/a for the     *)
(* temperature and 0 for the rest.                                         *)
THEOREM ReadIsShown == Spec => []ShownIsRead
<1>1. Init => PushedOwn
  BY DEF Init, PushedOwn
<1>2. SensorInv /\ PushedOwn /\ [Next]_vars => PushedOwn'
  BY PushedStep
<1> QED
  BY <1>1, <1>2, SensorInvariant, PushedIsShown, PTL DEF Spec

-----------------------------------------------------------------------------
(* Validate.                                                               *)

(* The collector goes on as if nvml_validate were not there.               *)
LEMMA ValidateStepsAreSensors ==
  /\ ValidateInit => Init
  /\ [ValidateNext]_allVars => [Next]_vars
BY DEF ValidateInit, ValidateNext, CollectorStep, PushRead, Next, ValidateStep,
       GuardInit, GuardHandle, OpenDevice, ReadFails, PrintRow, Exit, allVars

(* So what is proved of the collector holds beside nvml_validate.          *)
THEOREM ValidateKeepsSensors == ValidateSpec => Spec
BY ValidateStepsAreSensors, PTL DEF ValidateSpec, Spec

LEMMA NextRowIs ==
  /\ DOMAIN NextRow = {"temp", "fan", "power", "freq", "others"}
  /\ \A m \in DOMAIN NextRow : NextRow[m] \in DOMAIN NextRow \cup {"end"}
BY DEF NextRow

(* The sample of the table is one that was collected.                      *)
KernelSample ==
  \A s \in Sensor : /\ ks[1][s] \in FieldType[s]
                    /\ Own(s, ks[1][s], ks[2][s])

(* A row of a metric the kernel has: its column and its note are of ks,    *)
(* and its note and NVML's column are of the answer to its question.       *)
RowOfSample ==
  row.metric \in Sensor =>
    LET k == NvmlShows(row.metric, ks[1][row.metric]) IN
    /\ row.kernel = k
    /\ row.note = Note(row.metric, k, row.answer)
    /\ row.nvml \in NvmlColumn(row.metric, row.answer)

(* One session from nvmlInit() on, owned by the guard once it is ok.       *)
GuardInv ==
  /\ built \in BOOLEAN /\ ok \in BOOLEAN /\ sessions \in Int
  /\ vpc = "start" => ~ok /\ sessions = 0
  /\ vpc = "handle" => built /\ ~ok /\ sessions = 1
  /\ vpc \in {"open", "read"} \cup DOMAIN NextRow => (ok <=> built)
  /\ vpc \notin {"start", "handle", "over"} =>
       (ok => sessions = 1) /\ (~ok => sessions = 0)
  /\ vpc = "over" => sessions = 0

TableInv ==
  /\ vpc \in {"start", "handle", "open", "read", "end", "over"}
             \cup DOMAIN NextRow
  /\ GuardInv
  /\ row.metric \in DOMAIN NextRow \cup {"none"}
  /\ row.answer \subseteq Answers /\ row.nvml \subseteq Answers
  /\ vpc \in {"start", "handle", "open", "read"} => row.metric = "none"
  /\ vpc \in DOMAIN NextRow \/ row.metric \in Sensor => KernelSample
  /\ RowOfSample

LEMMA TableInit == ValidateInit => TableInv
<1> SUFFICES ASSUME ValidateInit PROVE TableInv
  OBVIOUS
<1>1. GuardInv
  <2>1. built \in BOOLEAN /\ ok \in BOOLEAN /\ ~ok
    BY Zenon DEF ValidateInit
  <2>2. vpc = "start" /\ sessions = 0
    BY DEF ValidateInit
  <2> QED
    BY <2>1, <2>2, NextRowIs DEF GuardInv
<1> QED
  BY <1>1, NextRowIs DEF ValidateInit, TableInv, NoRow, RowOfSample, Sensor

LEMMA GuardStep ==
  ASSUME TableInv, [ValidateNext]_allVars
  PROVE  GuardInv'
<1> USE NextRowIs DEF TableInv, GuardInv, guard
<1>1. CASE CollectorStep \/ UNCHANGED allVars
  BY <1>1 DEF CollectorStep, allVars, program
<1>2. CASE PushRead
  BY <1>2 DEF PushRead
<1>3. CASE GuardInit
  BY <1>3 DEF GuardInit
<1>4. CASE GuardHandle
  <2>1. CASE vpc' = "open" /\ ok' = TRUE /\ UNCHANGED sessions
    <3>1. ok' \in BOOLEAN /\ ok'
      BY <2>1, Zenon
    <3>2. vpc = "handle" /\ UNCHANGED built /\ built
      BY <1>4 DEF GuardHandle
    <3> QED
      BY <2>1, <3>1, <3>2
  <2>2. CASE vpc' = "end" /\ sessions' = sessions - 1 /\ UNCHANGED ok
    BY <1>4, <2>2 DEF GuardHandle
  <2> QED
    BY <1>4, <2>1, <2>2, Zenon DEF GuardHandle
<1>5. CASE OpenDevice \/ ReadFails
  BY <1>5 DEF OpenDevice, ReadFails
<1>6. CASE PrintRow
  BY <1>6 DEF PrintRow
<1>7. CASE Exit
  BY <1>7 DEF Exit
<1> QED
  BY <1>1, <1>2, <1>3, <1>4, <1>5, <1>6, <1>7 DEF ValidateNext, ValidateStep

LEMMA PrintRowStep ==
  ASSUME TableInv, PrintRow, GuardInv'
  PROVE  TableInv'
<1>1. vpc \in DOMAIN NextRow /\ vpc' = NextRow[vpc] /\ UNCHANGED ks
  BY DEF PrintRow
<1>2. PICK answer \in NvmlAnswer : \E shown \in NvmlColumn(vpc, answer) :
        row' = [metric |-> vpc, answer |-> answer,
                kernel |-> KernelColumn(vpc), nvml |-> shown,
                note |-> Note(vpc, KernelColumn(vpc), answer)]
  BY DEF PrintRow
<1>3. PICK shown \in NvmlColumn(vpc, answer) :
        row' = [metric |-> vpc, answer |-> answer,
                kernel |-> KernelColumn(vpc), nvml |-> shown,
                note |-> Note(vpc, KernelColumn(vpc), answer)]
  BY <1>2
<1>4. answer \subseteq Answers /\ shown \subseteq Answers
  BY DEF NvmlAnswer, NvmlColumn
<1>5. /\ row'.metric = vpc /\ row'.nvml = shown /\ row'.answer = answer
      /\ row'.kernel = KernelColumn(vpc)
      /\ row'.note = Note(vpc, KernelColumn(vpc), answer)
  BY <1>3
<1>6. KernelSample /\ KernelSample'
  BY <1>1 DEF TableInv, KernelSample
<1>7. RowOfSample'
  <2>1. vpc \in Sensor => KernelColumn(vpc) = NvmlShows(vpc, ks[1][vpc])
    BY DEF KernelColumn, Sensor
  <2>2. row'.nvml \in NvmlColumn(vpc, answer)
    BY <1>3, <1>5
  <2> QED
    BY <1>1, <1>5, <2>1, <2>2 DEF RowOfSample
<1> QED
  BY <1>1, <1>4, <1>5, <1>6, <1>7, NextRowIs DEF TableInv

LEMMA TableStep ==
  ASSUME SensorInv, TableInv, [ValidateNext]_allVars
  PROVE  TableInv'
<1>g. GuardInv'
  BY GuardStep
<1>1. CASE CollectorStep \/ UNCHANGED allVars
  BY <1>g, <1>1 DEF CollectorStep, allVars, program, TableInv, KernelSample,
                    RowOfSample
(* What is read is what is pushed: a complete sample.                      *)
<1>2. CASE PushRead
  <2>1. /\ pc = "push" /\ vpc = "read" /\ vpc' = "temp"
        /\ ks' = <<sample, got>> /\ UNCHANGED row
    BY <1>2 DEF PushRead, Push
  <2>2. KernelSample'
    BY <2>1 DEF SensorInv, SensorTypes, Collected, KernelSample
  <2> QED
    BY <1>g, <2>1, <2>2, NextRowIs DEF TableInv, RowOfSample, Sensor
<1>3. CASE GuardInit \/ GuardHandle \/ OpenDevice \/ ReadFails
  BY <1>g, <1>3, NextRowIs
     DEF GuardInit, GuardHandle, OpenDevice, ReadFails, TableInv, RowOfSample,
         KernelSample, Sensor
<1>4. CASE Exit
  BY <1>g, <1>4, NextRowIs DEF Exit, NoRow, TableInv, RowOfSample, Sensor
<1> QED
  BY <1>g, <1>1, <1>2, <1>3, <1>4, PrintRowStep DEF ValidateNext, ValidateStep

LEMMA TableInvariant == ValidateSpec => [](SensorInv /\ TableInv)
<1>1. TableInv /\ SensorInv /\ [ValidateNext]_allVars => TableInv'
  BY TableStep
<1> QED
  BY <1>1, TableInit, SensorInvariant, ValidateKeepsSensors, PTL
     DEF ValidateSpec

(* The variables of nvml_validate and of the collector keep their types.   *)
THEOREM ValidateTypeCorrect == ValidateSpec => []ValidateTypeOK
<1>1. SensorInv /\ TableInv => ValidateTypeOK
  BY SensorSafe DEF TableInv, GuardInv, ValidateTypeOK
<1> QED
  BY <1>1, TableInvariant, PTL

(* The table compares what it says it compares: the kernel's reading of    *)
(* one sample with NVML's answer for the same row, whatever is missing of  *)
(* the two; and the session with the library is open while rows are        *)
(* printed and closed exactly once, also when the GPU's handle is refused. *)
(* For all readings, widths and answers.                                   *)
THEOREM TableIsSound == ValidateSpec => []TableSound
<1>1. TableInv => TableSound
  <2> SUFFICES ASSUME TableInv PROVE TableSound
    OBVIOUS
  <2>1. /\ vpc \in DOMAIN NextRow /\ built => sessions = 1
        /\ vpc = "over" => sessions = 0
    BY NextRowIs DEF TableInv, GuardInv
  <2>2. ASSUME row.metric \in Sensor
        PROVE  LET m == row.metric
                   x == ks[1][m]
                   r == ks[2][m]
               IN /\ row.kernel = PythonShows(m, x)
                  /\ IF m = "temp" THEN row.nvml = {} <=> row.answer = {}
                                   ELSE row.nvml = row.answer
                  /\ r = {} => row.kernel = {} /\ row.note = {}
                  /\ m \in {"temp", "power"} /\ row.kernel # {} /\ row.answer # {}
                       => row.note # {}
                  /\ \A v \in r : Sound(m, v) =>
                       row.note \subseteq {Unit(m, v) - a : a \in row.answer}
    <3> DEFINE m == row.metric
               x == ks[1][m]
               r == ks[2][m]
    <3>1. /\ x \in FieldType[m] /\ Own(m, x, r)
          /\ row.kernel = NvmlShows(m, x)
          /\ row.note = Note(m, NvmlShows(m, x), row.answer)
          /\ row.nvml \in NvmlColumn(m, row.answer)
      BY <2>2 DEF TableInv, KernelSample, RowOfSample
    <3> HIDE DEF m, x, r
    <3>2. m \in Sensor
      BY <2>2 DEF m
    <3>3. NvmlShows(m, x) = PythonShows(m, x)
      <4>1. m = "power" => x \in Nat
        BY <3>1, WidthAssumption DEF FieldType
      <4> QED
        BY <3>2, <4>1 DEF Sensor, NvmlShows, PythonShows
    <3>4. IF m = "temp" THEN row.nvml = {} <=> row.answer = {}
                        ELSE row.nvml = row.answer
      BY <3>1 DEF NvmlColumn
    <3>5. r = {} => row.kernel = {} /\ row.note = {}
      <4>1. NvmlShows(m, Unavailable(m)) = {}
        BY <3>2 DEF Sensor, NvmlShows, Unavailable
      <4> QED
        BY <3>1, <4>1 DEF Own, Note
    <3>6. m \in {"temp", "power"} /\ row.kernel # {} /\ row.answer # {}
            => row.note # {}
      <4>1. ASSUME m \in {"temp", "power"}, NEW k \in row.kernel,
                   NEW a \in row.answer
            PROVE  k - a \in row.note
        BY <3>1, <4>1 DEF Note
      <4> QED
        BY <4>1
    <3>7. row.note \subseteq {x - a : a \in row.answer}
      <4>1. NvmlShows(m, x) \subseteq {x}
        BY <3>2 DEF Sensor, NvmlShows
      <4> QED
        BY <3>1, <4>1 DEF Note
    <3>8. ASSUME NEW v \in r, Sound(m, v)
          PROVE  row.note \subseteq {Unit(m, v) - a : a \in row.answer}
      <4>1. v \in Int /\ x = Field(m, v)
        BY <3>1, <3>2, ReadingsAssumption DEF Own
      <4>2. x = Unit(m, v)
        BY <3>2, <3>8, <4>1, SoundSurvives
      <4> QED
        BY <3>7, <4>2
    <3> QED
      BY <3>1, <3>3, <3>4, <3>5, <3>6, <3>8 DEF m, x, r
  <2> QED
    BY <2>1, <2>2 DEF TableSound
<1> QED
  BY <1>1, TableInvariant, PTL
=============================================================================
