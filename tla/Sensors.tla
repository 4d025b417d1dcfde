------------------------------ MODULE Sensors ------------------------------
(***************************************************************************)
(* How a reading gets from a sysfs node to a reader's screen: the probe    *)
(* for a GPU's hwmon directory, collect_sample() reading four nodes one    *)
(* after the other (kernel/gpu_telem_core.c), the fields of struct         *)
(* gpu_sample (include/gpu_telem_uapi.h) and what the three programs under *)
(* user/ make of them.                                                     *)
(*                                                                         *)
(* A reading that may be missing is a set: {v}, or {} for none.            *)
(***************************************************************************)
EXTENDS Integers, SequencesExt

CONSTANTS
  Slots,     \* the hwmon directories looked at, 0..9 in the code
  Readings,  \* Readings[s]: the numbers (s64) node s can be read as
  U32, U64,  \* how many values a u32 and a u64 have
  Mega       \* Hz in a MHz

Sensor == {"temp", "fan", "power", "freq"}

ASSUME SlotsAssumption ==
  /\ Slots \subseteq Nat
  /\ \A i \in Slots : 0..i \subseteq Slots
ASSUME ReadingsAssumption == Readings \in [Sensor -> SUBSET Int]
ASSUME WidthAssumption ==
  /\ U32 \in Nat /\ U32 % 2 = 0 /\ U32 > 0
  /\ U64 \in Nat /\ U64 % 2 = 0 /\ U64 > 0
  /\ Mega \in Nat \ {0}

VARIABLES
  chip,    \* chip[i]: "gpu" when hwmon<i>/name is that of a GPU driver,
           \* "other" for another name, "absent" when it cannot be read
  given,   \* the hwmon_path parameter: {i} for hwmon<i>, {} when empty
  at,      \* the slot the probe looks at; then the place in Order
  pc,      \* "probe", then the collector: "stamp", "read", "push"
  path,    \* the directory the gdev.*_path name, {} when they are empty
  sample,  \* the collector's struct gpu_sample, by sensor
  got,     \* history: got[s], what node s was read as in this collection
  pushed   \* history: <<sample, got>> from a push to the next stamp, else <<>>

vars == <<chip, given, at, pc, path, sample, got, pushed>>

Init ==
  /\ chip \in [Slots -> {"gpu", "other", "absent"}]
  /\ given \in {{}} \cup {{i} : i \in Slots}
  /\ at = 0
  /\ pc = "probe"
  /\ path = {}
  /\ sample = [s \in Sensor |-> 0]
  /\ got = [s \in Sensor |-> {}]
  /\ pushed = <<>>

-----------------------------------------------------------------------------
(* probe_hwmon_paths() *)

(* A path the user gave is taken as it is. *)
ProbeGiven ==
  /\ pc = "probe"
  /\ given # {}
  /\ path' = given
  /\ pc' = "stamp"
  /\ UNCHANGED <<chip, given, at, sample, got, pushed>>

(* A faulty variant: the scan goes on after a match, the last one wins. *)
ProbeScansOn ==
  /\ pc = "probe"
  /\ given = {}
  /\ at \in Slots
  /\ path' = IF chip[at] = "gpu" THEN {at} ELSE path
  /\ at' = at + 1
  /\ UNCHANGED <<chip, given, pc, sample, got, pushed>>

ProbeSlot ==
  /\ pc = "probe"
  /\ given = {}
  /\ at \in Slots
  /\ IF chip[at] = "gpu"
       THEN path' = {at} /\ pc' = "stamp"
       ELSE UNCHANGED <<path, pc>>
  /\ at' = at + 1
  /\ UNCHANGED <<chip, given, sample, got, pushed>>

(* No GPU: the paths stay empty. *)
ProbeEnds ==
  /\ pc = "probe"
  /\ given = {}
  /\ at \notin Slots
  /\ pc' = "stamp"
  /\ UNCHANGED <<chip, given, at, path, sample, got, pushed>>

-----------------------------------------------------------------------------
(* collect_sample(): the casts of C, truncating division included. *)

Unsigned(v, values) == v % values
Signed(v, values) ==
  LET u == v % values IN IF u < values \div 2 THEN u ELSE u - values
Quotient(v, d) == IF v >= 0 THEN v \div d ELSE -((-v) \div d)

Order == <<"temp", "fan", "power", "freq">>

Unavailable(s) == IF s = "temp" THEN -1 ELSE 0

(* A faulty variant: temp_millideg goes through a u32. *)
FieldUnsignedTemp(s, v) ==
  CASE s = "temp"  -> Unsigned(v, U32)
    [] s = "fan"   -> Unsigned(v, U32)
    [] s = "power" -> Unsigned(v, U64)
    [] s = "freq"  -> Unsigned(Quotient(v, Mega), U32)

(* A faulty variant: the division is done after the cast. *)
FieldCutFirst(s, v) ==
  CASE s = "temp"  -> Signed(v, U32)
    [] s = "fan"   -> Unsigned(v, U32)
    [] s = "power" -> Unsigned(v, U64)
    [] s = "freq"  -> Quotient(Unsigned(v, U32), Mega)

Field(s, v) ==
  CASE s = "temp"  -> Signed(v, U32)
    [] s = "fan"   -> Unsigned(v, U32)
    [] s = "power" -> Unsigned(v, U64)
    [] s = "freq"  -> Unsigned(Quotient(v, Mega), U32)

Stamp ==
  /\ pc = "stamp"
  /\ pc' = "read"
  /\ at' = 1
  /\ got' = [s \in Sensor |-> {}]
  /\ pushed' = <<>>
  /\ UNCHANGED <<chip, given, path, sample>>

(* sysfs_read_s64(): the number in the node; {} when the node cannot be    *)
(* opened or read, is empty, or does not hold an s64.                      *)
SysfsRead(s) == {{}} \cup (IF path = {} THEN {} ELSE {{v} : v \in Readings[s]})

(* A faulty variant: a field whose node fails keeps its last value. *)
ReadNodeKeeps ==
  LET s == Order[at] IN
  /\ pc = "read"
  /\ \E r \in SysfsRead(s) :
       /\ sample' = [sample EXCEPT ![s] =
                       IF r = {} THEN @ ELSE Field(s, CHOOSE v \in r : TRUE)]
       /\ got' = [got EXCEPT ![s] = r]
  /\ at' = at + 1
  /\ pc' = IF at = Len(Order) THEN "push" ELSE "read"
  /\ UNCHANGED <<chip, given, path, pushed>>

ReadNode ==
  LET s == Order[at] IN
  /\ pc = "read"
  /\ \E r \in SysfsRead(s) :
       /\ sample' = [sample EXCEPT ![s] =
                       IF r = {} THEN Unavailable(s)
                                 ELSE Field(s, CHOOSE v \in r : TRUE)]
       /\ got' = [got EXCEPT ![s] = r]
  /\ at' = at + 1
  /\ pc' = IF at = Len(Order) THEN "push" ELSE "read"
  /\ UNCHANGED <<chip, given, path, pushed>>

(* ring_push() and the sleep until the next round. *)
Push ==
  /\ pc = "push"
  /\ pushed' = <<sample, got>>
  /\ at' = 0
  /\ pc' = "stamp"
  /\ UNCHANGED <<chip, given, path, sample, got>>

Next == ProbeGiven \/ ProbeSlot \/ ProbeEnds \/ Stamp \/ ReadNode \/ Push

Spec == Init /\ [][Next]_vars

-----------------------------------------------------------------------------
(* What the programs show of field s with value x: {x}, or {} for n/a.     *)

(* gpu_telem_reader.c: only the temperature can be n/a; for the others 0   *)
(* is printed, whether it was read or stands for "unavailable".            *)
CShows(s, x) == IF s = "temp" /\ x = -1 THEN {} ELSE {x}

(* consumer.py: temp_c, power_w, and "or None" for the fan and the clock. *)
PythonShows(s, x) ==
  IF s = "temp" THEN (IF x = -1 THEN {} ELSE {x})
                ELSE (IF x = 0 THEN {} ELSE {x})

(* nvml_validate.cpp: k_temp, k_power, and the rows for fan and clock. *)
NvmlShows(s, x) ==
  CASE s = "temp"  -> IF x # -1 THEN {x} ELSE {}
    [] s = "power" -> IF x > 0 THEN {x} ELSE {}
    [] OTHER       -> IF x # 0 THEN {x} ELSE {}

-----------------------------------------------------------------------------
(* struct gpu_sample as C lays it out and as Python unpacks it: fields     *)
(* <<name, size, alignment>> in order.                                     *)

CLayout ==
  << <<"timestamp_ns", 8, 8>>, <<"temp_millideg", 4, 4>>, <<"fan_rpm", 4, 4>>,
     <<"power_uw", 8, 8>>, <<"core_freq_mhz", 4, 4>>, <<"mem_freq_mhz", 4, 4>>,
     <<"gpu_util_pct", 4, 4>>, <<"mem_util_pct", 4, 4>>,
     <<"throttle_reasons", 1, 1>>, <<"_pad", 7, 1>> >>

(* _FMT starts with "<": no alignment. *)
PyLayout ==
  << <<"timestamp_ns", 8, 1>>, <<"temp_millideg", 4, 1>>, <<"fan_rpm", 4, 1>>,
     <<"power_uw", 8, 1>>, <<"core_freq_mhz", 4, 1>>, <<"mem_freq_mhz", 4, 1>>,
     <<"gpu_util_pct", 4, 1>>, <<"mem_util_pct", 4, 1>>,
     <<"throttle_reasons", 1, 1>>, <<"_pad", 7, 1>> >>

RoundUp(n, d) == ((n + d - 1) \div d) * d

(* <<name, offset, size>> of each field, and the size of the whole. *)
Offsets(layout) ==
  LET Place(acc, f) ==
        LET o == RoundUp(acc.size, f[3])
        IN  [at |-> acc.at \cup {<<f[1], o, f[2]>>}, size |-> o + f[2]]
      placed == FoldLeft(Place, [at |-> {}, size |-> 0], layout)
  IN  [placed EXCEPT !.size =
         RoundUp(@, Max({layout[i][3] : i \in 1..Len(layout)}))]

COffsets == Offsets(CLayout)
PyOffsets == Offsets(PyLayout)

FieldOf == [temp |-> "temp_millideg", fan |-> "fan_rpm",
            power |-> "power_uw", freq |-> "core_freq_mhz"]

(* What struct.unpack() finds where it looks for field s of sample x: the  *)
(* value C put at the same bytes, or nothing that means anything.          *)
Unpacked(s, x) ==
  {x[t] : t \in {t \in Sensor :
     \E f \in COffsets.at, g \in PyOffsets.at :
       f[1] = FieldOf[t] /\ g[1] = FieldOf[s] /\ f[2] = g[2] /\ f[3] = g[3]}}

-----------------------------------------------------------------------------
TypeOK ==
  /\ chip \in [Slots -> {"gpu", "other", "absent"}]
  /\ given \subseteq Slots /\ path \subseteq Slots
  /\ at \in Nat
  /\ pc \in {"probe", "stamp", "read", "push"}
  /\ sample["temp"] \in -(U32 \div 2) .. U32 \div 2 - 1
  /\ sample["fan"] \in 0..U32 - 1
  /\ sample["power"] \in 0..U64 - 1
  /\ sample["freq"] \in 0..U32 - 1
  /\ \A s \in Sensor : got[s] \subseteq Readings[s]

(* The probe settles on the directory the user named or else on the first  *)
(* GPU in the order of the numbers, and on none only when there is none    *)
(* (gpu_telem_core.c:91-96).                                               *)
ProbeFindsFirst ==
  LET gpus == {i \in Slots : chip[i] = "gpu"} IN
  pc # "probe" =>
    path = (IF given # {} THEN given
            ELSE {i \in gpus : \A j \in gpus : i <= j})

(* Every field of a pushed sample comes from this collection: a node that  *)
(* fails this time, or a device without hwmon, leaves nothing of an older  *)
(* reading behind in the struct that collector_thread() uses again.        *)
SampleIsOwn ==
  pc = "push" =>
    \A s \in Sensor :
      sample[s] \in {Unavailable(s)} \cup {Field(s, v) : v \in got[s]}
      /\ (got[s] = {} => sample[s] = Unavailable(s))

(* The readings a hwmon driver gives: those that fit the field's meaning.  *)
Sound(s, v) ==
  CASE s = "temp"  -> -(U32 \div 2) <= v /\ v < U32 \div 2
    [] s = "fan"   -> 0 <= v /\ v < U32
    [] s = "power" -> 0 <= v /\ v < U64
    [] s = "freq"  -> 0 <= v /\ v < U32 * Mega

(* What the field of a sound reading is in. *)
Unit(s, v) == IF s = "freq" THEN v \div Mega ELSE v

(* A sound reading is shown as it was read (the clock in whole MHz) by the *)
(* C reader, and by the Python consumer, which unpacks the bytes by a      *)
(* layout of its own; only a reading that is itself the sentinel is taken  *)
(* for a missing one.  A node that failed is n/a to the Python consumer.   *)
(* The C reader says n/a of the temperature only: a fan, a power or a      *)
(* clock that is missing it prints as 0, which gpu_telem_uapi.h:52-54      *)
(* calls unavailable (gpu_telem_uapi.h:32-54, gpu_telem_reader.c:50-64,    *)
(* consumer.py:51-55).                                                     *)
ShownIsRead ==
  pushed # <<>> =>
    /\ COffsets.size = PyOffsets.size
    /\ \A s \in Sensor :
         LET x == pushed[1][s]
             r == pushed[2][s]
         IN /\ Unpacked(s, pushed[1]) = {x}
            /\ r = {} => /\ PythonShows(s, x) = {}
                         /\ CShows(s, x) = IF s = "temp" THEN {} ELSE {0}
            /\ \A v \in r :
                 Sound(s, v) =>
                   /\ x = Unit(s, v)
                   /\ CShows(s, x) = {x} \/ (s = "temp" /\ v = -1)
                   /\ PythonShows(s, x) = {x} \/ x = Unavailable(s)
=============================================================================
