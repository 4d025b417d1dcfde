------------------------------ MODULE Validate ------------------------------
(***************************************************************************)
(* user/nvml_validate.cpp beside the collector of Sensors: it opens a      *)
(* session with the vendor's library, reads one sample from the device,    *)
(* asks the library for each metric and shows both in a table.  Anything   *)
(* it asks for may fail, and no answer has anything to do with another.    *)
(***************************************************************************)
EXTENDS Sensors

CONSTANT Answers  \* numbers NVML may answer

VARIABLES
  vpc,      \* "start", "open", "read", the rows, "end", "over"
  built,    \* compiled with -DHAVE_NVML
  ok,       \* NvmlGuard::ok
  sessions, \* nvmlInit() calls that succeeded, less calls of nvmlShutdown()
  ks,       \* the sample that was read, with the history got it came from
  row       \* the row of the table that was printed last, with the history
            \* of what NVML answered when it was asked for that row

guard == <<built, ok, sessions>>
program == <<vpc, guard, ks, row>>
allVars == <<vars, program>>

NoRow == [metric |-> "none", answer |-> {},
          kernel |-> {}, nvml |-> {}, note |-> {}]

ValidateInit ==
  /\ Init
  /\ vpc = "start"
  /\ built \in BOOLEAN
  /\ ok = FALSE
  /\ sessions = 0
  /\ ks = <<>>
  /\ row = NoRow

-----------------------------------------------------------------------------
(* NvmlGuard(): nvmlInit() ...                                             *)
GuardInit ==
  /\ vpc = "start"
  /\ \/ ~built /\ vpc' = "open" /\ UNCHANGED sessions
     \/ built /\ vpc' = "handle" /\ sessions' = sessions + 1
     \/ built /\ vpc' = "end" /\ UNCHANGED sessions
  /\ UNCHANGED <<vars, built, ok, ks, row>>

(* ... and the handle of the first GPU; without it the session is closed   *)
(* here, as the destructor closes only that of a guard that is ok.         *)
GuardHandle ==
  /\ vpc = "handle"
  /\ \/ vpc' = "open" /\ ok' = TRUE /\ UNCHANGED sessions
     \/ vpc' = "end" /\ sessions' = sessions - 1 /\ UNCHANGED ok
  /\ UNCHANGED <<vars, built, ks, row>>

OpenDevice ==
  /\ vpc = "open"
  /\ vpc' \in {"read", "end"}
  /\ UNCHANGED <<vars, guard, ks, row>>

(* The read that blocks gets the sample that is pushed next. *)
PushRead ==
  /\ vpc = "read"
  /\ Push
  /\ ks' = <<sample, got>>
  /\ vpc' = "temp"
  /\ UNCHANGED <<guard, row>>

(* An error, or less than a sample. *)
ReadFails ==
  /\ vpc = "read"
  /\ vpc' = "end"
  /\ UNCHANGED <<vars, guard, ks, row>>

(* Temperature, fan, power and core clock, then the metrics the kernel     *)
(* does not have: memory clock (always 0), utilisation, throttling, ECC    *)
(* and performance state, which are shown alike.                           *)
NextRow == [temp |-> "fan", fan |-> "power", power |-> "freq",
            freq |-> "others", others |-> "end"]

KernelColumn(m) == IF m = "others" THEN {} ELSE NvmlShows(m, ks[1][m])

(* What NVML answers when it is asked now; without a session, an error.    *)
NvmlAnswer ==
  {{}} \cup (IF built /\ sessions > 0 THEN {{v} : v \in Answers} ELSE {})

(* What the NVML column shows of an answer: the temperature is a double    *)
(* given to "%u", which prints whatever the register for it holds.         *)
NvmlColumn(m, answer) ==
  IF m = "temp" /\ answer # {} THEN {{v} : v \in Answers} ELSE {answer}

(* A faulty variant: a difference although the kernel has no reading. *)
NoteOfSentinel(m, kernel, answer) ==
  IF m \in {"temp", "power"} THEN {ks[1][m] - v : v \in answer} ELSE {}

(* The difference, when both have a reading. *)
Note(m, kernel, answer) ==
  IF m \in {"temp", "power"} THEN {k - v : k \in kernel, v \in answer} ELSE {}

PrintRow ==
  /\ vpc \in DOMAIN NextRow
  /\ \E answer \in NvmlAnswer : \E shown \in NvmlColumn(vpc, answer) :
       row' = [metric |-> vpc, answer |-> answer,
               kernel |-> KernelColumn(vpc), nvml |-> shown,
               note |-> Note(vpc, KernelColumn(vpc), answer)]
  /\ vpc' = NextRow[vpc]
  /\ UNCHANGED <<vars, guard, ks>>

(* main() returns and the NvmlGuard is destroyed. *)
Exit ==
  /\ vpc = "end"
  /\ vpc' = "over"
  /\ sessions' = IF ok THEN sessions - 1 ELSE sessions
  /\ ks' = <<>>
  /\ row' = NoRow
  /\ UNCHANGED <<vars, built, ok>>

ValidateStep ==
  \/ GuardInit \/ GuardHandle \/ OpenDevice \/ ReadFails \/ PrintRow \/ Exit

(* Bound: the collector's next round waits for the table.  ks is a copy,   *)
(* so the two have nothing in common then.                                 *)
CollectorStep ==
  /\ Next
  /\ ks = <<>>
  /\ vpc = "read" => pc # "push"
  /\ UNCHANGED program

ValidateNext == CollectorStep \/ PushRead \/ ValidateStep

ValidateSpec == ValidateInit /\ [][ValidateNext]_allVars

-----------------------------------------------------------------------------
ValidateTypeOK ==
  /\ TypeOK
  /\ vpc \in {"start", "handle", "open", "read", "end", "over"}
             \cup DOMAIN NextRow
  /\ built \in BOOLEAN /\ ok \in BOOLEAN /\ sessions \in Int
  /\ row.metric \in DOMAIN NextRow \cup {"none"}
  /\ row.answer \subseteq Answers /\ row.nvml \subseteq Answers

(* The table compares what it says it compares.  The kernel's column is    *)
(* what the Python consumer shows of the same sample; the note of a        *)
(* temperature or a power is the difference between the number the node    *)
(* held when that sample was collected and what NVML answered for this     *)
(* very row, there when both are and never taken with a sentinel; NVML's   *)
(* column is that answer, or says that there is none.  (Of a temperature   *)
(* it only says whether there is one: line 183 prints a double by "%u".)   *)
(* And whatever fails on the way, a row is printed with a session open,    *)
(* and the session is closed once and not twice                            *)
(* (nvml_validate.cpp:47-54, 152-157, 161-211).                            *)
TableSound ==
  /\ vpc \in DOMAIN NextRow /\ built => sessions = 1
  /\ vpc = "over" => sessions = 0
  /\ row.metric \in Sensor =>
       LET m == row.metric
           x == ks[1][m]
           r == ks[2][m]
       IN /\ row.kernel = PythonShows(m, x)
          /\ IF m = "temp" THEN row.nvml = {} <=> row.answer = {}
                           ELSE row.nvml = row.answer
          /\ r = {} => row.kernel = {} /\ row.note = {}
          /\ m \in {"temp", "power"} /\ row.kernel # {} /\ row.answer # {}
               => row.note # {}
          /\ \A v \in r : Sound(m, v) =>
               row.note \subseteq {Unit(m, v) - a : a \in row.answer}
=============================================================================
