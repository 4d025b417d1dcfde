------------------------------- MODULE Scripts -------------------------------
(***************************************************************************)
(* scripts/load.sh and scripts/unload.sh on top of ModuleLife: people run  *)
(* "load.sh load", "load.sh unload" (unload.sh takes the same steps) and   *)
(* "load.sh reload" at any time, also several at once, while files are     *)
(* opened and closed.  The scripts look with lsmod, then act with insmod   *)
(* or rmmod; both may meet a module that another script has changed since. *)
(*                                                                         *)
(* "set -e" ends a script at the first command that fails, except in the   *)
(* do_unload of a reload, which is run as "do_unload || true".             *)
(***************************************************************************)
EXTENDS ModuleLife

CONSTANTS
  Admins,     \* people who run one script at a time
  PipeBreaks  \* "lsmod | grep -q" may fail although grep finds its line: with
              \* "set -o pipefail" the SIGPIPE of an lsmod that still writes
              \* is the status of the pipe

ASSUME PipeAssumption == PipeBreaks \in BOOLEAN

VARIABLES
  cmd,    \* cmd[a]: the function a's script is in, do_load, do_unload, or
          \* the do_unload of a reload; "none" when a runs no script
  step,   \* step[a]: the command the script is at
  by,     \* history: whose insmod the module in the kernel is from
  alone,  \* history: the one whose script runs, or ran, without another
  told    \* history: what that script has told last

script == <<cmd, step, by, alone, told>>
allVars == <<vars, script>>

ScriptsInit ==
  /\ Init
  /\ cmd = [a \in Admins |-> "none"]
  /\ step = [a \in Admins |-> "none"]
  /\ by = {}
  /\ alone = {}
  /\ told = "nothing"

-----------------------------------------------------------------------------
At(a, s) == step[a] = s
Goto(a, s) == step' = [step EXCEPT ![a] = s] /\ UNCHANGED cmd

(* The script ends, at its last line or by "set -e". *)
Leave(a) ==
  /\ cmd' = [cmd EXCEPT ![a] = "none"]
  /\ step' = [step EXCEPT ![a] = "none"]

Tell(a, line) == told' = IF a \in alone THEN line ELSE told

Run(a) ==
  /\ At(a, "none")
  /\ \E c \in {"load", "unload", "reload"} :
       /\ cmd' = [cmd EXCEPT ![a] = c]
       /\ step' = [step EXCEPT ![a] = IF c = "load" THEN "file" ELSE "lsmod"]
  /\ alone' = IF \A b \in Admins : At(b, "none") THEN {a} ELSE {}
  /\ told' = "nothing"
  /\ UNCHANGED <<vars, by>>

(* do_unload returns; a reload goes on as a load. *)
EndUnload(a, line) ==
  /\ Tell(a, line)
  /\ IF cmd[a] = "reload"
       THEN /\ cmd' = [cmd EXCEPT ![a] = "load"]
            /\ step' = [step EXCEPT ![a] = "file"]
       ELSE Leave(a)

(* [[ ! -f "$MODULE" ]] *)
LooksForFile(a) ==
  /\ At(a, "file")
  /\ Goto(a, "lsmod") \/ Leave(a)
  /\ UNCHANGED <<vars, by, alone, told>>

(* lsmod lists the module from before its init until it is freed. *)
LsmodSays ==
  IF mod = "absent" THEN {FALSE} ELSE {TRUE} \cup {~PipeBreaks}

Lsmod(a) ==
  /\ At(a, "lsmod")
  /\ \E found \in LsmodSays :
       IF found THEN Goto(a, "rmmod") /\ UNCHANGED told
       ELSE IF cmd[a] = "load" THEN Goto(a, "insmod") /\ UNCHANGED told
       ELSE EndUnload(a, "not loaded")
  /\ UNCHANGED <<vars, by, alone>>

RmmodStarts(a) ==
  /\ At(a, "rmmod")
  /\ Rmmod
  /\ mod' = "exit"
  /\ Goto(a, "removing")
  /\ UNCHANGED <<by, alone, told>>

(* The module is gone, busy, or not ready; only a reload goes on. *)
RmmodRefused(a) ==
  /\ At(a, "rmmod")
  /\ (Rmmod /\ mod' = "live") \/ (mod # "live" /\ UNCHANGED vars)
  /\ IF cmd[a] = "reload" THEN EndUnload(a, "unloaded")
                          ELSE Leave(a) /\ UNCHANGED told
  /\ UNCHANGED <<by, alone>>

RmmodReturns(a) ==
  /\ At(a, "removing")
  /\ ModuleFreed
  /\ IF cmd[a] = "load" THEN Goto(a, "insmod") /\ UNCHANGED told
                        ELSE EndUnload(a, "unloaded")
  /\ UNCHANGED <<by, alone>>

InsmodStarts(a) ==
  /\ At(a, "insmod")
  /\ Insmod
  /\ by' = {a}
  /\ Goto(a, "inserting")
  /\ UNCHANGED <<alone, told>>

(* A faulty variant: "insmod ... || true". *)
InsmodIgnored(a) ==
  /\ At(a, "insmod")
  /\ mod # "absent"
  /\ Goto(a, "node")
  /\ UNCHANGED <<vars, by, alone, told>>

(* The name is taken.  While the other module comes or goes, some kernels  *)
(* make insmod wait instead: then this step is not taken.                  *)
InsmodRefused(a) ==
  /\ At(a, "insmod")
  /\ mod # "absent"
  /\ Leave(a)
  /\ UNCHANGED <<vars, by, alone, told>>

InsmodReturns(a) ==
  /\ At(a, "inserting")
  /\ InitReturns
  /\ Goto(a, "node")
  /\ UNCHANGED <<by, alone, told>>

InsmodFails(a) ==
  /\ At(a, "inserting")
  /\ ModuleFreed
  /\ Leave(a)
  /\ UNCHANGED <<by, alone, told>>

(* Up to ten looks at the node, which udev creates after device_create():  *)
(* it is found, or the script gives up.                                    *)
LooksForNode(a) ==
  /\ At(a, "node")
  /\ ("device" \in held /\ Goto(a, "chmod")) \/ Leave(a)
  /\ UNCHANGED <<vars, by, alone, told>>

(* chmod fails if the node has gone. *)
Chmod(a) ==
  /\ At(a, "chmod")
  /\ IF "device" \in held THEN Tell(a, "loaded") ELSE UNCHANGED told
  /\ Leave(a)
  /\ UNCHANGED <<vars, by, alone>>

ScriptStep(a) ==
  \/ LooksForFile(a) \/ Lsmod(a) \/ RmmodStarts(a) \/ RmmodRefused(a)
  \/ InsmodStarts(a) \/ InsmodRefused(a) \/ LooksForNode(a) \/ Chmod(a)

(* init and exit, run on behalf of an insmod or an rmmod. *)
KernelStep ==
  \/ ModuleWorks /\ UNCHANGED script
  \/ \E a \in Admins : InsmodReturns(a) \/ InsmodFails(a) \/ RmmodReturns(a)

FilesStep ==
  /\ TimerExpires \/ \E f \in Files : FileStep(f)
  /\ UNCHANGED script

ThreadRuns == ThreadStep /\ UNCHANGED script

ScriptsNext ==
  \/ KernelStep \/ ThreadRuns \/ FilesStep
  \/ \E a \in Admins : Run(a) \/ ScriptStep(a)

ScriptsSpec == ScriptsInit /\ [][ScriptsNext]_allVars

(* As in ModuleLife, and the processes of a script are scheduled.  Nobody  *)
(* has to run a script or to close a file.                                 *)
ScriptsFairSpec ==
  /\ ScriptsSpec
  /\ WF_allVars(KernelStep) /\ WF_allVars(ThreadRuns)
  /\ \A a \in Admins : WF_allVars(ScriptStep(a))

-----------------------------------------------------------------------------
ScriptsTypeOK ==
  /\ TypeOK
  /\ cmd \in [Admins -> {"none", "load", "unload", "reload"}]
  /\ step \in [Admins -> {"none", "file", "lsmod", "rmmod", "removing",
                          "insmod", "inserting", "node", "chmod"}]
  /\ by \subseteq Admins /\ alone \subseteq Admins
  /\ told \in {"nothing", "loaded", "unloaded", "not loaded"}

(* Whoever runs load.sh alone and is told "Loaded" has the module of this  *)
(* very command, with its parameters, not one that was there before:       *)
(* whatever lsmod said and whatever failed on the way (load.sh:41-57).     *)
LoadedIsOwn == told = "loaded" => mod = "live" /\ by = alone

(* Every script comes to an end: rmmod and insmod never wait for each      *)
(* other, for a file, or for the sampling interval, however many scripts   *)
(* run at once (gpu_telem_core.c:462-463, load.sh:49-53).                  *)
ScriptsEnd == \A a \in Admins : ~At(a, "none") ~> At(a, "none")

(* What load.sh:29 prints: when a script that runs alone says that it has  *)
(* unloaded the module, the module is gone.  A reload may bring it back    *)
(* afterwards, so this is about the moment at which the line is printed.   *)
UnloadedIsTrue ==
  [][told' = "unloaded" /\ told # "unloaded" => mod' = "absent"]_allVars
=============================================================================
