------------------------------- MODULE Device -------------------------------
(***************************************************************************)
(* /dev/gpu_telem as a program may think of it (README.md and the comments *)
(* on read() and poll() in kernel/gpu_telem_core.c): calls that each take  *)
(* effect at one moment.  Every file is used by one thread at a time.      *)
(***************************************************************************)
EXTENDS Integers, Sequences, Functions

CONSTANTS Size, Tasks, Fds, Owner

VARIABLES
  head,       \* samples pushed
  cursor,     \* cursor[f]: the last sample file f is past
  opened,     \* files that exist
  linked,     \* files with a descriptor
  at,         \* at[t]: "user", or in a call: "read", "took" samples, "poll"
  file,       \* file[t]: the file of that call
  taken,      \* taken[t]: the samples of a read that is not over
  ret,        \* ret[t]: what the last call returned
  delivered,  \* delivered[f]: the samples the program got
  lost        \* lost[f]: samples of reads into bad buffers

calls == <<at, file, taken>>
files == <<cursor, opened, linked>>
given == <<delivered, lost>>
vars == <<head, calls, files, ret, given>>

Init ==
  /\ head = 0
  /\ cursor = [f \in Fds |-> 0]
  /\ opened = {} /\ linked = {}
  /\ at = [t \in Tasks |-> "user"]
  /\ file \in [Tasks -> Fds]
  /\ taken = [t \in Tasks |-> <<>>]
  /\ ret = [t \in Tasks |-> "none"]
  /\ delivered = [f \in Fds |-> <<>>]
  /\ lost = [f \in Fds |-> {}]

Push == head' = head + 1 /\ UNCHANGED <<calls, files, ret, given>>

Ends(t, value) ==
  /\ at' = [at EXCEPT ![t] = "user"]
  /\ ret' = [ret EXCEPT ![t] = value]

Opens(t, f) ==
  /\ at[t] = "user" /\ f \in Owner[t] \ opened
  /\ opened' = opened \cup {f} /\ linked' = linked \cup {f}
  /\ cursor' = [cursor EXCEPT ![f] = head]
  /\ file' = [file EXCEPT ![t] = f]
  /\ ret' = [ret EXCEPT ![t] = "none"]
  /\ UNCHANGED <<head, at, taken, given>>

Closes(t, f) ==
  /\ at[t] = "user" /\ f \in Owner[t] \cap linked
  /\ linked' = linked \ {f}
  /\ ret' = [ret EXCEPT ![t] = "none"]
  /\ UNCHANGED <<head, calls, cursor, opened, given>>

(* Nothing refers to f any more. *)
Vanishes(f) ==
  /\ f \in opened \ linked
  /\ \A t \in Tasks : at[t] # "user" => file[t] # f
  /\ opened' = opened \ {f}
  /\ cursor' = [cursor EXCEPT ![f] = 0]
  /\ delivered' = [delivered EXCEPT ![f] = <<>>]
  /\ lost' = [lost EXCEPT ![f] = {}]
  /\ UNCHANGED <<head, calls, linked, ret>>

Calls(t, f) ==
  /\ at[t] = "user" /\ f \in Owner[t] \cap linked
  /\ \E what \in {"read", "poll"} : at' = [at EXCEPT ![t] = what]
  /\ file' = [file EXCEPT ![t] = f]
  /\ ret' = [ret EXCEPT ![t] = "none"]
  /\ UNCHANGED <<head, taken, files, given>>

(* A refused call, -EAGAIN, -ERESTARTSYS, -ENOMEM: nothing is taken.       *)
Errs(t) ==
  /\ at[t] # "took"
  /\ Ends(t, "error")
  /\ UNCHANGED <<head, file, taken, files, given>>

(* The moment of a successful read: of the last Size samples, those that   *)
(* the file is not past, or some of the first of them.                     *)
Takes(t) ==
  LET f == file[t]
      from == IF cursor[f] < head - Size THEN head - Size ELSE cursor[f]
  IN
  /\ at[t] = "read"
  /\ \E n \in 1..head - from :
       /\ taken' = [taken EXCEPT ![t] = [i \in 1..n |-> from + i]]
       /\ cursor' = [cursor EXCEPT ![f] = from + n]
  /\ at' = [at EXCEPT ![t] = "took"]
  /\ UNCHANGED <<head, file, opened, linked, ret, given>>

(* The buffer gets all that was taken; or it is bad and gets nothing. *)
Gives(t) ==
  LET f == file[t] IN
  /\ at[t] = "took"
  /\ taken' = [taken EXCEPT ![t] = <<>>]
  /\ \/ /\ Ends(t, "data")
        /\ delivered' = [delivered EXCEPT ![f] = @ \o taken[t]]
        /\ UNCHANGED lost
     \/ /\ Ends(t, "error")
        /\ lost' = [lost EXCEPT ![f] = @ \cup Range(taken[t])]
        /\ UNCHANGED delivered
  /\ UNCHANGED <<head, file, files>>

(* poll() reports an event that is there, or its timeout. *)
PollEnds(t) ==
  /\ at[t] = "poll"
  /\ (head > cursor[file[t]] /\ Ends(t, "POLLIN")) \/ Ends(t, "none")
  /\ UNCHANGED <<head, file, taken, files, given>>

Next ==
  \/ Push
  \/ \E f \in Fds : Vanishes(f) \/ \E t \in Tasks :
       Opens(t, f) \/ Closes(t, f) \/ Calls(t, f)
  \/ \E t \in Tasks : Errs(t) \/ Takes(t) \/ Gives(t) \/ PollEnds(t)

Spec == Init /\ [][Next]_vars
=============================================================================
