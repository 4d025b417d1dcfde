--------------------------- MODULE ScriptsProofs ---------------------------
(***************************************************************************)
(* Proofs about ModuleLife and Scripts, for every set of init steps that   *)
(* may fail, both behaviours of kthread_stop(), any number of files and    *)
(* any number of people running the scripts at once.                       *)
(*                                                                         *)
(* Every step of Scripts is one of ModuleLife or leaves the module alone,  *)
(* so what is proved of ModuleLife holds under the scripts, too.           *)
(***************************************************************************)
EXTENDS Scripts, FiniteSetTheorems, TLAPS

-----------------------------------------------------------------------------
(* The order of the resources. *)

Rank == [ring |-> 1, region |-> 2, cdev |-> 3, class |-> 4, device |-> 5]

(* The first n resources are held, and no others. *)
Holds(n) == held = {r \in Resources : Rank[r] <= n}

LEMMA Orders ==
  /\ Len(InitOrder) = 6 /\ Len(CleanupOrder) = 5
  /\ DOMAIN CleanupOrder = 1..5
  /\ InitOrder[6] = "thread"
  /\ \A i \in 1..5 : /\ InitOrder[i] \in Resources /\ Rank[InitOrder[i]] = i
                     /\ CleanupOrder[i] \in Resources
                     /\ Rank[CleanupOrder[i]] = 6 - i
  /\ \A i \in 1..6 : FailLabel(InitOrder[i]) = 7 - i
<1>1. Len(InitOrder) = 6 /\ Len(CleanupOrder) = 5 /\ DOMAIN CleanupOrder = 1..5
  BY DEF InitOrder, CleanupOrder
<1>2. /\ InitOrder[1] = "ring" /\ InitOrder[2] = "region"
      /\ InitOrder[3] = "cdev" /\ InitOrder[4] = "class"
      /\ InitOrder[5] = "device" /\ InitOrder[6] = "thread"
  BY DEF InitOrder
<1>3. /\ CleanupOrder[1] = "device" /\ CleanupOrder[2] = "class"
      /\ CleanupOrder[3] = "cdev" /\ CleanupOrder[4] = "region"
      /\ CleanupOrder[5] = "ring"
  BY DEF CleanupOrder
<1>4. /\ Rank["ring"] = 1 /\ Rank["region"] = 2 /\ Rank["cdev"] = 3
      /\ Rank["class"] = 4 /\ Rank["device"] = 5
  BY DEF Rank
<1>5. \A i \in 1..5 : i = 1 \/ i = 2 \/ i = 3 \/ i = 4 \/ i = 5
  OBVIOUS
<1>6. \A i \in 1..5 : /\ InitOrder[i] \in Resources /\ Rank[InitOrder[i]] = i
                      /\ CleanupOrder[i] \in Resources
                      /\ Rank[CleanupOrder[i]] = 6 - i
  BY <1>2, <1>3, <1>4, <1>5 DEF Resources
<1>7. \A i \in 1..6 : FailLabel(InitOrder[i]) = 7 - i
  BY <1>2 DEF FailLabel
<1> QED
  BY <1>1, <1>2, <1>6, <1>7

LEMMA RankOne ==
  \A r, s \in Resources : Rank[r] = Rank[s] => r = s
BY DEF Resources, Rank

LEMMA RankType == \A r \in Resources : Rank[r] \in 1..5
BY DEF Resources, Rank

LEMMA HoldsEnds == /\ Holds(0) <=> held = {}
                   /\ Holds(5) <=> held = Resources
BY RankType DEF Holds

(* One more is taken, in the order of init. *)
LEMMA HoldsTake ==
  ASSUME NEW i \in 1..5, Holds(i - 1), held' = held \cup {InitOrder[i]}
  PROVE  Holds(i)'
BY Orders, RankOne, RankType DEF Holds

(* One is given back, in the order of the unwinding. *)
LEMMA HoldsGive ==
  ASSUME NEW i \in 1..5, Holds(6 - i), held' = held \ {CleanupOrder[i]}
  PROVE  Holds(6 - (i + 1))'
<1>1. held' = {r \in Resources : Rank[r] <= 6 - i} \ {CleanupOrder[i]}
  BY DEF Holds
<1>2. \A r \in Resources : r = CleanupOrder[i] <=> Rank[r] = 6 - i
  BY Orders, RankOne
<1>3. \A r \in Resources : Rank[r] <= 6 - (i + 1)
                             <=> Rank[r] <= 6 - i /\ Rank[r] # 6 - i
  BY RankType
<1> QED
  BY <1>1, <1>2, <1>3 DEF Holds

-----------------------------------------------------------------------------
(* The inductive invariant of ModuleLife.                                  *)

(* How far init, unwinding and exit are says what is held and whether the  *)
(* collector thread exists.                                                *)
Progress ==
  /\ mod = "absent" => at = 0 /\ Holds(0) /\ thread = "none"
  /\ mod = "init" => \/ at \in 1..6 /\ Holds(at - 1) /\ thread = "none"
                     \/ at = 7 /\ Holds(5) /\ thread # "none"
  /\ mod = "unwind" => /\ at \in 1..6 /\ Holds(6 - at) /\ thread = "none"
                       /\ at = 1 => failed = "thread"
  /\ mod = "live" => at = 0 /\ Holds(5) /\ thread # "none"
  /\ mod = "exit" => \/ at = 0 /\ Holds(5) /\ thread # "none"
                     \/ at \in 1..6 /\ Holds(6 - at) /\ thread = "none"

(* Files are in use only after device_create() of the init, while the      *)
(* module lives, or in the unwinding of a failed kthread_run().            *)
Users ==
  \A f \in Files :
    InUse(f) => \/ mod = "live"
                \/ mod = "init" /\ at \in {6, 7}
                \/ mod = "unwind" /\ failed = "thread"

(* Every file in use holds one reference. *)
RefsCount == refs = Cardinality({f \in Files : InUse(f)})

LEMMA ProgressStep ==
  ASSUME Progress, [Next]_vars
  PROVE  Progress'
<1> USE DEF fileVars, threadVars
<1>1. CASE Insmod
  BY <1>1, HoldsEnds DEF Insmod, Progress, Holds
<1>2. CASE InitTakes
  <2>1. mod = "init" /\ at \in 1..5 /\ Holds(at - 1) /\ thread = "none"
    BY <1>2, Orders DEF InitTakes, Progress
  <2>2. held' = {r \in Resources : Rank[r] <= at}
    BY <1>2, <2>1, HoldsTake DEF InitTakes, Holds
  <2>3. mod' = "init" /\ at' = at + 1 /\ thread' = "none"
    BY <1>2, <2>1 DEF InitTakes
  <2> QED
    BY <2>1, <2>2, <2>3 DEF Progress, Holds
<1>3. CASE InitRunsThread
  BY <1>3, Orders DEF InitRunsThread, Progress, Holds
<1>4. CASE InitFails
  <2>1. mod = "init" /\ at \in 1..6 /\ Holds(at - 1) /\ thread = "none"
    BY <1>4, Orders DEF InitFails, Progress
  <2>2. /\ mod' = "unwind" /\ at' = 7 - at /\ thread' = "none"
        /\ held' = held
        /\ failed' = InitOrder[at]
    BY <1>4, <2>1, Orders DEF InitFails
  <2>3. at' = 1 => failed' = "thread"
    BY <2>1, <2>2, Orders
  <2>4. at' \in 1..6 /\ 6 - at' = at - 1
    BY <2>1, <2>2
  <2> QED
    BY <2>1, <2>2, <2>3, <2>4 DEF Progress, Holds
<1>5. CASE InitReturns
  BY <1>5, Orders DEF InitReturns, Progress, Holds
<1>6. CASE Cleanup
  <2>1. /\ mod \in {"unwind", "exit"}
        /\ at \in 1..5 /\ Holds(6 - at) /\ thread = "none"
    BY <1>6, Orders DEF Cleanup, Progress
  <2>2. held' = {r \in Resources : Rank[r] <= 6 - (at + 1)}
    BY <1>6, <2>1, HoldsGive DEF Cleanup, Holds
  <2>3. mod' = mod /\ at' = at + 1 /\ thread' = "none" /\ failed' = failed
    BY <1>6, <2>1 DEF Cleanup
  <2> QED
    BY <2>1, <2>2, <2>3 DEF Progress, Holds
<1>7. CASE ModuleFreed
  <2>1. at = 6 /\ Holds(0) /\ thread = "none"
    BY <1>7, Orders DEF ModuleFreed, Progress
  <2> QED
    BY <1>7, <2>1 DEF ModuleFreed, Progress, Holds
<1>8. CASE Rmmod
  BY <1>8 DEF Rmmod, Progress, Holds
<1>9. CASE ExitStops
  BY <1>9 DEF ExitStops, Progress, Holds
<1>10. CASE ExitJoins
  BY <1>10 DEF ExitJoins, Progress, Holds
<1>11. ASSUME NEW from, NEW to, ThreadMoves(from, to),
              "none" \notin from, to # "none"
       PROVE  Progress'
  BY <1>11 DEF ThreadMoves, Progress, Holds
<1>12. CASE ThreadStep \/ TimerExpires
  BY <1>11, <1>12
     DEF ThreadStep, ThreadChecks, ThreadPushes, ThreadBreaks, TimerExpires
<1>13. ASSUME NEW f \in Files, FileStep(f)
       PROVE  Progress'
  BY <1>13 DEF FileStep, OpenLooksUp, OpenReturns, ReadBlocks, ReadReturns,
               Release, FileMoves, Progress, Holds
<1>14. CASE UNCHANGED vars
  BY <1>14 DEF vars, Progress, Holds
<1> QED
  BY <1>1, <1>2, <1>3, <1>4, <1>5, <1>6, <1>7, <1>8, <1>9, <1>10, <1>12,
     <1>13, <1>14 DEF Next, ModuleStep, ModuleWorks

LEMMA UsersStep ==
  ASSUME Progress, RefsCount, Users, [Next]_vars
  PROVE  Users'
<1> USE DEF fileVars, threadVars, InUse
<1>f. IsFiniteSet({f \in Files : InUse(f)})
  BY FilesAssumption, FS_Subset
<1>0. refs = 0 => \A f \in Files : ~InUse(f)
  <2>1. refs = 0 => {f \in Files : InUse(f)} = {}
    BY <1>f, FS_EmptySet, Zenon DEF RefsCount
  <2> QED
    BY <2>1
<1>1. CASE Insmod
  BY <1>1 DEF Insmod, Users
<1>2. CASE InitTakes
  BY <1>2, Orders DEF InitTakes, Progress, Users
<1>3. CASE InitRunsThread
  BY <1>3, Orders DEF InitRunsThread, Users
<1>4. CASE InitFails
  <2>1. \A f \in Files : InUse(f) => at = 6
    BY <1>4, Orders DEF InitFails, Users
  <2> QED
    BY <1>4, <2>1, Orders DEF InitFails, Users
<1>5. CASE InitReturns
  BY <1>5 DEF InitReturns, Users
<1>6. CASE Cleanup
  BY <1>6 DEF Cleanup, Users
<1>7. CASE ModuleFreed
  BY <1>7 DEF ModuleFreed, Users
<1>8. CASE Rmmod
  <2>1. refs \in Nat
    BY <1>f, FS_CardinalityType DEF RefsCount
  <2> QED
    BY <1>0, <1>8, <2>1 DEF Rmmod, Users
<1>9. CASE ExitStops \/ ExitJoins
  BY <1>9 DEF ExitStops, ExitJoins, Users
<1>10. CASE ThreadStep \/ TimerExpires
  BY <1>10 DEF ThreadStep, ThreadChecks, ThreadPushes, ThreadBreaks,
               TimerExpires, ThreadMoves, Users
(* With the device node there, init is at kthread_run() or past it, and an *)
(* unwinding has not begun, so that kthread_run() is what failed.          *)
<1>11. ASSUME NEW f \in Files, OpenLooksUp(f)
       PROVE  Users'
  <2>1. /\ "device" \in held /\ mod \in {"init", "unwind", "live"}
        /\ UNCHANGED <<mod, at, failed>>
    BY <1>11 DEF OpenLooksUp, CanOpen, FileMoves
  <2>2. \A n : Holds(n) /\ "device" \in held => 5 <= n
    BY DEF Holds, Rank
  <2>3. \/ mod = "live"
        \/ mod = "init" /\ at \in {6, 7}
        \/ mod = "unwind" /\ failed = "thread"
    BY <2>1, <2>2 DEF Progress
  <2> QED
    BY <2>1, <2>3 DEF Users
<1>12. ASSUME NEW f \in Files,
              \/ OpenReturns(f) \/ ReadBlocks(f) \/ ReadReturns(f)
              \/ Release(f)
       PROVE  Users'
  <2>1. /\ UNCHANGED <<mod, at, failed>>
        /\ InUse(f)
        /\ \E to : file' = [file EXCEPT ![f] = to]
    BY <1>12 DEF OpenReturns, ReadBlocks, ReadReturns, Release, FileMoves
  <2> QED
    BY <2>1 DEF Users
<1>13. CASE UNCHANGED vars
  BY <1>13 DEF vars, Users
<1> QED
  BY <1>1, <1>2, <1>3, <1>4, <1>5, <1>6, <1>7, <1>8, <1>9, <1>10, <1>11,
     <1>12, <1>13 DEF Next, ModuleStep, ModuleWorks, FileStep

LEMMA RefsCountStep ==
  ASSUME TypeOK, RefsCount, [Next]_vars
  PROVE  RefsCount'
<1> DEFINE Using == {f \in Files : InUse(f)}
<1> USE DEF fileVars, threadVars, InUse
<1>f. IsFiniteSet(Using)
  BY FilesAssumption, FS_Subset
<1>t. file \in [Files -> {"closed", "opening", "open", "reading", "stale"}]
  BY DEF TypeOK
<1>0. ASSUME UNCHANGED <<file, refs>>
      PROVE  RefsCount'
  BY <1>0 DEF RefsCount
<1>1. CASE Insmod \/ Rmmod \/ ModuleWorks \/ InitReturns
  BY <1>0, <1>1 DEF Insmod, Rmmod, ModuleWorks, InitTakes, InitRunsThread,
     InitFails, Cleanup, ExitStops, ExitJoins, InitReturns
<1>2. CASE ModuleFreed
  <2>1. Using' = {}
    BY <1>2 DEF ModuleFreed
  <2>2. refs' = 0
    BY <1>2 DEF ModuleFreed
  <2> QED
    BY <2>1, <2>2, FS_EmptySet DEF RefsCount
<1>3. CASE ThreadStep \/ TimerExpires
  BY <1>0, <1>3 DEF ThreadStep, ThreadChecks, ThreadPushes, ThreadBreaks,
               TimerExpires, ThreadMoves
<1>4. ASSUME NEW f \in Files, FileMoves(f, "closed", "opening", 1)
      PROVE  RefsCount'
  <2>1. f \notin Using /\ Using' = Using \cup {f}
    BY <1>t, <1>4 DEF FileMoves
  <2>2. Cardinality(Using') = Cardinality(Using) + 1
    BY <1>f, <2>1, FS_AddElement
  <2> QED
    BY <1>4, <2>2 DEF FileMoves, RefsCount
<1>5. ASSUME NEW f \in Files, NEW from \in {"opening", "open"},
             FileMoves(f, from, "closed", -1)
      PROVE  RefsCount'
  <2>1. f \in Using /\ Using' = Using \ {f}
    BY <1>t, <1>5 DEF FileMoves
  <2>2. Cardinality(Using') = Cardinality(Using) - 1
    BY <1>f, <2>1, FS_RemoveElement
  <2>3. Cardinality(Using) \in Nat
    BY <1>f, FS_CardinalityType
  <2> QED
    BY <1>5, <2>2, <2>3 DEF FileMoves, RefsCount
<1>6. ASSUME NEW f \in Files, NEW from \in {"opening", "open", "reading"},
             NEW to \in {"open", "reading"}, FileMoves(f, from, to, 0)
      PROVE  RefsCount'
  <2>1. Using' = Using
    BY <1>t, <1>6 DEF FileMoves
  <2>2. Cardinality(Using) \in Nat
    BY <1>f, FS_CardinalityType
  <2>3. refs' = refs
    BY <1>6, <2>2 DEF FileMoves, RefsCount
  <2> QED
    BY <2>1, <2>3, Zenon DEF RefsCount
<1>7. CASE UNCHANGED vars
  BY <1>0, <1>7 DEF vars
<1> QED
  BY <1>1, <1>2, <1>3, <1>4, <1>5, <1>6, <1>7
     DEF Next, ModuleStep, FileStep, OpenLooksUp, OpenReturns, ReadBlocks,
         ReadReturns, Release

-----------------------------------------------------------------------------
(* The types.  Two of the bounds are facts of their own: where init and    *)
(* exit are, and how many references there are.                            *)
LEMMA AtAndRefsBounded ==
  ASSUME Progress', RefsCount',
         mod' \in {"absent", "init", "unwind", "live", "exit"}
  PROVE  at' \in 0..Len(InitOrder) + 1 /\ refs' \in 0..Cardinality(Files)
<1> DEFINE Using == {f \in Files : InUse(f)'}
<1>1. /\ IsFiniteSet(Using) /\ Cardinality(Using) <= Cardinality(Files)
  BY FilesAssumption, FS_Subset
<1>2. Cardinality(Using) \in Nat /\ Cardinality(Files) \in Nat
  BY <1>1, FilesAssumption, FS_CardinalityType
<1>3. refs' = Cardinality(Using)
  BY Zenon DEF RefsCount
<1>4. at' \in 0..Len(InitOrder) + 1
  BY Orders DEF Progress
<1> QED
  BY <1>1, <1>2, <1>3, <1>4

LEMMA TypeStep ==
  ASSUME TypeOK, Progress, Progress', RefsCount', [Next]_vars
  PROVE  TypeOK'
<1> USE DEF fileVars, threadVars
<1> DEFINE Modules == {"absent", "init", "unwind", "live", "exit"}
           Threads == {"none", "ready", "check", "push", "sleep", "exited"}
           FileStates == {"closed", "opening", "open", "reading", "stale"}
           Control == /\ mod \in Modules
                      /\ failed \in Resources \cup {"thread", "none"}
                      /\ thread \in Threads /\ stop \in BOOLEAN
                      /\ held \subseteq Resources
                      /\ unload \in {"none", "running", "finished"}
           OfFiles == file \in [Files -> FileStates] /\ asked \subseteq Files
<1>1. Control /\ OfFiles
  BY DEF TypeOK
<1>2. Control' /\ OfFiles'
  <2>1. CASE Insmod
    BY <1>1, <2>1 DEF Insmod
  <2>2. CASE InitTakes
    <3>1. mod = "init" /\ at \in 1..5
      BY <2>2, Orders DEF InitTakes, Progress
    <3>2. InitOrder[at] \in Resources
      BY <3>1, Orders
    <3> QED
      BY <1>1, <2>2, <3>2 DEF InitTakes
  <2>3. CASE InitRunsThread
    BY <1>1, <2>3 DEF InitRunsThread
  <2>4. CASE InitFails
    <3>1. InitOrder[at] \in Resources \cup {"thread"}
      BY <2>4, CanFailAssumption DEF InitFails
    <3> QED
      BY <1>1, <2>4, <3>1 DEF InitFails
  <2>5. CASE InitReturns
    BY <1>1, <2>5 DEF InitReturns
  <2>6. CASE Cleanup
    BY <1>1, <2>6 DEF Cleanup
  <2>7. CASE ModuleFreed
    BY <1>1, <2>7 DEF ModuleFreed
  <2>8. CASE Rmmod
    BY <1>1, <2>8 DEF Rmmod
  <2>9. CASE ExitStops \/ ExitJoins
    BY <1>1, <2>9 DEF ExitStops, ExitJoins
  <2>10. CASE ThreadStep \/ TimerExpires
    BY <1>1, <2>10 DEF ThreadStep, ThreadChecks, ThreadPushes, ThreadBreaks,
                       TimerExpires, ThreadMoves
  <2>11. ASSUME NEW f \in Files, FileStep(f)
         PROVE  Control' /\ OfFiles'
    BY <1>1, <2>11 DEF FileStep, OpenLooksUp, OpenReturns, ReadBlocks,
                       ReadReturns, Release, FileMoves
  <2>12. CASE UNCHANGED vars
    BY <1>1, <2>12 DEF vars
  <2> HIDE DEF Control, OfFiles
  <2> QED
    BY <2>1, <2>2, <2>3, <2>4, <2>5, <2>6, <2>7, <2>8, <2>9, <2>10, <2>11,
       <2>12 DEF Next, ModuleStep, ModuleWorks
<1>3. at' \in 0..Len(InitOrder) + 1 /\ refs' \in 0..Cardinality(Files)
  BY <1>2, AtAndRefsBounded
<1> QED
  BY <1>2, <1>3 DEF TypeOK

-----------------------------------------------------------------------------
(* ModuleLife's theorems: for every behaviour of insmod, rmmod, the        *)
(* collector and the programs that open the device.                        *)

LifeInv == TypeOK /\ Progress /\ Users /\ RefsCount

LEMMA LifeInit == Init => LifeInv
<1> SUFFICES ASSUME Init PROVE LifeInv
  OBVIOUS
<1>1. \A f \in Files : ~InUse(f)
  BY DEF Init, InUse
<1>2. RefsCount
  <2>1. {f \in Files : InUse(f)} = {}
    BY <1>1
  <2> QED
    BY <2>1, FS_EmptySet DEF Init, RefsCount
<1>3. Progress /\ Users
  BY <1>1, HoldsEnds DEF Init, Progress, Users
<1>4. TypeOK
  <2>1. 0 \in 0..Cardinality(Files)
    BY FilesAssumption, FS_CardinalityType
  <2>2. 0 \in 0..Len(InitOrder) + 1
    BY Orders
  <2>3. file \in [Files -> {"closed", "opening", "open", "reading", "stale"}]
    BY DEF Init
  <2> QED
    BY <2>1, <2>2, <2>3 DEF Init, TypeOK
<1> QED
  BY <1>2, <1>3, <1>4 DEF LifeInv

LEMMA LifeStep == LifeInv /\ [Next]_vars => LifeInv'
BY ProgressStep, UsersStep, RefsCountStep, TypeStep DEF LifeInv

LEMMA LifeInvariant == Spec => []LifeInv
BY LifeInit, LifeStep, PTL DEF Spec

(* What the progress of init and exit says of what is held. *)
LEMMA LifeSafe == LifeInv => Balanced /\ PushHasRing /\ FilesKeepModule
<1> SUFFICES ASSUME LifeInv PROVE Balanced /\ PushHasRing /\ FilesKeepModule
  OBVIOUS
<1>1. Balanced
  <2>1. /\ mod = "absent" => held = {} /\ thread = "none"
        /\ mod = "live" => held = Resources /\ thread # "none"
    BY HoldsEnds DEF LifeInv, Progress
  <2>2. ASSUME NEW r \in Resources, TakesNext(r)
        PROVE  r \notin held
    <3>1. at \in 1..5 /\ Holds(at - 1) /\ r = InitOrder[at]
      BY <2>2, Orders DEF TakesNext, LifeInv, Progress
    <3> QED
      BY <3>1, Orders DEF Holds
  <2>3. ASSUME NEW r \in Resources, GivesNext(r)
        PROVE  r \in held
    <3>1. at \in 1..5 /\ Holds(6 - at) /\ r = CleanupOrder[at]
      BY <2>3, Orders DEF GivesNext, LifeInv, Progress
    <3> QED
      BY <3>1, Orders DEF Holds
  <2> QED
    BY <2>1, <2>2, <2>3 DEF Balanced
<1>2. Holds(5) => "ring" \in held
  BY HoldsEnds DEF Resources
<1>3. TypeOK /\ Progress /\ Users
  BY DEF LifeInv
<1>4. PushHasRing
  BY <1>2, <1>3 DEF TypeOK, Progress, PushHasRing
<1>5. FilesKeepModule
  <2>1. mod = "live" => "ring" \in held
    BY <1>2, <1>3 DEF Progress
  <2>2. mod = "init" /\ at \in {6, 7} => "ring" \in held
    BY <1>2, <1>3 DEF Progress
  <2> QED
    BY <1>3, <2>1, <2>2 DEF Users, FilesKeepModule
<1> QED
  BY <1>1, <1>4, <1>5

(* The variables of ModuleLife keep to their types; the references on the  *)
(* module are never negative and never more than there are files.          *)
THEOREM LifeTypeCorrect == Spec => []TypeOK
<1>1. LifeInv => TypeOK
  BY DEF LifeInv
<1> QED
  BY <1>1, LifeInvariant, PTL

(* Whichever step of init fails, the unwinding gives back all that was     *)
(* taken, nothing that was not, and nothing twice, and so does every exit: *)
(* each of their calls meets a resource that is held, and an absent module *)
(* holds nothing and has no thread.                                        *)
THEOREM NothingLeaks == Spec => []Balanced
BY LifeSafe, LifeInvariant, PTL

(* The collector never pushes into a ring that is not there.               *)
THEOREM PushIsSafe == Spec => []PushHasRing
BY LifeSafe, LifeInvariant, PTL

(* A file in use has its ring and a module that does not go away, except   *)
(* in the unwinding of a failed kthread_run().                             *)
THEOREM OpenFilesAreSafe == Spec => []FilesKeepModule
BY LifeSafe, LifeInvariant, PTL

-----------------------------------------------------------------------------
(* The scripts.                                                            *)

(* Whatever the scripts do to the module is insmod, rmmod, or nothing.     *)
LEMMA ScriptsStepsAreLife ==
  /\ ScriptsInit => Init
  /\ [ScriptsNext]_allVars => [Next]_vars
<1>1. ScriptsInit => Init
  BY DEF ScriptsInit
<1>2. ASSUME ScriptsNext PROVE [Next]_vars
  <2>1. CASE KernelStep
    BY <2>1 DEF KernelStep, InsmodReturns, InsmodFails, RmmodReturns, Next,
                ModuleStep
  <2>2. CASE ThreadRuns \/ FilesStep
    BY <2>2 DEF ThreadRuns, FilesStep, Next
  <2>3. ASSUME NEW a \in Admins, Run(a) \/ ScriptStep(a)
        PROVE  [Next]_vars
    BY <2>3, Zenon DEF Run, ScriptStep, LooksForFile, Lsmod, RmmodStarts,
                RmmodRefused, InsmodStarts, InsmodRefused, LooksForNode,
                Chmod, Next
  <2> QED
    BY <1>2, <2>1, <2>2, <2>3 DEF ScriptsNext
<1>3. UNCHANGED allVars => UNCHANGED vars
  BY DEF allVars
<1> QED
  BY <1>1, <1>2, <1>3

(* So the scripts cannot break what ModuleLife guarantees, however many    *)
(* of them run at once and wherever they fail.                             *)
THEOREM ScriptsKeepModule == ScriptsSpec => Spec
BY ScriptsStepsAreLife, PTL DEF ScriptsSpec, Spec

(* The one whose script runs alone: nobody else is in a script, and from   *)
(* his insmod on the module is his.  The first conjunct: there is at most  *)
(* one; the last: what the module is when the script has said "Loaded".    *)
AloneType == alone = {} \/ \E a \in Admins : alone = {a}

OthersIdle == \A a \in alone : \A b \in Admins : b # a => step[b] = "none"

OwnInsmod ==
  \A a \in alone :
    /\ step[a] = "inserting" => mod \in {"init", "unwind"} /\ by = {a}
    /\ step[a] \in {"node", "chmod"} => mod = "live" /\ by = {a}

SaidLoaded ==
  told = "loaded" => /\ alone # {} /\ by = alone /\ mod = "live"
                     /\ \A b \in Admins : step[b] = "none"

ScriptTypes ==
  /\ cmd \in [Admins -> {"none", "load", "unload", "reload"}]
  /\ step \in [Admins -> {"none", "file", "lsmod", "rmmod", "removing",
                          "insmod", "inserting", "node", "chmod"}]
  /\ by \subseteq Admins /\ alone \subseteq Admins
  /\ told \in {"nothing", "loaded", "unloaded", "not loaded"}

AloneInv ==
  ScriptTypes /\ AloneType /\ OthersIdle /\ OwnInsmod /\ SaidLoaded

LEMMA AloneInit == ScriptsInit => AloneInv
BY DEF ScriptsInit, AloneInv, ScriptTypes, AloneType, OthersIdle, OwnInsmod,
       SaidLoaded

LEMMA ScriptTypesStep ==
  ASSUME ScriptTypes, [ScriptsNext]_allVars
  PROVE  ScriptTypes'
<1> USE DEF ScriptTypes, Goto, Leave, Tell, EndUnload
<1>1. ASSUME UNCHANGED script
      PROVE  ScriptTypes'
  BY <1>1 DEF script
<1>2. CASE KernelStep
  BY <1>1, <1>2 DEF KernelStep, InsmodReturns, InsmodFails, RmmodReturns
<1>3. CASE ThreadRuns \/ FilesStep
  BY <1>1, <1>3 DEF ThreadRuns, FilesStep
<1>4. ASSUME NEW a \in Admins, Run(a)
      PROVE  ScriptTypes'
  BY <1>4 DEF Run
<1>5. ASSUME NEW a \in Admins, ScriptStep(a)
      PROVE  ScriptTypes'
  <2>1. CASE LooksForFile(a) \/ Lsmod(a)
    BY <2>1 DEF LooksForFile, Lsmod
  <2>2. CASE RmmodStarts(a) \/ RmmodRefused(a)
    BY <2>2 DEF RmmodStarts, RmmodRefused
  <2>3. CASE InsmodStarts(a) \/ InsmodRefused(a)
    BY <2>3 DEF InsmodStarts, InsmodRefused
  <2>4. CASE LooksForNode(a) \/ Chmod(a)
    BY <2>4 DEF LooksForNode, Chmod
  <2> QED
    BY <1>5, <2>1, <2>2, <2>3, <2>4 DEF ScriptStep
<1>6. CASE UNCHANGED allVars
  BY <1>1, <1>6 DEF allVars
<1> QED
  BY <1>2, <1>3, <1>4, <1>5, <1>6 DEF ScriptsNext

(* A step that leaves the scripts alone changes the module only inside     *)
(* init and exit.                                                          *)
LEMMA KernelKeepsOwn ==
  ASSUME AloneInv, UNCHANGED script,
         mod' = mod \/ (mod = "init" /\ mod' = "unwind")
  PROVE  AloneInv'
<1>1. /\ cmd' = cmd /\ step' = step /\ by' = by
      /\ alone' = alone /\ told' = told
  BY DEF script
<1>2. ScriptTypes' /\ AloneType' /\ OthersIdle'
  BY <1>1 DEF AloneInv, ScriptTypes, AloneType, OthersIdle
<1>3. OwnInsmod'
  BY <1>1 DEF AloneInv, OwnInsmod
<1>4. SaidLoaded'
  BY <1>1 DEF AloneInv, SaidLoaded
<1> QED
  BY <1>2, <1>3, <1>4 DEF AloneInv

(* A step of a script that somebody runs: when anybody runs alone, it is   *)
(* him, and he has not said "Loaded" yet.                                  *)
LEMMA RunnerIsAlone ==
  ASSUME AloneInv, NEW a \in Admins, step[a] # "none"
  PROVE  (alone = {} \/ alone = {a}) /\ told # "loaded"
BY DEF AloneInv, AloneType, OthersIdle, SaidLoaded

(* What such a step has to show: the place a goes to, and what he says.    *)
LEMMA RunnerKeepsOwn ==
  ASSUME AloneInv, ScriptTypes', NEW a \in Admins, step[a] # "none",
         alone' = alone, NEW s, step' = [step EXCEPT ![a] = s],
         alone = {a} /\ s = "inserting" => mod' \in {"init", "unwind"} /\ by' = {a},
         alone = {a} /\ s \in {"node", "chmod"} => mod' = "live" /\ by' = {a},
         told' = "loaded" => \/ told = "loaded"
                             \/ /\ alone = {a} /\ by' = {a} /\ mod' = "live"
                                /\ s = "none"
  PROVE  AloneInv'
<1>1. (alone = {} \/ alone = {a}) /\ told # "loaded"
  BY RunnerIsAlone
<1>2. /\ step'[a] = s
      /\ \A b \in Admins : b # a => step'[b] = step[b]
  BY DEF AloneInv, ScriptTypes
<1>3. \A b \in Admins : alone = {a} /\ b # a => step'[b] = "none"
  BY <1>2 DEF AloneInv, OthersIdle
<1>4. AloneType' /\ OthersIdle'
  BY <1>1, <1>3 DEF AloneType, OthersIdle
<1>5. OwnInsmod'
  BY <1>1, <1>2 DEF OwnInsmod
<1>6. SaidLoaded'
  BY <1>1, <1>2, <1>3 DEF SaidLoaded
<1> QED
  BY <1>4, <1>5, <1>6 DEF AloneInv

LEMMA AloneStep ==
  ASSUME AloneInv, [ScriptsNext]_allVars
  PROVE  AloneInv'
<1>t. ScriptTypes'
  BY ScriptTypesStep DEF AloneInv
<1>w. \A a \in Admins : alone = {a} =>
        /\ step[a] = "inserting" => mod \in {"init", "unwind"} /\ by = {a}
        /\ step[a] \in {"node", "chmod"} => mod = "live" /\ by = {a}
  BY DEF AloneInv, OwnInsmod
<1> USE DEF Goto, Leave, Tell, EndUnload, At
<1>1. CASE ModuleWorks /\ UNCHANGED script
  <2>1. mod' = mod \/ (mod = "init" /\ mod' = "unwind")
    BY <1>1 DEF ModuleWorks, InitTakes, InitRunsThread, InitFails, Cleanup,
                ExitStops, ExitJoins
  <2> QED
    BY <1>1, <2>1, KernelKeepsOwn
<1>2. CASE ThreadRuns \/ FilesStep
  <2>1. mod' = mod /\ UNCHANGED script
    BY <1>2 DEF ThreadRuns, ThreadStep, ThreadChecks, ThreadPushes,
                ThreadBreaks, FilesStep, TimerExpires, ThreadMoves, FileStep,
                OpenLooksUp, OpenReturns, ReadBlocks, ReadReturns, Release,
                FileMoves
  <2> QED
    BY <2>1, KernelKeepsOwn
(* The first to run a script is alone; the second ends that.               *)
<1>3. ASSUME NEW a \in Admins, Run(a)
      PROVE  AloneInv'
  <2>1. /\ step[a] = "none" /\ told' = "nothing"
        /\ alone' = IF \A b \in Admins : step[b] = "none" THEN {a} ELSE {}
        /\ step'[a] \in {"file", "lsmod"}
        /\ \A b \in Admins : b # a => step'[b] = step[b]
    BY <1>3 DEF Run, AloneInv, ScriptTypes
  <2> QED
    BY <1>t, <2>1 DEF AloneInv, AloneType, OthersIdle, OwnInsmod, SaidLoaded
<1>4. ASSUME NEW a \in Admins, NEW s, step[a] # "none", alone' = alone,
             step' = [step EXCEPT ![a] = s],
             s \notin {"inserting", "node", "chmod"}, told' # "loaded"
      PROVE  AloneInv'
  BY <1>t, <1>4, RunnerKeepsOwn
<1>5. ASSUME NEW a \in Admins, step[a] # "none"
      PROVE  told # "loaded" /\ (alone # {} => alone = {a})
  BY <1>5, RunnerIsAlone
<1>6. ASSUME NEW a \in Admins, InsmodReturns(a)
      PROVE  AloneInv'
  BY <1>t, <1>w, <1>6, RunnerKeepsOwn DEF InsmodReturns, InitReturns
<1>7. ASSUME NEW a \in Admins, InsmodFails(a) \/ RmmodReturns(a)
      PROVE  AloneInv'
  BY <1>4, <1>5, <1>7 DEF InsmodFails, RmmodReturns
<1>8. ASSUME NEW a \in Admins, ScriptStep(a)
      PROVE  AloneInv'
  <2>1. CASE LooksForFile(a)
    BY <1>4, <1>5, <2>1 DEF LooksForFile
  <2>2. CASE Lsmod(a)
    BY <1>4, <1>5, <2>2 DEF Lsmod
  <2>3. CASE RmmodStarts(a)
    BY <1>4, <1>5, <2>3 DEF RmmodStarts
  <2>4. CASE RmmodRefused(a)
    BY <1>4, <1>5, <2>4 DEF RmmodRefused
  <2>5. CASE InsmodStarts(a)
    BY <1>t, <2>5, RunnerKeepsOwn DEF InsmodStarts, Insmod
  <2>6. CASE InsmodRefused(a)
    BY <1>4, <1>5, <2>6 DEF InsmodRefused
  <2>7. CASE LooksForNode(a)
    <3>1. mod' = mod /\ by' = by /\ alone' = alone /\ told' = told
      BY <2>7 DEF LooksForNode, vars
    <3>2. step[a] = "node" /\ \E s \in {"chmod", "none"} :
                                step' = [step EXCEPT ![a] = s]
      BY <2>7 DEF LooksForNode
    <3> QED
      BY <1>t, <1>w, <3>1, <3>2, RunnerKeepsOwn
  <2>8. CASE Chmod(a)
    <3>1. mod' = mod /\ by' = by /\ alone' = alone
      BY <2>8 DEF Chmod, vars
    <3>2. step[a] = "chmod" /\ step' = [step EXCEPT ![a] = "none"]
      BY <2>8 DEF Chmod
    <3>3. told' = "loaded" => told = "loaded" \/ alone = {a}
      BY <1>5, <2>8 DEF Chmod
    <3> QED
      BY <1>t, <1>w, <3>1, <3>2, <3>3, RunnerKeepsOwn
  <2> QED
    BY <1>8, <2>1, <2>2, <2>3, <2>4, <2>5, <2>6, <2>7, <2>8 DEF ScriptStep
<1>9. CASE UNCHANGED allVars
  <2>1. mod' = mod /\ UNCHANGED script
    BY <1>9 DEF allVars, vars
  <2> QED
    BY <2>1, KernelKeepsOwn
<1> QED
  BY <1>1, <1>2, <1>3, <1>6, <1>7, <1>8, <1>9 DEF ScriptsNext, KernelStep

LEMMA AloneInvariant == ScriptsSpec => []AloneInv
<1>1. AloneInv /\ [ScriptsNext]_allVars => AloneInv'
  BY AloneStep
<1> QED
  BY <1>1, AloneInit, PTL DEF ScriptsSpec

(* The variables of the scripts keep to their types, and with them those   *)
(* of the module they load and unload.                                     *)
THEOREM ScriptsTypeCorrect == ScriptsSpec => []ScriptsTypeOK
<1>1. AloneInv /\ TypeOK => ScriptsTypeOK
  BY DEF AloneInv, ScriptTypes, ScriptsTypeOK
<1> QED
  BY <1>1, AloneInvariant, ScriptsKeepModule, LifeTypeCorrect, PTL

(* Whoever runs load.sh alone and is told "Loaded" has the module of this  *)
(* very command: for any number of people, whatever lsmod said and         *)
(* whatever failed on the way.                                             *)
THEOREM LoadedMeansOwn == ScriptsSpec => []LoadedIsOwn
<1>1. AloneInv => LoadedIsOwn
  BY DEF AloneInv, SaidLoaded, LoadedIsOwn
<1> QED
  BY <1>1, AloneInvariant, PTL
=============================================================================
