------------------------ MODULE ConfigMonitorProofs ------------------------
(***************************************************************************)
(* Theorems about ConfigMonitor: for any edited files and restart policy,  *)
(* any number of edits and restarts, and a clock that may be set back.     *)
(***************************************************************************)
EXTENDS ConfigMonitor, TLAPS

USE EditableAssumption, PolicyAssumption, BoundsAssumption

----------------------------------------------------------------------------
(* Types.  The times recorded are of files that are monitored, and what     *)
(* came before "serving" has recorded nothing.                              *)

FileRecord == [there : BOOLEAN, good : BOOLEAN, version : 0 .. MaxEdits,
               mtime : Times, ctime : Times]
Recorded   == [mtime : Times, ctime : Times]

\* Only a serving process has a monitor thread.
MonitorState ==
    /\ monitor = "on" => main = "serving"
    /\ main # "serving" => ~sigint /\ todo = {} /\ DOMAIN known = {}

TypeInv == TypeOK /\ MonitorState

LEMMA TypeInit == Init => TypeInv
<1> SUFFICES ASSUME Init PROVE TypeInv
  OBVIOUS
<1>1. 0 \in Times /\ 0 \in 0 .. MaxEdits /\ -1 \in -1 .. MaxEdits
  BY DEF Times
<1>2. file \in [Files -> FileRecord] /\ loaded \in [Files -> -1 .. MaxEdits]
  BY <1>1 DEF Init, Started, FileRecord
<1>3. DOMAIN known = {} /\ monitored = {} /\ todo = {}
  BY DEF Init, Started
<1>4. main = "profile" /\ monitor = "off" /\ sigint = FALSE /\ exit = "none" /\ now = 0 /\ edits = 0
  BY DEF Init, Started
<1> QED
  BY <1>1, <1>2, <1>3, <1>4 DEF TypeInv, TypeOK, MonitorState, FileRecord, Files

LEMMA EditType ==
    ASSUME TypeInv, NEW f \in Files, NEW new \in FileRecord, Edit(f, new)
    PROVE  TypeInv'
BY DEF TypeInv, TypeOK, MonitorState, Edit, FileRecord, process, watch

LEMMA LoadType ==
    ASSUME TypeInv, NEW f \in Files, NEW next, Load(f, next), main # "serving",
           next \in {"ecu_info", "greengrass", "starting"}
    PROVE  TypeInv'
<1>1. file[f].version \in -1 .. MaxEdits
  BY DEF TypeInv, TypeOK
<1> QED
  BY <1>1 DEF TypeInv, TypeOK, MonitorState, Load, disk, watch

LEMMA FailType == ASSUME TypeInv, Fail, main # "serving" PROVE TypeInv'
BY DEF TypeInv, TypeOK, MonitorState, Fail, disk, watch

LEMMA VisitType == ASSUME TypeInv, NEW f \in Files, Visit(f) PROVE TypeInv'
<1>1. Stat(f) \in Recorded
  BY DEF TypeInv, TypeOK, Stat, Recorded
<1>2. f \in monitored /\ main = "serving"
  BY DEF TypeInv, TypeOK, MonitorState, Visit
<1>3. FileChanged(known[f], Stat(f)) \in BOOLEAN
  BY DEF FileChanged
<1>4. sigint' \in BOOLEAN
  BY <1>3 DEF TypeInv, TypeOK, Visit
<1>5. /\ DOMAIN known' \subseteq monitored
      /\ \A g \in DOMAIN known' : known'[g] \in Recorded
  <2>1. CASE UNCHANGED known
    BY <2>1 DEF TypeInv, TypeOK, Recorded
  <2>2. CASE known' = [g \in DOMAIN known \cup {f} |-> IF g = f THEN Stat(f) ELSE known[g]]
    BY <1>1, <1>2, <2>2 DEF TypeInv, TypeOK, Recorded
  <2> QED
    BY <2>1, <2>2 DEF Visit
<1>6. todo' \subseteq todo
  BY DEF Visit
<1> QED
  BY <1>2, <1>4, <1>5, <1>6 DEF TypeInv, TypeOK, MonitorState, Visit, disk, Recorded

LEMMA TypeStep == TypeInv /\ [Next]_vars => TypeInv'
<1> SUFFICES ASSUME TypeInv, [Next]_vars PROVE TypeInv'
  OBVIOUS
<1>1. CASE Tick \/ SetBack
  <2>1. now' \in Times
    BY <1>1 DEF Tick, SetBack, TypeInv, TypeOK, Times
  <2> QED
    BY <1>1, <2>1 DEF Tick, SetBack, TypeInv, TypeOK, MonitorState, process, watch
<1>2. ASSUME NEW f \in Editable, Write(f) PROVE TypeInv'
  <2>1. PICK good \in BOOLEAN, mtime \in 0 .. now :
           Edit(f, [there |-> TRUE, good |-> good, version |-> edits + 1,
                    mtime |-> mtime, ctime |-> now])
    BY <1>2 DEF Write
  <2>2. edits + 1 \in 0 .. MaxEdits /\ mtime \in Times /\ now \in Times
    BY <2>1 DEF Edit, TypeInv, TypeOK, Times
  <2> QED
    BY <2>1, <2>2, EditType DEF FileRecord
<1>3. ASSUME NEW f \in Editable, Delete(f) PROVE TypeInv'
  <2>1. edits + 1 \in 0 .. MaxEdits
    BY <1>3 DEF Delete, Edit, TypeInv, TypeOK
  <2>2. [file[f] EXCEPT !.there = FALSE, !.version = edits + 1] \in FileRecord
    BY <2>1 DEF TypeInv, TypeOK, FileRecord
  <2> QED
    BY <1>3, <2>2, EditType DEF Delete
<1>4. CASE LoadProfile
  BY <1>4, LoadType, FailType DEF LoadProfile, Files
<1>5. CASE LoadEcuInfo
  <2>1. CASE Valid("ecu_info")
    BY <1>5, <2>1, LoadType DEF LoadEcuInfo, Files
  <2>2. CASE ~Valid("ecu_info")
    BY <1>5, <2>2 DEF LoadEcuInfo, TypeInv, TypeOK, MonitorState, disk, watch
  <2> QED
    BY <2>1, <2>2
<1>6. CASE LoadGreengrass
  BY <1>6, LoadType, FailType DEF LoadGreengrass, Files
<1>7. CASE StartMonitor
  BY <1>7 DEF StartMonitor, TypeInv, TypeOK, MonitorState, disk
<1>8. CASE NextPass
  BY <1>8 DEF NextPass, TypeInv, TypeOK, MonitorState, disk
<1>9. ASSUME NEW f \in Files, Visit(f) PROVE TypeInv'
  BY <1>9, VisitType
<1>10. CASE Interrupted
  BY <1>10 DEF Interrupted, Started, TypeInv, TypeOK, MonitorState, disk
<1>11. CASE ServiceRestart
  BY <1>11 DEF ServiceRestart, Started, TypeInv, TypeOK, MonitorState, disk, watch
<1>12. CASE UNCHANGED vars
  BY <1>12 DEF vars, disk, process, watch, TypeInv, TypeOK, MonitorState
<1> QED
  BY <1>1, <1>2, <1>3, <1>4, <1>5, <1>6, <1>7, <1>8, <1>9, <1>10, <1>11, <1>12
     DEF Next, World, Loading, Pass

\* Types of the files, of the process and of what its monitor has recorded
\* (config_file_monitor.py), for every restart policy.
THEOREM TypeCorrect == Spec => []TypeOK
<1>1. TypeInv => TypeOK
  BY DEF TypeInv
<1> QED
  BY <1>1, TypeInit, TypeStep, PTL DEF Spec

----------------------------------------------------------------------------
(* Killed for a reason: as long as a file is the one that was loaded, the  *)
(* times recorded of it are its times, and no edit repeats a version.      *)

BaselineInv ==
    /\ \A f \in Files : loaded[f] <= edits /\ file[f].version <= edits
    /\ \A f \in DOMAIN known : file[f].version = loaded[f] => known[f] = Stat(f)
    /\ KilledForAReason

LEMMA SameTimes == ASSUME TypeInv, NEW f \in Files PROVE ~FileChanged(Stat(f), Stat(f))
BY DEF TypeInv, TypeOK, FileChanged, Stat, Times

\* An edit gives the file a version that nothing has loaded.
LEMMA EditBaseline ==
    ASSUME TypeInv, BaselineInv, NEW f \in Files, NEW new, Edit(f, new), new.version = edits + 1
    PROVE  BaselineInv'
<1>1. /\ file'[f] = new /\ \A g \in Files \ {f} : file'[g] = file[g]
      /\ edits' = edits + 1 /\ UNCHANGED <<loaded, monitored, known, sigint>>
  BY DEF Edit, TypeInv, TypeOK, process, watch
<1>2. edits \in Nat /\ \A g \in Files : loaded[g] \in Int /\ file[g].version \in Int
  BY DEF TypeInv, TypeOK
<1>3. file'[f].version # loaded'[f]
  BY <1>1, <1>2 DEF BaselineInv
<1>4. \A g \in Files : loaded'[g] <= edits' /\ file'[g].version <= edits'
  BY <1>1, <1>2 DEF BaselineInv
<1>5. DOMAIN known \subseteq Files /\ monitored \subseteq Files
  BY DEF TypeInv, TypeOK
<1>6. \A g \in DOMAIN known' : file'[g].version = loaded'[g] => known'[g] = Stat(g)'
  BY <1>1, <1>3, <1>5 DEF BaselineInv, Stat
<1>7. KilledForAReason'
  <2> SUFFICES ASSUME sigint PROVE \E g \in monitored : file'[g].version # loaded[g]
    BY <1>1 DEF KilledForAReason
  <2>1. PICK g \in monitored : file[g].version # loaded[g]
    BY DEF BaselineInv, KilledForAReason
  <2> QED
    BY <1>1, <1>3, <1>5, <2>1
<1> QED
  BY <1>4, <1>6, <1>7 DEF BaselineInv

\* A process that has recorded nothing and is not to be killed has nothing to show.
LEMMA QuietBaseline ==
    ASSUME TypeInv, BaselineInv, DOMAIN known' = {}, ~sigint', UNCHANGED <<file, edits>>,
           \A f \in Files : loaded'[f] \in {loaded[f], file[f].version, -1}
    PROVE  BaselineInv'
<1>1. edits \in Nat /\ \A g \in Files : loaded[g] \in Int /\ file[g].version \in Int
  BY DEF TypeInv, TypeOK
<1> QED
  BY <1>1 DEF BaselineInv, KilledForAReason

LEMMA VisitBaseline ==
    ASSUME TypeInv, BaselineInv, NEW f \in Files, Visit(f)
    PROVE  BaselineInv'
<1>1. UNCHANGED <<file, edits, loaded, monitored>> /\ f \in monitored
  BY DEF Visit, TypeInv, TypeOK, disk
<1>2. CASE UNCHANGED <<known, sigint>>
  BY <1>1, <1>2 DEF BaselineInv, KilledForAReason, Stat
<1>3. CASE /\ known' = [g \in DOMAIN known \cup {f} |-> IF g = f THEN Stat(f) ELSE known[g]]
           /\ UNCHANGED sigint
  BY <1>1, <1>3 DEF BaselineInv, KilledForAReason, Stat
<1>4. CASE /\ f \in DOMAIN known /\ UNCHANGED known
           /\ sigint' = (sigint \/ FileChanged(known[f], Stat(f)))
  <2>1. FileChanged(known[f], Stat(f)) => file[f].version # loaded[f]
    BY <1>4, SameTimes DEF BaselineInv
  <2> QED
    BY <1>1, <1>4, <2>1 DEF BaselineInv, KilledForAReason, Stat
<1> QED
  BY <1>2, <1>3, <1>4 DEF Visit

LEMMA BaselineStep == TypeInv /\ BaselineInv /\ [Next]_vars => BaselineInv'
<1> SUFFICES ASSUME TypeInv, BaselineInv, [Next]_vars PROVE BaselineInv'
  OBVIOUS
<1>q. main # "serving" => DOMAIN known = {} /\ ~sigint
  BY DEF TypeInv, MonitorState
<1>1. ASSUME UNCHANGED <<file, edits, loaded, monitored, known, sigint>> PROVE BaselineInv'
  BY <1>1 DEF BaselineInv, KilledForAReason, Stat
<1>2. CASE World
  <2>1. CASE Tick \/ SetBack
    BY <1>1, <2>1 DEF Tick, SetBack, process, watch
  <2>2. ASSUME NEW f \in Editable, Write(f) PROVE BaselineInv'
    BY <2>2, EditBaseline DEF Write
  <2>3. ASSUME NEW f \in Editable, Delete(f) PROVE BaselineInv'
    <3>1. [file[f] EXCEPT !.there = FALSE, !.version = edits + 1].version = edits + 1
      BY DEF TypeInv, TypeOK
    <3> QED
      BY <2>3, <3>1, EditBaseline DEF Delete
  <2> QED
    BY <1>2, <2>1, <2>2, <2>3 DEF World
<1>3. ASSUME NEW f \in Files, NEW next, Load(f, next), main # "serving" PROVE BaselineInv'
  <2>1. \A g \in Files : loaded'[g] \in {loaded[g], file[g].version, -1}
    BY <1>3 DEF Load, TypeInv, TypeOK
  <2> QED
    BY <1>q, <1>3, <2>1, QuietBaseline DEF Load, disk, watch
<1>4. CASE Loading
  BY <1>1, <1>3, <1>4
     DEF Loading, LoadProfile, LoadEcuInfo, LoadGreengrass, StartMonitor, Fail, Files, disk, watch
<1>5. CASE NextPass
  BY <1>1, <1>5 DEF NextPass, disk
<1>6. ASSUME NEW f \in Files, Visit(f) PROVE BaselineInv'
  BY <1>6, VisitBaseline
<1>7. CASE Interrupted
  BY <1>7, QuietBaseline DEF Interrupted, Started, disk
<1>8. CASE ServiceRestart
  BY <1>q, <1>8, QuietBaseline DEF ServiceRestart, Started, disk, watch
<1>9. CASE UNCHANGED vars
  BY <1>1, <1>9 DEF vars, disk, process, watch
<1> QED
  BY <1>2, <1>4, <1>5, <1>6, <1>7, <1>8, <1>9 DEF Next, Pass

\* The monitor never kills a server whose files are all as it loaded them, however
\* often they are deleted, put back or written again, and whatever the clock does.
THEOREM KilledCorrect == Spec => []KilledForAReason
<1>1. Init => BaselineInv
  BY DEF Init, Started, BaselineInv, KilledForAReason
<1>2. BaselineInv => KilledForAReason
  BY DEF BaselineInv
<1> QED
  BY <1>1, <1>2, TypeInit, TypeStep, BaselineStep, PTL DEF Spec
============================================================================
