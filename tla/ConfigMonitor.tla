--------------------------- MODULE ConfigMonitor ---------------------------
(***************************************************************************)
(* Configuration files, the process that loads them, the thread that       *)
(* watches them, and the service manager that starts the process again     *)
(* (config_file_monitor.py, with the loading in configs.py, ecu_info.py    *)
(* and greengrass_config.py, and the start-up order of __main__.py).       *)
(*                                                                         *)
(* EXIT_ON_CONFIG_FILE_CHANGED is enabled.  A clock counts whole seconds:  *)
(* the monitor truncates the times of a file to them.                      *)
(***************************************************************************)
EXTENDS Integers

CONSTANTS
    Editable,       \* the files that somebody edits; the others stay as they are
    RestartPolicy,  \* Restart= of the systemd unit
    MaxEdits,       \* bound of the model: edits
    MaxTime         \* bound of the model: seconds

Files == {"profile", "ecu_info", "greengrass_v1", "greengrass_v2"}

ASSUME EditableAssumption == Editable \subseteq Files
ASSUME PolicyAssumption   == RestartPolicy \in {"no", "on-failure", "always"}
ASSUME BoundsAssumption   == MaxEdits \in Nat /\ MaxTime \in Nat

VARIABLES
    file,       \* the file system: what each file is, and when it was written
    now,        \* the clock, in seconds
    edits,      \* history: the number of edits; the last one is a file's version
    main,       \* the main thread: the file it loads next, "serving" or "stopped"
    exit,       \* how the last process ended: "none", "error" or "SIGINT"
    loaded,     \* the version the process has read of each file; -1 for none
    monitored,  \* monitored_config_files
    known,      \* _monitored_files_stat: the times first seen of the files in its domain
    todo,       \* the files the pass under way has not looked at yet
    monitor,    \* the monitor thread: "off" or "on"
    sigint      \* a SIGINT has been sent to the process

disk    == <<file, now, edits>>
watch   == <<known, todo, monitor, sigint>>
process == <<main, loaded, monitored, watch>>
vars    == <<disk, process, exit>>

Times == 0 .. MaxTime

\* A file that is there and whose content the parser accepts.
Valid(f) == file[f].there /\ file[f].good

\* The process that the service manager starts: nothing read, nothing watched.
Started ==
    [main |-> "profile", loaded |-> [f \in Files |-> -1], monitored |-> {},
     known |-> [f \in {} |-> [mtime |-> 0, ctime |-> 0]], todo |-> {}]

Init ==
    /\ file = [f \in Files |->
                 [there |-> TRUE, good |-> TRUE, version |-> 0, mtime |-> 0, ctime |-> 0]]
    /\ now = 0 /\ edits = 0 /\ exit = "none"
    /\ main = Started.main /\ loaded = Started.loaded /\ monitored = Started.monitored
    /\ known = Started.known /\ todo = Started.todo /\ monitor = "off" /\ sigint = FALSE

----------------------------------------------------------------------------
(* The world.                                                              *)

Tick == now < MaxTime /\ now' = now + 1 /\ UNCHANGED <<file, edits, process, exit>>

\* The clock of the vehicle is set back; what was written before it keeps its times.
SetBack == now' \in 0 .. now - 1 /\ UNCHANGED <<file, edits, process, exit>>

Edit(f, new) ==
    /\ edits < MaxEdits
    /\ edits' = edits + 1
    /\ file' = [file EXCEPT ![f] = new]
    /\ UNCHANGED <<now, process, exit>>

\* A file is written, or replaced by one written earlier (its ctime is always the
\* time of the change); what is written may be refused by the parser.
Write(f) ==
    \E good \in BOOLEAN, mtime \in 0 .. now :
        Edit(f, [there |-> TRUE, good |-> good, version |-> edits + 1,
                 mtime |-> mtime, ctime |-> now])

Delete(f) == file[f].there /\ Edit(f, [file[f] EXCEPT !.there = FALSE, !.version = edits + 1])

----------------------------------------------------------------------------
(* The main thread: modules are imported, then main() parses the Greengrass *)
(* configuration and starts the monitor and the servers.                    *)

Load(f, next) ==
    /\ loaded' = [loaded EXCEPT ![f] = file[f].version]
    /\ monitored' = monitored \cup {f}
    /\ main' = next
    /\ UNCHANGED <<disk, watch, exit>>

\* An exception that nothing catches ends the process with exit code 1.
Fail ==
    /\ main' = "stopped" /\ exit' = "error"
    /\ UNCHANGED <<disk, loaded, monitored, watch>>

LoadProfile ==
    /\ main = "profile"
    /\ IF Valid("profile") THEN Load("profile", "ecu_info") ELSE Fail

\* Without a valid ecu_info.yaml the server starts all the same, and never
\* watches for one.
LoadEcuInfo ==
    /\ main = "ecu_info"
    /\ IF Valid("ecu_info")
       THEN Load("ecu_info", "greengrass")
       ELSE main' = "greengrass" /\ UNCHANGED <<disk, loaded, monitored, watch, exit>>

\* The v2 file is used when there is one, and only the file in use is watched.
LoadGreengrass ==
    /\ main = "greengrass"
    /\ LET used == IF file["greengrass_v2"].there THEN "greengrass_v2" ELSE "greengrass_v1"
       IN  IF Valid(used) THEN Load(used, "starting") ELSE Fail

\* Mutant: every configurable path is watched, in use or not.
StartMonitorOnAll ==
    /\ main = "starting"
    /\ main' = "serving" /\ monitor' = "on" /\ todo' = Files
    /\ UNCHANGED <<disk, loaded, monitored, known, sigint, exit>>

StartMonitor ==
    /\ main = "starting"
    /\ main' = "serving" /\ monitor' = "on" /\ todo' = monitored
    /\ UNCHANGED <<disk, loaded, monitored, known, sigint, exit>>

----------------------------------------------------------------------------
(* The monitor thread: passes over the monitored files, for ever.          *)

Stat(f) == [mtime |-> file[f].mtime, ctime |-> file[f].ctime]

\* Mutants: the creation time is not looked at; a file that is as old as before
\* counts as changed.
FileChangedMtime(old, new)  == old.mtime < new.mtime
FileChangedNotNewer(old, new) == old.ctime <= new.ctime \/ old.mtime < new.mtime

\* _MCTime.file_changed: recreated or modified since.
FileChanged(old, new) == old.ctime < new.ctime \/ old.mtime < new.mtime

\* One entry of a pass: skipped when it cannot be queried, recorded when it is
\* seen for the first time, compared with what was recorded otherwise.
Visit(f) ==
    /\ monitor = "on" /\ f \in todo
    /\ todo' = todo \ {f}
    /\ \/ ~file[f].there /\ UNCHANGED <<known, sigint>>
       \/ /\ file[f].there /\ f \notin DOMAIN known
          /\ known' = [g \in DOMAIN known \cup {f} |-> IF g = f THEN Stat(f) ELSE known[g]]
          /\ UNCHANGED sigint
       \/ /\ file[f].there /\ f \in DOMAIN known
          /\ sigint' = (sigint \/ FileChanged(known[f], Stat(f)))
          /\ UNCHANGED known
    /\ UNCHANGED <<disk, main, loaded, monitored, monitor, exit>>

\* The pass is over: sleep _CHECK_INTERVAL seconds, then the next one.
NextPass ==
    /\ monitor = "on" /\ todo = {}
    /\ todo' = monitored
    /\ UNCHANGED <<disk, main, loaded, monitored, known, monitor, sigint, exit>>

----------------------------------------------------------------------------
(* The signal and the service manager.                                     *)

\* KeyboardInterrupt ends the main thread, and the interpreter then ends the
\* process by the signal itself; the monitor thread is a daemon.
Interrupted ==
    /\ sigint
    /\ main' = "stopped" /\ exit' = "SIGINT"
    /\ sigint' = FALSE /\ monitor' = "off" /\ todo' = {} /\ known' = Started.known
    /\ UNCHANGED <<disk, loaded, monitored>>

\* systemd takes a death by SIGINT for a clean exit.
RestartsAfter(how) ==
    RestartPolicy = "always" \/ (RestartPolicy = "on-failure" /\ how = "error")

ServiceRestart ==
    /\ main = "stopped" /\ RestartsAfter(exit)
    /\ main' = Started.main /\ loaded' = Started.loaded /\ monitored' = Started.monitored
    /\ UNCHANGED <<disk, watch, exit>>

----------------------------------------------------------------------------
World   == Tick \/ SetBack \/ (\E f \in Editable : Write(f) \/ Delete(f))
Loading == LoadProfile \/ LoadEcuInfo \/ LoadGreengrass \/ StartMonitor
Pass    == NextPass \/ \E f \in Files : Visit(f)

Next == World \/ Loading \/ Pass \/ Interrupted \/ ServiceRestart

Spec == Init /\ [][Next]_vars

\* Both threads are scheduled, the signal arrives, and the service manager does
\* what its policy says.
FairSpec == /\ Spec
            /\ WF_vars(Loading) /\ WF_vars(Pass) /\ WF_vars(Interrupted)
            /\ WF_vars(ServiceRestart)

----------------------------------------------------------------------------
(* Properties.                                                             *)

\* Type invariant.
TypeOK ==
    /\ file \in [Files -> [there : BOOLEAN, good : BOOLEAN, version : 0 .. MaxEdits,
                           mtime : Times, ctime : Times]]
    /\ now \in Times /\ edits \in 0 .. MaxEdits
    /\ main \in {"profile", "ecu_info", "greengrass", "starting", "serving", "stopped"}
    /\ exit \in {"none", "error", "SIGINT"}
    /\ loaded \in [Files -> -1 .. MaxEdits]
    /\ monitored \subseteq Files /\ todo \subseteq monitored
    /\ DOMAIN known \subseteq monitored
    /\ \A f \in DOMAIN known : known[f] \in [mtime : Times, ctime : Times]
    /\ monitor \in {"on", "off"} /\ sigint \in BOOLEAN

\* The process is only killed when a file it uses is no longer what it loaded.
KilledForAReason == sigint => \E f \in monitored : file[f].version # loaded[f]

\* A file in use that was written in a later second than the one recorded.
Noticeable(f) ==
    /\ main = "serving" /\ f \in DOMAIN known
    /\ file[f].there /\ known[f].ctime < file[f].ctime

SomeInvalid == \E f \in Files : ~Valid(f)

\* Written once more while the server goes on, in a second that is no later than the one
\* recorded: the clock was set back in between.
Hidden(f, v) == main = "serving" /\ file[f].version > v /\ ~Noticeable(f)

\* When a file in use is written in a later second, the server ends up serving with
\* that content or a later one, unless somebody leaves a file unusable or hides the
\* change with another one, before it is seen, under a clock that was set back.
ChangeIsServed ==
    \A f \in Files, v \in 1 .. MaxEdits :
        (Noticeable(f) /\ file[f].version = v) ~>
            ((main = "serving" /\ loaded[f] >= v) \/ SomeInvalid \/ Hidden(f, v))

\* "Kill the server when any config files changed" (configs.py:57), for a file that
\* is changed after the process has loaded it and before the first pass.
ChangeBeforeFirstPassKills ==
    \A f \in Files :
        (f \in monitored \ DOMAIN known /\ file[f].version > loaded[f] /\ Valid(f)) ~>
            (main = "stopped" \/ ~Valid(f))

\* "kill the server if any of the files are changed" (config_file_monitor.py:16):
\* whenever a recorded file is written, the next look at it finds it changed.
EveryWriteIsSeen ==
    [][\A f \in DOMAIN known :
         file[f].version # file'[f].version /\ file'[f].there => FileChanged(known[f], Stat(f)')]_vars
============================================================================
