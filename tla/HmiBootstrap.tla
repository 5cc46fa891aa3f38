---------------------------- MODULE HmiBootstrap ----------------------------
(***************************************************************************)
(* How the HMI gets its project and its Modbus driver: the play of         *)
(* roles/fuel_hmi and the script it ends with, fuxa_bootstrap.py, which    *)
(* drives the web server of the FUXA container one call at a time.         *)
(*                                                                         *)
(* FUXA is not part of the repository and is taken as the role takes it:   *)
(* the project and the settings are kept outside the container, the driver *)
(* is a package in the container's writable layer, and the server loads    *)
(* drivers when its process starts, and only then.                         *)
(***************************************************************************)
EXTENDS Naturals

CONSTANTS
    Projects,     \* contents of the rendered fuel_farm.json
    Recognised,   \* those with the device and the views the script looks for
    Demo,         \* the project of an image that has none of ours
    MaxEdits,     \* bound on edits of the role
    MaxFaults     \* bound on failed calls and container losses

ASSUME HmiAssumption ==
    /\ Recognised \subseteq Projects
    /\ Demo \notin Projects
    /\ {MaxEdits, MaxFaults} \subseteq Nat

VARIABLES
    role,        \* the project that the role would render
    file,        \* the project file on the target
    container,   \* "gone", or present and restarted by docker
    driver,      \* the package modbus-serial in the container
    loaded,      \* the running server found the driver when it started
    project,     \* what FUXA serves
    broadcast,   \* its setting broadcastAll
    step,        \* the task or call that comes next
    result,      \* how the last play ended
    edits, faults,
    cut,         \* history: a play died over an install, no restart since
    warned,      \* history: the setting was refused and the script went on
    lost         \* history: an upload was accepted and not kept

fuxa == <<container, driver, loaded, project, broadcast>>
history == <<cut, warned, lost>>
vars == <<role, file, fuxa, step, result, edits, faults, history>>

Init ==
    /\ role \in Projects /\ file = Demo
    /\ container = "gone" /\ driver = "absent" /\ loaded = FALSE
    /\ project = Demo /\ broadcast = FALSE
    /\ step = "idle" /\ result = "none"
    /\ edits = 0 /\ faults = 0
    /\ cut = FALSE /\ warned = FALSE /\ lost = FALSE

-----------------------------------------------------------------------------
(* The tasks of the play *)

EditRole ==
    /\ edits < MaxEdits
    /\ edits' = edits + 1
    /\ role' \in Projects \ {role}
    /\ UNCHANGED <<file, fuxa, step, result, faults, history>>

Do(now, then) == step = now /\ step' = then

InPlay == UNCHANGED <<role, file, result, edits, faults>>

\* The project is rendered anew by every play.
RunPlay ==
    /\ Do("idle", "container")
    /\ file' = role
    /\ result' = "none"
    /\ UNCHANGED <<role, fuxa, edits, faults, history>>

\* docker_container: a container is left alone when it is there.
RunContainer ==
    /\ Do("container", "check")
    /\ container' = "there"
    /\ driver' = IF container = "gone" THEN "absent" ELSE driver
    /\ loaded' = (container = "there" /\ loaded)
    /\ cut' = (cut /\ container = "there")
    /\ InPlay /\ UNCHANGED <<project, broadcast, warned, lost>>

\* test -d: a directory is enough.
DriverFound == driver # "absent"

CheckDriver ==
    /\ Do("check", IF DriverFound THEN "fetch" ELSE "install")
    /\ InPlay /\ UNCHANGED <<fuxa, history>>

InstallDriver ==
    /\ Do("install", "restart")
    /\ driver' = "installed"
    /\ InPlay /\ UNCHANGED <<container, loaded, project, broadcast, history>>

ProcessStarts ==
    /\ loaded' = (driver = "installed")
    /\ cut' = (cut /\ driver # "installed")

\* Mutant: the driver is not loaded by a restart.
NoRestart ==
    /\ Do("restart", "fetch")
    /\ InPlay /\ UNCHANGED <<fuxa, history>>

Restart ==
    /\ Do("restart", "fetch")
    /\ ProcessStarts
    /\ InPlay /\ UNCHANGED <<container, driver, project, broadcast, warned, lost>>

-----------------------------------------------------------------------------
(* The script *)

\* wait_for and the first GET of the project, signing in when it must.
Fetch ==
    /\ Do("fetch", "settings")
    /\ InPlay /\ UNCHANGED <<fuxa, history>>

\* A setting that is there is left alone.
ReadSettings ==
    /\ Do("settings", IF broadcast THEN "post" ELSE "broadcast")
    /\ InPlay /\ UNCHANGED <<fuxa, history>>

SetBroadcast ==
    /\ Do("broadcast", "post")
    /\ broadcast' = TRUE
    /\ warned' = FALSE
    /\ InPlay /\ UNCHANGED <<container, driver, loaded, project, cut, lost>>

Matches(p) == p \in Recognised

\* Mutant: without --force a project that looks right is left alone.
PostUnlessMatches ==
    /\ Do("post", "verify")
    /\ project' = IF Matches(project) THEN project ELSE file
    /\ lost' = FALSE
    /\ InPlay /\ UNCHANGED <<container, driver, loaded, broadcast, cut, warned>>

\* --force: the project is uploaded whatever FUXA has.
Post ==
    /\ Do("post", "verify")
    /\ project' = file
    /\ lost' = FALSE
    /\ InPlay /\ UNCHANGED <<container, driver, loaded, broadcast, cut, warned>>

End(how) ==
    /\ step' = "idle"
    /\ result' = how
    /\ UNCHANGED <<role, file, edits>>

Verify ==
    /\ step = "verify"
    /\ End(IF Matches(project) THEN "ok" ELSE "failed")
    /\ UNCHANGED <<fuxa, faults, history>>

Play ==
    \/ RunContainer \/ CheckDriver \/ InstallDriver \/ Restart
    \/ Fetch \/ ReadSettings \/ SetBroadcast \/ Post \/ Verify

-----------------------------------------------------------------------------
(* Failures *)

Fault == faults < MaxFaults /\ faults' = faults + 1

\* A task or a call fails, or the play is interrupted.  An install may be
\* cut at any point, and one whose play is gone may also have ended.
PlayFails ==
    /\ step # "idle"
    /\ Fault
    /\ End("failed")
    /\ driver' \in IF step = "install" THEN {"absent", "partial", "installed"} ELSE {driver}
    /\ cut' = (cut \/ step = "restart" \/ driver' # driver)
    /\ UNCHANGED <<container, loaded, project, broadcast, warned, lost>>

\* The check of the driver may fail (failed_when: false) and is then taken
\* for a driver that is not there: it is installed again.
CheckFails ==
    /\ DriverFound
    /\ Do("check", "install")
    /\ Fault
    /\ UNCHANGED <<role, file, result, edits, fuxa, history>>

\* A refused setting is a warning; nothing is read back.
BroadcastRefused ==
    /\ Do("broadcast", "post")
    /\ Fault
    /\ warned' = TRUE
    /\ UNCHANGED <<role, file, result, edits, fuxa, cut, lost>>

\* "FUXA may not have persisted."
UploadLost ==
    /\ Do("post", "verify")
    /\ Fault
    /\ lost' = TRUE
    /\ UNCHANGED <<role, file, result, edits, fuxa, cut, warned>>

\* unless-stopped: a crash or a reboot starts the server anew.
ContainerRestarts ==
    /\ container = "there"
    /\ Fault
    /\ ProcessStarts
    /\ UNCHANGED <<role, file, result, edits, step, container, driver, project, broadcast,
                   warned, lost>>

\* Removed, with its writable layer, to be created anew; between plays.
ContainerRemoved ==
    /\ container = "there" /\ step = "idle"
    /\ Fault
    /\ container' = "gone" /\ driver' = "absent" /\ loaded' = FALSE /\ cut' = FALSE
    /\ UNCHANGED <<role, file, result, edits, step, project, broadcast, warned, lost>>

Next ==
    \/ EditRole
    \/ RunPlay
    \/ Play
    \/ PlayFails
    \/ CheckFails
    \/ BroadcastRefused
    \/ UploadLost
    \/ ContainerRestarts
    \/ ContainerRemoved

Spec == Init /\ [][Next]_vars

\* Every wait of a play has a deadline, and plays are run again.
FairSpec == Spec /\ WF_vars(RunPlay) /\ WF_vars(Play)

-----------------------------------------------------------------------------
(* Properties *)

TypeOK ==
    /\ role \in Projects /\ {file, project} \subseteq Projects \cup {Demo}
    /\ container \in {"gone", "there"} /\ driver \in {"absent", "partial", "installed"}
    /\ {loaded, broadcast, cut, warned, lost} \subseteq BOOLEAN
    /\ step \in {"idle", "container", "check", "install", "restart", "fetch", "settings",
                 "broadcast", "post", "verify"}
    /\ result \in {"none", "ok", "failed"}
    /\ edits \in 0..MaxEdits /\ faults \in 0..MaxFaults

\* After a play that ended well FUXA serves the file of that play, whatever
\* it served before and however many plays died in between: the check at the
\* end cannot tell two of our projects apart, the forced upload makes it so
\* (fuxa_bootstrap.py 102-126, 221-237, main.yml 132-136).  The exception is
\* an upload that FUXA accepted and did not keep over an older project of
\* the role, which that check takes for the new one.
ProjectIsServed == result = "ok" /\ ~lost => project = file

\* It also connects to the PLC and shows values, but in two cases: a play
\* that died over the installation of the driver is not made up for by the
\* next, which finds the directory and restarts nothing; and a refused
\* setting is a warning only (main.yml 78-110, fuxa_bootstrap.py 171-177).
ValuesAreShown ==
    result = "ok" /\ container = "there" =>
        /\ ~cut => loaded
        /\ ~warned => broadcast

\* When faults and edits are over, plays lead to an HMI with the project of
\* the role, its driver and its setting, unless an installation was cut off
\* or the role's project is not recognised.
HmiComesBack ==
    <>[](cut \/ role \notin Recognised)
        \/ <>[](container = "there" /\ loaded /\ broadcast /\ project = role)
=============================================================================
