----------------------------- MODULE PlcBootstrap -----------------------------
(***************************************************************************)
(* How the PLC gets its program and its field bus: the play of             *)
(* roles/fuel_plc and the script it ends with, openplc_bootstrap.py, which *)
(* drives the web server of the OpenPLC container one call at a time.      *)
(*                                                                         *)
(* The web server is not part of the repository.  It is taken as the       *)
(* script takes it: starting a stopped runtime loads the last program that *)
(* compiled and the slave device as then configured, starting a running    *)
(* one changes nothing, a device name is accepted once, and asking for a   *)
(* compilation clears the log and replaces a compilation in progress.      *)
(***************************************************************************)
EXTENDS Naturals

CONSTANTS
    Programs,     \* contents of fuel_farm.st
    Broken,       \* those that do not compile
    Image,        \* the program that a fresh container holds
    Devices,      \* settings of the slave device fuel-farm-sim
    NoDevice,
    Stopped,
    MaxEdits,     \* bound on edits of the role
    MaxFaults     \* bound on failed calls and container restarts

ASSUME BootstrapAssumption ==
    /\ Broken \subseteq Programs
    /\ Image \notin Programs
    /\ NoDevice \notin Devices
    /\ Stopped \notin [program : Programs \cup {Image}, device : Devices \cup {NoDevice}]
    /\ {MaxEdits, MaxFaults} \subseteq Nat

VARIABLES
    role,        \* what the role says: the .st file and the device flags
    given,       \* what the last play put on the target: file and flags
    runtime,     \* Stopped, or the program and device that are running
    built,       \* the last program that compiled
    named,       \* the dashboard shows our program name
    uploaded,    \* content behind the current prog_file
    compiling,   \* program being compiled, or Image when none is
    log,         \* sentinel in /compilation-logs
    row,         \* row of the device in openplc.db
    step,        \* the call that the script makes next
    force,       \* --force-program
    result,      \* how the last play ended
    edits, faults,
    missed,      \* the runtime went on when a new program was to come: a forced
                 \* play died before /stop_plc, or /stop_plc was refused
    uncycled,    \* the runtime went on after a change of the row: a play died
                 \* before the restart, or its /stop_plc was refused
    blind        \* in this play a query or the DELETE of the row failed unseen

server == <<runtime, built, named, uploaded, compiling, log, row>>
history == <<missed, uncycled, blind>>
vars == <<role, given, server, step, force, result, edits, faults, history>>

Runtimes == [program : Programs \cup {Image}, device : Devices \cup {NoDevice}]
Roles == [st : Programs, device : Devices]

FreshServer ==
    /\ runtime' = Stopped
    /\ built' = Image
    /\ named' = "other"
    /\ uploaded' = Image
    /\ compiling' = Image
    /\ log' = "empty"
    /\ row' = NoDevice

Init ==
    /\ role \in Roles
    /\ given = [st |-> Image, device |-> NoDevice]
    /\ runtime = Stopped /\ built = Image /\ named = "other"
    /\ uploaded = Image /\ compiling = Image /\ log = "empty"
    /\ row = NoDevice
    /\ step = "idle" /\ force = FALSE /\ result = "none"
    /\ edits = 0 /\ faults = 0
    /\ missed = FALSE /\ uncycled = FALSE /\ blind = FALSE

-----------------------------------------------------------------------------
(* The role and the play *)

EditRole ==
    /\ edits < MaxEdits
    /\ role' \in Roles \ {role}
    /\ edits' = edits + 1
    /\ UNCHANGED <<given, server, step, force, result, faults, history>>

\* The copy task decides --force-program; a container is there or is
\* created, and recreated when its definition changed.
RunPlay ==
    /\ step = "idle"
    /\ given' = role
    /\ force' = (given.st # role.st)
    /\ step' = "look"
    /\ result' = "none"
    /\ \/ UNCHANGED <<server, faults>>
       \/ FreshServer /\ faults < MaxFaults /\ faults' = faults + 1
    /\ blind' = FALSE
    /\ UNCHANGED <<role, edits, missed, uncycled>>

-----------------------------------------------------------------------------
(* The script.  Each action is one call to the server. *)

Do(now, then) == step = now /\ step' = then

End(how) ==
    /\ step' = "idle"
    /\ result' = how
    /\ UNCHANGED <<role, given, server, force, edits>>

\* What every call of the script leaves alone.
InCall == UNCHANGED <<role, given, force, result, edits, faults>>

\* Mutant: the dashboard's program name decides alone.
ProgramNamed == named = "ours"

ProgramOK == runtime # Stopped /\ compiling = Image /\ named = "ours"

\* Mutant: --force-program is not looked at.
SkipUnlessDown == ProgramOK

SkipProgram == ProgramOK /\ ~force

LookAtDashboard ==
    /\ step = "look"
    /\ step' = IF SkipProgram THEN "query" ELSE "stop"
    /\ InCall /\ UNCHANGED <<server, history>>

StopForUpload ==
    /\ Do("stop", "upload")
    /\ runtime' = Stopped
    /\ missed' = FALSE
    /\ InCall
    /\ UNCHANGED <<built, named, uploaded, compiling, log, row, uncycled, blind>>

Upload ==
    /\ Do("upload", "register")
    /\ uploaded' = given.st
    /\ InCall
    /\ UNCHANGED <<runtime, built, named, compiling, log, row, history>>

Register ==
    /\ Do("register", "compile")
    /\ named' = "ours"
    /\ InCall
    /\ UNCHANGED <<runtime, built, uploaded, compiling, log, row, history>>

Compile ==
    /\ Do("compile", "await")
    /\ compiling' = uploaded
    /\ log' = "running"
    /\ InCall
    /\ UNCHANGED <<runtime, built, named, uploaded, row, history>>

\* A log that a restart of the container emptied stays empty to the deadline.
AwaitCompile ==
    \/ /\ log = "ok"
       /\ Do("await", "start")
       /\ InCall /\ UNCHANGED <<server, history>>
    \/ /\ log \in {"errors", "empty"}
       /\ step = "await"
       /\ End("failed") /\ UNCHANGED <<faults, history>>

Started == IF runtime = Stopped THEN [program |-> built, device |-> row] ELSE runtime

Start(now, then) ==
    /\ Do(now, then)
    /\ runtime' = Started
    /\ uncycled' = (uncycled /\ runtime # Stopped)
    /\ InCall
    /\ UNCHANGED <<built, named, uploaded, compiling, log, row, missed, blind>>

\* The last poll: /stop_plc and the restart of the container aside, the
\* runtime reports Running at once.
PollProgram ==
    \/ /\ runtime # Stopped
       /\ Do("poll", "query")
       /\ InCall /\ UNCHANGED <<server, history>>
    \/ /\ runtime = Stopped
       /\ step = "poll"
       /\ End("failed") /\ UNCHANGED <<faults, history>>

\* Mutant: sizes of the database, strings, compared with integers.
NeverCurrent == FALSE

DeviceIsCurrent == row = given.device

QueryDevice ==
    /\ step = "query"
    /\ \/ DeviceIsCurrent /\ End("ok")
       \/ /\ ~DeviceIsCurrent
          /\ step' = IF row = NoDevice THEN "add" ELSE "delete"
          /\ UNCHANGED <<role, given, server, force, result, edits>>
    /\ UNCHANGED <<faults, history>>

DeleteRow ==
    /\ Do("delete", "add")
    /\ row' = NoDevice
    /\ InCall
    /\ UNCHANGED <<runtime, built, named, uploaded, compiling, log, history>>

\* A second row of the same name is refused, with an error status or with a
\* page that the script takes for success.
AddDevice ==
    \/ /\ Do("add", "stop2")
       /\ row' = IF row = NoDevice THEN given.device ELSE row
       /\ InCall
       /\ UNCHANGED <<runtime, built, named, uploaded, compiling, log, history>>
    \/ /\ step = "add" /\ row # NoDevice
       /\ End("failed") /\ UNCHANGED <<faults, history>>

\* Mutant: the runtime is left as it is.
NoStopForDevice ==
    /\ Do("stop2", "start2")
    /\ InCall /\ UNCHANGED <<server, history>>

StopForDevice ==
    /\ Do("stop2", "start2")
    /\ runtime' = Stopped
    /\ InCall
    /\ UNCHANGED <<built, named, uploaded, compiling, log, row, history>>

PollDevice ==
    /\ step = "poll2"
    /\ End(IF runtime # Stopped THEN "ok" ELSE "failed")
    /\ UNCHANGED <<faults, history>>

ProgramStep ==
    \/ LookAtDashboard
    \/ StopForUpload \/ Upload \/ Register \/ Compile \/ AwaitCompile
    \/ Start("start", "poll") \/ PollProgram

DeviceStep ==
    \/ QueryDevice \/ DeleteRow \/ AddDevice
    \/ StopForDevice \/ Start("start2", "poll2") \/ PollDevice

-----------------------------------------------------------------------------
(* Failures *)

Fault == faults < MaxFaults /\ faults' = faults + 1

\* An exception or an exit: no answer, an error status, a deadline.
CallFails ==
    /\ step # "idle"
    /\ Fault
    /\ End("failed")
    /\ missed' = (missed \/ (force /\ step \in {"look", "stop"}))
    /\ uncycled' = (uncycled \/ step \in {"add", "stop2"})
    /\ UNCHANGED blind

\* Results that the script does not look at: the answers to /stop_plc and to
\* the second /start_plc, the exit status of the DELETE, a query that fails
\* as if there were no row.
CallFailsUnnoticed ==
    /\ Fault
    /\ \/ /\ Do("stop", "upload") \/ Do("stop2", "start2") \/ Do("start2", "poll2")
          /\ UNCHANGED blind
       \/ /\ \/ Do("delete", "add")
             \/ row # NoDevice /\ (Do("query", "add") \/ Do("query", "delete"))
          /\ blind' = TRUE
    /\ missed' = (missed \/ (step = "stop" /\ runtime # Stopped))
    /\ uncycled' = (uncycled \/ (step = "stop2" /\ runtime # Stopped))
    /\ UNCHANGED <<role, given, server, force, result, edits>>

CompilerEnds ==
    /\ compiling # Image
    /\ log' = IF compiling \in Broken THEN "errors" ELSE "ok"
    /\ built' = IF compiling \in Broken THEN built ELSE compiling
    /\ compiling' = Image
    /\ UNCHANGED <<role, given, runtime, named, uploaded, row, step, force, result,
                   edits, faults, history>>

\* restart_policy: the container comes back with its files and a stopped
\* runtime.
ContainerRestarts ==
    /\ Fault
    /\ runtime' = Stopped
    /\ compiling' = Image
    /\ log' = "empty"
    /\ UNCHANGED <<role, given, built, named, uploaded, row, step, force, result,
                   edits, history>>

Next ==
    \/ EditRole
    \/ RunPlay
    \/ ProgramStep
    \/ DeviceStep
    \/ CallFails
    \/ CallFailsUnnoticed
    \/ CompilerEnds
    \/ ContainerRestarts

Spec == Init /\ [][Next]_vars

\* The script never waits without a deadline, the compiler ends, and the
\* play is run again.
FairSpec ==
    /\ Spec
    /\ WF_vars(RunPlay)
    /\ WF_vars(ProgramStep \/ DeviceStep)
    /\ WF_vars(CompilerEnds)

-----------------------------------------------------------------------------
(* Properties *)

TypeOK ==
    /\ role \in Roles
    /\ given \in Roles \cup {[st |-> Image, device |-> NoDevice]}
    /\ runtime \in Runtimes \cup {Stopped}
    /\ {built, uploaded, compiling} \subseteq Programs \cup {Image}
    /\ named \in {"ours", "other"}
    /\ log \in {"empty", "running", "ok", "errors"}
    /\ row \in Devices \cup {NoDevice}
    /\ step \in {"idle", "look", "stop", "upload", "register", "compile", "await", "start",
                 "poll", "query", "delete", "add", "stop2", "start2", "poll2"}
    /\ result \in {"none", "ok", "failed"}
    /\ {force, missed, uncycled, blind} \subseteq BOOLEAN
    /\ edits \in 0..MaxEdits /\ faults \in 0..MaxFaults

Succeeded == result = "ok" /\ runtime # Stopped

\* What a play that ended well promises of a PLC that is running: the file
\* on disk is the program (main.yml 95-100) ...
ProgramDeployed == Succeeded => runtime.program = given.st

\* ... and the simulator is polled as the flags say (openplc_bootstrap.py
\* 526-565).
DevicePolled == Succeeded => runtime.device = given.device

\* After a play that ended well the PLC runs the program that is on disk,
\* through every crash of script, compiler and container and every call that
\* failed unseen, but for two cases, until a later play stops the runtime: a
\* forced play died before /stop_plc, which the next one, unforced, does not
\* make up for (openplc_bootstrap.py 497-523, main.yml 111-116); or /stop_plc
\* was refused, which the script does not look at (211), so that /start_plc
\* found the old program running.
ProgramDeployedUnlessMissed == ~missed => ProgramDeployed

\* It also polls the simulator as the role's flags say, but for three cases.
\* Until the next start of a stopped runtime: a play died between changing
\* the row and restarting the runtime, and the next one finds the row and
\* leaves the runtime alone (openplc_bootstrap.py 531-565); or the /stop_plc
\* of that restart was refused (442).  Until the next play: a query or the
\* DELETE of the row failed unseen (339-376), and the page that refuses a
\* second row passed for success.
DevicePolledUnlessUncycled == ~uncycled /\ ~blind => DevicePolled

\* A runtime is only stopped when there is something to change: a play of
\* an unchanged role over a healthy PLC does not interrupt control.  The
\* exceptions are those of the two properties above: a runtime that went on
\* over an older program or device, and a play that cannot see its row.
StopsOnlyToChange ==
    [][runtime # Stopped /\ runtime' = Stopped =>
          \/ faults' # faults
          \/ missed \/ uncycled \/ blind
          \/ runtime.program # given.st
          \/ runtime.device # given.device]_vars

\* The play repairs the PLC: wherever scripts and containers died, once the
\* faults are over the runtime runs, or the program does not compile.
PlantComesBack ==
    <>[](given.st \in Broken) \/ <>[](runtime # Stopped)
=============================================================================
