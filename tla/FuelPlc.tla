------------------------------- MODULE FuelPlc -------------------------------
(***************************************************************************)
(* The PLC program of the fuel farm, roles/fuel_plc/files/fuel_farm.st,    *)
(* between the simulator that it polls and the Modbus masters that write   *)
(* its coils.                                                              *)
(*                                                                         *)
(* A discrete input is told by what it says against an operation: a fault  *)
(* stands when GROUND_OK or DEADMAN is off and when OVERFILL, T101_LO_LVL  *)
(* or ESD_ACTIVE is on.  The PLC writes nothing to the simulator, whose    *)
(* inputs therefore change as they like.                                   *)
(***************************************************************************)
EXTENDS Naturals, FiniteSets

CONSTANTS
    Racks,
    RackFaults,   \* the inputs of a rack: GROUND_OK, DEADMAN, OVERFILL
    OffMeansFault,\* those whose value 0 is a fault: GROUND_OK, DEADMAN
    Commands,     \* coils that only masters set: pumps and outlet valves
    PollPeriod,   \* the simulator is polled at least that often
    ScanPeriod,   \* the task interval, T#100ms
    MaxBlocked,   \* bound on the time counted since a fault came
    MaxWritten    \* bound on the coils that masters write between two scans

Low == <<"T101", "LO_LVL">>
Esd == <<"ESD", "ACTIVE">>
Faults == (Racks \X RackFaults) \cup {Low, Esd}

Valve(r) == <<r, "LOAD_VLV">>
PermitOut(r) == <<r, "PERMIT_OUT">>
Computed(r) == {Valve(r), PermitOut(r)}
Coils == Commands \cup UNION {Computed(r) : r \in Racks}

ASSUME PlcAssumption ==
    /\ OffMeansFault \subseteq RackFaults /\ OffMeansFault # {}
    /\ "farm" \notin Racks
    /\ \A r \in Racks : Computed(r) \cap Commands = {}
    /\ Low \notin Racks \X RackFaults /\ Esd \notin Racks \X RackFaults
    /\ {PollPeriod, ScanPeriod} \subseteq Nat \ {0}
    /\ {MaxBlocked, MaxWritten} \subseteq Nat /\ MaxBlocked > PollPeriod + ScanPeriod

VARIABLES
    field,      \* faults that stand in the simulator's discrete inputs
    polled,     \* those of the last poll that was answered
    seen,       \* those at IX100, which the program works on
    coils,      \* the coils that are on
    pollAge,    \* time since the last poll
    scanAge,    \* time since the last scan
    written,    \* history: coils written by a master since the last scan
    behind,     \* history: "no", or the state of a poll that went unanswered
    blockedFor  \* history: for how long a rack, or the farm, has been faulty

history == <<written, behind, blockedFor>>
vars == <<field, polled, seen, coils, pollAge, scanAge, history>>

\* What stands against a rack, and against any command.
Against(r) == ({r} \X RackFaults) \cup {Low, Esd}
Clear(x) == IF x \in Racks THEN Against(x) \cap field = {} ELSE Esd \notin field

\* Discrete inputs start as zeros in the simulator and in the PLC.
Zeros == Racks \X OffMeansFault

Init ==
    /\ field = Zeros /\ polled = Zeros /\ seen = Zeros
    /\ coils = {} /\ pollAge = 0 /\ scanAge = 0
    /\ written = {} /\ behind = "no"
    /\ blockedFor = [x \in Racks \cup {"farm"} |-> 0]

-----------------------------------------------------------------------------
(* The scan *)

\* The chain of LR1_PERMIT and LR2_PERMIT.
Permit(r, block) == Against(r) \cap block = {}

\* Mutant: a shutdown does not touch the commands.
OutputsKeepCommands(block) ==
    LET permitted == {r \in Racks : Permit(r, block)}
    IN  {PermitOut(r) : r \in permitted} \cup {Valve(r) : r \in permitted} \cup (coils \cap Commands)

\* Valve and mirror follow the permit; a shutdown clears all but the mirror.
Outputs(block) ==
    LET permitted == {r \in Racks : Permit(r, block)}
        mirrors == {PermitOut(r) : r \in permitted}
    IN  IF Esd \in block
        THEN mirrors
        ELSE mirrors \cup {Valve(r) : r \in permitted} \cup (coils \cap Commands)

ScanDone ==
    /\ scanAge' = 0
    /\ written' = {}
    /\ behind' = IF behind = "answered" THEN "no" ELSE behind
    /\ UNCHANGED <<field, polled, pollAge, blockedFor>>

\* Mutant: the inputs are taken over after the program has run.
ScanOldInputs ==
    /\ seen' = polled
    /\ coils' = Outputs(seen)
    /\ ScanDone

Scan ==
    /\ seen' = polled
    /\ coils' = Outputs(polled)
    /\ ScanDone

-----------------------------------------------------------------------------
(* The poll of the slave device, one request for the whole block *)

PollAnswered ==
    /\ polled' = field
    /\ pollAge' = 0
    /\ behind' = IF behind = "failed" THEN "answered" ELSE behind
    /\ UNCHANGED <<field, seen, coils, scanAge, written, blockedFor>>

\* Without an answer the inputs stay what they were.
PollUnanswered ==
    /\ pollAge' = 0
    /\ behind' = "failed"
    /\ UNCHANGED <<field, polled, seen, coils, scanAge, written, blockedFor>>

-----------------------------------------------------------------------------
(* The outside *)

Toggle(set, x) == (set \ {x}) \cup ({x} \ set)

\* A discrete input of the simulator changes.
InputChanges ==
    \E f \in Faults :
        /\ field' = Toggle(field, f)
        /\ blockedFor' = [x \in DOMAIN blockedFor |-> IF Clear(x)' THEN 0 ELSE blockedFor[x]]
        /\ UNCHANGED <<polled, seen, coils, pollAge, scanAge, written, behind>>

\* A Modbus master writes a coil of the PLC.
MasterWrites ==
    \E c \in Coils :
        /\ coils' = Toggle(coils, c)
        /\ written' = written \cup {c}
        /\ Cardinality(written') <= MaxWritten
        /\ UNCHANGED <<field, polled, seen, pollAge, scanAge, behind, blockedFor>>

Elapse ==
    /\ pollAge < PollPeriod /\ pollAge' = pollAge + 1
    /\ scanAge < ScanPeriod /\ scanAge' = scanAge + 1
    /\ blockedFor' = [x \in DOMAIN blockedFor |->
                         IF Clear(x) \/ blockedFor[x] = MaxBlocked
                         THEN blockedFor[x] ELSE blockedFor[x] + 1]
    /\ UNCHANGED <<field, polled, seen, coils, written, behind>>

Next ==
    \/ Scan
    \/ PollAnswered
    \/ PollUnanswered
    \/ InputChanges
    \/ MasterWrites
    \/ Elapse

Spec == Init /\ [][Next]_vars

-----------------------------------------------------------------------------
(* Properties *)

TypeOK ==
    /\ {field, polled, seen} \subseteq SUBSET Faults
    /\ {coils, written} \subseteq SUBSET Coils
    /\ pollAge \in 0..PollPeriod /\ scanAge \in 0..ScanPeriod
    /\ behind \in {"no", "failed", "answered"}
    /\ blockedFor \in [Racks \cup {"farm"} -> 0..MaxBlocked]

\* Two clocks that know nothing of each other, the poll and the scan, stand
\* between an input and an output.  A valve or permit that is on tells of
\* inputs that were all well no longer ago than a poll and a scan, and so
\* does a command of a farm without a shutdown, unless the simulator does
\* not answer or a master wrote the coil after the scan (fuel_farm.st
\* 107-147).
OutputsAreRecent ==
    behind = "no" =>
        /\ \A r \in Racks :
               (coils \ written) \cap Computed(r) # {} => blockedFor[r] <= PollPeriod + ScanPeriod
        /\ (coils \ written) \cap Commands # {} => blockedFor["farm"] <= PollPeriod + ScanPeriod

\* "PERMIT_OUT=False + ESD_ACTIVE=False means a different interlock fell
\* (deadman released, overfill, T101 low)": the coil and the inputs beside
\* it always belong to one scan (fuel_farm.st 140-146).
BlockIsExplained ==
    \A r \in Racks :
        PermitOut(r) \notin coils \cup written /\ Esd \notin seen =>
            (Against(r) \ {Esd}) \cap seen # {}
=============================================================================
