----------------------------- MODULE FuelPhysics -----------------------------
(***************************************************************************)
(* The process physics of the fuel-farm simulator                          *)
(* (roles/fuel_sim/files/fuelsim/physics.py) together with the Modbus tags *)
(* it reads and writes (modbus.py, group_vars/fuel.yml).                   *)
(*                                                                         *)
(* Volumes are counted in a unit of which UnitsPerGal make a gallon, so    *)
(* that a flow of a fraction of a gallon per tick stays an integer; the    *)
(* rack totalizers count whole gallons, as the code's int() makes them.    *)
(* Rack r is fed by pump P-20r; tank t is T-10t.                           *)
(***************************************************************************)
EXTENDS Integers, FiniteSets, Functions

CONSTANTS
    NRacks,       \* number of loading racks (2 in the deployment)
    NTanks,       \* number of storage tanks (3 in the deployment)
    InitLevel,    \* initial content of each tank, in units
    LoLevel,      \* content at which a tank's low-level switch trips, in units
    LoTagged,     \* the tanks whose low-level switch has a Modbus tag
    FlowPerTick,  \* rack_flow_gpm * dt / 60, in units
    UnitsPerGal,  \* units in a gallon
    MeterMod      \* modulus of a rack totalizer (2^32 in the code)

Racks == 1..NRacks
Tanks == 1..NTanks
NoTank == 0
BadTank == NTanks + 1     \* any register value that names no tank

ASSUME PhysicsAssumption ==
    /\ NRacks \in Nat \ {0}
    /\ NTanks \in Nat \ {0}
    /\ InitLevel \in [Tanks -> Nat]
    /\ LoLevel \in [Tanks -> Nat]
    /\ LoTagged \subseteq Tanks
    /\ FlowPerTick \in Nat \ {0}
    /\ UnitsPerGal \in Nat \ {0}
    /\ MeterMod \in Nat \ {0}

VARIABLES
    \* coils
    runCmd,      \* P20r_RUN_CMD
    loadVlv,     \* LRr_LOAD_VLV
    outVlv,      \* T10t_OUT_VLV
    esdReset,    \* ESD_RESET, momentary
    \* discrete inputs
    ground,      \* LRr_GROUND_OK
    deadman,     \* LRr_DEADMAN
    overfill,    \* LRr_OVERFILL
    esdActive,   \* ESD_ACTIVE
    runSts,      \* P20r_RUN_STS
    loLvl,       \* T10t_LO_LVL of the tagged tanks
    \* holding registers
    srcTank,     \* LRr_SRC_TANK
    \* the Physics object
    esdLatched,  \* Physics.esd_latched
    level,       \* TankState.level_gal
    totalizer,   \* RackState.totalizer_gal
    dispensed    \* RackState.dispensed_this_batch_gal

coils == <<runCmd, loadVlv, outVlv, esdReset>>
fieldInputs == <<ground, deadman, overfill>>
plant == <<esdLatched, level, totalizer, dispensed, runSts, loLvl>>
physVars == <<coils, fieldInputs, esdActive, srcTank, plant>>

PhysTypeOK ==
    /\ runCmd \in [Racks -> BOOLEAN]
    /\ loadVlv \in [Racks -> BOOLEAN]
    /\ outVlv \in [Tanks -> BOOLEAN]
    /\ esdReset \in BOOLEAN
    /\ ground \in [Racks -> BOOLEAN]
    /\ deadman \in [Racks -> BOOLEAN]
    /\ overfill \in [Racks -> BOOLEAN]
    /\ esdActive \in BOOLEAN
    /\ runSts \in [Racks -> BOOLEAN]
    /\ loLvl \in [LoTagged -> BOOLEAN]
    /\ srcTank \in [Racks -> 0..BadTank]
    /\ esdLatched \in BOOLEAN
    /\ level \in [Tanks -> Nat]
    /\ totalizer \in [Racks -> 0..(MeterMod - 1)]
    /\ dispensed \in [Racks -> Nat]

-----------------------------------------------------------------------------
(* One physics step, physics.py _tick and its helpers *)

LoSwitch(t) == level[t] <= LoLevel[t]

\* Mutant: the latch follows the input.
LatchedByInput == esdActive /\ ~esdReset

\* ESD_ACTIVE sets the latch and a pending ESD_RESET wins over it.
Latched == (esdLatched \/ esdActive) /\ ~esdReset

\* Mutant: the first open outlet decides, whatever the register says.
FirstOpenOutlet(r) ==
    IF \E t \in Tanks : outVlv[t]
    THEN CHOOSE t \in Tanks : outVlv[t] /\ \A u \in 1..(t - 1) : ~outVlv[u]
    ELSE NoTank

\* The register decides; without an assignment the first open outlet does.
SourceTank(r) ==
    IF srcTank[r] \in Tanks
    THEN srcTank[r]
    ELSE IF \E t \in Tanks : outVlv[t]
         THEN CHOOSE t \in Tanks : outVlv[t] /\ \A u \in 1..(t - 1) : ~outVlv[u]
         ELSE NoTank

\* Mutant: no low-level cutout.
InterlockNoCutout(r) ==
    /\ ~Latched
    /\ loadVlv[r] /\ ground[r] /\ deadman[r] /\ ~overfill[r]
    /\ SourceTank(r) # NoTank

\* Mutant: the emergency shutdown is not part of the chain.
InterlockNoESD(r) ==
    /\ loadVlv[r] /\ ground[r] /\ deadman[r] /\ ~overfill[r]
    /\ SourceTank(r) # NoTank /\ ~LoSwitch(SourceTank(r))

InterlockOK(r) ==
    /\ ~Latched
    /\ loadVlv[r]
    /\ ground[r]
    /\ deadman[r]
    /\ ~overfill[r]
    /\ SourceTank(r) # NoTank
    /\ ~LoSwitch(SourceTank(r))

PumpRuns(r) == runCmd[r] /\ InterlockOK(r)

\* The racks that draw from tank t in this step.
DrawnBy(t) == {r \in Racks : PumpRuns(r) /\ SourceTank(r) = t}

Drain(t) ==
    LET rest == level[t] - FlowPerTick * Cardinality(DrawnBy(t))
    IN  IF rest < 0 THEN 0 ELSE rest

\* Mutant: the meter turns with the command, not with the pump.
MeteredOnCommand(r) ==
    IF runCmd[r]
    THEN (totalizer[r] + FlowPerTick \div UnitsPerGal) % MeterMod
    ELSE totalizer[r]

\* Mutant: the meter is not masked.
MeteredUnmasked(r) ==
    totalizer[r] + (IF PumpRuns(r) THEN FlowPerTick \div UnitsPerGal ELSE 0)

\* int(totalizer + flow) truncates the fraction of a gallon at every tick.
Metered(r) ==
    IF PumpRuns(r)
    THEN (totalizer[r] + FlowPerTick \div UnitsPerGal) % MeterMod
    ELSE totalizer[r]

\* Mutant: the status repeats the command.
StatusOfCommand(r) == runCmd[r]

\* The run status tells whether the pump runs, not whether it should.
RunStatus(r) == PumpRuns(r)

Tick ==
    /\ esdLatched' = Latched
    /\ esdReset' = FALSE
    /\ esdActive' = Latched
    /\ level' = [t \in Tanks |-> Drain(t)]
    /\ totalizer' = [r \in Racks |-> Metered(r)]
    /\ dispensed' = [r \in Racks |->
                        dispensed[r] + (IF PumpRuns(r) THEN FlowPerTick ELSE 0)]
    /\ runSts' = [r \in Racks |-> RunStatus(r)]
    /\ loLvl' = [t \in LoTagged |-> level'[t] <= LoLevel[t]]
    /\ UNCHANGED <<runCmd, loadVlv, outVlv, fieldInputs, srcTank>>

AllOff == [r \in Racks |-> FALSE]
AllZero == [r \in Racks |-> 0]
AllClosed == [t \in Tanks |-> FALSE]
AllNormal == [t \in LoTagged |-> FALSE]
Unassigned == [r \in Racks |-> NoTank]

PhysInit ==
    /\ runCmd = AllOff /\ loadVlv = AllOff /\ outVlv = AllClosed /\ esdReset = FALSE
    /\ ground = AllOff /\ deadman = AllOff /\ overfill = AllOff
    /\ esdActive = FALSE /\ runSts = AllOff /\ loLvl = AllNormal
    /\ srcTank = Unassigned
    /\ esdLatched = FALSE /\ level = InitLevel
    /\ totalizer = AllZero /\ dispensed = AllZero

\* A new process builds it all anew.
PhysRestart ==
    /\ runCmd' = AllOff /\ loadVlv' = AllOff /\ outVlv' = AllClosed /\ esdReset' = FALSE
    /\ ground' = AllOff /\ deadman' = AllOff /\ overfill' = AllOff
    /\ esdActive' = FALSE /\ runSts' = AllOff /\ loLvl' = AllNormal
    /\ srcTank' = Unassigned
    /\ esdLatched' = FALSE /\ level' = InitLevel
    /\ totalizer' = AllZero /\ dispensed' = AllZero

-----------------------------------------------------------------------------
(* The outside world.  A Modbus master may write any coil and any holding  *)
(* register; the discrete inputs of a rack and ESD_ACTIVE are driven by    *)
(* the operator or an external process.                                    *)

Toggle(f, i) == [f EXCEPT ![i] = ~@]

WriteRackCoil(r) ==
    /\ \/ runCmd' = Toggle(runCmd, r) /\ UNCHANGED loadVlv
       \/ loadVlv' = Toggle(loadVlv, r) /\ UNCHANGED runCmd
    /\ UNCHANGED <<outVlv, esdReset, fieldInputs, esdActive, srcTank, plant>>

WriteOutletCoil(t) ==
    /\ outVlv' = Toggle(outVlv, t)
    /\ UNCHANGED <<runCmd, loadVlv, esdReset, fieldInputs, esdActive, srcTank, plant>>

WriteSrcTank(r) ==
    /\ \E t \in 0..BadTank : srcTank' = [srcTank EXCEPT ![r] = t]
    /\ UNCHANGED <<coils, fieldInputs, esdActive, plant>>

RequestReset ==
    /\ esdReset' = TRUE
    /\ UNCHANGED <<runCmd, loadVlv, outVlv, fieldInputs, esdActive, srcTank, plant>>

DriveESD ==
    /\ esdActive' = ~esdActive
    /\ UNCHANGED <<coils, fieldInputs, srcTank, plant>>

ChangeFieldInput(r) ==
    /\ \/ ground' = Toggle(ground, r) /\ UNCHANGED <<deadman, overfill>>
       \/ deadman' = Toggle(deadman, r) /\ UNCHANGED <<ground, overfill>>
       \/ overfill' = Toggle(overfill, r) /\ UNCHANGED <<ground, deadman>>
    /\ UNCHANGED <<coils, esdActive, srcTank, plant>>

Outside ==
    \/ \E r \in Racks : WriteRackCoil(r) \/ WriteSrcTank(r) \/ ChangeFieldInput(r)
    \/ \E t \in Tanks : WriteOutletCoil(t)
    \/ RequestReset
    \/ DriveESD

PhysNext == Tick \/ Outside

PhysSpec == PhysInit /\ [][PhysNext]_physVars

\* The tick is a timer of its own task, so it always comes round again.
PhysFairSpec == PhysSpec /\ WF_physVars(Tick)

-----------------------------------------------------------------------------
(* Properties *)

Total(f) == FoldFunction(+, 0, f)

\* What has left the tanks is what the rack meters have counted, modulo the
\* wrap of the meters: no step of either rack is counted twice or missed,
\* even when both racks draw from one tank (physics.py 193-218).
MetersAccountForTanks ==
    (Total(InitLevel) - Total(level) - UnitsPerGal * Total(totalizer))
        % (UnitsPerGal * MeterMod) = 0

\* The low-level cutout keeps a tank from being drawn below its switch by
\* more than the one step in which it trips (physics.py 196-207, 270).
CutoutHolds ==
    \A t \in Tanks :
        InitLevel[t] > LoLevel[t] => level[t] > LoLevel[t] - NRacks * FlowPerTick

\* While the emergency shutdown is latched and no reset is pending, no fuel
\* leaves a tank, whatever is written to coils and registers.
ShutdownStopsFlow ==
    [][(esdLatched \/ esdActive) /\ ~esdReset
          => UNCHANGED <<level, totalizer, dispensed>>]_physVars

\* The latch is cleared by a step that consumes a reset request, never by
\* anything else, and the reset request does not outlive that step.
OnlyResetUnlatches ==
    [][esdLatched /\ ~esdLatched' => esdReset /\ ~esdReset' /\ ~esdActive']_physVars

\* Everything the pump of rack r needs except fuel in the tank.
Commanded(r) ==
    /\ runCmd[r] /\ loadVlv[r] /\ ground[r] /\ deadman[r]
    /\ ~overfill[r] /\ ~esdLatched /\ ~esdActive
    /\ srcTank[r] \in Tanks

\* A load that nobody ends is ended by the low-level cutout: a rack whose
\* commands stay on for good does not pump for ever (nothing stops a load at
\* its preset, physics.py 244-272).
CutoutEndsForgottenLoad ==
    \A r \in Racks : <>[]Commanded(r) => <>[]~runSts[r]
=============================================================================
