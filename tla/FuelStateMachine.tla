--------------------------- MODULE FuelStateMachine ---------------------------
(***************************************************************************)
(* The logistics state machine of the fuel-farm simulator,                 *)
(* roles/fuel_sim/files/fuelsim/state_machine.py: one action per event     *)
(* handler.  A handler reads and writes the tags and the rack state of     *)
(* FuelPhysics and queues the statements of AuditTables.  No handler ever  *)
(* suspends (its only awaits are puts on an unbounded queue), so each is   *)
(* one step between two physics ticks.                                     *)
(***************************************************************************)
EXTENDS FuelPhysics, Sequences

CONSTANTS
    Trucks,    \* refuelers
    Orders     \* fuel orders

NoTruck == "none"
NoLoad == [truck |-> NoTruck, tank |-> NoTank, preset |-> 0, meterStart |-> 0]
NoOrder == "none"

ASSUME FleetAssumption ==
    NoTruck \notin Trucks /\ NoOrder \notin Orders /\ IsFiniteSet(Trucks)

VARIABLES
    activeTruck,     \* LRr_ACTIVE_TRUCK
    presetReg,       \* LRr_PRESET_GAL
    openLoads,       \* StateMachine.open_loads
    openDeliveries,  \* StateMachine.open_deliveries: the order of the truck
    dbQueue, conn, db

Sql == INSTANCE AuditTables WITH DbTanks <- Tanks

INSTANCE DbFlusher WITH Apply <- Sql!ExecBatch

rackRegs == <<srcTank, activeTruck, presetReg>>

Loads == [truck : Trucks, tank : Tanks, preset : Nat, meterStart : 0..(MeterMod - 1)]

SmTypeOK ==
    /\ PhysTypeOK
    /\ activeTruck \in [Racks -> Trucks \cup {NoTruck}]
    /\ presetReg \in [Racks -> Nat]
    /\ openLoads \in [Racks -> Loads \cup {NoLoad}]
    /\ openDeliveries \in [Trucks -> Orders \cup {NoOrder}]

SmInit ==
    /\ activeTruck = [r \in Racks |-> NoTruck]
    /\ presetReg = AllZero
    /\ openLoads = [r \in Racks |-> NoLoad]
    /\ openDeliveries = [k \in Trucks |-> NoOrder]

SmRestart ==
    /\ activeTruck' = [r \in Racks |-> NoTruck]
    /\ presetReg' = AllZero
    /\ openLoads' = [r \in Racks |-> NoLoad]
    /\ openDeliveries' = [k \in Trucks |-> NoOrder]

\* What a handler that works on the database only leaves alone.
plantSide == <<physVars, activeTruck, presetReg, openLoads>>

-----------------------------------------------------------------------------
(* The handlers.  A parameter p is the payload of an event. *)

OnOrderCreated(p) ==
    /\ Put(<<Sql!InsertOrder(p.order)>>)
    /\ UNCHANGED <<plantSide, openDeliveries>>

OnTruckArrival(p) ==
    /\ Put(<<Sql!SetTruck(p.truck, "QUEUED"), Sql!Enqueue(p.truck)>>)
    /\ UNCHANGED <<plantSide, openDeliveries>>

\* Mutant: the batch counter of the previous load is kept.
BatchAtStart(r) == dispensed

\* dispensed_this_batch_gal is reset when a load starts.
BatchReset(r) == [dispensed EXCEPT ![r] = 0]

\* A load that is open on the rack is overwritten without a trace.
OnLoadStart(p) ==
    LET r == p.rack
    IN  /\ openLoads' = [openLoads EXCEPT ![r] =
              [truck |-> p.truck, tank |-> p.tank, preset |-> p.preset,
               meterStart |-> totalizer[r]]]
        /\ dispensed' = BatchReset(r)
        /\ activeTruck' = [activeTruck EXCEPT ![r] = p.truck]
        /\ srcTank' = [srcTank EXCEPT ![r] = p.tank]
        /\ presetReg' = [presetReg EXCEPT ![r] = p.preset]
        /\ ground' = [ground EXCEPT ![r] = TRUE]
        /\ deadman' = [deadman EXCEPT ![r] = TRUE]
        /\ outVlv' = [outVlv EXCEPT ![p.tank] = TRUE]
        /\ loadVlv' = [loadVlv EXCEPT ![r] = TRUE]
        /\ runCmd' = [runCmd EXCEPT ![r] = TRUE]
        /\ Put(<<Sql!SetTruck(p.truck, "LOADING"),
                 Sql!Advance(p.truck, "QUEUED", "LOADING"),
                 Sql!InsertEvent("LOAD_START")>>)
        /\ UNCHANGED <<esdReset, overfill, esdActive, runSts, loLvl, esdLatched,
                       level, totalizer, openDeliveries>>

\* The racks whose open load is the truck's; the code takes the first in the
\* order of the dictionary, a timeline uses one rack per truck.
RacksOfTruck(k) == {r \in Racks : openLoads[r] # NoLoad /\ openLoads[r].truck = k}

\* Mutant: the gallons are taken from the wrapping meter.
LoadRecordByMeter(k, r) ==
    Sql!InsertLoad(k, openLoads[r].tank,
                   UnitsPerGal * (totalizer[r] - openLoads[r].meterStart),
                   openLoads[r].meterStart, totalizer[r])

LoadRecord(k, r) ==
    Sql!InsertLoad(k, openLoads[r].tank, dispensed[r],
                   openLoads[r].meterStart, totalizer[r])

\* Mutant: the end of a load leaves the pump command on.
PumpLeftOn(r) == runCmd

\* Close commands.
PumpStopped(r) == [runCmd EXCEPT ![r] = FALSE]

\* Without an open load of the truck the event is dropped with a warning.
OnLoadEnd(p) ==
    \/ /\ RacksOfTruck(p.truck) = {}
       /\ UNCHANGED <<plantSide, openDeliveries, dbQueue>>
    \/ \E r \in RacksOfTruck(p.truck) :
        /\ openLoads' = [openLoads EXCEPT ![r] = NoLoad]
        /\ runCmd' = PumpStopped(r)
        /\ loadVlv' = [loadVlv EXCEPT ![r] = FALSE]
        /\ deadman' = [deadman EXCEPT ![r] = FALSE]
        /\ outVlv' = [outVlv EXCEPT ![openLoads[r].tank] = FALSE]
        /\ activeTruck' = [activeTruck EXCEPT ![r] = NoTruck]
        /\ srcTank' = [srcTank EXCEPT ![r] = NoTank]
        /\ presetReg' = [presetReg EXCEPT ![r] = 0]
        /\ dispensed' = [dispensed EXCEPT ![r] = 0]
        /\ Put(<<LoadRecord(p.truck, r),
                 Sql!SetTruck(p.truck, "ENROUTE"),
                 Sql!Advance(p.truck, "LOADING", "ENROUTE"),
                 Sql!InsertEvent("LOAD_END")>>)
        /\ UNCHANGED <<esdReset, ground, overfill, esdActive, runSts, loLvl,
                       esdLatched, level, totalizer, openDeliveries>>

\* A delivery that is open for the truck is overwritten.
OnDeliveryStart(p) ==
    /\ openDeliveries' = [openDeliveries EXCEPT ![p.truck] = p.order]
    /\ Put(<<Sql!SetTruck(p.truck, "DISPENSING"),
             Sql!Advance(p.truck, "ENROUTE", "DISPENSING")>>)
    /\ UNCHANGED plantSide

\* Mutant: the queue row is not closed.
DeliveryClosed_NoRow(k) == <<Sql!SetTruck(k, "RETURNING"), Sql!SetTruck(k, "AVAILABLE")>>

DeliveryClosed(k) ==
    <<Sql!SetTruck(k, "RETURNING"),
      Sql!Advance(k, "DISPENSING", "RETURNING"),
      Sql!SetTruck(k, "AVAILABLE")>>

\* The gallons of the record are the timeline's, not a measured quantity.
OnDeliveryEnd(p) ==
    \/ /\ openDeliveries[p.truck] = NoOrder
       /\ UNCHANGED <<plantSide, openDeliveries, dbQueue>>
    \/ /\ openDeliveries[p.truck] # NoOrder
       /\ openDeliveries' = [openDeliveries EXCEPT ![p.truck] = NoOrder]
       /\ Put(<<Sql!InsertDelivery(p.truck, openDeliveries[p.truck]),
                Sql!FillOrder(openDeliveries[p.truck])>>
              \o DeliveryClosed(p.truck))
       /\ UNCHANGED plantSide

\* _apply: dispatch on the name of the event.
ApplyEvent(ev) ==
    \/ ev.event = "order_created"  /\ OnOrderCreated(ev)
    \/ ev.event = "truck_arrival"  /\ OnTruckArrival(ev)
    \/ ev.event = "load_start"     /\ OnLoadStart(ev)
    \/ ev.event = "load_end"       /\ OnLoadEnd(ev)
    \/ ev.event = "delivery_start" /\ OnDeliveryStart(ev)
    \/ ev.event = "delivery_end"   /\ OnDeliveryEnd(ev)

\* snapshot_loop: a row per tank.
Snapshot ==
    /\ Put([t \in Tanks |-> Sql!InsertSnap(t, level[t])])
    /\ UNCHANGED <<plantSide, openDeliveries>>
=============================================================================
