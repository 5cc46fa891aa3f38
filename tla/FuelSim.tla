------------------------------- MODULE FuelSim -------------------------------
(***************************************************************************)
(* The fuel-farm simulator process, roles/fuel_sim/files/fuelsim: the six  *)
(* tasks that fuelsim.py starts on one event loop, with the audit database *)
(* and the supervisor that restarts the process.                           *)
(*                                                                         *)
(* The timeline that replay.py reads is a merge of the six events of each  *)
(* sortie (generate_timeline.py).  Which merge is decided event by event,  *)
(* so that one run covers all timelines of the sorties; the time between   *)
(* two events is any number of physics ticks.                              *)
(***************************************************************************)
EXTENDS FuelStateMachine

CONSTANTS
    Sorties,       \* records: order, truck, tank, rack, preset
    Paced,         \* TRUE: the timeline never overlaps loads on a rack or
                   \* cycles of a truck
    MaxBacklog,    \* bound on events enqueued but not dispatched
    MaxQueued,     \* bound on statements queued when another handler runs and
                   \* after a snapshot
    MaxLaps,       \* bound on wraps of the timeline since the last mishap
    MaxMishaps,    \* bound on restarts of the process and batches that the
                   \* database refuses, together
    Shutdowns,     \* TRUE: the emergency shutdown is used
    Snapshots      \* TRUE: the 1 Hz level snapshots are taken

ASSUME SortieAssumption ==
    /\ Sorties \subseteq [order : Orders, truck : Trucks, tank : Tanks,
                          rack : Racks, preset : Nat]
    /\ \A s, t \in Sorties : s.truck = t.truck => s.rack = t.rack
    /\ Paced \in BOOLEAN /\ Shutdowns \in BOOLEAN /\ Snapshots \in BOOLEAN
    /\ {MaxBacklog, MaxQueued, MaxLaps, MaxMishaps} \subseteq Nat

VARIABLES
    stage,       \* events of each sortie already replayed in this lap
    lap,         \* laps completed since the start or the last mishap
    eventQueue,  \* StateMachine.event_queue
    restarts, failures

replayVars == <<stage, lap>>
mishaps == <<restarts, failures>>
smVars == <<activeTruck, presetReg, openLoads, openDeliveries>>
dbVars == <<dbQueue, conn, db>>
vars == <<physVars, smVars, dbVars, replayVars, eventQueue, mishaps>>

Script == <<"order_created", "truck_arrival", "load_start",
            "load_end", "delivery_start", "delivery_end">>

EventOf(s, i) ==
    [event |-> Script[i], order |-> s.order, truck |-> s.truck,
     tank |-> s.tank, rack |-> s.rack, preset |-> s.preset]

Init ==
    /\ PhysInit
    /\ SmInit
    /\ dbQueue = <<>>
    /\ conn = FALSE
    /\ db = Sql!EmptyDb
    /\ stage = [s \in Sorties |-> 0]
    /\ lap = 0
    /\ eventQueue = <<>>
    /\ restarts = 0
    /\ failures = 0

-----------------------------------------------------------------------------
(* replay.py *)

\* In a paced timeline a truck finishes its cycle before the next one and a
\* rack its load.
MayFollow(s) ==
    /\ stage[s] = 1 => \A u \in Sorties \ {s} : u.truck = s.truck => stage[u] \in {0, 1, 6}
    /\ stage[s] = 2 => \A u \in Sorties \ {s} : u.rack = s.rack => stage[u] # 3

ReplayEvent(s) ==
    /\ stage[s] < Len(Script)
    /\ Paced => MayFollow(s)
    /\ Len(eventQueue) < MaxBacklog
    /\ eventQueue' = Append(eventQueue, EventOf(s, stage[s] + 1))
    /\ stage' = [stage EXCEPT ![s] = @ + 1]
    /\ UNCHANGED <<physVars, smVars, dbVars, lap, mishaps>>

\* Mutant: the timeline is not started over.
ReplayEnds ==
    /\ \A s \in Sorties : stage[s] = Len(Script)
    /\ lap < MaxLaps
    /\ lap' = lap + 1
    /\ UNCHANGED <<physVars, smVars, dbVars, stage, eventQueue, mishaps>>

\* loop: true; the next iteration replays the same events.
ReplayWraps ==
    /\ \A s \in Sorties : stage[s] = Len(Script)
    /\ lap < MaxLaps
    /\ lap' = lap + 1
    /\ stage' = [s \in Sorties |-> 0]
    /\ UNCHANGED <<physVars, smVars, dbVars, eventQueue, mishaps>>

Replay == (\E s \in Sorties : ReplayEvent(s)) \/ ReplayWraps

-----------------------------------------------------------------------------
(* The other tasks *)

Dispatch ==
    /\ eventQueue # <<>>
    /\ Len(dbQueue) <= MaxQueued
    /\ ApplyEvent(Head(eventQueue))
    /\ eventQueue' = Tail(eventQueue)
    /\ UNCHANGED <<conn, db, replayVars, mishaps>>

PhysicsTick == Tick /\ UNCHANGED <<smVars, dbVars, replayVars, eventQueue, mishaps>>

TakeSnapshot ==
    /\ Snapshots
    /\ Len(dbQueue) + NTanks <= MaxQueued
    /\ Snapshot
    /\ UNCHANGED <<conn, db, replayVars, eventQueue, mishaps>>

FlushSucceeds ==
    /\ FlushCommits \/ FlushCommitsUnseen
    /\ UNCHANGED <<physVars, smVars, replayVars, eventQueue, mishaps>>

\* A refused batch; the count of quiet laps starts again.
FlushRefused ==
    /\ restarts + failures < MaxMishaps
    /\ FlushFails
    /\ failures' = failures + 1
    /\ lap' = 0
    /\ UNCHANGED <<physVars, smVars, stage, eventQueue, restarts>>

Shutdown ==
    /\ Shutdowns
    /\ DriveESD \/ RequestReset
    /\ UNCHANGED <<smVars, dbVars, replayVars, eventQueue, mishaps>>

\* The process ends, by a signal or a crash, and starts afresh: queues, open
\* loads, tank levels and meters are memory, only the database is not.
Restart ==
    /\ restarts + failures < MaxMishaps
    /\ restarts' = restarts + 1
    /\ PhysRestart
    /\ SmRestart
    /\ FlusherRestart
    /\ stage' = [s \in Sorties |-> 0]
    /\ lap' = 0
    /\ eventQueue' = <<>>
    /\ UNCHANGED failures

Next ==
    \/ Replay
    \/ Dispatch
    \/ PhysicsTick
    \/ TakeSnapshot
    \/ FlushSucceeds
    \/ FlushRefused
    \/ Shutdown
    \/ Restart

Spec == Init /\ [][Next]_vars

\* Every task of the event loop is a loop around a sleep or a queue.
FairSpec ==
    /\ Spec
    /\ WF_vars(Replay)
    /\ WF_vars(Dispatch)
    /\ WF_vars(PhysicsTick)
    /\ WF_vars(FlushSucceeds \/ FlushRefused)

-----------------------------------------------------------------------------
(* Properties *)

TypeOK ==
    /\ SmTypeOK
    /\ conn \in BOOLEAN
    /\ stage \in [Sorties -> 0..Len(Script)]
    /\ lap \in 0..MaxLaps
    /\ Len(eventQueue) \in 0..MaxBacklog
    /\ restarts \in Nat
    /\ failures \in Nat
    /\ restarts + failures <= MaxMishaps

Undisturbed == restarts = 0 /\ failures = 0

\* Commands and registers of rack r are on exactly while a load is open on
\* it, for its truck and its tank.
RackMirrorsLoad(r) ==
    IF openLoads[r] = NoLoad
    THEN /\ ~runCmd[r] /\ ~loadVlv[r] /\ ~deadman[r]
         /\ srcTank[r] = NoTank /\ activeTruck[r] = NoTruck
         /\ dispensed[r] = 0
    ELSE /\ runCmd[r] /\ loadVlv[r] /\ deadman[r] /\ ground[r]
         /\ srcTank[r] = openLoads[r].tank
         /\ activeTruck[r] = openLoads[r].truck
         /\ presetReg[r] = openLoads[r].preset

\* The tags that drive the physics say what the state machine's memory says,
\* on every rack and at every moment, through overwritten loads, shutdowns
\* and restarts (state_machine.py 221-302).
RegistersMirrorOpenLoads == \A r \in Racks : RackMirrorsLoad(r)

\* The three records of a load agree: what the batch counter holds is what
\* the totalizer has advanced since the load started, modulo its wrap.
BatchAgreesWithMeter ==
    \A r \in Racks :
        openLoads[r] # NoLoad =>
            (dispensed[r] - UnitsPerGal * (totalizer[r] - openLoads[r].meterStart))
                % (UnitsPerGal * MeterMod) = 0

\* A tank only loses fuel to a rack with an open load from that tank; only a
\* restart puts fuel back.
FuelLeavesThroughLoads ==
    [][\A t \in Tanks :
          level'[t] # level[t] =>
             \/ restarts' # restarts
             \/ /\ level'[t] < level[t]
                /\ \E r \in Racks : openLoads[r] # NoLoad /\ openLoads[r].tank = t]_vars

\* The build sheet's reconciliation: with no load open and the queue empty,
\* what has left a tank is the sum of the loads recorded from it.
DrawdownIsRecorded ==
    (/\ Undisturbed
     /\ dbQueue = <<>>
     /\ \A r \in Racks : openLoads[r] = NoLoad)
    => \A t \in Tanks : InitLevel[t] - level[t] = db.loaded[t]

\* The status of a truck and its rows in the truck queue tell the same story
\* at every commit: a busy truck has one open row, in its own state, and an
\* available truck has none.
QueueFollowsTruck ==
    Undisturbed =>
        \A k \in Trucks :
            \A q \in Sql!QueueStates \ {"RETURNING"} :
                db.queue[k][q] = IF db.trucks[k] = q THEN 1 ELSE 0

\* Whatever batches are lost and however often the simulator restarts, the
\* tables stay in step with each other: a load has its LOAD_END event and a
\* filled order its delivery.
TablesAgree ==
    /\ db.events["LOAD_END"] = Total(db.loads)
    /\ \A o \in Orders :
          db.orders[o] = "FILLED" => \E k \in Trucks : <<k, o>> \in db.deliveries

\* As long as the process lives, the recorded level of a tank never rises.
SnapshotsFall ==
    [][\A t \in Tanks : \A a \in db.snap[t], b \in db'.snap[t] :
          b <= a \/ restarts > 0]_vars

\* Replay in a loop fills every order of a paced timeline in the end, even
\* through restarts and refused batches: what a mishap loses, the next lap
\* tells again.
EveryOrderFilled ==
    \A s \in Sorties : <>[](db.orders[s.order] = "FILLED")
=============================================================================
