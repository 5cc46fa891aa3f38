----------------------------- MODULE AuditTables -----------------------------
(***************************************************************************)
(* The statements that the simulator queues for the audit database         *)
(* (roles/fuel_sim/files/fuelsim/state_machine.py) and their effect on the *)
(* tables of roles/fuel_db/templates/schema.sql.j2.                        *)
(*                                                                         *)
(* The transaction tables are kept as totals: gallons loaded from a tank   *)
(* and into a truck, and the (truck, order) pairs that were delivered.     *)
(***************************************************************************)
EXTENDS Integers, Sequences

CONSTANTS
    Trucks,      \* refuelers, trucks.truck_id
    Orders,      \* fuel_orders.order_id
    DbTanks      \* tanks.tank_id

QueueStates == {"QUEUED", "LOADING", "ENROUTE", "DISPENSING", "RETURNING"}
TruckStates == QueueStates \cup {"AVAILABLE"}
OrderStates == {"ABSENT", "OPEN", "FILLED"}
EventCodes == {"LOAD_START", "LOAD_END"}

EmptyDb ==
    [orders     |-> [o \in Orders |-> "ABSENT"],
     trucks     |-> [k \in Trucks |-> "AVAILABLE"],
     queue      |-> [k \in Trucks |-> [s \in QueueStates |-> 0]],
     loaded     |-> [t \in DbTanks |-> 0],
     loads      |-> [k \in Trucks |-> 0],
     deliveries |-> {},
     snap       |-> [t \in DbTanks |-> {}],
     events     |-> [c \in EventCodes |-> 0]]

-----------------------------------------------------------------------------
(* Statements, one constructor per SQL text *)

InsertOrder(o) == [op |-> "InsertOrder", order |-> o]
SetTruck(k, s) == [op |-> "SetTruck", truck |-> k, status |-> s]
Enqueue(k) == [op |-> "Enqueue", truck |-> k]
Advance(k, from, to) == [op |-> "Advance", truck |-> k, from |-> from, to |-> to]
InsertLoad(k, t, gal, start, end) ==
    [op |-> "InsertLoad", truck |-> k, tank |-> t, gallons |-> gal,
     meterStart |-> start, meterEnd |-> end]
InsertDelivery(k, o) == [op |-> "InsertDelivery", truck |-> k, order |-> o]
FillOrder(o) == [op |-> "FillOrder", order |-> o]
InsertEvent(c) == [op |-> "InsertEvent", code |-> c]
InsertSnap(t, l) == [op |-> "InsertSnap", tank |-> t, level |-> l]

\* ON CONFLICT (order_id) DO NOTHING.
OrderInserted(status) == IF status = "ABSENT" THEN "OPEN" ELSE status

\* UPDATE truck_queue ... WHERE truck_id = k AND state = from, every row of it.
RowsAdvanced(rows, from, to) ==
    [rows EXCEPT ![from] = 0, ![to] = rows[to] + rows[from]]

\* UPDATE fuel_orders SET status = 'FILLED' WHERE order_id = o.
OrdersFilled(orders, o) ==
    [orders EXCEPT ![o] = IF @ = "ABSENT" THEN @ ELSE "FILLED"]

\* The effect of one statement.
Exec(db, s) ==
    CASE s.op = "InsertOrder"    -> [db EXCEPT !.orders[s.order] = OrderInserted(@)]
      [] s.op = "SetTruck"       -> [db EXCEPT !.trucks[s.truck] = s.status]
      [] s.op = "Enqueue"        -> [db EXCEPT !.queue[s.truck]["QUEUED"] = @ + 1]
      [] s.op = "Advance"        -> [db EXCEPT !.queue[s.truck] =
                                         RowsAdvanced(@, s.from, s.to)]
      [] s.op = "InsertLoad"     -> [db EXCEPT !.loaded[s.tank] = @ + s.gallons,
                                               !.loads[s.truck] = @ + 1]
      [] s.op = "InsertDelivery" -> [db EXCEPT !.deliveries = @ \cup {<<s.truck, s.order>>}]
      [] s.op = "FillOrder"      -> [db EXCEPT !.orders = OrdersFilled(@, s.order)]
      [] s.op = "InsertEvent"    -> [db EXCEPT !.events[s.code] = @ + 1]
      [] s.op = "InsertSnap"     -> [db EXCEPT !.snap[s.tank] = {s.level}]

\* A transaction executes a batch in order.
ExecBatch(db, batch) ==
    LET after[n \in 0..Len(batch)] ==
            IF n = 0 THEN db ELSE Exec(after[n - 1], batch[n])
    IN  after[Len(batch)]
=============================================================================
