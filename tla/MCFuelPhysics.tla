---------------------------- MODULE MCFuelPhysics ----------------------------
(* Small instances of FuelPhysics.  The low switch leaves just the volume  *)
(* that all racks can draw in one step, as the deployment's 5 % does many  *)
(* times over; one tank is a step fuller than the next.                    *)
EXTENDS FuelPhysics

MCLoLevel == [t \in Tanks |-> NRacks * FlowPerTick]
MCInitLevel == [t \in Tanks |-> MCLoLevel[t] + (1 + t) * FlowPerTick]
MCLoTagged == {1}
=============================================================================
