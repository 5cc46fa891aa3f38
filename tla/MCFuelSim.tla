------------------------------ MODULE MCFuelSim ------------------------------
(* Small fleets for FuelSim: two racks, two tanks, two trucks.             *)
EXTENDS FuelSim

MCTrucks == {"R-01", "R-02"}
MCOrders == {"1000", "1001"}
MCLoLevel == [t \in Tanks |-> 2]
MCInitLevel == [t \in Tanks |-> 4]
MCShallow == [t \in Tanks |-> 3]
MCLoTagged == {1}

Sortie(o, k, t, r) == [order |-> o, truck |-> k, tank |-> t, rack |-> r, preset |-> 2]

\* Two trucks on two racks, both from tank 1.
MCSharedTank == {Sortie("1000", "R-01", 1, 1), Sortie("1001", "R-02", 1, 2)}

\* One truck that goes twice, from two tanks.
MCOneTruck == {Sortie("1000", "R-01", 1, 1), Sortie("1001", "R-01", 2, 1)}

\* Two trucks on one rack from two tanks, as R-04 and R-06 in the shipped
\* timeline (offsets 1376 to 2381).
MCSharedRack == {Sortie("1000", "R-01", 1, 1), Sortie("1001", "R-02", 2, 1)}

\* One truck and one order.
MCOneSortie == {Sortie("1000", "R-01", 1, 1)}
=============================================================================
