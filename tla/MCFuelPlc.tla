------------------------------ MODULE MCFuelPlc ------------------------------
(* One rack with an input of either polarity, one pump, and registers of   *)
(* three bits.  The program does not look at measurements, so it runs with *)
(* one of them; the others are there for their registers.                  *)
EXTENDS FuelPlc, RegisterCodec

VARIABLE measured

MCRacks == {"LR1"}
MCRackFaults == {"DEADMAN", "OVERFILL"}
MCOffMeansFault == {"DEADMAN"}
MCCommands == {<<"P201", "RUN_CMD">>}
MCScales == {1, 2, 3, 10}

MCInit == Init /\ measured \in -10..(10 * Word + 10)
MCNext == UNCHANGED measured /\ IF measured = 0 THEN Next ELSE UNCHANGED vars
MCSpec == MCInit /\ [][MCNext]_<<vars, measured>>

\* Levels, temperatures, flows and pressures saturate at the end of their
\* registers and keep half a count within; totals keep all their bits through
\* two words, also where a reader takes a word for signed (modbus.py 147-178,
\* telegraf.conf.j2 69).  All this in the order that the role configures,
\* hi_first.  The other one is not honored, against modbus.py 16-17: the
\* writer ignores it, and a total comes back with its words exchanged.
RegistersKeepMeasurements ==
    /\ \A scale \in Scales : MeasurementKept(measured, scale)
    /\ measured >= 0 =>
          /\ TotalRecorded(measured)
          /\ TotalKept(measured, "hi_first")
          /\ TotalKept(measured, "lo_first") <=> EqualWords(measured)
=============================================================================
