---------------------------- MODULE MCPlcBootstrap ----------------------------
(* Three contents of fuel_farm.st, of which one does not compile, and two  *)
(* settings of the slave device.                                           *)
EXTENDS PlcBootstrap

CONSTANTS st1, st2, typo, aor0, aor8

MCPrograms == {st1, st2, typo}
MCBroken == {typo}
MCDevices == {aor0, aor8}
=============================================================================
