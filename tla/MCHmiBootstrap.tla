--------------------------- MODULE MCHmiBootstrap ---------------------------
(* Two projects that look alike to the script's check and one that has a   *)
(* view renamed.                                                           *)
EXTENDS HmiBootstrap

CONSTANTS v1, v2, renamed

MCProjects == {v1, v2, renamed}
MCRecognised == {v1, v2}
=============================================================================
