------------------------------ MODULE MCDeploy ------------------------------
(* A domain controller that two plays need, a member that a play needs     *)
(* afterwards, and a host of the last play.                                *)
EXTENDS Deploy

CONSTANTS dc, member, sensor

MCHosts == {dc, member, sensor}
\* No --limit of the user's, or one to the domain hosts.
MCSelections == {MCHosts, {dc, member}}
MCTargets == <<{dc}, {dc, member}, {member, sensor}>>
=============================================================================
