------------------------- MODULE HmiBootstrap_proofs -------------------------
(* Theorems about HmiBootstrap, for any projects and any number of edits   *)
(* and faults.  The invariant behind them says, for every task and call of *)
(* a play, what those before it have established by then.                  *)
EXTENDS HmiBootstrap, TLAPS

\* The project that the play uploaded is served until the play is over.
UploadedInv == step = "verify" /\ ~lost => project = file

\* The container is there from its task to the end of the play.
ContainerInv == step \notin {"idle", "container"} => container = "there"

\* What is not there has no driver to load.
GoneInv == container = "gone" => driver = "absent" /\ ~loaded /\ ~cut

\* The restart follows the installation.
InstalledInv == step = "restart" => driver = "installed"

\* A driver in the container is loaded but for the two moments between its
\* installation and the start of the server, and unless a play died there.
LoadedInv ==
    container = "there" /\ ~cut /\ step # "restart" => (driver # "absent" <=> loaded)

\* Only a play that died leaves half a driver.
PartialInv == driver = "partial" => cut

\* Past the driver's tasks there is one.
PastDriverInv ==
    step \in {"fetch", "settings", "broadcast", "post", "verify"} => driver # "absent"

\* Past the setting's call it is made, or refused.
BroadcastInv == step \in {"post", "verify"} /\ ~warned => broadcast

\* A result is that of the last play, until the next one begins.
ResultInv == step # "idle" => result = "none"

\* What a play that ended well found, as long as its container is there.
OkInv ==
    result = "ok" /\ container = "there" => driver # "absent" /\ (~warned => broadcast)

\* The inductive invariant of play and container.
HmiInv ==
    /\ TypeOK /\ ResultInv
    /\ UploadedInv /\ ProjectIsServed
    /\ ContainerInv /\ GoneInv /\ InstalledInv /\ PartialInv /\ LoadedInv
    /\ PastDriverInv /\ BroadcastInv /\ OkInv

-----------------------------------------------------------------------------
(* Steps *)

\* A fresh target.
LEMMA InitInv == Init => HmiInv
<1> SUFFICES ASSUME Init PROVE HmiInv
  OBVIOUS
<1>1. TypeOK
  <2>1. {loaded, broadcast, cut, warned, lost} \subseteq BOOLEAN
    BY DEF Init
  <2>2. 0 \in 0..MaxEdits /\ 0 \in 0..MaxFaults
    BY HmiAssumption
  <2> QED
    BY <2>1, <2>2, HmiAssumption DEF Init, TypeOK
<1> QED
  BY <1>1 DEF Init, HmiInv, ResultInv, UploadedInv, ProjectIsServed, ContainerInv, GoneInv,
              InstalledInv, PartialInv, LoadedInv, PastDriverInv, BroadcastInv, OkInv

\* The role is edited beside the plays.
LEMMA EditRoleInv == HmiInv /\ EditRole => HmiInv'
<1> SUFFICES ASSUME HmiInv, EditRole PROVE HmiInv'
  OBVIOUS
<1> USE DEF EditRole, Do, InPlay, fuxa, history, End, Fault, ProcessStarts, DriverFound, Matches
<1>1. TypeOK'
  BY HmiAssumption DEF HmiInv, TypeOK
<1> QED
  BY <1>1 DEF HmiInv, ResultInv, UploadedInv, ProjectIsServed, ContainerInv, GoneInv,
         InstalledInv, PartialInv, LoadedInv, PastDriverInv, BroadcastInv, OkInv, TypeOK

\* A play begins.
LEMMA RunPlayInv == HmiInv /\ RunPlay => HmiInv'
<1> SUFFICES ASSUME HmiInv, RunPlay PROVE HmiInv'
  OBVIOUS
<1> USE DEF RunPlay, Do, InPlay, fuxa, history, End, Fault, ProcessStarts, DriverFound, Matches
<1>1. TypeOK'
  BY HmiAssumption DEF HmiInv, TypeOK
<1> QED
  BY <1>1 DEF HmiInv, ResultInv, UploadedInv, ProjectIsServed, ContainerInv, GoneInv,
         InstalledInv, PartialInv, LoadedInv, PastDriverInv, BroadcastInv, OkInv, TypeOK

\* Its tasks ...
LEMMA RunContainerInv == HmiInv /\ RunContainer => HmiInv'
<1> SUFFICES ASSUME HmiInv, RunContainer PROVE HmiInv'
  OBVIOUS
<1> USE DEF RunContainer, Do, InPlay, fuxa, history, End, Fault, ProcessStarts, DriverFound, Matches
<1>1. TypeOK'
  BY HmiAssumption DEF HmiInv, TypeOK
<1> QED
  BY <1>1 DEF HmiInv, ResultInv, UploadedInv, ProjectIsServed, ContainerInv, GoneInv,
         InstalledInv, PartialInv, LoadedInv, PastDriverInv, BroadcastInv, OkInv, TypeOK

\* The check of the driver tells what is installed.
LEMMA CheckDriverInv == HmiInv /\ CheckDriver => HmiInv'
<1> SUFFICES ASSUME HmiInv, CheckDriver PROVE HmiInv'
  OBVIOUS
<1> USE DEF CheckDriver, Do, InPlay, fuxa, history, End, Fault, ProcessStarts, DriverFound, Matches
<1>1. TypeOK'
  BY HmiAssumption DEF HmiInv, TypeOK
<1> QED
  BY <1>1 DEF HmiInv, ResultInv, UploadedInv, ProjectIsServed, ContainerInv, GoneInv,
         InstalledInv, PartialInv, LoadedInv, PastDriverInv, BroadcastInv, OkInv, TypeOK

\* An installed driver waits for the restart.
LEMMA InstallDriverInv == HmiInv /\ InstallDriver => HmiInv'
<1> SUFFICES ASSUME HmiInv, InstallDriver PROVE HmiInv'
  OBVIOUS
<1> USE DEF InstallDriver, Do, InPlay, fuxa, history, End, Fault, ProcessStarts, DriverFound, Matches
<1>1. TypeOK'
  BY HmiAssumption DEF HmiInv, TypeOK
<1> QED
  BY <1>1 DEF HmiInv, ResultInv, UploadedInv, ProjectIsServed, ContainerInv, GoneInv,
         InstalledInv, PartialInv, LoadedInv, PastDriverInv, BroadcastInv, OkInv, TypeOK

\* A restart loads the driver.
LEMMA RestartInv == HmiInv /\ Restart => HmiInv'
<1> SUFFICES ASSUME HmiInv, Restart PROVE HmiInv'
  OBVIOUS
<1> USE DEF Restart, Do, InPlay, fuxa, history, End, Fault, ProcessStarts, DriverFound, Matches
<1>1. TypeOK'
  BY HmiAssumption DEF HmiInv, TypeOK
<1> QED
  BY <1>1 DEF HmiInv, ResultInv, UploadedInv, ProjectIsServed, ContainerInv, GoneInv,
         InstalledInv, PartialInv, LoadedInv, PastDriverInv, BroadcastInv, OkInv, TypeOK

\* ... and the calls of its script.
LEMMA FetchInv == HmiInv /\ Fetch => HmiInv'
<1> SUFFICES ASSUME HmiInv, Fetch PROVE HmiInv'
  OBVIOUS
<1> USE DEF Fetch, Do, InPlay, fuxa, history, End, Fault, ProcessStarts, DriverFound, Matches
<1>1. TypeOK'
  BY HmiAssumption DEF HmiInv, TypeOK
<1> QED
  BY <1>1 DEF HmiInv, ResultInv, UploadedInv, ProjectIsServed, ContainerInv, GoneInv,
         InstalledInv, PartialInv, LoadedInv, PastDriverInv, BroadcastInv, OkInv, TypeOK

\* The settings that are read are those of the server.
LEMMA ReadSettingsInv == HmiInv /\ ReadSettings => HmiInv'
<1> SUFFICES ASSUME HmiInv, ReadSettings PROVE HmiInv'
  OBVIOUS
<1> USE DEF ReadSettings, Do, InPlay, fuxa, history, End, Fault, ProcessStarts, DriverFound, Matches
<1>1. TypeOK'
  BY HmiAssumption DEF HmiInv, TypeOK
<1> QED
  BY <1>1 DEF HmiInv, ResultInv, UploadedInv, ProjectIsServed, ContainerInv, GoneInv,
         InstalledInv, PartialInv, LoadedInv, PastDriverInv, BroadcastInv, OkInv, TypeOK

\* Setting the broadcast address changes no project.
LEMMA SetBroadcastInv == HmiInv /\ SetBroadcast => HmiInv'
<1> SUFFICES ASSUME HmiInv, SetBroadcast PROVE HmiInv'
  OBVIOUS
<1> USE DEF SetBroadcast, Do, InPlay, fuxa, history, End, Fault, ProcessStarts, DriverFound, Matches
<1>1. TypeOK'
  BY HmiAssumption DEF HmiInv, TypeOK
<1> QED
  BY <1>1 DEF HmiInv, ResultInv, UploadedInv, ProjectIsServed, ContainerInv, GoneInv,
         InstalledInv, PartialInv, LoadedInv, PastDriverInv, BroadcastInv, OkInv, TypeOK

\* An upload brings the project of the play.
LEMMA PostInv == HmiInv /\ Post => HmiInv'
<1> SUFFICES ASSUME HmiInv, Post PROVE HmiInv'
  OBVIOUS
<1> USE DEF Post, Do, InPlay, fuxa, history, End, Fault, ProcessStarts, DriverFound, Matches
<1>1. TypeOK'
  BY HmiAssumption DEF HmiInv, TypeOK
<1> QED
  BY <1>1 DEF HmiInv, ResultInv, UploadedInv, ProjectIsServed, ContainerInv, GoneInv,
         InstalledInv, PartialInv, LoadedInv, PastDriverInv, BroadcastInv, OkInv, TypeOK

\* It ends well only after its own upload.
LEMMA VerifyInv == HmiInv /\ Verify => HmiInv'
<1> SUFFICES ASSUME HmiInv, Verify PROVE HmiInv'
  OBVIOUS
<1> USE DEF Verify, Do, InPlay, fuxa, history, End, Fault, ProcessStarts, DriverFound, Matches
<1>1. TypeOK'
  BY HmiAssumption DEF HmiInv, TypeOK
<1> QED
  BY <1>1 DEF HmiInv, ResultInv, UploadedInv, ProjectIsServed, ContainerInv, GoneInv,
         InstalledInv, PartialInv, LoadedInv, PastDriverInv, BroadcastInv, OkInv, TypeOK

\* A play dies, over an installation perhaps.
LEMMA PlayFailsInv == HmiInv /\ PlayFails => HmiInv'
<1> SUFFICES ASSUME HmiInv, PlayFails PROVE HmiInv'
  OBVIOUS
<1> USE DEF PlayFails, Do, InPlay, fuxa, history, End, Fault, ProcessStarts, DriverFound, Matches
<1>1. TypeOK'
  BY HmiAssumption DEF HmiInv, TypeOK
<1> QED
  BY <1>1 DEF HmiInv, ResultInv, UploadedInv, ProjectIsServed, ContainerInv, GoneInv,
         InstalledInv, PartialInv, LoadedInv, PastDriverInv, BroadcastInv, OkInv, TypeOK

\* A check that fails leads to an installation over the driver that is there.
LEMMA CheckFailsInv == HmiInv /\ CheckFails => HmiInv'
<1> SUFFICES ASSUME HmiInv, CheckFails PROVE HmiInv'
  OBVIOUS
<1> USE DEF CheckFails, Do, fuxa, history, Fault, DriverFound
<1>1. TypeOK'
  BY HmiAssumption DEF HmiInv, TypeOK
<1> QED
  BY <1>1 DEF HmiInv, ResultInv, UploadedInv, ProjectIsServed, ContainerInv, GoneInv,
         InstalledInv, PartialInv, LoadedInv, PastDriverInv, BroadcastInv, OkInv, TypeOK

\* What the script warns of, or takes for success.
LEMMA BroadcastRefusedInv == HmiInv /\ BroadcastRefused => HmiInv'
<1> SUFFICES ASSUME HmiInv, BroadcastRefused PROVE HmiInv'
  OBVIOUS
<1> USE DEF BroadcastRefused, Do, InPlay, fuxa, history, End, Fault, ProcessStarts, DriverFound, Matches
<1>1. TypeOK'
  BY HmiAssumption DEF HmiInv, TypeOK
<1> QED
  BY <1>1 DEF HmiInv, ResultInv, UploadedInv, ProjectIsServed, ContainerInv, GoneInv,
         InstalledInv, PartialInv, LoadedInv, PastDriverInv, BroadcastInv, OkInv, TypeOK

\* An upload that is lost is remembered as lost.
LEMMA UploadLostInv == HmiInv /\ UploadLost => HmiInv'
<1> SUFFICES ASSUME HmiInv, UploadLost PROVE HmiInv'
  OBVIOUS
<1> USE DEF UploadLost, Do, InPlay, fuxa, history, End, Fault, ProcessStarts, DriverFound, Matches
<1>1. TypeOK'
  BY HmiAssumption DEF HmiInv, TypeOK
<1> QED
  BY <1>1 DEF HmiInv, ResultInv, UploadedInv, ProjectIsServed, ContainerInv, GoneInv,
         InstalledInv, PartialInv, LoadedInv, PastDriverInv, BroadcastInv, OkInv, TypeOK

\* The container beside the plays.
LEMMA ContainerRestartsInv == HmiInv /\ ContainerRestarts => HmiInv'
<1> SUFFICES ASSUME HmiInv, ContainerRestarts PROVE HmiInv'
  OBVIOUS
<1> USE DEF ContainerRestarts, Do, InPlay, fuxa, history, End, Fault, ProcessStarts, DriverFound, Matches
<1>1. TypeOK'
  BY HmiAssumption DEF HmiInv, TypeOK
<1> QED
  BY <1>1 DEF HmiInv, ResultInv, UploadedInv, ProjectIsServed, ContainerInv, GoneInv,
         InstalledInv, PartialInv, LoadedInv, PastDriverInv, BroadcastInv, OkInv, TypeOK

\* A removed container takes its project along.
LEMMA ContainerRemovedInv == HmiInv /\ ContainerRemoved => HmiInv'
<1> SUFFICES ASSUME HmiInv, ContainerRemoved PROVE HmiInv'
  OBVIOUS
<1> USE DEF ContainerRemoved, Do, InPlay, fuxa, history, End, Fault, ProcessStarts, DriverFound, Matches
<1>1. TypeOK'
  <2>1. {loaded, broadcast, cut, warned, lost}' \subseteq BOOLEAN
    BY DEF HmiInv, TypeOK
  <2>2. faults' \in 0..MaxFaults
    BY HmiAssumption DEF HmiInv, TypeOK
  <2> QED
    BY <2>1, <2>2 DEF HmiInv, TypeOK
<1> QED
  BY <1>1 DEF HmiInv, ResultInv, UploadedInv, ProjectIsServed, ContainerInv, GoneInv,
         InstalledInv, PartialInv, LoadedInv, PastDriverInv, BroadcastInv, OkInv, TypeOK

-----------------------------------------------------------------------------
(* The theorems *)

\* Edits, plays and faults, in any order, keep the invariant.
THEOREM HmiInvariant == Spec => []HmiInv
<1>1. HmiInv /\ [Next]_vars => HmiInv'
  <2> SUFFICES ASSUME HmiInv, [Next]_vars PROVE HmiInv'
    OBVIOUS
  <2>1. CASE Play
    BY <2>1, RunContainerInv, CheckDriverInv, InstallDriverInv, RestartInv, FetchInv,
       ReadSettingsInv, SetBroadcastInv, PostInv, VerifyInv DEF Play
  <2>2. CASE UNCHANGED vars
    <3>1. /\ UNCHANGED <<role, file, container, driver, loaded, project, broadcast>>
          /\ UNCHANGED <<step, result, edits, faults, cut, warned, lost>>
      BY <2>2 DEF vars, fuxa, history
    <3> QED
      BY <3>1 DEF HmiInv, TypeOK, ResultInv, UploadedInv, ProjectIsServed, ContainerInv, GoneInv,
         InstalledInv, PartialInv, LoadedInv, PastDriverInv, BroadcastInv, OkInv
  <2> QED
    BY <2>1, <2>2, EditRoleInv, RunPlayInv, PlayFailsInv, CheckFailsInv,
       BroadcastRefusedInv, UploadLostInv,
       ContainerRestartsInv, ContainerRemovedInv DEF Next
<1> QED
  BY <1>1, InitInv, PTL DEF Spec

\* Projects, the container, its driver and the steps stay in their ranges.
THEOREM TypeCorrect == Spec => []TypeOK
<1>1. HmiInv => TypeOK
  BY DEF HmiInv
<1> QED
  BY <1>1, HmiInvariant, PTL

\* After a play that ended well FUXA serves the file of that play, whatever
\* plays died before, unless its upload was accepted and not kept (fuxa_bootstrap.py 221-237, main.yml 132-136).
THEOREM ProjectServed == Spec => []ProjectIsServed
<1>1. HmiInv => ProjectIsServed
  BY DEF HmiInv
<1> QED
  BY <1>1, HmiInvariant, PTL

\* It shows values too, unless an installation was cut off or the setting
\* was refused (main.yml 78-110, fuxa_bootstrap.py 171-177).
THEOREM ValuesShown == Spec => []ValuesAreShown
<1>1. HmiInv => ValuesAreShown
  <2> SUFFICES ASSUME HmiInv, result = "ok", container = "there"
               PROVE  (~cut => loaded) /\ (~warned => broadcast)
    BY DEF ValuesAreShown
  <2>1. step = "idle" /\ driver # "absent"
    BY DEF HmiInv, ResultInv, OkInv
  <2>2. ~cut => loaded
    BY <2>1 DEF HmiInv, LoadedInv
  <2> QED
    BY <2>2 DEF HmiInv, OkInv
<1> QED
  BY <1>1, HmiInvariant, PTL
=============================================================================
