------------------------- MODULE PlcBootstrap_proofs -------------------------
(* Theorems about PlcBootstrap, for any programs, any settings of the      *)
(* slave device and any number of edits and faults.  The invariant behind  *)
(* them says what each call of the script can rely on, and how what runs,  *)
(* what compiled and what is on disk are related wherever a play ended.    *)
EXTENDS PlcBootstrap, TLAPS

\* The play is at work on the slave devices.
DeviceSteps == {"query", "delete", "add", "stop2", "start2", "poll2"}

\* A result is that of the last play, until the next one begins.
ResultInv == step # "idle" => result = "none"

\* What is uploaded is the file of this play ...
UploadedInv == step \in {"register", "compile", "await"} => uploaded = given.st

\* ... and the compilation that the script waits for is of that file.
AwaitedInv ==
    step = "await" =>
        /\ compiling \in {given.st, Image}
        /\ log = "ok" => compiling = Image /\ built = given.st

\* What is started compiled from the file of this play.
BuiltInv == step \in {"start", "poll"} => built = given.st

\* Nothing compiles behind the script's back once it starts a runtime.
SettledInv ==
    /\ step \in {"compile", "await", "start", "poll"} \cup DeviceSteps => named = "ours"
    /\ step \in {"start", "poll"} \cup DeviceSteps => compiling = Image

\* A runtime runs what compiled last, unless the script wanted it to stop
\* and it went on.
RunningInv ==
    ~missed /\ runtime # Stopped =>
        /\ step \notin {"upload", "register", "compile", "await", "start"}
        /\ named = "ours" /\ compiling = Image
        /\ runtime.program = built

\* What compiled last is what the last play brought, but for a forced play
\* that has yet to stop the runtime, or missed to.
GivenInv ==
    ~missed =>
        /\ runtime # Stopped /\ ~(force /\ step \in {"look", "stop"}) => built = given.st
        /\ step \in DeviceSteps => built = given.st

\* Only a play with a new program goes on to stop a runtime that runs.
ForceInv ==
    ~missed /\ runtime # Stopped =>
        /\ step = "stop" => force
        /\ force /\ step \in {"look", "stop"} => built # given.st

\* A runtime polls the device of the row, but between a change of the row
\* and the restart; and a play that sees its row changes it only when the
\* runtime polls another one.
PolledInv ==
    ~uncycled /\ runtime # Stopped =>
        /\ step \notin {"add", "stop2"} \/ (step = "add" /\ row # NoDevice) =>
              runtime.device = row
        /\ ~blind /\ step \in {"delete", "add", "stop2"} => runtime.device # given.device

\* The row when a device is added, and after, as a play that sees it knows.
RowInv ==
    ~blind =>
        /\ step = "add" => row = NoDevice
        /\ step \in {"stop2", "start2", "poll2"} \/ result = "ok" => row = given.device

\* The inductive invariant of play and runtime.
PlayInv ==
    /\ TypeOK /\ ResultInv
    /\ UploadedInv /\ AwaitedInv /\ BuiltInv /\ SettledInv
    /\ RunningInv /\ GivenInv /\ ForceInv
    /\ PolledInv /\ RowInv

-----------------------------------------------------------------------------
(* Steps *)

\* Before the first play nothing runs.
LEMMA InitInv == Init => PlayInv
<1> SUFFICES ASSUME Init PROVE PlayInv
  OBVIOUS
<1>1. TypeOK
  <2>1. {force, missed, uncycled, blind} \subseteq BOOLEAN
    BY DEF Init
  <2>2. 0 \in 0..MaxEdits /\ 0 \in 0..MaxFaults
    BY BootstrapAssumption
  <2> QED
    BY <2>1, <2>2 DEF Init, TypeOK
<1> QED
  BY <1>1 DEF Init, PlayInv, ResultInv, UploadedInv, AwaitedInv, BuiltInv, SettledInv,
              RunningInv, GivenInv, ForceInv, PolledInv, RowInv, DeviceSteps

\* The role is edited beside the plays.
LEMMA EditRoleInv == PlayInv /\ EditRole => PlayInv'
<1> SUFFICES ASSUME PlayInv, EditRole PROVE PlayInv'
  OBVIOUS
<1> USE DEF PlayInv, EditRole, server, history, DeviceSteps
<1>1. TypeOK'
  BY BootstrapAssumption DEF TypeOK, Runtimes, Roles
<1>2. ResultInv' /\ UploadedInv' /\ AwaitedInv' /\ BuiltInv' /\ SettledInv'
  BY DEF TypeOK, ResultInv, UploadedInv, AwaitedInv, BuiltInv, SettledInv
<1>3. RunningInv' /\ GivenInv' /\ ForceInv'
  BY DEF TypeOK, AwaitedInv, BuiltInv, SettledInv, RunningInv, GivenInv, ForceInv
<1>4. PolledInv' /\ RowInv'
  BY DEF TypeOK, ResultInv, RunningInv, PolledInv, RowInv
<1> QED
  BY <1>1, <1>2, <1>3, <1>4

\* A play begins, over the container that is there or over a fresh one.
LEMMA RunPlayInv == PlayInv /\ RunPlay => PlayInv'
<1> SUFFICES ASSUME PlayInv, RunPlay PROVE PlayInv'
  OBVIOUS
<1> USE DEF PlayInv, RunPlay, FreshServer, server, history, DeviceSteps
<1>1. TypeOK'
  <2>1. {force', missed', uncycled', blind'} \subseteq BOOLEAN
    BY Zenon DEF TypeOK
  <2> QED
    BY <2>1, BootstrapAssumption DEF TypeOK, Runtimes, Roles
<1>2. ResultInv' /\ UploadedInv' /\ AwaitedInv' /\ BuiltInv' /\ SettledInv'
  BY DEF TypeOK, ResultInv, UploadedInv, AwaitedInv, BuiltInv, SettledInv
<1>3. RunningInv' /\ GivenInv' /\ ForceInv'
  BY DEF TypeOK, AwaitedInv, BuiltInv, SettledInv, RunningInv, GivenInv, ForceInv
<1>4. PolledInv' /\ RowInv'
  BY DEF TypeOK, ResultInv, RunningInv, PolledInv, RowInv
<1> QED
  BY <1>1, <1>2, <1>3, <1>4

\* The calls that bring the program ...
LEMMA LookAtDashboardInv == PlayInv /\ LookAtDashboard => PlayInv'
<1> SUFFICES ASSUME PlayInv, LookAtDashboard PROVE PlayInv'
  OBVIOUS
<1> USE DEF PlayInv, LookAtDashboard, SkipProgram, ProgramOK, InCall, server, history, DeviceSteps
<1>1. TypeOK'
  BY BootstrapAssumption DEF TypeOK, Runtimes, Roles
<1>2. ResultInv' /\ UploadedInv' /\ AwaitedInv' /\ BuiltInv' /\ SettledInv'
  BY DEF TypeOK, ResultInv, UploadedInv, AwaitedInv, BuiltInv, SettledInv
<1>3. RunningInv' /\ GivenInv' /\ ForceInv'
  BY DEF TypeOK, AwaitedInv, BuiltInv, SettledInv, RunningInv, GivenInv, ForceInv
<1>4. PolledInv' /\ RowInv'
  BY DEF TypeOK, ResultInv, RunningInv, PolledInv, RowInv
<1> QED
  BY <1>1, <1>2, <1>3, <1>4

\* The runtime is stopped only before a new program.
LEMMA StopForUploadInv == PlayInv /\ StopForUpload => PlayInv'
<1> SUFFICES ASSUME PlayInv, StopForUpload PROVE PlayInv'
  OBVIOUS
<1> USE DEF PlayInv, StopForUpload, Do, InCall, server, history, DeviceSteps
<1>1. TypeOK'
  BY BootstrapAssumption DEF TypeOK, Runtimes, Roles
<1>2. ResultInv' /\ UploadedInv' /\ AwaitedInv' /\ BuiltInv' /\ SettledInv'
  BY DEF TypeOK, ResultInv, UploadedInv, AwaitedInv, BuiltInv, SettledInv
<1>3. RunningInv' /\ GivenInv' /\ ForceInv'
  BY DEF TypeOK, AwaitedInv, BuiltInv, SettledInv, RunningInv, GivenInv, ForceInv
<1>4. PolledInv' /\ RowInv'
  BY DEF TypeOK, ResultInv, RunningInv, PolledInv, RowInv
<1> QED
  BY <1>1, <1>2, <1>3, <1>4

\* The program that is uploaded is the one of the repository.
LEMMA UploadInv == PlayInv /\ Upload => PlayInv'
<1> SUFFICES ASSUME PlayInv, Upload PROVE PlayInv'
  OBVIOUS
<1> USE DEF PlayInv, Upload, Do, InCall, server, history, DeviceSteps
<1>1. TypeOK'
  BY BootstrapAssumption DEF TypeOK, Runtimes, Roles
<1>2. ResultInv' /\ UploadedInv' /\ AwaitedInv' /\ BuiltInv' /\ SettledInv'
  BY DEF TypeOK, ResultInv, UploadedInv, AwaitedInv, BuiltInv, SettledInv
<1>3. RunningInv' /\ GivenInv' /\ ForceInv'
  BY DEF TypeOK, AwaitedInv, BuiltInv, SettledInv, RunningInv, GivenInv, ForceInv
<1>4. PolledInv' /\ RowInv'
  BY DEF TypeOK, ResultInv, RunningInv, PolledInv, RowInv
<1> QED
  BY <1>1, <1>2, <1>3, <1>4

\* It is named as the program to compile.
LEMMA RegisterInv == PlayInv /\ Register => PlayInv'
<1> SUFFICES ASSUME PlayInv, Register PROVE PlayInv'
  OBVIOUS
<1> USE DEF PlayInv, Register, Do, InCall, server, history, DeviceSteps
<1>1. TypeOK'
  BY BootstrapAssumption DEF TypeOK, Runtimes, Roles
<1>2. ResultInv' /\ UploadedInv' /\ AwaitedInv' /\ BuiltInv' /\ SettledInv'
  BY DEF TypeOK, ResultInv, UploadedInv, AwaitedInv, BuiltInv, SettledInv
<1>3. RunningInv' /\ GivenInv' /\ ForceInv'
  BY DEF TypeOK, AwaitedInv, BuiltInv, SettledInv, RunningInv, GivenInv, ForceInv
<1>4. PolledInv' /\ RowInv'
  BY DEF TypeOK, ResultInv, RunningInv, PolledInv, RowInv
<1> QED
  BY <1>1, <1>2, <1>3, <1>4

\* Compilation is of that file.
LEMMA CompileInv == PlayInv /\ Compile => PlayInv'
<1> SUFFICES ASSUME PlayInv, Compile PROVE PlayInv'
  OBVIOUS
<1> USE DEF PlayInv, Compile, Do, InCall, server, history, DeviceSteps
<1>1. TypeOK'
  BY BootstrapAssumption DEF TypeOK, Runtimes, Roles
<1>2. ResultInv' /\ UploadedInv' /\ AwaitedInv' /\ BuiltInv' /\ SettledInv'
  BY DEF TypeOK, ResultInv, UploadedInv, AwaitedInv, BuiltInv, SettledInv
<1>3. RunningInv' /\ GivenInv' /\ ForceInv'
  BY DEF TypeOK, AwaitedInv, BuiltInv, SettledInv, RunningInv, GivenInv, ForceInv
<1>4. PolledInv' /\ RowInv'
  BY DEF TypeOK, ResultInv, RunningInv, PolledInv, RowInv
<1> QED
  BY <1>1, <1>2, <1>3, <1>4

\* Only a compilation of it that succeeded leads on.
LEMMA AwaitCompileInv == PlayInv /\ AwaitCompile => PlayInv'
<1> SUFFICES ASSUME PlayInv, AwaitCompile PROVE PlayInv'
  OBVIOUS
<1> USE DEF PlayInv, AwaitCompile, Do, InCall, End, server, history, DeviceSteps
<1>1. TypeOK'
  BY BootstrapAssumption DEF TypeOK, Runtimes, Roles
<1>2. ResultInv' /\ UploadedInv' /\ AwaitedInv' /\ BuiltInv' /\ SettledInv'
  BY DEF TypeOK, ResultInv, UploadedInv, AwaitedInv, BuiltInv, SettledInv
<1>3. RunningInv' /\ GivenInv' /\ ForceInv'
  BY DEF TypeOK, AwaitedInv, BuiltInv, SettledInv, RunningInv, GivenInv, ForceInv
<1>4. PolledInv' /\ RowInv'
  BY DEF TypeOK, ResultInv, RunningInv, PolledInv, RowInv
<1> QED
  BY <1>1, <1>2, <1>3, <1>4

\* The start asks for the compiled program.
LEMMA StartProgramInv == PlayInv /\ Start("start", "poll") => PlayInv'
<1> SUFFICES ASSUME PlayInv, Start("start", "poll") PROVE PlayInv'
  OBVIOUS
<1> USE DEF PlayInv, Start, Started, Do, InCall, server, history, DeviceSteps
<1>1. TypeOK'
  BY BootstrapAssumption DEF TypeOK, Runtimes, Roles
<1>2. ResultInv' /\ UploadedInv' /\ AwaitedInv' /\ BuiltInv' /\ SettledInv'
  BY DEF TypeOK, ResultInv, UploadedInv, AwaitedInv, BuiltInv, SettledInv
<1>3. RunningInv' /\ GivenInv' /\ ForceInv'
  BY DEF TypeOK, AwaitedInv, BuiltInv, SettledInv, RunningInv, GivenInv, ForceInv
<1>4. PolledInv' /\ RowInv'
  BY DEF TypeOK, ResultInv, RunningInv, PolledInv, RowInv
<1> QED
  BY <1>1, <1>2, <1>3, <1>4

\* The poll goes on until the program runs or patience ends.
LEMMA PollProgramInv == PlayInv /\ PollProgram => PlayInv'
<1> SUFFICES ASSUME PlayInv, PollProgram PROVE PlayInv'
  OBVIOUS
<1> USE DEF PlayInv, PollProgram, Do, InCall, End, server, history, DeviceSteps
<1>1. TypeOK'
  BY BootstrapAssumption DEF TypeOK, Runtimes, Roles
<1>2. ResultInv' /\ UploadedInv' /\ AwaitedInv' /\ BuiltInv' /\ SettledInv'
  BY DEF TypeOK, ResultInv, UploadedInv, AwaitedInv, BuiltInv, SettledInv
<1>3. RunningInv' /\ GivenInv' /\ ForceInv'
  BY DEF TypeOK, AwaitedInv, BuiltInv, SettledInv, RunningInv, GivenInv, ForceInv
<1>4. PolledInv' /\ RowInv'
  BY DEF TypeOK, ResultInv, RunningInv, PolledInv, RowInv
<1> QED
  BY <1>1, <1>2, <1>3, <1>4

\* ... and those that bring the device.
LEMMA QueryDeviceInv == PlayInv /\ QueryDevice => PlayInv'
<1> SUFFICES ASSUME PlayInv, QueryDevice PROVE PlayInv'
  OBVIOUS
<1> USE DEF PlayInv, QueryDevice, DeviceIsCurrent, End, server, history, DeviceSteps
<1>1. TypeOK'
  BY BootstrapAssumption DEF TypeOK, Runtimes, Roles
<1>2. ResultInv' /\ UploadedInv' /\ AwaitedInv' /\ BuiltInv' /\ SettledInv'
  BY DEF TypeOK, ResultInv, UploadedInv, AwaitedInv, BuiltInv, SettledInv
<1>3. RunningInv' /\ GivenInv' /\ ForceInv'
  BY DEF TypeOK, AwaitedInv, BuiltInv, SettledInv, RunningInv, GivenInv, ForceInv
<1>4. PolledInv'
  BY DEF TypeOK, ResultInv, RunningInv, PolledInv, RowInv
<1>5. RowInv'
  BY DEF TypeOK, ResultInv, RowInv
<1> QED
  BY <1>1, <1>2, <1>3, <1>4, <1>5

\* A stale row of the device goes first.
LEMMA DeleteRowInv == PlayInv /\ DeleteRow => PlayInv'
<1> SUFFICES ASSUME PlayInv, DeleteRow PROVE PlayInv'
  OBVIOUS
<1> USE DEF PlayInv, DeleteRow, Do, InCall, server, history, DeviceSteps
<1>1. TypeOK'
  BY BootstrapAssumption DEF TypeOK, Runtimes, Roles
<1>2. ResultInv' /\ UploadedInv' /\ AwaitedInv' /\ BuiltInv' /\ SettledInv'
  BY DEF TypeOK, ResultInv, UploadedInv, AwaitedInv, BuiltInv, SettledInv
<1>3. RunningInv' /\ GivenInv' /\ ForceInv'
  BY DEF TypeOK, AwaitedInv, BuiltInv, SettledInv, RunningInv, GivenInv, ForceInv
<1>4. PolledInv' /\ RowInv'
  BY DEF TypeOK, ResultInv, RunningInv, PolledInv, RowInv
<1> QED
  BY <1>1, <1>2, <1>3, <1>4

\* The device is added with its settings.
LEMMA AddDeviceInv == PlayInv /\ AddDevice => PlayInv'
<1> SUFFICES ASSUME PlayInv, AddDevice PROVE PlayInv'
  OBVIOUS
<1> USE DEF PlayInv, AddDevice, Do, InCall, End, server, history, DeviceSteps
<1>1. TypeOK'
  BY BootstrapAssumption DEF TypeOK, Runtimes, Roles
<1>2. ResultInv' /\ UploadedInv' /\ AwaitedInv' /\ BuiltInv' /\ SettledInv'
  BY DEF TypeOK, ResultInv, UploadedInv, AwaitedInv, BuiltInv, SettledInv
<1>3. RunningInv' /\ GivenInv' /\ ForceInv'
  BY DEF TypeOK, AwaitedInv, BuiltInv, SettledInv, RunningInv, GivenInv, ForceInv
<1>4. PolledInv' /\ RowInv'
  BY DEF TypeOK, ResultInv, RunningInv, PolledInv, RowInv
<1> QED
  BY <1>1, <1>2, <1>3, <1>4

\* A new device takes a stop.
LEMMA StopForDeviceInv == PlayInv /\ StopForDevice => PlayInv'
<1> SUFFICES ASSUME PlayInv, StopForDevice PROVE PlayInv'
  OBVIOUS
<1> USE DEF PlayInv, StopForDevice, Do, InCall, server, history, DeviceSteps
<1>1. TypeOK'
  BY BootstrapAssumption DEF TypeOK, Runtimes, Roles
<1>2. ResultInv' /\ UploadedInv' /\ AwaitedInv' /\ BuiltInv' /\ SettledInv'
  BY DEF TypeOK, ResultInv, UploadedInv, AwaitedInv, BuiltInv, SettledInv
<1>3. RunningInv' /\ GivenInv' /\ ForceInv'
  BY DEF TypeOK, AwaitedInv, BuiltInv, SettledInv, RunningInv, GivenInv, ForceInv
<1>4. PolledInv' /\ RowInv'
  BY DEF TypeOK, ResultInv, RunningInv, PolledInv, RowInv
<1> QED
  BY <1>1, <1>2, <1>3, <1>4

\* ... and a start.
LEMMA StartDeviceInv == PlayInv /\ Start("start2", "poll2") => PlayInv'
<1> SUFFICES ASSUME PlayInv, Start("start2", "poll2") PROVE PlayInv'
  OBVIOUS
<1> USE DEF PlayInv, Start, Started, Do, InCall, server, history, DeviceSteps
<1>1. TypeOK'
  BY BootstrapAssumption DEF TypeOK, Runtimes, Roles
<1>2. ResultInv' /\ UploadedInv' /\ AwaitedInv' /\ BuiltInv' /\ SettledInv'
  BY DEF TypeOK, ResultInv, UploadedInv, AwaitedInv, BuiltInv, SettledInv
<1>3. RunningInv' /\ GivenInv' /\ ForceInv'
  BY DEF TypeOK, AwaitedInv, BuiltInv, SettledInv, RunningInv, GivenInv, ForceInv
<1>4. PolledInv' /\ RowInv'
  BY DEF TypeOK, ResultInv, RunningInv, PolledInv, RowInv
<1> QED
  BY <1>1, <1>2, <1>3, <1>4

\* The poll goes on until the runtime is up or patience ends.
LEMMA PollDeviceInv == PlayInv /\ PollDevice => PlayInv'
<1> SUFFICES ASSUME PlayInv, PollDevice PROVE PlayInv'
  OBVIOUS
<1> USE DEF PlayInv, PollDevice, End, server, history, DeviceSteps
<1>1. TypeOK'
  BY BootstrapAssumption DEF TypeOK, Runtimes, Roles
<1>2. ResultInv' /\ UploadedInv' /\ AwaitedInv' /\ BuiltInv' /\ SettledInv'
  BY DEF TypeOK, ResultInv, UploadedInv, AwaitedInv, BuiltInv, SettledInv
<1>3. RunningInv' /\ GivenInv' /\ ForceInv'
  BY DEF TypeOK, AwaitedInv, BuiltInv, SettledInv, RunningInv, GivenInv, ForceInv
<1>4. PolledInv' /\ RowInv'
  BY DEF TypeOK, ResultInv, RunningInv, PolledInv, RowInv
<1> QED
  BY <1>1, <1>2, <1>3, <1>4

\* A play dies at any call.
LEMMA CallFailsInv == PlayInv /\ CallFails => PlayInv'
<1> SUFFICES ASSUME PlayInv, CallFails PROVE PlayInv'
  OBVIOUS
<1> USE DEF PlayInv, CallFails, End, Fault, server, history, DeviceSteps
<1>1. TypeOK'
  BY BootstrapAssumption DEF TypeOK, Runtimes, Roles
<1>2. ResultInv' /\ UploadedInv' /\ AwaitedInv' /\ BuiltInv' /\ SettledInv'
  BY DEF TypeOK, ResultInv, UploadedInv, AwaitedInv, BuiltInv, SettledInv
<1>3. RunningInv' /\ GivenInv' /\ ForceInv'
  BY DEF TypeOK, AwaitedInv, BuiltInv, SettledInv, RunningInv, GivenInv, ForceInv
<1>4. PolledInv' /\ RowInv'
  BY DEF TypeOK, ResultInv, RunningInv, PolledInv, RowInv
<1> QED
  BY <1>1, <1>2, <1>3, <1>4

\* A call fails and the play goes on.
LEMMA CallFailsUnnoticedInv == PlayInv /\ CallFailsUnnoticed => PlayInv'
<1> SUFFICES ASSUME PlayInv, CallFailsUnnoticed PROVE PlayInv'
  OBVIOUS
<1> USE DEF PlayInv, CallFailsUnnoticed, Do, Fault, server, DeviceSteps, history
<1>1. TypeOK'
  <2>1. {force', missed', uncycled', blind'} \subseteq BOOLEAN
    BY Zenon DEF TypeOK
  <2> QED
    BY <2>1, BootstrapAssumption DEF TypeOK, Runtimes, Roles
<1>2. ResultInv' /\ UploadedInv' /\ AwaitedInv' /\ BuiltInv' /\ SettledInv'
  BY DEF TypeOK, ResultInv, UploadedInv, AwaitedInv, BuiltInv, SettledInv
<1>3. RunningInv' /\ GivenInv' /\ ForceInv'
  BY DEF TypeOK, AwaitedInv, BuiltInv, SettledInv, RunningInv, GivenInv, ForceInv
<1>4. PolledInv'
  BY DEF TypeOK, ResultInv, RunningInv, PolledInv, RowInv
<1>5. RowInv'
  BY DEF TypeOK, ResultInv, RowInv
<1> QED
  BY <1>1, <1>2, <1>3, <1>4, <1>5

\* The compiler and the container beside the plays.
LEMMA CompilerEndsInv == PlayInv /\ CompilerEnds => PlayInv'
<1> SUFFICES ASSUME PlayInv, CompilerEnds PROVE PlayInv'
  OBVIOUS
<1> USE DEF PlayInv, CompilerEnds, server, history, DeviceSteps
<1>1. TypeOK'
  BY BootstrapAssumption DEF TypeOK, Runtimes, Roles
<1>2. ResultInv' /\ UploadedInv' /\ AwaitedInv' /\ BuiltInv' /\ SettledInv'
  BY DEF TypeOK, ResultInv, UploadedInv, AwaitedInv, BuiltInv, SettledInv
<1>3. RunningInv' /\ GivenInv' /\ ForceInv'
  BY DEF TypeOK, AwaitedInv, BuiltInv, SettledInv, RunningInv, GivenInv, ForceInv
<1>4. PolledInv' /\ RowInv'
  BY DEF TypeOK, ResultInv, RunningInv, PolledInv, RowInv
<1> QED
  BY <1>1, <1>2, <1>3, <1>4

\* A restarted container runs nothing and compiles nothing.
LEMMA ContainerRestartsInv == PlayInv /\ ContainerRestarts => PlayInv'
<1> SUFFICES ASSUME PlayInv, ContainerRestarts PROVE PlayInv'
  OBVIOUS
<1> USE DEF PlayInv, ContainerRestarts, Fault, server, history, DeviceSteps
<1>1. TypeOK'
  BY BootstrapAssumption DEF TypeOK, Runtimes, Roles
<1>2. ResultInv' /\ UploadedInv' /\ AwaitedInv' /\ BuiltInv' /\ SettledInv'
  BY DEF TypeOK, ResultInv, UploadedInv, AwaitedInv, BuiltInv, SettledInv
<1>3. RunningInv' /\ GivenInv' /\ ForceInv'
  BY DEF TypeOK, AwaitedInv, BuiltInv, SettledInv, RunningInv, GivenInv, ForceInv
<1>4. PolledInv' /\ RowInv'
  BY DEF TypeOK, ResultInv, RunningInv, PolledInv, RowInv
<1> QED
  BY <1>1, <1>2, <1>3, <1>4

-----------------------------------------------------------------------------
(* The theorems *)

\* What every action of Next keeps.
LEMMA NextInv == PlayInv /\ [Next]_vars => PlayInv'
<1> SUFFICES ASSUME PlayInv, [Next]_vars PROVE PlayInv'
  OBVIOUS
<1>1. CASE ProgramStep
  BY <1>1, LookAtDashboardInv, StopForUploadInv, UploadInv, RegisterInv, CompileInv,
     AwaitCompileInv, StartProgramInv, PollProgramInv DEF ProgramStep
<1>2. CASE DeviceStep
  BY <1>2, QueryDeviceInv, DeleteRowInv, AddDeviceInv, StopForDeviceInv, StartDeviceInv,
     PollDeviceInv DEF DeviceStep
<1>3. CASE UNCHANGED vars
  <2>1. /\ UNCHANGED <<role, given, runtime, built, named, uploaded, compiling, log, row>>
        /\ UNCHANGED <<step, force, result, edits, faults, missed, uncycled, blind>>
    BY <1>3 DEF vars, server, history
  <2> QED
    BY <2>1 DEF PlayInv, TypeOK, ResultInv, UploadedInv, AwaitedInv, BuiltInv, SettledInv,
                RunningInv, GivenInv, ForceInv, PolledInv, RowInv
<1> QED
  BY <1>1, <1>2, <1>3, EditRoleInv, RunPlayInv, CallFailsInv, CallFailsUnnoticedInv,
     CompilerEndsInv, ContainerRestartsInv DEF Next

\* Edits, plays, faults and the compiler, in any order, keep the invariant.
THEOREM PlayInvariant == Spec => []PlayInv
BY InitInv, NextInv, PTL DEF Spec

\* Programs, devices and the steps of the script stay in their ranges.
THEOREM TypeCorrect == Spec => []TypeOK
<1>1. PlayInv => TypeOK
  BY DEF PlayInv
<1> QED
  BY <1>1, PlayInvariant, PTL

\* After a play that ended well the PLC runs the program on disk, whatever
\* plays died and whatever calls failed unseen before, unless a forced play
\* died before /stop_plc or /stop_plc was refused, and no later play has
\* stopped the runtime (openplc_bootstrap.py 209-211, 497-523, main.yml 111-116).
THEOREM ProgramIsDeployed == Spec => []ProgramDeployedUnlessMissed
<1>1. PlayInv => ProgramDeployedUnlessMissed
  <2> SUFFICES ASSUME PlayInv, ~missed, result = "ok", runtime # Stopped
               PROVE  runtime.program = given.st
    BY DEF ProgramDeployedUnlessMissed, ProgramDeployed, Succeeded
  <2>1. step = "idle"
    BY DEF PlayInv, ResultInv
  <2> QED
    BY <2>1 DEF PlayInv, RunningInv, GivenInv
<1> QED
  BY <1>1, PlayInvariant, PTL

\* It polls the simulator as the flags say, unless the runtime went on after
\* a change of the row, as a play died before the restart or its /stop_plc was
\* refused (openplc_bootstrap.py 440-442, 531-565), or in this play a query or
\* the DELETE of the row failed unseen (339-376).
THEOREM DeviceIsPolled == Spec => []DevicePolledUnlessUncycled
<1>1. PlayInv => DevicePolledUnlessUncycled
  <2> SUFFICES ASSUME PlayInv, ~uncycled, ~blind, result = "ok", runtime # Stopped
               PROVE  runtime.device = given.device
    BY DEF DevicePolledUnlessUncycled, DevicePolled, Succeeded
  <2>1. step = "idle"
    BY DEF PlayInv, ResultInv
  <2> QED
    BY <2>1 DEF PlayInv, PolledInv, RowInv
<1> QED
  BY <1>1, PlayInvariant, PTL

-----------------------------------------------------------------------------
(* The action property *)

\* Of the actions, four can stop a runtime; the two calls of the script do
\* so for a reason.
LEMMA StopsForReason ==
    ASSUME PlayInv, Next, runtime # Stopped, runtime' = Stopped,
           faults' = faults, ~missed, ~uncycled, ~blind
    PROVE  runtime.program # given.st \/ runtime.device # given.device
<1>1. faults \in Nat
  BY DEF PlayInv, TypeOK
<1>2. CASE RunPlay
  BY <1>1, <1>2 DEF RunPlay, server
<1>3. CASE ContainerRestarts \/ CallFails \/ CallFailsUnnoticed
  BY <1>1, <1>3 DEF ContainerRestarts, CallFails, CallFailsUnnoticed, Fault
<1>4. CASE StopForUpload
  <2>1. step = "stop" /\ force
    BY <1>4 DEF StopForUpload, Do, PlayInv, ForceInv
  <2>2. built # given.st /\ runtime.program = built
    BY <2>1 DEF PlayInv, ForceInv, RunningInv
  <2> QED
    BY <2>2
<1>5. CASE StopForDevice
  BY <1>5 DEF StopForDevice, Do, PlayInv, PolledInv
<1>6. CASE Start("start", "poll") \/ Start("start2", "poll2")
  <2>1. runtime' = runtime
    BY <1>6 DEF Start, Started
  <2> QED
    BY <2>1
<1>7. CASE EditRole \/ CompilerEnds
  <2>1. runtime' = runtime
    BY <1>7 DEF EditRole, CompilerEnds, server
  <2> QED
    BY <2>1
<1>8. CASE \/ LookAtDashboard \/ Upload \/ Register \/ Compile \/ AwaitCompile \/ PollProgram
           \/ QueryDevice \/ DeleteRow \/ AddDevice \/ PollDevice
  <2>1. runtime' = runtime
    BY <1>8 DEF LookAtDashboard, Upload, Register, Compile, AwaitCompile, PollProgram,
                QueryDevice, DeleteRow, AddDevice, PollDevice, End, server
  <2> QED
    BY <2>1
<1> QED
  BY <1>2, <1>3, <1>4, <1>5, <1>6, <1>7, <1>8 DEF Next, ProgramStep, DeviceStep

\* A play of an unchanged role over a healthy PLC does not interrupt control,
\* but for the cases that the two theorems above except
\* (openplc_bootstrap.py 497-508, 526-531).
THEOREM StopsForChange == Spec => StopsOnlyToChange
<1> DEFINE Reason == \/ faults' # faults
                     \/ missed \/ uncycled \/ blind
                     \/ runtime.program # given.st
                     \/ runtime.device # given.device
<1>1. PlayInv /\ [Next]_vars =>
          [runtime # Stopped /\ runtime' = Stopped => Reason]_vars
  BY StopsForReason
<1> QED
  BY <1>1, PlayInvariant, PTL DEF Spec, StopsOnlyToChange
=============================================================================
