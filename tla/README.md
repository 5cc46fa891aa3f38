# airfield-stacked: models, checks and proofs

The repository deploys a training range: an airfield network with a fuel farm
(simulator, PLC, HMI, historian, audit database), an air-traffic picture, and
the Windows, Splunk, Security Onion and Malcolm tiers around them. Most of it
is Ansible configuration of third-party products. The programs of its own are
the fuel-farm simulator, the PLC program, the scripts that provision PLC and
HMI, the ATC feeds and the deployment runner. This directory models them in
TLA+, checks the models with TLC and proves part of what they promise with
TLAPS.

Paths below are relative to `src/`. `FS` abbreviates
`roles/fuel_sim/files/fuelsim`.

## 1. The system

### 1.1 Fuel farm

One Python process (`FS/fuelsim.py`), supervised by systemd with
`Restart=on-failure`, runs six tasks on one asyncio loop:

| task | code | state it keeps | what it does |
|---|---|---|---|
| replay | `FS/replay.py` | position in the timeline, `wall_t0` | sleeps to the next event's offset and puts it on the event queue; wraps for ever |
| dispatcher | `FS/state_machine.py` `dispatch_loop` | `event_queue`, `open_loads`, `open_deliveries` | takes an event and runs its handler; handlers write tags, rack state and SQL statements |
| snapshots | `snapshot_loop` | none | once a second queues a `tank_snapshot` row per tank |
| flusher | `db_flusher` | `db_queue`, the connection, a local batch | once a second drains the queue into one transaction |
| physics | `FS/physics.py` | tank levels, rack totalizers, batch counters, ESD latch | every `dt` evaluates interlocks, moves fuel, publishes tags |
| Modbus server | `FS/modbus.py` | coils, discrete inputs, input and holding registers | serves the tag store to the PLC, the HMI and any other master |

They interact through three shared things: the tag store (state machine and
Modbus masters write commands, physics reads them and publishes status), the
rack objects (`dispensed_this_batch_gal` is reset by the state machine and
advanced by physics), and the two queues. The tasks are cooperative: a handler
that never really suspends is one step, and everything else may interleave.
The database (`roles/fuel_db`) outlives the process; everything else is memory.

The PLC (`roles/fuel_plc`, OpenPLC) polls the simulator as a Modbus master and
runs `fuel_farm.st`: a thread copies the simulator's inputs into a buffer, and
every scan takes the buffer over, computes permits, valves and their mirrors,
and on an emergency stop clears the commands too. FUXA, the HMI
(`roles/fuel_hmi`), writes coils of the PLC between scans. The historian reads
the PLC's registers as signed words. The PLC is provisioned by `openplc_bootstrap.py`, one HTTP call
after the other against the web server of a container which may restart between
any two of them; a second play follows when the first one failed. The HMI is
provisioned by `fuxa_bootstrap.py` in the same way, after its play has put a
driver into the container and restarted it.

What makes a fuel farm correct: an interlocked pump never runs, in particular
not during an emergency shutdown; what leaves the tanks is what the meters
counted and what the audit tables record; the registers say what the state
machine believes; the audit tables are a faithful, ordered, possibly gapped
record; a PLC output that is on speaks of inputs that were well just now; the
PLC and the HMI that a successful play leaves are those the roles describe.

### 1.2 The rest

| part | state | hard behaviour | correct when |
|---|---|---|---|
| ATC traffic feed (`roles/atc_inject`) | per port a list of clients under a lock | accept threads against broadcast, clients that read slowly or close in the middle of a frame | every stream is gapless, every client that stays is served, frames decode to what was sent |
| ATC flight data (`roles/atc_core`) | weather cache shared by request threads | slow fetches overtaken by later ones | weather shown as good is recent; an overtaken fetch sets it back by little |
| ATC weather (`roles/atc_weather`) | clock | two readings of the clock in one answer; text written here and read there | the ATIS letter is that of the METAR's hour or of the moment after; a report is read back as what was observed |
| deployment runner (`deploy.sh`) | attempt, retry file | scoped repair passes | success is declared by a full sweep only |
| host admission, domain join | reboots, probes, retry passes | hosts reboot while joining one controller | a host enters the main plays once stable |
| Splunk notable forwarder | time checkpoint | crash between checkpoint and send | no notable is lost |
| HMI provisioning (`roles/fuel_hmi`) | FUXA project and settings, driver in the container | a driver loaded only at start, a shallow check, refused settings | a play that ends well leaves the role's project, connected |
| network watchdogs | none | restart loops | the wanted value comes back |

`PROJECT.json` lists every part with its sources and status, and under
`hazards` the places in the code that are hard to test.

## 2. The modules

| module | models | code |
|---|---|---|
| `FuelPhysics` | one physics tick and every write to the tags from outside | `FS/physics.py`, `FS/modbus.py` |
| `AuditTables` | the SQL statements and their effect on the tables | `FS/state_machine.py`, `roles/fuel_db/templates/schema.sql.j2` |
| `DbFlusher` | queue, transaction, lost batch, lost acknowledgement, process end; parameterised by what a batch does to the database | `FS/state_machine.py` `db_flusher` |
| `AuditJournal` | abstract specification: what an audit trail keeps | none, it is the promise |
| `AuditLog` | the flusher over numbered statements; refines `AuditJournal` | `FS/state_machine.py` |
| `FuelStateMachine` | one action per event handler, on top of `FuelPhysics`, `AuditTables`, `DbFlusher` | `FS/state_machine.py` |
| `FuelSim` | the whole process: replay, dispatcher, physics, snapshots, flusher, shutdown button, restart | `FS/fuelsim.py`, `FS/replay.py`, `generate_timeline.py` |
| `PlcBootstrap` | play and script that provision the PLC, container, compiler | `roles/fuel_plc` |
| `FuelPlc` | the scan of the PLC program between the poll of its inputs and the masters that write its coils | `roles/fuel_plc/files/fuel_farm.st` |
| `RegisterCodec` | numbers in 16-bit registers, written and read back | `FS/modbus.py`, `roles/fuel_historian/templates/telegraf.conf.j2` |
| `HmiBootstrap` | play and script that provision the HMI, its container and driver | `roles/fuel_hmi` |
| `FeedServer` | sender, accept threads, locks and clients of the traffic feed | `roles/atc_inject/files/feed/atc_feed.py` |
| `SquitterCodec` | altitude, speed and escaping of its frames, with a receiver | `roles/atc_inject/files/feed/atc_feed.py` |
| `MetarCodec` | METAR and TAF as the feed composes them and the decoder reads them | `roles/atc_weather/files/weather/metar_feed.py`, `roles/atc_core/files/fdp/app.py` |
| `Deploy` | the attempts of the deployment runner | `deploy.sh` |
| `WeatherProxy` | request threads that race for the weather cache, and the feed's two clock readings | `roles/atc_core/files/fdp/app.py`, `roles/atc_weather/files/weather/metar_feed.py` |
| `MC*` | small instances | |
| `*_proofs` | theorems | |

`FuelSim` EXTENDS `FuelStateMachine`, which EXTENDS `FuelPhysics` and takes
`AuditTables` and `DbFlusher` by INSTANCE; `AuditLog` instantiates the same
`DbFlusher` with `Apply` as concatenation, so the delivery guarantee is once without tables and used below the tables.

The three codecs are operators without state. The MC modules of `FuelPlc`,
`FeedServer` and `WeatherProxy` extend the codec of their component and add one
variable, a sample, that never changes: with the one sample the component does
what it does, and with each of the others only the codec's property is looked
at, so that the component is not run once more for every number.

### 2.1 State and actions against the code

* `Tick` is one `_tick`: latch and reset are resolved in the order of the code,
  the source tank is the register's or the first open outlet, the interlock
  chain decides per rack, both racks drain one tank, `totalizer` counts whole
  gallons (`int()`) modulo its width and `dispensed` is the float counter of
  the batch. The interlocks of all racks are evaluated before any rack draws,
  which is why `LoSwitch` is read on the old level and two racks on one tank
  may take it below the switch together.
* Volumes are integers in a unit of which `UnitsPerGal` make a gallon. High
  switches, pressures and temperatures are displayed and never read back; they
  are left out.
* `Outside` lets a Modbus master write any coil and register and the field
  drive any input, one per step, between any two ticks.
* `OnOrderCreated` ... `OnDeliveryEnd` are the handlers, in full: tags,
  rack state, open loads and the statements they queue. A handler awaits only
  puts on an unbounded queue, which do not suspend, so it is one action.
* `ReplayEvent(s)` plays the next of the six events of a sortie. The shipped
  timeline is one merge of the sorties; the model lets TLC choose the merge.
  `Paced = TRUE` keeps loads on one rack and cycles of one truck apart, as the
  build sheet imagines the timeline; `Paced = FALSE` is what the generator
  really writes (212 of the 480 shipped sorties overlap on a rack).
* `FlushCommits`, `FlushFails` and `FlushCommitsUnseen` are the three ends of a
  batch. In all of them the batch leaves memory: it is a local variable.
* `Restart` loses memory and keeps `db`. Tank levels start anew.
* In `WeatherProxy` a request is as many steps as it touches the cache or the
  feed: `Request` (reads the clock), `Check`, `Hit`, `Observe`, `Letter`,
  `Forecast`, `Store`, `Stamp`, and `Fail` at either of the feed's two steps.
  `_WX["data"], _WX["t"] = out, now` is two stores, so another thread may come
  between them. The strips and the page are left out.
* In `PlcBootstrap` each action of `ProgramStep` and `DeviceStep` is one call
  of the script. `CallFails` ends the script at any call; `CallFailsUnnoticed`
  is a call whose result the script does not look at. `ContainerRestarts` and
  `CompilerEnds` belong to the container, `EditRole` to the maintainer.
  `missed`, `uncycled` and `blind` are history variables that no action reads:
  the runtime went on when a new program was to come, or after a change of its
  row, because a play died there or `/stop_plc` was refused; a query or the
  DELETE failed unseen in this play.

* In `FuelPlc` a discrete input is told by what it says against an operation,
  which folds the two polarities. `PollAnswered` and `PollUnanswered` write the
  buffer, `Scan` takes it over and runs the whole program, `MasterWrites`
  changes a coil between scans. `blockedFor` counts for how long each rack has
  had a fault.
* In `FeedServer` a frame crosses a socket in `Parts`, so `sendall` is as many
  steps and waits when the buffers are full. `TakeLock`, `SendPart`,
  `SendFails` and `Release` are `Server.send`; `Accept` and `Enlist` the accept
  thread on the two sides of its lock. One flight is on the air: its frames are
  places of a round of five ticks, two in the instance.
* In `HmiBootstrap` the actions of `Play` are the tasks and calls in their
  order, `CheckFails` the check of the driver that may fail; `cut`, `warned` and `lost` are history variables for the three ways in
  which a play that ends well may have promised too much.
* In `Deploy` the script's decisions are `Limited` (scope of an attempt) and
  `Decide` (what follows from the exit status); plays, the exit status and the
  retry file belong to Ansible. `selected` is what a `--limit` of the user's
  leaves of the inventory: it comes last on the command line and overrules the
  one of the retry file.
* In `SquitterCodec` the loops that double an escape and undo it are recursive
  functions over the bytes, `Stuffed` and `Seen`; a receiver's state is the
  frames it has and whether the last byte was an escape. In `FeedServer` the
  removal of the dead, `Without`, goes through the list in the order of the code.
* In `MetarCodec` `Taf` and `Decode` are the loops over hours and tokens, and
  `Band` is the first band whose edge is not reached. A token is a record of what it spells; its kind is its shape,
  by which the decoder's regular expressions tell tokens apart. The second word
  of "-RA BR" is not a token of its own. Winds and temperatures are in tenths
  and the altimeter in thousandths of their units, which the tokens round.
* In `RegisterCodec` `SetTotalizer` writes the high word to the HI tag always,
  `GetTotalizer` looks at the configured order, as the code does.

### 2.2 What is assumed of code outside the repository

PostgreSQL executes a batch atomically and in order. For the OpenPLC web server
`PlcBootstrap` assumes what the script relies on: starting a stopped runtime
loads the last program that compiled and the row as it then is, starting a
running one changes nothing, a device name is accepted once (a second one may
be refused or pass for success), a compilation request empties the log and
replaces a compilation in progress, and a container restart keeps the files and
leaves a stopped runtime. `WeatherProxy` assumes a web server that runs one
thread per request, and that a request is over within `MaxLatency`: two fetches
with a time-out of 1.5 s. The time-out is one per socket operation, so a feed
that sends its few hundred bytes in several pieces could exceed it; this feed
sends them in one.

`FuelPlc` assumes that OpenPLC takes the polled buffer over and runs a scan
under one lock, and that a poll is one request for the whole block of inputs.
`HmiBootstrap` assumes what the role's comments say of FUXA: project and
settings are kept outside the container, the driver inside, and it is loaded
when the server starts. `FeedServer` assumes a kernel that queues connections
in order, keeps the order of bytes, refuses data only after the other side's
reset, and a client's new connection only after the server closed the old one.
`Deploy` assumes Ansible's rules: a failed host leaves the sweep, a play all of
whose hosts fail ends it, failed hosts are written to the retry file, an error
that is no host's writes none, the last `--limit` of a command line counts.

## 3. What the runs check

| run | instance | shows |
|---|---|---|
| `physics_outside` | 1 rack, 2 tanks, meter modulo 2, all outside writes | types; a latched shutdown freezes levels and meters whatever is written; only a reset clears the latch; a load nobody ends is ended by the cutout |
| `audit_delivery` | 6 handlers of 1 to 3 statements, 2 restarts | rows in the order told, none twice, no handler in part; the log implements `AuditJournal` |
| `sim_paced` | 2 racks, 2 trucks on one tank, shutdowns, 2 laps | meters, tanks and load records agree; queue rows follow truck states; cutout |
| `sim_mishaps` | 1 rack, one truck twice, loads may overlap, 1 mishap | registers mirror open loads, batch counter agrees with meter, tables agree, fuel leaves only through loads |
| `sim_filled` | 1 sortie, 1 tank, snapshots, 1 mishap, fair | every order is filled in the end, because the next lap tells what was lost; recorded levels never rise while the process lives |
| `sim_reconcile` | two trucks on one rack, loads may overlap | finding: fuel drawn without a load record |
| `plc_plays` | 3 programs (one broken), 2 device settings, 2 edits, 2 faults | success means the role's program and device but in the named cases (`missed`, `uncycled`, `blind`); a healthy PLC is not interrupted; the runtime comes back |
| `plc_scan` | 1 rack with an input of either polarity, 1 pump, unanswered polls | an output that is on tells of inputs that were well a poll and a scan ago at most; a blocked rack is explained by the inputs beside it; registers keep what they can say, in the word order that the role configures, and what the other order makes of them |
| `hmi_plays` | 3 projects (one with a renamed view), 2 edits, 3 faults, fair | success means the role's project but after a lost upload (`lost`), driver and setting but in the two named cases (`cut`, `warned`); plays bring the HMI back |
| `feed_clients` | 2 clients of one port and 1 of the other, frames of 2 parts, room for 2, fair | streams are gapless; every client that stays is served; frames decode to what was sent |
| `wx_requests` | 2 threads (symmetric), requests of up to 2 units, 3 letters, hours of 3, 12 units; all severities | unflagged weather is recent; the cache goes back by no more than a request; the letter fits the report; the last good forecast stays; reports and forecasts are read back |
| `deploy_attempts` | 3 hosts, all or two of them selected, 3 plays, 3 runs of 3 attempts | success is a full sweep of the selected hosts; only a second attempt leaves out some of them |

### 3.1 Bounds

Meters wrap at 2, so that a load of two ticks already wraps. Levels are one or
two steps above the low switch, so that the cutout trips inside a load.
`MaxBacklog = 1` keeps one event between replay and dispatcher (with more,
only the distance between two handlers changes, and the number of ticks between
them is free anyway). `MaxQueued` bounds the statements waiting when another
handler runs, so batches hold one or two handlers; `audit_delivery` covers
longer queues. One mishap in the middle of a sortie hits every step of it.
`lap` counts quiet laps since the
last mishap, so the bound on laps never cuts off the lap that repairs. In
`PlcBootstrap` two faults cover a failed play and a failed repair; two edits
reach an edit during a play that is itself superseded. In `WeatherProxy` the
clock passes the time to live several times, four hours, so that
the three letters come round, and the end of the weather's cycle. An hour is longer than a request and there
is a letter that no moment of the request may carry, so `LetterFitsReport` tells
apart the two letters around a full hour and a wrong one; the bound of `UnflaggedIsRecent` is tight, one request less is
violated. In `FuelPlc` poll and scan take one unit each, so that every order of
the two lies within three, where `blockedFor` stops counting; a second rack
would repeat the first, since the program's lines for the two are alike.
`Word` is 8 instead of 65536: measurements run past both ends of it at every
scale. In `FeedServer` a frame is as long as the buffers, so that one client
fills up in the middle of the next frame; two ticks hold a round of both kinds.
Bytes are 0, the escape and the type that follows one, in every combination of
two frames of three. `Deploy` has a play whose only host may fail, which ends
the sweep, before and after plays that go on without it. Altitudes are checked
from about 350 ft to 48,650 ft and speeds to beyond what the field can hold.
Deadlock is checked except in `AuditLog` and `Deploy`, whose bounds let every
behaviour end.

### 3.2 Fairness

`FuelSim`: every task of the event loop is a loop around a sleep or a queue
read, and asyncio runs each one that is ready, so replay, dispatcher, physics
and flusher are weakly fair each. Snapshots and mishaps are not. The flusher's
fairness does not choose success: mishaps are bounded instead. `FuelPhysics`:
the tick is a timer. Nothing is assumed of the outside world.
`PlcBootstrap` and `HmiBootstrap`: the scripts have a deadline on every wait,
the compiler ends, and the play is run again after it ended; edits and faults
are bounded. `FeedServer`: threads run; a client reads what it is sent or
closes (nothing in the code makes it: a client that does neither stops the
sender, and with it both ports); and an accept thread gets a lock that is free
again and again, strong fairness, which the sender's sleep of a second between
ticks justifies. `FuelPlc` and `Deploy` are checked for safety only.

## 4. What is proved

Theorems hold for every value of the constants that satisfies the assumptions
named in the modules that declare them: `PhysicsAssumption` (levels and switches
are natural numbers; flow, unit and width of the meters positive ones),
`FleetAssumption` (a finite set of trucks), `SortieAssumption` (a truck is always
served by one rack, as in the generator), `AuditLogAssumption`,
`WeatherAssumption`, `DeployAssumption` (the number of attempts is not two: the
last one would be the limited one), `PlcAssumption` (a rack has an input whose
absence is a fault, as the deadman is; constants do not coincide),
`CodecAssumption` (a word has an even number of values), `FeedAssumption`
(frames and buffers have at least one piece, the place-holder for no client is
none), `SquitterAssumption` (the escape is not the type that follows it),
`HmiAssumption` and `BootstrapAssumption`. Three more are hypotheses of single theorems, because only those need them:

* `WholeGallons`: a step of the physics moves whole gallons. The code moves
  600 gal/min in steps of 0.2 s, two gallons; with half gallons `int()` would
  lose what the tank does not.
* `SwitchCoversStep`: a tank that is not below its low switch holds a step of
  all racks. The switch is at 5 % of 500,000 gallons; below that the level is
  clipped at zero and the meters count what was never there.
* `Paced`: the timeline keeps loads of one rack and cycles of one truck apart.
  Without it fuel leaves tanks unrecorded, which is what `sim_reconcile` shows.

| theorem | says | argument |
|---|---|---|
| `AuditLog_proofs!TypeCorrect` | `Spec => []TypeOK` | inductive |
| `OrderCorrect` | `Spec => []InOrderAtMostOnce` | strengthening `OrderInv`: `db \o dbQueue` is ordered and older than `told`; the three ends of a batch are a prefix or a removal of the middle |
| `WholeCorrect` | `Spec => []HandlersWhole` | strengthening: both `db` and `dbQueue` are whole; concatenations of whole logs are whole |
| `JournalCorrect` | `Spec => ImplementsJournal` | strengthening `JournalInv`: the queue holds an interval of handlers that ends with `told`, all later than those in the database; `JournalStep` maps every step to `Tell`, `Keep` or a stutter |
| `FuelSim_proofs!PhysTypeCorrect` | `PhysSpec => []PhysTypeOK` | inductive; `DrainBound` and `MeteredType` keep levels natural and meters inside their width |
| `CutoutCorrect` | `PhysSpec => []CutoutHolds` | inductive with types: a rack draws only from a tank above its switch (`DrawnAboveSwitch`) and at most `NRacks` draw at once (`DrawnByBound`) |
| `ShutdownCorrect` | `PhysSpec => ShutdownStopsFlow` | a latched step has no running pump, so `DrawnBy` is empty; no outside step touches the plant |
| `UnlatchCorrect` | `PhysSpec => OnlyResetUnlatches` | case split on the actions |
| `MetersPhysCorrect` | `PhysSpec => []MetersAccountForTanks` | strengthening `Accounted`; see 4.1 |
| `TypeCorrect` | `Spec => []TypeOK` | `TypeInv` (types, and events in the queue come from sorties) and `Bounds` (counters under their limits) |
| `MirrorCorrect` | `Spec => []RegistersMirrorOpenLoads` | inductive with `TypeInv`: `LoadStartMirrors` and `LoadEndMirrors` for the two handlers that touch a rack, the other steps leave mirror variables alone |
| `MetersCorrect` | `Spec => []MetersAccountForTanks`, given `WholeGallons`, `SwitchCoversStep` | `Accounted`, with the tick of `MetersPhysCorrect` |
| `BatchCorrect` | `Spec => []BatchAgreesWithMeter`, given `WholeGallons` | strengthening `BatchInv`: the number of turns of the meter since the load started exists |
| `LeavesCorrect` | `Spec => FuelLeavesThroughLoads` | `MirrorCorrect`: a running pump belongs to an open load |
| `TablesCorrect` | `Spec => []TablesAgree` | strengthening `TablesInv`: the queue is a safe transaction; see 4.1 |
| `QueueFollowsCorrect` | `Spec => []QueueFollowsTruck`, given `Paced` | strengthening `PlacedInv`; see 4.1 |
| `DrawdownCorrect` | `Spec => []DrawdownIsRecorded`, given `Paced`, `SwitchCoversStep` | strengthening `FuelInv`; see 4.1 |
| `SnapshotsCorrect` | `Spec => SnapshotsFall` | strengthening `SnapInv`; see 4.1 |
| `FeedServer_proofs!FeedTypeCorrect`, `FeedInvariant` | `Spec => []TypeOK`, `Spec => []FeedInv` | see 4.1 |
| `StreamsCorrect` | `Spec => []StreamsAreGapless` | from `FeedInv` |
| `AllFramesKept` | two frames of any bytes are received as their payloads | what a receiver has seen of a stream and one more byte is one step of it (`SeenAppend`); induction over the bytes of a payload (`FrameSeen`) |
| `AllAltitudesKept`, `AllSpeedsKept` | every altitude from -1000 ft to below 50,200 ft, every speed | arithmetic on quotient and remainder |
| `SquittersCorrect` | `MCSpec => []SquittersKeepContent` | the three above, and the sample never changes |
| `WeatherProxy_proofs!TypeCorrect` | `Spec => []TypeOK` | inductive |
| `RecentCorrect` | `Spec => []UnflaggedIsRecent` | strengthening `TimeInv`: when a request began and observed (`RequestTimes`), and that the stamp is at most one request ahead of the report beside it, also between the two stores (`CacheTimes`) |
| `BackCorrect` | `Spec => CacheGoesBackLittle` | only `Store` writes data, and `TimeInv` bounds what it writes from below |
| `LetterCorrect` | `Spec => []LetterFitsReport` | strengthening `LetterInv`: a report carries a fitting letter from `Letter` on, in the locals of a thread too |
| `ForecastCorrect` | `Spec => ForecastStays` | strengthening `ForecastInv`, an instance of `ReportsOverlap`: the reports of two threads at work lie within a request |
| `AllReportsKept` | a report of any severity, wind and temperature is read back | the tokens of a report by case of severity (`Tokens`), one lemma per kind of token for what the reader makes of it, then the report from left to right (`ReportRead`) |
| `AllForecastsKept` | a forecast of any sequence of hours is read back | induction over the hours: what is told for the first `h` stays told when the next one adds a group or none (`TellsNext`) |
| `WeatherCorrect` | `MCSpec => []WeatherIsReadBack` | the two above, and the severity never changes |
| `PlcBootstrap_proofs!TypeCorrect` | `Spec => []TypeOK` | inductive |
| `PlayInvariant` | `Spec => []PlayInv` | see 4.1 |
| `ProgramIsDeployed`, `DeviceIsPolled` | `Spec => []ProgramDeployedUnlessMissed`, `Spec => []DevicePolledUnlessUncycled` | from `PlayInv` in the idle state |
| `StopsForChange` | `Spec => StopsOnlyToChange` | from `PlayInv` at the two calls of `/stop_plc` |
| `HmiBootstrap_proofs!TypeCorrect`, `HmiInvariant` | `Spec => []HmiInv` | see 4.1 |
| `ProjectServed`, `ValuesShown` | `Spec => []ProjectIsServed`, `Spec => []ValuesAreShown` | from `HmiInv` |
| `FuelPlc_proofs!TypeCorrect`, `PlcInvariant` | `Spec => []PlcInv` | see 4.1 |
| `OutputsRecent`, `BlockExplained` | `Spec => []OutputsAreRecent`, `Spec => []BlockIsExplained` | from `PlcInv` |
| `MeasurementsKept`, `TotalsRecorded` | what registers keep and the historian records, for every number, scale and width, in either word order | arithmetic on quotient and remainder, no state |
| `TotalsKept`, `TotalsSwapped` | with `hi_first` every total is read back; with `lo_first` only one whose words are equal | the same |
| `RegistersKept` | `MCSpec => []RegistersKeepMeasurements`, both orders | the four above, and the sample never changes |
| `Deploy_proofs!TypeCorrect`, `DeployInvariant` | `Spec => []DeployInv` | see 4.1 |
| `SuccessFullSweep`, `RepairsOnlyFailures` | `Spec => []SuccessIsFullSweep`, `Spec => []RepairsFollowFailures` | from `DeployInv` |

### 4.1 The inductive invariants

Few of the properties are inductive as they stand.

* `CutoutHolds` needs the types (a level must be a number to be compared);
  `InOrderAtMostOnce` does not exclude an ordered database followed by an
  unordered queue.
* `MetersAccountForTanks` is stated modulo the width of the meters. `Accounted`
  names the number of whole turns; a step adds to it the turns of this step.
  Sums over tanks and racks are sums over finite sets: that a sum of pointwise
  sums is the sum of sums is proved over the subsets of a finite set ordered by
  inclusion, by a smallest counterexample.
* `TablesAgree` speaks of the database, which changes only when a batch
  commits. `GoodDbs` are the databases whose tables agree and `SafeBatches`
  the transactions that lead from each of them to another one. What a handler
  queues is a safe transaction, and two after each other are one. So the
  queue is always safe to commit, to refuse or to lose, which is why it matters
  that handlers queue their statements in one step.
* `QueueFollowsTruck` relates the database to itself, but why it holds lies in
  the timeline. `PlacedInv` says that there is a paced progress `K` of the sorties
  such that the queued events lead from `K` to what replay has reached,
  through paced progress only, and that tables (with the queued statements
  executed) and memory are at `K`. Replay extends the path at its end, the
  dispatcher removes its first event.
* `DrawdownIsRecorded` is about moments without an open load. `FuelInv` says for all
  moments that what left a tank is in the load table, in a queued statement
  or on the batch counter of an open load.
* `SnapshotsFall` compares two databases. `SnapInv` says that every level in the
  queue lies between the last recorded and the present one (`Falling`), so that
  a batch may be lost without its successor rising above its predecessor.
* `PlcInv` follows a fault by its age: `FieldInv` in the field, `PolledInv` in
  the buffer, `SeenInv` in the inputs of the scan, `OnInv` and `OffInv` in the
  coils. `OutputsAreRecent` is the sum of the two periods on that way.
* `PlayInv` says what the runtime runs and polls at each call of the script,
  and where that stops being known: `GivenInv` ties what compiled last to the
  file of the play but for a forced play that has not stopped the runtime yet,
  `PolledInv` ties the polled device to the row but between its change and the
  restart. It holds until `missed`, `uncycled` or `blind` say that the runtime went
  on over something older or that the play misjudged the row; a start of a stopped
  runtime, and the next play, end these exceptions.
* `HmiInv` does the same for project, driver and setting; `LoadedInv` is the
  part that `cut` breaks: a driver in the container is loaded except between
  its installation and the restart.
* `FeedInv` adds three parts to `StreamsAreGapless`. `SenderInv`: the sender is
  inside its list, or just past its end with a new frame, and whoever it is about
  to remove has been reset. `PlaceInv`: a connection is at one place of one
  list, on its own port. `StreamInv`: a client that is not listed has been
  sent nothing, and one that is being sent a later part has got an earlier
  one. Then each step is a question of what is due: a part sent is the one
  due and what is due moves on by `PieceAfter`; the sender that passes to the
  next client or frame moves `Due` of nobody (`OthersDue`, `TakeLockDue`), the
  removal of the dead changes indices but not what is due to those who stay
  (`ReleaseDue`), and a client that is enlisted at the end of a list moves
  nobody else's (`EnlistDue`). `NextOnAfter` and `NextIsFirst` say that to
  look for the next frame of a port from any place in between finds the same one.
* `DeployInv` says which hosts an attempt covers (`ScopeInv`), what a sweep
  without failures has completed (`ProgressInv`) and what the retry file
  holds between first and second attempt (`RetryInv`).

### 4.2 What stays with TLC

* Liveness (`CutoutEndsForgottenLoad`, `EveryOrderFilled`, `PlantComesBack`,
  `HmiComesBack`, `EveryClientServed`): fairness and ENABLED are out of the
  prover's reach.

Every invariant and every action property that a passing run checks is stated by
a theorem of the table; these five are what only the runs show, for their instances.
`DrawdownIsRecorded`, which `sim_reconcile` refutes, is proved where the timeline
is paced.

The library's theorems on induction take an operator as a parameter, which no
installed prover can instantiate. Where a definition is a recursive function or
a fold (finite sums, batches, a receiver's state, a forecast), induction is brought into
the form of a set: the set of lengths for which a fact holds contains zero and
with each length the next (`NatSetInduction`, `InductionTo`), or among the
subsets for which it does not hold there would be a smallest one. That the
recursive function exists at all is such a fact (`Recursion`, `SeenExists`,
`ReadingExists`). The codecs' theorems range over all values; the samples of the
runs are where TLC tries the same definitions out.

## 5. Where the code and its documents disagree

1. `sim_reconcile`: `load_start` on a rack with an open load overwrites it
   (`FS/state_machine.py:237`); the first truck's `load_end` finds nothing and
   its gallons are in no `load_txn`. The build sheet says drawdown equals the
   sum of `load_txn.gallons`.

The following are told by the models too, as the exceptions that a property
names or as behaviour that none of them excludes:

2. `set_totalizer` (`FS/modbus.py:168`) does not look at `totalizer_word_order`,
   `get_totalizer` (`:159`) does. The docstring (`:16`) and the comment over the
   register pairs (`:103`) say that the order is configurable. With `lo_first` a
   total comes back with its words exchanged, so that only one with two equal
   words is read back (a conjunct of `RegistersKeepMeasurements`, `TotalsSwapped`);
   the shipped `hi_first` (`group_vars/fuel.yml:85`) is consistent.
3. `connect failed; will retry` (`FS/state_machine.py:151`) describes a batch
   that is already gone; `DbFlusher!FlushFails` loses it, and `HandlersWhole`
   only says that it is lost as a whole.
4. On the second lap the same `order_id` meets `ON CONFLICT DO NOTHING`
   (`FS/state_machine.py:197`); the order is FILLED while its sortie is under
   way, although the build sheet says that the loop wraps cleanly.
5. `openplc_bootstrap.py:498` compares program names; `--force-program` is
   passed only on the play whose copy task changed the file. If that play fails
   before `/stop_plc`, the next one reports success over the old program. So does
   the play itself when the server refuses `/stop_plc`, whose answer nobody looks
   at (`:211`): `/start_plc` then finds the old program running (both are
   `missed` in `ProgramDeployedUnlessMissed`).
6. The device step (`openplc_bootstrap.py:536`) reads only the database row; if
   a play dies between adding it and cycling the runtime, the next one reports
   success over a runtime that does not poll the simulator; so does a play whose
   second `/stop_plc` is refused (`:442`). A query or DELETE that fails unseen
   (`:339`, `:364`) leaves the old row, and the page that refuses a second one
   may pass for success (`uncycled` and `blind` in `DevicePolledUnlessUncycled`).
7. The HMI play has the same shape: if it dies between installing the driver
   and restarting the container, the next finds the directory and restarts
   nothing (`cut` in `ValuesAreShown`).
8. `deploy.sh:427` reads the retry file as that of the previous attempt. The
   loop does not remove a file that an interrupted run left; a global error in
   the first attempt then limits the second to an old list
   (`RepairsFollowFailures`). The third attempt is a full sweep all the same.
9. The docstring of `project_matches` (`fuxa_bootstrap.py:103`) says that the
   device's type is `Modbus`; the constant and the template say `ModbusTCP`.
10. `LR2_METER_HI` is input register 10 of the simulator; the PLC mirrors ten
   registers (0 to 9) and the historian reads it at 110, which its own comment
   calls a padding gap (`telegraf.conf.j2:65`). Totals of rack 2 wrap at 16
   bits there, against the build sheet's acceptance test (`:366`).
11. The PLC clears its own coils on an emergency stop and writes nothing to the
    simulator, whose commands stay set behind its latch: after the reset the
    flow resumes.

## 6. Not modelled, and the plan

Worth proving next: that levels are recorded in falling order within each
lifetime of the process, not only the first (`SnapshotsFall`), and that the
actions of the two provisioning scripts, which end by a bounded count, do end.

Not modelled:

* `stack_op_forwarder.py` saves the time of the last notable before it sends
  them, so those of a failed connection are lost. What it reads and sends is
  the text that the Splunk command line prints, which is not in the repository;
  a model would be mostly guesses about that text.
* A task of the simulator that dies alone while the event loop lives on.
* Host admission and domain join: probes whose answers decide everything.
* The `--tags` and the other options that a user may hand to `deploy.sh`: with
  some plays skipped on request, success speaks of the others.
* The offsets of the timeline generator and the traffic schedule (random
  numbers and real arithmetic, computed off line), the positions of aircraft,
  the formulas of the weather, the call sign's alphabet and the checksum of a
  frame, the flight strips and the pages of the flight data processor.
* The watchdogs, which set one thing to its wanted value again and again.
* The playbooks of the Windows, Splunk, Security Onion, Malcolm and mail tiers
  (what they do is decided by third-party products), and the static checks of
  the repository.

## 7. Running it

    tlc -workers 2 -config MCFuelSim_paced.cfg MCFuelSim.tla
    tlapm FuelSim_proofs.tla

`PROJECT.json` lists all runs, the mutants that each property is tested with,
and for each definition the lines of the code that it translates. A mutant is
an operator just before the definition it would replace, with a comment that
says which mistake it stands for.
