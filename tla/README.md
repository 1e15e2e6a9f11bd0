# A TLA+ model of entity-manager

This directory holds TLA+ modules that model the programs of this repository, the
TLC configurations that check them on small instances, and proofs checked by TLAPS.
`PROJECT.json` maps every definition to the lines it stands for, and lists the runs,
the mutants that show each property can fail, the hazards and the theorems.

    tlc -workers 2 -config MCRescan.cfg MCRescan      # check a model
    tlapm RescanProof.tla                             # check the proofs of a module

Contents: 1 the system, 2 the modules, 3 the runs, 4 fairness, 5 the proofs,
6 where code and documents part, 7 what is not modelled, 8 the plan.

## 1. The system: components, state, operations, hazards

**entity-manager** (`src/src/entity_manager`) is one process with one thread, a Boost
`io_context`. It detects hardware by probing D-Bus objects, instantiates JSON
configurations for what it finds, and publishes them.

| component | state | operations | what is hard | correct when |
|---|---|---|---|---|
| rescan engine (`entity_manager.cpp`, `shutdown_monitor.cpp`, `power_status_monitor.cpp`) | one steady_timer used both to debounce signals (500 ms) and to delay the report of removed devices (10 s); an instance counter; an in-progress flag; `systemConfiguration`, `lastJson`; what is on D-Bus and in `system.json` | `propertiesChangedCallback`, its debounced half, scan completion, `pruneConfiguration`, `publishNewConfiguration`, `postToDbus`, `startRemovedTimer` | each use of the timer cancels the other; signals during a scan; a scan completes before the last one is published; the host and the system go down | no signal is lost, scans do not overlap, outputs agree with the inventory, nothing is persisted during shutdown |
| scan (`perform_scan.cpp`) | a chain of `PerformScan` objects linked by their destructors; the objects read so far; names and indexes in use | `run`, `findDbusObjects`, `getInterfaces`, `updateSystemConfiguration` | mapper and GetAll calls fail, are retried by timers, and are answered in any order while objects change; what a pass finds lets another configuration pass | a fixpoint is reached, every scan ends, the inventory is what the bus offers, names are stable |
| probes (`probe_lexer.cpp`, `perform_probe.cpp`) | none | `lexProbe`, `doProbe` | AND, OR, MATCH_ONE without precedence | the outcome is that of a left-to-right reading |
| persistence and run-time changes (`configuration.cpp`, `dbus_interface.cpp`) | `systemConfiguration`; D-Bus interfaces with JSON pointers into it; `system.json` | AddObject, Delete, setters, `writeJsonFiles`, `handleCurrentConfigurationJson` | crash or power loss between file operations; pointers that outlive what they point to | what a client set survives, in the place it was set |
| topology (`topology.cpp`) | which boards are on which port in which role; the paths boards were probed on | `addBoard`, `addProbePath`, `getAssocs` | boards of one port come in different scans, associations are made once, when a board is published | a board is shown in what it was put into, whatever the order |
| overlay (`overlay.cpp`) | none of its own; devices in sysfs, one timer per try | `loadOverlays`, `exportDevice`, `buildDevice` | five tries 500 ms apart for drivers that bind when they like; devices left by an earlier process; two records of one device | what can be bound is bound, nothing is left without its driver |
| expose actions (`perform_scan.cpp`) | elements of the records in `systemConfiguration` | Bind, DisableNode | applied once, to the records that are there by then; published and saved at other times; not applied again when restored | a fan is joined with its connector |
| expressions, templates (`utils.cpp`, `expression.cpp`) | none | `templateCharReplace`, `evaluate` | a string is gone through once per interface and twice beneath Exposes; what is replaced may be found again | every variable is replaced by its property, expressions are computed |

**fru-device** (`src/src/fru_device`) is one process with one thread and a helper
thread per bus scan. It reads FRU EEPROMs from I2C buses and publishes them.

| component | state | operations | what is hard | correct when |
|---|---|---|---|---|
| daemon (`fru_device.cpp`) | `busMap`, `fruAddresses`, `failedAddresses`, the blocklist, the D-Bus interfaces and their indexes, one rescan timer | ReScan, ReScanBus, WriteFru, UpdateFruField, inotify of `/dev`, bus scans with a time limit | buses come and go; mux channels echo their root; partial rescans; writes that break off | every FRU is published once, D-Bus shows the map, writes are shown |
| transfers | one EEPROM and its page | detection of 8- or 16-bit offsets, `readData`, `writeFRU` | retries at a page's end | bytes end up in order |
| codec (`fru_utils.cpp`) | none | `formatIPMIFRU`, `disassembleFruData`, `setField`, `assembleFruData` | areas that move when one grows; missing fields and areas; padding and checksums | an update changes one field and nothing else |
| reader (`fru_reader.cpp`, `readFRUContents`) | a block cache and the end of the EEPROM | `read`, `findFRUHeader`, the walk over areas and records | short reads, failing reads, headers that lie | what is returned is what the device has |

**gpio-presence** (`src/src/gpio-presence`) is one process with C++20 coroutines on one
thread. It asks entity-manager for `GPIODeviceDetect` configurations, requests their
lines and publishes a presence interface. State: `presenceMap`, `gpioLines`, `gpioState`,
`fdios`. Hard: configurations that share lines and come and go between two
awaits of the coroutines that serve them. Correct when presence is what the lines say.

**cbc-tray-topology-parser** (`src/src/cbc_tray_topology_parser.cpp`) reads one field of cable
cartridges, which other services have on D-Bus, and publishes the numbers it stands for.
State: `cbcObjects`, three matches, calls to the mapper and to the services that are not
answered yet. Hard: an answer is as old as its call, and messages of different senders are not
in order. Correct when a path shows the numbers of the cartridge that is there.

**devicetree-vpd-parser** reads four device-tree files once and publishes them.

They interact through D-Bus: fru-device and gpio-presence publish objects, entity-manager's
probes match them, and its records are the configurations gpio-presence reads.

The hazards, each at its line with the properties that would catch it, are in
`PROJECT.json`; smaller ones are in 6 and 7.

## 2. The modules

| module | models | state and actions |
|---|---|---|
| `Rescan` | the engine | `ready` is the io_context's queue of handlers: each action of `Run` takes its head and runs one handler to its end. `timer` is the wait pending on the shared timer; `Expires` queues its handler, which can then no longer be cancelled, as Boost has it. `scan` is the `PerformScan` in flight, abstracted to one read per object |
| `RescanPromise` | what clients of the engine rely on: a request is followed by a scan that begins later | three booleans; `Rescan` implements it (`KeepsPromise`, with the mapping pending = `dirty`, scanning = `inProgress`, stopped = `shutdownStarted`) |
| `Probe` | the probe language | operators only |
| `PerformScan` | the scan in detail (extends `Probe`) | `BeginScan`, `NextPass`, `MapperReplies`, `Reply`, `CallFails` ... one action per callback; the environment changes objects and sends the signals the daemon has matched |
| `Persistence` | run-time changes and `system.json` | one action per D-Bus call and per handler, and one per file operation of `writeJsonFiles` (`saving`), so that `Crash`, `PowerLoss` and `FileFails` come between any two; `afterLoss` is the set of contents a power loss may leave |
| `FruDevice` | the fru-device daemon | one action per bus read, per callback, per D-Bus call and per inotify event; the environment plugs devices, binds muxes and moves the host |
| `FruTransfer` | one write through `writeFRU`, byte by byte, to an EEPROM of any kind | `Detect`, `WriteByte`, `WriteFails`, `Finish` |
| `FruContents` | one run of `readFRUContents` over `FRUReader`; a byte is the position it was read from, `contents` is the code's `device` | a step per area, record, chunk; `ReadBlock` is one turn of the reader's loop; reads may be short or fail, and the EEPROM may shrink |
| `GpioPresence` | the gpio-presence daemon | a step per coroutine between its awaits; the environment exports and removes configurations, moves lines, fails line requests; `Dies` and `Restart` where an exception leaves a coroutine |
| `Topology` | ports, roles and associations | operators over the set `ports` of (port, board, role) |
| `Publication` | what becomes of a scan's records: overlays, then associations (extends `Topology`) | `Scan` ends one with new boards, of which those in `lastJson` are restored and the others configured; `publishNewConfiguration`, `writeJsonFiles` and `postToDbus` are the posted handlers; `exportDevice` is one turn of `loadOverlays`' loop, between which a process may end; `CreateTimerFires` is a try; `Binds` is a driver that comes up late; `Crash` restarts the process with what it saved, or with nothing |
| `ExposeActions` | Bind and DisableNode, from the scan that configures a record to D-Bus and `system.json` and back | `Configure` is `updateSystemConfigurationForDevice` with all actions of the record, `Restore` has none; `publishNewConfiguration`, `writeJsonFiles` and `postToDbus` are the posted handlers; they know which records are new and read the live `systemConfiguration` of them; scans go on between them; `Restart` |
| `Template` | templates and expressions: one string and the object it is replaced from | operators only; `Replaced` is all that is done to a string, the second time beneath Exposes and the end of the last time included |
| `FruCodec` | taking a FRU apart, changing a field, putting it together, checking it | operators over sequences of bytes |
| `FruUpdate` | UpdateFruField from the call to what D-Bus shows (extends `FruCodec`) | `UpdateFruField` is one call, `writeFRU` included, which may break off after some bytes; `TimerFires` is the rescan; `Restart` |
| `FieldStore` | what a client may rely on: a field is set in what the daemon last read, and nothing else changes | three variables; `FruUpdate` implements it (`OneFieldChanges`, with store = what the EEPROM stands for, known = what D-Bus shows) |
| `CbcTopology` | cbc-tray-topology-parser | one action per handler and per kind of reply; an inbox per sender, since D-Bus keeps the order of one sender's messages and of no two; the environment adds, changes and removes the objects of services, fails calls, and ends services and the daemon |
| `QueueLemmas`, `RescanProof` | lemmas about queues, which the other proof modules use; the theorems about `Rescan` | |
| `PerformScanProof` | the theorems about `PerformScan` and `Probe` | |
| `PublicationProof` | the theorems about the overlays and the associations of `Publication` | |
| `ExposeActionsProof` | the theorems about `ExposeActions` | |
| `SettingsProof` | the theorems about what clients set: `Persistence`, `FruUpdate` | |
| `FollowersProof` | the theorems about the daemons that follow what others publish: `GpioPresence`, `CbcTopology` | |
| `FruDeviceProof` | the theorems about the fru-device daemon: `FruDevice`, `FruTransfer`, `FruContents` | |
| `MC*` | instances for TLC | |

`Rescan` and `PerformScan` are two views of the same scan. `Rescan` keeps the queue, timer,
publication and persistence and reads every object once; `PerformScan` keeps the calls,
passes, probes and names and takes the engine's debounce as "a scan may begin when it
is asked for". `Rescan.Answered` is `PerformScan.Reply`.

Abstractions worth knowing:

* In `PerformScan` a record's name is the tuple (configuration, property map) that
  `getRecordName` hashes, so equal property maps collapse as they do in the code.
  A template name is resolved to an index or to a label.
* In `FruDevice` a FRU is a name and some fields; a product name that itself ends in
  `_<digits>` is not in the instances, and no product is named as a vendor of drives, whose paths
  have the bus as their number (`NamesAssumption`). What does not parse is published at the address of the
  drives and nowhere else, its first two bytes being taken for the vendor. `EveryFruOnce` leaves out the baseboard's file, which
  no blocklist is asked about. A single inotify read of several events is a
  sequence of steps with nothing between.
* In `Persistence` an element of Exposes has a key (Name and Type), one value, its
  thresholds, and whether its last member is still there.
* In `FruUpdate` a FRU is its bytes; what it stands for (`StandsFor`) is the encoding and bytes of
  every field, missing ones being empty, the fixed bytes of its areas, and the internal
  area and the records as they are. `torn` is history: the last write broke off, or was of more than the
  EEPROM holds.
* In `ExposeActions` an element is its name, its Status, what is combined with it, the names it
  binds and those it disables. Names are not templates. Two values of one list are two names.
  Only which records are published is decided when their scan ends; what is shown of them is what the
  inventory has when `postToDbus` runs.
* In `Template` a string is a sequence of words, spaces, operators, numbers and pieces of names, and what
  its author means by it is a sequence of texts, variables and expressions, from which
  the string is written and against which the result is compared. Words are longer than a character.
* In `CbcTopology` a field is a sequence of two-digit tokens. Its own signals, which the daemon
  drops by their sender, are not sent. A path about which the daemon is not told all there is
  to know is `excused` until the next start: two services have it at once, a call or the creation
  of an interface fails, a service dies without taking its objects off.
* In `Publication` an I2C device is absent, made, or made and bound; `hasHWMonDir` are those that
  only count as created once bound. Writing `system.json` is one step, that may fail; its file operations
  are `Persistence`'s. `lastJson` decides which boards are restored, and so get no probing path.
* Undefined behaviour is a choice: `FruDevice` lets a reference into a flat map that was
  reallocated read anything; `GpioPresence` lets the erasure of an end iterator and
  the wait on a freed fdio end the process or not.

## 3. The runs

Passing runs (each property has a mutant of the code that breaks it):

| run | instance and bounds | shows |
|---|---|---|
| `rescan` | two configurations, one templated and behind host power; `MaxInstance` = 3 signals taken, at most `MaxReady` = 3 handlers queued when the environment adds one; 5.4e5 states | `NoSignalLost`, `NewestWaits`, `DetectedWhenQuiet`, `OutputsAgree`, `NeverPublishedTwice`, `ShutdownFreezes`; liveness `RemovalIsDecided`; refinement `KeepsPromise` with its fairness: one scan at a time, and every request is followed by a scan that begins later |
| `scan` | four configurations loaded so that each depends on one behind it, two paths, two interfaces, three cards; first boot and a boot with records; `MaxChanges` = 2 changes of hardware, 2 GetAll tries, 1 mapper retry; 9.4e5 states. `PassesLeftToRight` is about all well-formed probes of up to five tokens, and is judged in the initial states, by what is on the bus there | `InventoryCurrent`, `PassesLeftToRight`, `ScanReachesFixpoint`, `NamesAreKept`, `ScanEnds` |
| `persist` | a chassis with a settable and a read-only element with two thresholds, a riser that may be absent; `MaxOps` = 4 calls and faults; 1.1e6 states | `NeverBroken`, `SetIsSaved`, `OwnSlot`, `ReturnsAsItWas`, `ComesUp` |
| `fru_scan` | a root bus and a mux channel; the baseboard, a device behind a driver, a blocked address, one of several devices (namesakes, mute, garbled), a drive; writes that break off, time limits; `MaxOps` = 3; 7.5e5 states | `PathsAreUnique`, `DBusShowsTheMap`, `EveryFruOnce`, `OthersKeepTheirPath` |
| `fru_transfer` | pages of three bytes, FRUs of up to two pages, all 16 kinds of EEPROM, both detection modes, two retries | `DetectionIsRight`, `PagesInOrder`, `PageReadsBack` |
| `fru_contents` | two areas and multirecords, all headers over small offsets, six sizes of EEPROM, a header at 0 or behind a maker's magic | `FittingIsExact` |
| `fru_update` | four FRUs of 96 bytes: a chassis area and records that end at no block; an internal, a chassis and a board area; padding that looks like an end; one record. Three fields (named, custom, of an area that is missing), values of 0, 1, 3 and 10 bytes, writes that break off in the header, an area, or behind; `MaxCalls` = 2 | `WholeIsWellFormed`; refinement `OneFieldChanges`; liveness `UpdateIsShown` |
| `publish` | a chassis with associations of its own that says it powers the board too, a board that claims to power it, a supply under a custom name that powers the board and claims more than it may; board and supply are probed on a path; two devices, one of them exposed twice; `MaxFailures` = 4 of the five tries, `MaxCrashes` = 1, after which each board is restored or new; 4.8e5 states | `EarlierOnesAreAssociated`, `NoHalfDevices`; liveness `BoundInTheEnd` |
| `expose` | a baseboard with two connectors and a fan, a chassis whose fans bind both connectors and that disables the baseboard's fan, a backplane that disables one of them, binds its own and names itself; any order and grouping of scans, `MaxRestarts` = 2; 3.9e4 states. `ReplacedAsMeant` quantifies over all strings of up to three of eleven pieces (text, variables with text glued to them, expressions, a division by zero), five objects (no property, one interface, two in both orders, names that begin others), beneath Exposes and elsewhere, and is evaluated once | `InOrderIsShown`, `ComesBackAsSaved`, `ReplacedAsMeant` |
| `cbc` | a path, two services, good fields, one of another revision, one that is no number; `MaxChanges` = 3, `MaxFaults` = 1; 4.0e5 states | `NothingIsMissed`; liveness `EventuallyShown` |
| `gpio` | two configurations that share a line, one of two lines may fail, and so may GetSubTree at every start; `MaxChanges` = 3 exports and removals; 4.1e5 states | `PresenceIsTrue`, `NeverDeaf`, `EventuallyTrue` |

Why the bounds are enough: the engine's hazards are races of at most three counted events
(the one whose scan runs, the one that waits, the one that cancels it), the probing hazards
need one dependency chain longer than the load order resolves in one pass, a
restart and a device more than the last boot had; index and path hazards need two namesakes
and a third event that changes which is first. OwnSlot needs four calls (two adds, a delete,
an add), which is why `persist` has four. A page boundary needs a page and a byte; a cache
hazard needs three blocks. A lost update needs two calls before a rescan, and so does a call that
starts from a torn FRU. The order of boards needs three on one port in three scans. A
cartridge that is added, changed and removed is three changes, and hands over to another
service in two. Two uses of a variable and a third piece tell apart the orders in which a string's
variables and expressions are searched. A restart that finds what a process saved half way needs a
second one.

`TypeOK` says what the variables hold, for the reader and for the proofs; a theorem states it for every
module with state but `Publication` (whose `DeviceTypes` and `AssocInv` have the types), `FruUpdate` and the
abstract specifications. It is a property of no run.

Deadlock is checked in `rescan`, `persist`, `fru_update` and `expose`, where a handler, a signal or a restart
is always possible. The other instances stop when their bounded environment does; in those the
liveness properties (`ScanEnds`, `EventuallyTrue`, `BoundInTheEnd`, `EventuallyShown`) say that what
remains is not a state in which someone still waits.

One run is a violation, see 6: `rescan_prune`.

## 4. Fairness

* `Rescan.FairSpec`: WF of `Run` (the io_context runs what is queued), of `Expires` (a
  steady_timer expires unless it is cancelled) and of `Answers` (D-Bus calls are answered
  or time out). Nothing is assumed of signals, power or shutdown.
* `PerformScan.FairSpec`: WF of `Scanning`: posted handlers, retries and replies. It is
  written out as `[]<>~MayScan \/ []<><<Scanning>>_vars`, because evaluating ENABLED
  of the action is slow. None of failures, signals or hardware.
* `Persistence.FairSpec`: WF of `Handler`, which has the restart by systemd (`Restart=always`),
  and of the first scan, which `main` posts. Faults are bounded by `MaxOps` and never fair.
* `FruUpdate.LiveSpec`: WF of the rescan timer, which nothing but another request moves. None of
  restarts.
* `Publication.FairSpec`: WF of the posted handlers, and of the timer of each export that waits.
  Scans, failures, late drivers and crashes are free; failures and crashes are bounded.
* `CbcTopology.FairSpec`: WF of the start (systemd restarts the daemon: `Restart=always`), of the
  daemon's handlers, and of each service's answers: D-Bus answers every call, if only with an
  error when the service is gone. Changes and faults are bounded and not fair.
* `GpioPresence.FairSpec`: WF of coroutines that are ready, of answers, of events for
  lines that have one, and of the restart.

No run needs strong fairness.

## 5. The proofs

A theorem holds for every value of the constants that the named `ASSUME`s of the module
allow, and for any number of steps: `MaxInstance`, `MaxOps`, `MaxChanges` and the like are any
natural numbers. Each rests on an inductive invariant, which the theorem's property is a
part or a consequence of; TLC finds each of them to hold on the instance of the module's run, but for
the conjuncts that quantify over all numbers. The proof that a step keeps it has a case or a lemma for each action, and lemmas for the helpers
several actions use.

**`RescanProof`** (any configurations; `Templated` and `NeedsPower` are some of them)

* `TypeCorrect`: `TypeOK` is inductive. The queue is the only part that needs care: `QueueLemmas` has
  what `Head`, `Tail`, `Append` and dispatching do to the handlers in it.
* `SignalsAreKept` (`NoSignalLost`): once a signal was taken (`dirty`), a debounce wait is pending or
  its expired handler is queued, until a scan begins. `WaitsAreNewest` (`NewestWaits`): a pending
  debounce wait carries a count that neither the scan nor any queued handler carries. Neither is
  inductive alone. That `startRemovedTimer` may take the timer (`count == instance`) does not
  hurt a pending debounce follows from `NewestWaits`; that `NewestWaits` survives a new wait needs
  that no count in flight exceeds `instance`:
  `SignalInv == TypeOK /\ CountsBounded /\ NewestWaits /\ NoSignalLost`.
* `OutputsEndUpAgreeing` (`OutputsAgree`) and `PublishedOnce` (`NeverPublishedTwice`). `ScanInv` says a scan
  has replies outstanding or exactly one handler that carries it on, and that what it began
  with and found is in the configuration. `OutputsInv` adds that what is published and
  what queued handlers carry is together what the next records are derived from (`Base`: the
  running scan's snapshot, or all of it), that no two of them share a record, and that the file is up
  to date or about to be written.
* `AllDetected` (`DetectedWhenQuiet`): whatever is on the bus and not in the inventory is found by the
  running scan, or a rescan is to come (`DetectInv`), also when it appeared behind the read of a scan.
* `EngineImplementsPromise`: `Spec => Promise!Spec`, the safety part of `KeepsPromise`: every step of
  the engine is one of `RescanPromise`, or none. It needs `ScanInv`, which says a handler of a
  scan is queued only while one is in progress.
* `ShutdownFreezesTheFile` (`ShutdownFreezes`), an action property.

**`PerformScanProof`** has all of `scan` but `ScanEnds` (any configurations, whatever their probes depend on; any
paths, interfaces, names of the last boot, changes of hardware and retries)

* `TypeCorrect`, from `TypeInv == TypeOK /\ NothingMissing /\ PhaseOf`: `NothingMissing` says that nothing known is
  ever missing, since `run` strikes it off, and `PhaseOf` which phases have calls, passes and retries left.
* `NamesStay` (`NamesAreKept`), an action property, from `TypeInv`: a pass over the devices of a probe only adds
  records, and one that was known in the last boot comes back with its name.
* `FixpointIsReached` (`ScanReachesFixpoint`), an action property, from `TypeInv /\ FixInv`. No configuration gets lost
  between two passes (`Listed`); a walk leaves a configuration to be asked for or evaluated in vain
  (`Walked`); after a scan none of those left over passes (`AtFixpoint`).
* `InventoryIsCurrent` (`InventoryCurrent`), from `TypeInv /\ FixInv /\ KnowsTheBus`. `KnowsTheBus` holds while
  no signal that asks for a scan is on its way and no call was given up: what was read is matched and still
  so (`ReadIsCurrent`), so is what is asked for (`CallsAreMatched`), an object is read with all of its
  interfaces (`AllIsRead`), no object that a probe looks for is left out (`AllIsSeen`), and what passed has
  its records (`PassedAreRecorded`). The matches are what makes it inductive: what is read or asked for is
  matched first, so that a change of it asks for another scan.
* Both assume `EveryProbeParses`: a probe that does not parse ends `processConfigurations`' walk, and the
  configurations loaded behind it are not probed.
* `OperatorsApplyInOrder` is about `Probe`: for a probe of any length, any objects and any names, `DoProbe` is the
  left-to-right reading `Means`. `UpTo` carries it over the tokens. `ProbesPassAsRead` (`PassesLeftToRight`)
  follows.
* A pass is a fold of folds. `MatchingIs` to `WalkAllIs` unfold each into a sequence of steps; `AddsAll`,
  `EvaluateAllDoes`, `WalkAllDoes` and `RunPassDoes` say what all the steps together do.

**`PublicationProof`** (any boards, records, ports and devices, any number of tries but none, any
number of failures and restarts)

* `HalfDevicesAreGone` (`NoHalfDevices`): `DeviceInv == DeviceTypes /\ TriedIsWhole /\ NoHalfDevices`, where
  `TriedIsWhole` says of a batch that waits to be published what `NoHalfDevices` says of one that is. It
  is needed because a batch is tried one handler before it is published.
* `BoardsAreAssociated` (`EarlierOnesAreAssociated`): `AssocInv` adds that the batches that wait are
  disjoint and not published (`Awaiting`), that the numbers of publications are bounded, so that
  the next one is higher than all (`Counted`), and that the topology has the ports of exactly the
  published boards and the probing paths of all boards found that were configured, not restored (`Known`). A later publication then
  changes nothing of what was right when a board was published.

**`ExposeActionsProof`** (any records and elements, any names bound and disabled, any order and grouping of scans,
any number of restarts)

* `TypeCorrect`; `OrderIsShown` (`InOrderIsShown`) from
  `OrderInv == TypeOK /\ Published /\ Together /\ Acts`: what has acted in order has acted in the configuration,
  which the handlers read, and on D-Bus once it is shown there; `Published` and `Together` say that
  both of a pair are published by one handler, so that no half of it is shown before the other acts. It assumes `NamesIdentify`: of several elements with
  one name an action reaches the first only.
* `SavedIsRestored` (`ComesBackAsSaved`) from `SavedInv == TypeOK /\ Published /\ Saved`, without that assumption: while no
  record that the file lacks speaks of an element, the configuration and D-Bus have its status as the file has it.
* What a record's actions do is shown inside out, from one status to all of a record's elements: `SetStatusSets`,
  `BindActs` and `DisableActs`, `ElementActs`, `ActedDoes`, `ExposesAct`.

**`FollowersProof`**, `GpioPresence` (any finite set of configurations, each of finitely many lines;
`FiniteAssumption`, since the daemon lists both)

* `TypeCorrect`, which includes that no coroutine waits on an fdio that was freed; `LinesAreHeard`
  (`NeverDeaf`); `AnnouncedIsTrue` (`PresenceIsTrue`). The invariant is
  `TypeOK /\ Held /\ Heard /\ Fresh /\ Shown /\ Requested`: the lines tracked are those that configurations
  need, each that works has a coroutine that waits or is to run, its cached level is right or somebody will
  look again, and what is announced follows from the cached levels. `Adds` and `Drops` say what the helpers
  several handlers share do to a configuration's lines.

**`SettingsProof`**, `Persistence`: all of `persist` but `ComesUp` (any records, elements, values, calls and faults; the
defaults are boards with no null element, and what parses is not taken for a missing or broken file)

* `TypeCorrect`, `FileAlwaysParses` (`NeverBroken`), `PlacesAreApart` (`OwnSlot`), `SettingsAreSaved`
  (`SetIsSaved`) and `RecordsReturn` (`ReturnsAsItWas`, an action property). `PersistInv` has, beside
  types: an interface reaches the JSON it was made for and shows what is there (`Seated`), no two
  are for the same place (`Apart`), the file is the configuration once nothing is to be written, also after
  a power loss (`OnDisk`), and every file a crash or a power loss may leave has each record this process has
  saved (`Kept`) and an earlier one had (`Was`). `OwnSlot` is a part of `Apart`,
  which needs `Seated`: an added element goes to a place that is free or null, where no interface is.

**`SettingsProof`**, `FruUpdate` (any EEPROM of a block or more, any fields and values, any number of updates, broken-off
writes, rescans and restarts; `maxFruSize` is 256 blocks at most, so that an offset has a byte)

* `WrittenIsWellFormed` (`WholeIsWellFormed`) from `UpdateInv`: the EEPROM has its size, the map is nothing or a FRU
  with all of its records, as `Contents` reads one, and `WholeIsWellFormed`. The map need not be what the EEPROM
  holds, nor a FRU without a fault: that what was written is one follows from what `Legal` checked and from how it was
  put together.
* What is checked before the write is `fru`; what is read back is what `Contents` makes of `fru` over the bytes
  that were there. That both get one verdict is the argument. An area that was changed is whole blocks that say how
  many they are (`SetFieldIs`, `DummyIs`), so is one that was kept, or it is nothing (`AreaIs`); a list of records that
  is whole is as long wherever it is copied to (`RecordsMove`). Each area of an assembled FRU begins where
  those before it end (`JoinedHas`, `BeforeIs`) and its offset says so (`AssembledIs`); so they are in order
  and the longest reaches the FRU's end (`EndBehind`). The bytes behind the FRU move no area's end
  (`HeaderKept`, `EndsKept`), so what is read begins with all of `fru` (`WrittenIsRead`), and the
  verdict on an area depends on the header, the area and its checksum, which are in `fru` (`VerdictKept`,
  `WrittenIsOk`). That a checksum has a certain value is used nowhere, only that it is of the same bytes.
* Sums, joined areas, the walk to a field and the list of records are recursive functions; `UpTo` carries what is
  said of them over their arguments.

**`FollowersProof`**, `CbcTopology` (any services, any finite set of paths, any fields; the senders are distinct)

* `CbcTypeCorrect` and `CartridgesAreFollowed` (`NothingIsMissed`): `CbcInv == CbcTypeOK /\ Down /\ Right`. `Right` says of each
  path that is not excused that one service at most is concerned with it, and that once all of its
  messages on the way are handled the path shows what that service has, or nothing while the service is
  going to be asked. The argument is about the last message that says anything of a path
  (`WillShow`), and what joins the end of a queue or leaves its head does to that one.

**`FruDeviceProof`**, `FruDevice`: all that `fru_scan` checks, for any finite set of buses, any devices, muxes, drivers and
blocklists, any number of calls

* `TypeCorrect`, `PathsStayApart` (`PathsAreUnique`), `MapIsShown` (`DBusShowsTheMap`) and `OthersStay`
  (`OthersKeepTheirPath`), from `DaemonInv`: types; published paths are pairwise different and a drive's is its
  bus's (`PathsOf`); D-Bus shows the map, but for the bus that is being scanned, unless a full scan is
  to come or in progress (`Agreement`). Publishing is a recursive function over sets of locations:
  `PublishingIs` unfolds it, and `PublishesAll` has what it publishes, by `LeastNatural` on the number of
  locations. `FreePathIsFree` is why paths stay apart: the index after the highest in use is free.
* `EveryFruIsReadOnce` (`EveryFruOnce`), from `DaemonInv`, `Wires` (an address is used on one side of a mux) and
  `OnceInv`, which is about the time since a full scan began on unchanged hardware: what is in the map was
  read where it says, through a mux only where the root did not have it (`NothingElse`); what is within reach
  of a bus scanned is in the map (`AllRead`); `fruAddresses` has what was found on a root (`RootsRemember`); and
  buses are scanned in sequence (`InSequence`), so that the root is behind when a channel is read
  (`RootIsDone`). A root that is scanned again alone finds nothing new, or its channels would have it
  twice.
* It assumes that a channel is numbered after its root and that roots are no channels
  (`RootFirst`), that a channel lacks no command its root's adapter has (`SmbusAssumption`), that no product
  is named as a vendor of drives (`NamesAssumption`), and that the baseboard's file is a FRU or not there
  (`PlugAssumption`).

**`FruDeviceProof`**, `FruTransfer`: all that `fru_transfer` checks, for every page size, number of tries and FRU of
up to two pages

* `TransferTypeCorrect`: that the device address stays within the two of a 4K EEPROM needs `AddressMoves`:
  the address is the first one up to the first try of the first byte of the second page, and
  the next one from then on. `AddressOfPage` follows: a byte is always sent to the address of
  its page. `PagesAreInOrder` (`PagesInOrder`) follows from that and `CellOfIndex` (no two indices of a
  FRU have the same cell).
* `DetectionTells` (`DetectionIsRight`) needs that at least two bytes are looked at
  (`SizeAssumption`; the code looks at 8).
* `PageIsReadBack` (`PageReadsBack`), from `FirstPageWritten`: the bytes up to the index are in place and a
  FRU is done only at its end.

**`FruDeviceProof`**, `FruContents`: all that `fru_contents` checks, for any EEPROMs and sizes, any number of areas and
records, any sizes of blocks with a FRU block that holds the header and no cache block smaller than one (the
code has 8 and 32)

* `CacheHoldsTheEeprom`: a byte that is cached before the end that the reader has seen is the byte of that
  position (`CacheIsTrue`), however short or failing the reads and however the EEPROM shrank. `ContentsTypeCorrect`
  comes with it: `ContentsTyped` has both.
* `Read` is a recursive function over the blocks it touches. `Turned` says what a turn of its loop leaves: a true
  cache, bytes that continue those before, and a cursor that is behind the block, behind what was asked for
  or at the end. `UpTo` carries it over the blocks; `CursorIs`, `AvailableIs` and `BlockIsFilled` are its arithmetic.
* `FittingIsReadExactly` (`FittingIsExact`) from
  `ContentsExact == ContentsTyped /\ (~failed /\ Fits => ExactSoFar)`. `ExactSoFar` has, for each place `readFRUContents`
  can be at, what it has found: the header, how far the areas seen so far reach, which record it is at, how
  much of the FRU it has. That its sum over areas and records is `ClaimedLength` needs that `RecordsEnd` is
  defined, and grows (induction on what is left up to `Limit`), and that the longest area is found area by area.
  An EEPROM that shrinks keeps it: if the FRU fits afterwards, it did before.

`LeastNatural` (a set of naturals that is not empty has a least one) stands in for the
library's induction theorems, which take an operator as a parameter and cannot be instantiated with the
installed provers. `UpTo` is its form for what holds from 0 up to a bound if each step keeps it.

Only model-checked:

* all liveness (`RemovalIsDecided`, `ScanEnds`, `UpdateIsShown`, `BoundInTheEnd`, `EventuallyShown`,
  `EventuallyTrue`), the fairness part of both refinements, and `ComesUp`: out of the prover's reach;
* the safety of `OneFieldChanges`: it needs of `FruCodec` that `Decode`, which walks over the fields, finds in an area that
  `setField` changed the fields it walked over with one exchanged, and nothing else moved;
* `Template` (`ReplacedAsMeant`): it compares two texts that are computed from the pieces of a string by searching
  and replacing, for the inputs that the run enumerates.

## 6. Where code and documents part

A run that TLC must find violated:

* `rescan_prune` / `UndetectedIsPruned`: `PerformScan::run()` strikes every configured record
  off the missing ones before it probes (`perform_scan.cpp:872-877`), so a running daemon prunes
  nothing; README requirement 4 and the comment at `entity_manager.cpp:691` say otherwise.

Met while modelling, kept in the models, and excepted by name in the properties:

* `setField` cuts the area to its blocks after it has replaced the field, so the old checksum,
  which moved with what follows the field, stays as a byte that is not zero behind the end of
  the fields (`fru_utils.cpp:1418` "pad with zeros"). `formatIPMIFRU` warns of it and `writeFRU`
  takes no FRU with a warning: most updates that make a field shorter are refused, and so are
  those that make it longer by a part of a block over a block's end. (In `FruCodec`: `Padded`;
  in `FruUpdate`: `Legal`.)
* `applyExposeActions` looks for the elements it names among the records configured so far
  (`perform_scan.cpp:398`), once. A fan configured before its connector is not joined with it,
  and the connector stays disabled; `CONFIG_FORMAT.md:219-222` knows of no order. What is not found is
  logged as a "configuration file dependency error". (In `ExposeActions`: `InOrderIsShown` is about
  records found in order.)
* A string replaced whole by a serial number of digits is parsed again with the next interface
  of the object and, beneath Exposes, a second time, and becomes a number (`utils.cpp:398-403`),
  which the comment at `utils.cpp:203-204` is there to prevent. The unit test has one interface and
  no Exposes. (In `Template`: `ReplacedAsMeant` compares the text and not the type.)
* `generateDeviceName` looks up the template, not the resolved name, and acts only if
  `templateCharReplace` returned a replacement, which it does for no plain property: two
  devices whose Name resolves to the same text get one name and one path;
  `perform_scan.cpp:627` says "check name first so we have no duplicate names". (In
  `PerformScan`: `NewName` of a "property" configuration.)
* A board restored from `lastJson` gets no probing path (`perform_scan.cpp:486-518`; `addRecordProbePath` is
  called at 661 for newly configured ones), so its probing association is gone after a restart of the daemon; one
  with `Custom_Name` is published under the name as it is (`entity_manager.cpp:192-211`) and its probing path is
  registered at the sanitized one (`perform_scan.cpp:590-592`), where nothing is shown. `docs/associations.md:84-107`
  knows of neither. (In `Publication`: `Scan`, `AtItsPath`; excepted by name in `EarlierOnesAreAssociated`.)
* fru-device: bytes that are no FRU are published as a drive if they are at 0x6a, whatever they are
  (`fru_device.cpp:976`), what a write that broke off has left there too. (In `FruDevice`:
  `AddFruObject`; `Showable` in `DBusShowsTheMap`.)
* gpio-presence: a GetSubTree that fails is logged and not made again (`config_provider.cpp:57-66`); what was
  exported before the daemon came up stays unknown until it is exported again. (In `GpioPresence`:
  `AnswerSubTree`, `missed`; excepted in `EventuallyTrue`.)
* gpio-presence: a configuration removed while it is being fetched is added afterwards and stays
  until the daemon restarts; `gpio_presence_manager.hpp:63-64` says `removeConfig` forgets it. (In
  `GpioPresence`: `RemoveConfig` ignores what is not in `presenceMap` yet.)
* `readFRUContents` takes a short read for a full one (785, 904, 934, 965), although
  `fru_reader.hpp:20` announces short reads: after a failing access a FRU is returned with bytes
  of an earlier read in it. (In `FruContents`: `Over`; `FittingIsExact` is about reads
  without a failing access.)
* An action on a record that was published before changes `systemConfiguration` and `system.json` but not
  D-Bus, until a restart restores the record. One on an element of the same record is lost, except
  for what is combined. A record that is restored does not act again: if the file has it but not
  the record it acted on, because a process ended after the first and before the second of its
  scans was saved, that one comes back as configured. (In `ExposeActions`: `inOrder` and
  `ComesBackAsSaved` are limited accordingly.)
* Templates, kept in `Template` and excepted by `Distinct`, `Calculable` and `Enough`: a property whose name begins
  another's is put into it (`$BOARD_INFO_AM10` becomes the value of BOARD_INFO_AM1 and a 0); a use that is
  no expression replaces all uses, also those in expressions behind it; of several expressions with one
  property only as many are computed as the string is gone through (two beneath Exposes, one
  elsewhere) and the others are taken out; arithmetic with a string or a division by zero throws, and nothing catches it;
  a negative result stays a string; after an operator, words that are no number are skipped and lost.
  A Name that becomes a number is the empty name (`generateDeviceName`).
* A field update starts from the FRU as it was last read: of two updates before the rescan the
  second undoes the first. `FieldStore` allows that and nothing else.
* A FRU whose records do not end at a block, as the size of an EEPROM without a driver
  usually is, is taken apart but not put together again (`CanAssemble`): no field of it can be
  updated. A FRU read with the size of its driver is as long as the EEPROM; over 512 bytes it
  cannot be updated either. One that grows past the end of the EEPROM is written short and reported
  as written; what is cut is blank, or the update is one of the whole records area.
* A container or a powered board that is published after what goes into it is never brought
  in: `getAssocs` is asked for the new boards only. A board with associations of its own
  (Parent_Chassis, Association.Definitions) has that interface already when those of its ports and its
  probing path are to be shown, and the second one is refused. Which roles a board may take is checked on
  the side that shows the association only, although `topology.hpp:35-37` has a
  set for the other. A board without Exposes, or with PlatformExposes, keeps no probing path.
* A device made by a process that ended before it deleted it costs the next process one of
  its five tries.
* cbc-tray-topology-parser: no failed call is retried (`cbc_tray_topology_parser.cpp:521` says so for
  the first); a service that dies without InterfacesRemoved leaves its numbers on D-Bus; when two
  services have a path, the last message wins. The model takes it that the matches on
  `inventoryCableCartridgePath` deliver the signals of the objects beneath it, which is up to sdbusplus.

* Starting removes `system.json` (`entity_manager.cpp:775`); it is written again after the first
  scan. A crash in between loses every run-time value. `ReturnsAsItWas` excuses records the
  last process had not saved (`excused`); without the excuse TLC shows the crash.
* `postExposesRecordsToDBus` hands an element's own interface the pointer of the last
  member its loop reached (`entity_manager.cpp:432-453`). Setters of published elements (Pid, Stepwise,
  Pid.Zone) show the value and store nothing; Delete makes that last member null. `SetIsSaved`
  speaks of interfaces that reach their element (board decorators, thresholds, objects added at
  run time). Where the last member is `Type` (Pid.Zone, LeakDetectionPolicy) a Delete makes every later
  start throw at `entity_manager.cpp:391`; with `TypeIsLast` meeting `Settable`, `ComesUp` fails.
* Deleting one threshold hides the others of its element after a restart
  (`entity_manager.cpp:481-507`).
* The report of removed devices: after a report made while the host is off, devices that
  need power are not reported any more, and the others are reported a second time when
  it is on.
* A configuration with a fixed name is not probed again once a record has that name.
* A flood of signals less than 500 ms apart keeps the engine from scanning.
* fru-device: ReScanBus(0) drops the baseboard's FRU until the next full scan; a write that breaks
  off schedules no rescan;
  `addressBlacklist` does not hold on the channels of a mux (the blocklist does); a FRU of
  more than a page is written across two device addresses and read from one; a bus
  that is removed keeps its FRUs on D-Bus; `powerIsOn` and the failed addresses are never reset.
* `dbus_interface.hpp:198`: a setter changes what is shown before it stores and writes it.
* `generateDeviceName` reserves the indexes of devices this scan found; a record of a device that
  has left stays (see `rescan_prune`) and its index may be given to the successor.
* `getRecordName`: two devices with equal properties are one record.
* `loadBlocklist` overwrites the addresses of one format with those of another
  (`fru_device.cpp:836`); `writeFRU` takes the bus as `uint8_t`; a name in `/dev` that begins with i2c
  and does not parse makes `watchI2cBusses` loop (`fru_device.cpp:1615`).
* `Topology::remove` erases `probePaths` by name though it is keyed by path (`topology.cpp:268`);
  nothing is ever pruned, so no run of the daemon reaches it.
* `linkMux` leaves a link of an earlier boot as it is, and does not come back for a channel whose bus is
  not there yet.
* `fwVersionIsSame` writes the new firmware's hash before the old `system.json` is removed
  (`utils.cpp:61`): a crash in between makes the next start use it. `Start` is one step in `Persistence`.
* MATCH_ONE as the first token is taken for the result so far and limits nothing, and an operand that follows no
  operator is read and ignored. `PassesLeftToRight` is about probes without either (`WellFormed`).
* Two records may share a name: a record of a device that has left does not reserve its index. `NamesAreKept`
  is about each record's own name.

## 7. Not modelled

Loading and validating configuration files (string handling on JSON, unit-tested); the lexer's
characters; the log; NVMe and gzip;
devicetree-vpd-parser; data and scripts. `PROJECT.json` gives the reason for each. Of modelled
parts: `postProbeConfig`, the Compatible names of gpio-presence, the Gigabyte MAC special
case, mux links and devices without a bus or an address in the overlay, the text of BCD and 6-bit
fields and the UUID record in the codec, properties that are invalidated without
a value in the CBC parser.

## 8. The plan

Done in order: the engine, its abstract promise and its first proofs; the scan and its probes;
gpio-presence; fru-device, its transfers (with proofs) and its reader; persistence; the codec and
updates with their abstract specification; topology and overlay (with a proof); the CBC parser; expose
actions; templates; then the safety of the engine, its promise, associations, gpio-presence, persistence,
the CBC parser and the fru-device daemon proved; then that of the scan, the probes, expose actions, the FRU
reader and what an update writes. What is left:

1. Lemmas about what `Decode` finds in an area that `setField` changed, by `UpTo`, for the safety of
   `OneFieldChanges`.
2. `Persistence`: the start in two steps (hash, removal), and an abstract specification (a register per
   record that loses only what was not saved) that it implements, proved step by step.
3. What clients of `FruDevice` and `GpioPresence` may rely on, as abstract specifications of the same kind.
4. A composition of `Rescan` with `PerformScan`'s calls for the races of publication with matches.
