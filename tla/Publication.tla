----------------------------- MODULE Publication ------------------------------
(***************************************************************************)
(* What entity-manager does with the records a scan has found: it has the  *)
(* kernel make the devices they expose, tries again where a driver does    *)
(* not come up, and publishes the associations between the boards.  The    *)
(* handlers of one thread run one at a time; records come in batches, as   *)
(* hardware appears.                                                       *)
(***************************************************************************)
EXTENDS Topology, Sequences, FiniteSets, FiniteSetsExt, TLC

CONSTANTS
    Boards,        \* the records' inventory paths
    Record,        \* [Boards -> what is used of a record]
    Devices,       \* I2C devices: a bus and an address
    hasHWMonDir,   \* those whose driver makes a hwmon directory
    Retries,       \* 5 tries
    NoPath,        \* a probe that names no object, as TRUE
    Off,
    MaxFailures,   \* bound on drivers that do not come up
    MaxCrashes     \* bound on restarts

ASSUME RetriesAssumption == Retries \in Nat \ {0}
ASSUME HWMonAssumption == hasHWMonDir \subseteq Devices

VARIABLES
    systemConfiguration,   \* boards found
    lastJson,              \* boards the process before saved
    systemJson,            \* boards in the file it saves to
    probePaths,            \* of the topology: <<board, path>>
    ports,                 \* of the topology
    ready,                 \* posted handlers
    exporting,             \* what loadOverlays still has to export
    createTimer,           \* tries left when the timer of an export fires
    dbus,                  \* of each board: the Associations shown, or Off
    sysfs,                 \* of each device: "absent", "made" without the hwmon
                           \* directory of its driver, "created"
    posted,                \* history: the batch a board was published in
    failures, crashes

daemon == <<systemConfiguration, lastJson, systemJson, probePaths, ports, ready, exporting,
            createTimer, dbus, posted>>
vars == <<daemon, sysfs, failures, crashes>>

\* Mutant: a try less.
OneLess == Retries - 1

Tries == Retries

boardTypes == [b \in Boards |-> Record[b].Type]

Exports == {e \in Boards \X Devices : e[2] \in Record[e[1]].Devices}

\* A device may have been made by an earlier process.
Init ==
    /\ systemConfiguration = {} /\ lastJson = {} /\ systemJson = {}
    /\ probePaths = {} /\ ports = {}
    /\ ready = <<>> /\ exporting = {}
    /\ createTimer = [e \in Exports |-> Off]
    /\ dbus = [b \in Boards |-> Off]
    /\ posted = [b \in Boards |-> 0]
    /\ sysfs \in [Devices -> {"absent", "made", "created"}]
    /\ \A d \in Devices \ hasHWMonDir : sysfs[d] # "made"
    /\ failures = 0 /\ crashes = 0

-----------------------------------------------------------------------------
\* The path registered for a board is made of its sanitized name: it is not the
\* board's where Custom_Name publishes it under the name as it is, and leads to
\* nothing then.
AtItsPath(b) == ~Record[b].Custom

\* The paths records were probed on, of those that have Exposes: a Platform has
\* PlatformExposes instead.
ProbedOn(boards) ==
    {<<b, Record[b].Path>> : b \in
        {x \in boards : /\ Record[x].Exposes # {} /\ Record[x].Type # "Platform"
                        /\ Record[x].Path # NoPath
                        /\ AtItsPath(x)}}

addProbePaths(boards) == probePaths \cup ProbedOn(boards)

\* A scan ends: records that were not there before.  Those of lastJson are
\* copied from there (restorePersistedConfigurations), the others are
\* configured, and only then is a probe path added.
Scan ==
    \E new \in (SUBSET (Boards \ systemConfiguration)) \ {{}} :
        /\ exporting = {}
        /\ systemConfiguration' = systemConfiguration \cup new
        /\ probePaths' = addProbePaths(new \ lastJson)
        /\ ready' = Append(ready, [step |-> "publish", boards |-> new])
        /\ UNCHANGED <<lastJson, systemJson, ports, exporting, createTimer, dbus, posted,
                       sysfs, failures, crashes>>

Runs(step) ==
    /\ exporting = {}
    /\ ready # <<>>
    /\ Head(ready).step = step

\* loadOverlays, whose loop is exporting, then the two posts.
publishNewConfiguration ==
    /\ Runs("publish")
    /\ exporting' = {e \in Exports : e[1] \in Head(ready).boards}
    /\ ready' = Append(Append(Tail(ready), [step |-> "write", boards |-> {}]),
                       [Head(ready) EXCEPT !.step = "dbus"])
    /\ UNCHANGED <<systemConfiguration, lastJson, systemJson, probePaths, ports, createTimer,
                   dbus, posted, sysfs, failures, crashes>>

\* All that is known by now, whole or not at all (Persistence has the steps).
writeJsonFiles ==
    /\ Runs("write")
    /\ systemJson' \in {systemJson, systemConfiguration}
    /\ ready' = Tail(ready)
    /\ UNCHANGED <<systemConfiguration, lastJson, probePaths, ports, exporting, createTimer,
                   dbus, posted, sysfs, failures, crashes>>

-----------------------------------------------------------------------------
(* The overlay *)

deviceIsCreated(d) == sysfs[d] = "created"

Arm(e, retries) == createTimer' = [createTimer EXCEPT ![e] = retries]

\* The driver comes up at once.
Creates(d) ==
    /\ sysfs[d] = "absent"
    /\ sysfs' = [sysfs EXCEPT ![d] = "created"]
    /\ UNCHANGED failures

\* Mutant: what was made in vain is left there.
Leaves(d) == sysfs' = [sysfs EXCEPT ![d] = "made"]

\* It does not, or new_device refuses an address in use; deleteDevice follows.
Deletes(d) == sysfs' = [sysfs EXCEPT ![d] = "absent"]

CreatesInVain(d) ==
    /\ IF sysfs[d] = "made" THEN UNCHANGED failures
       ELSE /\ failures < MaxFailures
            /\ failures' = failures + 1
    /\ Deletes(d)

buildDevice(e, retries) ==
    LET d == e[2]
    IN  IF retries = 0 \/ deviceIsCreated(d)
        THEN Arm(e, Off) /\ UNCHANGED <<sysfs, failures>>
        ELSE \/ Creates(d) /\ Arm(e, Off)
             \/ CreatesInVain(d) /\ Arm(e, retries - 1)

exportDevice(e) ==
    /\ e \in exporting
    /\ exporting' = exporting \ {e}
    /\ buildDevice(e, Tries)
    /\ UNCHANGED <<systemConfiguration, lastJson, systemJson, probePaths, ports, ready, dbus,
                   posted, crashes>>

CreateTimerFires(e) ==
    /\ exporting = {}
    /\ createTimer[e] # Off
    /\ buildDevice(e, createTimer[e])
    /\ UNCHANGED <<systemConfiguration, lastJson, systemJson, probePaths, ports, ready, exporting,
                   dbus, posted, crashes>>

-----------------------------------------------------------------------------
(* The associations *)

PortItems(b) == {item \in Record[b].Exposes : item.Status # "disabled"}

PortsWith(boards) ==
    ports \cup UNION {UNION {addBoard({}, b, item) : item \in PortItems(b)} : b \in boards}

\* A board that brings associations of its own has the interface already, and
\* the second one is refused.  A board without Exposes is no new object.
postToDbus ==
    /\ Runs("dbus")
    /\ LET new == Head(ready).boards
           newObjects == {b \in new : Record[b].Exposes # {}}
           assocs == getAssocs(ports', boardTypes, probePaths, newObjects)
       IN  /\ ports' = PortsWith(new)
           /\ dbus' = [b \in Boards |->
                  IF b \notin new THEN dbus[b]
                  ELSE IF Record[b].Own THEN {}
                  ELSE {[name |-> a.name, other |-> a.other] :
                        a \in {x \in assocs : x.path = b}}]
           /\ posted' = [b \in Boards |->
                  IF b \in new THEN 1 + Max({posted[c] : c \in Boards}) ELSE posted[b]]
    /\ ready' = Tail(ready)
    /\ UNCHANGED <<systemConfiguration, lastJson, systemJson, probePaths, exporting,
                   createTimer, sysfs, failures, crashes>>

-----------------------------------------------------------------------------
\* The process ends anywhere, also with a device made and not deleted, and
\* starts again.  The file becomes lastJson; it is not read, or removed, if it is
\* broken or of another firmware.
Crash ==
    /\ crashes < MaxCrashes
    /\ crashes' = crashes + 1
    /\ systemConfiguration' = {} /\ probePaths' = {} /\ ports' = {}
    /\ lastJson' \in {systemJson, {}} /\ systemJson' = {}
    /\ ready' = <<>> /\ exporting' = {}
    /\ createTimer' = [e \in Exports |-> Off]
    /\ dbus' = [b \in Boards |-> Off]
    /\ posted' = [b \in Boards |-> 0]
    /\ \/ UNCHANGED <<sysfs, failures>>
       \/ \E e \in exporting :
              /\ e[2] \in hasHWMonDir
              /\ sysfs[e[2]] = "absent"
              /\ sysfs' = [sysfs EXCEPT ![e[2]] = "made"]
              /\ UNCHANGED failures

\* The driver of a device comes up by itself.
Binds(d) ==
    /\ sysfs[d] = "made"
    /\ sysfs' = [sysfs EXCEPT ![d] = "created"]
    /\ UNCHANGED <<daemon, failures, crashes>>

Handler ==
    \/ publishNewConfiguration
    \/ writeJsonFiles
    \/ postToDbus
    \/ \E e \in Exports : exportDevice(e)

Next ==
    \/ Scan
    \/ Handler
    \/ \E e \in Exports : CreateTimerFires(e)
    \/ Crash
    \/ \E d \in Devices : Binds(d)

Spec == Init /\ [][Next]_vars

FairSpec ==
    /\ Spec
    /\ WF_vars(Handler)
    /\ \A e \in Exports : WF_vars(CreateTimerFires(e))

-----------------------------------------------------------------------------
(* Two boards go together where one declares a role and the other its       *)
(* reverse on the same port, the role is one the first board may have, and  *)
(* it is the role the association is published for.                         *)
Declares(b, port, assoc) ==
    \E item \in PortItems(b) : item.Port = port /\ assoc \in Roles(item)

PortNames == {item.Port : item \in UNION {Record[b].Exposes : b \in Boards}}

GoTogether(b, c, assoc) ==
    /\ b # c
    /\ assoc \in {assocContainedBy, assocPowering}
    /\ Record[b].Type \in assoc.allowedOnBoardTypes
    /\ \E port \in PortNames : Declares(b, port, assoc) /\ Declares(c, port, getReverse(assoc))

Together ==
    {t \in [path : Boards, name : {assoc.name : assoc \in supportedAssocs}, other : Boards] :
        \E assoc \in supportedAssocs :
            assoc.name = t.name /\ GoTogether(t.path, t.other, assoc)}

\* However the boards are spread over scans, and whatever is published first,
\* a board is shown in its container, and a supply with what it powers, exactly
\* if the two go together and the container or the powered board was published
\* no later (a later one is not brought in: getAssocs is for the new boards);
\* and with the path it was probed on, whatever scans ended before it was
\* published, but for a board of lastJson and one with another path than
\* registered: neither is found where docs/associations.md has the probed path.
EarlierOnesAreAssociated ==
    \A b \in Boards :
        posted[b] # 0 /\ ~Record[b].Own =>
            dbus[b] =
                {[name |-> t.name, other |-> t.other] :
                   t \in {x \in Together : x.path = b /\ posted[x.other] \in 1..posted[b]}}
                \cup {[name |-> "probing", other |-> entry[2]] :
                        entry \in {x \in ProbedOn(Boards \ lastJson) : x[1] = b}}

\* A device that a record exposes is there in the end, with its driver, if not
\* all five tries are in vain: four may be, the first because a process that
\* ended between making and deleting the device left it without a driver.
BoundInTheEnd ==
    \A e \in Exports :
        <>[](e[1] \in systemConfiguration /\ failures + 1 < Retries => deviceIsCreated(e[2]))

\* Giving up leaves no device without its driver: once all records were tried
\* and no try is due, what they expose is bound or is not there, so a later
\* start does not find its address in use.
NoHalfDevices ==
    \A e \in Exports :
        posted[e[1]] # 0 => sysfs[e[2]] # "made"
=============================================================================
