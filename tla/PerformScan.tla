----------------------------- MODULE PerformScan ------------------------------
(***************************************************************************)
(* PerformScan (perform_scan.cpp): one rescan in full.  A pass lists the   *)
(* configurations left to probe, asks the object mapper which objects have *)
(* the interfaces they name, reads every interface of those objects, and   *)
(* evaluates all probes once the last reply is in: every callback shares   *)
(* the vector of probes, and a probe is evaluated by its destructor.  When *)
(* a probe passed, ~PerformScan posts another pass with what was read.     *)
(*                                                                         *)
(* The devices are processes of their own: they change between any two     *)
(* steps, and the D-Bus signals they send are handled when the loop gets   *)
(* to them.  The debounce before a scan is `dirty' here; module Rescan     *)
(* models how it is kept.                                                  *)
(***************************************************************************)
EXTENDS Probe, FiniteSets, Functions

CONSTANTS
    Config,        \* configurations, named by themselves
    LoadOrder,     \* the order configuration.configurations holds them in
    Command,       \* the tokens of each probe; <<>> if it does not parse
    Naming,        \* what the Name has: "fixed", "index" or "property"
    Label,         \* the property a Name with a property template takes
    Offers,        \* the property maps an interface of a path may have
    Boots,         \* what lastJson may hold
    Probes,        \* probes as configurations may have them
    MapperRetries, \* findDbusObjects' retries (5 in the code)
    GetAllRetries, \* getInterfaces' retries (5 in the code)
    MaxChanges     \* bound on what the devices do

ASSUME LoadOrderAssumption ==
    LoadOrder \in Seq(Config) /\ Range(LoadOrder) = Config
ASSUME NamingAssumption ==
    Naming \in [Config -> {"fixed", "index", "property"}]
ASSUME OffersAssumption == Offers \in [Path -> [Interface -> SUBSET Value]]
ASSUME RetriesAssumption == MapperRetries \in Nat /\ GetAllRetries \in Nat \ {0}
ASSUME ChangesAssumption == MaxChanges \in Nat

VARIABLES
    bus,                  \* environment: what GetAll would return
    signals,              \* signals sent and not yet handled, in order
    changes,              \* how often the environment changed
    dbusMatches,          \* paths whose PropertiesChanged is matched
    dirty,                \* a rescan is due
    phase,                \* what the scan waits for
    retries,              \* findDbusObjects' retries left
    wanted,               \* the interfaces the mapper is asked for
    calls,                \* GetAll calls outstanding or waiting to be retried
    held,                 \* probeVector
    configurations,       \* _configurations
    passedProbes,
    dbusProbeObjects,
    passed,               \* _passed
    missing,              \* _missingConfigurations
    systemConfiguration,  \* record -> resolved name
    lastJson,
    gaveUp                \* history: this scan ran out of GetAll retries

environment == <<bus, changes>>
filters == <<signals, dbusMatches, dirty>>
probing == <<held, configurations, passedProbes, passed, missing,
             systemConfiguration, lastJson>>
vars == <<environment, filters, phase, retries, wanted, calls, probing,
          dbusProbeObjects, gaveUp>>

-----------------------------------------------------------------------------
(* Records and names *)

\* getRecordName hashes the configuration and the properties of the interface
\* that matched, not its path.
Record == Config \X (Value \cup {NoValue})
RecordName(c, value) == <<c, value>>

\* A resolved Name: the configuration's own, with an index or a label.
Raw(c) == <<c>>
Indexed(c, n) == <<c, n>>
Labelled(c, value) == <<c, Label[value]>>

NameOf(c, name) ==
    IF Naming[c] = "fixed" THEN name = Raw(c) ELSE Len(name) = 2 /\ name[1] = c

\* What is configured, or was in the last boot.
Named(system) ==
    DOMAIN system \subseteq Record /\ \A r \in DOMAIN system : NameOf(r[1], system[r])

Token == [type : Keywords] \cup [type : {"found"}, name : {Raw(c) : c \in Config} \cup Config \X Nat]
         \cup [type : {"dbusProbe"}, interface : Interface, values : SUBSET Value]

ASSUME CommandAssumption == Command \in [Config -> Seq(Token)]
ASSUME ProbesAssumption == Probes \subseteq Seq(Token)
\* The last boot was of the same configurations (fwVersionIsSame).
ASSUME BootsAssumption == \A boot \in Boots : Named(boot)

Indexes(names) == {n[2] : n \in {m \in names : Len(m) = 2 /\ Naming[m[1]] = "index"}}

Call == [path : Path, interface : Interface, retries : 1..GetAllRetries,
         waiting : BOOLEAN]
CallTo(p, i, left, waiting) ==
    [path |-> p, interface |-> i, retries |-> left, waiting |-> waiting]

TypeOK ==
    /\ bus \in Objects
    /\ signals \in Seq([kind : {"added", "removed", "changed", "owner"}, path : Path])
    /\ changes \in 0..MaxChanges
    /\ dbusMatches \in SUBSET Path
    /\ dirty \in BOOLEAN
    /\ phase \in {"idle", "posted", "mapper", "mapperWait", "calls", "exited"}
    /\ retries \in 0..MapperRetries
    /\ wanted \in SUBSET Interface
    /\ calls \in SUBSET Call
    /\ held \in Seq(Config)
    /\ configurations \in Seq(Config)
    /\ \A n \in passedProbes : \E c \in Config : n = Raw(c) \/ NameOf(c, n)
    /\ dbusProbeObjects \in Objects
    /\ passed \in BOOLEAN
    /\ missing \in SUBSET Record
    /\ Named(systemConfiguration)
    /\ Named(lastJson)
    /\ gaveUp \in BOOLEAN

Init ==
    /\ bus \in {o \in Objects : \A p \in Path, i \in Interface :
                                   o[p][i] \in Offers[p][i] \cup {NoValue}}
    /\ signals = <<>>
    /\ changes = 0
    /\ dbusMatches = {}
    /\ dirty = TRUE
    /\ phase = "idle"
    /\ retries = MapperRetries
    /\ wanted = {}
    /\ calls = {}
    /\ held = <<>>
    /\ configurations = <<>>
    /\ passedProbes = {}
    /\ dbusProbeObjects = NothingRead
    /\ passed = FALSE
    /\ missing = {}
    /\ systemConfiguration = <<>>
    /\ lastJson \in Boots
    /\ gaveUp = FALSE

-----------------------------------------------------------------------------
(* The devices and their signals *)

\* The objects, with that value of an interface.
Having(objects, p, i, value) ==
    [q \in Path |-> [j \in Interface |->
        IF q = p /\ j = i THEN value ELSE objects[q][j]]]

HasInterface(o, p) == \E i \in Interface : o[p][i] # NoValue

\* An interface appears, goes (alone or with its owner's bus name), or has a
\* property changed; the bus delivers the latter only where it is matched.
Changes(p, i, value) ==
    LET before == bus[p][i]
        send(kind) == Append(signals, [kind |-> kind, path |-> p])
    IN  /\ changes < MaxChanges
        /\ changes' = changes + 1
        /\ value # before
        /\ bus' = Having(bus, p, i, value)
        /\ \/ before = NoValue /\ signals' = send("added")
           \/ value = NoValue /\ signals' = send("removed")
           \/ value = NoValue /\ ~HasInterface(bus', p) /\ signals' = send("owner")
           \/ /\ before # NoValue /\ value # NoValue
              /\ signals' = IF p \in dbusMatches THEN send("changed") ELSE signals
        /\ UNCHANGED <<dbusMatches, dirty, phase, retries, wanted, calls, probing,
                       dbusProbeObjects, gaveUp>>

\* The handlers of initFilters and registerCallback: each asks for a rescan; a
\* removed probe interface also drops the path's PropertiesChanged match, and
\* what that match had queued is then nobody's.
HandleSignal ==
    /\ signals # <<>>
    /\ phase # "exited"
    /\ LET s == Head(signals)
       IN  /\ dirty' = (dirty \/ s.kind # "changed" \/ s.path \in dbusMatches)
           /\ dbusMatches' = IF s.kind = "removed"
                             THEN dbusMatches \ {s.path} ELSE dbusMatches
    /\ signals' = Tail(signals)
    /\ UNCHANGED <<environment, phase, retries, wanted, calls, probing,
                   dbusProbeObjects, gaveUp>>

-----------------------------------------------------------------------------
(* What a probe that passes does to the configuration *)

\* What a pass works on.
Scan(system, missing_, names, any, objects) ==
    [system |-> system, missing |-> missing_, passedProbes |-> names, passed |-> any,
     objects |-> objects]

With(system, r, name) ==
    [x \in DOMAIN system \cup {r} |-> IF x = r THEN name ELSE system[x]]

\* `indexes': one for each device found, less those restored devices use.
FreeIndexes(found, used) == SetToSortSeq((1..found) \ used, <)

\* generateDeviceName.  (usedNames is looked up with the template itself, and
\* templateCharReplace never returns a replacement, so a label already in use
\* is used again.)
NewName(c, value, index) ==
    CASE Naming[c] = "fixed"    -> Raw(c)
      [] Naming[c] = "index"    -> Indexed(c, index)
      [] Naming[c] = "property" -> Labelled(c, value)

RestorableWhileRunning(e) == DOMAIN e.system
\* Records that are configured, or were in the last boot.
Restorable(e) == DOMAIN e.system \cup DOMAIN lastJson

\* A record is copied over from the last boot unless it is configured.
CopyOver(system, r) ==
    IF r \in DOMAIN system THEN system ELSE With(system, r, lastJson[r])

\* restorePersistedConfigurations, for one device: its index is in use.
RestoreDevice(s, c, value) ==
    LET r == RecordName(c, value)
        system == CopyOver(s.e.system, r)
    IN  IF r \notin Restorable(s.e)
        THEN [e |-> s.e, used |-> s.used, new |-> Append(s.new, value)]
        ELSE [e |-> Scan(system, s.e.missing \ {r}, s.e.passedProbes, s.e.passed,
                         s.e.objects),
              used |-> s.used \cup Indexes({system[x] : x \in {r} \cap DOMAIN system}),
              new |-> s.new]

\* updateSystemConfigurationForDevice: the next free index, a name, a record.
AddDevice(s, c, value) ==
    LET r == RecordName(c, value)
        name == NewName(c, value, Head(s.indexes))
    IN  [e |-> Scan(With(s.e.system, r, name), s.e.missing \ {r},
                    s.e.passedProbes \cup {name}, s.e.passed, s.e.objects),
         indexes |-> Tail(s.indexes)]

NoneRestored(e) == [e |-> e, used |-> {}, new |-> <<>>]
Restored(e, c, devices) ==
    Fold(LAMBDA s, v : RestoreDevice(s, c, v), NoneRestored(e), devices)

Added(e, c, new, indexes) ==
    Fold(LAMBDA s, v : AddDevice(s, c, v), [e |-> e, indexes |-> indexes], new)

\* updateSystemConfiguration
Configure(e, c, devices) ==
    LET begin == Scan(e.system, e.missing, e.passedProbes \cup {Raw(c)}, TRUE, e.objects)
        restored == Restored(begin, c, devices)
        indexes == FreeIndexes(Len(devices), restored.used)
    IN  Added(restored.e, c, restored.new, indexes).e

\* ~PerformProbe
Evaluate(e, c) ==
    LET probe == DoProbe(Command[c], e.objects, e.passedProbes)
    IN  IF probe.ret THEN Configure(e, c, probe.devices) ELSE e

-----------------------------------------------------------------------------
(* One pass *)

Interfaces(c) == {t.interface : t \in {u \in Range(Command[c]) : u.type = "dbusProbe"}}

\* What processConfigurations has done: the configurations left, the probes held
\* and the interfaces they name, whether it has stopped.
Trail(e, left, held_, wanted_, stopped) ==
    [e |-> e, left |-> left, held |-> held_, wanted |-> wanted_, stopped |-> stopped]

\* processConfigurations for one configuration: what passed already is dropped;
\* a probe with a D-Bus statement is held until the replies are in; any other
\* is evaluated at once; one that does not parse stops the walk.
Walk(w, c) ==
    LET left == Append(w.left, c)
    IN  IF w.stopped THEN Trail(w.e, left, w.held, w.wanted, TRUE)
        ELSE IF Raw(c) \in w.e.passedProbes THEN w
        ELSE IF Command[c] = <<>> THEN Trail(w.e, left, w.held, w.wanted, TRUE)
        ELSE IF Interfaces(c) = {}
             THEN Trail(Evaluate(w.e, c), left, w.held, w.wanted, FALSE)
        ELSE Trail(w.e, left, Append(w.held, c), w.wanted \cup Interfaces(c), FALSE)

NoneWalked(e) == Trail(e, <<>>, <<>>, {}, FALSE)
WalkAll(e, todo) == Fold(Walk, NoneWalked(e), todo)

\* Interfaces no object read so far has.
Unread(interfaces, objects) ==
    {i \in interfaces : \A p \in Path : objects[p][i] = NoValue}

PassOnce(e) == FALSE
PassAgain(e) == e.passed

EvaluateAll(e, probes) == Fold(Evaluate, e, probes)

\* The last reference to the probes goes: they are evaluated in order, then
\* ~PerformScan posts the next pass, or prunes what is missing and completes.
Release(e, probes) ==
    \E end \in {EvaluateAll(e, probes)} :
        LET again == PassAgain(end)
        IN  /\ systemConfiguration' =
                   IF again THEN end.system
                   ELSE Restrict(end.system, DOMAIN end.system \ end.missing)
            /\ missing' = IF again THEN end.missing ELSE {}
            /\ passedProbes' = end.passedProbes
            /\ passed' = FALSE
            /\ dbusProbeObjects' = end.objects
            /\ phase' = IF again THEN "posted" ELSE "idle"
            /\ held' = <<>>
            /\ wanted' = {}

ScannedWith(objects) ==
    Scan(systemConfiguration, missing, passedProbes, passed, objects)

\* run(): every configured name has passed and is not missing.
Seeded(e) ==
    LET names == e.passedProbes \cup Range(e.system)
    IN  Scan(e.system, {r \in e.missing : e.system[r] \notin names}, names, e.passed,
             e.objects)

RunPass(todo, e) ==
    \E walk \in {WalkAll(Seeded(e), todo)} :
        LET ask == Unread(walk.wanted, e.objects)
        IN  /\ configurations' = walk.left
            /\ retries' = MapperRetries
            /\ IF walk.stopped \/ ask = {}
               THEN Release(walk.e, walk.held)
               ELSE /\ systemConfiguration' = walk.e.system
                    /\ missing' = walk.e.missing
                    /\ passedProbes' = walk.e.passedProbes
                    /\ passed' = walk.e.passed
                    /\ dbusProbeObjects' = walk.e.objects
                    /\ phase' = "mapper"
                    /\ held' = walk.held
                    /\ wanted' = ask

\* propertiesChangedCallbackDebounced: a new scan, over all configurations.
BeginScan ==
    /\ phase = "idle"
    /\ dirty
    /\ dirty' = FALSE
    /\ gaveUp' = FALSE
    /\ RunPass(LoadOrder, Scan(systemConfiguration, DOMAIN systemConfiguration, {}, FALSE,
                               NothingRead))
    /\ UNCHANGED <<environment, signals, dbusMatches, calls, lastJson>>

NextPass ==
    /\ phase = "posted"
    /\ RunPass(configurations, ScannedWith(dbusProbeObjects))
    /\ UNCHANGED <<environment, filters, calls, lastJson, gaveUp>>

-----------------------------------------------------------------------------
(* The object mapper *)

Owners == {p \in Path : \E i \in wanted : bus[p][i] # NoValue}

RegisterNothing(paths) == dbusMatches
Register(paths) == dbusMatches \cup paths

\* GetSubTree is answered: match PropertiesChanged on every object, then read
\* every interface of it.
MapperReplies ==
    /\ phase = "mapper"
    /\ Owners # {}
    /\ dbusMatches' = Register(Owners)
    /\ calls' = {call \in Call : /\ call.path \in Owners
                                  /\ bus[call.path][call.interface] # NoValue
                                  /\ call.retries = GetAllRetries
                                  /\ ~call.waiting}
    /\ phase' = "calls"
    /\ UNCHANGED <<environment, signals, dirty, retries, wanted, probing,
                   dbusProbeObjects, gaveUp>>

\* ENOENT: no object has any of the interfaces.
MapperFindsNothing ==
    /\ phase = "mapper"
    /\ Owners = {}
    /\ Release(ScannedWith(dbusProbeObjects), held)
    /\ UNCHANGED <<environment, filters, retries, calls, configurations,
                   lastJson, gaveUp>>

\* Any other error: wait, or leave the process when no retry is left.
MapperFails ==
    /\ phase = "mapper"
    /\ phase' = IF retries = 0 THEN "exited" ELSE "mapperWait"
    /\ UNCHANGED <<environment, filters, retries, wanted, calls, probing,
                   dbusProbeObjects, gaveUp>>

MapperRetry ==
    /\ phase = "mapperWait"
    /\ phase' = "mapper"
    /\ retries' = retries - 1
    /\ UNCHANGED <<environment, filters, wanted, calls, probing,
                   dbusProbeObjects, gaveUp>>

-----------------------------------------------------------------------------
(* GetAll *)

\* One call is over; the last one releases the probes.
CallEnds(call, objects) ==
    LET rest == calls \ {call}
    IN  IF rest = {}
        THEN /\ calls' = {}
             /\ Release(ScannedWith(objects), held)
             /\ UNCHANGED configurations
        ELSE /\ calls' = rest
             /\ dbusProbeObjects' = objects
             /\ UNCHANGED <<phase, wanted, held, configurations, passedProbes,
                            passed, missing, systemConfiguration>>

\* Answered with what the object has by then; an object that has gone (EBADR)
\* is skipped.
Reply(call) ==
    /\ phase = "calls"
    /\ call \in calls /\ ~call.waiting
    /\ CallEnds(call,
                IF bus[call.path][call.interface] = NoValue
                THEN dbusProbeObjects
                ELSE Having(dbusProbeObjects, call.path, call.interface,
                            bus[call.path][call.interface]))
    /\ UNCHANGED <<environment, filters, retries, lastJson, gaveUp>>

\* Any other error: the call waits two seconds to be made again.
CallFails(call) ==
    /\ phase = "calls"
    /\ call \in calls /\ ~call.waiting
    /\ calls' = (calls \ {call}) \cup {CallTo(call.path, call.interface, call.retries, TRUE)}
    /\ UNCHANGED <<environment, filters, phase, retries, wanted, probing,
                   dbusProbeObjects, gaveUp>>

RetriesLeft(call) == call.retries > 1

Again(call, left) ==
    /\ phase = "calls"
    /\ call \in calls /\ call.waiting
    /\ RetriesLeft(call)
    /\ calls' = (calls \ {call}) \cup {CallTo(call.path, call.interface, left, FALSE)}
    /\ UNCHANGED <<environment, filters, phase, retries, wanted, probing,
                   dbusProbeObjects, gaveUp>>

RetryForEver(call) == Again(call, call.retries)
CallRetry(call) == Again(call, call.retries - 1)

\* Retries exhausted: the interface stays unread.
CallGivenUp(call) ==
    /\ phase = "calls"
    /\ call \in calls /\ call.waiting
    /\ ~RetriesLeft(call)
    /\ gaveUp' = TRUE
    /\ CallEnds(call, dbusProbeObjects)
    /\ UNCHANGED <<environment, filters, retries, lastJson>>

-----------------------------------------------------------------------------

Scanning ==
    \/ BeginScan
    \/ NextPass
    \/ MapperReplies
    \/ MapperFindsNothing
    \/ MapperRetry
    \/ \E call \in calls : Reply(call) \/ CallRetry(call) \/ CallGivenUp(call)

Failing == MapperFails \/ \E call \in calls : CallFails(call)

Hardware == \E p \in Path, i \in Interface : \E v \in Offers[p][i] \cup {NoValue} :
                Changes(p, i, v)

Next == Scanning \/ Failing \/ HandleSignal \/ Hardware

Spec == Init /\ [][Next]_vars

\* The loop runs posted handlers, expired retries and replies: weak fairness of
\* Scanning, with its ENABLED written out.
MayScan == IF phase = "idle" THEN dirty ELSE phase # "exited"
FairSpec == Spec /\ ([]<>~MayScan \/ []<><<Scanning>>_vars)

-----------------------------------------------------------------------------
(* Properties *)

Settled == phase = "idle" /\ ~dirty /\ signals = <<>>

\* When no signal and no rescan is outstanding, the inventory has what the bus
\* offers: no change slips between a read, the match that would report the next
\* one, and the removal that drops the match.  (A call given up after all its
\* retries is the exception the code accepts.)
InventoryCurrent ==
    Settled /\ ~gaveUp =>
        \A c \in Config :
            LET probe == DoProbe(Command[c], bus, passedProbes)
            IN  Command[c] # <<>> /\ probe.ret =>
                    IF Naming[c] = "fixed"
                    THEN \E r \in DOMAIN systemConfiguration : r[1] = c
                    ELSE \A v \in Range(probe.devices) :
                            RecordName(c, v) \in DOMAIN systemConfiguration

\* A scan completes only when no configuration left over would pass on what it
\* has read: FOUND finds its board in whatever order the files were loaded.
ScanReachesFixpoint ==
    [][phase # "idle" /\ phase' = "idle" =>
            \A c \in Config :
                DoProbe(Command[c], dbusProbeObjects', passedProbes').ret
                    => Raw(c) \in passedProbes']_vars

\* A record keeps its name while it is configured, and a device that was known
\* in the last boot comes back under the name it had.
NamesAreKept ==
    [][\A r \in DOMAIN systemConfiguration' :
            systemConfiguration'[r] =
                IF r \in DOMAIN systemConfiguration THEN systemConfiguration[r]
                ELSE IF r \in DOMAIN lastJson THEN lastJson[r]
                ELSE systemConfiguration'[r]]_vars

\* A well-formed probe passes iff some true operand begins it or follows an OR,
\* and every operand behind an AND after it is true: operators apply left to
\* right with no precedence, which platform files that mix AND and OR depend on;
\* and MATCH_ONE at the end changes nothing of it.  (It is judged in the initial
\* states, which have all there may be on the bus.)
PassesLeftToRight ==
    Init => \A command \in Probes :
        WellFormed(command) =>
            (DoProbe(command, bus, Range(lastJson)).ret <=>
                Means(command, bus, Range(lastJson)))

\* Every scan ends, whatever fails: it completes, or the process exits.
ScanEnds == (phase # "idle") ~> (phase \in {"idle", "exited"})

=============================================================================
