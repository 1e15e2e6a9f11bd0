---------------------------- MODULE ExposeActions -----------------------------
(***************************************************************************)
(* Bind and DisableNode: an element of one record's Exposes changes        *)
(* elements of others, by their names, when its record is configured.      *)
(* Only records that are there by then are changed; a record is published  *)
(* as it is when its handler runs, by when later scans may have changed    *)
(* it, and restored, without its actions, as it was saved.  No record is   *)
(* pruned here.                                                            *)
(***************************************************************************)
EXTENDS Naturals, Sequences, FiniteSets, SequencesExt

CONSTANTS
    Records,
    KeyOrder,      \* all records, in the order of their keys
    Names,         \* of elements
    Exposes,       \* of each record: its elements as configured
    NotCombined,   \* the element has no other in it
    MaxRestarts    \* bound on restarts

Statuses == {"okay", "disabled"}

ASSUME KeyOrderAssumption ==
    /\ KeyOrder \in Seq(Records)
    /\ Range(KeyOrder) = Records /\ Len(KeyOrder) = Cardinality(Records)
ASSUME ExposesAssumption ==
    Exposes \in [Records -> Seq([Name : Names, Status : Statuses,
                                 Bind : SUBSET Names, DisableNode : SUBSET Names])]
ASSUME RestartsAssumption == MaxRestarts \in Nat

VARIABLES
    systemConfiguration,   \* of each record found: its elements as they are
    lastJson,              \* system.json as it was when the process began
    systemJson,            \* system.json
    oldConfiguration,      \* what was there when the scan began, if scanning
    scanning,
    ready,                 \* posted handlers, with the records of their newConfiguration
    dbus,                  \* of each record published: the elements shown
    fresh,                 \* history: records this scan has configured
    inOrder,               \* history: <<earlier, later>> of one scan's
    restarts

vars == <<systemConfiguration, lastJson, systemJson, oldConfiguration, scanning, ready,
          dbus, fresh, inOrder, restarts>>

-----------------------------------------------------------------------------
(* The actions of one record *)

\* Elements as <<record, place>>.
AllPlaces == UNION {{<<r, i>> : i \in DOMAIN Exposes[r]} : r \in Records}

ElementAt(place) == Exposes[place[1]][place[2]]
NameAt(place) == ElementAt(place).Name

\* What changes of an element: its Status, and the one combined with it.
Element(status, combined) == [Status |-> status, combined |-> combined]

Configured(r) ==
    [i \in DOMAIN Exposes[r] |-> Element(Exposes[r][i].Status, NotCombined)]

Put(config, r, elements) ==
    [s \in DOMAIN config \cup {r} |-> IF s = r THEN elements ELSE config[s]]

\* The order of the loops.
Position(r) == CHOOSE n \in DOMAIN KeyOrder : KeyOrder[n] = r
IsBefore(p, q) ==
    Position(p[1]) < Position(q[1]) \/ (p[1] = q[1] /\ p[2] < q[2])

\* The elements of the records that have the names: for each the first one, since a name is
\* struck off when it is found.
Matches(config, names, records) ==
    LET named == {p \in AllPlaces : p[1] \in DOMAIN config \cap records /\ NameAt(p) \in names}
    IN  {p \in named : \A q \in named : NameAt(q) = NameAt(p) => ~IsBefore(q, p)}

LastOf(places) == CHOOSE p \in places : \A q \in places : q = p \/ IsBefore(q, p)

\* Mutant: an element is made usable where it is only copied.
OnlyCopied(config, places, status) ==
    IF status = "okay" THEN config
    ELSE [s \in DOMAIN config |->
            [i \in DOMAIN config[s] |->
                IF <<s, i>> \in places THEN Element(status, config[s][i].combined)
                ELSE config[s][i]]]

SetStatus(config, places, status) ==
    [s \in DOMAIN config |->
        [i \in DOMAIN config[s] |->
            IF <<s, i>> \in places THEN Element(status, config[s][i].combined)
            ELSE config[s][i]]]

Combine(elements, k, place) ==
    [i \in DOMAIN elements |->
        IF i = k THEN Element(elements[i].Status, place) ELSE elements[i]]

\* While a record acts: all of the configuration, and the record by itself.
Acting(config, record) == [config |-> config, record |-> record]

\* Bind: the elements named are made usable, and the last is combined with
\* this one.
applyBind(state, r, k) ==
    LET found == Matches(state.config, Exposes[r][k].Bind, Records)
    IN  Acting(SetStatus(state.config, found, "okay"),
               IF found = {} THEN state.record ELSE Combine(state.record, k, LastOf(found)))

\* Those of the record itself are not disabled.
applyDisable(state, r, k) ==
    LET found == Matches(state.config, Exposes[r][k].DisableNode, Records \ {r})
    IN  Acting(SetStatus(state.config, found, "disabled"), state.record)

applyExposeActions(state, r, k) == applyDisable(applyBind(state, r, k), r, k)

\* The record is there while its actions are applied, so that they may name
\* its own elements, and is replaced by a copy that they left alone.
Begun(config, r) == Acting(Put(config, r, Configured(r)), Configured(r))

Acted(config, r) ==
    LET after[k \in 0..Len(Exposes[r])] ==
            IF k = 0 THEN Begun(config, r) ELSE applyExposeActions(after[k - 1], r, k)
    IN  after[Len(Exposes[r])]

applyExposes(config, r) ==
    LET last == Acted(config, r) IN Put(last.config, r, last.record)

-----------------------------------------------------------------------------
(* Types *)

Elements(r) ==
    {e \in Seq([Status : Statuses, combined : AllPlaces \cup {NotCombined}]) :
        Len(e) = Len(Exposes[r])}

IsConfiguration(config) ==
    /\ config = [r \in DOMAIN config |-> config[r]]
    /\ DOMAIN config \subseteq Records
    /\ \A r \in DOMAIN config : config[r] \in Elements(r)

JobOf(step, boards) == [step |-> step, boards |-> boards]

IsJob(job) ==
    /\ job = JobOf(job.step, job.boards)
    /\ job.step \in {"publish", "write", "dbus"}
    /\ job.boards \in SUBSET Records

TypeOK ==
    /\ IsConfiguration(systemConfiguration)
    /\ IsConfiguration(lastJson)
    /\ IsConfiguration(systemJson)
    /\ oldConfiguration \in SUBSET Records
    /\ scanning \in BOOLEAN
    /\ ready \in Seq(Range(ready)) /\ \A job \in Range(ready) : IsJob(job)
    /\ DOMAIN dbus \subseteq Records
    /\ \A r \in DOMAIN dbus : \A shown \in dbus[r] : <<r, shown.place>> \in AllPlaces
    /\ fresh \in SUBSET Records
    /\ inOrder \in SUBSET (Records \X Records)
    /\ restarts \in 0..MaxRestarts

-----------------------------------------------------------------------------
Init ==
    /\ systemConfiguration = <<>> /\ lastJson = <<>> /\ systemJson = <<>>
    /\ oldConfiguration = {} /\ scanning = FALSE
    /\ ready = <<>>
    /\ dbus = <<>>
    /\ fresh = {} /\ inOrder = {}
    /\ restarts = 0

BeginScan ==
    /\ ~scanning
    /\ scanning' = TRUE
    /\ oldConfiguration' = DOMAIN systemConfiguration
    /\ fresh' = {}
    /\ UNCHANGED <<systemConfiguration, lastJson, systemJson, ready, dbus, inOrder, restarts>>

\* A record whose probe passes, and which no earlier process has saved.
Configure(r) ==
    /\ scanning
    /\ r \notin DOMAIN systemConfiguration \cup DOMAIN lastJson
    /\ systemConfiguration' = applyExposes(systemConfiguration, r)
    /\ fresh' = fresh \cup {r}
    /\ inOrder' = inOrder \cup {<<t, r>> : t \in fresh}
    /\ UNCHANGED <<lastJson, systemJson, oldConfiguration, scanning, ready, dbus, restarts>>

\* Mutant: the actions of a record that is restored are applied again.
ActsAgain(r) ==
    /\ scanning
    /\ r \in DOMAIN lastJson \ DOMAIN systemConfiguration
    /\ systemConfiguration' = Put(applyExposes(systemConfiguration, r), r, lastJson[r])
    /\ UNCHANGED <<lastJson, systemJson, oldConfiguration, scanning, ready, dbus, fresh,
                   inOrder, restarts>>

Restore(r) ==
    /\ scanning
    /\ r \in DOMAIN lastJson \ DOMAIN systemConfiguration
    /\ systemConfiguration' = Put(systemConfiguration, r, lastJson[r])
    /\ UNCHANGED <<lastJson, systemJson, oldConfiguration, scanning, ready, dbus, fresh,
                   inOrder, restarts>>

\* What is new is published by handlers posted one by the other.
EndScan ==
    /\ scanning
    /\ scanning' = FALSE
    /\ LET new == DOMAIN systemConfiguration \ oldConfiguration
       IN  ready' = IF new = {} THEN ready
                    ELSE Append(ready, JobOf("publish", new))
    /\ oldConfiguration' = {}
    /\ UNCHANGED <<systemConfiguration, lastJson, systemJson, dbus, fresh, inOrder, restarts>>

Runs(step) == ready # <<>> /\ Head(ready).step = step

publishNewConfiguration ==
    /\ Runs("publish")
    /\ ready' = Tail(ready) \o <<JobOf("write", {}), JobOf("dbus", Head(ready).boards)>>
    /\ UNCHANGED <<systemConfiguration, lastJson, systemJson, oldConfiguration, scanning,
                   dbus, fresh, inOrder, restarts>>

\* All of it as it is now; how a write may break off is Persistence's.
writeJsonFiles ==
    /\ Runs("write")
    /\ systemJson' = systemConfiguration
    /\ ready' = Tail(ready)
    /\ UNCHANGED <<systemConfiguration, lastJson, oldConfiguration, scanning, dbus, fresh,
                   inOrder, restarts>>

Shown(elements) ==
    {[place |-> i, combined |-> elements[i].combined] :
        i \in {j \in DOMAIN elements : elements[j].Status # "disabled"}}

\* newConfiguration gives the records; what is shown of them is what
\* systemConfiguration has by now.
postToDbus ==
    /\ Runs("dbus")
    /\ LET new == Head(ready).boards
       IN  dbus' = [r \in DOMAIN dbus \cup new |->
                       IF r \in new THEN Shown(systemConfiguration[r]) ELSE dbus[r]]
    /\ ready' = Tail(ready)
    /\ UNCHANGED <<systemConfiguration, lastJson, systemJson, oldConfiguration, scanning,
                   fresh, inOrder, restarts>>

\* handleCurrentConfigurationJson takes what was saved away.
Restart ==
    /\ restarts < MaxRestarts
    /\ restarts' = restarts + 1
    /\ lastJson' = systemJson
    /\ systemJson' = <<>>
    /\ systemConfiguration' = <<>>
    /\ oldConfiguration' = {} /\ scanning' = FALSE
    /\ ready' = <<>> /\ dbus' = <<>>
    /\ fresh' = {} /\ inOrder' = {}

Next ==
    \/ BeginScan
    \/ \E r \in Records : Configure(r) \/ Restore(r)
    \/ EndScan
    \/ publishNewConfiguration
    \/ writeJsonFiles
    \/ postToDbus
    \/ Restart

Spec == Init /\ [][Next]_vars

-----------------------------------------------------------------------------
(* What the elements ask for *)

Binders(p) == {x \in AllPlaces : NameAt(p) \in ElementAt(x).Bind}

Disablers(p) == {x \in AllPlaces : NameAt(p) \in ElementAt(x).DisableNode}

IsShown(p) == \E shown \in dbus[p[1]] : shown.place = p[2]

IsCombined(x, p) == [place |-> x[2], combined |-> p] \in dbus[x[1]]

\* Records one scan found in the order of their dependency are shown as the
\* configuration has it, whatever else it found in between and after, and
\* whatever is restored or found by other scans meanwhile: an element that
\* another one binds is usable and is combined with it, and one that another
\* disables is not there; where another disables what one binds, either may be.
InOrderIsShown ==
    \A p, x \in AllPlaces :
        /\ <<p[1], x[1]>> \in inOrder
        /\ {p[1], x[1]} \subseteq DOMAIN dbus
        =>
        /\ x \in Binders(p) /\ Disablers(p) = {} => IsShown(p)
        /\ ElementAt(x).Bind = {NameAt(p)} /\ IsShown(x) => IsCombined(x, p)
        /\ x \in Disablers(p) /\ Binders(p) = {} => ~IsShown(p)

\* A restart changes nothing about what was saved: in whatever order records
\* come back, each is shown as system.json had it, unless a record that was not
\* saved speaks of it.
ComesBackAsSaved ==
    \A p \in AllPlaces :
        /\ p[1] \in DOMAIN lastJson \cap DOMAIN dbus
        /\ \A x \in Binders(p) \cup Disablers(p) :
               x[1] \in DOMAIN lastJson \/ x[1] \notin DOMAIN systemConfiguration
        => (IsShown(p) <=> lastJson[p[1]][p[2]].Status # "disabled")
=============================================================================
