----------------------------- MODULE CbcTopology ------------------------------
(***************************************************************************)
(* cbc-tray-topology-parser: reads CustomField1 of cable cartridges from   *)
(* whichever service has them on D-Bus, and publishes the numbers it holds *)
(* at the cartridge's path.                                                *)
(*                                                                         *)
(* D-Bus keeps the order of the messages of one sender, and of no two: an  *)
(* inbox per sender.  The daemon's own signals, which it drops, are not    *)
(* sent here.                                                              *)
(***************************************************************************)
EXTENDS Naturals, Sequences, FiniteSets, SequencesExt

CONSTANTS
    Services,      \* that may have cartridges
    Self,          \* xyz.openbmc_project.CBCTrayTopologyParser
    Mapper,
    Paths,         \* beneath the inventory's cablecartridge
    Fields,        \* values of CustomField1: a sequence of two-digit tokens
    NotHex,        \* a token that is no number
    Unset,         \* no CustomField1, or not a string
    None,
    MaxCableChanges,    \* bound on changes of the environment
    MaxFaults      \* bound on failed calls and crashes

ASSUME SendersAssumption == Self \notin Services /\ Mapper \notin Services
ASSUME ValuesAssumption ==
    /\ None \notin Fields /\ Unset \notin Fields /\ None # Unset
    /\ IsFiniteSet(Paths)
ASSUME BoundsAssumption == MaxCableChanges \in Nat /\ MaxFaults \in Nat

VARIABLES
    objects,       \* of each service: CustomField1 of the paths it has
    inbox,         \* messages to the daemon by sender, oldest first
    asked,         \* paths each service is to answer a Get for
    phase,         \* of main: "down", "matched", "running"
    cbcObjects,    \* the numbers published at a path, or None
    excused,       \* history: paths the daemon cannot be right about
    cableChanges,
    faults

cbcVars == <<objects, inbox, asked, phase, cbcObjects, excused, cableChanges, faults>>
cables == <<objects, cableChanges>>

trayTopologyByteLength == 8
trayTopologyMinRevision == 2

-----------------------------------------------------------------------------
(* The field *)

parseTrayTopology(field) ==
    /\ field # Unset
    /\ Len(field) = trayTopologyByteLength
    /\ NotHex \notin ToSet(field)
    /\ field[1] >= trayTopologyMinRevision

\* In the order they are set.
Properties == <<"ChassisPhysicalSlotNumber", "ComputeTrayIndex", "RevisionId", "TopologyId">>

Numbers(field) ==
    [ChassisPhysicalSlotNumber |-> field[3], ComputeTrayIndex |-> field[4],
     RevisionId |-> field[1], TopologyId |-> field[5]]

-----------------------------------------------------------------------------
CbcInit ==
    /\ objects \in [Services -> [Paths -> {None} \cup Fields]]
    /\ \A s, t \in Services, p \in Paths :
           s # t => objects[s][p] = None \/ objects[t][p] = None
    /\ inbox = [s \in Services \cup {Mapper} |-> <<>>]
    /\ asked = [s \in Services |-> <<>>]
    /\ phase = "down"
    /\ cbcObjects = [p \in Paths |-> None]
    /\ excused = {}
    /\ cableChanges = 0 /\ faults = 0

(* History: a path is excused where the daemon is not told all there is to *)
(* know: two services have it at once or one after the other too fast, a   *)
(* call fails, or a service goes without taking its objects off D-Bus.     *)
Excuse(paths) == excused' = excused \cup paths

Fault == faults < MaxFaults /\ faults' = faults + 1

About(q, p) == \E i \in DOMAIN inbox[q] : p \in DOMAIN inbox[q][i].about

Contested(s, p) ==
    \E t \in Services \ {s} : objects[t][p] # None \/ About(t, p) \/ p \in ToSet(asked[t])

-----------------------------------------------------------------------------
(* The services and the mapper *)

\* The matches are added before anything else is asked for.
Listening == phase # "down"

\* What each message is about, by path: the value, or the services there.
Message(kind, p, value) == [kind |-> kind, about |-> [x \in {p} |-> value]]

Emit(s, message) ==
    inbox' = IF Listening THEN [inbox EXCEPT ![s] = Append(@, message)] ELSE inbox

Change(s, p, value) ==
    /\ cableChanges < MaxCableChanges
    /\ cableChanges' = cableChanges + 1
    /\ objects' = [objects EXCEPT ![s][p] = value]
    /\ UNCHANGED <<asked, phase, cbcObjects, faults>>

\* The signal may leave out the property, and the object may not have it.
Appears(s, p) ==
    \E field \in Fields \cup {Unset}, told \in BOOLEAN :
        /\ objects[s][p] = None
        /\ Change(s, p, field)
        /\ Emit(s, Message("added", p, IF told THEN field ELSE Unset))
        /\ Excuse(IF Contested(s, p) THEN {p} ELSE {})

FieldChanges(s, p) ==
    \E field \in Fields \ {objects[s][p]} :
        /\ objects[s][p] # None
        /\ Change(s, p, field)
        /\ Emit(s, Message("changed", p, field))
        /\ UNCHANGED excused

Vanishes(s, p) ==
    /\ objects[s][p] # None
    /\ Change(s, p, None)
    /\ Emit(s, Message("removed", p, Unset))
    /\ UNCHANGED excused

\* Goes off the bus.  What it was asked for fails.
ServiceDies(s) ==
    /\ Fault
    /\ objects' = [objects EXCEPT ![s] = [p \in Paths |-> None]]
    /\ inbox' = [inbox EXCEPT ![s] =
           @ \o [i \in DOMAIN asked[s] |-> Message("value", asked[s][i], Unset)]]
    /\ asked' = [asked EXCEPT ![s] = <<>>]
    /\ Excuse({p \in Paths : objects[s][p] # None})
    /\ UNCHANGED <<phase, cbcObjects, cableChanges>>

\* An object that is gone or has no CustomField1, or a call that fails.
AnswersGet(s) ==
    LET p == Head(asked[s])
        Answer(field) == inbox' = [inbox EXCEPT ![s] = Append(@, Message("value", p, field))]
    IN  /\ asked[s] # <<>>
        /\ asked' = [asked EXCEPT ![s] = Tail(@)]
        /\ \/ /\ Answer(IF objects[s][p] = None THEN Unset ELSE objects[s][p])
              /\ UNCHANGED <<excused, faults>>
           \/ /\ Fault
              /\ Answer(Unset)
              /\ Excuse({p})
        /\ UNCHANGED <<cables, phase, cbcObjects>>

\* Services with VendorInformation at a path, the daemon among them.
ServicesAt(p) ==
    {s \in Services : objects[s][p] # None} \cup (IF cbcObjects[p] # None THEN {Self} ELSE {})

(* The mapper sees the signals sent before a call, as the daemon does, and *)
(* so answers with what there is when it is called.  It may fail, or not   *)
(* know a service yet; GetObject fails where it knows none.                *)
CallMapper(paths, received) ==
    LET Answer(known) ==
            inbox' = [received EXCEPT ![Mapper] = Append(@, [kind |-> "mapper", about |-> known])]
    IN  \/ /\ Answer([p \in paths |-> ServicesAt(p)])
           /\ UNCHANGED faults
           /\ UNCHANGED excused
        \/ /\ Fault
           /\ \E unlisted \in SUBSET paths \ {{}} :
                  /\ Answer([p \in paths \ unlisted |-> ServicesAt(p)])
                  /\ Excuse({p \in unlisted : ServicesAt(p) # {}})

-----------------------------------------------------------------------------
(* The daemon *)

\* main: the matches, then discoverExistingCBCObjects, then the event loop.
Matches ==
    /\ phase = "down"
    /\ phase' = "matched"
    /\ excused' = {p \in Paths : \E s \in Services : objects[s][p] # None /\ Contested(s, p)}
    /\ UNCHANGED <<cables, inbox, asked, cbcObjects, faults>>

discoverExistingCBCObjects ==
    /\ phase = "matched"
    /\ phase' = "running"
    /\ CallMapper(Paths, inbox)
    /\ UNCHANGED <<cables, asked, cbcObjects>>

\* An exception of remove_interface ends the daemon, as anything else may;
\* systemd starts it again.
Crash ==
    /\ phase # "down"
    /\ Fault
    /\ phase' = "down"
    /\ cbcObjects' = [p \in Paths |-> None]
    /\ inbox' = [q \in DOMAIN inbox |-> <<>>]
    /\ asked' = [s \in Services |-> <<>>]
    /\ UNCHANGED <<cables, excused>>

Publish(p, numbers) ==
    cbcObjects' = [cbcObjects EXCEPT ![p] = numbers]

\* The numbers after an exception of the i-th set_property.
SetUpTo(old, new, i) ==
    [name \in DOMAIN old |-> IF \E j \in 1..i - 1 : Properties[j] = name THEN new[name] ELSE old[name]]

\* Mutant: data that is no longer valid leaves what was published.
KeepsOldNumbers(p, field) ==
    /\ IF parseTrayTopology(field) THEN Publish(p, Numbers(field)) ELSE UNCHANGED cbcObjects
    /\ UNCHANGED <<excused, faults>>

\* An interface that cannot be made is left out, one that cannot be set
\* keeps the rest of its old numbers.
processCBCCustomField(p, field) ==
    \/ /\ ~parseTrayTopology(field)
       /\ Publish(p, None)
       /\ UNCHANGED <<excused, faults>>
    \/ /\ parseTrayTopology(field)
       /\ \/ /\ Publish(p, Numbers(field))
             /\ UNCHANGED <<excused, faults>>
          \/ /\ Fault
             /\ Excuse({p})
             /\ IF cbcObjects[p] = None
                THEN UNCHANGED cbcObjects
                ELSE \E i \in DOMAIN Properties :
                         Publish(p, SetUpTo(cbcObjects[p], Numbers(field), i))

\* setupCBCObject for each path of an answer of the mapper, at the first
\* service that is not the daemon itself.
OtherServices(services) == services \ {Self}

Receives(q, kind) ==
    /\ phase = "running"
    /\ inbox[q] # <<>>
    /\ Head(inbox[q]).kind = kind

Taken(q) == [inbox EXCEPT ![q] = Tail(@)]

handlePropertiesChanged(s) ==
    /\ Receives(s, "changed")
    /\ \E p \in DOMAIN Head(inbox[s]).about :
           processCBCCustomField(p, Head(inbox[s]).about[p])
    /\ inbox' = Taken(s)
    /\ UNCHANGED <<cables, asked, phase>>

\* Mutant: a field that the signal leaves out is not asked for.
OnlyWhatIsTold(s) ==
    /\ Receives(s, "added")
    /\ \E p \in DOMAIN Head(inbox[s]).about :
           LET field == Head(inbox[s]).about[p]
           IN  IF field # Unset THEN processCBCCustomField(p, field)
               ELSE UNCHANGED <<cbcObjects, excused, faults>>
    /\ inbox' = Taken(s)
    /\ UNCHANGED <<cables, asked, phase>>

handleInterfacesAdded(s) ==
    /\ Receives(s, "added")
    /\ \E p \in DOMAIN Head(inbox[s]).about :
           LET field == Head(inbox[s]).about[p]
           IN  \/ /\ field # Unset
                  /\ processCBCCustomField(p, field)
                  /\ inbox' = Taken(s)
               \/ /\ field = Unset
                  /\ CallMapper({p}, Taken(s))
                  /\ UNCHANGED cbcObjects
    /\ UNCHANGED <<cables, asked, phase>>

handleInterfacesRemoved(s) ==
    /\ Receives(s, "removed")
    /\ \E p \in DOMAIN Head(inbox[s]).about : Publish(p, None)
    /\ inbox' = Taken(s)
    /\ UNCHANGED <<cables, asked, phase, excused, faults>>

\* The answer to a Get.
ValueRead(s) ==
    /\ Receives(s, "value")
    /\ \E p \in DOMAIN Head(inbox[s]).about :
           LET field == Head(inbox[s]).about[p]
           IN  \/ /\ field # Unset
                  /\ processCBCCustomField(p, field)
               \/ /\ field = Unset
                  /\ UNCHANGED <<cbcObjects, excused, faults>>
    /\ inbox' = Taken(s)
    /\ UNCHANGED <<cables, asked, phase>>

\* The answer of the mapper.  A Get goes to one service per path.
setupCBCObjects ==
    /\ Receives(Mapper, "mapper")
    /\ LET known == Head(inbox[Mapper]).about
           found == {p \in DOMAIN known : OtherServices(known[p]) # {}}
       IN  \E first \in [found -> Services \cup {Self}] :
               /\ \A p \in found : first[p] \in OtherServices(known[p])
               /\ asked' = [s \in Services |->
                      asked[s] \o SetToSeq({p \in found : first[p] = s})]
    /\ inbox' = Taken(Mapper)
    /\ UNCHANGED <<cables, phase, cbcObjects, excused, faults>>

-----------------------------------------------------------------------------
Handler ==
    \/ \E s \in Services :
           \/ handlePropertiesChanged(s)
           \/ handleInterfacesAdded(s)
           \/ handleInterfacesRemoved(s)
           \/ ValueRead(s)
    \/ setupCBCObjects

Start == Matches \/ discoverExistingCBCObjects

CbcEnvironment ==
    \/ \E s \in Services, p \in Paths : Appears(s, p) \/ FieldChanges(s, p) \/ Vanishes(s, p)
    \/ \E s \in Services : ServiceDies(s)

CbcNext ==
    \/ Start
    \/ Handler
    \/ Crash
    \/ CbcEnvironment
    \/ \E s \in Services : AnswersGet(s)

CbcSpec == CbcInit /\ [][CbcNext]_cbcVars

CbcFairSpec ==
    /\ CbcSpec
    /\ WF_cbcVars(Start)
    /\ WF_cbcVars(Handler)
    /\ \A s \in Services : WF_cbcVars(AnswersGet(s))

-----------------------------------------------------------------------------
(* What a path should show. *)
Due(p) ==
    LET valid == {s \in Services : objects[s][p] # None /\ parseTrayTopology(objects[s][p])}
    IN  {Numbers(objects[s][p]) : s \in valid}

Agrees(p) ==
    IF Due(p) = {} THEN cbcObjects[p] = None ELSE cbcObjects[p] \in Due(p)

\* Whatever signals come before, between and after the calls of a start or of
\* an addition, a path either shows the numbers its cartridge has now, or a
\* message or a call about it is under way: none is handled too early to count,
\* and the last one handled is the newest (the order of main: matches, then
\* GetSubTree).
NothingIsMissed ==
    \A p \in Paths \ excused :
        phase = "running" =>
            \/ Agrees(p)
            \/ \E q \in DOMAIN inbox : About(q, p)
            \/ \E s \in Services : p \in ToSet(asked[s])

\* In the end each path shows the numbers its cartridge has, also when the
\* daemon was restarted; nothing is shown for one that is gone or whose field
\* stopped being valid.
EventuallyShown ==
    \A p \in Paths : <>[](p \in excused \/ (phase = "running" /\ Agrees(p)))

=============================================================================
