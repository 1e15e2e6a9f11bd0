----------------------------- MODULE Persistence ------------------------------
(***************************************************************************)
(* What D-Bus clients change in the inventory at run time, and how it      *)
(* survives: AddObject, Delete and property setters (dbus_interface.cpp)   *)
(* change the JSON of a record through the pointer their interface was     *)
(* made with, writeJsonFiles (configuration.cpp) replaces system.json, and *)
(* the next process takes that file away before it reads it                *)
(* (handleCurrentConfigurationJson) and restores each record the scan      *)
(* finds again.                                                            *)
(*                                                                         *)
(* One thread runs every handler; the process or the power may fail        *)
(* between any two of the file operations.                                 *)
(***************************************************************************)
EXTENDS Naturals, Sequences, FiniteSets, SequencesExt

CONSTANTS
    Record,      \* records of the inventory
    Key,         \* Name and Type of an Exposes element
    Value,       \* what a settable property may hold
    Null,        \* JSON's null
    Default,     \* record -> its board, as the configuration files have it
    Settable,    \* keys whose Type is one of settableInterfaces
    TypeIsLast,  \* keys of elements in which no member is sorted behind Type
    Found,       \* the sets of records a scan may find
    Absent, Broken,  \* system.json is not there; does not parse
    MaxOps       \* bound on calls, faults and firmware updates

\* An element of Exposes: `whole' unless its last member is null; `parts' are
\* its Thresholds.
Item == [key : Key, whole : BOOLEAN, value : Value, parts : Seq(Value \cup {Null})]

\* A record: one settable decorator, and what it exposes.
Board == [asset : Value \cup {Null}, exposes : Seq(Item \cup {Null})]

ASSUME DefaultAssumption ==
    /\ Default \in [Record -> Board]
    /\ \A r \in Record : \A i \in DOMAIN Default[r].exposes :
          /\ Default[r].exposes[i] # Null
          /\ Default[r].exposes[i].key \in Settable => Default[r].exposes[i].parts = <<>>
ASSUME FoundAssumption == Found \subseteq SUBSET Record
ASSUME NullAssumption == Null \notin Value /\ Null \notin Item
\* A file that is not there, or does not parse, is no JSON object.
ASSUME FileAssumption ==
    /\ Absent # Broken
    /\ \A S \in SUBSET Record : Absent \notin [S -> Board] /\ Broken \notin [S -> Board]
ASSUME BoundAssumption == MaxOps \in Nat

VARIABLES
    up,
    lastJson,
    systemConfiguration,
    posted,        \* handlers publishNewConfiguration has posted
    newConfiguration,
    ifaces,        \* interfaces on D-Bus
    saving,        \* the file operation of writeJsonFiles that was last done
    current,       \* system.json
    afterLoss,     \* what a power loss may leave of it
    upgraded,      \* the firmware is new since the last start
    ops,
    failed,        \* history: a file operation failed since all was saved
    saved,         \* history: record -> what this process may have left in the file
    was,           \* history: record -> how an earlier process may have left it
    excused        \* history: records the last process had not saved

files == <<current, afterLoss>>
history == <<failed, saved, was, excused>>
vars == <<up, lastJson, systemConfiguration, posted, newConfiguration, ifaces,
          saving, files, upgraded, ops, history>>

\* An interface: the element or part it shows, and the JSON its setters and its
\* Delete reach: the element itself, or its last member only.
Iface == [record : Record, kind : {"board", "item", "part"}, key : Key \cup {Null},
          slot : Nat, part : Nat, reaches : {"itself", "member"},
          writable : BOOLEAN, shown : Value]

IsJson(j) == \E S \in SUBSET Record : j \in [S -> Board]
\* What is known of records.
IsHistory(h) == \E S \in SUBSET Record : h \in [S -> SUBSET Board]

TypeOK ==
    /\ up \in BOOLEAN
    /\ IsJson(lastJson) /\ IsJson(systemConfiguration)
    /\ posted \in {<<>>, <<"publish">>, <<"write", "publish">>}
    /\ newConfiguration \in SUBSET Record
    /\ ifaces \subseteq Iface
    /\ saving \in {"no", "begun", "written", "synced", "renamed"}
    /\ \A f \in afterLoss \cup {current} : f \in {Absent, Broken} \/ IsJson(f)
    /\ upgraded \in BOOLEAN
    /\ ops \in 0..MaxOps
    /\ IsHistory(saved) /\ IsHistory(was)
    /\ excused \in SUBSET Record
    /\ failed \in BOOLEAN

Init ==
    /\ up = FALSE
    /\ lastJson = <<>> /\ systemConfiguration = <<>>
    /\ posted = <<>> /\ newConfiguration = {}
    /\ ifaces = {}
    /\ saving = "no"
    /\ current = Absent /\ afterLoss = {Absent}
    /\ upgraded = FALSE
    /\ ops = 0
    /\ failed = FALSE
    /\ saved = <<>> /\ was = <<>> /\ excused = {}

Spend == ops < MaxOps /\ ops' = ops + 1

\* The event loop takes the next handler.
Free == up /\ saving = "no"

-----------------------------------------------------------------------------
(* Starting, and scanning. *)

\* handleCurrentConfigurationJson: the file is removed first; one that does not
\* parse, or belongs to another firmware, is not used.
Start ==
    /\ ~up
    /\ up' = TRUE
    /\ lastJson' = IF upgraded \/ current \in {Absent, Broken} THEN <<>> ELSE current
    /\ current' = Absent
    /\ afterLoss' = afterLoss \cup {Absent}
    /\ upgraded' = FALSE
    /\ was' = IF upgraded THEN <<>> ELSE was
    /\ UNCHANGED <<systemConfiguration, posted, newConfiguration, ifaces, saving,
                   ops, failed, saved, excused>>

pruneRecordExposes(board) ==
    LET kept == {s \in DOMAIN board.exposes : board.exposes[s] # Null}
        nth(k) == CHOOSE s \in kept : Cardinality({t \in kept : t <= s}) = k
    IN  [board EXCEPT !.exposes = [k \in 1..Cardinality(kept) |-> @[nth(k)]]]

\* What a record found by a scan is: as it is configured already, as the last
\* process left it, or as its configuration file says.
Restored(r) ==
    IF r \in DOMAIN systemConfiguration THEN systemConfiguration[r]
    ELSE IF r \in DOMAIN lastJson THEN pruneRecordExposes(lastJson[r])
    ELSE Default[r]

\* A scan completes: publishNewConfiguration posts the write, then postToDbus.
Scan ==
    /\ Free
    /\ posted = <<>>
    /\ \E found \in Found :
        /\ systemConfiguration' =
             [r \in DOMAIN systemConfiguration \cup found |-> Restored(r)]
        /\ newConfiguration' = found \ DOMAIN systemConfiguration
    /\ posted' = <<"write", "publish">>
    /\ UNCHANGED <<up, lastJson, ifaces, saving, files, upgraded, ops, history>>

PostedWrite ==
    /\ Free
    /\ posted # <<>> /\ Head(posted) = "write"
    /\ posted' = Tail(posted)
    /\ saving' = "begun"
    /\ UNCHANGED <<up, lastJson, systemConfiguration, newConfiguration, ifaces,
                   files, upgraded, ops, history>>

-----------------------------------------------------------------------------
(* Publishing a record: postBoardToDBus, postExposesRecordsToDBus. *)

\* An array of objects is published only if its first element, and then every
\* element, is an object.
PartsShown(item) == IF Null \in Range(item.parts) THEN {} ELSE DOMAIN item.parts

BoardIfaces(r, board) ==
    {[record |-> r, kind |-> "board", key |-> Null, slot |-> 0, part |-> 0,
      reaches |-> "itself", writable |-> TRUE, shown |-> v] :
        v \in {board.asset} \ {Null}}

PartIfaces(r, slot, item) ==
    {[record |-> r, kind |-> "part", key |-> item.key, slot |-> slot, part |-> k,
      reaches |-> "itself", writable |-> TRUE, shown |-> item.parts[k]] :
        k \in PartsShown(item)}

\* The pointer the element's own interface gets is that of the member the loop
\* over its members ended with.
ItemIface(r, slot, item) ==
    [record |-> r, kind |-> "item", key |-> item.key, slot |-> slot, part |-> 0,
     reaches |-> "member", writable |-> item.key \in Settable, shown |-> item.value]

Published(r, board) ==
    BoardIfaces(r, board) \cup
        UNION {{ItemIface(r, i, board.exposes[i])} \cup PartIfaces(r, i, board.exposes[i]) :
                 i \in {s \in DOMAIN board.exposes : board.exposes[s] # Null}}

\* Mutant: the member that is null is read, whichever it is.
ThrowsOnAnyNull(item) == item # Null /\ ~item.whole
\* The Type of an element that is not null is read as a string.
Throws(item) == item # Null /\ item.key \in TypeIsLast /\ ~item.whole

\* The process is gone, and with it what it had in memory and on D-Bus.
Ends ==
    /\ up' = FALSE
    /\ lastJson' = <<>> /\ systemConfiguration' = <<>>
    /\ posted' = <<>> /\ newConfiguration' = {}
    /\ ifaces' = {}
    /\ saving' = "no"
    /\ failed' = FALSE
    /\ saved' = <<>>
    /\ was' = [r \in DOMAIN was \cup DOMAIN saved |->
                 IF r \in DOMAIN saved THEN saved[r] \cup {systemConfiguration[r]}
                 ELSE was[r]]
    /\ excused' = IF up THEN Record \ DOMAIN saved ELSE excused

PostToDbus ==
    /\ Free
    /\ posted # <<>> /\ Head(posted) = "publish"
    /\ IF \E r \in newConfiguration :
             \E i \in DOMAIN systemConfiguration[r].exposes :
                 Throws(systemConfiguration[r].exposes[i])
       THEN Ends
       ELSE /\ posted' = Tail(posted)
            /\ newConfiguration' = {}
            /\ ifaces' = ifaces \cup
                 UNION {Published(r, systemConfiguration[r]) : r \in newConfiguration}
            /\ UNCHANGED <<up, lastJson, systemConfiguration, saving, history>>
    /\ UNCHANGED <<files, upgraded, ops>>

-----------------------------------------------------------------------------
(* Calls. *)

\* Mutant: the setter stores nothing.
NotStored(i, v) == systemConfiguration[i.record]

\* setJsonFromPointer, where the pointer leads to the property.
Stored(i, v) ==
    LET board == systemConfiguration[i.record]
    IN  CASE i.kind = "board" -> [board EXCEPT !.asset = v]
          [] i.kind = "item"  -> [board EXCEPT !.exposes[i.slot].value = v]
          [] i.kind = "part"  -> [board EXCEPT !.exposes[i.slot].parts[i.part] = v]

\* A setter changes what is shown before it stores the value; behind the last
\* member, a string or an array of strings, there is nothing to store it in.
SetProperty(i, v) ==
    /\ Free
    /\ Spend
    /\ i.writable /\ v # i.shown
    /\ ifaces' = (ifaces \ {i}) \cup {[i EXCEPT !.shown = v]}
    /\ IF i.reaches = "itself"
       THEN /\ systemConfiguration' = [systemConfiguration EXCEPT ![i.record] = Stored(i, v)]
            /\ saving' = "begun"
       ELSE UNCHANGED <<systemConfiguration, saving>>
    /\ UNCHANGED <<up, lastJson, posted, newConfiguration, files, upgraded, history>>

\* What Delete makes null.
Deleted(i) ==
    LET board == systemConfiguration[i.record]
    IN  CASE i.kind = "board" -> [board EXCEPT !.asset = Null]
          [] i.kind = "part"  -> [board EXCEPT !.exposes[i.slot].parts[i.part] = Null]
          [] i.kind = "item"  ->
                IF i.reaches = "itself" THEN [board EXCEPT !.exposes[i.slot] = Null]
                ELSE [board EXCEPT !.exposes[i.slot].whole = FALSE]

\* The interface goes in a handler posted here, ahead of the next call.
Delete(i) ==
    /\ Free
    /\ Spend
    /\ i.writable
    /\ systemConfiguration' = [systemConfiguration EXCEPT ![i.record] = Deleted(i)]
    /\ ifaces' = ifaces \ {i}
    /\ saving' = "begun"
    /\ UNCHANGED <<up, lastJson, posted, newConfiguration, files, upgraded, history>>

\* addObjectJson compares Name and Type with those of every element.
Has(exposes, key) ==
    \E i \in DOMAIN exposes :
        /\ exposes[i] # Null
        /\ exposes[i].key = key
        /\ ~Throws(exposes[i])

\* Mutant: the number of elements is taken for the place behind them.
CountSlots(exposes) ==
    Cardinality({i \in DOMAIN exposes : exposes[i] # Null}) + 1
\* Where a new element goes: the first null, or the end.
FreeSlot(exposes) ==
    CHOOSE s \in 1..Len(exposes) + 1 :
        /\ s <= Len(exposes) => exposes[s] = Null
        /\ \A i \in 1..s - 1 : exposes[i] # Null

Boards == {r \in DOMAIN systemConfiguration : r \notin newConfiguration}

\* It can be changed and deleted at once, whatever its Type.
AddObject(r, key, v) ==
    LET exposes == systemConfiguration[r].exposes
        slot == FreeSlot(exposes)
        item == [key |-> key, whole |-> TRUE, value |-> v, parts |-> <<>>]
    IN  /\ Free
        /\ Spend
        /\ ~Has(exposes, key)
        /\ systemConfiguration' = [systemConfiguration EXCEPT ![r].exposes =
               IF slot > Len(@) THEN Append(@, item) ELSE [@ EXCEPT ![slot] = item]]
        /\ ifaces' = ifaces \cup
               {[ItemIface(r, slot, item) EXCEPT !.reaches = "itself", !.writable = TRUE]}
        /\ saving' = "begun"
        /\ UNCHANGED <<up, lastJson, posted, newConfiguration, files, upgraded, history>>

-----------------------------------------------------------------------------
(* writeJsonFiles. *)

File(from, to) ==
    /\ saving = from
    /\ saving' = to
    /\ UNCHANGED <<up, lastJson, systemConfiguration, posted, newConfiguration,
                   ifaces, upgraded, was, excused>>

WriteTmp == File("begun", "written") /\ UNCHANGED <<files, failed, saved, ops>>

SyncTmp == File("written", "synced") /\ UNCHANGED <<files, failed, saved, ops>>

\* Mutant: nothing is synced first.
RightAway == "begun"
\* The operation that must have succeeded before the rename.
RenamedAfter == "synced"

\* What the disk has of a file that was renamed without a sync is anything.
Rename ==
    /\ File(RenamedAfter, "renamed")
    /\ current' = systemConfiguration
    /\ afterLoss' = afterLoss \cup
         {IF RenamedAfter = "synced" THEN systemConfiguration ELSE Broken}
    /\ UNCHANGED <<failed, saved, ops>>

\* Mutant: the directory is not synced.
DirNotSynced ==
    /\ File("renamed", "no")
    /\ failed' = FALSE
    /\ saved' = [r \in DOMAIN systemConfiguration |-> {systemConfiguration[r]}]
    /\ UNCHANGED <<files, ops>>

SyncDir ==
    /\ File("renamed", "no")
    /\ afterLoss' = {current}
    /\ failed' = FALSE
    /\ saved' = [r \in DOMAIN systemConfiguration |-> {systemConfiguration[r]}]
    /\ UNCHANGED <<current, ops>>

\* An operation fails: the file stays as it is; callers log it or return it.
FileFails ==
    /\ saving # "no"
    /\ Spend
    /\ saving' = "no"
    /\ failed' = TRUE
    /\ saved' = [r \in DOMAIN saved |-> saved[r] \cup {systemConfiguration[r]}]
    /\ UNCHANGED <<up, lastJson, systemConfiguration, posted, newConfiguration,
                   ifaces, files, upgraded, was, excused>>

-----------------------------------------------------------------------------
(* Faults. *)

Crash ==
    /\ up
    /\ Spend
    /\ Ends
    /\ UNCHANGED <<files, upgraded>>

PowerLoss ==
    /\ Spend
    /\ Ends
    /\ current' \in afterLoss
    /\ afterLoss' = {current'}
    /\ UNCHANGED upgraded

Upgrade ==
    /\ ~up
    /\ Spend
    /\ upgraded' = TRUE
    /\ UNCHANGED <<up, lastJson, systemConfiguration, posted, newConfiguration,
                   ifaces, saving, files, history>>

-----------------------------------------------------------------------------
Handler == Start \/ PostedWrite \/ PostToDbus \/ WriteTmp \/ SyncTmp \/ Rename \/ SyncDir

Call ==
    \/ \E i \in ifaces : Delete(i) \/ \E v \in Value : SetProperty(i, v)
    \/ \E r \in Boards, key \in Key, v \in Value : AddObject(r, key, v)

Fault == FileFails \/ Crash \/ PowerLoss \/ Upgrade

Next == Handler \/ Scan \/ Call \/ Fault

Spec == Init /\ [][Next]_vars

\* systemd restarts the process, the loop runs what was posted, and main posts the
\* first scan; nothing guarantees another one.
FairSpec ==
    Spec /\ WF_vars(Handler) /\ WF_vars(Scan /\ systemConfiguration = <<>>)

-----------------------------------------------------------------------------
(* Properties. *)

\* system.json is never one that does not parse, nor may a power loss make it one.
NeverBroken == Broken \notin afterLoss \cup {current}

Stands(i, json) ==
    /\ i.record \in DOMAIN json
    /\ LET board == json[i.record]
       IN  CASE i.kind = "board" -> board.asset = i.shown
             [] i.kind = "item"  -> /\ i.slot \in DOMAIN board.exposes
                                    /\ board.exposes[i.slot] # Null
                                    /\ board.exposes[i.slot].key = i.key
                                    /\ board.exposes[i.slot].value = i.shown
             [] i.kind = "part"  -> board.exposes[i.slot].parts[i.part] = i.shown

\* What a client has set, and an object a client has added, is in system.json at
\* the place its interface reaches, once the call has returned and no file
\* operation has failed: also after other elements came and went.
SetIsSaved ==
    Free /\ posted = <<>> /\ ~failed =>
        \A i \in ifaces : i.reaches = "itself" =>
            Stands(i, current) /\ afterLoss = {current}

\* Two interfaces never reach the same JSON.
OwnSlot ==
    \A i, j \in {x \in ifaces : x.reaches = "itself"} :
        <<i.record, i.kind, i.slot, i.part>> = <<j.record, j.kind, j.slot, j.part>>
            => i = j

\* A record an earlier process had saved comes back as that process left it,
\* through crashes, power losses and failed writes.
ReturnsAsItWas ==
    [][\A r \in DOMAIN systemConfiguration' \ DOMAIN systemConfiguration :
          r \in DOMAIN was /\ r \notin excused =>
              systemConfiguration'[r] \in {pruneRecordExposes(b) : b \in was[r]}]_vars

\* Once the faults end, the daemon stays up with every record published.
ComesUp ==
    <>[](/\ up
         /\ newConfiguration = {}
         /\ systemConfiguration # <<>>)

=============================================================================
