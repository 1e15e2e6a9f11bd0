--------------------------- MODULE PublicationProof ---------------------------
(***************************************************************************)
(* For any boards, records and devices, and any number of failures and     *)
(* restarts: giving up on a device leaves none without its driver          *)
(* (HalfDevicesAreGone), as a device without its driver comes only from a  *)
(* process that ended, a try deletes it or binds it, and a batch of boards *)
(* is published after each of its exports was tried; and a published board *)
(* is shown with what it goes together with (BoardsAreAssociated).         *)
(***************************************************************************)
EXTENDS Publication, QueueLemmas

Handlers == [step : {"publish", "write", "dbus"}, boards : SUBSET Boards]

\* What the argument needs of the types.
DeviceTypes ==
    /\ ready \in Seq(Handlers)
    /\ exporting \subseteq Exports
    /\ sysfs \in [Devices -> {"absent", "made", "created"}]
    /\ DOMAIN posted = Boards

\* An export that loadOverlays has tried for boards that are to be published.
Tried(boards, e) == e[1] \in boards /\ e \notin exporting

\* What was tried is not left half made.
TriedIsWhole ==
    \A i \in 1..Len(ready) :
        ready[i].step = "dbus" =>
            \A e \in Exports : Tried(ready[i].boards, e) => sysfs[e[2]] # "made"

DeviceInv == DeviceTypes /\ TriedIsWhole /\ NoHalfDevices

LEMMA DeviceInit == Init => DeviceInv
  BY DEF Init, DeviceInv, DeviceTypes, TriedIsWhole, NoHalfDevices, Exports, Handlers

\* Outside of a restart a device that is not half made does not become so.
LEMMA NothingIsHalved ==
  ASSUME sysfs \in [Devices -> {"absent", "made", "created"}],
         NEW e \in Exports, NEW n, buildDevice(e, n)
  PROVE  /\ sysfs' \in [Devices -> {"absent", "made", "created"}]
         /\ \A d \in Devices : sysfs[d] # "made" => sysfs'[d] # "made"
         /\ n # 0 => sysfs'[e[2]] # "made"
<1>1. e[2] \in Devices
  BY DEF Exports
<1>2. CASE n = 0 \/ deviceIsCreated(e[2])
  BY <1>1, <1>2 DEF buildDevice, deviceIsCreated
<1>3. CASE ~(n = 0 \/ deviceIsCreated(e[2]))
  <2>1. CASE Creates(e[2])
    BY <1>1, <2>1 DEF Creates
  <2>2. CASE CreatesInVain(e[2])
    BY <1>1, <2>2 DEF CreatesInVain, Deletes
  <2> QED
    BY <1>3, <2>1, <2>2 DEF buildDevice
<1> QED
  BY <1>2, <1>3

\* The invariant survives a try of a device, of which exporting loses at most
\* what was tried.
LEMMA TryKeeps ==
  ASSUME DeviceInv, NEW e \in Exports, NEW n, buildDevice(e, n),
         ready' = ready, posted' = posted,
         exporting' = exporting \/ (exporting' = exporting \ {e} /\ n # 0)
  PROVE  DeviceInv'
<1> USE DEF DeviceInv
<1>0. \A f \in Exports : f[2] \in Devices
  BY DEF Exports
<1>1. /\ sysfs' \in [Devices -> {"absent", "made", "created"}]
      /\ \A d \in Devices : sysfs[d] # "made" => sysfs'[d] # "made"
      /\ n # 0 => sysfs'[e[2]] # "made"
  BY NothingIsHalved DEF DeviceTypes
<1>2. DeviceTypes'
  BY <1>1 DEF DeviceTypes
<1>3. TriedIsWhole'
  <2> SUFFICES ASSUME NEW i \in 1..Len(ready), ready[i].step = "dbus",
                      NEW f \in Exports, f[1] \in ready[i].boards, f \notin exporting'
               PROVE  sysfs'[f[2]] # "made"
    BY DEF TriedIsWhole, Tried
  <2>1. CASE f \notin exporting
    BY <1>0, <1>1, <2>1 DEF TriedIsWhole, Tried
  <2>2. CASE f \in exporting
    BY <1>1, <2>2
  <2> QED
    BY <2>1, <2>2
<1>4. NoHalfDevices'
  BY <1>0, <1>1 DEF NoHalfDevices
<1> QED
  BY <1>2, <1>3, <1>4

LEMMA ScanKeeps ==
  ASSUME DeviceInv, Scan
  PROVE  DeviceInv'
<1> USE DEF DeviceInv
<1>1. PICK new \in SUBSET Boards :
        /\ ready' = Append(ready, [step |-> "publish", boards |-> new])
        /\ UNCHANGED <<exporting, sysfs, posted>>
  BY DEF Scan
<1>2. [step |-> "publish", boards |-> new] \in Handlers
  BY <1>1 DEF Handlers
<1>3. DeviceTypes'
  BY <1>1, <1>2 DEF DeviceTypes
<1>4. TriedIsWhole'
  BY <1>1, <1>2 DEF TriedIsWhole, Tried, DeviceTypes
<1>5. NoHalfDevices'
  BY <1>1 DEF NoHalfDevices
<1> QED
  BY <1>3, <1>4, <1>5

LEMMA PublishKeeps ==
  ASSUME DeviceInv, publishNewConfiguration
  PROVE  DeviceInv'
<1> USE DEF DeviceInv
<1> DEFINE rest == Tail(ready)
           write == [step |-> "write", boards |-> {}]
           last == [Head(ready) EXCEPT !.step = "dbus"]
<1>1. /\ exporting = {} /\ ready # <<>> /\ ready \in Seq(Handlers)
      /\ ready' = Append(Append(rest, write), last)
      /\ exporting' = {e \in Exports : e[1] \in Head(ready).boards}
      /\ UNCHANGED <<sysfs, posted>>
  BY DEF publishNewConfiguration, Runs, DeviceTypes
<1>2. Head(ready) \in Handlers /\ rest \in Seq(Handlers)
  BY <1>1, HeadAndTail
<1>3. /\ write \in Handlers /\ write.step = "write"
      /\ last \in Handlers /\ last.boards = Head(ready).boards
  BY <1>2 DEF Handlers
<1>4. \A i \in 1..Len(rest) : i + 1 \in 1..Len(ready) /\ rest[i] = ready[i + 1]
  BY <1>1, TailAt
<1> HIDE DEF rest, write, last
<1>5. /\ Append(rest, write) \in Seq(Handlers) /\ ready' \in Seq(Handlers)
  BY <1>1, <1>2, <1>3
<1>6. ASSUME NEW i \in 1..Len(ready')
      PROVE  \/ \E k \in 1..Len(ready) : ready'[i] = ready[k]
             \/ ready'[i] = write
             \/ ready'[i] = last
  BY <1>1, <1>2, <1>3, <1>4, <1>5, AppendAt
<1>7. DeviceTypes'
  BY <1>1, <1>5 DEF DeviceTypes
<1>8. TriedIsWhole'
  <2> SUFFICES ASSUME NEW i \in 1..Len(ready'), ready'[i].step = "dbus",
                      NEW e \in Exports, e[1] \in ready'[i].boards, e \notin exporting'
               PROVE  sysfs[e[2]] # "made"
    BY <1>1 DEF TriedIsWhole, Tried
  <2>1. CASE \E k \in 1..Len(ready) : ready'[i] = ready[k]
    BY <1>1, <2>1 DEF TriedIsWhole, Tried
  <2>2. CASE ready'[i] = write
    BY <1>3, <2>2
  <2>3. CASE ready'[i] = last
    BY <1>1, <1>3, <2>3
  <2> QED
    BY <1>6, <2>1, <2>2, <2>3
<1>9. NoHalfDevices'
  BY <1>1 DEF NoHalfDevices
<1> QED
  BY <1>7, <1>8, <1>9

LEMMA WriteKeeps ==
  ASSUME DeviceInv, writeJsonFiles
  PROVE  DeviceInv'
<1> USE DEF DeviceInv
<1>1. /\ ready # <<>> /\ ready \in Seq(Handlers) /\ ready' = Tail(ready)
      /\ UNCHANGED <<exporting, sysfs, posted>>
  BY DEF writeJsonFiles, Runs, DeviceTypes
<1>2. DeviceTypes'
  BY <1>1 DEF DeviceTypes
<1>3. TriedIsWhole'
  BY <1>1, TailAt DEF TriedIsWhole, Tried
<1>4. NoHalfDevices'
  BY <1>1 DEF NoHalfDevices
<1> QED
  BY <1>2, <1>3, <1>4

LEMMA PostKeeps ==
  ASSUME DeviceInv, postToDbus
  PROVE  DeviceInv'
<1> USE DEF DeviceInv
<1>1. /\ exporting = {} /\ ready # <<>> /\ Head(ready).step = "dbus"
      /\ ready' = Tail(ready)
      /\ UNCHANGED <<exporting, sysfs>>
  BY DEF postToDbus, Runs
<1>2. /\ DOMAIN posted' = Boards
      /\ \A b \in Boards : b \notin Head(ready).boards => posted'[b] = posted[b]
  BY DEF postToDbus
<1>3. \A i \in 1..Len(ready') : i + 1 \in 1..Len(ready) /\ ready'[i] = ready[i + 1]
  BY <1>1 DEF DeviceTypes
<1>4. DeviceTypes'
  BY <1>1, <1>2 DEF DeviceTypes
<1>5. TriedIsWhole'
  BY <1>1, <1>3 DEF TriedIsWhole, Tried
<1>6. NoHalfDevices'
  <2> SUFFICES ASSUME NEW e \in Exports, posted'[e[1]] # 0
               PROVE  sysfs[e[2]] # "made"
    BY <1>1 DEF NoHalfDevices
  <2>1. CASE e[1] \in Head(ready).boards
    <3>1. 1 \in 1..Len(ready) /\ ready[1] = Head(ready)
      BY <1>1 DEF DeviceTypes
    <3> QED
      BY <1>1, <2>1, <3>1 DEF TriedIsWhole, Tried
  <2>2. CASE e[1] \notin Head(ready).boards
    BY <1>2, <2>2 DEF NoHalfDevices, Exports
  <2> QED
    BY <2>1, <2>2
<1> QED
  BY <1>4, <1>5, <1>6

LEMMA CrashKeeps ==
  ASSUME DeviceInv, Crash
  PROVE  DeviceInv'
<1> USE DEF DeviceInv
<1>1. /\ ready' = <<>> /\ exporting' = {} /\ posted' = [b \in Boards |-> 0]
  BY DEF Crash
<1>2. sysfs' \in [Devices -> {"absent", "made", "created"}]
  BY DEF Crash, DeviceTypes
<1>3. DeviceTypes'
  BY <1>1, <1>2 DEF DeviceTypes, Handlers
<1>4. TriedIsWhole' /\ NoHalfDevices'
  BY <1>1 DEF TriedIsWhole, NoHalfDevices, Exports
<1> QED
  BY <1>3, <1>4

LEMMA BindsKeeps ==
  ASSUME DeviceInv, NEW d \in Devices, Binds(d)
  PROVE  DeviceInv'
<1>1. /\ sysfs' = [sysfs EXCEPT ![d] = "created"]
      /\ UNCHANGED <<ready, exporting, posted>>
  BY DEF Binds, daemon
<1>2. \A f \in Exports : f[2] \in Devices
  BY DEF Exports
<1> QED
  BY <1>1, <1>2 DEF DeviceInv, DeviceTypes, TriedIsWhole, Tried, NoHalfDevices

LEMMA DeviceStep == DeviceInv /\ [Next]_vars => DeviceInv'
<1> SUFFICES ASSUME DeviceInv, [Next]_vars
             PROVE  DeviceInv'
  OBVIOUS
<1>1. CASE Scan
  BY <1>1, ScanKeeps
<1>2. CASE publishNewConfiguration
  BY <1>2, PublishKeeps
<1>3. CASE postToDbus
  BY <1>3, PostKeeps
<1>4. ASSUME NEW e \in Exports, exportDevice(e)
      PROVE  DeviceInv'
  <2>1. /\ buildDevice(e, Tries) /\ Tries # 0
        /\ exporting' = exporting \ {e} /\ ready' = ready /\ posted' = posted
    BY <1>4, RetriesAssumption DEF exportDevice, Tries
  <2> QED
    BY <2>1, TryKeeps
<1>5. ASSUME NEW e \in Exports, CreateTimerFires(e)
      PROVE  DeviceInv'
  <2>1. /\ buildDevice(e, createTimer[e])
        /\ exporting' = exporting /\ ready' = ready /\ posted' = posted
    BY <1>5 DEF CreateTimerFires
  <2> QED
    BY <2>1, TryKeeps
<1>6. CASE Crash
  BY <1>6, CrashKeeps
<1>7. ASSUME NEW d \in Devices, Binds(d)
      PROVE  DeviceInv'
  BY <1>7, BindsKeeps
<1>8. CASE writeJsonFiles
  BY <1>8, WriteKeeps
<1>9. CASE UNCHANGED vars
  BY <1>9 DEF vars, daemon, DeviceInv, DeviceTypes, TriedIsWhole, Tried, NoHalfDevices
<1> QED
  BY <1>1, <1>2, <1>3, <1>4, <1>5, <1>6, <1>7, <1>8, <1>9 DEF Next, Handler

\* What the records published so far expose is bound or not there, never made
\* without its driver: loadOverlays tries every export of a batch before the
\* batch is published, and a try that is in vain deletes the device.
THEOREM HalfDevicesAreGone == Spec => []NoHalfDevices
<1>1. DeviceInv => NoHalfDevices
  BY DEF DeviceInv
<1> QED
  BY DeviceInit, DeviceStep, <1>1, PTL DEF Spec

-----------------------------------------------------------------------------
(* Associations.  A batch waits for its turn unpublished, and no board is in *)
(* two; the topology has the ports of the boards published so far, and the   *)
(* probe paths of all boards found but the restored ones.  What is published later changes nothing *)
(* of what was right when a board was published: its number is higher.       *)

Awaiting ==
    /\ systemConfiguration \subseteq Boards
    /\ \A b \in Boards \ systemConfiguration : posted[b] = 0
    /\ \A i \in 1..Len(ready) :
          /\ ready[i].boards \subseteq systemConfiguration
          /\ \A b \in ready[i].boards : posted[b] = 0
    /\ \A i, j \in 1..Len(ready) : i # j => ready[i].boards \cap ready[j].boards = {}

Counted ==
    /\ posted \in [Boards -> Nat]
    /\ \E n \in Nat : \A b \in Boards : posted[b] <= n

PortsOf(boards) == UNION {UNION {addBoard({}, b, item) : item \in PortItems(b)} : b \in boards}

Known ==
    /\ ports = PortsOf({b \in Boards : posted[b] # 0})
    /\ probePaths = ProbedOn(systemConfiguration \ lastJson)
    /\ DOMAIN dbus = Boards

AssocInv == Awaiting /\ Counted /\ Known /\ EarlierOnesAreAssociated

\* Of the four roles two are published at the board that has them.
LEMMA PublishedRoles ==
    \A assoc \in supportedAssocs :
        Published(assoc) <=> assoc \in {assocContainedBy, assocPowering}
<1>1. /\ assocContaining.name = "containing" /\ assocContainedBy.name = "contained_by"
      /\ assocPowering.name = "powering" /\ assocPoweredBy.name = "powered_by"
  BY DEF assocContaining, assocContainedBy, assocPowering, assocPoweredBy, getReverse, AssocName
<1>2. QED
  BY <1>1 DEF Published, supportedAssocs

\* Who takes part in a port.
LEMMA PortMembers ==
    ASSUME NEW boards
    PROVE  /\ \A m \in PortsOf(boards) :
                 m.path \in boards /\ Declares(m.path, m.port, m.assoc)
           /\ \A b \in boards : \A port, assoc : Declares(b, port, assoc) =>
                 [port |-> port, path |-> b, assoc |-> assoc] \in PortsOf(boards)
BY DEF PortsOf, addBoard, Declares

\* What the topology finds for a board is what it goes together with.
LEMMA AssociatedAre ==
    ASSUME NEW boards \in SUBSET Boards, NEW new \in SUBSET boards, NEW b \in new, NEW name, NEW c
    PROVE  LET newObjects == {x \in new : Record[x].Exposes # {}}
               a == [path |-> b, name |-> name, other |-> c]
           IN  a \in PortAssocs(PortsOf(boards), boardTypes, newObjects)
                  <=> c \in boards /\ a \in Together
<1> DEFINE newObjects == {x \in new : Record[x].Exposes # {}}
           a == [path |-> b, name |-> name, other |-> c]
           all == PortsOf(boards)
<1>0. boardTypes[b] = Record[b].Type
  BY DEF boardTypes
<1>1. ASSUME a \in PortAssocs(all, boardTypes, newObjects)
      PROVE  c \in boards /\ a \in Together
  <2> HIDE DEF all
  <2>1. PICK member \in all : \E other \in Partners(all, member) :
           /\ a = [path |-> member.path, name |-> member.assoc.name, other |-> other.path]
           /\ boardTypes[member.path] \in member.assoc.allowedOnBoardTypes
           /\ Published(member.assoc)
    BY <1>1 DEF PortAssocs
  <2>2. PICK other \in Partners(all, member) :
           a = [path |-> member.path, name |-> member.assoc.name, other |-> other.path]
    BY <2>1
  <2>3. /\ other \in all /\ other.port = member.port /\ other.path # member.path
        /\ other.assoc = getReverse(member.assoc)
    BY DEF Partners
  <2>4. member.path = b /\ member.assoc.name = name /\ other.path = c
    BY <2>2
  <2> DEFINE assoc == member.assoc
  <2>5. /\ Declares(b, member.port, assoc)
        /\ c \in boards /\ Declares(c, member.port, getReverse(assoc))
    BY <2>3, <2>4, PortMembers DEF all
  <2>6. member.port \in PortNames /\ assoc \in supportedAssocs
    BY <2>5 DEF Declares, PortNames, PortItems, Roles
  <2>7. assoc \in {assocContainedBy, assocPowering}
    BY <2>1, <2>6, PublishedRoles
  <2>8. GoTogether(b, c, assoc)
    BY <1>0, <2>1, <2>3, <2>4, <2>5, <2>6, <2>7 DEF GoTogether
  <2>9. a \in Together
    <3>1. name = assoc.name /\ b \in Boards /\ c \in Boards
      BY <2>4, <2>5
    <3> HIDE DEF assoc
    <3>2. QED
      BY <2>6, <2>8, <3>1 DEF Together
  <2>10. QED
    BY <2>5, <2>9
<1>2. ASSUME c \in boards, a \in Together
      PROVE  a \in PortAssocs(all, boardTypes, newObjects)
  <2>1. PICK assoc \in supportedAssocs : name = assoc.name /\ GoTogether(b, c, assoc)
    BY <1>2 DEF Together
  <2>2. PICK port \in PortNames :
           Declares(b, port, assoc) /\ Declares(c, port, getReverse(assoc))
    BY <2>1 DEF GoTogether
  <2> DEFINE member == [port |-> port, path |-> b, assoc |-> assoc]
             other == [port |-> port, path |-> c, assoc |-> getReverse(assoc)]
  <2>3. member \in all /\ other \in all
    BY <1>2, <2>2, PortMembers
  <2>4. b \in newObjects
    BY <2>2 DEF Declares, PortItems
  <2>5. Published(assoc) /\ boardTypes[b] \in assoc.allowedOnBoardTypes /\ b # c
    BY <1>0, <2>1, PublishedRoles DEF GoTogether
  <2> HIDE DEF all, newObjects
  <2>6. other \in Partners(all, member)
    BY <2>3, <2>5 DEF Partners
  <2>7. member \in {x \in all :
               /\ boardTypes[x.path] \in x.assoc.allowedOnBoardTypes
               /\ x.path \in newObjects
               /\ Published(x.assoc)}
    BY <2>3, <2>4, <2>5
  <2>8. a = [path |-> member.path, name |-> member.assoc.name, other |-> other.path]
    BY <2>1
  <2>9. QED
    BY <2>6, <2>7, <2>8 DEF PortAssocs
<1>3. QED
  BY <1>1, <1>2

\* What a board that is published now is shown with, and what it is to show.
ShownWith(boards, new, found, b) ==
    LET newObjects == {x \in new : Record[x].Exposes # {}}
        assocs == getAssocs(PortsOf(boards), boardTypes, ProbedOn(found \ lastJson), newObjects)
    IN  {[name |-> a.name, other |-> a.other] : a \in {x \in assocs : x.path = b}}
ToShow(boards, b) ==
    {[name |-> t.name, other |-> t.other] :
       t \in {x \in Together : x.path = b /\ x.other \in boards}}
    \cup {[name |-> "probing", other |-> entry[2]] :
            entry \in {x \in ProbedOn(Boards \ lastJson) : x[1] = b}}

LEMMA ShownWhenPosted ==
    ASSUME NEW boards \in SUBSET Boards, NEW new \in SUBSET boards, NEW b \in new,
           NEW found \in SUBSET Boards, b \in found
    PROVE  ShownWith(boards, new, found, b) = ToShow(boards, b)
<1> DEFINE newObjects == {x \in new : Record[x].Exposes # {}}
           onPorts == PortAssocs(PortsOf(boards), boardTypes, newObjects)
           probed == {x \in ProbedOn(found \ lastJson) : x[1] \in newObjects}
           probing == {[path |-> entry[1], name |-> "probing", other |-> entry[2]] : entry \in probed}
           Seen(a) == [name |-> a.name, other |-> a.other]
<1>1. {x \in onPorts : x.path = b} = {x \in Together : x.path = b /\ x.other \in boards}
  <2>1. \A x \in onPorts : x = [path |-> x.path, name |-> x.name, other |-> x.other]
    BY DEF PortAssocs
  <2>2. \A x \in Together : x = [path |-> x.path, name |-> x.name, other |-> x.other]
    BY DEF Together
  <2>3. \A name, c : [path |-> b, name |-> name, other |-> c] \in onPorts
                        <=> c \in boards /\ [path |-> b, name |-> name, other |-> c] \in Together
    BY AssociatedAre
  <2> HIDE DEF onPorts
  <2>4. ASSUME NEW x, x.path = b, x = [path |-> x.path, name |-> x.name, other |-> x.other]
        PROVE  x \in onPorts <=> x \in Together /\ x.other \in boards
    <3>1. x = [path |-> b, name |-> x.name, other |-> x.other]
      BY <2>4
    <3>2. [path |-> b, name |-> x.name, other |-> x.other] \in onPorts
             <=> x.other \in boards /\ [path |-> b, name |-> x.name, other |-> x.other] \in Together
      BY <2>3
    <3>3. QED
      BY <3>1, <3>2
  <2>5. QED
    BY <2>1, <2>2, <2>4
<1>2. {Seen(a) : a \in {x \in probing : x.path = b}} =
         {[name |-> "probing", other |-> entry[2]] : entry \in {x \in ProbedOn(Boards \ lastJson) : x[1] = b}}
  <2>1. \A p : <<b, p>> \in ProbedOn(Boards \ lastJson) <=> <<b, p>> \in probed
    BY DEF ProbedOn
  <2>2. /\ \A x \in probed : x = <<x[1], x[2]>>
        /\ \A x \in ProbedOn(Boards \ lastJson) : x = <<x[1], x[2]>>
    BY DEF ProbedOn
  <2> HIDE DEF probed
  <2>3. {x \in probed : x[1] = b} = {x \in ProbedOn(Boards \ lastJson) : x[1] = b}
    <3> DEFINE all == ProbedOn(Boards \ lastJson)
    <3> HIDE DEF all
    <3>1. ASSUME NEW x, x[1] = b, x = <<x[1], x[2]>>
          PROVE  x \in probed <=> x \in all
      BY <2>1, <3>1 DEF all
    <3>2. QED
      BY <2>2, <3>1 DEF all
  <2>4. {Seen(a) : a \in {x \in probing : x.path = b}} =
           {[name |-> "probing", other |-> entry[2]] : entry \in {x \in probed : x[1] = b}}
    <3> DEFINE ofIt == {x \in probed : x[1] = b}
               There(entry) == [path |-> b, name |-> "probing", other |-> entry[2]]
    <3>1. {x \in probing : x.path = b} = {There(entry) : entry \in ofIt}
      OBVIOUS
    <3>2. \A entry : Seen(There(entry)) = [name |-> "probing", other |-> entry[2]]
      OBVIOUS
    <3> HIDE DEF ofIt, There, Seen, probing
    <3>3. {Seen(a) : a \in {There(entry) : entry \in ofIt}} =
             {[name |-> "probing", other |-> entry[2]] : entry \in ofIt}
      BY <3>2
    <3>4. QED
      BY <3>1, <3>3 DEF ofIt
  <2>5. QED
    BY <2>3, <2>4
<1>3. getAssocs(PortsOf(boards), boardTypes, ProbedOn(found \ lastJson), newObjects) = onPorts \cup probing
  BY DEF getAssocs
<1> HIDE DEF newObjects, onPorts, probing
<1>4. {Seen(a) : a \in {x \in onPorts \cup probing : x.path = b}} =
         {Seen(a) : a \in {x \in onPorts : x.path = b}}
            \cup {Seen(a) : a \in {x \in probing : x.path = b}}
  OBVIOUS
<1>5. QED
  BY <1>1, <1>2, <1>3, <1>4 DEF newObjects, ShownWith, ToShow

LEMMA PostAssociates ==
    ASSUME DeviceInv, AssocInv, postToDbus
    PROVE  AssocInv'
<1> DEFINE new == Head(ready).boards
           n == 1 + Max({posted[c] : c \in Boards})
           before == {b \in Boards : posted[b] # 0}
           now == before \cup new
<1>1. /\ ready # <<>> /\ ready \in Seq(Handlers)
      /\ ready' = Tail(ready)
      /\ ports' = PortsWith(new)
      /\ posted' = [b \in Boards |-> IF b \in new THEN n ELSE posted[b]]
      /\ UNCHANGED <<systemConfiguration, lastJson, probePaths>>
  BY DEF postToDbus, Runs, DeviceInv, DeviceTypes
<1>2. /\ Len(ready) \in Nat /\ 1 \in 1..Len(ready) /\ Head(ready) = ready[1]
      /\ \A i \in 1..Len(ready') : i + 1 \in 1..Len(ready) /\ ready'[i] = ready[i + 1] /\ i + 1 # 1
  BY <1>1, TailAt
<1>3. /\ new \subseteq systemConfiguration /\ systemConfiguration \subseteq Boards
      /\ \A b \in new : posted[b] = 0
  BY <1>2 DEF AssocInv, Awaiting
<1>4. posted \in [Boards -> Nat] /\ \E m \in Nat : \A b \in Boards : posted[b] <= m
  BY DEF AssocInv, Counted
<1>5. ASSUME NEW b \in Boards
      PROVE  n \in Nat /\ n # 0 /\ \A c \in Boards : posted[c] < n
  <2> DEFINE T == {posted[c] : c \in Boards}
  <2>1. T \in SUBSET Nat /\ T # {} /\ \E m \in Nat : \A t \in T : t <= m
    BY <1>4
  <2>2. \A c \in Boards : posted[c] \in T
    OBVIOUS
  <2> HIDE DEF T
  <2>3. Max(T) \in T /\ \A t \in T : t <= Max(T)
    BY <2>1, BoundedHasMax
  <2>4. n = 1 + Max(T)
    BY DEF T
  <2> HIDE DEF n
  <2>5. Max(T) \in Nat
    BY <2>1, <2>3
  <2>6. \A c \in Boards : posted[c] \in Nat /\ posted[c] <= Max(T)
    BY <2>1, <2>2, <2>3
  <2>7. QED
    BY <2>4, <2>5, <2>6
<1> HIDE DEF new, n
<1>6. Counted'
  <2>1. posted' \in [Boards -> Nat]
    BY <1>1, <1>4, <1>5
  <2>2. CASE Boards = {}
    BY <2>1, <2>2 DEF Counted
  <2>3. CASE Boards # {}
    <3>1. n \in Nat /\ \A b \in Boards : posted'[b] <= n
      BY <1>1, <1>4, <1>5, <2>3
    <3>2. QED
      BY <2>1, <3>1 DEF Counted
  <2>4. QED
    BY <2>2, <2>3
<1>7. Awaiting'
  <2>1. \A i \in 1..Len(ready') : ready'[i].boards \cap new = {}
    BY <1>2 DEF AssocInv, Awaiting, new
  <2>2. \A b \in Boards \ new : posted'[b] = posted[b]
    BY <1>1
  <2>3. \A i \in 1..Len(ready') :
           /\ ready'[i].boards \subseteq systemConfiguration
           /\ \A b \in ready'[i].boards : posted'[b] = 0
    BY <1>2, <1>3, <2>1, <2>2 DEF AssocInv, Awaiting
  <2>4. \A i, j \in 1..Len(ready') : i # j => ready'[i].boards \cap ready'[j].boards = {}
    <3> SUFFICES ASSUME NEW i \in 1..Len(ready'), NEW j \in 1..Len(ready'), i # j
                 PROVE  ready'[i].boards \cap ready'[j].boards = {}
      OBVIOUS
    <3>1. i + 1 # j + 1
      OBVIOUS
    <3>2. QED
      BY <1>2, <3>1 DEF AssocInv, Awaiting
  <2>5. \A b \in Boards \ systemConfiguration : posted'[b] = 0
    BY <1>3, <2>2 DEF AssocInv, Awaiting
  <2>6. QED
    BY <1>1, <1>3, <2>3, <2>4, <2>5 DEF Awaiting
<1>8. {b \in Boards : posted'[b] # 0} = now
  BY <1>1, <1>3, <1>5
<1>9. ports = PortsOf(before) /\ ports' = PortsOf(now) /\ probePaths = ProbedOn(systemConfiguration \ lastJson)
  <2>1. ports = PortsOf(before) /\ probePaths = ProbedOn(systemConfiguration \ lastJson)
    BY DEF AssocInv, Known
  <2>2. ports' = ports \cup PortsOf(new)
    BY <1>1 DEF PortsWith, PortsOf
  <2>3. PortsOf(before \cup new) = PortsOf(before) \cup PortsOf(new)
    BY DEF PortsOf
  <2>4. QED
    BY <2>1, <2>2, <2>3
<1>10. DOMAIN dbus' = Boards
  BY DEF postToDbus
<1>11. Known'
  BY <1>1, <1>8, <1>9, <1>10 DEF Known
<1>12. EarlierOnesAreAssociated'
  <2> SUFFICES ASSUME NEW b \in Boards, posted'[b] # 0, ~Record[b].Own
               PROVE  dbus'[b] =
                          {[name |-> t.name, other |-> t.other] :
                             t \in {x \in Together : x.path = b /\ posted'[x.other] \in 1..posted'[b]}}
                          \cup {[name |-> "probing", other |-> entry[2]] :
                                  entry \in {x \in ProbedOn(Boards \ lastJson) : x[1] = b}}
    BY <1>1 DEF EarlierOnesAreAssociated
  <2>0. \A x \in Together : x.other \in Boards
    BY DEF Together
  <2>1. CASE b \in new
    <3>1. now \in SUBSET Boards /\ new \in SUBSET now /\ b \in systemConfiguration
      BY <1>3, <2>1
    <3> HIDE DEF now
    <3>2. dbus'[b] = ShownWith(now, new, systemConfiguration, b)
      BY <1>9, <2>1 DEF postToDbus, new, ShownWith
    <3>3. dbus'[b] = ToShow(now, b)
      BY <1>3, <2>1, <3>1, <3>2, ShownWhenPosted
    <3>4. \A c \in Boards : c \in now <=> posted'[c] \in 1..posted'[b]
      <4> TAKE c \in Boards
      <4>1. posted'[b] = n /\ n \in Nat /\ posted'[c] \in Nat /\ posted'[c] <= n
        BY <1>1, <1>4, <1>5, <2>1
      <4>2. QED
        BY <1>8, <4>1
    <3>5. {x \in Together : x.path = b /\ x.other \in now} =
             {x \in Together : x.path = b /\ posted'[x.other] \in 1..posted'[b]}
      BY <2>0, <3>4
    <3>6. QED
      BY <3>3, <3>5 DEF ToShow
  <2>2. CASE b \notin new
    <3>1. dbus'[b] = dbus[b]
      BY <2>2 DEF postToDbus, new
    <3>2. posted'[b] = posted[b]
      BY <1>1, <2>2
    <3>3. \A c \in Boards : posted'[c] \in 1..posted[b] <=> posted[c] \in 1..posted[b]
      <4> TAKE c \in Boards
      <4>1. CASE c \in new
        <5>1. posted'[c] = n /\ n \in Nat /\ posted[b] \in Nat /\ posted[b] < n /\ posted[c] = 0
          BY <1>1, <1>3, <1>4, <1>5, <4>1
        <5>2. QED
          BY <5>1
      <4>2. CASE c \notin new
        BY <1>1, <4>2
      <4>3. QED
        BY <4>1, <4>2
    <3>4. {x \in Together : x.path = b /\ posted'[x.other] \in 1..posted'[b]} =
             {x \in Together : x.path = b /\ posted[x.other] \in 1..posted[b]}
      BY <2>0, <3>2, <3>3
    <3>5. QED
      BY <3>1, <3>2, <3>4 DEF AssocInv, EarlierOnesAreAssociated
  <2>3. QED
    BY <2>1, <2>2
<1>13. QED
  BY <1>6, <1>7, <1>11, <1>12 DEF AssocInv

\* New records join the end of the handlers, and no board of theirs is in any before.
LEMMA ScanAssociates ==
    ASSUME DeviceInv, AssocInv, Scan
    PROVE  AssocInv'
<1>1. PICK new \in SUBSET (Boards \ systemConfiguration) :
         /\ systemConfiguration' = systemConfiguration \cup new
         /\ probePaths' = addProbePaths(new \ lastJson)
         /\ ready' = Append(ready, [step |-> "publish", boards |-> new])
         /\ UNCHANGED <<lastJson, ports, dbus, posted>>
  BY DEF Scan
<1> DEFINE last == [step |-> "publish", boards |-> new]
<1>2. last \in Handlers /\ last.boards = new /\ ready \in Seq(Handlers)
  BY DEF Handlers, DeviceInv, DeviceTypes, AssocInv, Awaiting
<1> HIDE DEF last
<1>3. ready' = Append(ready, last)
  BY <1>1 DEF last
<1>4. /\ Len(ready) \in Nat /\ \A i \in 1..Len(ready) : ready'[i] = ready[i]
      /\ \A i \in 1..Len(ready') : i \in 1..Len(ready) \/ (i = Len(ready) + 1 /\ ready'[i] = last)
  BY <1>2, <1>3, AppendAt
<1>5. /\ systemConfiguration \subseteq Boards
      /\ \A b \in Boards \ systemConfiguration : posted[b] = 0
      /\ \A i \in 1..Len(ready) :
            ready[i].boards \subseteq systemConfiguration /\ \A b \in ready[i].boards : posted[b] = 0
      /\ \A i, j \in 1..Len(ready) : i # j => ready[i].boards \cap ready[j].boards = {}
  BY DEF AssocInv, Awaiting
<1>6. Awaiting'
  <2>1. \A i \in 1..Len(ready') :
           /\ ready'[i].boards \subseteq systemConfiguration'
           /\ \A b \in ready'[i].boards : posted'[b] = 0
    BY <1>1, <1>2, <1>4, <1>5
  <2>2. \A i \in 1..Len(ready) : ready[i].boards \cap new = {}
    BY <1>5
  <2>3. \A i, j \in 1..Len(ready') : i # j => ready'[i].boards \cap ready'[j].boards = {}
    BY <1>2, <1>4, <1>5, <2>2
  <2>4. systemConfiguration' \subseteq Boards /\ \A b \in Boards \ systemConfiguration' : posted'[b] = 0
    BY <1>1, <1>5
  <2>5. QED
    BY <2>1, <2>3, <2>4 DEF Awaiting
<1>7. probePaths' = ProbedOn(systemConfiguration' \ lastJson')
  BY <1>1 DEF AssocInv, Known, addProbePaths, ProbedOn
<1>8. Counted' /\ Known' /\ EarlierOnesAreAssociated'
  BY <1>1, <1>7 DEF AssocInv, Counted, Known, EarlierOnesAreAssociated
<1>9. QED
  BY <1>6, <1>8 DEF AssocInv

\* What loadOverlays leaves waits behind the others, the same boards.
LEMMA PublishAssociates ==
    ASSUME DeviceInv, AssocInv, publishNewConfiguration
    PROVE  AssocInv'
<1> DEFINE write == [step |-> "write", boards |-> {}]
           last == [Head(ready) EXCEPT !.step = "dbus"]
           rest == Tail(ready)
           n == Len(ready)
<1>1. /\ ready # <<>> /\ ready \in Seq(Handlers)
      /\ ready' = Append(Append(rest, write), last)
      /\ UNCHANGED <<systemConfiguration, lastJson, probePaths, ports, dbus, posted>>
  BY DEF publishNewConfiguration, Runs, DeviceInv, DeviceTypes
<1>2. Head(ready) \in Handlers /\ rest \in Seq(Handlers)
  BY <1>1, HeadAndTail
<1>3. /\ write \in Handlers /\ write.boards = {}
      /\ last \in Handlers /\ last.boards = Head(ready).boards
  BY <1>2 DEF Handlers
<1>4. /\ n \in Nat /\ 1 \in 1..n /\ Head(ready) = ready[1] /\ Len(rest) = n - 1
      /\ \A i \in 1..n - 1 : i + 1 \in 1..n /\ rest[i] = ready[i + 1] /\ i + 1 # 1
  BY <1>1, TailAt
<1> HIDE DEF write, last, rest
<1>5. Append(rest, write) \in Seq(Handlers) /\ Len(Append(rest, write)) = n
  BY <1>2, <1>3, <1>4, AppendAt
<1> HIDE DEF n
<1>6. ASSUME NEW i \in 1..Len(ready')
      PROVE  \/ ready'[i].boards = {}
             \/ \E k \in 1..n : /\ ready'[i].boards = ready[k].boards
                                /\ IF i \in 1..n - 1 THEN k = i + 1 ELSE i = n + 1 /\ k = 1
  <2>1. CASE i \in 1..n - 1
    <3>1. ready'[i] = rest[i]
      BY <1>1, <1>2, <1>3, <1>4, <1>5, <2>1, AppendAt
    <3>2. QED
      BY <1>4, <2>1, <3>1
  <2>2. CASE i = n
    <3>1. ready'[i] = write
      BY <1>1, <1>2, <1>3, <1>4, <1>5, <2>2, AppendAt
    <3>2. QED
      BY <1>3, <3>1
  <2>3. CASE i = n + 1
    <3>1. ready'[i] = last
      BY <1>1, <1>3, <1>4, <1>5, <2>3, AppendAt
    <3>2. i \notin 1..n - 1
      BY <1>4, <2>3
    <3>3. QED
      BY <1>3, <1>4, <2>3, <3>1, <3>2
  <2>4. QED
    <3>1. Len(ready') = n + 1
      BY <1>1, <1>3, <1>5, AppendAt
    <3>2. QED
      BY <1>4, <2>1, <2>2, <2>3, <3>1
<1>7. Awaiting'
  <2>1. \A i, j \in 1..Len(ready') : i # j => ready'[i].boards \cap ready'[j].boards = {}
    <3> SUFFICES ASSUME NEW i \in 1..Len(ready'), NEW j \in 1..Len(ready'), i # j,
                        ready'[i].boards # {}, ready'[j].boards # {}
                 PROVE  ready'[i].boards \cap ready'[j].boards = {}
      OBVIOUS
    <3>1. PICK k \in 1..n : /\ ready'[i].boards = ready[k].boards
                            /\ IF i \in 1..n - 1 THEN k = i + 1 ELSE i = n + 1 /\ k = 1
      BY <1>6
    <3>2. PICK l \in 1..n : /\ ready'[j].boards = ready[l].boards
                            /\ IF j \in 1..n - 1 THEN l = j + 1 ELSE j = n + 1 /\ l = 1
      BY <1>6
    <3>3. k # l
      BY <1>4, <3>1, <3>2
    <3>4. QED
      BY <3>1, <3>2, <3>3 DEF AssocInv, Awaiting, n
  <2>2. \A i \in 1..Len(ready') :
           ready'[i].boards \subseteq systemConfiguration /\ \A b \in ready'[i].boards : posted[b] = 0
    BY <1>6 DEF AssocInv, Awaiting, n
  <2>3. QED
    BY <1>1, <2>1, <2>2 DEF AssocInv, Awaiting
<1>8. Counted' /\ Known' /\ EarlierOnesAreAssociated'
  BY <1>1 DEF AssocInv, Counted, Known, EarlierOnesAreAssociated
<1>9. QED
  BY <1>7, <1>8 DEF AssocInv

\* Writing the file takes a handler from the queue.
LEMMA WriteAssociates ==
    ASSUME DeviceInv, AssocInv, writeJsonFiles
    PROVE  AssocInv'
<1>1. /\ ready # <<>> /\ ready \in Seq(Handlers) /\ ready' = Tail(ready)
      /\ UNCHANGED <<systemConfiguration, lastJson, probePaths, ports, dbus, posted>>
  BY DEF writeJsonFiles, Runs, DeviceInv, DeviceTypes
<1>2. \A i \in 1..Len(ready') : i + 1 \in 1..Len(ready) /\ ready'[i] = ready[i + 1]
  BY <1>1, TailAt
<1>3. \A i, j \in 1..Len(ready') : i # j => i + 1 # j + 1
  OBVIOUS
<1>4. Awaiting'
  BY <1>1, <1>2, <1>3 DEF AssocInv, Awaiting
<1>5. Counted' /\ Known' /\ EarlierOnesAreAssociated'
  BY <1>1 DEF AssocInv, Counted, Known, EarlierOnesAreAssociated
<1>6. QED
  BY <1>4, <1>5 DEF AssocInv

\* Nothing is posted, found or known.
LEMMA NothingAssociated ==
    ASSUME systemConfiguration = {}, probePaths = {}, ports = {}, ready = <<>>,
           posted = [b \in Boards |-> 0], dbus = [b \in Boards |-> Off]
    PROVE  AssocInv
<1>1. Awaiting /\ Counted
  BY DEF Awaiting, Counted
<1>2. {b \in Boards : posted[b] # 0} = {}
  OBVIOUS
<1>3. PortsOf({}) = {} /\ ProbedOn({}) = {}
  BY DEF PortsOf, ProbedOn
<1>4. Known /\ EarlierOnesAreAssociated
  BY <1>2, <1>3 DEF Known, EarlierOnesAreAssociated
<1>5. QED
  BY <1>1, <1>4 DEF AssocInv

LEMMA CrashAssociates ==
    ASSUME Crash PROVE AssocInv'
<1>1. /\ systemConfiguration' = {} /\ probePaths' = {} /\ ports' = {} /\ ready' = <<>>
      /\ posted' = [b \in Boards |-> 0] /\ dbus' = [b \in Boards |-> Off]
  BY DEF Crash
<1>2. Awaiting' /\ Counted'
  BY <1>1 DEF Awaiting, Counted
<1>3. {b \in Boards : posted'[b] # 0} = {}
  BY <1>1
<1>4. PortsOf({}) = {} /\ ProbedOn({}) = {}
  BY DEF PortsOf, ProbedOn
<1>5. Known' /\ EarlierOnesAreAssociated'
  BY <1>1, <1>3, <1>4 DEF Known, EarlierOnesAreAssociated
<1>6. QED
  BY <1>2, <1>5 DEF AssocInv

\* The kernel's devices are no matter to it.
LEMMA OverlayAssociates ==
    ASSUME AssocInv,
           UNCHANGED <<systemConfiguration, lastJson, probePaths, ports, ready, dbus, posted>>
    PROVE  AssocInv'
BY DEF AssocInv, Awaiting, Counted, Known, EarlierOnesAreAssociated

LEMMA AssocStep == DeviceInv /\ AssocInv /\ [Next]_vars => AssocInv'
<1> SUFFICES ASSUME DeviceInv, AssocInv, [Next]_vars PROVE AssocInv'
  OBVIOUS
<1>1. CASE Scan
  BY <1>1, ScanAssociates
<1>2. CASE publishNewConfiguration
  BY <1>2, PublishAssociates
<1>3. CASE postToDbus
  BY <1>3, PostAssociates
<1>4. CASE Crash
  BY <1>4, CrashAssociates
<1>5. CASE \E e \in Exports : exportDevice(e) \/ CreateTimerFires(e)
  BY <1>5, OverlayAssociates DEF exportDevice, CreateTimerFires
<1>6. CASE \E d \in Devices : Binds(d)
  BY <1>6, OverlayAssociates DEF Binds, daemon
<1>7. CASE writeJsonFiles
  BY <1>7, WriteAssociates
<1>8. CASE UNCHANGED vars
  BY <1>8, OverlayAssociates DEF vars, daemon
<1> QED
  BY <1>1, <1>2, <1>3, <1>4, <1>5, <1>6, <1>7, <1>8 DEF Next, Handler

\* For any boards, spread over scans in any way, and any restarts: a published board is
\* shown in its container, and a supply with what it powers, exactly if the two go
\* together and the other was published no later; and with the path it was probed on,
\* if it was not restored from the file and is published where the path is registered.
THEOREM BoardsAreAssociated == Spec => []EarlierOnesAreAssociated
<1>1. Init => DeviceInv /\ AssocInv
  BY DeviceInit, NothingAssociated DEF Init
<1>2. DeviceInv /\ AssocInv /\ [Next]_vars => DeviceInv' /\ AssocInv'
  BY DeviceStep, AssocStep
<1>3. AssocInv => EarlierOnesAreAssociated
  BY DEF AssocInv
<1> QED
  BY <1>1, <1>2, <1>3, PTL DEF Spec
=============================================================================
