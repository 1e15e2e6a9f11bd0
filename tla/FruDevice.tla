------------------------------ MODULE FruDevice -------------------------------
(***************************************************************************)
(* The fru-device daemon (fru_device.cpp): it reads every FRU it can reach *)
(* on every I2C bus into `busMap' and publishes what it read.  A full scan *)
(* is requested by arming a one second timer; ReScanBus and the appearance *)
(* of a bus node scan single buses at once.                                *)
(*                                                                         *)
(* One thread runs every handler, and a scan blocks it.  The hardware does *)
(* not wait: it may change between the scans of two buses, which are steps *)
(* of their own.  Behind a mux, a channel's bus also answers for the       *)
(* devices of the bus the mux hangs off, its root.                         *)
(***************************************************************************)
EXTENDS Integers, Sequences, FiniteSets, Functions, FiniteSetsExt

CONSTANTS
    Buses,         \* bus numbers
    Addrs,         \* device addresses; 0 on bus 0 is the baseboard's file
    NvmeAddr,      \* nvme::address
    Root,          \* mux channel -> the bus its mux hangs off, or NoBus
    NoBus,
    NoSmbus,       \* buses whose adapter lacks the SMBus commands needed
    Driver,        \* locations with an eeprom driver
    BlockedBuses,  \* busBlocklist as loaded: whole buses ...
    BlockedAddrs,  \* ... and addresses of a bus
    AddressBlacklist,
    Names, NoName, VendorId,
    Fields, Values,
    None, Mute, Blank, Garbled, Drive,   \* what is at a location, if not a FRU
    Plug,          \* location -> what may be found there
    Written,       \* what WriteFru may be called with
    WriteFaults,   \* whether a write may break off
    Timeouts,      \* whether a bus may take more than ten seconds
    ByteRange,     \* 2^8: writeFRU takes the bus as a byte
    MaxOps         \* bound on calls and on changes of the hardware

Loc == Buses \X Addrs
Fru == [name : Names \cup {NoName}, field : [Fields -> Values]]
Content == Fru \cup {Garbled, Drive}
Path == [name : Names \cup {NoName, VendorId}, unknown : Int, index : Int]

Found == Content \cup {None, Mute, Blank}

ASSUME BusesAssumption ==
    /\ Buses \subseteq Nat /\ IsFiniteSet(Buses) /\ NoBus \notin Buses
    /\ Addrs \subseteq 0..127
    /\ BlockedBuses \subseteq Buses
ASSUME RootAssumption == Root \in [Buses -> Buses \cup {NoBus}]
\* A mux channel is numbered after the bus it hangs off, which is no channel.
ASSUME RootFirst ==
    \A b \in Buses : Root[b] # NoBus => Root[b] < b /\ Root[Root[b]] = NoBus
\* A channel has no commands that its root's adapter lacks (i2c-mux).
ASSUME SmbusAssumption ==
    \A b \in Buses : Root[b] \in Buses \cap NoSmbus => b \in NoSmbus

ASSUME ContentAssumption ==
    /\ {None, Mute, Blank, Garbled, Drive} \cap Fru = {}
    /\ {None, Mute, Blank} \cap {Garbled, Drive} = {}
    /\ Garbled # Drive
\* No product is named by a number, as vendors of drives are.
ASSUME NamesAssumption == NoName \notin Names /\ VendorId \notin Names \cup {NoName}
\* The baseboard's file is there or not; WriteFru takes what is a FRU.
ASSUME PlugAssumption ==
    /\ Plug \in [Loc -> SUBSET Found]
    /\ <<0, 0>> \in Loc => Plug[<<0, 0>>] \cap {Mute, Blank, Drive} = {}
    /\ Written \subseteq Fru
ASSUME BoundAssumption == MaxOps \in Nat

VARIABLES
    device,        \* environment: what is at each location
    nodes,         \* environment: buses with a node in /dev
    events,        \* inotify events not handled yet, as bus numbers
    ops,           \* how many calls and changes there were
    powerIsOn,
    timer,         \* rescanBusses' timer is armed
    scan,          \* the scan in progress
    busMap,        \* location -> what was read there
    ifaces,        \* dbusInterfaceMap: location -> its path and what it shows
    unknownBusObjectCount,
    foundDevices,  \* locations with an I2CDevice interface
    failedAddresses,
    fruAddresses,
    busBlocklist,  \* buses blocked as a whole
    steady         \* history: a full scan began and the hardware is as it was

world == <<device, nodes, events, ops>>
store == <<failedAddresses, fruAddresses, busBlocklist>>
bus_ == <<busMap, ifaces, unknownBusObjectCount, foundDevices>>
vars == <<world, powerIsOn, timer, scan, bus_, store, steady>>

Idle == scan.mode = "idle"

TypeOK ==
    /\ device \in [Loc -> Found]
    /\ nodes \in SUBSET Buses
    /\ events \in Seq(Buses)
    /\ ops \in 0..MaxOps
    /\ powerIsOn \in BOOLEAN
    /\ timer \in BOOLEAN
    /\ scan \in [mode : {"idle", "all", "one", "calls"}, bus : Buses \cup {NoBus},
                 todo : SUBSET Buses, calls : Seq(Buses)]
    /\ DOMAIN busMap \subseteq Loc /\ Range(busMap) \subseteq Content
    /\ DOMAIN ifaces \subseteq Loc
    /\ Range(ifaces) \subseteq [path : Path, shown : Content]
    /\ unknownBusObjectCount \in Nat
    /\ foundDevices \in SUBSET {loc \in Loc : Root[loc[1]] = NoBus}
    /\ failedAddresses \in [Buses -> SUBSET Addrs]
    /\ DOMAIN fruAddresses \subseteq Buses /\ Range(fruAddresses) \subseteq SUBSET Addrs
    /\ busBlocklist \in SUBSET Buses
    /\ steady \in BOOLEAN

Rest == [mode |-> "idle", bus |-> NoBus, todo |-> {}, calls |-> <<>>]

\* No address is used both on a bus and behind its mux.
NoConflict(d) ==
    \A b \in Buses, a \in Addrs :
        Root[b] # NoBus => d[<<b, a>>] = None \/ d[<<Root[b], a>>] = None

\* What can be only one thing stays there.
Soldered == {loc \in Loc : Cardinality(Plug[loc]) = 1}

\* main() until io.run(): the initial scan is requested like any other.
Init ==
    /\ \E plugged \in [Loc \ Soldered -> UNION {Plug[loc] : loc \in Loc \ Soldered}] :
          device = [loc \in Loc |-> IF loc \in Soldered THEN CHOOSE c \in Plug[loc] : TRUE
                                    ELSE plugged[loc]]
    /\ NoConflict(device) /\ \A loc \in Loc : device[loc] \in Plug[loc]
    /\ nodes = Buses
    /\ events = <<>>
    /\ ops = 0
    /\ powerIsOn = FALSE
    /\ timer = TRUE
    /\ scan = Rest
    /\ busMap = <<>>
    /\ ifaces = <<>>
    /\ unknownBusObjectCount = 0
    /\ foundDevices = {}
    /\ failedAddresses = [b \in Buses |-> {}]
    /\ fruAddresses = <<>>
    /\ busBlocklist = BlockedBuses
    /\ steady = FALSE

-----------------------------------------------------------------------------
(* The wires. *)

\* getRootBus, as the set of the root bus or of nothing: the link goes with
\* the node.
RootBus(b) == IF b \in nodes /\ Root[b] # NoBus THEN {Root[b]} ELSE {}

\* Where the device is that answers on bus b at address a.
Where(b, a) ==
    IF device[<<b, a>>] = None /\ RootBus(b) # {} THEN <<Root[b], a>> ELSE <<b, a>>

Seen(b, a) == device[Where(b, a)]

\* I2C_SLAVE refuses an address a driver has, on this bus or across its mux.
Busy(b, a) ==
    \E c \in Buses : /\ <<c, a>> \in Driver
                     /\ c = b \/ {c} = RootBus(b) \/ {b} = RootBus(c)

-----------------------------------------------------------------------------
(* Reading a bus. *)

AddressesBlocked(b) ==
    {a \in Addrs : b \notin busBlocklist /\ <<b, a>> \in BlockedAddrs}

Blacklisted(b) == {a \in Addrs : <<b, a>> \in AddressBlacklist}

Eeproms(b) == {a \in Addrs : <<b, a>> \in Driver}

\* findI2CEeproms: an NVMe drive does not answer through an eeprom's file.
EepromsRead(b) ==
    {a \in Eeproms(b) \ (AddressesBlocked(b) \cup Blacklisted(b)) :
        device[<<b, a>>] \in Content \ {Drive}}

\* getBusFRUsCallback's skipList; loadBlocklist returns no addressBlocklist.
SkipList(b) ==
    Eeproms(b) \cup Blacklisted(b)
        \cup UNION {AddressesBlocked(c) : c \in {b} \cup RootBus(b)}

\* The addresses that are sent a read_byte, and those that answer it.
Probed(b, foundItems) ==
    {a \in Addrs \cap 13..119 : a \notin foundItems \cup SkipList(b) /\ ~Busy(b, a)}

Answering(b, foundItems) == {a \in Probed(b, foundItems) : Seen(b, a) # None}

Tried(b, foundItems) ==
    Answering(b, foundItems)
        \ UNION {failedAddresses[c] : c \in {b} \cup RootBus(b)}

\* readFRUContents, and readNvmeContents where that finds nothing.
Readable(a, content) == content \in Content /\ (content = Drive => a = NvmeAddr)

\* Mutant: what the root bus has is read again through the mux.
NothingFound(b) == {{}}

\* The FRUs already known on the root are not read again through the mux.  The
\* root's entry is made while a reference into the same flat_map is live: when
\* it is new, what the reference then yields is anything.
FoundItems(b) ==
    IF RootBus(b) = {} THEN {{}}
    ELSE IF Root[b] \in DOMAIN fruAddresses THEN {fruAddresses[Root[b]]}
    ELSE SUBSET Addrs

\* makeProbeInterface, for the addresses that answered; not on a mux channel.
ProbeInterfaces(b, answering) == IF RootBus(b) # {} THEN {} ELSE {b} \X answering

\* What the callback leaves behind when only the addresses `reached' are read.
ReadAddresses(b, foundItems, reached) ==
    LET read == {a \in Tried(b, foundItems) \cap reached : Readable(a, Seen(b, a))}
        mute == {a \in Tried(b, foundItems) \cap reached : Seen(b, a) = Mute}
    IN  /\ busMap' = [loc \in {l \in DOMAIN busMap : l[1] # b}
                                \cup {<<b, a>> : a \in EepromsRead(b) \cup read} |->
                        IF loc[1] # b THEN busMap[loc] ELSE Seen(b, loc[2])]
        /\ foundDevices' =
             foundDevices \cup ProbeInterfaces(b, Answering(b, foundItems) \cap reached)
        /\ failedAddresses' =
             IF powerIsOn /\ RootBus(b) \subseteq DOMAIN fruAddresses
             THEN [failedAddresses EXCEPT ![b] = @ \cup mute] ELSE failedAddresses
        /\ fruAddresses' = [c \in DOMAIN fruAddresses \cup {b} \cup RootBus(b) |->
                              IF c = b THEN foundItems \cup read
                              ELSE IF c \in DOMAIN fruAddresses THEN fruAddresses[c]
                              ELSE {}]

\* The buses are scanned in the order of their numbers.
Scanning(b) == b \in scan.todo /\ \A c \in scan.todo : b <= c

Usable(b) == /\ b \in nodes \ NoSmbus
             /\ ({b} \cup RootBus(b)) \cap busBlocklist = {}

\* findI2CDevices: a bus that is blocked, gone or unfit is passed over.
SkipBus(b) ==
    /\ Scanning(b)
    /\ ~Usable(b)
    /\ scan' = [scan EXCEPT !.todo = @ \ {b}]
    /\ UNCHANGED <<world, powerIsOn, timer, bus_, store, steady>>

ReadBus(b) ==
    /\ Scanning(b)
    /\ Usable(b)
    /\ \E foundItems \in FoundItems(b) : ReadAddresses(b, foundItems, Addrs)
    /\ scan' = [scan EXCEPT !.todo = @ \ {b}]
    /\ UNCHANGED <<world, powerIsOn, timer, ifaces, unknownBusObjectCount,
                   busBlocklist, steady>>

\* getBusFRUs: ten seconds passed.  The file is closed under the scanning
\* thread, every later transfer fails, and the future's destructor waits for it.
TimeOutBus(b) ==
    /\ Timeouts
    /\ Scanning(b)
    /\ Usable(b)
    /\ \E foundItems \in FoundItems(b), cut \in Addrs \cup {128} :
          ReadAddresses(b, foundItems, {a \in Addrs : a < cut})
    /\ busBlocklist' = IF powerIsOn THEN busBlocklist \cup {b} ELSE busBlocklist
    /\ steady' = FALSE
    /\ scan' = [scan EXCEPT !.todo = @ \ {b}]
    /\ UNCHANGED <<world, powerIsOn, timer, ifaces, unknownBusObjectCount>>

-----------------------------------------------------------------------------
(* Publishing. *)

\* Mutant: the index is the number of namesakes.
NextPath(published, product) ==
    LET same == {loc \in DOMAIN published :
                    /\ published[loc].path.name = product.name
                    /\ published[loc].path.unknown = product.unknown}
    IN  [product EXCEPT !.index = Cardinality(same) - 1]

\* getProductName and findIndexForFRU: the name's own path if no interface has
\* the name, else the name with the index after the highest in use.
FreePath(published, product) ==
    LET same == {p \in {published[loc].path : loc \in DOMAIN published} :
                    p.name = product.name /\ p.unknown = product.unknown}
    IN  [product EXCEPT !.index =
            IF same = {} THEN -1 ELSE Max({-1} \cup {p.index : p \in same}) + 1]

Publish(st, loc, path, content) ==
    [st EXCEPT !.ifaces = [l \in DOMAIN @ \cup {loc} |->
        IF l = loc THEN [path |-> path, shown |-> content] ELSE @[l]]]

\* addFruObjectToDbus: what does not parse is not published, but at the address
\* of the drives it is, as one, whatever it is: its first two bytes are taken
\* for the vendor.
AddFruObject(st, loc) ==
    LET content == busMap'[loc]
        product(name, k) == [name |-> name, unknown |-> k, index |-> -1]
    IN  IF content \in Fru /\ content.name # NoName
        THEN Publish(st, loc, FreePath(st.ifaces, product(content.name, -1)), content)
        ELSE IF content \in Fru
        THEN Publish([st EXCEPT !.unknown = @ + 1], loc,
                     FreePath(st.ifaces, product(NoName, st.unknown)), content)
        ELSE IF loc[2] = NvmeAddr
        THEN Publish(st, loc, [product(VendorId, -1) EXCEPT !.index = loc[1]], content)
        ELSE st

Before(l, m) == l[1] < m[1] \/ (l[1] = m[1] /\ l[2] < m[2])

LastOf(locs) == CHOOSE l \in locs : \A m \in locs \ {l} : Before(m, l)

\* addFruObjectToDbus for each of the locations, in the order of the maps.
PublishInOrder(st, all) ==
    LET after[locs \in SUBSET all] ==
            IF locs = {} THEN st
            ELSE AddFruObject(after[locs \ {LastOf(locs)}], LastOf(locs))
    IN  after[all]

Published(st) == /\ ifaces' = st.ifaces
                 /\ unknownBusObjectCount' = st.unknown

\* publishAllFrus; the baseboard's FRU comes from its file.
PublishAllFrus ==
    LET baseboard == {loc \in Loc \cap {<<0, 0>>} : device[loc] # None}
    IN  /\ scan.mode = "all"
        /\ scan.todo = {}
        /\ busMap' = [loc \in DOMAIN busMap \cup baseboard |->
                         IF loc \in DOMAIN busMap THEN busMap[loc] ELSE device[loc]]
        /\ Published(PublishInOrder([ifaces |-> <<>>, unknown |-> 0], DOMAIN busMap'))
        /\ scan' = Rest
        /\ UNCHANGED <<world, powerIsOn, timer, foundDevices, store, steady>>

\* Mutants: the bus's interfaces stay; every bus's go.
KeptAll(b) == ifaces
KeptNone(b) == <<>>

\* publishFrusOnBus.
KeptInterfaces(b) == Restrict(ifaces, {loc \in DOMAIN ifaces : loc[1] # b})

PublishFrusOnBus(b) ==
    /\ scan.mode = "one"
    /\ scan.bus = b
    /\ scan.todo = {}
    /\ busMap' = busMap
    /\ Published(PublishInOrder([ifaces |-> KeptInterfaces(b),
                                 unknown |-> unknownBusObjectCount],
                                {loc \in DOMAIN busMap : loc[1] = b}))
    /\ scan' = IF scan.calls = <<>> THEN Rest
               ELSE [Rest EXCEPT !.mode = "calls", !.calls = scan.calls]
    /\ UNCHANGED <<world, powerIsOn, timer, foundDevices, store, steady>>

-----------------------------------------------------------------------------
(* What starts a scan. *)

\* rescanBusses: one timer for all requests; a request arms it anew.
rescanBusses == timer' = TRUE

\* rescanBussesCallback.
TimerFires ==
    /\ Idle
    /\ timer
    /\ timer' = FALSE
    /\ busMap' = <<>>
    /\ foundDevices' = {}
    /\ scan' = [Rest EXCEPT !.mode = "all", !.todo = nodes]
    /\ steady' = TRUE
    /\ UNCHANGED <<world, powerIsOn, ifaces, unknownBusObjectCount, store>>

\* rescanOneBus, for the first of the buses; a bus without a node keeps what it
\* had, but for its I2CDevice interfaces.
RescanOneBus(buses) ==
    LET b == Head(buses)
        rest == Tail(buses)
    IN  /\ foundDevices' = {loc \in foundDevices : loc[1] # b}
        /\ scan' = IF b \in nodes
                   THEN [mode |-> "one", bus |-> b, todo |-> {b}, calls |-> rest]
                   ELSE IF rest = <<>> THEN Rest
                   ELSE [mode |-> "calls", bus |-> NoBus, todo |-> {}, calls |-> rest]
        /\ UNCHANGED <<powerIsOn, timer, busMap, ifaces, unknownBusObjectCount,
                       store, steady>>

NextCall ==
    /\ scan.mode = "calls"
    /\ RescanOneBus(scan.calls)
    /\ UNCHANGED world

\* watchI2cBusses, one event of those it read: a channel's root is scanned
\* before the channel.
HandleEvent ==
    /\ Idle
    /\ events # <<>>
    /\ events' = Tail(events)
    /\ LET b == Head(events)
       IN  RescanOneBus(IF RootBus(b) = {} THEN <<b>> ELSE <<Root[b], b>>)
    /\ UNCHANGED <<device, nodes, ops>>

Spend == ops < MaxOps /\ ops' = ops + 1

ReScan ==
    /\ Idle
    /\ Spend
    /\ rescanBusses
    /\ UNCHANGED <<device, nodes, events, powerIsOn, scan, bus_, store, steady>>

ReScanBus(b) ==
    /\ Idle
    /\ Spend
    /\ RescanOneBus(<<b>>)
    /\ UNCHANGED <<device, nodes, events>>

\* The host's state changed; powerIsOn is never reset.
HostState(running) ==
    /\ Idle
    /\ Spend
    /\ powerIsOn' = (powerIsOn \/ running)
    /\ IF powerIsOn' THEN rescanBusses ELSE timer' = timer
    /\ UNCHANGED <<device, nodes, events, scan, bus_, store, steady>>

-----------------------------------------------------------------------------
(* Writing. *)

\* The location writeFRU reaches: the eeprom's file, or whatever answers.
Target(b, a) == IF <<b, a>> \in Driver THEN <<b, a>> ELSE Where(b, a)

\* writeFRU's outcomes: what is at the target then, and whether it returned
\* true.  A short write to an eeprom's file is taken for a whole one.
WriteOutcomes(b, a, new) ==
    LET old == device[Target(b, a)]
        baseboard == b = 0 /\ a = 0
        file == baseboard \/ <<b, a>> \in Driver
        reached == /\ Target(b, a) \in Loc
                   /\ baseboard \/ old \notin {None, Mute}
                   /\ file \/ b \in nodes
    IN  IF ~reached THEN {[content |-> old, done |-> FALSE]}
        ELSE {[content |-> new, done |-> TRUE]} \cup
             IF ~WriteFaults THEN {}
             ELSE {[content |-> old, done |-> FALSE],
                   [content |-> Garbled, done |-> <<b, a>> \in Driver]}

WriteFRU(b, a, out) ==
    /\ device' = [device EXCEPT ![Target(b, a)] = out.content]
    /\ IF out.done THEN rescanBusses ELSE timer' = timer
    /\ steady' = (steady /\ device' = device)

WriteFru(b, a, new) ==
    /\ Idle
    /\ Spend
    /\ b % ByteRange \in Buses
    /\ \E out \in WriteOutcomes(b % ByteRange, a, new) : WriteFRU(b % ByteRange, a, out)
    /\ UNCHANGED <<nodes, events, powerIsOn, scan, bus_, store>>

\* updateFruProperty: the FRU as it was last read, with one field replaced.
NewFru(b, a, f, v) == [busMap[<<b, a>>] EXCEPT !.field[f] = v]

\* UpdateFruField, and setting the property itself, which then shows the value.
UpdateField(b, a, f, v, setter) ==
    /\ Idle
    /\ Spend
    /\ <<b, a>> \in DOMAIN ifaces \cap DOMAIN busMap
    /\ busMap[<<b, a>>] \in Fru
    /\ ifaces[<<b, a>>].shown \in Fru
    /\ setter => v # ifaces[<<b, a>>].shown.field[f]
    /\ b % ByteRange \in Buses
    /\ \E out \in WriteOutcomes(b % ByteRange, a, NewFru(b, a, f, v)) :
          /\ WriteFRU(b % ByteRange, a, out)
          /\ ifaces' = IF setter /\ out.done
                       THEN [ifaces EXCEPT ![<<b, a>>].shown.field[f] = v] ELSE ifaces
    /\ UNCHANGED <<nodes, events, powerIsOn, scan, busMap, unknownBusObjectCount,
                   foundDevices, store>>

-----------------------------------------------------------------------------
(* The hardware. *)

PlugIn(loc, content) ==
    /\ Spend
    /\ device[loc] # content
    /\ device' = [device EXCEPT ![loc] = content]
    /\ NoConflict(device')
    /\ steady' = FALSE
    /\ UNCHANGED <<nodes, events, powerIsOn, timer, scan, bus_, store>>

\* A mux's driver is bound or unbound: the channel's node comes or goes.
ToggleNode(b) ==
    /\ Spend
    /\ Root[b] # NoBus
    /\ nodes' = IF b \in nodes THEN nodes \ {b} ELSE nodes \cup {b}
    /\ events' = Append(events, b)
    /\ steady' = FALSE
    /\ UNCHANGED <<device, powerIsOn, timer, scan, bus_, store>>

-----------------------------------------------------------------------------
ScanStep ==
    \/ \E b \in Buses : SkipBus(b) \/ ReadBus(b) \/ TimeOutBus(b)
    \/ PublishAllFrus
    \/ \E b \in Buses : PublishFrusOnBus(b)
    \/ NextCall

Call ==
    \/ ReScan
    \/ \E b \in Buses : ReScanBus(b)
    \/ \E running \in BOOLEAN : HostState(running)
    \/ \E b \in Buses, a \in Addrs, new \in Written : WriteFru(b, a, new)
    \/ \E b \in Buses, a \in Addrs, f \in Fields, v \in Values, setter \in BOOLEAN :
          UpdateField(b, a, f, v, setter)

Hardware ==
    \/ \E loc \in Loc \ Soldered : \E content \in Plug[loc] : PlugIn(loc, content)
    \/ \E b \in Buses : ToggleNode(b)

Next == ScanStep \/ TimerFires \/ HandleEvent \/ Call \/ Hardware

Spec == Init /\ [][Next]_vars

-----------------------------------------------------------------------------
(* Properties. *)

\* No two FRUs are published at the same object path, whatever the order in
\* which buses were scanned again (findIndexForFRU).
PathsAreUnique ==
    \A l, m \in DOMAIN ifaces : ifaces[l].path = ifaces[m].path => l = m

Showable(loc, content) == content = Garbled => loc[2] = NvmeAddr

\* When nothing is pending, D-Bus shows exactly what can be shown of what was
\* read: the interfaces that publishFrusOnBus and publishAllFrus keep and the
\* map that GetRawFru and UpdateFruField read never part.  What does not parse is
\* not shown, but where a drive may be, where it is shown as a drive.
DBusShowsTheMap ==
    Idle /\ ~timer =>
        /\ DOMAIN ifaces = {loc \in DOMAIN busMap : Showable(loc, busMap[loc])}
        /\ \A loc \in DOMAIN ifaces : ifaces[loc].shown = busMap[loc]

\* What keeps the scan from a FRU that is there.
OutOfReach(b, a) ==
    \/ ~Usable(b)
    \/ a \in AddressesBlocked(b) \cup Blacklisted(b)
         \cup UNION {AddressesBlocked(c) : c \in RootBus(b)}
    \/ <<b, a>> \notin Driver /\ (Busy(b, a) \/ a \notin 13..119)
    \/ <<b, a>> \in Driver /\ device[<<b, a>>] = Drive
    \/ a \in UNION {failedAddresses[c] : c \in {b} \cup RootBus(b)}

\* After a full scan, and whichever single buses are scanned after it, every
\* FRU within reach was read, from one bus only although its mux's channels
\* answer for it too, and nothing was read that is not there, nor what the
\* blocklist names for the mux's root, on whichever bus it answers, but for the
\* baseboard's file.
EveryFruOnce ==
    Idle /\ steady =>
        /\ \A b \in Buses, a \in Addrs :
              Readable(a, device[<<b, a>>]) /\ ~OutOfReach(b, a) =>
                  \E c \in Buses : {l \in DOMAIN busMap : Where(l[1], l[2]) = <<b, a>>}
                                     = {<<c, a>>}
        /\ \A loc \in DOMAIN busMap :
              /\ busMap[loc] = Seen(loc[1], loc[2])
              /\ loc # <<0, 0>> => Where(loc[1], loc[2]) \notin BlockedAddrs

\* Scanning one bus again does not move the FRUs of another bus to another
\* path, nor drop them.
OthersKeepTheirPath ==
    [][\A b \in Buses : scan.mode = "one" /\ scan.bus = b =>
          \A loc \in DOMAIN ifaces :
              loc[1] # b => loc \in DOMAIN ifaces' /\ ifaces'[loc] = ifaces[loc]]_vars
=============================================================================
