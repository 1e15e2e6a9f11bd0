------------------------------ MODULE FruUpdate -------------------------------
(***************************************************************************)
(* An update of one field of a FRU by fru-device, from the call to what    *)
(* D-Bus shows: the FRU as it was last read is taken apart, changed,       *)
(* checked and written over the EEPROM byte by byte, and a rescan a second *)
(* later reads it back.  A write may break off after any byte, by an error *)
(* of the bus or because the daemon or its machine goes down.              *)
(***************************************************************************)
EXTENDS FruCodec

CONSTANTS
    maxFruSize,    \* 512
    Frus,          \* what the EEPROM holds at first
    EepromSize,
    Names,         \* fields that are updated: <<area, number>>
    Values,        \* what they are set to
    Breaks,        \* after how many bytes a write may break off
    MaxCalls,      \* bound on updates
    MaxField       \* bound on the number of a field

ASSUME NamesAssumption == MaxField \in Nat /\ Names \subseteq InfoAreas \X (1..MaxField)
ASSUME ValuesAssumption == Values \subseteq Seq(Nat)
ASSUME SizesAssumption ==
    /\ EepromSize \in Nat /\ EepromSize >= fruBlockSize
    /\ maxFruSize \in 0..256 * fruBlockSize    \* an offset has a byte
ASSUME FrusAssumption == Frus \subseteq {e \in Seq(Nat) : Len(e) = EepromSize}
ASSUME BreaksAssumption == Breaks \subseteq Nat /\ MaxCalls \in Nat

VARIABLES
    eeprom,    \* its bytes
    sized,     \* whether it has a driver, which tells its size
    map,       \* busMap: the FRU as it was last read, <<>> if there was none
    shown,     \* on D-Bus: what the map stands for
    held,      \* history: what the EEPROM stands for
    timer,     \* the rescan timer is armed
    torn,      \* history: the last write broke off, or was of more than the EEPROM holds
    calls

updateVars == <<eeprom, sized, map, shown, held, timer, torn, calls>>

-----------------------------------------------------------------------------
(* What a FRU stands for: its fields, empty where there are none, the fixed *)
(* bytes of its areas (number 0) and the areas that are not looked into.    *)

Text(value) == [type |-> 3, bytes |-> value]
EmptyText == Text(<<>>)

FixedBytes(fru, a) ==
    IF Offset(fru, a) = 0 THEN [i \in 1..FirstField[a] - 2 |-> 0]
    ELSE SubSeq(AreaBytes(fru, a), 3, FirstField[a])

\* Behind the bytes the list is taken to end.
Have(bytes, pos) == IF pos < Len(bytes) THEN At(bytes, pos) ELSE 255

NextRecord(bytes, pos) == pos + Have(bytes, pos + 2) + multiRecordHeaderSize

\* Where the record that ends the list ends, from a record on.
LastRecordEnd(bytes, first) ==
    LET End[pos \in Nat] ==
            IF Have(bytes, pos + 1) >= 128 THEN NextRecord(bytes, pos)
            ELSE End[NextRecord(bytes, pos)]
    IN  End[first]

RecordBytes(fru) ==
    LET start == Offset(fru, Multirecord) * fruBlockSize
    IN  IF start = 0 THEN <<>>
        ELSE SubSeq(fru, start + 1, Min({Len(fru), LastRecordEnd(fru, start)}))

StandsFor(fru) ==
    LET fields == [a \in InfoAreas |-> FieldsOf(fru, a)]
        Field(a, n) ==
            IF n \notin DOMAIN fields[a] \/ fields[a][n].bytes = <<>> THEN EmptyText
            ELSE fields[a][n]
    IN  IF fru = <<>> \/ formatIPMIFRU(fru) = "err" THEN <<>>
        ELSE [key \in (InfoAreas \X (0..MaxField)) \cup {<<Internal, 0>>, <<Multirecord, 0>>} |->
                 CASE key[1] = Multirecord -> RecordBytes(fru)
                   [] key[1] = Internal -> IF CanDisassemble(fru) THEN AreaBytes(fru, Internal)
                                           ELSE <<>>
                   [] key[2] = 0 -> FixedBytes(fru, key[1])
                   [] OTHER -> Field(key[1], key[2])]

-----------------------------------------------------------------------------
(* Reading back. *)

StartOf(e, a) == At(e, getHeaderAreaFieldOffset(a))
PresentAreas(e) == {a \in AllAreas : StartOf(e, a) # 0}

validateHeader(e) ==
    /\ At(e, 0) = fruVersion
    /\ At(e, 6) = 0
    /\ At(e, 7) = calculateChecksum(SubSeq(e, 1, 7))

\* The offsets increase, so no two are the same.
InOrder(e) == \A a, b \in PresentAreas(e) : a < b => StartOf(e, a) < StartOf(e, b)

\* Where an area ends that begins in the EEPROM.
AreaEnd(e, a) ==
    LET start == StartOf(e, a) * fruBlockSize
    IN  IF a = Multirecord THEN LastRecordEnd(e, start)
        ELSE start + At(e, start + 1) * fruBlockSize

\* The FRU is all there.
Fits(e) == \A a \in PresentAreas(e) :
              /\ StartOf(e, a) * fruBlockSize + 1 < EepromSize
              /\ AreaEnd(e, a) <= EepromSize

\* readFRUContents; if the size is known, with what is behind the FRU.
Contents(e) ==
    IF ~validateHeader(e) \/ ~InOrder(e) \/ ~Fits(e) THEN <<>>
    ELSE IF sized THEN e
    ELSE SubSeq(e, 1, Max({fruBlockSize} \cup {AreaEnd(e, a) : a \in PresentAreas(e)}))

UpdateInit ==
    /\ eeprom \in Frus
    /\ sized \in BOOLEAN
    /\ map = Contents(eeprom)
    /\ shown = StandsFor(map)
    /\ held = shown
    /\ timer = FALSE
    /\ torn = (formatIPMIFRU(map) # "ok")
    /\ calls = 0

\* It has an object, with its fields and UpdateFruField.
HasObject == map # <<>> /\ formatIPMIFRU(map) # "err"

-----------------------------------------------------------------------------
(* Updating. *)

\* Mutant: what does not parse is written too.
Unchecked(fru) == fru # <<>> /\ Len(fru) <= maxFruSize

\* What writeFRU takes.
Legal(fru) == fru # <<>> /\ Len(fru) <= maxFruSize /\ formatIPMIFRU(fru) = "ok"

\* The first bytes are written over what is there, up to the EEPROM's end.
Over(fru, count) == [i \in 1..EepromSize |-> IF i <= count THEN fru[i] ELSE eeprom[i]]

\* Mutant: updateFruProperty does not ask for a rescan.
NoRescan(done) == FALSE

rescanBusses(done) == done

UpdateFruField(a, n, value) ==
    /\ HasObject
    /\ calls < MaxCalls
    /\ calls' = calls + 1
    /\ \E fru \in {updateAddProperty(value, a, n, map)} :
          IF ~Legal(fru) THEN UNCHANGED <<eeprom, held, timer, torn>>
          ELSE \E count \in {Len(fru)} \cup {k \in Breaks : k < Len(fru)} :
               \E written \in {Over(fru, count)} :
                  /\ eeprom' = written
                  /\ held' = StandsFor(Contents(written))
                  /\ torn' = (count # Len(fru) \/ ~Fits(fru))
                  /\ timer' = (timer \/ rescanBusses(count = Len(fru)))
    /\ UNCHANGED <<sized, map, shown>>

ReadAgain ==
    \E read \in {Contents(eeprom)} :
        /\ map' = read
        /\ shown' = StandsFor(read)
        /\ timer' = FALSE
        /\ UNCHANGED <<eeprom, sized, held, torn, calls>>

TimerFires ==
    /\ timer
    /\ ReadAgain

\* The daemon starts again, and reads everything.
Restart == ReadAgain

UpdateNext ==
    \/ \E name \in Names, value \in Values : UpdateFruField(name[1], name[2], value)
    \/ TimerFires
    \/ Restart

UpdateSpec == UpdateInit /\ [][UpdateNext]_updateVars

\* The timer expires if the daemon runs.
LiveSpec == UpdateSpec /\ WF_updateVars(TimerFires)

-----------------------------------------------------------------------------
(* Properties. *)

Store == INSTANCE FieldStore WITH
    Fields <- Names, Texts <- {Text(v) : v \in Values}, Unreadable <- <<>>,
    store <- held, known <- shown

\* An update that was written leaves the device with the fields last read and
\* the one that was asked for, whatever the areas had to give way; one that is
\* refused leaves it alone (updateFruProperty, setField).
OneFieldChanges == Store!Spec

\* What was written whole reads back as a FRU without a fault.
WholeIsWellFormed == ~torn => \A fru \in {Contents(eeprom)} : formatIPMIFRU(fru) = "ok"

\* An update that succeeded is shown in the end: the rescan it asked for reads
\* the device after it, whatever is called or goes down in between.
UpdateIsShown == (~torn /\ shown # held) ~> (shown = held)

=============================================================================
