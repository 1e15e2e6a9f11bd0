------------------------------- MODULE FruCodec -------------------------------
(***************************************************************************)
(* How fru-device takes an IPMI FRU apart, changes one field of it and     *)
(* puts it together again (fru_utils.cpp).  A FRU is a sequence of bytes:  *)
(* a header with the offsets of five areas, then the areas.  A field is a  *)
(* type and length byte and the bytes of its value; a result <<>> stands   *)
(* for a refusal.                                                          *)
(***************************************************************************)
EXTENDS Integers, Sequences, SequencesExt, FiniteSetsExt

CONSTANT Resize    \* ENABLE_FRU_AREA_RESIZE, an option of the build

ASSUME ResizeAssumption == Resize \in BOOLEAN

fruBlockSize == 8
fruVersion == 1
EndOfFields == 193                  \* 0xc1
TextOf(length) == 192 + length      \* 0xc0 | length: text
MaxLength == 63
multiRecordHeaderSize == 5

Internal == 0
Multirecord == 4
InfoAreas == 1..3                   \* chassis, board, product
AllAreas == Internal..Multirecord

\* How many named fields an area has, and where they begin.
FieldNames == <<2, 5, 7>>
FirstField == <<3, 6, 3>>

\* Op(x); TLC evaluates x once.
Once(Op(_), x) == CHOOSE y \in {Op(v) : v \in {x}} : TRUE

At(bytes, i) == bytes[i + 1]
Slice(bytes, from, length) == SubSeq(bytes, from + 1, from + length)

getHeaderAreaFieldOffset(a) == a + 1
Offset(fru, a) == At(fru, getHeaderAreaFieldOffset(a))

getFieldLength(c) == IF c = EndOfFields THEN -1 ELSE c % 64

calculateChecksum(bytes) ==
    LET Sum[n \in 0..Len(bytes)] == IF n = 0 THEN 0 ELSE (Sum[n - 1] + bytes[n]) % 256
    IN  (256 - Sum[Len(bytes)]) % 256

\* The bytes with the last one made their checksum.
Sealed(bytes) ==
    LET body == SubSeq(bytes, 1, Len(bytes) - 1)
    IN  Append(body, calculateChecksum(body))

Padded(bytes, size) == [i \in 1..size |-> IF i <= Len(bytes) THEN bytes[i] ELSE 0]

-----------------------------------------------------------------------------
(* Taking apart. *)

\* Sizes in bytes; -1 if there is none.
calculateAreaSize(a, fru, offset) ==
    CASE a \in InfoAreas ->
            IF offset + 1 >= Len(fru) THEN -1 ELSE At(fru, offset + 1) * fruBlockSize
      [] a = Internal ->
            LET later == {b \in AllAreas \ {a} : Offset(fru, b) # 0}
            IN  IF later = {} THEN -1
                ELSE Offset(fru, Min(later)) * fruBlockSize - offset
      [] OTHER -> Len(fru) - offset

\* The area, <<>> if there is none.
AreaBytes(fru, a) ==
    LET offset == Offset(fru, a) * fruBlockSize
    IN  IF offset = 0 THEN <<>> ELSE Slice(fru, offset, calculateAreaSize(a, fru, offset))

CanDisassemble(fru) ==
    /\ Len(fru) >= fruBlockSize
    /\ \A a \in AllAreas :
          LET offset == Offset(fru, a) * fruBlockSize
              size   == calculateAreaSize(a, fru, offset)
          IN  offset # 0 => size >= 0 /\ offset + size <= Len(fru)

disassembleFruData(fru) == [a \in AllAreas |-> AreaBytes(fru, a)]

-----------------------------------------------------------------------------
(* Changing a field.  Fields are numbered; those behind the named ones are  *)
(* the custom fields INFO_AM1, INFO_AM2, ...                                *)

\* Mutant: a missing field is taken where the end of fields is.
NoneMissing(bytes, i) == FALSE

Missing(bytes, i) == At(bytes, i) = EndOfFields

WithField(s) ==
    IF Missing(s.bytes, s.next) THEN InsertAt(s.bytes, s.next + 1, TextOf(0)) ELSE s.bytes

\* From one field to the next; a missing one is inserted, empty.
NextField(s) ==
    LET with   == WithField(s)
        length == getFieldLength(At(with, s.next))
    IN  IF ~s.ok \/ s.next >= Len(s.bytes) THEN [s EXCEPT !.ok = FALSE]
        ELSE [ok     |-> length <= Len(with) - s.next - 1,
              bytes  |-> with,
              index  |-> s.next,
              length |-> length,
              next   |-> s.next + 1 + length]

\* Walks to the n-th field.
findOrCreateField(a, bytes, n) ==
    LET Field[i \in 0..n] ==
            IF i = 0 THEN [ok |-> n <= FieldNames[a] + Len(bytes), bytes |-> bytes,
                           index |-> 0, length |-> 0, next |-> FirstField[a]]
            ELSE Once(NextField, Field[i - 1])
    IN  Field[n]

\* The last marker before the last byte, 0 if there is none.
getNonPaddedSizeOfArea(bytes) ==
    Max({0} \cup {i \in 1..Len(bytes) - 1 : bytes[i] = EndOfFields})

\* There is always room for the checksum.
getBlockCount(bytes) == bytes \div fruBlockSize + 1

\* Mutant: a value of one byte is as good as any.
AnyLength(value) == Len(value) <= MaxLength

\* A field of one byte would read as the end of the fields.
ValidLength(value) == Len(value) # 1 /\ Len(value) <= MaxLength

\* Mutant: what follows the field is overwritten, not moved.
SplicedOver(s, value) ==
    SubSeq(s.bytes, 1, s.index) \o <<TextOf(Len(value))>> \o value
        \o SubSeq(s.bytes, s.index + Len(value) + 2, Len(s.bytes))

\* The field replaced; what follows it moves.
Spliced(s, value) ==
    SubSeq(s.bytes, 1, s.index) \o <<TextOf(Len(value))>> \o value
        \o SubSeq(s.bytes, s.index + s.length + 2, Len(s.bytes))

setField(a, bytes, n, value) ==
    LET found     == findOrCreateField(a, bytes, n)
        tmpBuffer == Spliced(found, value)
        newSize   == getNonPaddedSizeOfArea(tmpBuffer)
        oldSize   == getNonPaddedSizeOfArea(bytes)
        blocks    == getBlockCount(newSize)
    IN  IF \/ ~ValidLength(value)
           \/ ~found.ok
           \/ oldSize = 0 \/ newSize = 0
           \/ ~Resize /\ blocks # getBlockCount(oldSize)
        THEN <<>>
        ELSE Sealed([Padded(tmpBuffer, blocks * fruBlockSize) EXCEPT ![2] = blocks])

-----------------------------------------------------------------------------
(* Putting together. *)

CanAssemble(areas) == \A a \in AllAreas : Len(areas[a]) % fruBlockSize = 0

\* The first n areas, one behind the other.
Joined(areas, n) ==
    LET Areas[m \in 0..5] == IF m = 0 THEN <<>> ELSE Areas[m - 1] \o areas[m - 1]
    IN  Areas[n]

\* The header, with the offsets of the areas that are not empty, and the areas.
assembleFruData(areas) ==
    LET offsets == [i \in 1..5 |->
                       IF areas[i - 1] = <<>> THEN 0
                       ELSE (Len(Joined(areas, i - 1)) \div fruBlockSize + 1) % 256]
    IN  IF ~CanAssemble(areas) THEN <<>>
        ELSE Sealed(<<fruVersion>> \o offsets \o <<0, 0>>) \o Joined(areas, 5)

\* An area whose named fields are all empty.
createDummyArea(a) ==
    LET fields == [i \in 1..FirstField[a] + FieldNames[a] + 1 |->
                      CASE i = 1 -> fruVersion
                        [] i \in 2..FirstField[a] -> 0
                        [] i > FirstField[a] + FieldNames[a] -> EndOfFields
                        [] OTHER -> TextOf(0)]
        blocks == (Len(fields) + fruBlockSize - 1) \div fruBlockSize
    IN  Sealed([Padded(fields, blocks * fruBlockSize) EXCEPT ![2] = blocks])

\* Mutant: only the area that was changed is kept.
KeptAreas(areas, a, new) == [b \in AllAreas |-> IF b = a THEN new ELSE <<>>]

WithArea(areas, a, new) == [areas EXCEPT ![a] = new]

updateAddProperty(value, a, n, fru) ==
    LET areas == disassembleFruData(fru)
        new   == setField(a, IF areas[a] = <<>> THEN createDummyArea(a) ELSE areas[a], n, value)
    IN  IF \/ ~ValidLength(value)
           \/ ~CanDisassemble(fru)
           \/ areas[a] = <<>> /\ ~Resize
           \/ new = <<>>
        THEN <<>>
        ELSE assembleFruData(WithArea(areas, a, new))

-----------------------------------------------------------------------------
(* Parsing. *)

\* No other area begins inside this one.
verifyOffset(fru, a, length) ==
    \A b \in AllAreas \ {a} :
        LET start == Offset(fru, a)
        IN  Offset(fru, b) # 0 =>
                Offset(fru, b) # start /\ Offset(fru, b) \notin start..start + length - 1

\* decodeFRUData, decodeField: the fields of an area up to its marker, each as
\* its encoding and its bytes.
Decode(a, bytes) ==
    LET end     == Len(bytes) - 1
        English == a = 1 \/ At(bytes, 2) \in {0, 25}
        Walk(s) ==
            LET c      == At(bytes, s.next)
                length == c % 64
                type   == c \div 64
                field  == [type |-> type, bytes |-> Slice(bytes, s.next + 1, length)]
            IN  IF s.state # "ok" THEN s
                ELSE IF s.next < end /\ c = EndOfFields
                THEN [s EXCEPT !.state = "end", !.next = @ + 1]
                ELSE IF s.next + length >= end \/ (type = 3 /\ ~English)
                THEN [s EXCEPT !.state = "err"]
                ELSE [s EXCEPT !.fields = Append(@, field), !.next = @ + 1 + length]
        Field[i \in Nat] ==
            IF i = 0 THEN [state |-> "ok", fields |-> <<>>, next |-> FirstField[a]]
            ELSE Once(Walk, Field[i - 1])
    IN  Field[Len(bytes)]

\* formatIPMIFRU, for one area.
Verdict(fru, a) ==
    LET offset == Offset(fru, a) * fruBlockSize
        bytes  == AreaBytes(fru, a)
        size   == Len(bytes)
        parsed == Decode(a, bytes)
    IN  IF offset = 0 THEN "ok"
        ELSE IF \/ offset + fruBlockSize >= Len(fru)
                \/ At(fru, offset) # fruVersion
                \/ ~verifyOffset(fru, a, At(fru, offset + 1))
                \/ At(fru, offset + 1) = 0
                \/ offset + At(fru, offset + 1) * fruBlockSize > Len(fru)
                \/ parsed.state = "err" /\ Len(parsed.fields) < FieldNames[a]
             THEN "err"
        ELSE IF \/ calculateChecksum(SubSeq(bytes, 1, size - 1)) # bytes[size]
                \/ parsed.state = "err"
                \/ Len(parsed.fields) < FieldNames[a]
                \/ \E i \in parsed.next + 1..size - 1 : bytes[i] # 0
             THEN "warn"
        ELSE "ok"

formatIPMIFRU(fru) ==
    LET verdicts == {Verdict(fru, a) : a \in InfoAreas}
    IN  IF Len(fru) <= fruBlockSize \/ "err" \in verdicts THEN "err"
        ELSE IF "warn" \in verdicts THEN "warn" ELSE "ok"

\* What it finds in an area.
FieldsOf(fru, a) ==
    IF Offset(fru, a) = 0 THEN <<>> ELSE Decode(a, AreaBytes(fru, a)).fields
=============================================================================
