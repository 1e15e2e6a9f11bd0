----------------------------- MODULE MCFruUpdate ------------------------------
(***************************************************************************)
(* A chassis area, a FRU with areas of every kind, records that do not end *)
(* at a block, and a FRU whose padding holds what looks like an end.       *)
(***************************************************************************)
EXTENDS FruUpdate

A == <<65>>
AA == <<65, 65>>
AAA == <<65, 65, 65>>
Ten == [i \in 1..10 |-> 66]
\* A part number, INFO_AM2 of the chassis, a name of a product area to be made.
MCNames == {<<1, 1>>, <<1, 4>>, <<3, 2>>}
MCValues == {<<>>, A, AAA, Ten}

\* An area of fields, well formed but for what is in its padding.
Area(a, fields, padding) ==
    LET body   == [i \in 1..FirstField[a] |-> IF i = 1 THEN fruVersion ELSE 0]
                     \o FoldLeft(LAMBDA bytes, value : bytes \o <<TextOf(Len(value))>> \o value,
                                 <<>>, fields)
                     \o <<EndOfFields>> \o padding
        blocks == getBlockCount(Len(body))
    IN  Sealed([Padded(body, blocks * fruBlockSize) EXCEPT ![2] = blocks])

Blank(bytes, size) == [i \in 1..size |-> IF i <= Len(bytes) THEN bytes[i] ELSE 255]

Fru(internal, chassis, board, records) ==
    Blank(assembleFruData([a \in AllAreas |->
              CASE a = Internal -> internal [] a = 1 -> chassis [] a = 2 -> board
                [] a = 3 -> <<>> [] OTHER -> records]), EepromSize)

Chassis == Area(1, <<AA, AA>>, <<>>)
Board == Area(2, <<AA, AA, AA, AA, AA>>, <<>>)
Private == [i \in 1..fruBlockSize |-> 1]
OneRecord == Blank(<<192, 128, 1, 0, 0, 7>>, 8)
TwoRecords == <<192, 0, 1, 0, 0, 7>> \o <<192, 128, 5, 0, 0, 7, 7, 7, 7, 7>>

MCFrus ==
    {Fru(<<>>, Chassis, <<>>, TwoRecords),
     Fru(Private, Chassis, Board, <<>>),
     Fru(<<>>, Area(1, <<AA, AA>>, <<0, EndOfFields>>), <<>>, TwoRecords),
     Fru(<<>>, Chassis, <<>>, OneRecord)}
=============================================================================
