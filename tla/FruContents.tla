----------------------------- MODULE FruContents ------------------------------
(***************************************************************************)
(* Reading a FRU out of an EEPROM: readFRUContents (fru_utils.cpp) follows *)
(* the offsets of the header and the lengths of the areas, through a       *)
(* reader that caches blocks and learns where the EEPROM ends              *)
(* (fru_reader.cpp).  A byte is the position it was read from; `image'     *)
(* gives its value.  The EEPROM may shrink and any access may fail.        *)
(***************************************************************************)
EXTENDS Integers, Sequences, FiniteSets, FiniteSetsExt, SequencesExt

CONSTANTS
    CacheBlock,    \* cacheBlockSize and I2C_SMBUS_BLOCK_MAX: 32
    FruBlock,      \* fruBlockSize: 8
    Areas,         \* how many areas before the multirecords: 4
    RecordHeader,  \* multiRecordHeaderSize: 5
    Limit,         \* beyond every EEPROM: 2^16
    OtherBase,     \* where a "$TYAN$" EEPROM has its header: 0x6000
    Images,        \* the bytes that EEPROMs hold
    Sizes          \* how large they are

ASSUME SizesAssumption == Limit \in Nat /\ Sizes \subseteq 0..Limit - 1
ASSUME BlocksAssumption ==
    /\ Areas \in Nat /\ FruBlock \in Nat /\ CacheBlock \in Nat
    /\ FruBlock > Areas + 1 /\ CacheBlock >= FruBlock /\ CacheBlock \in 3..Limit
    /\ RecordHeader \in Nat /\ RecordHeader >= 3
ASSUME ImagesAssumption ==
    /\ OtherBase \in Nat /\ OtherBase + 3 <= Limit
    /\ \A i \in Images : \A pos \in 0..2 * Limit :
          i[pos] \in Nat /\ i[pos] * FruBlock <= Limit

VARIABLES
    image, eepromSize, shrunk,  \* environment: the EEPROM
    failed,                 \* history: an access to it failed
    storageSize,            \* as the caller passes it, or -1
    cache, eof,             \* FRUReader
    blockData,              \* positions; 0 bytes at first, as position -1
    base, area, prevOffset, offset, fruLength,
    contents,               \* the bytes returned, as positions
    step                    \* where readFRUContents is

reader == <<cache, eof>>
walk == <<base, area, prevOffset, offset, fruLength>>
contentsVars == <<image, eepromSize, shrunk, failed, storageSize, reader, blockData, walk, contents, step>>

ContentsTypeOK ==
    /\ eepromSize \in 0..Limit - 1
    /\ eof \in 0..Limit
    /\ \A blk \in DOMAIN cache : DOMAIN cache[blk] = 0..CacheBlock - 1
    /\ Len(blockData) = CacheBlock
    /\ area \in 1..Areas + 1
    /\ Range(contents) \subseteq -1..Limit
    /\ step \in {"header", "other", "areas", "records", "data", "tail", "done", "empty"}

Byte(pos) == IF pos = -1 THEN 0 ELSE image[pos]

ContentsInit ==
    /\ image \in Images
    /\ eepromSize \in Sizes
    /\ shrunk = FALSE
    /\ failed = FALSE
    /\ storageSize \in {-1, eepromSize}
    /\ cache = <<>>
    /\ eof = Limit
    /\ blockData = [k \in 1..CacheBlock |-> -1]
    /\ base = 0
    /\ area = 1
    /\ prevOffset = 0
    /\ offset = 0
    /\ fruLength = FruBlock
    /\ contents = <<>>
    /\ step = "header"

-----------------------------------------------------------------------------
(* FRUReader::read *)

Lesser(a, b) == IF a <= b THEN a ELSE b
Greater(a, b) == IF a >= b THEN a ELSE b

\* Mutant: the whole of a cached block is there.
WholeBlock(end, blk) == CacheBlock

\* The bytes of a cached block that are not past the end.
Available(end, blk) == IF end \div CacheBlock = blk THEN end % CacheBlock ELSE CacheBlock

\* readFunc: fewer bytes at the EEPROM's end.
ReadFunc(blk) == Lesser(CacheBlock, Greater(0, eepromSize - blk * CacheBlock))

\* In the loop: the bytes so far, what is cached, the end if it is known, whether the loop
\* has been left, and what a failing first access returns.
Reader(out, blocks, end, stop, ret) ==
    [out |-> out, cache |-> blocks, eof |-> end, stop |-> stop, ret |-> ret]

Filled(blocks, blk, ret) ==
    [b \in DOMAIN blocks \cup {blk} |->
        IF b # blk THEN blocks[b]
        ELSE [k \in 0..CacheBlock - 1 |-> IF k < ret THEN blk * CacheBlock + k ELSE -1]]

EndSeen(end, blk, ret) ==
    IF ret \in 0..CacheBlock - 1 THEN blk * CacheBlock + ret ELSE end

Copied(s, blocks, end, blk, start, len) ==
    LET from  == (start + Len(s.out)) % CacheBlock
        count == Greater(0, Lesser(Available(end, blk) - from, len - Len(s.out)))
    IN  Reader(s.out \o [k \in 1..count |-> blocks[blk][from + k - 1]], blocks, end, FALSE, s.ret)

\* One turn of the loop.
ReadBlock(s, blk, start, len, fails) ==
    LET ret == IF fails THEN -1 ELSE ReadFunc(blk)
        end == EndSeen(s.eof, blk, ret)
    IN  IF s.stop \/ start + Len(s.out) >= s.eof
        THEN Reader(s.out, s.cache, s.eof, TRUE, s.ret)
        ELSE IF blk \in DOMAIN s.cache THEN Copied(s, s.cache, s.eof, blk, start, len)
        ELSE IF ret <= 0 THEN Reader(s.out, s.cache, end, TRUE, ret)
        ELSE Copied(s, Filled(s.cache, blk, ret), end, blk, start, len)

Blocks(start, len) == (start + len - 1) \div CacheBlock - start \div CacheBlock + 1

\* A short block leaves the cursor in it, at the end: the next turn stops there.
Read(start, len, fails) ==
    LET after[n \in 0..Blocks(start, len)] ==
            IF n = 0 THEN Reader(<<>>, cache, eof, FALSE, 0)
            ELSE ReadBlock(after[n - 1], start \div CacheBlock + n - 1, start, len, fails)
    IN  after[Blocks(start, len)]

Failed(r) == r.out = <<>> /\ r.ret < 0

\* What was in the buffer stays where the read was short.
Over(buffer, out) ==
    [k \in 1..CacheBlock |-> IF k <= Len(out) THEN out[k] ELSE buffer[k]]

Took(r) == cache' = r.cache /\ eof' = r.eof /\ blockData' = Over(blockData, r.out)

-----------------------------------------------------------------------------
(* readFRUContents *)

Empty == step' = "empty" /\ contents' = <<>>

ValidHeader(buffer) ==
    /\ Byte(buffer[1]) = 1
    /\ \A i, j \in 1..Areas + 1 :
          i # j /\ Byte(buffer[i + 1]) = Byte(buffer[j + 1]) => Byte(buffer[i + 1]) = 0

At(off) == base + off

\* findFRUHeader, at 0 or where a maker's magic at 0 points.  Each call has a
\* buffer of its own.
FindHeader(fails) ==
    LET r      == Read(base, FruBlock, fails)
        buffer == Over([k \in 1..CacheBlock |-> -1], r.out)
    IN  /\ step \in {"header", "other"}
        /\ cache' = r.cache /\ eof' = r.eof /\ blockData' = buffer
        /\ IF Failed(r) THEN Empty /\ UNCHANGED base
           ELSE IF ValidHeader(buffer)
           THEN step' = "areas" /\ contents' = SubSeq(buffer, 1, FruBlock) /\ UNCHANGED base
           ELSE IF step = "header" /\ Byte(buffer[1]) = 2
           THEN step' = "other" /\ base' = OtherBase /\ UNCHANGED contents
           ELSE Empty /\ UNCHANGED base
        /\ UNCHANGED <<area, prevOffset, offset, fruLength>>

Extended(end) == Greater(end, fruLength)

IsMultirecord(a) == a > Areas

\* An area: offsets must increase.
WalkAreas(fails) ==
    LET start == Byte(contents[area + 1])
        r     == Read(At(start * FruBlock), 2, fails)
        end   == (start + Byte(blockData'[2])) * FruBlock
    IN  /\ step = "areas"
        /\ IF start = 0 THEN
              /\ area' = IF IsMultirecord(area) THEN area ELSE area + 1
              /\ step' = IF IsMultirecord(area) THEN "data" ELSE step
              /\ UNCHANGED <<reader, blockData, base, prevOffset, offset, fruLength, contents>>
           ELSE IF start <= prevOffset THEN
              Empty /\ UNCHANGED <<reader, blockData, walk>>
           ELSE IF IsMultirecord(area) THEN
              /\ step' = "records"
              /\ offset' = start * FruBlock
              /\ UNCHANGED <<reader, blockData, base, area, prevOffset, fruLength, contents>>
           ELSE
              /\ Took(r)
              /\ prevOffset' = start
              /\ IF Failed(r) THEN Empty /\ UNCHANGED <<area, fruLength>>
                 ELSE /\ fruLength' = Extended(end)
                      /\ area' = area + 1
                      /\ UNCHANGED <<step, contents>>
              /\ UNCHANGED <<base, offset>>

\* The multirecords: [type, end of list, length, ...] each.
WalkRecords(fails) ==
    LET r   == Read(At(offset), 3, fails)
        end == offset + Byte(blockData'[3]) + RecordHeader
    IN  /\ step = "records"
        /\ Took(r)
        /\ IF Failed(r) THEN Empty /\ UNCHANGED <<offset, fruLength>>
           ELSE /\ offset' = end
                /\ fruLength' = Extended(end)
                /\ step' = IF Byte(blockData'[2]) = 1 \/ end >= Limit - 1 THEN "data" ELSE step
                /\ UNCHANGED contents
        /\ UNCHANGED <<base, area, prevOffset>>

\* The rest of the FRU, in chunks.
ReadChunk(fails) ==
    LET request == Lesser(CacheBlock, fruLength - Len(contents))
        r       == Read(At(Len(contents)), request, fails)
    IN  /\ step = "data"
        /\ IF fruLength = Len(contents) THEN
              step' = "tail" /\ UNCHANGED <<reader, blockData, contents>>
           ELSE
              /\ Took(r)
              /\ IF Failed(r) THEN Empty
                 ELSE contents' = contents \o SubSeq(blockData', 1, request) /\ UNCHANGED step
        /\ UNCHANGED walk

\* What the file has behind the FRU is kept, if the caller knows its size.
ReadTail(fails) ==
    LET available == storageSize - base
        remaining == available - Len(contents)
        r         == Read(At(Len(contents)), remaining, fails)
    IN  /\ step = "tail"
        /\ UNCHANGED <<blockData, walk>>
        /\ IF storageSize = -1 \/ remaining = 0
           THEN step' = "done" /\ UNCHANGED <<reader, contents>>
           ELSE IF available < 0 \/ remaining < 0 THEN Empty /\ UNCHANGED reader
           ELSE /\ cache' = r.cache /\ eof' = r.eof
                /\ IF Len(r.out) # remaining THEN Empty
                   ELSE step' = "done" /\ contents' = contents \o r.out

Shrink ==
    /\ ~shrunk
    /\ shrunk' = TRUE
    /\ eepromSize' \in {n \in Sizes : n < eepromSize}
    /\ UNCHANGED <<image, failed, storageSize, reader, blockData, walk, contents, step>>

ContentsNext ==
    \/ \E fails \in BOOLEAN :
          /\ FindHeader(fails) \/ WalkAreas(fails) \/ WalkRecords(fails)
                \/ ReadChunk(fails) \/ ReadTail(fails)
          /\ failed' = (failed \/ fails)
          /\ UNCHANGED <<image, eepromSize, shrunk, storageSize>>
    \/ Shrink

ContentsSpec == ContentsInit /\ [][ContentsNext]_contentsVars

-----------------------------------------------------------------------------
(* Properties. *)

\* The reference: how long the FRU is, by its header, areas and records.
HeaderBase == IF Byte(0) = 2 THEN OtherBase ELSE 0
RecordEnd(from) == from + Byte(HeaderBase + from + 2) + RecordHeader
IsLast(from) == Byte(HeaderBase + from + 1) = 1 \/ RecordEnd(from) >= Limit - 1
RecordsEnd[from \in 0..Limit] ==
    IF IsLast(from) THEN RecordEnd(from) ELSE RecordsEnd[RecordEnd(from)]
Start(a) == Byte(HeaderBase + a)
Present == {a \in 1..Areas + 1 : Start(a) # 0}
AreaEnd(a) == (Start(a) + Byte(HeaderBase + Start(a) * FruBlock + 1)) * FruBlock
End(a) == IF a > Areas THEN RecordsEnd[Start(a) * FruBlock] ELSE AreaEnd(a)
ClaimedLength == Max({FruBlock} \cup {End(a) : a \in Present})

\* The EEPROM holds the FRU, each area's first bytes included.
Fits == /\ HeaderBase + ClaimedLength <= eepromSize
        /\ \A a \in Present : HeaderBase + Start(a) * FruBlock + 2 <= eepromSize

\* A FRU the EEPROM holds in full is returned byte for byte if no access fails,
\* and with what is behind it if the EEPROM's size is known.
FittingIsExact ==
    step = "done" /\ ~failed /\ Fits =>
        /\ contents = [k \in 1..Len(contents) |-> HeaderBase + k - 1]
        /\ Len(contents) = IF storageSize = -1 THEN ClaimedLength ELSE storageSize - HeaderBase

=============================================================================
