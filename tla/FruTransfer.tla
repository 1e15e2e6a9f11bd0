----------------------------- MODULE FruTransfer ------------------------------
(***************************************************************************)
(* How fru-device writes a FRU to an EEPROM without a driver, byte by      *)
(* byte, and which cells it reads it back from (writeFRU, readData): it    *)
(* first finds out whether the EEPROM takes one or two address bytes, then *)
(* writes every byte with retries.  A 4K EEPROM with one address byte has  *)
(* its second half at the next device address.                             *)
(***************************************************************************)
EXTENDS Integers, Sequences, FiniteSets

CONSTANTS
    Page,       \* maxEepromPageIndex + 1: 256
    MaxFruSize, \* 512
    RetryMax,   \* 2
    Modes,      \* FRU_DEVICE_16BITDETECTMODE, an option of the build
    Looked,     \* how many bytes the detection looks at: 8
    Kinds       \* EEPROMs: how many address bytes, how it reads

ASSUME SizeAssumption == /\ Page \in Nat \ {0} /\ Looked \in 2..Page
                         /\ MaxFruSize \in Page..2 * Page
ASSUME RetryAssumption == RetryMax \in Nat
ASSUME ModeAssumption == Modes \subseteq {"MODE_1", "MODE_2"}
ASSUME KindsAssumption ==
    Kinds \subseteq [bytes : {1, 2}, advances : BOOLEAN, flat : BOOLEAN, next : BOOLEAN]

VARIABLES
    mode,     \* the mode it was built with
    kind,     \* the EEPROM: its address bytes; whether a one byte read moves on
              \* in it; whether its first bytes are all the same; whether
              \* another device address follows, its own or another's
    size,     \* the FRU's size
    cell,     \* <<device address, offset>> -> the FRU's byte there, or -1
    is16Bit, address, index, retries,
    status    \* "detect", "write", "done", "failed" or "error" (an exception)

transferVars == <<mode, kind, size, cell, is16Bit, address, index, retries, status>>

Cells == {0, 1} \X (0..MaxFruSize)

TransferTypeOK ==
    /\ mode \in Modes
    /\ kind \in Kinds
    /\ size \in 1..MaxFruSize
    /\ cell \in [Cells -> -1..MaxFruSize]
    /\ is16Bit \in BOOLEAN
    /\ address \in {0, 1}
    /\ index \in 0..size
    /\ retries \in 0..RetryMax
    /\ status \in {"detect", "write", "done", "failed", "error"}

TransferInit ==
    /\ mode \in Modes
    /\ kind \in Kinds
    /\ size \in 1..MaxFruSize
    /\ cell = [c \in Cells |-> -1]
    /\ is16Bit = FALSE
    /\ address = 0
    /\ index = 0
    /\ retries = RetryMax
    /\ status = "detect"

-----------------------------------------------------------------------------
(* Detection: the offsets that are read, and whether their bytes differ. *)

\* Mutant: one read is enough.
OneOffset == {0}

\* isDevice16BitMode1: reads of one address byte, 0; where two are expected the
\* EEPROM moves on from its last address, or does not.
Mode1Offsets == IF kind.bytes = 2 /\ kind.advances THEN 0..Looked - 1 ELSE {0}

\* isDevice16BitMode2: writes of 0 and i, without a stop, each before a read.
Mode2Offsets == IF kind.bytes = 2 THEN 0..Looked - 1 ELSE {0}

\* isDevice16Bit.
IsDevice16Bit ==
    LET offsets == IF mode = "MODE_2" THEN Mode2Offsets ELSE Mode1Offsets
    IN  Cardinality(offsets) > 1 /\ ~kind.flat

Detect ==
    /\ status = "detect"
    /\ is16Bit' = IsDevice16Bit
    /\ status' = "write"
    /\ UNCHANGED <<mode, kind, size, cell, address, index, retries>>

DetectFails ==
    /\ status = "detect"
    /\ status' = "failed"
    /\ UNCHANGED <<mode, kind, size, cell, is16Bit, address, index, retries>>

-----------------------------------------------------------------------------
(* Writing. *)

\* Mutant: the address moves on with every try.
EveryTry(i, tries) == i # 0 /\ i % Page = 0

\* A new page: the device address moves on, once.
NewPage(i, tries) == i # 0 /\ i % Page = 0 /\ tries = RetryMax

Address == IF NewPage(index, retries) THEN address + 1 ELSE address

\* Mutant: the index is counted from 1.
WrittenBehind(i) ==
    IF kind.bytes = 2 THEN (IF is16Bit THEN {<<Address, i + 1>>} ELSE {})
    ELSE {<<Address, (i + 1) % Page>>}

\* writeFruByteData: the cells that change.  With one address byte sent to an
\* EEPROM that takes two, the second byte is taken for an address, not data.
WrittenCells(i) ==
    IF kind.bytes = 2 THEN (IF is16Bit THEN {<<Address, i>>} ELSE {})
    ELSE {<<Address, i % Page>>}

WriteByte ==
    /\ status = "write"
    /\ index < size
    /\ Address = 0 \/ kind.next
    /\ cell' = [c \in Cells |-> IF c \in WrittenCells(index) THEN index ELSE cell[c]]
    /\ address' = Address
    /\ index' = index + 1
    /\ retries' = RetryMax
    /\ UNCHANGED <<mode, kind, size, is16Bit, status>>

WriteFails ==
    /\ status = "write"
    /\ index < size
    /\ address' = Address
    /\ IF retries = 0
       THEN status' = "error" /\ retries' = retries
       ELSE status' = status /\ retries' = retries - 1
    /\ UNCHANGED <<mode, kind, size, cell, is16Bit, index>>

Finish ==
    /\ status = "write"
    /\ index = size
    /\ status' = "done"
    /\ UNCHANGED <<mode, kind, size, cell, is16Bit, address, index, retries>>

TransferNext == Detect \/ DetectFails \/ WriteByte \/ WriteFails \/ Finish

TransferSpec == TransferInit /\ [][TransferNext]_transferVars

\* readData: the byte read at an offset, after the same detection.
ReadData(i) ==
    IF is16Bit THEN cell[<<0, i>>]
    ELSE IF kind.bytes = 1 THEN cell[<<0, i % Page>>]
    ELSE -1

-----------------------------------------------------------------------------
(* Properties. *)

\* Either mode tells the address bytes of an EEPROM whose first bytes differ,
\* MODE_1 only if the EEPROM moves on between reads
\* (docs/address_size_detection_modes.md).
DetectionIsRight ==
    status = "write" /\ ~kind.flat /\ (mode = "MODE_2" \/ kind.advances)
        => is16Bit = (kind.bytes = 2)

\* The bytes of a FRU that was written end up in the order of the cells of a 4K
\* EEPROM, both pages of it and however many tries a byte took; at no time is a
\* byte written that is not there, or one beyond the index reached.
PagesInOrder ==
    kind.bytes = 1 /\ kind.next =>
        \A i \in 0..size - 1 : cell[<<i \div Page, i % Page>>] = IF i < index THEN i ELSE -1

\* A FRU of at most a page is read back as it was written, if the detection was
\* right.
PageReadsBack ==
    status = "done" /\ size <= Page /\ is16Bit = (kind.bytes = 2) =>
        \A i \in 0..size - 1 : ReadData(i) = i
=============================================================================
