----------------------------- MODULE SettingsProof -----------------------------
(***************************************************************************)
(* What becomes of what clients set.  Of the saved inventory, for any      *)
(* records, any boards and any number of calls and faults: an interface    *)
(* always reaches JSON of its own, so that what is set through it is saved *)
(* where it is looked for, and a saved record comes back as it was.  Of a  *)
(* FRU, for any EEPROM, fields and number of updates: what was written     *)
(* whole is read back without a fault.                                     *)
(***************************************************************************)
EXTENDS Persistence, FruUpdate, QueueLemmas

-----------------------------------------------------------------------------
(* The inductive invariant. *)

\* A process that is not there has nothing.
Down ==
    ~up => /\ systemConfiguration = <<>> /\ lastJson = <<>> /\ saved = <<>>
           /\ ifaces = {} /\ newConfiguration = {}
           /\ posted = <<>> /\ saving = "no" /\ ~failed

\* Where an interface reaches, there is what it was made for.
Reaches(i, json) ==
    /\ i.record \in DOMAIN json
    /\ LET exposes == json[i.record].exposes
       IN  CASE i.kind = "board" -> i.slot = 0 /\ i.part = 0 /\ i.reaches = "itself"
             [] i.kind = "item"  -> /\ i.slot \in DOMAIN exposes
                                    /\ exposes[i.slot] # Null
                                    /\ i.part = 0
                                    /\ i.reaches = "itself" => exposes[i.slot].parts = <<>>
             [] i.kind = "part"  -> /\ i.slot \in DOMAIN exposes
                                    /\ exposes[i.slot] # Null
                                    /\ i.part \in DOMAIN exposes[i.slot].parts
                                    /\ i.reaches = "itself"

\* A published interface reaches its JSON, and one that can set it shows it.
Seated ==
    \A i \in ifaces :
        /\ i.record \notin newConfiguration
        /\ Reaches(i, systemConfiguration)
        /\ i.reaches = "itself" => Stands(i, systemConfiguration)

\* No two interfaces are for the same element or part.
Apart ==
    \A i, j \in ifaces :
        <<i.record, i.kind, i.slot, i.part>> = <<j.record, j.kind, j.slot, j.part>>
            => i = j

\* The records to publish are configured.
Awaiting == newConfiguration \subseteq DOMAIN systemConfiguration

\* What is in the file once nothing is to be written.
OnDisk ==
    /\ saving = "renamed" => current = systemConfiguration
    /\ up /\ saving = "no" /\ posted \in {<<>>, <<"publish">>} /\ ~failed =>
          \/ ifaces = {} /\ systemConfiguration = <<>>
          \/ current = systemConfiguration /\ afterLoss = {current}

Files == afterLoss \cup {current}

\* A record this process has saved is in every file there may be.
Kept ==
    /\ DOMAIN saved \subseteq DOMAIN systemConfiguration
    /\ \A r \in DOMAIN saved : \A f \in Files :
          /\ IsJson(f) /\ r \in DOMAIN f
          /\ \/ f[r] \in saved[r]
             \/ saving = "renamed" /\ f[r] = systemConfiguration[r]

\* A record an earlier process had saved is there as that process left it: in the
\* file, and then in what was read from it.
Was ==
    \A r \in DOMAIN was \ excused :
        /\ ~up /\ ~upgraded =>
              \A f \in Files : IsJson(f) /\ r \in DOMAIN f /\ f[r] \in was[r]
        /\ up => \/ r \in DOMAIN systemConfiguration
                 \/ r \in DOMAIN lastJson /\ lastJson[r] \in was[r]

\* Only a process that is not there is given new firmware.
NotUpgraded == up => ~upgraded

PersistInv ==
    /\ TypeOK /\ Down /\ NeverBroken
    /\ Seated /\ Apart /\ Awaiting
    /\ OnDisk
    /\ Kept /\ Was /\ NotUpgraded

-----------------------------------------------------------------------------
(* JSON. *)

\* Elements that are null taken away, a board is a board.
LEMMA PruneIsBoard ==
    ASSUME NEW board \in Board
    PROVE  pruneRecordExposes(board) \in Board
<1> DEFINE exposes == board.exposes
           kept == {s \in DOMAIN exposes : exposes[s] # Null}
           nth(k) == CHOOSE s \in kept : Cardinality({t \in kept : t <= s}) = k
           pruned == [k \in 1..Cardinality(kept) |-> exposes[nth(k)]]
<1>1. exposes \in Seq(Item \cup {Null})
  BY DEF Board
<1>2. PICK n \in Nat : DOMAIN exposes = 1..n
  <2>1. Len(exposes) \in Nat /\ DOMAIN exposes = 1..Len(exposes)
    BY <1>1, LenProperties
  <2>2. QED
    BY <2>1
<1>3. kept \in SUBSET (1..n)
  BY <1>2
<1>4. Cardinality(kept) \in Nat
  <2>1. IsFiniteSet(1..n)
    BY FS_Interval
  <2>2. IsFiniteSet(kept)
    BY <1>3, <2>1, FS_Subset
  <2>3. QED
    BY <2>2, FS_CardinalityType
<1>5. \A k \in 1..Cardinality(kept) : nth(k) \in DOMAIN exposes
  <2>1. ASSUME NEW k \in 1..Cardinality(kept)
        PROVE  \E s \in kept : Cardinality({t \in kept : t <= s}) = k
    <3> HIDE DEF kept
    <3>1. QED
      BY <1>2, <1>3, NthPlace
  <2>2. QED
    BY <2>1
<1>6. \A k \in 1..Cardinality(kept) : exposes[nth(k)] \in Item \cup {Null}
  BY <1>1, <1>5, ElementOfSeq, LenProperties
<1>7. pruned \in Seq(Item \cup {Null})
  <2> HIDE DEF nth, kept
  <2>1. pruned \in [1..Cardinality(kept) -> Item \cup {Null}]
    BY <1>6
  <2>2. QED
    BY <1>4, <2>1, IsASeq
<1>8. pruneRecordExposes(board) = [board EXCEPT !.exposes = pruned]
  BY DEF pruneRecordExposes
<1>9. QED
  <2> HIDE DEF pruned
  <2>1. QED
    BY <1>7, <1>8 DEF Board

\* A new element always has a place: that of a null, or the one behind the last.
LEMMA FreeSlotIs ==
    ASSUME NEW exposes \in Seq(Item \cup {Null})
    PROVE  /\ FreeSlot(exposes) \in 1..Len(exposes) + 1
           /\ FreeSlot(exposes) <= Len(exposes) => exposes[FreeSlot(exposes)] = Null
<1> DEFINE T == {s \in 1..Len(exposes) + 1 : s <= Len(exposes) => exposes[s] = Null}
           P(s) == /\ s <= Len(exposes) => exposes[s] = Null
                   /\ \A i \in 1..s - 1 : exposes[i] # Null
<1>1. Len(exposes) \in Nat
  BY LenProperties
<1>2. Len(exposes) + 1 \in T
  BY <1>1
<1>3. T \in SUBSET Nat /\ T # {}
  BY <1>1, <1>2
<1>4. PICK s \in T : \A t \in T : s <= t
  <2> HIDE DEF T
  <2>1. QED
    BY <1>3, LeastNatural
<1>5. s \in 1..Len(exposes) + 1 /\ (s <= Len(exposes) => exposes[s] = Null)
  OBVIOUS
<1>6. ASSUME NEW i \in 1..s - 1 PROVE exposes[i] # Null
  <2>1. i \in 1..Len(exposes) + 1 /\ ~(s <= i)
    BY <1>1, <1>5
  <2>2. i \notin T
    BY <1>4, <2>1
  <2>3. QED
    BY <2>1, <2>2
<1>7. \E u \in 1..Len(exposes) + 1 : P(u)
  BY <1>5, <1>6
<1>8. FreeSlot(exposes) = CHOOSE u \in 1..Len(exposes) + 1 : P(u)
  BY DEF FreeSlot
<1> HIDE DEF P
<1>9. FreeSlot(exposes) \in 1..Len(exposes) + 1 /\ P(FreeSlot(exposes))
  BY <1>7, <1>8
<1>10. QED
  BY <1>9 DEF P

\* An object with one board put in place of another is an object.
LEMMA PutBoard ==
    ASSUME NEW json, IsJson(json), NEW r \in DOMAIN json, NEW b \in Board
    PROVE  LET new == [json EXCEPT ![r] = b]
           IN  /\ IsJson(new)
               /\ DOMAIN new = DOMAIN json
               /\ new[r] = b
               /\ \A q \in DOMAIN json : q # r => new[q] = json[q]
BY DEF IsJson

\* What is in an object.
LEMMA JsonIs ==
    ASSUME NEW json, IsJson(json)
    PROVE  /\ DOMAIN json \subseteq Record
           /\ \A r \in DOMAIN json : json[r] \in Board
           /\ json = [r \in DOMAIN json |-> json[r]]
BY DEF IsJson

LEMMA NoJson == IsJson(<<>>) /\ DOMAIN <<>> = {} /\ ~IsJson(Absent) /\ ~IsJson(Broken)
<1>1. <<>> \in [{} -> Board]
  OBVIOUS
<1>2. QED
  BY <1>1, FileAssumption DEF IsJson

LEMMA NoHistory == IsHistory(<<>>)
<1>1. <<>> \in [{} -> SUBSET Board]
  OBVIOUS
<1>2. QED
  BY <1>1 DEF IsHistory

-----------------------------------------------------------------------------
(* Calls. *)

\* A call changes one board, and starts a write: what is on D-Bus has to be seen to,
\* the rest follows.
LEMMA CallStep ==
    ASSUME PersistInv, Free, Spend,
           NEW r \in DOMAIN systemConfiguration, NEW b \in Board,
           systemConfiguration' = [systemConfiguration EXCEPT ![r] = b],
           saving' = "begun",
           UNCHANGED <<up, lastJson, posted, newConfiguration, files, upgraded, history>>,
           ifaces' \subseteq Iface, Seated', Apart'
    PROVE  PersistInv'
<1>1. /\ IsJson(systemConfiguration')
      /\ DOMAIN systemConfiguration' = DOMAIN systemConfiguration
  BY PutBoard DEF PersistInv, TypeOK
<1>2. TypeOK'
  BY <1>1, BoundAssumption DEF PersistInv, TypeOK, Spend, files, history
<1>3. Down'
  BY DEF Down, Free
<1>4. NeverBroken' /\ Awaiting' /\ NotUpgraded' /\ OnDisk'
  BY <1>1 DEF PersistInv, NeverBroken, Awaiting, NotUpgraded, OnDisk, files
<1>5. Kept'
  BY <1>1 DEF PersistInv, Kept, Files, files, history, Free
<1>6. Was'
  BY <1>1 DEF PersistInv, Was, Files, files, history, Free
<1>7. QED
  BY <1>2, <1>3, <1>4, <1>5, <1>6 DEF PersistInv

\* What an interface reaches is typed.
LEMMA ReachedIs ==
    ASSUME PersistInv, NEW i \in ifaces
    PROVE  /\ i \in Iface
           /\ i.record \in DOMAIN systemConfiguration
           /\ systemConfiguration[i.record] \in Board
           /\ systemConfiguration[i.record].exposes \in Seq(Item \cup {Null})
           /\ i.kind # "board" =>
                 LET item == systemConfiguration[i.record].exposes[i.slot]
                 IN  /\ i.slot \in DOMAIN systemConfiguration[i.record].exposes
                     /\ item \in Item
                     /\ item.parts \in Seq(Value \cup {Null})
<1> DEFINE board == systemConfiguration[i.record]
<1>1. i \in Iface /\ Reaches(i, systemConfiguration)
  BY DEF PersistInv, TypeOK, Seated
<1>2. i.record \in DOMAIN systemConfiguration
  BY <1>1 DEF Reaches
<1>3. board \in Board
  BY <1>2, JsonIs DEF PersistInv, TypeOK
<1>4. board.exposes \in Seq(Item \cup {Null})
  BY <1>3 DEF Board
<1>5. ASSUME i.kind # "board"
      PROVE  /\ i.slot \in DOMAIN board.exposes
             /\ board.exposes[i.slot] \in Item
             /\ board.exposes[i.slot].parts \in Seq(Value \cup {Null})
  <2>1. i.kind = "item" \/ i.kind = "part"
    BY <1>1, <1>5 DEF Iface
  <2>2. i.slot \in DOMAIN board.exposes /\ board.exposes[i.slot] # Null
    BY <1>1, <2>1 DEF Reaches
  <2>3. board.exposes[i.slot] \in Item
    BY <1>4, <2>2, ElementOfSeq, LenProperties
  <2>4. QED
    BY <2>2, <2>3 DEF Item
<1>6. QED
  BY <1>1, <1>2, <1>3, <1>4, <1>5

\* The board with one element of it replaced.
LEMMA PutItem ==
    ASSUME NEW board \in Board, NEW s \in DOMAIN board.exposes,
           NEW x \in Item \cup {Null}
    PROVE  LET new == [board EXCEPT !.exposes[s] = x]
           IN  /\ new \in Board
               /\ new.asset = board.asset
               /\ DOMAIN new.exposes = DOMAIN board.exposes
               /\ new.exposes[s] = x
               /\ \A t \in DOMAIN board.exposes : t # s => new.exposes[t] = board.exposes[t]
<1>1. board.exposes \in Seq(Item \cup {Null})
  BY DEF Board
<1>2. s \in 1..Len(board.exposes)
  BY <1>1, LenProperties
<1>3. [board.exposes EXCEPT ![s] = x] \in Seq(Item \cup {Null})
  BY <1>1, <1>2, ExceptSeq
<1>4. QED
  BY <1>3 DEF Board

\* A board changes, and nothing of what an interface on it shows.
Untouched(j, old, new) ==
    /\ j.kind = "board" => new.asset = old.asset
    /\ j.kind # "board" =>
          /\ j.slot \in DOMAIN new.exposes
          /\ new.exposes[j.slot] # Null
          /\ new.exposes[j.slot].key = old.exposes[j.slot].key
    /\ j.kind = "item" /\ j.reaches = "itself" =>
          /\ new.exposes[j.slot].value = old.exposes[j.slot].value
          /\ new.exposes[j.slot].parts = old.exposes[j.slot].parts
    /\ j.kind = "part" =>
          /\ DOMAIN new.exposes[j.slot].parts = DOMAIN old.exposes[j.slot].parts
          /\ new.exposes[j.slot].parts[j.part] = old.exposes[j.slot].parts[j.part]

LEMMA StaysSeated ==
    ASSUME PersistInv,
           NEW r \in DOMAIN systemConfiguration, NEW b \in Board,
           systemConfiguration' = [systemConfiguration EXCEPT ![r] = b],
           NEW j \in ifaces,
           j.record = r => Untouched(j, systemConfiguration[r], b)
    PROVE  /\ Reaches(j, systemConfiguration')
           /\ j.reaches = "itself" => Stands(j, systemConfiguration')
<1> DEFINE board == systemConfiguration[j.record]
           after == systemConfiguration'[j.record]
<1>1. /\ DOMAIN systemConfiguration' = DOMAIN systemConfiguration
      /\ systemConfiguration'[r] = b
      /\ \A q \in DOMAIN systemConfiguration : q # r =>
            systemConfiguration'[q] = systemConfiguration[q]
  BY PutBoard DEF PersistInv, TypeOK
<1>2. /\ j \in Iface /\ j.record \in DOMAIN systemConfiguration
      /\ Reaches(j, systemConfiguration)
      /\ j.reaches = "itself" => Stands(j, systemConfiguration)
  BY ReachedIs DEF PersistInv, Seated
<1>3. CASE j.record # r
  BY <1>1, <1>2, <1>3 DEF Reaches, Stands
<1>4. CASE j.record = r
  <2>1. after = b /\ board = systemConfiguration[r] /\ j.record \in DOMAIN systemConfiguration'
    BY <1>1, <1>2, <1>4
  <2>2. Untouched(j, board, after)
    BY <1>4, <2>1
  <2>3. CASE j.kind = "board"
    BY <1>2, <2>1, <2>2, <2>3 DEF Reaches, Stands, Untouched
  <2>4. CASE j.kind = "item"
    <3>1. j.slot \in DOMAIN after.exposes /\ after.exposes[j.slot] # Null /\ j.part = 0
      BY <1>2, <2>2, <2>4 DEF Reaches, Untouched
    <3>2. ASSUME j.reaches = "itself"
          PROVE  /\ after.exposes[j.slot].parts = <<>>
                 /\ after.exposes[j.slot].key = j.key
                 /\ after.exposes[j.slot].value = j.shown
      BY <1>2, <2>2, <2>4, <3>2 DEF Reaches, Stands, Untouched
    <3>3. QED
      BY <2>1, <2>4, <3>1, <3>2 DEF Reaches, Stands
  <2>5. CASE j.kind = "part"
    <3>1. /\ j.slot \in DOMAIN after.exposes /\ after.exposes[j.slot] # Null
          /\ j.part \in DOMAIN after.exposes[j.slot].parts
          /\ j.reaches = "itself"
      BY <1>2, <2>2, <2>5 DEF Reaches, Untouched
    <3>2. after.exposes[j.slot].parts[j.part] = j.shown
      BY <1>2, <2>2, <2>5, <3>1 DEF Stands, Untouched
    <3>3. QED
      BY <2>1, <2>5, <3>1, <3>2 DEF Reaches, Stands
  <2>6. QED
    BY <1>2, <2>3, <2>4, <2>5 DEF Iface
<1>5. QED
  BY <1>3, <1>4

\* Another interface on the board is for another place of it.
LEMMA Elsewhere ==
    ASSUME PersistInv, NEW i \in ifaces, NEW j \in ifaces, i # j,
           i.record = j.record, i.kind = j.kind
    PROVE  /\ i.kind # "board"
           /\ i.kind = "item" => i.slot # j.slot
           /\ i.kind = "part" => i.slot # j.slot \/ i.part # j.part
<1>1. <<i.record, i.kind, i.slot, i.part>> # <<j.record, j.kind, j.slot, j.part>>
  BY DEF PersistInv, Apart
<1>2. i.slot # j.slot \/ i.part # j.part
  BY <1>1
<1>3. i.kind = "board" => i.slot = 0 /\ i.part = 0 /\ j.slot = 0 /\ j.part = 0
  BY DEF PersistInv, Seated, Reaches
<1>4. i.kind = "item" => i.part = 0 /\ j.part = 0
  BY DEF PersistInv, Seated, Reaches
<1>5. QED
  BY <1>2, <1>3, <1>4

\* One part changes: what any other interface shows stands.
LEMMA PutPart ==
    ASSUME PersistInv, NEW i \in ifaces, i.kind = "part", NEW w \in Value \cup {Null}
    PROVE  LET board == systemConfiguration[i.record]
               b == [board EXCEPT !.exposes[i.slot].parts[i.part] = w]
           IN  /\ b \in Board
               /\ \A j \in ifaces : j # i /\ j.record = i.record => Untouched(j, board, b)
               /\ DOMAIN b.exposes = DOMAIN board.exposes
               /\ b.exposes[i.slot] # Null
               /\ DOMAIN b.exposes[i.slot].parts = DOMAIN board.exposes[i.slot].parts
               /\ b.exposes[i.slot].parts[i.part] = w
<1> DEFINE board == systemConfiguration[i.record]
           old == board.exposes[i.slot]
           parts == [old.parts EXCEPT ![i.part] = w]
           x == [old EXCEPT !.parts = parts]
           b == [board EXCEPT !.exposes[i.slot] = x]
<1>1. /\ i \in Iface /\ board \in Board
      /\ i.slot \in DOMAIN board.exposes /\ old \in Item /\ old.parts \in Seq(Value \cup {Null})
  BY ReachedIs
<1>2. \A j \in ifaces : j.record = i.record =>
         /\ j \in Iface /\ Reaches(j, systemConfiguration)
         /\ j.kind # "board" => j.slot \in DOMAIN board.exposes /\ board.exposes[j.slot] # Null
  BY ReachedIs DEF PersistInv, Seated, Reaches, Iface
<1>3. i.part \in DOMAIN old.parts
  BY <1>2 DEF Reaches
<1>4. parts \in Seq(Value \cup {Null})
  <2>1. i.part \in 1..Len(old.parts)
    BY <1>1, <1>3, LenProperties
  <2> HIDE DEF old
  <2>2. QED
    BY <1>1, <2>1, ExceptSeq
<1>5. /\ DOMAIN parts = DOMAIN old.parts /\ parts[i.part] = w
      /\ \A k \in DOMAIN old.parts : k # i.part => parts[k] = old.parts[k]
  BY <1>3
<1>6. x \in Item /\ x # Null /\ x.key = old.key /\ x.parts = parts
  <2> HIDE DEF parts
  <2>1. QED
    BY <1>1, <1>4, NullAssumption DEF Item
<1>7. /\ b \in Board /\ b.asset = board.asset
      /\ DOMAIN b.exposes = DOMAIN board.exposes
      /\ b.exposes[i.slot] = x
      /\ \A t \in DOMAIN board.exposes : t # i.slot => b.exposes[t] = board.exposes[t]
  <2> HIDE DEF x, board
  <2>1. QED
    BY <1>1, <1>6, PutItem
<1>8. ASSUME NEW j \in ifaces, j # i, j.record = i.record PROVE Untouched(j, board, b)
  <2>1. j.kind = "part" => j.slot # i.slot \/ j.part # i.part
    BY <1>8, Elsewhere
  <2>2. CASE j.kind = "board"
    BY <1>7, <2>2 DEF Untouched
  <2>3. CASE j.kind # "board" /\ j.slot # i.slot
    BY <1>2, <1>7, <1>8, <2>3 DEF Untouched
  <2>4. CASE j.kind = "item" /\ j.slot = i.slot
    <3>1. ASSUME j.reaches = "itself" PROVE FALSE
      <4>1. old.parts = <<>>
        BY <1>2, <1>8, <2>4, <3>1 DEF Reaches
      <4>2. QED
        BY <1>3, <4>1
    <3>2. QED
      BY <1>2, <1>6, <1>7, <1>8, <2>4, <3>1 DEF Untouched
  <2>5. CASE j.kind = "part" /\ j.slot = i.slot
    <3>1. j.part \in DOMAIN old.parts
      BY <1>2, <1>8, <2>5 DEF Reaches
    <3>2. parts[j.part] = old.parts[j.part]
      BY <1>5, <2>1, <2>5, <3>1
    <3>3. /\ b.exposes[j.slot] = x /\ board.exposes[j.slot] = old
          /\ j.slot \in DOMAIN b.exposes
      BY <1>2, <1>7, <1>8, <2>5
    <3> HIDE DEF b, board, old, x, parts
    <3>4. QED
      BY <1>5, <1>6, <2>5, <3>2, <3>3 DEF Untouched
  <2>6. QED
    BY <1>2, <1>8, <2>2, <2>3, <2>4, <2>5 DEF Iface
<1>9. [board EXCEPT !.exposes[i.slot].parts[i.part] = w] = b
  OBVIOUS
<1> HIDE DEF b, board, x, parts, old
<1>10. QED
  BY <1>5, <1>6, <1>7, <1>8, <1>9 DEF board, old

\* An element changes, not in its key or its parts.
LEMMA PutElement ==
    ASSUME PersistInv, NEW i \in ifaces, i.kind = "item",
           NEW x \in Item,
           x.key = systemConfiguration[i.record].exposes[i.slot].key,
           x.parts = systemConfiguration[i.record].exposes[i.slot].parts
    PROVE  LET board == systemConfiguration[i.record]
               b == [board EXCEPT !.exposes[i.slot] = x]
           IN  /\ b \in Board
               /\ \A j \in ifaces : j # i /\ j.record = i.record => Untouched(j, board, b)
               /\ DOMAIN b.exposes = DOMAIN board.exposes
               /\ b.exposes[i.slot] = x
<1> DEFINE board == systemConfiguration[i.record]
           old == board.exposes[i.slot]
           b == [board EXCEPT !.exposes[i.slot] = x]
<1>1. board \in Board /\ i.slot \in DOMAIN board.exposes
  BY ReachedIs
<1>2. \A j \in ifaces : j.record = i.record =>
         /\ j \in Iface
         /\ j.kind # "board" => j.slot \in DOMAIN board.exposes /\ board.exposes[j.slot] # Null
  BY ReachedIs DEF PersistInv, Seated, Reaches, Iface
<1>3. /\ b \in Board /\ b.asset = board.asset
      /\ DOMAIN b.exposes = DOMAIN board.exposes
      /\ b.exposes[i.slot] = x
      /\ \A t \in DOMAIN board.exposes : t # i.slot => b.exposes[t] = board.exposes[t]
  <2> HIDE DEF board
  <2>1. QED
    BY <1>1, PutItem
<1>4. x # Null
  BY NullAssumption
<1>5. ASSUME NEW j \in ifaces, j # i, j.record = i.record PROVE Untouched(j, board, b)
  <2>1. j.kind = "item" => j.slot # i.slot
    BY <1>5, Elsewhere
  <2>2. CASE j.kind = "board"
    BY <1>3, <2>2 DEF Untouched
  <2>3. CASE j.kind # "board" /\ j.slot # i.slot
    BY <1>2, <1>3, <1>5, <2>3 DEF Untouched
  <2>4. CASE j.kind # "board" /\ j.slot = i.slot
    BY <1>2, <1>3, <1>4, <1>5, <2>1, <2>4 DEF Untouched
  <2>5. QED
    BY <2>2, <2>3, <2>4
<1>6. QED
  BY <1>3, <1>5

\* The decorator of a board changes.
LEMMA PutAsset ==
    ASSUME PersistInv, NEW i \in ifaces, i.kind = "board", NEW w \in Value \cup {Null}
    PROVE  LET board == systemConfiguration[i.record]
               b == [board EXCEPT !.asset = w]
           IN  /\ b \in Board /\ b.asset = w
               /\ \A j \in ifaces : j # i /\ j.record = i.record => Untouched(j, board, b)
<1> DEFINE board == systemConfiguration[i.record]
           b == [board EXCEPT !.asset = w]
<1>1. board \in Board
  BY ReachedIs
<1>2. b \in Board /\ b.asset = w /\ b.exposes = board.exposes
  BY <1>1 DEF Board
<1>3. ASSUME NEW j \in ifaces, j # i, j.record = i.record PROVE Untouched(j, board, b)
  <2>1. j.kind # "board"
    BY <1>3, Elsewhere
  <2>2. j \in Iface /\ Reaches(j, systemConfiguration)
    BY ReachedIs DEF PersistInv, Seated
  <2>3. j.slot \in DOMAIN board.exposes /\ board.exposes[j.slot] # Null
    BY <1>3, <2>1, <2>2 DEF Reaches, Iface
  <2>4. QED
    BY <1>2, <2>1, <2>3 DEF Untouched
<1>4. QED
  BY <1>2, <1>3

\* What a setter stores is what its interface shows then, and nobody else's.
LEMMA StoredIs ==
    ASSUME PersistInv, NEW i \in ifaces, i.reaches = "itself", NEW v \in Value,
           systemConfiguration' = [systemConfiguration EXCEPT ![i.record] = Stored(i, v)]
    PROVE  LET board == systemConfiguration[i.record]
               b == Stored(i, v)
               n == [i EXCEPT !.shown = v]
           IN  /\ b \in Board
               /\ \A j \in ifaces : j # i /\ j.record = i.record => Untouched(j, board, b)
               /\ Reaches(n, systemConfiguration') /\ Stands(n, systemConfiguration')
<1> DEFINE board == systemConfiguration[i.record]
           old == board.exposes[i.slot]
           b == Stored(i, v)
           n == [i EXCEPT !.shown = v]
<1>1. i \in Iface /\ i.record \in DOMAIN systemConfiguration /\ board \in Board
  BY ReachedIs
<1>2. Reaches(i, systemConfiguration) /\ Stands(i, systemConfiguration)
  BY DEF PersistInv, Seated
<1>3. /\ n.record = i.record /\ n.kind = i.kind /\ n.key = i.key /\ n.slot = i.slot
      /\ n.part = i.part /\ n.reaches = i.reaches /\ n.shown = v
  BY <1>1 DEF Iface
<1>4. ASSUME b \in Board
      PROVE  i.record \in DOMAIN systemConfiguration' /\ systemConfiguration'[i.record] = b
  BY <1>1, <1>4, PutBoard DEF PersistInv, TypeOK
<1>5. CASE i.kind = "board"
  <2>1. b = [board EXCEPT !.asset = v]
    BY <1>5 DEF Stored
  <2>2. /\ b \in Board /\ b.asset = v
        /\ \A j \in ifaces : j # i /\ j.record = i.record => Untouched(j, board, b)
    BY <1>5, <2>1, PutAsset
  <2> HIDE DEF b, n, board
  <2>3. Reaches(n, systemConfiguration') /\ Stands(n, systemConfiguration')
    BY <1>2, <1>3, <1>4, <1>5, <2>2 DEF Reaches, Stands
  <2>4. QED
    BY <2>2, <2>3 DEF b, n, board
<1>6. CASE i.kind = "item"
  <2> DEFINE x == [old EXCEPT !.value = v]
  <2>1. old \in Item /\ i.slot \in DOMAIN board.exposes
    BY <1>6, ReachedIs
  <2>2. x \in Item /\ x # Null /\ x.key = old.key /\ x.value = v /\ x.parts = old.parts
    BY <2>1, NullAssumption DEF Item
  <2>3. b = [board EXCEPT !.exposes[i.slot] = x]
    BY <1>6 DEF Stored
  <2>4. /\ b \in Board /\ b.exposes[i.slot] = x /\ DOMAIN b.exposes = DOMAIN board.exposes
        /\ \A j \in ifaces : j # i /\ j.record = i.record => Untouched(j, board, b)
    <3> HIDE DEF x
    <3>1. QED
      BY <1>6, <2>2, <2>3, PutElement
  <2>5. old.key = i.key /\ old.parts = <<>> /\ i.part = 0
    BY <1>2, <1>6 DEF Stands, Reaches
  <2> HIDE DEF b, n, board, x, old
  <2>6. Reaches(n, systemConfiguration') /\ Stands(n, systemConfiguration')
    BY <1>3, <1>4, <1>6, <2>1, <2>2, <2>4, <2>5 DEF Reaches, Stands
  <2>7. QED
    BY <2>4, <2>6 DEF b, n, board
<1>7. CASE i.kind = "part"
  <2>1. b = [board EXCEPT !.exposes[i.slot].parts[i.part] = v]
    BY <1>7 DEF Stored
  <2>2. /\ b \in Board /\ DOMAIN b.exposes = DOMAIN board.exposes
        /\ b.exposes[i.slot] # Null
        /\ DOMAIN b.exposes[i.slot].parts = DOMAIN old.parts
        /\ b.exposes[i.slot].parts[i.part] = v
        /\ \A j \in ifaces : j # i /\ j.record = i.record => Untouched(j, board, b)
    <3> DEFINE c == [board EXCEPT !.exposes[i.slot].parts[i.part] = v]
    <3>1. /\ c \in Board /\ DOMAIN c.exposes = DOMAIN board.exposes
          /\ c.exposes[i.slot] # Null
          /\ DOMAIN c.exposes[i.slot].parts = DOMAIN old.parts
          /\ c.exposes[i.slot].parts[i.part] = v
          /\ \A j \in ifaces : j # i /\ j.record = i.record => Untouched(j, board, c)
      BY <1>7, PutPart
    <3> HIDE DEF b, c
    <3>2. b = c
      BY <2>1 DEF c
    <3>3. QED
      BY <3>1, <3>2
  <2>3. i.slot \in DOMAIN board.exposes /\ i.part \in DOMAIN old.parts
    BY <1>2, <1>7 DEF Reaches
  <2>6. i.reaches = "itself" /\ i.record \in DOMAIN systemConfiguration'
        /\ systemConfiguration'[i.record] = b
    BY <1>4, <2>2
  <2> HIDE DEF b, n, board, old
  <2>7. Reaches(n, systemConfiguration')
    BY <1>3, <1>7, <2>2, <2>3, <2>6 DEF Reaches
  <2>8. Stands(n, systemConfiguration')
    BY <1>3, <1>7, <2>2, <2>6 DEF Stands
  <2>4. Reaches(n, systemConfiguration') /\ Stands(n, systemConfiguration')
    BY <2>7, <2>8
  <2>5. QED
    BY <2>2, <2>4 DEF b, n, board
<1>8. QED
  BY <1>1, <1>5, <1>6, <1>7 DEF Iface

\* A property is set.
LEMMA SetStep ==
    ASSUME PersistInv, NEW i \in ifaces, NEW v \in Value, SetProperty(i, v)
    PROVE  PersistInv'
<1> DEFINE n == [i EXCEPT !.shown = v]
<1>1. i \in Iface /\ i.record \in DOMAIN systemConfiguration
  BY ReachedIs
<1>2. /\ n \in Iface /\ n.record = i.record /\ n.kind = i.kind /\ n.key = i.key
      /\ n.slot = i.slot /\ n.part = i.part /\ n.reaches = i.reaches
  BY <1>1 DEF Iface
<1>3. /\ ifaces' = (ifaces \ {i}) \cup {n}
      /\ Free /\ Spend
      /\ UNCHANGED <<up, lastJson, posted, newConfiguration, files, upgraded, history>>
  BY DEF SetProperty
<1>4. ifaces' \subseteq Iface
  BY <1>2, <1>3 DEF PersistInv, TypeOK
<1>5. Apart'
  <2> SUFFICES ASSUME NEW j \in ifaces', NEW k \in ifaces',
                      <<j.record, j.kind, j.slot, j.part>> = <<k.record, k.kind, k.slot, k.part>>
               PROVE  j = k
    BY DEF Apart
  <2> HIDE DEF n
  <2>1. \E a \in ifaces : /\ <<a.record, a.kind, a.slot, a.part>> = <<j.record, j.kind, j.slot, j.part>>
                          /\ (j = n /\ a = i) \/ (j = a /\ j # i)
    BY <1>2, <1>3
  <2>2. \E c \in ifaces : /\ <<c.record, c.kind, c.slot, c.part>> = <<k.record, k.kind, k.slot, k.part>>
                          /\ (k = n /\ c = i) \/ (k = c /\ k # i)
    BY <1>2, <1>3
  <2>3. QED
    BY <2>1, <2>2 DEF PersistInv, Apart
<1>6. n.record \notin newConfiguration' /\ \A j \in ifaces : j.record \notin newConfiguration'
  BY <1>2, <1>3 DEF PersistInv, Seated
<1>7. CASE i.reaches = "itself"
  <2> DEFINE b == Stored(i, v)
  <2>1. systemConfiguration' = [systemConfiguration EXCEPT ![i.record] = b] /\ saving' = "begun"
    BY <1>7 DEF SetProperty
  <2>2. /\ b \in Board
        /\ \A j \in ifaces : j # i /\ j.record = i.record =>
              Untouched(j, systemConfiguration[i.record], b)
        /\ Reaches(n, systemConfiguration') /\ Stands(n, systemConfiguration')
    BY <1>7, <2>1, StoredIs
  <2> HIDE DEF b, n
  <2>3. \A j \in ifaces \ {i} :
           /\ Reaches(j, systemConfiguration')
           /\ j.reaches = "itself" => Stands(j, systemConfiguration')
    BY <1>1, <2>1, <2>2, StaysSeated
  <2>4. Seated'
    BY <1>3, <1>6, <2>2, <2>3 DEF Seated
  <2>5. QED
    BY <1>1, <1>3, <1>4, <1>5, <2>1, <2>2, <2>4, CallStep
<1>8. CASE i.reaches # "itself"
  <2>1. UNCHANGED <<systemConfiguration, saving>>
    BY <1>8 DEF SetProperty
  <2>2. Reaches(i, systemConfiguration)
    BY DEF PersistInv, Seated
  <2>3. Reaches(n, systemConfiguration)
    BY <1>2, <2>2 DEF Reaches
  <2> HIDE DEF n
  <2>4. Seated'
    BY <1>2, <1>3, <1>6, <1>8, <2>1, <2>3 DEF PersistInv, Seated
  <2>5. TypeOK'
    BY <1>3, <1>4, <2>1, BoundAssumption DEF PersistInv, TypeOK, Spend, files, history
  <2>6. OnDisk'
    BY <1>3, <2>1 DEF PersistInv, OnDisk, files, history
  <2>7. /\ Down' /\ NeverBroken' /\ Awaiting' /\ Kept' /\ Was' /\ NotUpgraded'
    BY <1>3, <2>1 DEF PersistInv, Down, NeverBroken, Awaiting, Kept, Was, NotUpgraded,
                      Files, files, history, Free
  <2>8. QED
    BY <1>5, <2>4, <2>5, <2>6, <2>7 DEF PersistInv
<1>9. QED
  BY <1>7, <1>8

\* What Delete makes null is nobody else's.
LEMMA DeletedIs ==
    ASSUME PersistInv, NEW i \in ifaces
    PROVE  LET board == systemConfiguration[i.record]
               b == Deleted(i)
           IN  /\ b \in Board
               /\ \A j \in ifaces : j # i /\ j.record = i.record => Untouched(j, board, b)
<1> DEFINE board == systemConfiguration[i.record]
           old == board.exposes[i.slot]
           b == Deleted(i)
<1>1. i \in Iface /\ board \in Board /\ Reaches(i, systemConfiguration)
  BY ReachedIs DEF PersistInv, Seated
<1>2. CASE i.kind = "board"
  <2>1. b = [board EXCEPT !.asset = Null]
    BY <1>2 DEF Deleted
  <2>2. QED
    BY <1>2, <2>1, PutAsset
<1>3. CASE i.kind = "part"
  <2> DEFINE c == [board EXCEPT !.exposes[i.slot].parts[i.part] = Null]
  <2>1. c \in Board /\ \A j \in ifaces : j # i /\ j.record = i.record => Untouched(j, board, c)
    BY <1>3, PutPart
  <2>2. b = c
    BY <1>3 DEF Deleted
  <2> HIDE DEF b, c
  <2>3. QED
    BY <2>1, <2>2 DEF b
<1>4. CASE i.kind = "item" /\ i.reaches # "itself"
  <2> DEFINE x == [old EXCEPT !.whole = FALSE]
             c == [board EXCEPT !.exposes[i.slot] = x]
  <2>1. old \in Item
    BY <1>4, ReachedIs
  <2>2. x \in Item /\ x.key = old.key /\ x.parts = old.parts
    BY <2>1 DEF Item
  <2>3. c \in Board /\ \A j \in ifaces : j # i /\ j.record = i.record => Untouched(j, board, c)
    <3> HIDE DEF x
    <3>1. QED
      BY <1>4, <2>2, PutElement
  <2>4. b = c
    BY <1>4 DEF Deleted
  <2> HIDE DEF b, c
  <2>5. QED
    BY <2>3, <2>4 DEF b
<1>5. CASE i.kind = "item" /\ i.reaches = "itself"
  <2> DEFINE c == [board EXCEPT !.exposes[i.slot] = Null]
  <2>1. i.slot \in DOMAIN board.exposes /\ old.parts = <<>>
    BY <1>1, <1>5 DEF Reaches
  <2>2. /\ c \in Board /\ c.asset = board.asset
        /\ DOMAIN c.exposes = DOMAIN board.exposes
        /\ \A t \in DOMAIN board.exposes : t # i.slot => c.exposes[t] = board.exposes[t]
    <3> HIDE DEF board
    <3>1. QED
      BY <1>1, <2>1, PutItem
  <2>3. ASSUME NEW j \in ifaces, j # i, j.record = i.record PROVE Untouched(j, board, c)
    <3>1. j \in Iface /\ Reaches(j, systemConfiguration)
      BY ReachedIs DEF PersistInv, Seated
    <3>2. CASE j.kind = "board"
      BY <2>2, <3>2 DEF Untouched
    <3>3. CASE j.kind # "board"
      <4>1. j.slot \in DOMAIN board.exposes /\ board.exposes[j.slot] # Null
        BY <2>3, <3>1, <3>3 DEF Reaches, Iface
      <4>2. j.kind = "item" => j.slot # i.slot
        BY <1>5, <2>3, Elsewhere
      <4>3. j.kind = "part" => j.part \in DOMAIN board.exposes[j.slot].parts
        BY <2>3, <3>1 DEF Reaches
      <4>4. j.slot # i.slot
        <5>1. j.kind = "item" \/ j.kind = "part"
          BY <3>1, <3>3 DEF Iface
        <5>2. DOMAIN <<>> = {}
          OBVIOUS
        <5>3. QED
          BY <2>1, <4>2, <4>3, <5>1, <5>2
      <4>5. QED
        BY <2>2, <3>3, <4>1, <4>4 DEF Untouched
    <3>4. QED
      BY <3>2, <3>3
  <2>4. b = c
    BY <1>5 DEF Deleted
  <2> HIDE DEF b, c
  <2>5. QED
    BY <2>2, <2>3, <2>4 DEF b
<1>6. QED
  BY <1>1, <1>2, <1>3, <1>4, <1>5 DEF Iface

\* An object is deleted.
LEMMA DeleteStep ==
    ASSUME PersistInv, NEW i \in ifaces, Delete(i)
    PROVE  PersistInv'
<1> DEFINE b == Deleted(i)
<1>1. i.record \in DOMAIN systemConfiguration
  BY ReachedIs
<1>2. /\ ifaces' = ifaces \ {i}
      /\ Free /\ Spend
      /\ systemConfiguration' = [systemConfiguration EXCEPT ![i.record] = b]
      /\ saving' = "begun"
      /\ UNCHANGED <<up, lastJson, posted, newConfiguration, files, upgraded, history>>
  BY DEF Delete
<1>3. /\ b \in Board
      /\ \A j \in ifaces : j # i /\ j.record = i.record =>
            Untouched(j, systemConfiguration[i.record], b)
  BY DeletedIs
<1> HIDE DEF b
<1>4. \A j \in ifaces \ {i} :
         /\ Reaches(j, systemConfiguration')
         /\ j.reaches = "itself" => Stands(j, systemConfiguration')
  BY <1>1, <1>2, <1>3, StaysSeated
<1>5. Seated'
  BY <1>2, <1>4 DEF PersistInv, Seated
<1>6. Apart' /\ ifaces' \subseteq Iface
  BY <1>2 DEF PersistInv, Apart, TypeOK
<1>7. QED
  BY <1>1, <1>2, <1>3, <1>5, <1>6, CallStep

\* An object is added.
LEMMA AddStep ==
    ASSUME PersistInv, NEW r \in Boards, NEW key \in Key, NEW v \in Value, AddObject(r, key, v)
    PROVE  PersistInv'
<1> DEFINE board == systemConfiguration[r]
           exposes == board.exposes
           slot == FreeSlot(exposes)
           item == [key |-> key, whole |-> TRUE, value |-> v, parts |-> <<>>]
           e == IF slot > Len(exposes) THEN Append(exposes, item)
                ELSE [exposes EXCEPT ![slot] = item]
           b == [board EXCEPT !.exposes = e]
           n == [ItemIface(r, slot, item) EXCEPT !.reaches = "itself", !.writable = TRUE]
<1>1. /\ r \in DOMAIN systemConfiguration /\ r \in Record /\ r \notin newConfiguration
      /\ board \in Board /\ exposes \in Seq(Item \cup {Null}) /\ Len(exposes) \in Nat
      /\ DOMAIN exposes = 1..Len(exposes)
  <2>1. r \in DOMAIN systemConfiguration /\ r \notin newConfiguration
    BY DEF Boards
  <2>2. r \in Record /\ board \in Board
    BY <2>1, JsonIs DEF PersistInv, TypeOK
  <2>3. exposes \in Seq(Item \cup {Null})
    BY <2>2 DEF Board
  <2>4. QED
    BY <2>1, <2>2, <2>3, LenProperties
<1>2. /\ slot \in 1..Len(exposes) + 1
      /\ slot <= Len(exposes) => exposes[slot] = Null
  <2> HIDE DEF exposes
  <2>1. QED
    BY <1>1, FreeSlotIs
<1>3. item \in Item /\ item # Null /\ item.key = key /\ item.value = v /\ item.parts = <<>>
  <2>1. <<>> \in Seq(Value \cup {Null})
    OBVIOUS
  <2>2. item \in Item
    BY <2>1 DEF Item
  <2>3. item.key = key /\ item.value = v /\ item.parts = <<>>
    OBVIOUS
  <2> HIDE DEF item
  <2>4. QED
    BY <2>2, <2>3, NullAssumption
<1>4. /\ e \in Seq(Item \cup {Null})
      /\ slot \in DOMAIN e /\ e[slot] = item
      /\ \A t \in DOMAIN exposes : t \in DOMAIN e /\ (t # slot => e[t] = exposes[t])
  <2> HIDE DEF slot, exposes, item
  <2>1. CASE slot > Len(exposes)
    <3>1. slot = Len(exposes) + 1
      BY <1>1, <1>2, <2>1
    <3>2. /\ Append(exposes, item) \in Seq(Item \cup {Null})
          /\ Len(Append(exposes, item)) = Len(exposes) + 1
          /\ \A t \in 1..Len(exposes) : Append(exposes, item)[t] = exposes[t]
          /\ Append(exposes, item)[Len(exposes) + 1] = item
      BY <1>1, <1>3, AppendProperties
    <3>3. e = Append(exposes, item)
      BY <2>1
    <3> HIDE DEF e
    <3>4. DOMAIN e = 1..Len(exposes) + 1
      BY <3>2, <3>3, LenProperties
    <3>5. QED
      BY <1>1, <3>1, <3>2, <3>3, <3>4
  <2>2. CASE ~(slot > Len(exposes))
    <3>1. slot \in 1..Len(exposes)
      BY <1>1, <1>2, <2>2
    <3>2. e = [exposes EXCEPT ![slot] = item]
      BY <2>2
    <3> HIDE DEF e
    <3>3. e \in Seq(Item \cup {Null})
      <4>1. item \in Item \cup {Null}
        BY <1>3
      <4>2. QED
        BY <1>1, <3>1, <3>2, <4>1, ExceptSeq
    <3>4. QED
      BY <1>1, <3>1, <3>2, <3>3
  <2>3. QED
    BY <2>1, <2>2
<1>5. /\ ifaces' = ifaces \cup {n}
      /\ Free /\ Spend
      /\ saving' = "begun"
      /\ UNCHANGED <<up, lastJson, posted, newConfiguration, files, upgraded, history>>
  BY DEF AddObject
<1>6. systemConfiguration' = [systemConfiguration EXCEPT ![r] = b]
  BY DEF AddObject
<1>7. /\ n \in Iface /\ n.record = r /\ n.kind = "item" /\ n.key = key /\ n.slot = slot
      /\ n.part = 0 /\ n.reaches = "itself" /\ n.shown = v
  <2>1. slot \in Nat
    BY <1>1, <1>2
  <2> HIDE DEF slot
  <2>2. QED
    BY <1>1, <1>3, <2>1 DEF ItemIface, Iface
<1> HIDE DEF e, n, item, slot
<1>8. b \in Board /\ b.asset = board.asset /\ b.exposes = e
  BY <1>1, <1>4 DEF Board
<1>9. ASSUME NEW j \in ifaces, j.record = r, j.kind # "board"
      PROVE  j.slot \in DOMAIN exposes /\ exposes[j.slot] # Null /\ j.slot # slot
  <2>1. Reaches(j, systemConfiguration) /\ j \in Iface
    BY DEF PersistInv, Seated, TypeOK
  <2>2. j.slot \in DOMAIN exposes /\ exposes[j.slot] # Null
    BY <1>9, <2>1 DEF Reaches, Iface
  <2>3. QED
    BY <1>1, <1>2, <2>2
<1>10. ASSUME NEW j \in ifaces, j.record = r PROVE Untouched(j, board, b)
  <2>1. CASE j.kind = "board"
    BY <1>8, <2>1 DEF Untouched
  <2>2. CASE j.kind # "board"
    <3>1. j.slot \in DOMAIN e /\ e[j.slot] = exposes[j.slot] /\ exposes[j.slot] # Null
      BY <1>4, <1>9, <1>10, <2>2
    <3>2. QED
      BY <1>8, <2>2, <3>1 DEF Untouched
  <2>3. QED
    BY <2>1, <2>2
<1>11. \A j \in ifaces :
          /\ Reaches(j, systemConfiguration')
          /\ j.reaches = "itself" => Stands(j, systemConfiguration')
  <2> HIDE DEF b
  <2>1. QED
    BY <1>1, <1>6, <1>8, <1>10, StaysSeated
<1>12. r \in DOMAIN systemConfiguration' /\ systemConfiguration'[r] = b
  <2> HIDE DEF b
  <2>1. QED
    BY <1>1, <1>6, <1>8, PutBoard DEF PersistInv, TypeOK
<1>13. Reaches(n, systemConfiguration') /\ Stands(n, systemConfiguration')
  <2> HIDE DEF b, exposes, board
  <2>1. QED
    BY <1>3, <1>4, <1>7, <1>8, <1>12 DEF Reaches, Stands
<1>14. Seated'
  BY <1>1, <1>5, <1>7, <1>11, <1>13 DEF PersistInv, Seated
<1>15. Apart'
  <2>1. \A j \in ifaces : <<j.record, j.kind, j.slot, j.part>> # <<n.record, n.kind, n.slot, n.part>>
    <3>1. ASSUME NEW j \in ifaces, j.record = r, j.kind = "item" PROVE j.slot # slot
      BY <1>9, <3>1
    <3>2. QED
      BY <1>7, <3>1
  <2>2. QED
    BY <1>5, <2>1 DEF PersistInv, Apart
<1>16. ifaces' \subseteq Iface
  BY <1>5, <1>7 DEF PersistInv, TypeOK
<1>17. QED
  <2> HIDE DEF b
  <2>1. QED
    BY <1>1, <1>5, <1>6, <1>8, <1>14, <1>15, <1>16, CallStep

-----------------------------------------------------------------------------
(* Publishing. *)

\* The interfaces of a record: one on its board, one on each element, and one on
\* each part that is shown.
ShowsBoard(n, board) ==
    n.kind = "board" => /\ n.slot = 0 /\ n.part = 0 /\ n.key = Null
                        /\ n.reaches = "itself" /\ n.shown = board.asset
ShowsElement(n, board) ==
    /\ n.kind # "board" => /\ n.slot \in DOMAIN board.exposes
                           /\ board.exposes[n.slot] # Null
                           /\ n.key = board.exposes[n.slot].key
    /\ n.kind = "item" => n = ItemIface(n.record, n.slot, board.exposes[n.slot])
ShowsPart(n, board) ==
    n.kind = "part" => /\ n.part \in DOMAIN board.exposes[n.slot].parts
                       /\ n.reaches = "itself"
                       /\ n.shown = board.exposes[n.slot].parts[n.part]
AlwaysWritable(n) == n.kind = "board" \/ n.kind = "part" => n.writable = TRUE

LEMMA PublishedAre ==
    ASSUME NEW r \in Record, NEW board \in Board, NEW n \in Published(r, board)
    PROVE  /\ n \in Iface /\ n.record = r
           /\ ShowsBoard(n, board) /\ ShowsElement(n, board) /\ ShowsPart(n, board)
           /\ AlwaysWritable(n)
<1> DEFINE exposes == board.exposes
           slots == {s \in DOMAIN exposes : exposes[s] # Null}
<1>1. exposes \in Seq(Item \cup {Null}) /\ board.asset \in Value \cup {Null}
  BY DEF Board
<1>2. \A s \in slots : s \in Nat /\ exposes[s] \in Item
  <2>1. \A s \in slots : s \in 1..Len(exposes) /\ Len(exposes) \in Nat
    BY <1>1, LenProperties
  <2>2. QED
    BY <1>1, <2>1, ElementOfSeq
<1>3. \/ n \in BoardIfaces(r, board)
      \/ \E s \in slots : n = ItemIface(r, s, exposes[s])
      \/ \E s \in slots : n \in PartIfaces(r, s, exposes[s])
  BY DEF Published
<1>4. ASSUME n \in BoardIfaces(r, board)
      PROVE  /\ n \in Iface /\ n.record = r /\ n.kind = "board" /\ n.slot = 0 /\ n.part = 0
             /\ n.key = Null /\ n.reaches = "itself" /\ n.shown = board.asset
             /\ n.writable = TRUE
  <2>1. /\ board.asset \in Value
        /\ n = [record |-> r, kind |-> "board", key |-> Null, slot |-> 0, part |-> 0,
                reaches |-> "itself", writable |-> TRUE, shown |-> board.asset]
    BY <1>1, <1>4 DEF BoardIfaces
  <2>2. n \in Iface /\ n.writable = TRUE
    BY <2>1 DEF Iface
  <2>3. /\ n.record = r /\ n.kind = "board" /\ n.slot = 0 /\ n.part = 0 /\ n.key = Null
        /\ n.reaches = "itself" /\ n.shown = board.asset
    BY <2>1
  <2>4. QED
    BY <2>2, <2>3
<1>5. ASSUME NEW s \in slots, n = ItemIface(r, s, exposes[s])
      PROVE  n \in Iface /\ n.record = r /\ n.kind = "item" /\ n.slot = s /\ n.key = exposes[s].key
  BY <1>2, <1>5 DEF ItemIface, Iface, Item
<1>6. ASSUME NEW s \in slots, n \in PartIfaces(r, s, exposes[s])
      PROVE  /\ n \in Iface /\ n.record = r /\ n.kind = "part" /\ n.slot = s
             /\ n.key = exposes[s].key /\ n.reaches = "itself" /\ n.writable = TRUE
             /\ n.part \in DOMAIN exposes[s].parts
             /\ n.shown = exposes[s].parts[n.part]
  <2> DEFINE item == exposes[s]
  <2>1. PICK k \in PartsShown(item) :
           n = [record |-> r, kind |-> "part", key |-> item.key, slot |-> s, part |-> k,
                reaches |-> "itself", writable |-> TRUE, shown |-> item.parts[k]]
    BY <1>6 DEF PartIfaces
  <2>2. k \in DOMAIN item.parts /\ item.parts[k] # Null
    BY DEF PartsShown, Range
  <2>3. item \in Item /\ item.parts \in Seq(Value \cup {Null}) /\ item.key \in Key
    BY <1>2 DEF Item
  <2> HIDE DEF item
  <2>4. k \in Nat /\ item.parts[k] \in Value
    <3>1. k \in 1..Len(item.parts) /\ Len(item.parts) \in Nat
      BY <2>2, <2>3, LenProperties
    <3>2. QED
      BY <2>2, <2>3, <3>1, ElementOfSeq
  <2>5. s \in Nat
    BY <1>2
  <2>6. n \in Iface /\ n.record = r /\ n.kind = "part" /\ n.slot = s /\ n.part = k
        /\ n.key = item.key /\ n.reaches = "itself" /\ n.writable = TRUE
        /\ n.shown = item.parts[k]
    BY <2>1, <2>3, <2>4, <2>5 DEF Iface
  <2>7. QED
    BY <2>2, <2>6 DEF item
<1>7. CASE \E s \in slots : n = ItemIface(r, s, exposes[s])
  <2>1. PICK s \in slots : n = ItemIface(r, s, exposes[s])
    BY <1>7
  <2>2. n \in Iface /\ n.record = r /\ n.kind = "item" /\ n.slot = s /\ n.key = exposes[s].key
    BY <1>5, <2>1
  <2>3. s \in DOMAIN exposes /\ exposes[s] # Null
    OBVIOUS
  <2>4. QED
    BY <2>1, <2>2, <2>3 DEF ShowsBoard, ShowsElement, ShowsPart, AlwaysWritable
<1>8. CASE \E s \in slots : n \in PartIfaces(r, s, exposes[s])
  <2>1. PICK s \in slots : n \in PartIfaces(r, s, exposes[s])
    BY <1>8
  <2>2. /\ n \in Iface /\ n.record = r /\ n.kind = "part" /\ n.slot = s
        /\ n.key = exposes[s].key /\ n.reaches = "itself" /\ n.writable = TRUE
        /\ n.part \in DOMAIN exposes[s].parts
        /\ n.shown = exposes[s].parts[n.part]
    BY <1>6, <2>1
  <2>3. s \in DOMAIN exposes /\ exposes[s] # Null
    OBVIOUS
  <2>4. QED
    BY <2>2, <2>3 DEF ShowsBoard, ShowsElement, ShowsPart, AlwaysWritable
<1>9. CASE n \in BoardIfaces(r, board)
  BY <1>4, <1>9 DEF ShowsBoard, ShowsElement, ShowsPart, AlwaysWritable
<1>10. QED
  BY <1>3, <1>7, <1>8, <1>9

\* They reach what they are for, show it, and are for different places.
LEMMA PublishedSeated ==
    ASSUME NEW r \in Record, NEW json, IsJson(json), r \in DOMAIN json,
           NEW n \in Published(r, json[r])
    PROVE  /\ Reaches(n, json)
           /\ n.reaches = "itself" => Stands(n, json)
<1>1. json[r] \in Board
  BY JsonIs
<1> DEFINE board == json[r]
<1>2. /\ n \in Iface /\ n.record = r
      /\ ShowsBoard(n, board) /\ ShowsElement(n, board) /\ ShowsPart(n, board)
  BY <1>1, PublishedAre
<1>3. n.kind = "item" => n.part = 0 /\ n.reaches # "itself"
  BY <1>2 DEF ItemIface, ShowsElement
<1>4. n.kind \in {"board", "item", "part"}
  BY <1>2 DEF Iface
<1>5. Reaches(n, json)
  <2>1. CASE n.kind = "board"
    BY <1>2, <2>1 DEF Reaches, ShowsBoard
  <2>2. CASE n.kind = "item"
    BY <1>2, <1>3, <2>2 DEF Reaches, ShowsElement
  <2>3. CASE n.kind = "part"
    BY <1>2, <2>3 DEF Reaches, ShowsElement, ShowsPart
  <2>4. QED
    BY <1>4, <2>1, <2>2, <2>3
<1>6. n.reaches = "itself" => Stands(n, json)
  <2>1. CASE n.kind = "board"
    BY <1>2, <2>1 DEF Stands, ShowsBoard
  <2>2. CASE n.kind = "part"
    BY <1>2, <2>2 DEF Stands, ShowsPart
  <2>3. QED
    BY <1>3, <1>4, <2>1, <2>2
<1>7. QED
  BY <1>5, <1>6

LEMMA PublishedApart ==
    ASSUME NEW r \in Record, NEW board \in Board,
           NEW n \in Published(r, board), NEW m \in Published(r, board),
           n.kind = m.kind, n.slot = m.slot, n.part = m.part
    PROVE  n = m
<1>1. ASSUME NEW x \in Published(r, board)
      PROVE  /\ x \in Iface /\ x.record = r /\ x.kind \in {"board", "item", "part"}
             /\ ShowsBoard(x, board) /\ ShowsElement(x, board) /\ ShowsPart(x, board)
             /\ AlwaysWritable(x)
  <2>1. x \in Iface /\ x.record = r /\ ShowsBoard(x, board) /\ ShowsElement(x, board)
        /\ ShowsPart(x, board) /\ AlwaysWritable(x)
    BY PublishedAre
  <2>2. x.kind \in {"board", "item", "part"}
    BY <2>1 DEF Iface
  <2>3. QED
    BY <2>1, <2>2
<1>2. CASE n.kind = "item"
  BY <1>1, <1>2 DEF ShowsElement
<1>3. CASE n.kind # "item"
  <2>1. n.kind = "board" \/ n.kind = "part"
    BY <1>1, <1>3
  <2>2. n.writable = m.writable
    BY <1>1, <2>1, Zenon DEF AlwaysWritable
  <2>3. n.key = m.key
    BY <1>1, <2>1 DEF ShowsBoard, ShowsElement
  <2>4. n.reaches = m.reaches /\ n.shown = m.shown
    BY <1>1, <2>1 DEF ShowsBoard, ShowsPart
  <2>5. n \in Iface /\ m \in Iface /\ n.record = m.record
    BY <1>1
  <2>6. QED
    BY <2>2, <2>3, <2>4, <2>5 DEF Iface
<1>4. QED
  BY <1>2, <1>3

-----------------------------------------------------------------------------
(* The process goes, and comes back. *)

\* It goes, and the file is one of those that may be left.
LEMMA EndStep ==
    ASSUME PersistInv, Ends, Files' \subseteq Files, ops' \in 0..MaxOps, UNCHANGED upgraded
    PROVE  PersistInv'
<1>1. /\ IsJson(lastJson') /\ IsJson(systemConfiguration') /\ IsHistory(saved')
      /\ DOMAIN saved' = {}
  BY NoJson, NoHistory DEF Ends
<1>2. IsHistory(was')
  <2>1. PICK S \in SUBSET Record : saved \in [S -> SUBSET Board]
    BY DEF PersistInv, TypeOK, IsHistory
  <2>2. PICK T \in SUBSET Record : was \in [T -> SUBSET Board]
    BY DEF PersistInv, TypeOK, IsHistory
  <2>3. \A r \in S : systemConfiguration[r] \in Board
    BY <2>1, JsonIs DEF PersistInv, TypeOK, Kept
  <2>4. was' = [r \in DOMAIN was \cup DOMAIN saved |->
                  IF r \in DOMAIN saved THEN saved[r] \cup {systemConfiguration[r]} ELSE was[r]]
    BY DEF Ends
  <2>5. was' \in [T \cup S -> SUBSET Board]
    BY <2>1, <2>2, <2>3, <2>4
  <2>6. QED
    BY <2>5 DEF IsHistory
<1>3. TypeOK'
  <2>1. \A f \in afterLoss' \cup {current'} : f \in {Absent, Broken} \/ IsJson(f)
    BY DEF PersistInv, TypeOK, Files
  <2>2. excused' \in SUBSET Record
    BY DEF PersistInv, TypeOK, Ends
  <2>3. upgraded' \in BOOLEAN /\ up' \in BOOLEAN /\ failed' \in BOOLEAN
    BY Zenon DEF PersistInv, TypeOK, Ends
  <2>4. /\ posted' = <<>> /\ newConfiguration' = {} /\ ifaces' = {} /\ saving' = "no"
    BY DEF Ends
  <2>5. QED
    BY <1>1, <1>2, <2>1, <2>2, <2>3, <2>4 DEF TypeOK
<1>4. Down' /\ Seated' /\ Apart' /\ Awaiting' /\ OnDisk' /\ NotUpgraded'
  BY DEF Ends, Down, Seated, Apart, Awaiting, OnDisk, NotUpgraded
<1>5. NeverBroken'
  BY DEF PersistInv, NeverBroken, Files
<1>6. Kept'
  BY <1>1 DEF Kept
<1>7. Was'
  <2> SUFFICES ASSUME NEW r \in DOMAIN was' \ excused', ~upgraded', NEW f \in Files'
               PROVE  IsJson(f) /\ r \in DOMAIN f /\ f[r] \in was'[r]
    BY DEF Was, Ends
  <2>1. was' = [q \in DOMAIN was \cup DOMAIN saved |->
                  IF q \in DOMAIN saved THEN saved[q] \cup {systemConfiguration[q]} ELSE was[q]]
    BY DEF Ends
  <2>2. r \in Record
    BY <1>2 DEF IsHistory
  <2>3. f \in Files
    OBVIOUS
  <2>4. CASE up
    <3>1. r \in DOMAIN saved
      BY <2>2, <2>4 DEF Ends
    <3>2. was'[r] = saved[r] \cup {systemConfiguration[r]}
      BY <2>1, <3>1
    <3>3. QED
      BY <2>3, <3>1, <3>2 DEF PersistInv, Kept
  <2>5. CASE ~up
    <3>1. DOMAIN saved = {} /\ excused' = excused
      BY <2>5, NoJson DEF PersistInv, Down, Ends
    <3>2. r \in DOMAIN was \ excused /\ was'[r] = was[r]
      BY <2>1, <3>1
    <3>3. QED
      BY <2>3, <2>5, <3>2 DEF PersistInv, Was
  <2>6. QED
    BY <2>4, <2>5
<1>8. QED
  BY <1>3, <1>4, <1>5, <1>6, <1>7 DEF PersistInv

\* It starts, and takes the file away.
LEMMA StartStep == ASSUME PersistInv, Start PROVE PersistInv'
<1>1. /\ systemConfiguration = <<>> /\ lastJson = <<>> /\ saved = <<>>
      /\ ifaces = {} /\ newConfiguration = {} /\ posted = <<>> /\ saving = "no"
      /\ DOMAIN saved = {} /\ DOMAIN systemConfiguration = {}
  BY NoJson DEF PersistInv, Down, Start
<1>2. IsJson(lastJson')
  BY NoJson DEF PersistInv, TypeOK, Start
<1>3. Files' \subseteq Files \cup {Absent}
  BY DEF Start, Files
<1>4. IsHistory(was')
  BY NoHistory DEF PersistInv, TypeOK, Start
<1>5. TypeOK'
  <2>1. \A f \in Files' : f \in {Absent, Broken} \/ IsJson(f)
    BY <1>3 DEF PersistInv, TypeOK, Files
  <2>2. up' \in BOOLEAN /\ upgraded' \in BOOLEAN
    BY DEF Start
  <2>3. UNCHANGED <<systemConfiguration, posted, newConfiguration, ifaces, saving,
                    ops, failed, saved, excused>>
    BY DEF Start
  <2>4. QED
    BY <1>2, <1>4, <2>1, <2>2, <2>3 DEF PersistInv, TypeOK, Files
<1>6. NeverBroken'
  BY <1>3, FileAssumption DEF PersistInv, NeverBroken, Files
<1>7. Down' /\ Seated' /\ Apart' /\ Awaiting' /\ OnDisk' /\ NotUpgraded'
  BY <1>1 DEF Start, Down, Seated, Apart, Awaiting, OnDisk, NotUpgraded
<1>8. Kept'
  BY <1>1 DEF Start, Kept
<1>9. Was'
  <2> SUFFICES ASSUME NEW r \in DOMAIN was' \ excused'
               PROVE  r \in DOMAIN lastJson' /\ lastJson'[r] \in was'[r]
    BY DEF Was, Start
  <2>1. ~upgraded
    BY NoJson DEF Start
  <2>2. r \in DOMAIN was \ excused /\ was' = was
    BY <2>1 DEF Start
  <2>3. IsJson(current) /\ r \in DOMAIN current /\ current[r] \in was[r]
    BY <2>1, <2>2 DEF PersistInv, Was, Files, Start
  <2>4. lastJson' = current
    BY <2>1, <2>3, NoJson DEF Start
  <2>5. QED
    BY <2>2, <2>3, <2>4
<1>10. QED
  BY <1>5, <1>6, <1>7, <1>8, <1>9 DEF PersistInv

\* New firmware is put in.
LEMMA UpgradeStep == ASSUME PersistInv, Upgrade PROVE PersistInv'
<1>1. /\ ~up /\ upgraded' = TRUE /\ Spend
      /\ UNCHANGED <<up, lastJson, systemConfiguration, posted, newConfiguration,
                     ifaces, saving, files, history>>
  BY DEF Upgrade
<1>2. TypeOK'
  BY <1>1, BoundAssumption DEF PersistInv, TypeOK, Spend, files, history
<1>3. /\ Down' /\ NeverBroken' /\ Seated' /\ Apart' /\ Awaiting' /\ OnDisk'
      /\ Kept' /\ Was' /\ NotUpgraded'
  BY <1>1 DEF PersistInv, Down, NeverBroken, Seated, Apart, Awaiting, OnDisk, Kept, Was,
              NotUpgraded, Files, files, history
<1>4. QED
  BY <1>2, <1>3 DEF PersistInv

-----------------------------------------------------------------------------
(* Scanning, publishing, writing. *)

\* What is in a record a scan finds is a board.
LEMMA RestoredIs ==
    ASSUME PersistInv, NEW r \in Record
    PROVE  Restored(r) \in Board
<1>1. Default[r] \in Board
  BY DefaultAssumption
<1>2. r \in DOMAIN systemConfiguration => systemConfiguration[r] \in Board
  BY JsonIs DEF PersistInv, TypeOK
<1>3. r \in DOMAIN lastJson => pruneRecordExposes(lastJson[r]) \in Board
  BY JsonIs, PruneIsBoard DEF PersistInv, TypeOK
<1>4. QED
  BY <1>1, <1>2, <1>3 DEF Restored

LEMMA ScanStep == ASSUME PersistInv, Scan PROVE PersistInv'
<1>1. PICK found \in Found :
         /\ systemConfiguration' = [r \in DOMAIN systemConfiguration \cup found |-> Restored(r)]
         /\ newConfiguration' = found \ DOMAIN systemConfiguration
  BY DEF Scan
<1>2. /\ Free /\ posted = <<>> /\ posted' = <<"write", "publish">>
      /\ UNCHANGED <<up, lastJson, ifaces, saving, files, upgraded, ops, history>>
  BY DEF Scan
<1>3. found \subseteq Record /\ DOMAIN systemConfiguration \subseteq Record
  BY FoundAssumption, JsonIs DEF PersistInv, TypeOK
<1>4. IsJson(systemConfiguration')
  BY <1>1, <1>3, RestoredIs DEF IsJson
<1>5. /\ DOMAIN systemConfiguration' = DOMAIN systemConfiguration \cup found
      /\ \A r \in DOMAIN systemConfiguration : systemConfiguration'[r] = systemConfiguration[r]
  BY <1>1 DEF Restored
<1>6. TypeOK'
  <2>1. newConfiguration' \in SUBSET Record
    BY <1>1, <1>3
  <2>2. QED
    BY <1>2, <1>4, <2>1 DEF PersistInv, TypeOK, files, history
<1>7. Seated'
  <2> SUFFICES ASSUME NEW i \in ifaces
               PROVE  /\ i.record \notin newConfiguration'
                      /\ Reaches(i, systemConfiguration')
                      /\ i.reaches = "itself" => Stands(i, systemConfiguration')
    BY <1>2 DEF Seated
  <2>1. /\ i.record \in DOMAIN systemConfiguration
        /\ Reaches(i, systemConfiguration)
        /\ i.reaches = "itself" => Stands(i, systemConfiguration)
    BY ReachedIs DEF PersistInv, Seated
  <2>2. i.record \in DOMAIN systemConfiguration'
        /\ systemConfiguration'[i.record] = systemConfiguration[i.record]
    BY <1>5, <2>1
  <2>3. QED
    BY <1>1, <2>1, <2>2 DEF Reaches, Stands
<1>8. Apart' /\ Awaiting' /\ NeverBroken' /\ NotUpgraded' /\ Down'
  BY <1>1, <1>2, <1>5 DEF PersistInv, Apart, Awaiting, NeverBroken, NotUpgraded, Down, Free, files
<1>9. OnDisk'
  <2>1. <<"write", "publish">> # <<>> /\ <<"write", "publish">> # <<"publish">>
    OBVIOUS
  <2>2. QED
    BY <1>2, <2>1 DEF OnDisk, Free
<1>10. Kept'
  BY <1>2, <1>5 DEF PersistInv, Kept, Files, files, history, Free
<1>11. Was'
  BY <1>2, <1>5 DEF PersistInv, Was, Files, files, history, Free
<1>12. QED
  BY <1>6, <1>7, <1>8, <1>9, <1>10, <1>11 DEF PersistInv

\* The posted write starts.
LEMMA PostedWriteStep == ASSUME PersistInv, PostedWrite PROVE PersistInv'
<1>1. /\ Free /\ saving' = "begun" /\ posted' = Tail(posted) /\ Head(posted) = "write"
      /\ posted # <<>>
      /\ UNCHANGED <<up, lastJson, systemConfiguration, newConfiguration, ifaces,
                     files, upgraded, ops, history>>
  BY DEF PostedWrite
<1>2. posted' = <<"publish">>
  <2>1. Head(<<"publish">>) = "publish" /\ Tail(<<"write", "publish">>) = <<"publish">>
    OBVIOUS
  <2>2. posted = <<"write", "publish">>
    BY <1>1, <2>1 DEF PersistInv, TypeOK
  <2>3. QED
    BY <1>1, <2>1, <2>2
<1>3. TypeOK'
  BY <1>1, <1>2 DEF PersistInv, TypeOK, files, history
<1>4. /\ Down' /\ NeverBroken' /\ Seated' /\ Apart' /\ Awaiting' /\ OnDisk'
      /\ Was' /\ NotUpgraded'
  BY <1>1 DEF PersistInv, Down, NeverBroken, Seated, Apart, Awaiting, OnDisk, Was,
              NotUpgraded, Files, files, history, Free
<1>5. Kept'
  BY <1>1 DEF PersistInv, Kept, Files, files, history, Free
<1>6. QED
  BY <1>3, <1>4, <1>5 DEF PersistInv

\* The new records are published.
LEMMA PostStep == ASSUME PersistInv, PostToDbus PROVE PersistInv'
<1>1. Free /\ posted # <<>> /\ UNCHANGED <<files, upgraded, ops>>
  BY DEF PostToDbus
<1>2. CASE Ends
  <2>1. Files' \subseteq Files /\ ops' \in 0..MaxOps /\ UNCHANGED upgraded
    BY <1>1 DEF Files, files, PersistInv, TypeOK
  <2>2. QED
    BY <1>2, <2>1, EndStep
<1>3. CASE ~Ends
  <2> DEFINE new == UNION {Published(r, systemConfiguration[r]) : r \in newConfiguration}
  <2>1. /\ posted' = Tail(posted) /\ newConfiguration' = {}
        /\ ifaces' = ifaces \cup new
        /\ UNCHANGED <<up, lastJson, systemConfiguration, saving, history>>
        /\ Head(posted) = "publish"
    BY <1>3 DEF PostToDbus
  <2>2. \A r \in newConfiguration : /\ r \in Record /\ r \in DOMAIN systemConfiguration
                                    /\ systemConfiguration[r] \in Board
    BY JsonIs DEF PersistInv, TypeOK, Awaiting
  <2>3. \A n \in new : \E r \in newConfiguration : n \in Published(r, systemConfiguration[r])
    OBVIOUS
  <2> HIDE DEF new
  <2>4. \A n \in new : n \in Iface /\ n.record \in newConfiguration
                       /\ n \in Published(n.record, systemConfiguration[n.record])
    BY <2>2, <2>3, PublishedAre
  <2>5. \A i \in ifaces : i \in Iface /\ i.record \notin newConfiguration
    BY DEF PersistInv, TypeOK, Seated
  <2>6. posted = <<"publish">> /\ posted' = <<>>
    <3>1. Head(<<"write", "publish">>) = "write" /\ Tail(<<"publish">>) = <<>>
      OBVIOUS
    <3>2. posted = <<"publish">>
      BY <1>1, <2>1, <3>1 DEF PersistInv, TypeOK
    <3>3. QED
      BY <2>1, <3>1, <3>2
  <2>7. TypeOK'
    <3>1. ifaces' \subseteq Iface
      BY <2>1, <2>4, <2>5
    <3>2. QED
      BY <1>1, <2>1, <2>6, <3>1 DEF PersistInv, TypeOK, files, history
  <2>8. Seated'
    <3>1. \A n \in new : /\ Reaches(n, systemConfiguration)
                         /\ n.reaches = "itself" => Stands(n, systemConfiguration)
      BY <2>2, <2>4, PublishedSeated DEF PersistInv, TypeOK
    <3>2. QED
      BY <2>1, <3>1 DEF PersistInv, Seated
  <2>9. Apart'
    <3> SUFFICES ASSUME NEW i \in ifaces \cup new, NEW j \in ifaces \cup new,
                        i.record = j.record, i.kind = j.kind, i.slot = j.slot, i.part = j.part
                 PROVE  i = j
      BY <2>1 DEF Apart
    <3>1. CASE i \in ifaces /\ j \in ifaces
      BY <3>1 DEF PersistInv, Apart
    <3>2. CASE i \in new /\ j \in new
      BY <2>2, <2>4, <3>2, PublishedApart
    <3>3. QED
      BY <2>4, <2>5, <3>1, <3>2
  <2>10. Down' /\ NeverBroken' /\ Awaiting' /\ NotUpgraded'
    BY <1>1, <2>1 DEF PersistInv, Down, NeverBroken, Awaiting, NotUpgraded, Free, files
  <2>11. OnDisk'
    <3>1. newConfiguration # {} => systemConfiguration # <<>>
      BY <2>2, NoJson
    <3>2. newConfiguration = {} => new = {}
      BY <2>3
    <3>3. QED
      BY <1>1, <2>1, <2>6, <3>1, <3>2 DEF PersistInv, OnDisk, Free, files, history
  <2>12. Kept' /\ Was'
    BY <1>1, <2>1 DEF PersistInv, Kept, Was, Files, files, history
  <2>13. QED
    BY <2>7, <2>8, <2>9, <2>10, <2>11, <2>12 DEF PersistInv
<1>4. QED
  BY <1>2, <1>3

\* The file operations of writeJsonFiles.
LEMMA FileStep ==
    ASSUME PersistInv, WriteTmp \/ SyncTmp \/ Rename \/ SyncDir \/ FileFails
    PROVE  PersistInv'
<1>1. /\ UNCHANGED <<up, lastJson, systemConfiguration, posted, newConfiguration,
                     ifaces, upgraded, was, excused>>
      /\ saving # "no"
      /\ saving' \in {"no", "written", "synced", "renamed"}
  BY DEF WriteTmp, SyncTmp, Rename, SyncDir, FileFails, File, RenamedAfter
<1>2. up /\ IsJson(systemConfiguration) /\ ~IsJson(Absent) /\ ~IsJson(Broken)
  BY <1>1, NoJson DEF PersistInv, Down, TypeOK
<1>3. \A r \in DOMAIN systemConfiguration : systemConfiguration[r] \in Board
  BY <1>2, JsonIs
<1>4. Files' \subseteq Files \cup {systemConfiguration}
  BY DEF WriteTmp, SyncTmp, Rename, SyncDir, FileFails, RenamedAfter, files, Files
<1>5. ops' \in 0..MaxOps
  BY BoundAssumption
  DEF PersistInv, TypeOK, WriteTmp, SyncTmp, Rename, SyncDir, FileFails, Spend
<1>6. failed' \in BOOLEAN
  BY DEF PersistInv, TypeOK, WriteTmp, SyncTmp, Rename, SyncDir, FileFails
<1>7. IsHistory(saved') /\ DOMAIN saved' \subseteq DOMAIN systemConfiguration
  <2>1. CASE SyncDir
    <3>1. saved' = [r \in DOMAIN systemConfiguration |-> {systemConfiguration[r]}]
      BY <2>1 DEF SyncDir
    <3>2. DOMAIN systemConfiguration \subseteq Record
      BY <1>2, JsonIs
    <3>3. QED
      BY <1>3, <3>1, <3>2 DEF IsHistory
  <2>2. CASE FileFails
    <3>1. saved' = [r \in DOMAIN saved |-> saved[r] \cup {systemConfiguration[r]}]
      BY <2>2 DEF FileFails
    <3>2. DOMAIN saved \subseteq DOMAIN systemConfiguration
      BY DEF PersistInv, Kept
    <3>3. QED
      BY <1>3, <3>1, <3>2 DEF PersistInv, TypeOK, IsHistory
  <2>3. CASE WriteTmp \/ SyncTmp \/ Rename
    BY <2>3 DEF WriteTmp, SyncTmp, Rename, PersistInv, TypeOK, Kept
  <2>4. QED
    BY <2>1, <2>2, <2>3
<1>8. TypeOK'
  <2>1. \A f \in Files' : f \in {Absent, Broken} \/ IsJson(f)
    BY <1>2, <1>4 DEF PersistInv, TypeOK, Files
  <2>2. QED
    BY <1>1, <1>5, <1>6, <1>7, <2>1 DEF PersistInv, TypeOK, Files
<1>9. NeverBroken'
  BY <1>2, <1>4 DEF PersistInv, NeverBroken, Files
<1>10. Down' /\ Seated' /\ Apart' /\ Awaiting' /\ NotUpgraded'
  BY <1>1, <1>2 DEF PersistInv, Down, Seated, Apart, Awaiting, NotUpgraded
<1>11. OnDisk'
  <2>1. CASE SyncDir
    BY <1>1, <2>1 DEF PersistInv, OnDisk, SyncDir, File
  <2>2. CASE FileFails
    BY <2>2 DEF OnDisk, FileFails
  <2>3. CASE Rename
    BY <1>1, <2>3 DEF OnDisk, Rename, File
  <2>4. CASE WriteTmp \/ SyncTmp
    BY <2>4 DEF OnDisk, WriteTmp, SyncTmp, File
  <2>5. QED
    BY <2>1, <2>2, <2>3, <2>4
<1>12. Kept'
  <2> SUFFICES ASSUME NEW r \in DOMAIN saved', NEW f \in Files'
               PROVE  /\ IsJson(f) /\ r \in DOMAIN f
                      /\ \/ f[r] \in saved'[r]
                         \/ saving' = "renamed" /\ f[r] = systemConfiguration'[r]
    BY <1>1, <1>7 DEF Kept
  <2>1. CASE SyncDir
    <3>1. /\ Files' = {current} /\ current = systemConfiguration
          /\ saved' = [q \in DOMAIN systemConfiguration |-> {systemConfiguration[q]}]
      BY <2>1 DEF SyncDir, File, Files, PersistInv, OnDisk
    <3>2. QED
      BY <1>2, <3>1
  <2>2. CASE FileFails
    <3>1. /\ Files' = Files
          /\ saved' = [q \in DOMAIN saved |-> saved[q] \cup {systemConfiguration[q]}]
      BY <2>2 DEF FileFails, Files, files
    <3>2. QED
      BY <3>1 DEF PersistInv, Kept
  <2>3. CASE Rename
    <3>1. /\ saving = "synced" /\ saving' = "renamed" /\ saved' = saved
          /\ systemConfiguration' = systemConfiguration
      BY <2>3 DEF Rename, File, RenamedAfter
    <3>2. CASE f \in Files
      BY <3>1, <3>2 DEF PersistInv, Kept
    <3>3. CASE f = systemConfiguration
      BY <1>2, <1>7, <3>1, <3>3
    <3>4. QED
      BY <1>4, <3>2, <3>3
  <2>4. CASE WriteTmp \/ SyncTmp
    <3>1. Files' = Files /\ saved' = saved /\ saving # "renamed"
      BY <2>4 DEF WriteTmp, SyncTmp, File, Files, files
    <3>2. QED
      BY <3>1 DEF PersistInv, Kept
  <2>5. QED
    BY <2>1, <2>2, <2>3, <2>4
<1>13. Was'
  BY <1>1, <1>2 DEF PersistInv, Was
<1>14. QED
  BY <1>8, <1>9, <1>10, <1>11, <1>12, <1>13 DEF PersistInv

-----------------------------------------------------------------------------
(* The invariant holds, and what follows from it. *)

LEMMA PersistInit == Init => PersistInv
<1> SUFFICES ASSUME Init PROVE PersistInv
  OBVIOUS
<1>1. TypeOK
  <2>0. up \in BOOLEAN /\ upgraded \in BOOLEAN /\ failed \in BOOLEAN
    BY DEF Init
  <2>1. ops \in 0..MaxOps
    BY BoundAssumption DEF Init
  <2>2. /\ IsJson(lastJson) /\ IsJson(systemConfiguration)
        /\ IsHistory(saved) /\ IsHistory(was)
    BY NoJson, NoHistory DEF Init
  <2>3. \A f \in afterLoss \cup {current} : f \in {Absent, Broken} \/ IsJson(f)
    BY DEF Init
  <2>4. /\ posted = <<>> /\ newConfiguration = {} /\ ifaces = {} /\ saving = "no"
        /\ excused = {}
    BY DEF Init
  <2>5. QED
    BY <2>0, <2>1, <2>2, <2>3, <2>4 DEF TypeOK
<1>2. Down /\ Seated /\ Apart /\ Awaiting /\ OnDisk /\ NotUpgraded
  BY DEF Init, Down, Seated, Apart, Awaiting, OnDisk, NotUpgraded
<1>3. NeverBroken
  BY FileAssumption DEF Init, NeverBroken
<1>4. Kept /\ Was
  BY NoJson DEF Init, Kept, Was
<1>5. QED
  BY <1>1, <1>2, <1>3, <1>4 DEF PersistInv

LEMMA PersistStep == PersistInv /\ [Next]_vars => PersistInv'
<1> SUFFICES ASSUME PersistInv, [Next]_vars PROVE PersistInv'
  OBVIOUS
<1>1. CASE Start
  BY <1>1, StartStep
<1>2. CASE Scan
  BY <1>2, ScanStep
<1>3. CASE PostedWrite
  BY <1>3, PostedWriteStep
<1>4. CASE PostToDbus
  BY <1>4, PostStep
<1>5. CASE WriteTmp \/ SyncTmp \/ Rename \/ SyncDir \/ FileFails
  BY <1>5, FileStep
<1>6. CASE Call
  BY <1>6, SetStep, DeleteStep, AddStep DEF Call
<1>7. CASE Crash
  <2>1. Ends /\ Files' = Files /\ ops' \in 0..MaxOps /\ UNCHANGED upgraded
    BY <1>7, BoundAssumption DEF Crash, Spend, Files, files, PersistInv, TypeOK
  <2>2. QED
    BY <2>1, EndStep
<1>8. CASE PowerLoss
  <2>1. Ends /\ Files' \subseteq Files /\ ops' \in 0..MaxOps /\ UNCHANGED upgraded
    BY <1>8, BoundAssumption DEF PowerLoss, Spend, Files, PersistInv, TypeOK
  <2>2. QED
    BY <2>1, EndStep
<1>9. CASE Upgrade
  BY <1>9, UpgradeStep
<1>10. CASE UNCHANGED vars
  BY <1>10 DEF vars, files, history, PersistInv, TypeOK, Down, NeverBroken, Seated, Apart,
               Awaiting, OnDisk, Kept, Was, NotUpgraded, Files
<1>11. QED
  BY <1>1, <1>2, <1>3, <1>4, <1>5, <1>6, <1>7, <1>8, <1>9, <1>10 DEF Next, Handler, Fault

LEMMA Persists == Spec => []PersistInv
BY PersistInit, PersistStep, PTL DEF Spec

\* Every value in memory, on D-Bus and in the file is one of its type.
THEOREM TypeCorrect == Spec => []TypeOK
<1>1. PersistInv => TypeOK
  BY DEF PersistInv
<1>2. QED
  BY <1>1, Persists, PTL

\* system.json always parses: it is renamed into place only once it is synced, so
\* that neither a crash nor a power loss leaves half of it.
THEOREM FileAlwaysParses == Spec => []NeverBroken
<1>1. PersistInv => NeverBroken
  BY DEF PersistInv
<1>2. QED
  BY <1>1, Persists, PTL

\* No two interfaces reach the same JSON, whatever was added and deleted: a new
\* element goes to a place no interface reaches.
THEOREM PlacesAreApart == Spec => []OwnSlot
<1>1. PersistInv => OwnSlot
  BY DEF PersistInv, Apart, OwnSlot
<1>2. QED
  BY <1>1, Persists, PTL

\* What a client has set, and an object it has added, is in the file when the call
\* has returned and no file operation has failed.
THEOREM SettingsAreSaved == Spec => []SetIsSaved
<1>1. PersistInv => SetIsSaved
  <2> SUFFICES ASSUME PersistInv, Free, posted = <<>>, ~failed,
                      NEW i \in ifaces, i.reaches = "itself"
               PROVE  Stands(i, current) /\ afterLoss = {current}
    BY DEF SetIsSaved
  <2>1. current = systemConfiguration /\ afterLoss = {current}
    BY DEF PersistInv, OnDisk, Free
  <2>2. Stands(i, systemConfiguration)
    BY DEF PersistInv, Seated
  <2>3. QED
    BY <2>1, <2>2
<1>2. QED
  BY <1>1, Persists, PTL

\* A record an earlier process had saved is restored as that process left it.
THEOREM RecordsReturn == Spec => ReturnsAsItWas
<1>1. PersistInv /\ [Next]_vars =>
         [\A r \in DOMAIN systemConfiguration' \ DOMAIN systemConfiguration :
             r \in DOMAIN was /\ r \notin excused =>
                systemConfiguration'[r] \in {pruneRecordExposes(b) : b \in was[r]}]_vars
  <2> SUFFICES ASSUME PersistInv, Next,
                      NEW r \in DOMAIN systemConfiguration' \ DOMAIN systemConfiguration,
                      r \in DOMAIN was, r \notin excused
               PROVE  systemConfiguration'[r] \in {pruneRecordExposes(b) : b \in was[r]}
    OBVIOUS
  <2>1. CASE Scan
    <3>1. PICK found \in Found :
             systemConfiguration' = [q \in DOMAIN systemConfiguration \cup found |-> Restored(q)]
      BY <2>1 DEF Scan
    <3>2. systemConfiguration'[r] = Restored(r)
      BY <3>1
    <3>3. r \in DOMAIN lastJson /\ lastJson[r] \in was[r]
      BY <2>1 DEF PersistInv, Was, Scan, Free
    <3>4. QED
      BY <3>2, <3>3 DEF Restored
  <2>2. CASE ~Scan
    <3>1. CASE Call
      <4>1. \E q \in DOMAIN systemConfiguration : \E b :
               \/ systemConfiguration' = [systemConfiguration EXCEPT ![q] = b]
               \/ UNCHANGED systemConfiguration
        BY <3>1, ReachedIs DEF Call, SetProperty, Delete, AddObject, Boards
      <4>2. QED
        BY <4>1
    <3>2. CASE PostToDbus \/ Crash \/ PowerLoss
      BY <3>2, NoJson DEF PostToDbus, Crash, PowerLoss, Ends
    <3>3. CASE Start \/ PostedWrite \/ WriteTmp \/ SyncTmp \/ Rename \/ SyncDir \/ FileFails \/ Upgrade
      BY <3>3 DEF Start, PostedWrite, WriteTmp, SyncTmp, Rename, SyncDir, FileFails, Upgrade, File
    <3>4. QED
      BY <2>2, <3>1, <3>2, <3>3 DEF Next, Handler, Fault
  <2>3. QED
    BY <2>1, <2>2
<1>2. QED
  BY <1>1, Persists, PTL DEF Spec, ReturnsAsItWas

-----------------------------------------------------------------------------
(* FRU updates.  Parts of sequences. *)

\* A part of a sequence of bytes.
LEMMA PartIs ==
    ASSUME NEW s \in Seq(Nat), NEW m \in Nat, NEW n \in Int, m >= 1, n <= Len(s), n >= m - 1
    PROVE  /\ SubSeq(s, m, n) \in Seq(Nat)
           /\ Len(SubSeq(s, m, n)) = n - m + 1
           /\ \A i \in 1..n - m + 1 : SubSeq(s, m, n)[i] = s[m + i - 1]
<1>1. Len(s) \in Nat /\ \A i \in 1..Len(s) : s[i] \in Nat
  OBVIOUS
<1>2. m \in Int /\ \A i \in m..n : i \in 1..Len(s)
  BY <1>1
<1>3. \A i \in m..n : s[i] \in Nat
  BY <1>1, <1>2
<1>4. /\ SubSeq(s, m, n) \in Seq(Nat)
      /\ Len(SubSeq(s, m, n)) = IF m <= n THEN n - m + 1 ELSE 0
      /\ \A i \in 1..n - m + 1 : SubSeq(s, m, n)[i] = s[m + i - 1]
  BY <1>2, <1>3, SubSeqProperties
<1>5. QED
  BY <1>4

\* Two sequences of bytes, one behind the other.
LEMMA JoinIs ==
    ASSUME NEW s \in Seq(Nat), NEW t \in Seq(Nat)
    PROVE  /\ s \o t \in Seq(Nat) /\ Len(s \o t) = Len(s) + Len(t)
           /\ \A i \in 1..Len(s) : (s \o t)[i] = s[i]
           /\ \A i \in 1..Len(t) : (s \o t)[Len(s) + i] = t[i]
OBVIOUS

\* The same of sequences that have names.
LEMMA JoinedNames ==
    ASSUME NEW s \in Seq(Nat), NEW t \in Seq(Nat), NEW j, j = s \o t
    PROVE  /\ j \in Seq(Nat) /\ Len(j) = Len(s) + Len(t)
           /\ \A i \in 1..Len(s) : j[i] = s[i]
           /\ \A i \in 1..Len(t) : j[Len(s) + i] = t[i]
BY JoinIs

\* The first bytes of a sequence.
LEMMA FrontNames ==
    ASSUME NEW s \in Seq(Nat), NEW m \in Nat, NEW t, m <= Len(s), t = SubSeq(s, 1, m)
    PROVE  t \in Seq(Nat) /\ Len(t) = m /\ \A i \in 1..m : t[i] = s[i]
<1>1. 1 \in Nat /\ m \in Int /\ 1 >= 1 /\ m >= 1 - 1 /\ m - 1 + 1 = m
  OBVIOUS
<1>2. \A i \in 1..m : 1 + i - 1 = i
  OBVIOUS
<1>3. t \in Seq(Nat) /\ Len(t) = m - 1 + 1 /\ \A i \in 1..m - 1 + 1 : t[i] = s[1 + i - 1]
  BY <1>1, PartIs
<1>4. QED
  BY <1>1, <1>2, <1>3

LEMMA SameElements ==
    ASSUME NEW s \in Seq(Nat), NEW t \in Seq(Nat), NEW m \in Nat,
           Len(s) = m, Len(t) = m, \A i \in 1..m : s[i] = t[i]
    PROVE  s = t
OBVIOUS

-----------------------------------------------------------------------------
(* Lists of records. *)

\* The record behind one begins behind its header.
LEMMA HaveIs ==
    ASSUME NEW bytes \in Seq(Nat), NEW pos \in Nat
    PROVE  /\ Have(bytes, pos) \in Nat
           /\ NextRecord(bytes, pos) \in Nat /\ NextRecord(bytes, pos) >= pos + 5
<1>1. ASSUME NEW p \in Nat PROVE Have(bytes, p) \in Nat
  <2>1. p < Len(bytes) => p + 1 \in 1..Len(bytes)
    BY <1>1
  <2>2. p < Len(bytes) => bytes[p + 1] \in Nat
    BY <2>1
  <2>3. QED
    BY <2>2 DEF Have, At
<1>2. Have(bytes, pos) \in Nat /\ Have(bytes, pos + 2) \in Nat
  BY <1>1
<1>3. QED
  BY <1>2 DEF NextRecord, multiRecordHeaderSize

IsLastRecord(bytes, pos) == Have(bytes, pos + 1) >= 128

\* Behind the bytes the list ends.
LEMMA BehindTheBytes ==
    ASSUME NEW bytes \in Seq(Nat), NEW pos \in Nat, pos >= Len(bytes)
    PROVE  IsLastRecord(bytes, pos)
BY DEF IsLastRecord, Have

\* A list that runs into the end of the bytes ends there.
LEMMA LastRecordEndIs ==
    ASSUME NEW bytes \in Seq(Nat), NEW first \in Nat
    PROVE  LastRecordEnd(bytes, first) =
               IF IsLastRecord(bytes, first) THEN NextRecord(bytes, first)
               ELSE LastRecordEnd(bytes, NextRecord(bytes, first))
<1> DEFINE From(m) == {x \in Nat : x + m >= Len(bytes)}
           Is(f, S) == f = [x \in S |->
                               IF IsLastRecord(bytes, x) THEN NextRecord(bytes, x)
                               ELSE f[NextRecord(bytes, x)]]
           T == {m \in 0..Len(bytes) : \E f : Is(f, From(m))}
<1>0. Len(bytes) \in Nat
  OBVIOUS
<1>1. 0 \in T
  <2> DEFINE last == [x \in From(0) |-> NextRecord(bytes, x)]
  <2>1. ASSUME NEW x \in From(0) PROVE IsLastRecord(bytes, x)
    BY <2>1, BehindTheBytes
  <2>2. Is(last, From(0))
    BY <2>1
  <2>3. 0 \in 0..Len(bytes)
    OBVIOUS
  <2> HIDE DEF last, Is, From
  <2>4. QED
    BY <2>2, <2>3
<1>2. ASSUME NEW m \in 0..Len(bytes) - 1, m \in T PROVE m + 1 \in T
  <2>1. PICK f : Is(f, From(m))
    BY <1>2
  <2>2. PICK y : y = Len(bytes) - (m + 1)
    OBVIOUS
  <2>3. /\ y \in Nat /\ m + 1 \in 0..Len(bytes) /\ y \in From(m + 1)
        /\ \A x \in From(m + 1) : x # y => x \in From(m)
        /\ \A x \in From(m) : x \in From(m + 1) /\ x # y /\ x \in Nat
    BY <1>0, <1>2, <2>2
  <2>4. \A x \in From(m) :
            f[x] = IF IsLastRecord(bytes, x) THEN NextRecord(bytes, x)
                   ELSE f[NextRecord(bytes, x)]
    BY <2>1
  <2>5. ASSUME NEW x \in From(m + 1) PROVE NextRecord(bytes, x) \in From(m)
    <3>1. x \in Nat /\ NextRecord(bytes, x) \in Nat /\ NextRecord(bytes, x) >= x + 5
      BY <2>5, HaveIs
    <3>2. QED
      BY <1>0, <1>2, <2>5, <3>1
  <2> HIDE DEF Is, From
  <2> DEFINE g == [x \in From(m + 1) |->
                      IF x = y
                      THEN IF IsLastRecord(bytes, y) THEN NextRecord(bytes, y)
                           ELSE f[NextRecord(bytes, y)]
                      ELSE f[x]]
  <2>6. ASSUME NEW x \in From(m) PROVE g[x] = f[x]
    BY <2>3, <2>6
  <2>7. ASSUME NEW x \in From(m + 1)
        PROVE  g[x] = IF IsLastRecord(bytes, x) THEN NextRecord(bytes, x)
                      ELSE g[NextRecord(bytes, x)]
    <3>1. g[NextRecord(bytes, x)] = f[NextRecord(bytes, x)]
      BY <2>5, <2>6, <2>7
    <3>2. CASE x = y
      BY <2>7, <3>1, <3>2
    <3>3. CASE x # y
      <4>1. x \in From(m)
        BY <2>3, <2>7, <3>3
      <4>2. g[x] = f[x]
        BY <2>6, <4>1
      <4>3. f[x] = IF IsLastRecord(bytes, x) THEN NextRecord(bytes, x)
                   ELSE f[NextRecord(bytes, x)]
        BY <2>4, <4>1
      <4> HIDE DEF g
      <4>4. QED
        BY <3>1, <4>2, <4>3
    <3>4. QED
      BY <3>2, <3>3
  <2>8. g = [x \in From(m + 1) |-> g[x]]
    OBVIOUS
  <2> HIDE DEF g
  <2>9. Is(g, From(m + 1))
    BY <2>7, <2>8 DEF Is
  <2>10. QED
    BY <2>3, <2>9
<1>3. \E f : Is(f, From(Len(bytes)))
  <2>1. Len(bytes) \in 0..Len(bytes)
    OBVIOUS
  <2> HIDE DEF T
  <2>2. Len(bytes) \in T
    BY <1>0, <1>1, <1>2, <2>1, UpTo
  <2> USE DEF T
  <2>3. QED
    BY <2>2
<1>4. \E f : Is(f, Nat)
  <2>1. From(Len(bytes)) = Nat
    BY <1>0
  <2> HIDE DEF From, Is
  <2>2. QED
    BY <1>3, <2>1
<1>5. PICK f : Is(f, Nat) /\ f = CHOOSE h : Is(h, Nat)
  <2> HIDE DEF Is
  <2>1. QED
    BY <1>4
<1>6. \A x : LastRecordEnd(bytes, x) = f[x]
  <2>1. \A x : LastRecordEnd(bytes, x) = (CHOOSE h : Is(h, Nat))[x]
    BY DEF LastRecordEnd, IsLastRecord
  <2> HIDE DEF Is
  <2>2. QED
    BY <1>5, <2>1
<1>7. f[first] = IF IsLastRecord(bytes, first) THEN NextRecord(bytes, first)
                 ELSE f[NextRecord(bytes, first)]
  <2>1. Is(f, Nat)
    <3> HIDE DEF Is
    <3>1. QED
      BY <1>5
  <2>2. QED
    BY <2>1
<1> HIDE DEF Is
<1>8. QED
  BY <1>6, <1>7

\* A list of records is at least as long as a header.
LEMMA LastRecordEndGrows ==
    ASSUME NEW bytes \in Seq(Nat), NEW first \in Nat
    PROVE  LastRecordEnd(bytes, first) \in Nat /\ LastRecordEnd(bytes, first) >= first + 5
<1> DEFINE Good(x) == LastRecordEnd(bytes, x) \in Nat /\ LastRecordEnd(bytes, x) >= x + 5
           T == {m \in 0..Len(bytes) : \A x \in Nat : x + m >= Len(bytes) => Good(x)}
<1>0. Len(bytes) \in Nat
  OBVIOUS
<1>a. ASSUME NEW x \in Nat, Good(NextRecord(bytes, x)) \/ IsLastRecord(bytes, x) PROVE Good(x)
  <2>1. NextRecord(bytes, x) \in Nat /\ NextRecord(bytes, x) >= x + 5
    BY HaveIs
  <2>2. LastRecordEnd(bytes, x) = IF IsLastRecord(bytes, x) THEN NextRecord(bytes, x)
                                  ELSE LastRecordEnd(bytes, NextRecord(bytes, x))
    BY LastRecordEndIs
  <2>3. QED
    BY <1>a, <2>1, <2>2
<1>1. 0 \in T
  <2>1. ASSUME NEW x \in Nat, x + 0 >= Len(bytes) PROVE Good(x)
    <3>1. IsLastRecord(bytes, x)
      BY <2>1, BehindTheBytes
    <3> HIDE DEF Good
    <3>2. QED
      BY <1>a, <3>1
  <2> HIDE DEF Good
  <2>2. QED
    BY <1>0, <2>1
<1>2. ASSUME NEW m \in 0..Len(bytes) - 1, m \in T PROVE m + 1 \in T
  <2>1. \A x \in Nat : x + m >= Len(bytes) => Good(x)
    BY <1>2
  <2>2. ASSUME NEW x \in Nat, x + (m + 1) >= Len(bytes) PROVE Good(x)
    <3>1. NextRecord(bytes, x) \in Nat /\ NextRecord(bytes, x) >= x + 5
      BY HaveIs
    <3>2. NextRecord(bytes, x) + m >= Len(bytes)
      BY <1>0, <1>2, <2>2, <3>1
    <3> HIDE DEF Good
    <3>3. QED
      BY <1>a, <2>1, <3>1, <3>2
  <2> HIDE DEF Good
  <2>3. QED
    BY <1>0, <1>2, <2>2
<1>3. Len(bytes) \in T
  <2>1. Len(bytes) \in 0..Len(bytes)
    OBVIOUS
  <2> HIDE DEF T
  <2>2. QED
    BY <1>0, <1>1, <1>2, <2>1, UpTo
<1> HIDE DEF Good
<1>4. first + Len(bytes) >= Len(bytes)
  BY <1>0
<1>5. Good(first)
  BY <1>3, <1>4
<1>6. QED
  BY <1>5 DEF Good

\* The bytes of s from b on, m of them, are those of t from d on.
Same(s, b, t, d, m) ==
    /\ b + m <= Len(s) /\ d + m <= Len(t)
    /\ \A k \in 0..m - 1 : At(s, b + k) = At(t, d + k)

\* A list of records that is whole is as long where its bytes are copied to.
LEMMA RecordsMove ==
    ASSUME NEW s \in Seq(Nat), NEW t \in Seq(Nat), NEW b \in Nat, NEW d \in Nat, NEW m \in Nat,
           Same(s, b, t, d, m), LastRecordEnd(s, b) <= b + m
    PROVE  LastRecordEnd(t, d) - d = LastRecordEnd(s, b) - b
<1> DEFINE Good(j) == LastRecordEnd(s, b + j) <= b + m
                        => LastRecordEnd(t, d + j) - d = LastRecordEnd(s, b + j) - b
           T == {i \in 0..m : \A j \in Nat : j + i >= m => Good(j)}
<1>0. Len(s) \in Nat /\ Len(t) \in Nat
  OBVIOUS
<1>a. ASSUME NEW j \in Nat, LastRecordEnd(s, b + j) <= b + m
      PROVE  /\ j + 5 <= m
             /\ IsLastRecord(s, b + j) = IsLastRecord(t, d + j)
             /\ NextRecord(t, d + j) - d = NextRecord(s, b + j) - b
             /\ NextRecord(s, b + j) - b \in Nat /\ NextRecord(s, b + j) - b >= j + 5
  <2>1. LastRecordEnd(s, b + j) \in Nat /\ LastRecordEnd(s, b + j) >= b + j + 5
    <3>1. b + j \in Nat
      OBVIOUS
    <3>2. QED
      BY <3>1, LastRecordEndGrows
  <2>2. j + 5 <= m
    BY <1>a, <2>1
  <2>3. ASSUME NEW i \in {1, 2} PROVE Have(s, b + j + i) = Have(t, d + j + i)
    <3>1. j + i \in 0..m - 1
      BY <2>2, <2>3
    <3>2. At(s, b + (j + i)) = At(t, d + (j + i))
      BY <3>1 DEF Same
    <3>3. b + (j + i) = b + j + i /\ d + (j + i) = d + j + i
      BY <2>3
    <3>4. b + j + i < Len(s) /\ d + j + i < Len(t)
      BY <1>0, <3>1, <3>3 DEF Same
    <3>5. QED
      BY <3>2, <3>3, <3>4 DEF Have
  <2>4. /\ Have(s, b + j + 1) = Have(t, d + j + 1) /\ Have(s, b + j + 2) = Have(t, d + j + 2)
        /\ Have(s, b + j + 2) \in Nat
    <3>1. b + j + 2 \in Nat
      OBVIOUS
    <3>2. QED
      BY <2>3, <3>1, HaveIs
  <2>5. IsLastRecord(s, b + j) = IsLastRecord(t, d + j)
    BY <2>4 DEF IsLastRecord
  <2>6. PICK h \in Nat : h = Have(s, b + j + 2)
    BY <2>4
  <2>7. NextRecord(s, b + j) = b + j + h + 5 /\ NextRecord(t, d + j) = d + j + h + 5
    BY <2>4, <2>6 DEF NextRecord, multiRecordHeaderSize
  <2>8. QED
    BY <2>2, <2>5, <2>7
<1>1. 0 \in T
  <2>1. ASSUME NEW j \in Nat, j + 0 >= m PROVE ~(LastRecordEnd(s, b + j) <= b + m)
    <3>1. ~(j + 5 <= m)
      BY <2>1
    <3>2. QED
      BY <1>a, <3>1
  <2>2. \A j \in Nat : j + 0 >= m => Good(j)
    BY <2>1
  <2> HIDE DEF Good
  <2>3. QED
    BY <2>2
<1>2. ASSUME NEW i \in 0..m - 1, i \in T PROVE i + 1 \in T
  <2>1. \A j \in Nat : j + i >= m => Good(j)
    BY <1>2
  <2>2. ASSUME NEW j \in Nat, j + (i + 1) >= m, LastRecordEnd(s, b + j) <= b + m
        PROVE  LastRecordEnd(t, d + j) - d = LastRecordEnd(s, b + j) - b
    <3>1. PICK x : x = b + j /\ x \in Nat
      OBVIOUS
    <3>2. PICK y : y = d + j /\ y \in Nat
      OBVIOUS
    <3>3. /\ LastRecordEnd(s, x) = IF IsLastRecord(s, x) THEN NextRecord(s, x)
                                   ELSE LastRecordEnd(s, NextRecord(s, x))
          /\ LastRecordEnd(t, y) = IF IsLastRecord(t, y) THEN NextRecord(t, y)
                                   ELSE LastRecordEnd(t, NextRecord(t, y))
      BY <3>1, <3>2, LastRecordEndIs
    <3>4. /\ IsLastRecord(s, x) = IsLastRecord(t, y)
          /\ NextRecord(t, y) - d = NextRecord(s, x) - b
          /\ NextRecord(s, x) - b \in Nat /\ NextRecord(s, x) - b >= j + 5
      BY <1>a, <2>2, <3>1, <3>2
    <3>5. PICK n \in Nat : n = NextRecord(s, x) - b
      BY <3>4
    <3>6. NextRecord(s, x) \in Nat /\ NextRecord(t, y) \in Nat
      BY <3>1, <3>2, HaveIs
    <3>7. NextRecord(s, x) = b + n /\ NextRecord(t, y) = d + n
      BY <3>4, <3>5, <3>6
    <3>8. Good(n)
      <4>1. n + i >= m
        BY <1>2, <2>2, <3>4, <3>5
      <4> HIDE DEF Good
      <4>2. QED
        BY <2>1, <4>1
    <3>9. CASE IsLastRecord(s, x)
      BY <3>1, <3>2, <3>3, <3>4, <3>9
    <3>10. CASE ~IsLastRecord(s, x)
      <4>1. /\ LastRecordEnd(s, x) = LastRecordEnd(s, b + n)
            /\ LastRecordEnd(t, y) = LastRecordEnd(t, d + n)
        BY <3>3, <3>4, <3>7, <3>10
      <4>2. QED
        BY <2>2, <3>1, <3>2, <3>8, <4>1
    <3>11. QED
      BY <3>9, <3>10
  <2>3. \A j \in Nat : j + (i + 1) >= m => Good(j)
    BY <2>2
  <2> HIDE DEF Good
  <2>4. QED
    BY <1>2, <2>3
<1>3. m \in T
  <2>1. m \in 0..m
    OBVIOUS
  <2> HIDE DEF T
  <2>2. QED
    BY <1>1, <1>2, <2>1, UpTo
<1>4. Good(0)
  <2> HIDE DEF Good
  <2>1. 0 + m >= m
    OBVIOUS
  <2>2. QED
    BY <1>3, <2>1
<1>5. QED
  BY <1>4

-----------------------------------------------------------------------------
(* Checksums. *)

LEMMA ByteOf == \A x \in Nat : x % 256 \in 0..255 /\ x % 256 \in Nat
OBVIOUS

\* A checksum is a number.
LEMMA ChecksumIs ==
    ASSUME NEW bytes \in Seq(Nat)
    PROVE  calculateChecksum(bytes) \in Nat
<1> DEFINE N == Len(bytes)
           Is(f, m) == f = [n \in 0..m |-> IF n = 0 THEN 0 ELSE (f[n - 1] + bytes[n]) % 256]
           T == {m \in 0..N : \E f : Is(f, m)}
<1>0. N \in Nat /\ \A n \in 1..N : bytes[n] \in Nat
  OBVIOUS
<1> HIDE DEF N
<1>1. 0 \in T
  <2>1. 0 \in 0..N /\ Is([n \in 0..0 |-> 0], 0)
    BY <1>0
  <2> HIDE DEF Is
  <2>2. QED
    BY <2>1
<1>2. ASSUME NEW m \in 0..N - 1, m \in T PROVE m + 1 \in T
  <2>1. PICK f : Is(f, m)
    BY <1>2
  <2> DEFINE g == [n \in 0..m + 1 |-> IF n = m + 1 THEN (f[m] + bytes[m + 1]) % 256 ELSE f[n]]
  <2>2. m + 1 \in 0..N /\ Is(g, m + 1)
    BY <1>0, <2>1
  <2> HIDE DEF g, Is
  <2>3. QED
    BY <2>2
<1>3. \E f : Is(f, N)
  <2>1. N \in 0..N
    BY <1>0
  <2> HIDE DEF T
  <2>2. N \in T
    BY <1>0, <1>1, <1>2, <2>1, UpTo
  <2> USE DEF T
  <2>3. QED
    BY <2>2
<1>4. calculateChecksum(bytes) = (256 - (CHOOSE f : Is(f, N))[N]) % 256
  BY DEF calculateChecksum, N
<1>5. PICK f : Is(f, N) /\ f = CHOOSE h : Is(h, N)
  <2> HIDE DEF Is
  <2>1. QED
    BY <1>3
<1>6. \A n \in 0..N : f[n] = IF n = 0 THEN 0 ELSE (f[n - 1] + bytes[n]) % 256
  <2>1. Is(f, N)
    <3> HIDE DEF Is
    <3>1. QED
      BY <1>5
  <2>2. QED
    BY <2>1
<1> HIDE DEF Is
<1>7. f[N] \in 0..255
  <2> DEFINE R == {n \in 0..N : f[n] \in 0..255}
  <2>1. 0 \in R
    BY <1>0, <1>6
  <2>2. ASSUME NEW m \in 0..N - 1, m \in R PROVE m + 1 \in R
    <3>a. f[m] \in 0..255
      BY <2>2
    <3>b. \A y \in 0..255 : y \in Nat
      OBVIOUS
    <3>c. m + 1 \in 0..N /\ m + 1 # 0 /\ m + 1 - 1 = m /\ m + 1 \in 1..N
      BY <1>0, <2>2
    <3>1. m + 1 \in 0..N /\ m + 1 # 0 /\ m + 1 - 1 = m /\ m + 1 \in 1..N /\ f[m] \in Nat
      BY <3>a, <3>b, <3>c
    <3>2. f[m + 1] = (f[m] + bytes[m + 1]) % 256
      BY <1>6, <3>1
    <3>3. PICK x \in Nat : x = f[m] + bytes[m + 1]
      BY <1>0, <3>1
    <3>4. x % 256 \in 0..255
      BY ByteOf
    <3>5. QED
      BY <3>1, <3>2, <3>3, <3>4
  <2> HIDE DEF R
  <2>3. \A m \in 0..N : m \in R
    BY <1>0, <2>1, <2>2, UpTo
  <2>4. N \in R
    BY <1>0, <2>3
  <2>5. QED
    BY <2>4 DEF R
<1>8. PICK x \in 1..256 : x = 256 - f[N]
  <2>1. PICK y \in 0..255 : y = f[N]
    BY <1>7
  <2>2. 256 - y \in 1..256
    OBVIOUS
  <2>3. QED
    BY <2>1, <2>2
<1>9. x % 256 \in Nat
  BY ByteOf
<1>10. QED
  BY <1>4, <1>5, <1>8, <1>9

\* Only the last byte is changed, to the checksum of the others.
LEMMA SealedIs ==
    ASSUME NEW bytes \in Seq(Nat), Len(bytes) >= 1
    PROVE  /\ Sealed(bytes) \in Seq(Nat)
           /\ Len(Sealed(bytes)) = Len(bytes)
           /\ \A i \in 1..Len(bytes) - 1 : Sealed(bytes)[i] = bytes[i]
           /\ Sealed(bytes)[Len(bytes)] = calculateChecksum(SubSeq(bytes, 1, Len(bytes) - 1))
<1>1. PICK N \in Nat : N = Len(bytes) /\ N >= 1
  OBVIOUS
<1>2. PICK body : body = SubSeq(bytes, 1, N - 1)
  OBVIOUS
<1>3. body \in Seq(Nat) /\ Len(body) = N - 1 /\ \A i \in 1..N - 1 : body[i] = bytes[i]
  BY <1>1, <1>2
<1>4. calculateChecksum(body) \in Nat
  BY <1>3, ChecksumIs
<1>5. Sealed(bytes) = Append(body, calculateChecksum(body))
  BY <1>1, <1>2 DEF Sealed
<1>6. QED
  BY <1>1, <1>2, <1>3, <1>4, <1>5

-----------------------------------------------------------------------------
(* Fields. *)

Walk(ok, bytes, index, length, next) ==
    [ok |-> ok, bytes |-> bytes, index |-> index, length |-> length, next |-> next]

\* Where the walk over the fields of an area is.
Walking(s) ==
    /\ \E ok, bytes, index, length, next : s = Walk(ok, bytes, index, length, next)
    /\ s.ok => s.bytes \in Seq(Nat) /\ s.next \in Nat

\* A field is all there.
AtField(s) ==
    s.ok => /\ s.bytes \in Seq(Nat) /\ s.index \in Nat /\ s.length \in Nat
            /\ s.index + 1 + s.length <= Len(s.bytes)

LEMMA FieldLengthIs ==
    ASSUME NEW c \in Nat, c # EndOfFields
    PROVE  getFieldLength(c) \in 0..63 /\ getFieldLength(c) \in Nat
BY DEF getFieldLength

\* A byte is inserted.
LEMMA InsertedIs ==
    ASSUME NEW bytes \in Seq(Nat), NEW i \in 1..Len(bytes), NEW x \in Nat
    PROVE  /\ InsertAt(bytes, i, x) \in Seq(Nat)
           /\ Len(InsertAt(bytes, i, x)) = Len(bytes) + 1
           /\ InsertAt(bytes, i, x)[i] = x
<1>1. PICK N \in Nat : N = Len(bytes)
  OBVIOUS
<1>2. PICK m \in Nat : m = i - 1
  OBVIOUS
<1>3. i \in Nat /\ i = m + 1 /\ m <= N /\ 1 \in Nat /\ m \in Int /\ N \in Int
  BY <1>1, <1>2
<1>4. PICK front : front = SubSeq(bytes, 1, m)
  OBVIOUS
<1>5. PICK back : back = SubSeq(bytes, i, N)
  OBVIOUS
<1>6. front \in Seq(Nat) /\ Len(front) = m
  <2>1. m - 1 + 1 = m /\ 1 - 1 = 0
    BY <1>3
  <2>2. front \in Seq(Nat) /\ Len(front) = m - 1 + 1
    BY <1>1, <1>3, <1>4, <2>1, PartIs
  <2>3. QED
    BY <2>1, <2>2
<1>7. back \in Seq(Nat) /\ Len(back) = N - m
  <2>1. N - i + 1 = N - m /\ N >= i - 1 /\ i >= 1
    BY <1>1, <1>3
  <2>2. back \in Seq(Nat) /\ Len(back) = N - i + 1
    BY <1>1, <1>3, <1>5, <2>1, PartIs
  <2>3. QED
    BY <2>1, <2>2
<1>8. PICK fx : fx = front \o <<x>>
  OBVIOUS
<1>9. fx \in Seq(Nat) /\ Len(fx) = i /\ fx[i] = x
  <2>1. PICK one : one = <<x>>
    OBVIOUS
  <2>2. one \in Seq(Nat) /\ Len(one) = 1 /\ one[1] = x /\ 1 \in 1..1
    BY <2>1
  <2>3. fx \in Seq(Nat) /\ Len(fx) = m + 1 /\ fx[m + 1] = one[1]
    BY <1>6, <1>8, <2>1, <2>2, JoinIs
  <2>4. QED
    BY <1>3, <2>2, <2>3
<1>10. InsertAt(bytes, i, x) = fx \o back
  <2>1. InsertAt(bytes, i, x) = SubSeq(bytes, 1, i - 1) \o <<x>> \o SubSeq(bytes, i, Len(bytes))
    BY DEF InsertAt
  <2>2. i - 1 = m
    BY <1>2
  <2>3. QED
    BY <1>1, <1>4, <1>5, <1>8, <2>1, <2>2, Zenon
<1>11. /\ fx \o back \in Seq(Nat) /\ Len(fx \o back) = Len(fx) + Len(back)
       /\ \A k \in 1..Len(fx) : (fx \o back)[k] = fx[k]
  BY <1>7, <1>9, JoinIs
<1>12. i \in 1..Len(fx) /\ Len(fx) + Len(back) = N + 1
  BY <1>3, <1>7, <1>9
<1>13. (fx \o back)[i] = x
  BY <1>9, <1>11, <1>12
<1>14. QED
  BY <1>1, <1>10, <1>11, <1>12, <1>13

\* Behind a missing field that is inserted there is one.
LEMMA WithFieldIs ==
    ASSUME NEW s, s.bytes \in Seq(Nat), s.next \in Nat, s.next < Len(s.bytes)
    PROVE  /\ WithField(s) \in Seq(Nat)
           /\ Len(WithField(s)) >= Len(s.bytes)
           /\ At(WithField(s), s.next) \in Nat
           /\ At(WithField(s), s.next) # EndOfFields
<1>1. PICK bytes \in Seq(Nat), next \in Nat : bytes = s.bytes /\ next = s.next
  OBVIOUS
<1>2. next + 1 \in 1..Len(bytes) /\ bytes[next + 1] \in Nat
  BY <1>1
<1>3. CASE Missing(bytes, next)
  <2>1. PICK with : with = InsertAt(bytes, next + 1, TextOf(0))
    OBVIOUS
  <2>2. TextOf(0) \in Nat /\ TextOf(0) # EndOfFields
    BY DEF TextOf, EndOfFields
  <2>3. with \in Seq(Nat) /\ Len(with) = Len(bytes) + 1 /\ with[next + 1] = TextOf(0)
    BY <1>2, <2>1, <2>2, InsertedIs
  <2>4. WithField(s) = with
    BY <1>1, <1>3, <2>1 DEF WithField
  <2>5. QED
    BY <1>1, <2>2, <2>3, <2>4 DEF At
<1>4. CASE ~Missing(bytes, next)
  <2>1. WithField(s) = bytes
    BY <1>1, <1>4 DEF WithField
  <2>2. QED
    BY <1>1, <1>2, <1>4, <2>1 DEF Missing, At
<1>5. QED
  BY <1>3, <1>4

\* A step of the walk leads to a field that is all there.
LEMMA NextFieldIs ==
    ASSUME NEW s, Walking(s)
    PROVE  Walking(NextField(s)) /\ AtField(NextField(s))
<1>1. CASE ~s.ok \/ s.next >= Len(s.bytes)
  <2>1. NextField(s) = [s EXCEPT !.ok = FALSE]
    BY <1>1 DEF NextField
  <2>2. PICK ok, bytes, index, length, next : s = Walk(ok, bytes, index, length, next)
    BY DEF Walking
  <2>3. NextField(s) = Walk(FALSE, bytes, index, length, next)
    BY <2>1, <2>2 DEF Walk
  <2>4. NextField(s).ok = FALSE
    BY <2>3 DEF Walk
  <2>5. QED
    BY <2>3, <2>4 DEF Walking, AtField
<1>2. CASE s.ok /\ ~(s.next >= Len(s.bytes))
  <2>1. s.bytes \in Seq(Nat) /\ s.next \in Nat /\ s.next < Len(s.bytes)
    BY <1>2 DEF Walking
  <2>2. PICK with \in Seq(Nat) : /\ with = WithField(s) /\ Len(with) >= Len(s.bytes)
                                 /\ At(with, s.next) \in Nat /\ At(with, s.next) # EndOfFields
    BY <2>1, WithFieldIs
  <2>3. PICK length \in Nat : length = getFieldLength(At(with, s.next))
    BY <2>2, FieldLengthIs
  <2>4. PICK new : new = NextField(s)
    OBVIOUS
  <2>5. new = Walk(length <= Len(with) - s.next - 1, with, s.next, length, s.next + 1 + length)
    BY <1>2, <2>2, <2>3, <2>4 DEF NextField, Walk
  <2>6. /\ new.ok => length <= Len(with) - s.next - 1
        /\ new.bytes = with /\ new.index = s.next /\ new.length = length
        /\ new.next = s.next + 1 + length
    BY <2>5 DEF Walk
  <2>7. Walking(new)
    BY <2>1, <2>5, <2>6 DEF Walking
  <2>8. AtField(new)
    BY <2>1, <2>2, <2>6 DEF AtField
  <2>9. QED
    BY <2>4, <2>7, <2>8
<1>3. QED
  BY <1>1, <1>2

\* So does the walk.
LEMMA FoundIs ==
    ASSUME NEW a \in InfoAreas, NEW bytes \in Seq(Nat), NEW n \in Nat, n >= 1
    PROVE  AtField(findOrCreateField(a, bytes, n))
<1> DEFINE begin == [ok |-> n <= FieldNames[a] + Len(bytes), bytes |-> bytes,
                     index |-> 0, length |-> 0, next |-> FirstField[a]]
           Is(f, m) == f = [i \in 0..m |-> IF i = 0 THEN begin ELSE Once(NextField, f[i - 1])]
           T == {m \in 0..n : \E f : Is(f, m)}
<1>a. \A x : Once(NextField, x) = NextField(x)
  BY DEF Once
<1> HIDE DEF begin
<1>1. 0 \in T
  <2>1. 0 \in 0..n /\ Is([i \in 0..0 |-> begin], 0)
    OBVIOUS
  <2> HIDE DEF Is
  <2>2. QED
    BY <2>1
<1>2. ASSUME NEW m \in 0..n - 1, m \in T PROVE m + 1 \in T
  <2>1. PICK f : Is(f, m)
    BY <1>2
  <2>2. PICK y : y = Once(NextField, f[m])
    OBVIOUS
  <2> DEFINE g == [i \in 0..m + 1 |-> IF i = m + 1 THEN y ELSE f[i]]
  <2>3. m + 1 \in 0..n /\ Is(g, m + 1)
    BY <1>a, <2>1, <2>2
  <2> HIDE DEF g, Is
  <2>4. QED
    BY <2>3
<1>3. \E f : Is(f, n)
  <2>1. n \in 0..n
    OBVIOUS
  <2> HIDE DEF T
  <2>2. n \in T
    BY <1>1, <1>2, <2>1, UpTo
  <2> USE DEF T
  <2>3. QED
    BY <2>2
<1>4. findOrCreateField(a, bytes, n) = (CHOOSE f : Is(f, n))[n]
  BY DEF findOrCreateField, begin
<1>5. PICK f : Is(f, n) /\ f = CHOOSE h : Is(h, n)
  <2> HIDE DEF Is
  <2>1. QED
    BY <1>3
<1>6. f[0] = begin /\ \A i \in 1..n : f[i] = NextField(f[i - 1])
  <2>1. Is(f, n)
    <3> HIDE DEF Is
    <3>1. QED
      BY <1>5
  <2>2. \A i \in 0..n : f[i] = IF i = 0 THEN begin ELSE Once(NextField, f[i - 1])
    BY <2>1
  <2> HIDE DEF Is
  <2>3. 0 \in 0..n /\ \A i \in 1..n : i \in 0..n /\ i # 0
    OBVIOUS
  <2>4. \A i \in 1..n : f[i] = Once(NextField, f[i - 1])
    BY <2>2, <2>3
  <2>5. QED
    BY <1>a, <2>2, <2>3, <2>4
<1> HIDE DEF Is
<1>7. Walking(begin)
  <2>1. FirstField[a] \in Nat
    BY DEF InfoAreas, FirstField
  <2>2. begin = Walk(n <= FieldNames[a] + Len(bytes), bytes, 0, 0, FirstField[a])
    BY DEF begin, Walk
  <2>3. begin.bytes = bytes /\ begin.next = FirstField[a]
    BY DEF begin
  <2>4. QED
    BY <2>1, <2>2, <2>3 DEF Walking
<1>8. \A i \in 0..n : Walking(f[i])
  <2> DEFINE R == {i \in 0..n : Walking(f[i])}
  <2>1. 0 \in R
    BY <1>6, <1>7
  <2>2. ASSUME NEW m \in 0..n - 1, m \in R PROVE m + 1 \in R
    <3>1. m + 1 \in 0..n /\ m + 1 \in 1..n /\ m + 1 - 1 = m
      OBVIOUS
    <3>2. f[m + 1] = NextField(f[m])
      BY <1>6, <3>1
    <3>3. QED
      BY <2>2, <3>1, <3>2, NextFieldIs
  <2> HIDE DEF R
  <2>3. \A m \in 0..n : m \in R
    BY <2>1, <2>2, UpTo
  <2>4. QED
    BY <2>3 DEF R
<1>9. n \in 1..n /\ n - 1 \in 0..n
  OBVIOUS
<1>10. f[n] = NextField(f[n - 1]) /\ Walking(f[n - 1])
  BY <1>6, <1>8, <1>9
<1>11. QED
  BY <1>4, <1>5, <1>10, NextFieldIs

-----------------------------------------------------------------------------
(* A field is set. *)

\* The end of the fields is some place in the area, or 0.
LEMMA SizeIs ==
    ASSUME NEW bytes \in Seq(Nat)
    PROVE  getNonPaddedSizeOfArea(bytes) \in Nat
<1> DEFINE T == {0} \cup {i \in 1..Len(bytes) - 1 : bytes[i] = EndOfFields}
<1>1. Len(bytes) \in Nat
  OBVIOUS
<1>2. T \in SUBSET Nat /\ T # {} /\ \A t \in T : t <= Len(bytes)
  BY <1>1
<1>3. getNonPaddedSizeOfArea(bytes) = Max(T)
  BY DEF getNonPaddedSizeOfArea
<1> HIDE DEF T
<1>4. Max(T) \in T
  BY <1>1, <1>2, BoundedHasMax
<1>5. QED
  BY <1>2, <1>3, <1>4

\* With the field replaced the area is bytes still.
LEMMA SplicedIs ==
    ASSUME NEW s, AtField(s), s.ok, NEW value \in Seq(Nat)
    PROVE  Spliced(s, value) \in Seq(Nat)
<1>1. PICK bytes \in Seq(Nat), index \in Nat, length \in Nat :
          /\ bytes = s.bytes /\ index = s.index /\ length = s.length
          /\ index + 1 + length <= Len(bytes)
  BY DEF AtField
<1>2. PICK N \in Nat : N = Len(bytes) /\ index + 1 + length <= N
  BY <1>1
<1>3. PICK from \in Nat : from = index + length + 2
  OBVIOUS
<1>4. /\ 1 \in Nat /\ 1 >= 1 /\ index \in Int /\ index <= N /\ index >= 1 - 1
      /\ from >= 1 /\ N \in Int /\ N <= N /\ N >= from - 1
  <2>1. index + 1 + length <= N
    BY <1>2
  <2>2. QED
    BY <1>3, <2>1
<1>5. PICK front \in Seq(Nat) : front = SubSeq(bytes, 1, index)
  <2>1. PICK front : front = SubSeq(bytes, 1, index)
    OBVIOUS
  <2>2. index >= 1 - 1 /\ index <= Len(bytes) /\ index \in Int /\ 1 \in Nat /\ 1 >= 1
    BY <1>1
  <2>3. front \in Seq(Nat)
    BY <2>1, <2>2, PartIs
  <2>4. QED
    BY <2>1, <2>3
<1>6. PICK back \in Seq(Nat) : back = SubSeq(bytes, from, N)
  BY <1>2, <1>4, PartIs
<1>7. PICK head \in Seq(Nat) : head = <<TextOf(Len(value))>>
  <2>1. PICK c \in Nat : c = TextOf(Len(value))
    BY DEF TextOf
  <2>2. <<c>> \in Seq(Nat)
    OBVIOUS
  <2>3. QED
    BY <2>1, <2>2
<1>8. Spliced(s, value) = front \o head \o value \o back
  <2>1. Spliced(s, value) = SubSeq(s.bytes, 1, s.index) \o <<TextOf(Len(value))>> \o value
                                \o SubSeq(s.bytes, s.index + s.length + 2, Len(s.bytes))
    BY ZenonT(30) DEF Spliced
  <2>2. SubSeq(s.bytes, 1, s.index) = front
    BY <1>1, <1>5
  <2>3. SubSeq(s.bytes, s.index + s.length + 2, Len(s.bytes)) = back
    BY <1>1, <1>2, <1>3, <1>6
  <2>4. QED
    BY <1>7, <2>1, <2>2, <2>3, Zenon
<1>9. front \o head \in Seq(Nat)
  BY JoinIs
<1>10. front \o head \o value \in Seq(Nat)
  BY <1>9, JoinIs
<1>11. front \o head \o value \o back \in Seq(Nat)
  BY <1>10, JoinIs
<1>12. QED
  BY <1>8, <1>11

\* The number of blocks that an area has is in its second byte.
Blocks(area) ==
    /\ area \in Seq(Nat)
    /\ \E blocks \in Nat : blocks >= 1 /\ Len(area) = blocks * fruBlockSize /\ area[2] = blocks

\* What setField and createDummyArea make of the fields is such an area.
LEMMA CutIs ==
    ASSUME NEW bytes \in Seq(Nat), NEW blocks \in Nat, blocks >= 1
    PROVE  Blocks(Sealed([Padded(bytes, blocks * fruBlockSize) EXCEPT ![2] = blocks]))
<1>1. PICK N \in Nat : N = blocks * fruBlockSize /\ N >= 8
  BY DEF fruBlockSize
<1>2. PICK new : new = [Padded(bytes, N) EXCEPT ![2] = blocks]
  OBVIOUS
<1>3. new = [i \in 1..N |-> IF i = 2 THEN blocks ELSE IF i <= Len(bytes) THEN bytes[i] ELSE 0]
  BY <1>1, <1>2 DEF Padded
<1>4. \A i \in 1..N : i <= Len(bytes) => bytes[i] \in Nat
  BY <1>1
<1>5. new \in Seq(Nat) /\ Len(new) = N /\ new[2] = blocks
  BY <1>1, <1>3, <1>4
<1>6. PICK area : area = Sealed(new)
  OBVIOUS
<1>7. area \in Seq(Nat) /\ Len(area) = N /\ area[2] = blocks
  <2>1. Len(new) >= 1 /\ 2 \in 1..Len(new) - 1
    BY <1>1, <1>5
  <2>2. QED
    BY <1>5, <1>6, <2>1, SealedIs
<1>8. QED
  BY <1>1, <1>2, <1>6, <1>7 DEF Blocks

\* A field that was set left an area of whole blocks that says how many.
LEMMA SetFieldIs ==
    ASSUME NEW a \in InfoAreas, NEW bytes \in Seq(Nat), NEW n \in Nat, n >= 1,
           NEW value \in Seq(Nat), setField(a, bytes, n, value) # <<>>
    PROVE  Blocks(setField(a, bytes, n, value))
<1>1. PICK found : found = findOrCreateField(a, bytes, n)
  OBVIOUS
<1>2. PICK tmp : tmp = Spliced(found, value)
  OBVIOUS
<1>3. PICK size : size = getNonPaddedSizeOfArea(tmp)
  OBVIOUS
<1>4. PICK blocks : blocks = getBlockCount(size)
  OBVIOUS
<1>5. /\ found.ok
      /\ setField(a, bytes, n, value) =
             Sealed([Padded(tmp, blocks * fruBlockSize) EXCEPT ![2] = blocks])
  BY <1>1, <1>2, <1>3, <1>4 DEF setField
<1>6. tmp \in Seq(Nat)
  BY <1>1, <1>2, <1>5, FoundIs, SplicedIs
<1>7. blocks \in Nat /\ blocks >= 1
  <2>1. size \in Nat
    BY <1>3, <1>6, SizeIs
  <2>2. QED
    BY <1>4, <2>1 DEF getBlockCount, fruBlockSize
<1>8. QED
  BY <1>5, <1>6, <1>7, CutIs

\* A dummy area is bytes.
LEMMA DummyIs ==
    ASSUME NEW a \in InfoAreas
    PROVE  createDummyArea(a) \in Seq(Nat)
<1> DEFINE N == FirstField[a] + FieldNames[a] + 1
           fields == [i \in 1..N |-> CASE i = 1 -> fruVersion
                                       [] i \in 2..FirstField[a] -> 0
                                       [] i > FirstField[a] + FieldNames[a] -> EndOfFields
                                       [] OTHER -> TextOf(0)]
           blocks == (Len(fields) + fruBlockSize - 1) \div fruBlockSize
<1>1. N \in Nat /\ N >= 1 /\ FirstField[a] \in Nat /\ FieldNames[a] \in Nat
  BY DEF InfoAreas, FirstField, FieldNames
<1> HIDE DEF N
<1>2. ASSUME NEW i \in 1..N PROVE fields[i] \in Nat
  <2>1. fruVersion \in Nat /\ EndOfFields \in Nat /\ TextOf(0) \in Nat
    BY DEF fruVersion, EndOfFields, TextOf
  <2>2. QED
    BY <2>1
<1>3. fields \in Seq(Nat) /\ Len(fields) = N
  <2>1. fields = [i \in 1..N |-> fields[i]]
    OBVIOUS
  <2> HIDE DEF fields
  <2>2. QED
    BY <1>1, <1>2, <2>1
<1> HIDE DEF fields
<1>4. blocks \in Nat /\ blocks >= 1
  BY <1>1, <1>3 DEF fruBlockSize
<1> HIDE DEF blocks
<1>5. createDummyArea(a) = Sealed([Padded(fields, blocks * fruBlockSize) EXCEPT ![2] = blocks])
  BY DEF createDummyArea, fields, N, blocks
<1>6. QED
  BY <1>3, <1>4, <1>5, CutIs DEF Blocks

-----------------------------------------------------------------------------
(* A FRU is taken apart. *)

\* Every area that is taken out is bytes of the FRU; of the named ones, as many
\* blocks as it says.
LEMMA AreaIs ==
    ASSUME NEW fru \in Seq(Nat), CanDisassemble(fru), NEW a \in AllAreas
    PROVE  /\ Offset(fru, a) \in Nat
           /\ AreaBytes(fru, a) \in Seq(Nat)
           /\ a \in InfoAreas /\ AreaBytes(fru, a) # <<>> => Blocks(AreaBytes(fru, a))
           /\ a = Multirecord /\ AreaBytes(fru, a) # <<>> =>
                 LET offset == Offset(fru, a) * fruBlockSize
                 IN  /\ offset # 0
                     /\ offset + Len(AreaBytes(fru, a)) = Len(fru)
                     /\ Same(fru, offset, AreaBytes(fru, a), 0, Len(AreaBytes(fru, a)))
<1>1. Len(fru) \in Nat /\ Len(fru) >= 8
  BY DEF CanDisassemble, fruBlockSize
<1>2. \A b \in AllAreas : Offset(fru, b) \in Nat
  <2>1. ASSUME NEW b \in AllAreas PROVE Offset(fru, b) \in Nat
    <3>1. PICK i \in 1..Len(fru) : i = b + 1 + 1
      BY <1>1 DEF AllAreas, Internal, Multirecord
    <3>2. Offset(fru, b) = fru[i]
      BY <3>1 DEF Offset, At, getHeaderAreaFieldOffset
    <3>3. QED
      BY <3>2
  <2>2. QED
    BY <2>1
<1>3. PICK offset \in Nat : offset = Offset(fru, a) * fruBlockSize
  <2>1. PICK x \in Nat : x = Offset(fru, a)
    BY <1>2
  <2>2. QED
    BY <2>1 DEF fruBlockSize
<1>4. PICK size : size = calculateAreaSize(a, fru, offset)
  OBVIOUS
<1>5. AreaBytes(fru, a) = IF offset = 0 THEN <<>> ELSE SubSeq(fru, offset + 1, offset + size)
  BY <1>3, <1>4 DEF AreaBytes, Slice
<1>6. offset # 0 => size >= 0 /\ offset + size <= Len(fru)
  BY <1>3, <1>4 DEF CanDisassemble
<1>7. offset # 0 => size \in Nat
  <2>1. SUFFICES ASSUME offset # 0 PROVE size \in Int
    BY <1>6
  <2>2. CASE a \in InfoAreas
    <3>0. a # Internal
      BY <2>2 DEF InfoAreas, Internal
    <3>1. size = IF offset + 1 >= Len(fru) THEN -1 ELSE At(fru, offset + 1) * fruBlockSize
      BY <1>4, <2>2, <3>0 DEF calculateAreaSize
    <3>2. offset + 1 < Len(fru) => fru[offset + 2] \in Nat
      BY <1>1
    <3>3. CASE offset + 1 < Len(fru)
      <4>1. PICK x \in Nat : x = fru[offset + 2]
        BY <3>2, <3>3
      <4>2. size = x * 8
        BY <1>1, <3>1, <3>3, <4>1 DEF At, fruBlockSize
      <4>3. QED
        BY <4>2
    <3>4. QED
      BY <1>1, <3>1, <3>3
  <2>3. CASE a = Internal
    <3> DEFINE later == {b \in AllAreas \ {a} : Offset(fru, b) # 0}
    <3>1. a \notin InfoAreas
      BY <2>3 DEF InfoAreas, Internal
    <3>2. size = IF later = {} THEN -1 ELSE Offset(fru, Min(later)) * fruBlockSize - offset
      BY <1>4, <2>3, <3>1 DEF calculateAreaSize
    <3>3. CASE later # {}
      <4>1. later \in SUBSET Nat /\ later \in SUBSET AllAreas
        BY DEF AllAreas, Internal, Multirecord
      <4> HIDE DEF later
      <4>2. \E m \in later : \A n \in later : m <= n
        BY <3>3, <4>1, LeastNatural
      <4>3. Min(later) \in later
        BY <4>2 DEF Min
      <4>4. PICK x \in Nat : x = Offset(fru, Min(later))
        BY <1>2, <4>1, <4>3
      <4>5. size = x * 8 - offset
        BY <3>2, <3>3, <4>4 DEF fruBlockSize
      <4>6. QED
        BY <4>5
    <3> HIDE DEF later
    <3>4. QED
      BY <3>2, <3>3
  <2>4. CASE a = Multirecord
    <3>1. a \notin InfoAreas /\ a # Internal
      BY <2>4 DEF InfoAreas, Internal, Multirecord
    <3>2. size = Len(fru) - offset
      BY <1>4, <3>1 DEF calculateAreaSize
    <3>3. QED
      BY <1>1, <3>2
  <2>5. QED
    BY <2>2, <2>3, <2>4 DEF AllAreas, InfoAreas, Internal, Multirecord
<1>8. CASE offset = 0
  BY <1>2, <1>3, <1>5, <1>8
<1>9. CASE offset # 0
  <2>1. PICK n \in Nat : n = size
    BY <1>7, <1>9
  <2>2. PICK area : area = SubSeq(fru, offset + 1, offset + n)
    OBVIOUS
  <2>3. AreaBytes(fru, a) = area
    BY <1>5, <1>9, <2>1, <2>2
  <2>4. offset + n <= Len(fru)
    BY <1>6, <1>9, <2>1
  <2>5. PICK m \in Nat : m = offset + 1 /\ m >= 1
    OBVIOUS
  <2>6. PICK k \in Int : k = offset + n /\ k <= Len(fru) /\ k >= m - 1 /\ k - m + 1 = n
    BY <2>4, <2>5
  <2>7. /\ area \in Seq(Nat) /\ Len(area) = k - m + 1
        /\ \A i \in 1..k - m + 1 : area[i] = fru[m + i - 1]
    BY <2>2, <2>5, <2>6, PartIs
  <2>8. /\ area \in Seq(Nat) /\ Len(area) = n
        /\ \A i \in 1..n : area[i] = fru[offset + i]
    <3>1. ASSUME NEW i \in 1..n PROVE area[i] = fru[offset + i]
      <4>1. m + i - 1 = offset + i
        BY <2>5
      <4>2. QED
        BY <2>6, <2>7, <4>1
    <3>2. QED
      BY <2>6, <2>7, <3>1
  <2>9. ASSUME a \in InfoAreas, area # <<>> PROVE Blocks(area)
    <3>0. a # Internal
      BY <2>9 DEF InfoAreas, Internal
    <3>1. n = IF offset + 1 >= Len(fru) THEN -1 ELSE At(fru, offset + 1) * fruBlockSize
      BY <1>4, <2>1, <2>9, <3>0 DEF calculateAreaSize
    <3>2. offset + 1 < Len(fru) /\ fru[offset + 2] \in Nat
      BY <1>1, <3>1
    <3>3. PICK x \in Nat : x = fru[offset + 2] /\ n = x * 8
      BY <1>1, <3>1, <3>2 DEF At, fruBlockSize
    <3>4. x >= 1
      <4>1. n # 0
        BY <2>8, <2>9
      <4>2. QED
        BY <3>3, <4>1
    <3>5. area[2] = x
      <4>1. 2 \in 1..n
        BY <3>3, <3>4
      <4>2. QED
        BY <2>8, <3>3, <4>1
    <3>6. QED
      BY <2>8, <3>3, <3>4, <3>5 DEF Blocks, fruBlockSize
  <2>10. ASSUME a = Multirecord
         PROVE  offset + n = Len(fru) /\ Same(fru, offset, area, 0, n)
    <3>1. a \notin InfoAreas /\ a # Internal
      BY <2>10 DEF InfoAreas, Internal, Multirecord
    <3>2. n = Len(fru) - offset
      BY <1>4, <2>1, <3>1 DEF calculateAreaSize
    <3>3. ASSUME NEW k2 \in 0..n - 1 PROVE At(fru, offset + k2) = At(area, 0 + k2)
      <4>1. k2 + 1 \in 1..n /\ offset + (k2 + 1) = offset + k2 + 1 /\ 0 + k2 + 1 = k2 + 1
        OBVIOUS
      <4>2. area[k2 + 1] = fru[offset + (k2 + 1)]
        BY <2>8, <4>1
      <4>3. QED
        BY <4>1, <4>2 DEF At
    <3>4. offset + n <= Len(fru) /\ 0 + n <= Len(area)
      BY <2>4, <2>8
    <3>5. QED
      BY <1>1, <3>2, <3>3, <3>4 DEF Same
  <2>11. QED
    BY <1>2, <1>3, <1>9, <2>3, <2>8, <2>9, <2>10
<1>10. QED
  BY <1>8, <1>9

-----------------------------------------------------------------------------
(* And put together. *)

\* Areas are joined one at a time.
LEMMA JoinedIs ==
    ASSUME NEW areas, \A a \in AllAreas : areas[a] \in Seq(Nat)
    PROVE  /\ Joined(areas, 0) = <<>>
           /\ \A m \in 0..4 : Joined(areas, m + 1) = Joined(areas, m) \o areas[m]
           /\ \A m \in 0..5 : Joined(areas, m) \in Seq(Nat)
<1> DEFINE Put(s, m) == s \o areas[m]
           Is(f, n) == f = [m \in 0..n |-> IF m = 0 THEN <<>> ELSE Put(f[m - 1], m - 1)]
           T == {n \in 0..5 : \E f : Is(f, n)}
<1>a. \A m : Joined(areas, m) = (CHOOSE f : Is(f, 5))[m]
  BY DEF Joined
<1>b. \A s \in Seq(Nat), m \in 0..4 : Put(s, m) \in Seq(Nat)
  <2>1. ASSUME NEW s \in Seq(Nat), NEW m \in 0..4 PROVE Put(s, m) \in Seq(Nat)
    <3>1. PICK t \in Seq(Nat) : t = areas[m]
      BY DEF AllAreas, Internal, Multirecord
    <3>2. s \o t \in Seq(Nat)
      BY JoinIs
    <3>3. QED
      BY <3>1, <3>2
  <2> HIDE DEF Put
  <2>2. QED
    BY <2>1
<1> HIDE DEF Put
<1>1. 0 \in T
  <2>1. 0 \in 0..5 /\ Is([m \in 0..0 |-> <<>>], 0)
    OBVIOUS
  <2> HIDE DEF Is
  <2>2. QED
    BY <2>1
<1>2. ASSUME NEW n \in 0..5 - 1, n \in T PROVE n + 1 \in T
  <2>1. PICK f : Is(f, n)
    BY <1>2
  <2>2. PICK y : y = Put(f[n], n)
    OBVIOUS
  <2> DEFINE g == [m \in 0..n + 1 |-> IF m = n + 1 THEN y ELSE f[m]]
  <2>3. n + 1 \in 0..5 /\ Is(g, n + 1)
    BY <2>1, <2>2
  <2> HIDE DEF g, Is
  <2>4. QED
    BY <2>3
<1>3. \E f : Is(f, 5)
  <2>1. 5 \in 0..5 /\ 5 \in Nat
    OBVIOUS
  <2> HIDE DEF T
  <2>2. 5 \in T
    BY <1>1, <1>2, <2>1, UpTo
  <2> USE DEF T
  <2>3. QED
    BY <2>2
<1>5. PICK f : Is(f, 5) /\ f = CHOOSE h : Is(h, 5)
  <2> HIDE DEF Is
  <2>1. QED
    BY <1>3
<1>6. \A m \in 0..5 : f[m] = IF m = 0 THEN <<>> ELSE Put(f[m - 1], m - 1)
  <2>1. Is(f, 5)
    <3> HIDE DEF Is
    <3>1. QED
      BY <1>5
  <2>2. QED
    BY <2>1
<1> HIDE DEF Is
<1>7. \A m : Joined(areas, m) = f[m]
  BY <1>a, <1>5
<1>8. f[0] = <<>> /\ \A m \in 0..4 : f[m + 1] = Put(f[m], m)
  <2>1. ASSUME NEW m \in 0..4 PROVE f[m + 1] = Put(f[m], m)
    <3>1. m + 1 \in 0..5 /\ m + 1 # 0 /\ m + 1 - 1 = m
      OBVIOUS
    <3>2. QED
      BY <1>6, <3>1
  <2>2. 0 \in 0..5
    OBVIOUS
  <2>3. QED
    BY <1>6, <2>1, <2>2
<1>9. \A m \in 0..5 : f[m] \in Seq(Nat)
  <2> DEFINE R == {m \in 0..5 : f[m] \in Seq(Nat)}
  <2>1. 0 \in R
    <3>1. 0 \in 0..5 /\ <<>> \in Seq(Nat)
      OBVIOUS
    <3>2. QED
      BY <1>8, <3>1
  <2>2. ASSUME NEW m \in 0..5 - 1, m \in R PROVE m + 1 \in R
    <3>1. m \in 0..4 /\ m + 1 \in 0..5
      OBVIOUS
    <3>2. f[m] \in Seq(Nat)
      BY <2>2, <3>1
    <3>3. Put(f[m], m) \in Seq(Nat)
      BY <1>b, <3>1, <3>2
    <3>4. QED
      BY <1>8, <3>1, <3>3
  <2> HIDE DEF R
  <2>3. 5 \in Nat
    OBVIOUS
  <2>4. \A m \in 0..5 : m \in R
    BY <2>1, <2>2, <2>3, UpTo
  <2>5. QED
    BY <2>4 DEF R
<1>10. QED
  BY <1>7, <1>8, <1>9 DEF Put

LEMMA EightsOf == \A x \in Nat : x % 8 = 0 => x \div 8 \in Nat /\ x = 8 * (x \div 8)
OBVIOUS

\* How many bytes there are before an area.
Before(areas, a) == Len(Joined(areas, a))

\* Every area begins at a block.
LEMMA BeforeIs ==
    ASSUME NEW areas, \A a \in AllAreas : areas[a] \in Seq(Nat), CanAssemble(areas)
    PROVE  /\ Before(areas, 0) = 0
           /\ \A m \in 0..5 : \E q \in Nat : Before(areas, m) = 8 * q
           /\ \A m \in 0..4 : \E q \in Nat : Len(areas[m]) = 8 * q
           /\ \A m \in 0..4 : Before(areas, m + 1) = Before(areas, m) + Len(areas[m])
<1>1. \A m \in 0..4 : areas[m] \in Seq(Nat) /\ Len(areas[m]) % 8 = 0
  BY DEF AllAreas, Internal, Multirecord, CanAssemble, fruBlockSize
<1>2. Before(areas, 0) = 0
  BY JoinedIs DEF Before
<1>3. ASSUME NEW m \in 0..4 PROVE Before(areas, m + 1) = Before(areas, m) + Len(areas[m])
  <2>1. PICK s \in Seq(Nat) : s = Joined(areas, m)
    BY JoinedIs
  <2>2. PICK t \in Seq(Nat) : t = areas[m]
    BY <1>1
  <2>3. Joined(areas, m + 1) = s \o t
    BY <2>1, <2>2, JoinedIs
  <2>4. Len(s \o t) = Len(s) + Len(t)
    BY JoinIs
  <2>5. QED
    BY <2>1, <2>2, <2>3, <2>4 DEF Before
<1>4. ASSUME NEW m \in 0..4 PROVE \E q \in Nat : Len(areas[m]) = 8 * q
  <2>1. PICK s \in Seq(Nat) : s = areas[m] /\ Len(s) % 8 = 0
    BY <1>1
  <2>2. PICK x \in Nat : x = Len(s)
    OBVIOUS
  <2>3. PICK q \in Nat : x = 8 * q
    BY <2>1, <2>2, EightsOf
  <2>4. QED
    BY <2>1, <2>2, <2>3
<1>5. \A m \in 0..5 : \E q \in Nat : Before(areas, m) = 8 * q
  <2> DEFINE R == {m \in 0..5 : \E q \in Nat : Before(areas, m) = 8 * q}
  <2>1. 0 \in R
    <3>1. 0 = 8 * 0 /\ 0 \in Nat /\ 0 \in 0..5
      OBVIOUS
    <3>2. QED
      BY <1>2, <3>1
  <2>2. ASSUME NEW m \in 0..5 - 1, m \in R PROVE m + 1 \in R
    <3>1. m \in 0..4 /\ m + 1 \in 0..5
      OBVIOUS
    <3>2. PICK q \in Nat : Before(areas, m) = 8 * q
      BY <2>2
    <3>3. PICK p \in Nat : Len(areas[m]) = 8 * p
      BY <1>4, <3>1
    <3>4. q + p \in Nat /\ 8 * q + 8 * p = 8 * (q + p)
      OBVIOUS
    <3>5. QED
      BY <1>3, <3>1, <3>2, <3>3, <3>4
  <2> HIDE DEF R
  <2>3. 5 \in Nat
    OBVIOUS
  <2>4. \A m \in 0..5 : m \in R
    BY <2>1, <2>2, <2>3, UpTo
  <2>5. QED
    BY <2>4 DEF R
<1>6. QED
  BY <1>2, <1>3, <1>4, <1>5

\* An area is behind those before it.
LEMMA BeforeGrows ==
    ASSUME NEW areas, \A a \in AllAreas : areas[a] \in Seq(Nat), CanAssemble(areas),
           NEW a \in 0..5, NEW b \in a..5
    PROVE  Before(areas, a) <= Before(areas, b)
<1> DEFINE R == {d \in 0..5 - a : Before(areas, a) <= Before(areas, a + d)}
<1>1. \A m \in 0..5 : Before(areas, m) \in Nat
  <2>1. ASSUME NEW m \in 0..5 PROVE Before(areas, m) \in Nat
    <3>1. PICK q \in Nat : Before(areas, m) = 8 * q
      BY BeforeIs
    <3>2. QED
      BY <3>1
  <2>2. QED
    BY <2>1
<1>2. 0 \in R
  <2>1. a + 0 = a /\ 0 \in 0..5 - a
    OBVIOUS
  <2>2. QED
    BY <1>1, <2>1
<1>3. ASSUME NEW d \in 0..(5 - a) - 1, d \in R PROVE d + 1 \in R
  <2>1. PICK m \in 0..4 : m = a + d /\ m \in 0..5 /\ m + 1 \in 0..5 /\ m + 1 = a + (d + 1)
    OBVIOUS
  <2>2. d + 1 \in 0..5 - a
    OBVIOUS
  <2>3. PICK p \in Nat : Len(areas[m]) = 8 * p
    BY BeforeIs
  <2>4. Before(areas, m + 1) = Before(areas, m) + 8 * p
    BY <2>3, BeforeIs
  <2>5. Before(areas, a) <= Before(areas, m)
    BY <1>3, <2>1
  <2>6. Before(areas, a) <= Before(areas, m + 1)
    <3>1. PICK x \in Nat : x = Before(areas, a)
      BY <1>1
    <3>2. PICK y \in Nat : y = Before(areas, m)
      BY <1>1, <2>1
    <3>3. x <= y /\ y <= y + 8 * p /\ Before(areas, m + 1) = y + 8 * p
      BY <2>4, <2>5, <3>1, <3>2
    <3>4. x <= y + 8 * p
      BY <3>3
    <3>5. QED
      BY <3>1, <3>3, <3>4
  <2>7. QED
    BY <2>1, <2>2, <2>6
<1> HIDE DEF R
<1>4. 5 - a \in Nat /\ b - a \in 0..5 - a
  OBVIOUS
<1>5. \A d \in 0..5 - a : d \in R
  BY <1>2, <1>3, <1>4, UpTo
<1>6. b - a \in R /\ a + (b - a) = b
  BY <1>4, <1>5
<1>7. QED
  BY <1>6 DEF R

\* An area is where those before it end.
LEMMA JoinedHas ==
    ASSUME NEW areas, \A a \in AllAreas : areas[a] \in Seq(Nat), CanAssemble(areas),
           NEW a \in 0..4, NEW k \in 1..Len(areas[a])
    PROVE  /\ Before(areas, a) + k \in 1..Before(areas, 5)
           /\ Joined(areas, 5)[Before(areas, a) + k] = areas[a][k]
<1>1. \A m \in 0..5 : Before(areas, m) \in Nat
  <2>1. ASSUME NEW m \in 0..5 PROVE Before(areas, m) \in Nat
    <3>1. PICK q \in Nat : Before(areas, m) = 8 * q
      BY BeforeIs
    <3>2. QED
      BY <3>1
  <2>2. QED
    BY <2>1
<1>2. PICK L \in Nat : L = Len(areas[a])
  <2>1. areas[a] \in Seq(Nat)
    BY DEF AllAreas, Internal, Multirecord
  <2>2. QED
    BY <2>1
<1>3. PICK B \in Nat : B = Before(areas, a)
  BY <1>1
<1>4. \A m \in a + 1..5 : B + L <= Before(areas, m)
  <2>1. ASSUME NEW m \in a + 1..5 PROVE B + L <= Before(areas, m)
    <3>1. Before(areas, a + 1) = B + L
      BY <1>2, <1>3, BeforeIs
    <3>2. a + 1 \in 0..5
      OBVIOUS
    <3>3. Before(areas, a + 1) <= Before(areas, m)
      BY <3>2, BeforeGrows
    <3>4. QED
      BY <3>1, <3>3
  <2>2. QED
    BY <2>1
<1>5. PICK i \in Nat : i = B + k /\ 1 <= i /\ i <= B + L
  BY <1>2
<1> DEFINE R == {m \in 0..5 : m > a => Joined(areas, m)[i] = areas[a][k]}
<1>6. 0 \in R
  OBVIOUS
<1>7. ASSUME NEW m \in 0..5 - 1, m \in R PROVE m + 1 \in R
  <2>1. m \in 0..4 /\ m \in 0..5 /\ m + 1 \in 0..5
    OBVIOUS
  <2>2. PICK s \in Seq(Nat) : s = Joined(areas, m)
    BY <2>1, JoinedIs
  <2>3. PICK t \in Seq(Nat) : t = areas[m]
    <3>1. m \in AllAreas
      BY <2>1 DEF AllAreas, Internal, Multirecord
    <3>2. QED
      BY <3>1
  <2>4. Joined(areas, m + 1) = s \o t
    BY <2>1, <2>2, <2>3, JoinedIs
  <2>5. Len(s) = Before(areas, m)
    BY <2>2 DEF Before
  <2>6. CASE m > a
    <3>1. m \in a + 1..5
      BY <2>1, <2>6
    <3>2. B + L <= Len(s)
      BY <1>4, <2>5, <3>1
    <3>3. i \in 1..Len(s)
      BY <1>5, <3>2
    <3>4. (s \o t)[i] = s[i]
      BY <3>3, JoinIs
    <3>5. s[i] = areas[a][k]
      BY <1>7, <2>2, <2>6
    <3>6. QED
      BY <2>1, <2>4, <3>4, <3>5
  <2>7. CASE m = a
    <3>1. k \in 1..Len(t)
      BY <2>3, <2>7
    <3>2. (s \o t)[Len(s) + k] = t[k]
      BY <3>1, JoinIs
    <3>3. Len(s) + k = i
      BY <1>3, <1>5, <2>5, <2>7
    <3>4. QED
      BY <2>1, <2>3, <2>4, <2>7, <3>2, <3>3
  <2>8. CASE m < a
    BY <2>1, <2>8
  <2>9. QED
    BY <2>1, <2>6, <2>7, <2>8
<1> HIDE DEF R
<1>8. 5 \in Nat
  OBVIOUS
<1>9. \A m \in 0..5 : m \in R
  BY <1>6, <1>7, <1>8, UpTo
<1>10. 5 \in R
  <2>1. 5 \in 0..5
    OBVIOUS
  <2>2. QED
    BY <1>9, <2>1
<1>11. Joined(areas, 5)[i] = areas[a][k]
  <2>1. 5 > a
    OBVIOUS
  <2>2. QED
    BY <1>10, <2>1 DEF R
<1>12. 5 \in a + 1..5 /\ 5 \in 0..5
  OBVIOUS
<1>13. i \in 1..Before(areas, 5)
  BY <1>1, <1>4, <1>5, <1>12
<1>14. QED
  BY <1>3, <1>5, <1>11, <1>13

\* What a FRU holds that was put together of these areas.
Assembled(fru, areas) ==
    /\ fru \in Seq(Nat) /\ Len(fru) = 8 + Before(areas, 5)
    /\ validateHeader(fru)
    /\ \A a \in AllAreas :
          /\ areas[a] = <<>> => Offset(fru, a) = 0
          /\ areas[a] # <<>> => Offset(fru, a) \in Nat /\ Offset(fru, a) * 8 = 8 + Before(areas, a)
          /\ \A k \in 1..Len(areas[a]) :
                /\ 8 + Before(areas, a) + k \in 1..Len(fru)
                /\ fru[8 + Before(areas, a) + k] = areas[a][k]

\* The offset of an area has a byte.
LEMMA OffsetIs ==
    \A q \in Nat : 8 * q + 16 <= 2048 => /\ ((8 * q) \div 8 + 1) % 256 \in Nat
                                         /\ (((8 * q) \div 8 + 1) % 256) * 8 = 8 + 8 * q
<1>1. \A q \in Nat : (8 * q) \div 8 = q
  OBVIOUS
<1>2. \A r \in Nat : r < 256 => r % 256 = r
  OBVIOUS
<1>3. ASSUME NEW q \in Nat
      PROVE  8 * q + 16 <= 2048 =>
             /\ ((8 * q) \div 8 + 1) % 256 \in Nat
             /\ (((8 * q) \div 8 + 1) % 256) * 8 = 8 + 8 * q
  <2>0. SUFFICES ASSUME 8 * q + 16 <= 2048
                 PROVE  /\ ((8 * q) \div 8 + 1) % 256 \in Nat
                        /\ (((8 * q) \div 8 + 1) % 256) * 8 = 8 + 8 * q
    OBVIOUS
  <2>1. PICK r \in Nat : r = q + 1 /\ r < 256
    BY <2>0
  <2>2. (8 * q) \div 8 + 1 = r
    BY <1>1, <2>1
  <2>3. ((8 * q) \div 8 + 1) % 256 = r
    BY <1>2, <2>1, <2>2
  <2>4. r \in Nat /\ r * 8 = 8 + 8 * q
    BY <2>1
  <2>5. PICK x : x = ((8 * q) \div 8 + 1) % 256
    OBVIOUS
  <2>6. x \in Nat /\ x * 8 = 8 + 8 * q
    BY <2>3, <2>4, <2>5
  <2>7. QED
    BY <2>5, <2>6
<1>4. QED
  BY <1>3, Zenon

\* A FRU that is not longer than maxFruSize is put together so.
LEMMA AssembledIs ==
    ASSUME NEW areas, \A a \in AllAreas : areas[a] \in Seq(Nat),
           assembleFruData(areas) # <<>>, Len(assembleFruData(areas)) <= maxFruSize
    PROVE  CanAssemble(areas) /\ Assembled(assembleFruData(areas), areas)
<1>1. CanAssemble(areas)
  BY DEF assembleFruData
<1>2. PICK J \in Seq(Nat) : J = Joined(areas, 5) /\ Len(J) = Before(areas, 5)
  <2>1. 5 \in 0..5
    OBVIOUS
  <2>2. QED
    BY <2>1, JoinedIs DEF Before
<1> DEFINE offset(i) == IF areas[i - 1] = <<>> THEN 0
                        ELSE (Len(Joined(areas, i - 1)) \div fruBlockSize + 1) % 256
           offsets == [i \in 1..5 |-> offset(i)]
           header == <<fruVersion>> \o offsets \o <<0, 0>>
<1>3. \A i \in 1..5 : offset(i) \in Nat
  <2>1. ASSUME NEW i \in 1..5 PROVE offset(i) \in Nat
    <3>1. PICK m \in 0..5 : m = i - 1
      OBVIOUS
    <3>2. PICK q \in Nat : Before(areas, m) = 8 * q
      BY <1>1, BeforeIs
    <3>3. PICK x \in Nat : x = Len(Joined(areas, m)) \div fruBlockSize + 1
      BY <3>2 DEF Before, fruBlockSize
    <3>4. x % 256 \in Nat
      BY ByteOf
    <3>5. QED
      BY <3>1, <3>3, <3>4
  <2> HIDE DEF offset
  <2>2. QED
    BY <2>1
<1> HIDE DEF offset
<1>4. /\ header \in Seq(Nat) /\ Len(header) = 8
      /\ header[1] = fruVersion /\ header[7] = 0
      /\ \A i \in 1..5 : header[i + 1] = offset(i)
  <2>1. offsets \in Seq(Nat) /\ Len(offsets) = 5 /\ \A i \in 1..5 : offsets[i] = offset(i)
    BY <1>3
  <2> HIDE DEF offsets
  <2>2. PICK one \in Seq(Nat) : one = <<fruVersion>> /\ Len(one) = 1 /\ one[1] = fruVersion
    <3>1. PICK v \in Nat : v = fruVersion
      BY DEF fruVersion
    <3>2. <<v>> \in Seq(Nat) /\ Len(<<v>>) = 1 /\ <<v>>[1] = v
      OBVIOUS
    <3>3. QED
      BY <3>1, <3>2
  <2>3. PICK two \in Seq(Nat) : two = <<0, 0>> /\ Len(two) = 2 /\ two[1] = 0
    <3>1. 0 \in Nat
      OBVIOUS
    <3>2. <<0, 0>> \in Seq(Nat) /\ Len(<<0, 0>>) = 2 /\ <<0, 0>>[1] = 0
      BY <3>1
    <3>3. QED
      BY <3>2
  <2>4. PICK front : front = one \o offsets
    OBVIOUS
  <2>5. /\ front \in Seq(Nat) /\ Len(front) = 6 /\ front[1] = fruVersion
        /\ \A i \in 1..5 : front[i + 1] = offset(i)
    <3>1. /\ front \in Seq(Nat) /\ Len(front) = 1 + 5
          /\ \A i \in 1..1 : front[i] = one[i]
          /\ \A i \in 1..5 : front[1 + i] = offsets[i]
      <4>1. offsets \in Seq(Nat) /\ Len(offsets) = 5
        BY <2>1
      <4>2a. /\ one \o offsets \in Seq(Nat) /\ Len(one \o offsets) = Len(one) + Len(offsets)
             /\ \A i \in 1..Len(one) : (one \o offsets)[i] = one[i]
             /\ \A i \in 1..Len(offsets) : (one \o offsets)[Len(one) + i] = offsets[i]
        BY <2>4, <4>1, JoinIs, Zenon
      <4>2. /\ front \in Seq(Nat) /\ Len(front) = Len(one) + Len(offsets)
            /\ \A i \in 1..Len(one) : front[i] = one[i]
            /\ \A i \in 1..Len(offsets) : front[Len(one) + i] = offsets[i]
        BY <2>4, <4>1, <4>2a, Zenon
      <4>3. QED
        BY <2>2, <4>1, <4>2
    <3>2. 1 \in 1..1 /\ 1 + 5 = 6 /\ \A i \in 1..5 : 1 + i = i + 1
      OBVIOUS
    <3>3. QED
      BY <2>1, <2>2, <3>1, <3>2
  <2>6. PICK all : all = front \o two
    OBVIOUS
  <2>7. /\ all \in Seq(Nat) /\ Len(all) = 6 + 2
        /\ \A i \in 1..6 : all[i] = front[i]
        /\ \A i \in 1..2 : all[6 + i] = two[i]
    <3>1. front \in Seq(Nat) /\ Len(front) = 6
      BY <2>5
    <3>2a. /\ front \o two \in Seq(Nat) /\ Len(front \o two) = Len(front) + Len(two)
           /\ \A i \in 1..Len(front) : (front \o two)[i] = front[i]
           /\ \A i \in 1..Len(two) : (front \o two)[Len(front) + i] = two[i]
      BY <2>6, <3>1, JoinIs, Zenon
    <3>2. /\ all \in Seq(Nat) /\ Len(all) = Len(front) + Len(two)
          /\ \A i \in 1..Len(front) : all[i] = front[i]
          /\ \A i \in 1..Len(two) : all[Len(front) + i] = two[i]
      BY <2>6, <3>1, <3>2a, Zenon
    <3>3. QED
      BY <2>3, <3>1, <3>2
  <2>8. 6 + 2 = 8 /\ 1 \in 1..6 /\ 1 \in 1..2 /\ 6 + 1 = 7 /\ \A i \in 1..5 : i + 1 \in 1..6
    OBVIOUS
  <2>9. header = all
    BY <2>2, <2>3, <2>4, <2>6
  <2> HIDE DEF header
  <2>10. QED
    BY <2>3, <2>5, <2>7, <2>8, <2>9
<1>5. assembleFruData(areas) = Sealed(header) \o J
  BY <1>1, <1>2 DEF assembleFruData, offset
<1> HIDE DEF header, offsets
<1>6. PICK sealed : sealed = Sealed(header)
  OBVIOUS
<1>7. /\ sealed \in Seq(Nat) /\ Len(sealed) = 8
      /\ \A i \in 1..7 : sealed[i] = header[i]
      /\ sealed[8] = calculateChecksum(SubSeq(header, 1, 7))
  <2>0. header \in Seq(Nat) /\ Len(header) = 8
    BY <1>4
  <2>1. PICK h \in Seq(Nat) : h = header /\ Len(h) = 8 /\ Len(h) >= 1 /\ Len(h) - 1 = 7
    <3>1. PICK h \in Seq(Nat) : h = header /\ Len(h) = 8
      BY <2>0
    <3>2. Len(h) >= 1 /\ Len(h) - 1 = 7
      BY <3>1
    <3>3. QED
      BY <3>1, <3>2
  <2>2. /\ Sealed(h) \in Seq(Nat) /\ Len(Sealed(h)) = Len(h)
        /\ \A i \in 1..Len(h) - 1 : Sealed(h)[i] = h[i]
        /\ Sealed(h)[Len(h)] = calculateChecksum(SubSeq(h, 1, Len(h) - 1))
    BY <2>1, SealedIs
  <2>3. QED
    BY <1>6, <2>1, <2>2
<1>8. PICK fru : fru = assembleFruData(areas)
  OBVIOUS
<1>9. /\ fru \in Seq(Nat) /\ Len(fru) = 8 + Before(areas, 5)
      /\ \A i \in 1..8 : fru[i] = sealed[i]
      /\ \A i \in 1..Before(areas, 5) : fru[8 + i] = J[i]
  <2>1. fru = sealed \o J
    BY <1>5, <1>6, <1>8
  <2>2. sealed \in Seq(Nat) /\ Len(sealed) = 8
    BY <1>7
  <2>3a. /\ sealed \o J \in Seq(Nat) /\ Len(sealed \o J) = Len(sealed) + Len(J)
         /\ \A i \in 1..Len(sealed) : (sealed \o J)[i] = sealed[i]
         /\ \A i \in 1..Len(J) : (sealed \o J)[Len(sealed) + i] = J[i]
    BY <2>1, <2>2, JoinIs, Zenon
  <2>3. /\ fru \in Seq(Nat) /\ Len(fru) = Len(sealed) + Len(J)
        /\ \A i \in 1..Len(sealed) : fru[i] = sealed[i]
        /\ \A i \in 1..Len(J) : fru[Len(sealed) + i] = J[i]
    BY <2>1, <2>2, <2>3a, Zenon
  <2>4. QED
    BY <1>2, <2>2, <2>3
<1>10. validateHeader(fru)
  <2>1. 1 \in 1..7 /\ 7 \in 1..7 /\ 1 \in 1..8 /\ 7 \in 1..8 /\ 8 \in 1..8
    OBVIOUS
  <2>2. fru[1] = fruVersion /\ fru[7] = 0 /\ fru[8] = calculateChecksum(SubSeq(header, 1, 7))
    BY <1>4, <1>7, <1>9, <2>1
  <2>3. PICK N \in Nat : N = Len(fru) /\ N >= 8
    <3>1. PICK q \in Nat : Before(areas, 5) = 8 * q
      <4>1. 5 \in 0..5
        OBVIOUS
      <4>2. QED
        BY <1>1, <4>1, BeforeIs
    <3>2. QED
      BY <1>9, <3>1
  <2>4. SubSeq(fru, 1, 7) = SubSeq(header, 1, 7)
    <3>1. PICK s : s = SubSeq(fru, 1, 7)
      OBVIOUS
    <3>2. PICK t : t = SubSeq(header, 1, 7)
      OBVIOUS
    <3>3. 7 \in Nat /\ 7 <= 8
      OBVIOUS
    <3>4. s \in Seq(Nat) /\ Len(s) = 7 /\ \A i \in 1..7 : s[i] = fru[i]
      <4>1. PICK m \in Nat : m = 7
        BY <3>3
      <4>2. fru \in Seq(Nat) /\ m <= Len(fru) /\ s = SubSeq(fru, 1, m)
        BY <1>9, <2>3, <3>1, <4>1
      <4>3. s \in Seq(Nat) /\ Len(s) = m /\ \A i \in 1..m : s[i] = fru[i]
        BY <4>2, FrontNames
      <4>4. QED
        BY <4>1, <4>3
    <3>5. t \in Seq(Nat) /\ Len(t) = 7 /\ \A i \in 1..7 : t[i] = header[i]
      <4>1. PICK m \in Nat : m = 7
        BY <3>3
      <4>2. header \in Seq(Nat) /\ m <= Len(header) /\ t = SubSeq(header, 1, m)
        <5>1. header \in Seq(Nat) /\ Len(header) = 8
          BY <1>4
        <5>2. m <= Len(header)
          BY <4>1, <5>1
        <5>3. QED
          BY <3>2, <4>1, <5>1, <5>2
      <4>3. t \in Seq(Nat) /\ Len(t) = m /\ \A i \in 1..m : t[i] = header[i]
        BY <4>2, FrontNames
      <4>4. QED
        BY <4>1, <4>3
    <3>6. \A i \in 1..7 : i \in 1..8
      OBVIOUS
    <3>7. \A i \in 1..7 : s[i] = t[i]
      <4>1. \A i \in 1..8 : fru[i] = sealed[i]
        BY <1>9
      <4>2. \A i \in 1..7 : fru[i] = header[i]
        BY <1>7, <3>6, <4>1
      <4>3. QED
        BY <3>4, <3>5, <4>2
    <3>8. s = t
      BY <3>3, <3>4, <3>5, <3>7, SameElements
    <3>9. QED
      BY <3>1, <3>2, <3>8
  <2>5. At(fru, 0) = fru[1] /\ At(fru, 6) = fru[7] /\ At(fru, 7) = fru[8]
    BY DEF At
  <2>6. QED
    BY <2>2, <2>4, <2>5 DEF validateHeader
<1>11. ASSUME NEW a \in AllAreas
       PROVE  /\ areas[a] = <<>> => Offset(fru, a) = 0
              /\ areas[a] # <<>> => /\ Offset(fru, a) \in Nat
                                    /\ Offset(fru, a) * 8 = 8 + Before(areas, a)
              /\ \A k \in 1..Len(areas[a]) :
                    /\ 8 + Before(areas, a) + k \in 1..Len(fru)
                    /\ fru[8 + Before(areas, a) + k] = areas[a][k]
  <2>0. a \in 0..4 /\ a \in 0..5 /\ 5 \in 0..5
    BY DEF AllAreas, Internal, Multirecord
  <2>1. Offset(fru, a) = offset(a + 1)
    <3>1. PICK i \in 1..5 : i = a + 1 /\ i + 1 = a + 1 + 1 /\ i + 1 \in 1..7 /\ i + 1 \in 1..8
      BY <2>0
    <3>2. Offset(fru, a) = fru[i + 1]
      BY <3>1 DEF Offset, At, getHeaderAreaFieldOffset
    <3>3. QED
      BY <1>4, <1>7, <1>9, <3>1, <3>2
  <2>2. PICK q \in Nat : Before(areas, a) = 8 * q
    BY <1>1, <2>0, BeforeIs
  <2>3. a + 1 - 1 = a
    BY <2>0
  <2>4. offset(a + 1) = IF areas[a] = <<>> THEN 0 ELSE ((8 * q) \div 8 + 1) % 256
    <3>1. Len(Joined(areas, a)) = 8 * q
      BY <2>2 DEF Before
    <3>2. PICK i \in Int : i = a + 1 /\ i - 1 = a
      BY <2>0
    <3>3. offset(i) = IF areas[i - 1] = <<>> THEN 0
                      ELSE (Len(Joined(areas, i - 1)) \div fruBlockSize + 1) % 256
      BY Zenon DEF offset
    <3>4. offset(i) = IF areas[a] = <<>> THEN 0
                      ELSE (Len(Joined(areas, a)) \div fruBlockSize + 1) % 256
      BY <3>2, <3>3, Zenon
    <3>5. offset(a + 1) = IF areas[a] = <<>> THEN 0
                          ELSE ((8 * q) \div fruBlockSize + 1) % 256
      BY <3>1, <3>2, <3>4, Zenon
    <3>6. QED
      BY <3>5, Zenon DEF fruBlockSize
  <2>5. PICK Q \in Nat : Before(areas, 5) = 8 * Q
    BY <1>1, <2>0, BeforeIs
  <2>6. ASSUME NEW k \in 1..Len(areas[a])
        PROVE  /\ 8 + Before(areas, a) + k \in 1..Len(fru)
               /\ fru[8 + Before(areas, a) + k] = areas[a][k]
    <3>1. PICK i : i = Before(areas, a) + k
      OBVIOUS
    <3>2. i \in 1..Before(areas, 5) /\ J[i] = areas[a][k]
      BY <1>1, <1>2, <2>0, <3>1, JoinedHas
    <3>3. fru[8 + i] = areas[a][k]
      BY <1>9, <3>2
    <3>4. PICK l \in Nat : l = Len(areas[a])
      BY <2>0
    <3>5. 8 + Before(areas, a) + k = 8 + i /\ 8 + i \in 1..Len(fru)
      BY <1>9, <2>2, <2>5, <3>1, <3>2, <3>4
    <3>6. QED
      BY <3>3, <3>5
  <2>7. ASSUME areas[a] # <<>> PROVE 8 * q + 16 <= 2048
    <3>1. PICK l \in Nat : l = Len(areas[a]) /\ l >= 8
      <4>1. PICK p \in Nat : Len(areas[a]) = 8 * p
        BY <1>1, <2>0, BeforeIs
      <4>2. Len(areas[a]) # 0
        <5>1. areas[a] \in Seq(Nat)
          OBVIOUS
        <5>2. QED
          BY <2>7, <5>1
      <4>3. QED
        BY <4>1, <4>2
    <3>2. l \in 1..Len(areas[a])
      BY <3>1
    <3>3. PICK n \in Nat : n = Len(fru)
      BY <1>9
    <3>4. 8 + Before(areas, a) + l \in 1..Len(fru)
      BY <2>6, <3>2
    <3>5. 8 + 8 * q + l <= n
      BY <2>2, <3>3, <3>4
    <3>6. maxFruSize \in 0..2048
      BY SizesAssumption DEF fruBlockSize
    <3>7. n <= maxFruSize
      BY <1>8, <3>3
    <3>8. n <= 2048
      <4>1. PICK w \in Int : w = maxFruSize /\ w <= 2048
        BY <3>6
      <4>2. QED
        BY <3>7, <4>1
    <3>9. QED
      <4>1. l >= 8
        BY <3>1
      <4>2. QED
        BY <3>5, <3>8, <4>1
  <2>8. areas[a] = <<>> => Offset(fru, a) = 0
    BY <2>1, <2>4
  <2>9. areas[a] # <<>> => Offset(fru, a) \in Nat /\ Offset(fru, a) * 8 = 8 + Before(areas, a)
    <3>1. SUFFICES ASSUME areas[a] # <<>>
                   PROVE  Offset(fru, a) \in Nat /\ Offset(fru, a) * 8 = 8 + Before(areas, a)
      OBVIOUS
    <3>2. PICK x : x = ((8 * q) \div 8 + 1) % 256
      OBVIOUS
    <3>3. x \in Nat /\ x * 8 = 8 + 8 * q
      BY <2>7, <3>1, <3>2, OffsetIs
    <3>4. Offset(fru, a) = x
      BY <2>1, <2>4, <3>1, <3>2
    <3>5. QED
      BY <2>2, <3>3, <3>4
  <2>10. QED
    BY <2>6, <2>8, <2>9
<1>12. QED
  BY <1>1, <1>8, <1>9, <1>10, <1>11 DEF Assembled

\* The areas of a FRU that was taken apart, one of them set.
Parts(areas) ==
    /\ \A a \in AllAreas : areas[a] \in Seq(Nat)
    /\ \A a \in InfoAreas : areas[a] # <<>> => Blocks(areas[a])
    /\ areas[Multirecord] # <<>> =>
          LastRecordEnd(areas[Multirecord], 0) <= Len(areas[Multirecord])
    /\ \E a \in InfoAreas : areas[a] # <<>>
    /\ CanAssemble(areas)

\* Where an area is.
LEMMA PresentIs ==
    ASSUME NEW areas, NEW fru, Parts(areas), Assembled(fru, areas),
           NEW a \in AllAreas, areas[a] # <<>> \/ Offset(fru, a) # 0
    PROVE  \E B \in Nat, l \in Nat :
              /\ B = Offset(fru, a) * fruBlockSize /\ B = 8 + Before(areas, a) /\ B >= 8
              /\ l = Len(areas[a]) /\ l >= 8 /\ B + l <= Len(fru) /\ Offset(fru, a) # 0
              /\ 8 + Before(areas, a + 1) = B + l
              /\ Same(areas[a], 0, fru, B, l)
<1>1. areas[a] # <<>>
  BY DEF Assembled
<1>2. a \in 0..4 /\ a \in 0..5 /\ a + 1 \in 0..5 /\ CanAssemble(areas)
      /\ \A b \in AllAreas : areas[b] \in Seq(Nat)
  BY DEF AllAreas, Internal, Multirecord, Parts
<1>3. PICK q \in Nat : Before(areas, a) = 8 * q
  BY <1>2, BeforeIs
<1>4. PICK B \in Nat : B = 8 + 8 * q
  OBVIOUS
<1>5. PICK l \in Nat : l = Len(areas[a]) /\ l >= 8
  <2>1. PICK p \in Nat : Len(areas[a]) = 8 * p
    BY <1>2, BeforeIs
  <2>2. areas[a] \in Seq(Nat)
    BY <1>2
  <2>3. Len(areas[a]) # 0
    BY <1>1, <2>2
  <2>4. QED
    BY <2>1, <2>3
<1>6. Before(areas, a + 1) = 8 * q + l
  BY <1>2, <1>3, <1>5, BeforeIs
<1>7. Offset(fru, a) * 8 = B /\ Offset(fru, a) \in Nat
  BY <1>1, <1>3, <1>4 DEF Assembled
<1>8. \A k \in 1..l : B + k \in 1..Len(fru) /\ fru[B + k] = areas[a][k]
  <2>1. ASSUME NEW k \in 1..l PROVE B + k \in 1..Len(fru) /\ fru[B + k] = areas[a][k]
    <3>1. /\ 8 + Before(areas, a) + k \in 1..Len(fru)
          /\ fru[8 + Before(areas, a) + k] = areas[a][k]
      BY <1>5 DEF Assembled
    <3>2. 8 + Before(areas, a) + k = B + k
      BY <1>3, <1>4
    <3>3. QED
      BY <3>1, <3>2
  <2>2. QED
    BY <2>1
<1>9. PICK n \in Nat : n = Len(fru)
  BY DEF Assembled
<1>10. B + l <= n
  <2>1. l \in 1..l
    BY <1>5
  <2>2. B + l \in 1..n
    BY <1>8, <1>9, <2>1
  <2>3. QED
    BY <2>2
<1>11. Same(areas[a], 0, fru, B, l)
  <2>1. ASSUME NEW k \in 0..l - 1 PROVE At(areas[a], 0 + k) = At(fru, B + k)
    <3>1. PICK i \in 1..l : i = k + 1 /\ 0 + k + 1 = i /\ B + k + 1 = B + i
      OBVIOUS
    <3>2. fru[B + i] = areas[a][i]
      BY <1>8
    <3>3. QED
      BY <3>1, <3>2 DEF At
  <2>2. 0 + l <= Len(areas[a])
    BY <1>5
  <2>3. QED
    BY <1>9, <1>10, <2>1, <2>2 DEF Same
<1>12. Offset(fru, a) # 0 /\ B >= 8 /\ B = 8 + Before(areas, a) /\ 8 + Before(areas, a + 1) = B + l
  BY <1>3, <1>4, <1>6, <1>7
<1>13. QED
  BY <1>5, <1>7, <1>9, <1>10, <1>11, <1>12 DEF fruBlockSize

\* The offsets of the areas increase.
LEMMA AssembledInOrder ==
    ASSUME NEW areas, NEW fru, Parts(areas), Assembled(fru, areas)
    PROVE  InOrder(fru)
<1>1. SUFFICES ASSUME NEW a \in AllAreas, NEW b \in AllAreas, a < b,
                      StartOf(fru, a) # 0, StartOf(fru, b) # 0
               PROVE  StartOf(fru, a) < StartOf(fru, b)
  BY DEF InOrder, PresentAreas
<1>2. \A c : StartOf(fru, c) = Offset(fru, c)
  BY DEF StartOf, Offset
<1>3. PICK B \in Nat, l \in Nat :
          B = Offset(fru, a) * 8 /\ l >= 8 /\ 8 + Before(areas, a + 1) = B + l
  <2>1. Offset(fru, a) # 0 /\ fruBlockSize = 8
    BY <1>1, <1>2 DEF fruBlockSize
  <2>2. PICK B \in Nat, l \in Nat :
            /\ B = Offset(fru, a) * fruBlockSize /\ l >= 8
            /\ 8 + Before(areas, a + 1) = B + l
    BY <2>1, PresentIs
  <2>3. QED
    BY <2>1, <2>2
<1>4. PICK C \in Nat : C = Offset(fru, b) * 8 /\ C = 8 + Before(areas, b)
  BY <1>1, <1>2, PresentIs DEF fruBlockSize
<1>5. a + 1 \in 0..5 /\ b \in a + 1..5 /\ b \in 0..5
  BY <1>1 DEF AllAreas, Internal, Multirecord
<1>6. Before(areas, a + 1) <= Before(areas, b)
  BY <1>5, BeforeGrows DEF Parts
<1>7. PICK q \in Nat : Before(areas, a + 1) = 8 * q
  BY <1>5, BeforeIs DEF Parts
<1>8. PICK p \in Nat : Before(areas, b) = 8 * p
  BY <1>5, BeforeIs DEF Parts
<1>9. B < C
  BY <1>3, <1>4, <1>6, <1>7, <1>8
<1>10. PICK x \in Nat : x = Offset(fru, a)
  BY <1>1, <1>2 DEF Assembled
<1>11. PICK y \in Nat : y = Offset(fru, b)
  BY <1>1, <1>2 DEF Assembled
<1>12. x < y
  BY <1>3, <1>4, <1>9, <1>10, <1>11
<1>13. QED
  BY <1>2, <1>10, <1>11, <1>12

\* Where an area ends.
LEMMA EndIs ==
    ASSUME NEW areas, NEW fru, Parts(areas), Assembled(fru, areas),
           NEW a \in AllAreas, a # Internal, Offset(fru, a) # 0
    PROVE  /\ AreaEnd(fru, a) \in Nat
           /\ AreaEnd(fru, a) > Offset(fru, a) * fruBlockSize
           /\ a \in InfoAreas => AreaEnd(fru, a) = Offset(fru, a) * fruBlockSize + Len(areas[a])
           /\ a = Multirecord =>
                 LastRecordEnd(fru, Offset(fru, a) * fruBlockSize) <= Len(fru)
<1>1. PICK B \in Nat, l \in Nat :
          /\ B = Offset(fru, a) * fruBlockSize
          /\ l = Len(areas[a]) /\ l >= 8 /\ B + l <= Len(fru)
          /\ Same(areas[a], 0, fru, B, l)
  BY PresentIs
<1>2. StartOf(fru, a) * fruBlockSize = B
  BY <1>1 DEF StartOf, Offset
<1>3. areas[a] \in Seq(Nat) /\ fru \in Seq(Nat) /\ areas[a] # <<>>
  BY DEF Parts, Assembled
<1>4. CASE a \in InfoAreas
  <2>1. PICK blocks \in Nat : blocks >= 1 /\ l = blocks * 8 /\ areas[a][2] = blocks
    <3>1. Blocks(areas[a])
      BY <1>3, <1>4 DEF Parts
    <3>2. QED
      BY <1>1, <3>1 DEF Blocks, fruBlockSize
  <2>2. At(fru, B + 1) = blocks
    <3>1. 1 \in 0..l - 1
      BY <1>1
    <3>2. At(areas[a], 0 + 1) = At(fru, B + 1)
      BY <1>1, <3>1 DEF Same
    <3>3. 0 + 1 + 1 = 2
      OBVIOUS
    <3>4. At(areas[a], 0 + 1) = areas[a][2]
      BY <3>3 DEF At
    <3>5. QED
      BY <2>1, <3>2, <3>4
  <2>3. a # Multirecord
    BY <1>4 DEF InfoAreas, Multirecord
  <2>4. AreaEnd(fru, a) = B + blocks * 8
    BY <1>2, <2>2, <2>3 DEF AreaEnd, fruBlockSize
  <2>5. QED
    BY <1>1, <2>1, <2>3, <2>4
<1>5. CASE a = Multirecord
  <2>1. LastRecordEnd(areas[a], 0) <= 0 + l
    BY <1>1, <1>3, <1>5 DEF Parts
  <2>2. 0 \in Nat
    OBVIOUS
  <2>3. LastRecordEnd(fru, B) - B = LastRecordEnd(areas[a], 0) - 0
    BY <1>1, <1>3, <2>1, <2>2, RecordsMove
  <2>4. LastRecordEnd(areas[a], 0) \in Nat
    BY <1>3, <2>2, LastRecordEndGrows
  <2>5. LastRecordEnd(fru, B) \in Nat /\ LastRecordEnd(fru, B) >= B + 5
    BY <1>1, <1>3, LastRecordEndGrows
  <2>6. AreaEnd(fru, a) = LastRecordEnd(fru, B)
    BY <1>2, <1>5 DEF AreaEnd
  <2>7. PICK n \in Nat : n = Len(fru)
    BY <1>3
  <2>8. LastRecordEnd(fru, B) <= n
    BY <1>1, <2>1, <2>3, <2>4, <2>5, <2>7
  <2>9. a \notin InfoAreas
    BY <1>5 DEF InfoAreas, Multirecord
  <2>10. AreaEnd(fru, a) > B
    BY <2>5, <2>6
  <2>11. QED
    BY <1>1, <1>3, <2>5, <2>6, <2>7, <2>8, <2>9, <2>10
<1>6. QED
  BY <1>4, <1>5 DEF AllAreas, InfoAreas, Internal, Multirecord

\* What is behind the first block of an area is of this or of a later area.
LEMMA EndBehind ==
    ASSUME NEW areas, NEW fru, Parts(areas), Assembled(fru, areas),
           NEW a \in InfoAreas, Offset(fru, a) # 0,
           Offset(fru, a) * fruBlockSize + fruBlockSize < Len(fru)
    PROVE  \E b \in AllAreas : /\ Offset(fru, b) # 0 /\ AreaEnd(fru, b) \in Nat
                               /\ AreaEnd(fru, b) > Offset(fru, a) * fruBlockSize + fruBlockSize
<1>0. a \in AllAreas /\ a # Internal /\ a \in 1..3
  BY DEF AllAreas, InfoAreas, Internal, Multirecord
<1>1. PICK B \in Nat, l \in Nat :
          /\ B = Offset(fru, a) * fruBlockSize /\ l = Len(areas[a]) /\ l >= 8
          /\ 8 + Before(areas, a + 1) = B + l
  BY <1>0, PresentIs
<1>2. AreaEnd(fru, a) \in Nat /\ AreaEnd(fru, a) = B + l
  BY <1>0, <1>1, EndIs
<1>3. CASE l > 8
  BY <1>0, <1>1, <1>2, <1>3 DEF fruBlockSize
<1>4. CASE l = 8
  <2>1. \A m \in 0..5 : Before(areas, m) \in Nat
    <3>1. ASSUME NEW m \in 0..5 PROVE Before(areas, m) \in Nat
      <4>1. PICK q \in Nat : Before(areas, m) = 8 * q
        BY BeforeIs DEF Parts
      <4>2. QED
        BY <4>1
    <3>2. QED
      BY <3>1
  <2>2. a + 1 \in 0..5 /\ 5 \in 0..5
    BY <1>0
  <2>3. Before(areas, a + 1) # Before(areas, 5)
    <3>1. Len(fru) = 8 + Before(areas, 5)
      BY DEF Assembled
    <3>2. B + 8 < 8 + Before(areas, 5)
      BY <1>1, <3>1 DEF fruBlockSize
    <3>3. QED
      BY <1>1, <1>4, <2>1, <2>2, <3>2
  <2>4. PICK b \in a + 1..4 : areas[b] # <<>>
    <3>1. SUFFICES ASSUME \A b \in a + 1..4 : areas[b] = <<>> PROVE FALSE
      OBVIOUS
    <3>2. ASSUME NEW b \in a + 1..4 PROVE Before(areas, b + 1) = Before(areas, b)
      <4>1. b \in 0..4 /\ b \in 0..5
        BY <1>0, <3>2
      <4>2. Len(areas[b]) = 0
        BY <3>1
      <4>3. Before(areas, b + 1) = Before(areas, b) + 0
        BY <4>1, <4>2, BeforeIs DEF Parts
      <4>4. QED
        BY <2>1, <4>1, <4>3
    <3> DEFINE R == {d \in 0..4 - a : Before(areas, a + 1 + d) = Before(areas, a + 1)}
    <3>3. 0 \in R
      <4>1. a + 1 + 0 = a + 1 /\ 0 \in 0..4 - a
        BY <1>0
      <4>2. QED
        BY <4>1
    <3>4. ASSUME NEW d \in 0..(4 - a) - 1, d \in R PROVE d + 1 \in R
      <4>1. PICK b \in a + 1..4 : b = a + 1 + d /\ b + 1 = a + 1 + (d + 1) /\ d + 1 \in 0..4 - a
        BY <1>0
      <4>2. QED
        BY <3>2, <3>4, <4>1
    <3> HIDE DEF R
    <3>5. 4 - a \in Nat /\ 4 - a \in 0..4 - a /\ a + 1 + (4 - a) = 5
      BY <1>0
    <3>6. 4 - a \in R
      BY <3>3, <3>4, <3>5, UpTo
    <3>7. QED
      BY <2>3, <3>5, <3>6 DEF R
  <2>5. b \in AllAreas /\ b # Internal /\ b \in a + 1..5 /\ b \in 0..5
    BY <1>0 DEF AllAreas, Internal, Multirecord
  <2>6. PICK C \in Nat : C = Offset(fru, b) * fruBlockSize /\ C = 8 + Before(areas, b)
                         /\ Offset(fru, b) # 0
    BY <2>4, <2>5, PresentIs
  <2>7. Before(areas, a + 1) <= Before(areas, b)
    BY <2>2, <2>5, BeforeGrows DEF Parts
  <2>8. C >= B + 8
    <3>1. PICK x \in Nat : x = Before(areas, a + 1)
      BY <2>1, <2>2
    <3>2. PICK y \in Nat : y = Before(areas, b)
      BY <2>1, <2>5
    <3>3. x <= y /\ 8 + x = B + 8 /\ C = 8 + y
      BY <1>1, <1>4, <2>6, <2>7, <3>1, <3>2
    <3>4. QED
      BY <3>3
  <2>9. AreaEnd(fru, b) \in Nat /\ AreaEnd(fru, b) > C
    BY <2>5, <2>6, EndIs
  <2>10. AreaEnd(fru, b) > B + fruBlockSize
    BY <2>8, <2>9 DEF fruBlockSize
  <2>11. QED
    BY <1>1, <2>5, <2>6, <2>9, <2>10
<1>5. QED
  <2>1. l = 8 \/ l > 8
    <3>1. l >= 8
      BY <1>1
    <3>2. QED
      BY <3>1
  <2>2. QED
    BY <1>3, <1>4, <2>1

-----------------------------------------------------------------------------
(* What is read. *)

\* The offsets are bytes of the header.
LEMMA StartIs ==
    ASSUME NEW e \in Seq(Nat), Len(e) >= 8, NEW a \in AllAreas
    PROVE  /\ StartOf(e, a) \in Nat /\ Offset(e, a) = StartOf(e, a)
           /\ a + 2 \in 1..8 /\ StartOf(e, a) = e[a + 2]
<1>1. PICK i \in Nat : i = a + 2 /\ i = a + 1 + 1 /\ i \in 1..8
  BY DEF AllAreas, Internal, Multirecord
<1>2. e[i] \in Nat
  <2>1. PICK N \in Nat : N = Len(e) /\ N >= 8
    OBVIOUS
  <2>2. i \in 1..N
    <3>1. i \in 1..8
      BY <1>1
    <3>2. QED
      BY <2>1, <3>1
  <2>3. QED
    BY <2>1, <2>2
<1>3. StartOf(e, a) = e[a + 1 + 1] /\ Offset(e, a) = e[a + 1 + 1]
  BY DEF StartOf, Offset, At, getHeaderAreaFieldOffset
<1>4. QED
  BY <1>1, <1>2, <1>3

\* What is read is the front of what the EEPROM holds, and holds every area.
ReadFrom(c, e) ==
    /\ c \in Seq(Nat) /\ Len(c) >= 8 /\ Len(c) <= EepromSize
    /\ \A i \in 1..Len(c) : c[i] = e[i]
    /\ \A a \in PresentAreas(e) : AreaEnd(e, a) \in Nat /\ AreaEnd(e, a) <= Len(c)

\* Whether the size is known or not.
LEMMA ContentsIs ==
    ASSUME NEW e \in Seq(Nat), Len(e) = EepromSize, validateHeader(e), InOrder(e), Fits(e)
    PROVE  ReadFrom(Contents(e), e)
<1>0. EepromSize \in Nat /\ EepromSize >= 8
  BY SizesAssumption DEF fruBlockSize
<1>2. ASSUME NEW a \in PresentAreas(e) PROVE AreaEnd(e, a) \in Nat /\ AreaEnd(e, a) <= EepromSize
  <2>1. a \in AllAreas
    BY DEF PresentAreas
  <2>2. PICK start \in Nat : start = StartOf(e, a) * fruBlockSize
    <3>1. PICK x \in Nat : x = StartOf(e, a)
      BY <1>0, <2>1, StartIs
    <3>2. QED
      BY <3>1 DEF fruBlockSize
  <2>3. start + 1 < EepromSize /\ AreaEnd(e, a) <= EepromSize
    BY <2>2 DEF Fits
  <2>4. AreaEnd(e, a) \in Nat
    <3>1. CASE a = Multirecord
      <4>1. AreaEnd(e, a) = LastRecordEnd(e, start)
        BY <2>2, <3>1 DEF AreaEnd
      <4>2. QED
        BY <4>1, LastRecordEndGrows
    <3>2. CASE a # Multirecord
      <4>1. PICK x \in Nat : x = e[start + 2]
        <5>1. start + 2 \in 1..Len(e)
          BY <1>0, <2>3
        <5>2. QED
          BY <5>1
      <4>2. start + 1 + 1 = start + 2
        OBVIOUS
      <4>3. AreaEnd(e, a) = start + x * 8
        BY <2>2, <3>2, <4>1, <4>2 DEF AreaEnd, At, fruBlockSize
      <4>4. QED
        BY <4>3
    <3>3. QED
      BY <3>1, <3>2
  <2>5. QED
    BY <2>3, <2>4
<1>3. CASE sized
  <2>1. Contents(e) = e
    BY <1>3 DEF Contents
  <2>2. QED
    BY <1>0, <1>2, <2>1 DEF ReadFrom
<1>4. CASE ~sized
  <2> DEFINE ends == {fruBlockSize} \cup {AreaEnd(e, a) : a \in PresentAreas(e)}
  <2>1. Contents(e) = SubSeq(e, 1, Max(ends))
    BY <1>4 DEF Contents
  <2>2. ends \in SUBSET Nat /\ ends # {} /\ \A t \in ends : t <= EepromSize
    <3>1. 8 \in Nat /\ 8 <= EepromSize
      BY <1>0
    <3>2. ASSUME NEW t \in ends PROVE t \in Nat /\ t <= EepromSize
      BY <1>2, <3>1 DEF fruBlockSize
    <3>3. ends # {}
      OBVIOUS
    <3> HIDE DEF ends
    <3>4. QED
      BY <3>2, <3>3
  <2>3. 8 \in ends /\ \A a \in PresentAreas(e) : AreaEnd(e, a) \in ends
    BY DEF fruBlockSize
  <2> HIDE DEF ends
  <2>4. Max(ends) \in ends /\ \A t \in ends : t <= Max(ends)
    BY <1>0, <2>2, BoundedHasMax
  <2>5. PICK m \in Nat : m = Max(ends) /\ m <= EepromSize /\ m >= 8
    BY <2>2, <2>3, <2>4
  <2>6. PICK c : c = Contents(e)
    OBVIOUS
  <2>7. c = SubSeq(e, 1, m) /\ m <= Len(e)
    BY <2>1, <2>5, <2>6
  <2>8. c \in Seq(Nat) /\ Len(c) = m /\ \A i \in 1..m : c[i] = e[i]
    BY <2>7, FrontNames
  <2>9. \A a \in PresentAreas(e) : AreaEnd(e, a) \in Nat /\ AreaEnd(e, a) <= m
    BY <1>2, <2>3, <2>4, <2>5
  <2>10. QED
    BY <2>5, <2>6, <2>8, <2>9 DEF ReadFrom
<1>5. QED
  BY <1>3, <1>4

\* The FRU as it was read: its records are all there.
Read(c) ==
    /\ c \in Seq(Nat) /\ Len(c) >= 8
    /\ Offset(c, Multirecord) # 0 =>
          LastRecordEnd(c, Offset(c, Multirecord) * fruBlockSize) <= Len(c)

\* A FRU that is read has all its records.
LEMMA ReadIs ==
    ASSUME NEW e \in Seq(Nat), Len(e) = EepromSize, Contents(e) # <<>>
    PROVE  Read(Contents(e))
<1>0. EepromSize \in Nat /\ EepromSize >= 8
  BY SizesAssumption DEF fruBlockSize
<1>1. PICK c : c = Contents(e) /\ ReadFrom(c, e)
  <2>1. validateHeader(e) /\ InOrder(e) /\ Fits(e)
    BY DEF Contents
  <2>2. QED
    BY <2>1, ContentsIs
<1>2. PICK n \in Nat : /\ n = Len(c) /\ n >= 8 /\ n <= EepromSize /\ c \in Seq(Nat)
                       /\ \A i \in 1..n : c[i] = e[i]
  BY <1>1 DEF ReadFrom
<1>3. Multirecord \in AllAreas
  BY DEF AllAreas, Internal, Multirecord
<1>4. Offset(c, Multirecord) = StartOf(e, Multirecord) /\ StartOf(e, Multirecord) \in Nat
  <2>1. /\ StartOf(e, Multirecord) = e[Multirecord + 2] /\ Multirecord + 2 \in 1..8
        /\ StartOf(e, Multirecord) \in Nat
    BY <1>0, <1>3, StartIs
  <2>2. Offset(c, Multirecord) = c[Multirecord + 2]
    BY <1>2, <1>3, StartIs
  <2>3. Multirecord + 2 \in 1..n
    <3>1. Multirecord + 2 = 6
      BY DEF Multirecord
    <3>2. n >= 8
      BY <1>2
    <3>3. QED
      BY <3>1, <3>2
  <2>4. QED
    BY <1>2, <2>1, <2>2, <2>3
<1>5. CASE Offset(c, Multirecord) # 0
  <2>1. PICK start \in Nat : start = StartOf(e, Multirecord) * fruBlockSize
    <3>1. PICK x \in Nat : x = StartOf(e, Multirecord)
      BY <1>4
    <3>2. QED
      BY <3>1 DEF fruBlockSize
  <2>2. Multirecord \in PresentAreas(e)
    BY <1>3, <1>4, <1>5 DEF PresentAreas
  <2>3. AreaEnd(e, Multirecord) = LastRecordEnd(e, start)
    BY <2>1 DEF AreaEnd
  <2>4. LastRecordEnd(e, start) \in Nat /\ LastRecordEnd(e, start) <= n
    BY <1>1, <1>2, <2>2, <2>3 DEF ReadFrom
  <2>5. LastRecordEnd(e, start) >= start + 5
    BY LastRecordEndGrows
  <2>6. PICK m \in Nat : m = n - start /\ start + m = n
    BY <2>4, <2>5
  <2>7. Same(e, start, c, start, m)
    <3>1. ASSUME NEW k \in 0..m - 1 PROVE At(e, start + k) = At(c, start + k)
      <4>1. start + k + 1 \in 1..n
        BY <2>6
      <4>2. QED
        BY <1>2, <4>1 DEF At
    <3>2. start + m <= Len(e) /\ start + m <= Len(c)
      BY <1>0, <1>2, <2>6
    <3>3. QED
      BY <3>1, <3>2 DEF Same
  <2>8. LastRecordEnd(e, start) <= start + m
    BY <2>4, <2>6
  <2>9. LastRecordEnd(c, start) - start = LastRecordEnd(e, start) - start
    BY <1>2, <2>7, <2>8, RecordsMove
  <2>10. LastRecordEnd(c, start) \in Nat
    BY <1>2, LastRecordEndGrows
  <2>11. LastRecordEnd(c, start) <= n
    BY <2>4, <2>9, <2>10
  <2>12. QED
    BY <1>1, <1>2, <1>4, <2>1, <2>11 DEF Read
<1>6. CASE Offset(c, Multirecord) = 0
  BY <1>1, <1>2, <1>6 DEF Read
<1>7. QED
  BY <1>5, <1>6

-----------------------------------------------------------------------------
(* What was written. *)

\* The EEPROM begins with the FRU, as far as there is room.
Begins(fru, e) ==
    /\ e \in Seq(Nat) /\ Len(e) = EepromSize
    /\ \A i \in 1..EepromSize : i <= Len(fru) => e[i] = fru[i]

\* What is written over the EEPROM are bytes, as many as it has.
LEMMA OverIs ==
    ASSUME NEW fru \in Seq(Nat), NEW count \in Nat, count <= Len(fru),
           eeprom \in Seq(Nat), Len(eeprom) = EepromSize
    PROVE  Over(fru, count) \in Seq(Nat) /\ Len(Over(fru, count)) = EepromSize
<1>1. PICK n \in Nat : n = Len(fru)
  OBVIOUS
<1>2. PICK m \in Nat : m = EepromSize /\ m = Len(eeprom)
  BY SizesAssumption
<1>3. PICK e : e = Over(fru, count)
  OBVIOUS
<1>4. e = [i \in 1..m |-> IF i <= count THEN fru[i] ELSE eeprom[i]]
  BY <1>2, <1>3 DEF Over
<1>5. \A i \in 1..m : (i <= count => fru[i] \in Nat) /\ eeprom[i] \in Nat
  BY <1>1, <1>2
<1>6. e \in Seq(Nat) /\ Len(e) = m
  BY <1>4, <1>5
<1>7. QED
  BY <1>2, <1>3, <1>6

\* Written whole, the EEPROM begins with the FRU.
LEMMA OverBegins ==
    ASSUME NEW fru \in Seq(Nat), eeprom \in Seq(Nat), Len(eeprom) = EepromSize
    PROVE  Begins(fru, Over(fru, Len(fru)))
<1>1. PICK n \in Nat : n = Len(fru)
  OBVIOUS
<1>2. PICK m \in Nat : m = EepromSize /\ m = Len(eeprom)
  BY SizesAssumption
<1>3. PICK e : e = Over(fru, n)
  OBVIOUS
<1>4. e = [i \in 1..m |-> IF i <= n THEN fru[i] ELSE eeprom[i]]
  BY <1>2, <1>3 DEF Over
<1>5. \A i \in 1..m : (i <= n => fru[i] \in Nat) /\ eeprom[i] \in Nat
  BY <1>1, <1>2
<1>6. e \in Seq(Nat) /\ Len(e) = m /\ \A i \in 1..m : i <= n => e[i] = fru[i]
  BY <1>4, <1>5
<1>7. QED
  BY <1>1, <1>2, <1>3, <1>6 DEF Begins

\* The header is kept.
LEMMA HeaderKept ==
    ASSUME NEW areas, NEW fru, Parts(areas), Assembled(fru, areas), NEW e, Begins(fru, e)
    PROVE  /\ \A a \in AllAreas : /\ StartOf(e, a) = StartOf(fru, a)
                                  /\ StartOf(e, a) \in Nat /\ Offset(fru, a) = StartOf(fru, a)
           /\ PresentAreas(e) = PresentAreas(fru)
           /\ validateHeader(e)
           /\ InOrder(e)
<1>0. PICK N \in Nat : N = Len(fru) /\ N >= 8 /\ fru \in Seq(Nat)
  <2>1. PICK q \in Nat : Before(areas, 5) = 8 * q
    <3>1. 5 \in 0..5
      OBVIOUS
    <3>2. QED
      BY <3>1, BeforeIs DEF Parts
  <2>2. Len(fru) = 8 + 8 * q /\ fru \in Seq(Nat)
    BY <2>1 DEF Assembled
  <2>3. QED
    BY <2>2
<1>1. e \in Seq(Nat) /\ Len(e) >= 8 /\ EepromSize \in Nat
  BY SizesAssumption DEF Begins, fruBlockSize
<1>2. \A i \in 1..8 : e[i] = fru[i]
  <2>1. ASSUME NEW i \in 1..8 PROVE e[i] = fru[i]
    <3>1. i \in 1..EepromSize /\ i <= Len(fru)
      <4>1. Len(e) = EepromSize
        BY DEF Begins
      <4>2. QED
        BY <1>0, <1>1, <4>1
    <3>2. QED
      BY <3>1 DEF Begins
  <2>2. QED
    BY <2>1
<1>3. \A a \in AllAreas : /\ StartOf(e, a) = StartOf(fru, a)
                          /\ StartOf(e, a) \in Nat /\ Offset(fru, a) = StartOf(fru, a)
  <2>1. ASSUME NEW a \in AllAreas
        PROVE  /\ StartOf(e, a) = StartOf(fru, a)
               /\ StartOf(e, a) \in Nat /\ Offset(fru, a) = StartOf(fru, a)
    <3>1. StartOf(e, a) = e[a + 2] /\ StartOf(e, a) \in Nat /\ a + 2 \in 1..8
      BY <1>1, StartIs
    <3>2. StartOf(fru, a) = fru[a + 2] /\ Offset(fru, a) = StartOf(fru, a)
      BY <1>0, StartIs
    <3>3. QED
      BY <1>2, <3>1, <3>2
  <2>2. QED
    BY <2>1
<1>4. PresentAreas(e) = PresentAreas(fru)
  BY <1>3 DEF PresentAreas
<1>5. validateHeader(e)
  <2>1. PICK s : s = SubSeq(fru, 1, 7)
    OBVIOUS
  <2>2. PICK t : t = SubSeq(e, 1, 7)
    OBVIOUS
  <2>3. PICK m \in Nat : m = 7
    OBVIOUS
  <2>4. m <= Len(fru) /\ m <= Len(e) /\ s = SubSeq(fru, 1, m) /\ t = SubSeq(e, 1, m)
    <3>1. m <= Len(fru)
      BY <1>0, <2>3
    <3>2. m <= Len(e)
      BY <1>1, <2>3
    <3>3. QED
      BY <2>1, <2>2, <2>3, <3>1, <3>2
  <2>5. s \in Seq(Nat) /\ Len(s) = m /\ \A i \in 1..m : s[i] = fru[i]
    BY <1>0, <2>4, FrontNames
  <2>6. t \in Seq(Nat) /\ Len(t) = m /\ \A i \in 1..m : t[i] = e[i]
    BY <1>1, <2>4, FrontNames
  <2>7. \A i \in 1..m : s[i] = t[i]
    <3>1. \A i \in 1..m : i \in 1..8
      BY <2>3
    <3>2. QED
      BY <1>2, <2>5, <2>6, <3>1
  <2>8. s = t
    BY <2>5, <2>6, <2>7, SameElements
  <2>9. At(e, 0) = At(fru, 0) /\ At(e, 6) = At(fru, 6) /\ At(e, 7) = At(fru, 7)
    <3>1. 0 + 1 \in 1..8 /\ 6 + 1 \in 1..8 /\ 7 + 1 \in 1..8
      OBVIOUS
    <3>2. QED
      BY <1>2, <3>1 DEF At
  <2>10. validateHeader(fru)
    BY DEF Assembled
  <2>11. QED
    BY <2>1, <2>2, <2>8, <2>9, <2>10 DEF validateHeader
<1>6. InOrder(e)
  <2>1. InOrder(fru)
    BY AssembledInOrder
  <2>2. \A a \in PresentAreas(fru) : a \in AllAreas
    BY DEF PresentAreas
  <2>3. QED
    BY <1>3, <1>4, <2>1, <2>2 DEF InOrder
<1>7. QED
  BY <1>3, <1>4, <1>5, <1>6

\* So are the ends of the areas, if there is room for them.
LEMMA EndsKept ==
    ASSUME NEW areas, NEW fru, Parts(areas), Assembled(fru, areas), NEW e, Begins(fru, e),
           Fits(fru), NEW a \in PresentAreas(fru)
    PROVE  AreaEnd(e, a) = AreaEnd(fru, a)
<1>0. a \in AllAreas /\ EepromSize \in Nat /\ fru \in Seq(Nat) /\ e \in Seq(Nat)
      /\ Len(e) = EepromSize
  BY SizesAssumption DEF PresentAreas, Assembled, Begins
<1>1. /\ StartOf(e, a) = StartOf(fru, a) /\ StartOf(fru, a) \in Nat
      /\ Offset(fru, a) = StartOf(fru, a) /\ StartOf(fru, a) # 0
  BY <1>0, HeaderKept DEF PresentAreas
<1>2. PICK B \in Nat, l \in Nat :
          B = StartOf(fru, a) * fruBlockSize /\ l >= 8 /\ B + l <= Len(fru)
  <2>1. a \in AllAreas /\ Offset(fru, a) # 0
    BY <1>0, <1>1
  <2>2. PICK B \in Nat, l \in Nat :
            B = Offset(fru, a) * fruBlockSize /\ l >= 8 /\ B + l <= Len(fru)
    BY <2>1, PresentIs
  <2>3. B = StartOf(fru, a) * fruBlockSize
    BY <1>1, <2>2
  <2>4. QED
    BY <2>2, <2>3
<1>3. B + 1 < EepromSize /\ AreaEnd(fru, a) <= EepromSize
  BY <1>2 DEF Fits
<1>4. CASE a # Multirecord
  <2>1. At(e, B + 1) = At(fru, B + 1)
    <3>1. PICK i \in Nat : i = B + 1 + 1
      OBVIOUS
    <3>2. i \in 1..EepromSize
      BY <1>0, <1>3, <3>1
    <3>3. i <= Len(fru)
      <4>1. PICK n \in Nat : n = Len(fru)
        BY <1>0
      <4>2. l >= 8 /\ B + l <= n
        BY <1>2, <4>1
      <4>3. QED
        BY <3>1, <4>1, <4>2
    <3>4. e[i] = fru[i]
      BY <3>2, <3>3 DEF Begins
    <3>5. QED
      BY <3>1, <3>4 DEF At
  <2>2. QED
    BY <1>1, <1>2, <1>4, <2>1 DEF AreaEnd
<1>5. CASE a = Multirecord
  <2>1. AreaEnd(fru, a) = LastRecordEnd(fru, B) /\ AreaEnd(e, a) = LastRecordEnd(e, B)
    BY <1>1, <1>2, <1>5 DEF AreaEnd
  <2>2. LastRecordEnd(fru, B) \in Nat /\ LastRecordEnd(fru, B) >= B + 5
    BY <1>0, LastRecordEndGrows
  <2>3. LastRecordEnd(fru, B) <= Len(fru) /\ LastRecordEnd(fru, B) <= EepromSize
    <3>1. a # Internal
      BY <1>5 DEF Internal, Multirecord
    <3>2. QED
      BY <1>0, <1>1, <1>2, <1>3, <1>5, <2>1, <3>1, EndIs
  <2>4. PICK m \in Nat : B + m = LastRecordEnd(fru, B)
    <3>1. PICK x \in Nat : x = LastRecordEnd(fru, B) /\ x >= B
      BY <2>2
    <3>2. x - B \in Nat /\ B + (x - B) = x
      BY <3>1
    <3>3. QED
      BY <3>1, <3>2
  <2>5. Same(fru, B, e, B, m)
    <3>1. ASSUME NEW k \in 0..m - 1 PROVE At(fru, B + k) = At(e, B + k)
      <4>1. PICK i \in Nat : i = B + k + 1 /\ i <= B + m /\ i >= 1
        OBVIOUS
      <4>2. i \in 1..EepromSize /\ i <= Len(fru)
        BY <1>0, <2>3, <2>4, <4>1
      <4>3. e[i] = fru[i]
        BY <4>2 DEF Begins
      <4>4. QED
        BY <4>1, <4>3 DEF At
    <3>2. B + m <= Len(fru) /\ B + m <= Len(e)
      BY <1>0, <2>3, <2>4
    <3>3. QED
      BY <3>1, <3>2 DEF Same
  <2>6. LastRecordEnd(fru, B) <= B + m
    BY <2>2, <2>4
  <2>7. LastRecordEnd(e, B) - B = LastRecordEnd(fru, B) - B
    BY <1>0, <2>5, <2>6, RecordsMove
  <2>8. LastRecordEnd(e, B) \in Nat
    BY <1>0, LastRecordEndGrows
  <2>9. LastRecordEnd(e, B) = LastRecordEnd(fru, B)
    BY <2>2, <2>7, <2>8
  <2>10. QED
    BY <2>1, <2>9
<1>6. QED
  BY <1>4, <1>5

\* A FRU there is room for is read back.
LEMMA WrittenIsRead ==
    ASSUME NEW areas, NEW fru, Parts(areas), Assembled(fru, areas), NEW e, Begins(fru, e),
           Fits(fru)
    PROVE  ReadFrom(Contents(e), e)
<1>1. Fits(e)
  <2>1. SUFFICES ASSUME NEW a \in PresentAreas(e)
                 PROVE  /\ StartOf(e, a) * fruBlockSize + 1 < EepromSize
                        /\ AreaEnd(e, a) <= EepromSize
    BY DEF Fits
  <2>2. a \in PresentAreas(fru) /\ a \in AllAreas
    BY HeaderKept DEF PresentAreas
  <2>3. StartOf(e, a) = StartOf(fru, a) /\ AreaEnd(e, a) = AreaEnd(fru, a)
    BY <2>2, HeaderKept, EndsKept
  <2>4. QED
    BY <2>2, <2>3 DEF Fits
<1>2. validateHeader(e) /\ InOrder(e)
  BY HeaderKept
<1>3. e \in Seq(Nat) /\ Len(e) = EepromSize
  BY DEF Begins
<1>4. QED
  BY <1>1, <1>2, <1>3, ContentsIs

-----------------------------------------------------------------------------
(* The verdict on it. *)

\* A FRU has no fault if none of its areas has one.
LEMMA FormatIs ==
    ASSUME NEW fru
    PROVE  formatIPMIFRU(fru) = "ok" <=>
               /\ ~(Len(fru) <= fruBlockSize)
               /\ \A a \in InfoAreas : Verdict(fru, a) = "ok"
<1> DEFINE verdicts == {Verdict(fru, a) : a \in InfoAreas}
<1>1. formatIPMIFRU(fru) = IF Len(fru) <= fruBlockSize \/ "err" \in verdicts THEN "err"
                           ELSE IF "warn" \in verdicts THEN "warn" ELSE "ok"
  BY DEF formatIPMIFRU
<1>2. \A a \in InfoAreas : Verdict(fru, a) \in {"ok", "warn", "err"}
  BY DEF Verdict
<1>3. \A a \in InfoAreas : Verdict(fru, a) \in verdicts
  OBVIOUS
<1>4. \A v \in verdicts : \E a \in InfoAreas : v = Verdict(fru, a)
  OBVIOUS
<1> HIDE DEF verdicts
<1>5. QED
  BY <1>1, <1>2, <1>3, <1>4

\* An area without a fault, part by part.
Sound(fru, a, offset, blocks, bytes) ==
    LET parsed == Decode(a, bytes)
    IN  /\ ~(offset + fruBlockSize >= Len(fru))
        /\ At(fru, offset) = fruVersion
        /\ At(fru, offset + 1) = blocks
        /\ verifyOffset(fru, a, blocks)
        /\ blocks # 0
        /\ ~(offset + blocks * fruBlockSize > Len(fru))
        /\ ~(parsed.state = "err" /\ Len(parsed.fields) < FieldNames[a])
        /\ calculateChecksum(SubSeq(bytes, 1, Len(bytes) - 1)) = bytes[Len(bytes)]
        /\ parsed.state # "err"
        /\ ~(Len(parsed.fields) < FieldNames[a])
        /\ ~\E i \in parsed.next + 1..Len(bytes) - 1 : bytes[i] # 0

\* Sound says when an area has none.
LEMMA VerdictIs ==
    ASSUME NEW fru, NEW a, Offset(fru, a) * fruBlockSize # 0
    PROVE  Verdict(fru, a) = "ok" <=>
               Sound(fru, a, Offset(fru, a) * fruBlockSize,
                     At(fru, Offset(fru, a) * fruBlockSize + 1), AreaBytes(fru, a))
<1>1. PICK offset : offset = Offset(fru, a) * fruBlockSize
  OBVIOUS
<1>2. PICK bytes : bytes = AreaBytes(fru, a)
  OBVIOUS
<1>3. PICK parsed : parsed = Decode(a, bytes)
  OBVIOUS
<1>4. PICK blocks : blocks = At(fru, offset + 1)
  OBVIOUS
<1>5. Verdict(fru, a) =
        IF offset = 0 THEN "ok"
        ELSE IF \/ offset + fruBlockSize >= Len(fru)
                \/ At(fru, offset) # fruVersion
                \/ ~verifyOffset(fru, a, blocks)
                \/ blocks = 0
                \/ offset + blocks * fruBlockSize > Len(fru)
                \/ parsed.state = "err" /\ Len(parsed.fields) < FieldNames[a]
             THEN "err"
        ELSE IF \/ calculateChecksum(SubSeq(bytes, 1, Len(bytes) - 1)) # bytes[Len(bytes)]
                \/ parsed.state = "err"
                \/ Len(parsed.fields) < FieldNames[a]
                \/ \E i \in parsed.next + 1..Len(bytes) - 1 : bytes[i] # 0
             THEN "warn"
        ELSE "ok"
  BY <1>1, <1>2, <1>3, <1>4, Zenon DEF Verdict
<1>6. Sound(fru, a, offset, blocks, bytes) <=>
        /\ ~(offset + fruBlockSize >= Len(fru))
        /\ At(fru, offset) = fruVersion
        /\ blocks = blocks
        /\ verifyOffset(fru, a, blocks)
        /\ blocks # 0
        /\ ~(offset + blocks * fruBlockSize > Len(fru))
        /\ ~(parsed.state = "err" /\ Len(parsed.fields) < FieldNames[a])
        /\ calculateChecksum(SubSeq(bytes, 1, Len(bytes) - 1)) = bytes[Len(bytes)]
        /\ parsed.state # "err"
        /\ ~(Len(parsed.fields) < FieldNames[a])
        /\ ~\E i \in parsed.next + 1..Len(bytes) - 1 : bytes[i] # 0
  BY <1>3, <1>4, Zenon DEF Sound
<1>7. Verdict(fru, a) = "ok" <=> Sound(fru, a, offset, blocks, bytes)
  BY <1>1, <1>5, <1>6, Zenon
<1>8. QED
  BY <1>1, <1>2, <1>4, <1>7, Zenon

\* A copy that holds an area whole, and more, is judged as what it is a copy of.
LEMMA VerdictKept ==
    ASSUME NEW fru \in Seq(Nat), NEW c \in Seq(Nat), NEW a \in InfoAreas, Len(fru) >= 8,
           \A b \in AllAreas : Offset(c, b) = Offset(fru, b),
           \A i \in 1..Len(c) : i <= Len(fru) => c[i] = fru[i],
           Verdict(fru, a) = "ok",
           Offset(fru, a) # 0 =>
               LET offset == Offset(fru, a) * fruBlockSize
               IN  /\ offset + fruBlockSize < Len(c)
                   /\ offset + At(fru, offset + 1) * fruBlockSize <= Len(c)
    PROVE  Verdict(c, a) = "ok"
<1>0. a \in AllAreas /\ a # Internal
  BY DEF AllAreas, InfoAreas, Internal, Multirecord
<1>1. PICK x \in Nat : x = Offset(fru, a) /\ x = Offset(c, a)
  BY <1>0, StartIs
<1>2. PICK offset \in Nat : offset = x * fruBlockSize /\ (x = 0 <=> offset = 0)
  BY DEF fruBlockSize
<1>3. PICK n \in Nat : n = Len(fru)
  OBVIOUS
<1>4. PICK m \in Nat : m = Len(c)
  OBVIOUS
<1>5. CASE offset = 0
  BY <1>1, <1>2, <1>5 DEF Verdict
<1>6. CASE offset # 0
  <2>1. PICK bytes : bytes = AreaBytes(fru, a)
    OBVIOUS
  <2>2. PICK blocks : blocks = At(fru, offset + 1)
    OBVIOUS
  <2>3. Sound(fru, a, offset, blocks, bytes)
    BY <1>1, <1>2, <1>6, <2>1, <2>2, VerdictIs
  <2>4. offset + 8 < n /\ ~(offset + blocks * 8 > n)
    BY <1>3, <2>3 DEF Sound, fruBlockSize
  <2>5. offset + 8 < m /\ offset + blocks * 8 <= m
    BY <1>1, <1>2, <1>4, <1>6, <2>2 DEF fruBlockSize
  <2>6. blocks \in Nat /\ At(fru, offset) = At(c, offset) /\ At(fru, offset + 1) = At(c, offset + 1)
    <3>1. PICK i \in Nat : i = offset + 1 /\ i \in 1..n /\ i \in 1..m
      BY <2>4, <2>5
    <3>2. PICK j \in Nat : j = offset + 1 + 1 /\ j \in 1..n /\ j \in 1..m
      BY <2>4, <2>5
    <3>3. c[i] = fru[i] /\ c[j] = fru[j] /\ fru[j] \in Nat
      BY <1>3, <1>4, <3>1, <3>2
    <3>4. QED
      BY <2>2, <3>1, <3>2, <3>3 DEF At
  <2>7. PICK size \in Nat : size = blocks * 8 /\ offset + size <= n /\ offset + size <= m
    <3>1. PICK size \in Nat : size = blocks * 8
      BY <2>6
    <3>2. QED
      BY <2>4, <2>5, <3>1
  <2>8. /\ calculateAreaSize(a, fru, offset) = size
        /\ calculateAreaSize(a, c, offset) = size
    <3>1. /\ ~(offset + 1 >= Len(fru)) /\ ~(offset + 1 >= Len(c))
      BY <1>3, <1>4, <2>4, <2>5
    <3>2. At(fru, offset + 1) * 8 = size /\ At(c, offset + 1) * 8 = size
      BY <2>2, <2>6, <2>7
    <3>3. QED
      BY <1>0, <3>1, <3>2 DEF calculateAreaSize, fruBlockSize
  <2>9. /\ bytes = SubSeq(fru, offset + 1, offset + size)
        /\ AreaBytes(c, a) = SubSeq(c, offset + 1, offset + size)
    BY <1>1, <1>2, <1>6, <2>1, <2>8 DEF AreaBytes, Slice
  <2>10. AreaBytes(c, a) = bytes
    <3>1. PICK s : s = SubSeq(fru, offset + 1, offset + size)
      OBVIOUS
    <3>2. PICK t : t = SubSeq(c, offset + 1, offset + size)
      OBVIOUS
    <3>3. PICK p \in Nat : p = offset + 1 /\ p >= 1
      OBVIOUS
    <3>4. PICK k \in Int : k = offset + size /\ k >= p - 1 /\ k - p + 1 = size /\ k <= n /\ k <= m
      BY <2>7, <3>3
    <3>5. /\ s \in Seq(Nat) /\ Len(s) = k - p + 1
          /\ \A i \in 1..k - p + 1 : s[i] = fru[p + i - 1]
      <4>1. k <= Len(fru) /\ k >= p - 1
        BY <1>3, <3>4
      <4>2. s = SubSeq(fru, p, k)
        BY <3>1, <3>3, <3>4
      <4>3. QED
        BY <3>3, <4>1, <4>2, PartIs
    <3>6. /\ t \in Seq(Nat) /\ Len(t) = k - p + 1
          /\ \A i \in 1..k - p + 1 : t[i] = c[p + i - 1]
      <4>1. k <= Len(c) /\ k >= p - 1
        BY <1>4, <3>4
      <4>2. t = SubSeq(c, p, k)
        BY <3>2, <3>3, <3>4
      <4>3. QED
        BY <3>3, <4>1, <4>2, PartIs
    <3>7. \A i \in 1..size : s[i] = t[i]
      <4>1. ASSUME NEW i \in 1..size PROVE s[i] = t[i]
        <5>1. PICK j \in Nat : j = p + i - 1 /\ j \in 1..n /\ j \in 1..m
          BY <2>7, <3>3
        <5>2. c[j] = fru[j]
          <6>1. j \in 1..Len(c) /\ j <= Len(fru)
            BY <1>3, <1>4, <5>1
          <6>2. QED
            BY <6>1
        <5>3. s[i] = fru[p + i - 1] /\ t[i] = c[p + i - 1]
          BY <3>4, <3>5, <3>6
        <5>4. QED
          BY <5>1, <5>2, <5>3
      <4>2. QED
        BY <4>1
    <3>8. Len(s) = size /\ Len(t) = size
      BY <3>4, <3>5, <3>6
    <3>9. s = t
      BY <3>5, <3>6, <3>7, <3>8, SameElements
    <3>10. QED
      BY <2>9, <3>1, <3>2, <3>9
  <2>11. verifyOffset(c, a, blocks) <=> verifyOffset(fru, a, blocks)
    <3>1. \A b \in AllAreas \ {a} : Offset(c, b) = Offset(fru, b)
      OBVIOUS
    <3>2. QED
      BY <1>1, <3>1 DEF verifyOffset
  <2>12. Sound(c, a, offset, blocks, bytes)
    <3>1. ~(offset + fruBlockSize >= Len(c)) /\ ~(offset + blocks * fruBlockSize > Len(c))
      <4>1. ~(offset + 8 >= m)
        BY <2>5
      <4>2. ~(offset + size > m)
        BY <2>7
      <4>3. QED
        BY <1>4, <2>7, <4>1, <4>2 DEF fruBlockSize
    <3>2. At(c, offset) = fruVersion /\ At(c, offset + 1) = blocks /\ verifyOffset(c, a, blocks)
      BY <2>2, <2>3, <2>6, <2>11 DEF Sound
    <3>3. QED
      BY <2>3, <3>1, <3>2, Zenon DEF Sound
  <2>13. /\ Offset(c, a) * fruBlockSize = offset
         /\ At(c, Offset(c, a) * fruBlockSize + 1) = blocks
    BY <1>1, <1>2, <2>2, <2>6
  <2>14. QED
    BY <1>6, <2>10, <2>12, <2>13, VerdictIs
<1>7. QED
  BY <1>5, <1>6

\* A FRU without a fault that was written whole is read back without one: an area
\* of one block at the end of the FRU is refused before it is written.
LEMMA WrittenIsOk ==
    ASSUME NEW areas, NEW fru, Parts(areas), Assembled(fru, areas), NEW e, Begins(fru, e),
           Fits(fru), formatIPMIFRU(fru) = "ok"
    PROVE  formatIPMIFRU(Contents(e)) = "ok"
<1>0. fru \in Seq(Nat) /\ e \in Seq(Nat) /\ Len(e) = EepromSize /\ EepromSize \in Nat
  BY SizesAssumption DEF Assembled, Begins
<1>1. PICK c : c = Contents(e) /\ ReadFrom(c, e)
  BY WrittenIsRead
<1>2. PICK m \in Nat : /\ m = Len(c) /\ m >= 8 /\ m <= EepromSize /\ c \in Seq(Nat)
                       /\ \A i \in 1..m : c[i] = e[i]
  BY <1>1 DEF ReadFrom
<1>3. \A i \in 1..Len(c) : i <= Len(fru) => c[i] = fru[i]
  <2>1. ASSUME NEW i \in 1..m, i <= Len(fru) PROVE c[i] = fru[i]
    <3>1. i \in 1..EepromSize
      BY <1>0, <1>2
    <3>2. e[i] = fru[i]
      BY <2>1, <3>1 DEF Begins
    <3>3. QED
      BY <1>2, <3>2
  <2>2. QED
    BY <1>2, <2>1
<1>4. PICK n \in Nat : n = Len(fru) /\ n > 8
  <2>1. ~(Len(fru) <= fruBlockSize)
    BY FormatIs
  <2>2. QED
    BY <1>0, <2>1 DEF fruBlockSize
<1>5. \A b \in AllAreas : /\ Offset(c, b) = Offset(fru, b) /\ Offset(fru, b) \in Nat
                          /\ Offset(fru, b) = StartOf(fru, b)
  <2>1. ASSUME NEW b \in AllAreas
        PROVE  /\ Offset(c, b) = Offset(fru, b) /\ Offset(fru, b) \in Nat
               /\ Offset(fru, b) = StartOf(fru, b)
    <3>1. Offset(c, b) = c[b + 2] /\ b + 2 \in 1..8
      BY <1>2, StartIs
    <3>2. /\ Offset(fru, b) = fru[b + 2] /\ Offset(fru, b) \in Nat
          /\ Offset(fru, b) = StartOf(fru, b)
      <4>1. Len(fru) >= 8
        BY <1>4
      <4>2. QED
        BY <1>0, <4>1, StartIs
    <3>3. b + 2 \in 1..Len(c) /\ b + 2 <= Len(fru)
      <4>1. PICK i \in 1..8 : i = b + 2
        BY <3>1
      <4>2. i \in 1..m /\ i <= n
        BY <1>2, <1>4
      <4>3. QED
        BY <1>2, <1>4, <4>1, <4>2
    <3>4. QED
      BY <1>3, <3>1, <3>2, <3>3
  <2>2. QED
    BY <2>1
<1>6. \A b \in AllAreas : Offset(fru, b) # 0 /\ AreaEnd(fru, b) \in Nat => AreaEnd(fru, b) <= m
  <2>1. ASSUME NEW b \in AllAreas, Offset(fru, b) # 0 PROVE AreaEnd(fru, b) <= m
    <3>1. b \in PresentAreas(fru)
      BY <1>5, <2>1 DEF PresentAreas
    <3>2. b \in PresentAreas(e) /\ AreaEnd(e, b) = AreaEnd(fru, b)
      BY <3>1, HeaderKept, EndsKept
    <3>3. QED
      BY <1>1, <1>2, <3>2 DEF ReadFrom
  <2>2. QED
    BY <2>1
<1>7. ASSUME NEW a \in InfoAreas, Offset(fru, a) # 0
      PROVE  LET offset == Offset(fru, a) * fruBlockSize
             IN  /\ offset + fruBlockSize < Len(c)
                 /\ offset + At(fru, offset + 1) * fruBlockSize <= Len(c)
  <2>0. a \in AllAreas /\ a # Internal /\ a # Multirecord
    BY DEF AllAreas, InfoAreas, Internal, Multirecord
  <2>1. PICK offset \in Nat : offset = Offset(fru, a) * fruBlockSize /\ offset # 0
    <3>1. PICK x \in Nat : x = Offset(fru, a) /\ x # 0
      BY <1>5, <1>7, <2>0
    <3>2. QED
      BY <3>1 DEF fruBlockSize
  <2>2. AreaEnd(fru, a) = offset + At(fru, offset + 1) * fruBlockSize
    BY <1>5, <2>0, <2>1 DEF AreaEnd
  <2>3. AreaEnd(fru, a) <= m
    BY <1>6, <1>7, <2>0, EndIs
  <2>4. offset + fruBlockSize < Len(fru)
    <3>1. Verdict(fru, a) = "ok"
      BY FormatIs
    <3>2. ~(offset + fruBlockSize >= Len(fru))
      BY <2>1, <3>1, VerdictIs DEF Sound
    <3>3. QED
      BY <1>4, <3>2 DEF fruBlockSize
  <2>5. PICK b \in AllAreas : /\ Offset(fru, b) # 0 /\ AreaEnd(fru, b) \in Nat
                              /\ AreaEnd(fru, b) > offset + fruBlockSize
    BY <1>7, <2>1, <2>4, EndBehind
  <2>6. AreaEnd(fru, b) <= m
    BY <1>6, <2>5
  <2>7. offset + fruBlockSize < m
    BY <2>5, <2>6 DEF fruBlockSize
  <2>8. QED
    BY <1>2, <2>1, <2>2, <2>3, <2>7
<1>8. \A a \in InfoAreas : Verdict(c, a) = "ok"
  <2>1. ASSUME NEW a \in InfoAreas PROVE Verdict(c, a) = "ok"
    <3>1. Verdict(fru, a) = "ok"
      BY FormatIs
    <3>2. Len(fru) >= 8 /\ \A b \in AllAreas : Offset(c, b) = Offset(fru, b)
      BY <1>4, <1>5
    <3>3. QED
      BY <1>0, <1>2, <1>3, <1>7, <3>1, <3>2, VerdictKept
  <2>2. QED
    BY <2>1
<1>9. ~(Len(c) <= fruBlockSize)
  <2>1. PICK a \in InfoAreas : areas[a] # <<>>
    BY DEF Parts
  <2>2. a \in AllAreas
    BY DEF AllAreas, InfoAreas, Internal, Multirecord
  <2>3. PICK offset \in Nat : offset = Offset(fru, a) * fruBlockSize /\ Offset(fru, a) # 0
    BY <2>1, <2>2, PresentIs
  <2>4. offset + fruBlockSize < m
    BY <1>2, <1>7, <2>3
  <2>5. QED
    BY <1>2, <2>4 DEF fruBlockSize
<1>10. QED
  BY <1>1, <1>8, <1>9, FormatIs

\* An update puts the FRU together of the areas that were read and the one that was set.
LEMMA UpdatedIs ==
    ASSUME NEW fru, Read(fru), NEW a \in InfoAreas, NEW n \in Nat, n >= 1,
           NEW value \in Seq(Nat), NEW new, new = updateAddProperty(value, a, n, fru),
           new # <<>>, Len(new) <= maxFruSize
    PROVE  \E areas : Parts(areas) /\ Assembled(new, areas)
<1>0. a \in AllAreas /\ a # Internal /\ a # Multirecord
  BY DEF AllAreas, InfoAreas, Internal, Multirecord
<1>1. PICK old : old = disassembleFruData(fru)
  OBVIOUS
<1>2. PICK area : area = setField(a, IF old[a] = <<>> THEN createDummyArea(a) ELSE old[a], n, value)
  OBVIOUS
<1>3. PICK areas : areas = WithArea(old, a, area)
  OBVIOUS
<1>4. CanDisassemble(fru) /\ area # <<>> /\ new = assembleFruData(areas)
  BY <1>1, <1>2, <1>3 DEF updateAddProperty
<1>5. fru \in Seq(Nat) /\ \A b \in AllAreas : old[b] = AreaBytes(fru, b)
  BY <1>1 DEF disassembleFruData, Read
<1>6. Blocks(area)
  <2>1. PICK bytes : bytes = IF old[a] = <<>> THEN createDummyArea(a) ELSE old[a]
    OBVIOUS
  <2>2. bytes \in Seq(Nat)
    <3>1. old[a] \in Seq(Nat)
      BY <1>0, <1>4, <1>5, AreaIs
    <3>2. createDummyArea(a) \in Seq(Nat)
      BY DummyIs
    <3>3. QED
      BY <2>1, <3>1, <3>2
  <2>3. setField(a, bytes, n, value) # <<>>
    BY <1>2, <1>4, <2>1
  <2>4. QED
    BY <1>2, <2>1, <2>2, <2>3, SetFieldIs
<1>7. areas[a] = area /\ \A b \in AllAreas \ {a} : areas[b] = AreaBytes(fru, b)
  <2>1. DOMAIN old = AllAreas
    BY <1>1 DEF disassembleFruData
  <2>2. QED
    BY <1>0, <1>3, <1>5, <2>1 DEF WithArea
<1>8. \A b \in AllAreas : areas[b] \in Seq(Nat)
  <2>1. ASSUME NEW b \in AllAreas PROVE areas[b] \in Seq(Nat)
    <3>1. AreaBytes(fru, b) \in Seq(Nat)
      BY <1>4, <1>5, AreaIs
    <3>2. area \in Seq(Nat)
      BY <1>6 DEF Blocks
    <3>3. CASE b = a
      BY <1>7, <3>2, <3>3
    <3>4. CASE b # a
      BY <1>7, <3>1, <3>4
    <3>5. QED
      BY <3>3, <3>4
  <2>2. QED
    BY <2>1
<1>9. CanAssemble(areas) /\ Assembled(new, areas)
  BY <1>4, <1>8, AssembledIs
<1>10. \A b \in InfoAreas : areas[b] # <<>> => Blocks(areas[b])
  <2>1. ASSUME NEW b \in InfoAreas, areas[b] # <<>> PROVE Blocks(areas[b])
    <3>1. b \in AllAreas
      BY DEF AllAreas, InfoAreas, Internal, Multirecord
    <3>2. CASE b = a
      BY <1>6, <1>7, <3>2
    <3>3. CASE b # a
      <4>1. areas[b] = AreaBytes(fru, b)
        BY <1>7, <3>1, <3>3
      <4>2. AreaBytes(fru, b) # <<>>
        BY <2>1, <4>1
      <4>3. Blocks(AreaBytes(fru, b))
        BY <1>4, <1>5, <3>1, <4>2, AreaIs
      <4>4. QED
        BY <4>1, <4>3
    <3>4. QED
      BY <3>2, <3>3
  <2>2. QED
    BY <2>1
<1>11. ASSUME areas[Multirecord] # <<>>
       PROVE  LastRecordEnd(areas[Multirecord], 0) <= Len(areas[Multirecord])
  <2>1. Multirecord \in AllAreas
    BY DEF AllAreas, Internal, Multirecord
  <2>2. PICK records \in Seq(Nat) : records = areas[Multirecord]
                                    /\ records = AreaBytes(fru, Multirecord)
    BY <1>0, <1>7, <1>8, <2>1
  <2>3. PICK offset \in Nat : offset = Offset(fru, Multirecord) * fruBlockSize
    <3>1. PICK x \in Nat : x = Offset(fru, Multirecord)
      BY <1>4, <1>5, <2>1, AreaIs
    <3>2. QED
      BY <3>1 DEF fruBlockSize
  <2>4. PICK l \in Nat : l = Len(records)
    OBVIOUS
  <2>5. offset # 0 /\ offset + l = Len(fru) /\ Same(fru, offset, records, 0, l)
    <3>1. AreaBytes(fru, Multirecord) # <<>>
      BY <1>11, <2>2
    <3>2. QED
      BY <1>4, <1>5, <2>1, <2>2, <2>3, <2>4, <3>1, AreaIs
  <2>6. LastRecordEnd(fru, offset) <= offset + l
    <3>1. Offset(fru, Multirecord) # 0
      BY <2>3, <2>5 DEF fruBlockSize
    <3>2. QED
      BY <2>3, <2>5, <3>1 DEF Read
  <2>7. 0 \in Nat
    OBVIOUS
  <2>8. LastRecordEnd(records, 0) - 0 = LastRecordEnd(fru, offset) - offset
    BY <1>5, <2>5, <2>6, <2>7, RecordsMove
  <2>9. LastRecordEnd(records, 0) \in Nat /\ LastRecordEnd(fru, offset) \in Nat
    BY <1>5, <2>7, LastRecordEndGrows
  <2>10. LastRecordEnd(records, 0) <= l
    BY <2>6, <2>8, <2>9
  <2>11. QED
    BY <2>2, <2>4, <2>10
<1>12. areas[a] # <<>>
  BY <1>4, <1>7
<1>13. Parts(areas)
  BY <1>8, <1>9, <1>10, <1>11, <1>12 DEF Parts
<1>14. QED
  BY <1>9, <1>13

-----------------------------------------------------------------------------
(* The invariant. *)

UpdateInv ==
    /\ eeprom \in Seq(Nat) /\ Len(eeprom) = EepromSize
    /\ map # <<>> => Read(map)
    /\ WholeIsWellFormed

LEMMA UpdateInvInit == UpdateInit => UpdateInv
<1> SUFFICES ASSUME UpdateInit PROVE UpdateInv
  OBVIOUS
<1>1. eeprom \in Seq(Nat) /\ Len(eeprom) = EepromSize
  BY FrusAssumption DEF UpdateInit
<1>2. map = Contents(eeprom) /\ torn = (formatIPMIFRU(map) # "ok")
  BY DEF UpdateInit
<1>3. map # <<>> => Read(map)
  BY <1>1, <1>2, ReadIs
<1>4. WholeIsWellFormed
  BY <1>2 DEF WholeIsWellFormed
<1>5. QED
  BY <1>1, <1>3, <1>4 DEF UpdateInv

\* An update, refused, broken off or whole.
LEMMA UpdateFruFieldKeeps ==
    ASSUME UpdateInv, NEW a \in InfoAreas, NEW n \in 1..MaxField, NEW value \in Seq(Nat),
           UpdateFruField(a, n, value)
    PROVE  UpdateInv'
<1>1. PICK fru : /\ fru = updateAddProperty(value, a, n, map)
                 /\ IF ~Legal(fru) THEN UNCHANGED <<eeprom, held, timer, torn>>
                    ELSE \E count \in {Len(fru)} \cup {k \in Breaks : k < Len(fru)} :
                         /\ eeprom' = Over(fru, count)
                         /\ torn' = (count # Len(fru) \/ ~Fits(fru))
  BY DEF UpdateFruField
<1>2. sized' = sized /\ map' = map /\ map # <<>>
  BY DEF UpdateFruField, HasObject
<1>3. Read(map) /\ eeprom \in Seq(Nat) /\ Len(eeprom) = EepromSize /\ WholeIsWellFormed
  BY <1>2 DEF UpdateInv
<1>4. (map # <<>> => Read(map))'
  BY <1>2, <1>3
<1>5. CASE ~Legal(fru)
  <2>1. eeprom' = eeprom /\ torn' = torn
    BY <1>1, <1>5
  <2>2. WholeIsWellFormed'
    BY <1>2, <1>3, <2>1 DEF WholeIsWellFormed, Contents
  <2>3. QED
    BY <1>3, <1>4, <2>1, <2>2 DEF UpdateInv
<1>6. CASE Legal(fru)
  <2>1. fru # <<>> /\ Len(fru) <= maxFruSize /\ formatIPMIFRU(fru) = "ok"
    BY <1>6 DEF Legal
  <2>2. PICK areas : Parts(areas) /\ Assembled(fru, areas)
    <3>1. n \in Nat /\ n >= 1
      BY NamesAssumption
    <3>2. QED
      BY <1>1, <1>3, <2>1, <3>1, UpdatedIs
  <2>3. PICK count \in {Len(fru)} \cup {k \in Breaks : k < Len(fru)} :
            eeprom' = Over(fru, count) /\ torn' = (count # Len(fru) \/ ~Fits(fru))
    BY <1>1, <1>6
  <2>4. fru \in Seq(Nat) /\ count \in Nat /\ count <= Len(fru)
    <3>1. fru \in Seq(Nat)
      BY <2>2 DEF Assembled
    <3>2. PICK l \in Nat : l = Len(fru)
      BY <3>1
    <3>3. count = l \/ (count \in Breaks /\ count < l)
      BY <3>2
    <3>4. \A k \in Breaks : k \in Nat
      BY BreaksAssumption
    <3>5. QED
      BY <3>1, <3>2, <3>3, <3>4
  <2>5. eeprom' \in Seq(Nat) /\ Len(eeprom') = EepromSize
    BY <1>3, <2>3, <2>4, OverIs
  <2>6. ASSUME ~torn' PROVE formatIPMIFRU(Contents(eeprom)') = "ok"
    <3>1. count = Len(fru) /\ Fits(fru)
      BY <2>3, <2>6
    <3>2. Begins(fru, eeprom')
      BY <1>3, <2>3, <2>4, <3>1, OverBegins
    <3>3. formatIPMIFRU(Contents(eeprom')) = "ok"
      BY <2>1, <2>2, <3>1, <3>2, WrittenIsOk
    <3>4. Contents(eeprom)' = Contents(eeprom')
      BY <1>2 DEF Contents
    <3>5. QED
      BY <3>3, <3>4
  <2>7. WholeIsWellFormed'
    BY <2>6 DEF WholeIsWellFormed
  <2>8. QED
    BY <1>4, <2>5, <2>7 DEF UpdateInv
<1>7. QED
  BY <1>5, <1>6

\* A rescan or a restart.
LEMMA ReadAgainKeeps ==
    ASSUME UpdateInv, ReadAgain
    PROVE  UpdateInv'
<1>1. map' = Contents(eeprom) /\ eeprom' = eeprom /\ sized' = sized /\ torn' = torn
  BY DEF ReadAgain
<1>2. eeprom \in Seq(Nat) /\ Len(eeprom) = EepromSize /\ WholeIsWellFormed
  BY DEF UpdateInv
<1>3. (map # <<>> => Read(map))'
  BY <1>1, <1>2, ReadIs
<1>4. WholeIsWellFormed'
  BY <1>1, <1>2 DEF WholeIsWellFormed, Contents
<1>5. QED
  BY <1>1, <1>2, <1>3, <1>4 DEF UpdateInv

LEMMA UpdateInvHolds == UpdateSpec => []UpdateInv
<1>1. UpdateInit => UpdateInv
  BY UpdateInvInit
<1>2. UpdateInv /\ [UpdateNext]_updateVars => UpdateInv'
  <2>1. SUFFICES ASSUME UpdateInv, [UpdateNext]_updateVars PROVE UpdateInv'
    OBVIOUS
  <2>2. ASSUME NEW name \in Names, NEW value \in Values, UpdateFruField(name[1], name[2], value)
        PROVE  UpdateInv'
    <3>1. name[1] \in InfoAreas /\ name[2] \in 1..MaxField /\ value \in Seq(Nat)
      BY NamesAssumption, ValuesAssumption
    <3>2. QED
      BY <2>1, <2>2, <3>1, UpdateFruFieldKeeps
  <2>3. CASE TimerFires
    BY <2>1, <2>3, ReadAgainKeeps DEF TimerFires
  <2>4. CASE Restart
    BY <2>1, <2>4, ReadAgainKeeps DEF Restart
  <2>5. CASE UNCHANGED updateVars
    BY <2>1, <2>5 DEF updateVars, UpdateInv, WholeIsWellFormed, Contents, Read
  <2>6. QED
    BY <2>1, <2>2, <2>3, <2>4, <2>5 DEF UpdateNext
<1>3. QED
  BY <1>1, <1>2, PTL DEF UpdateSpec

\* What an update wrote whole, into an EEPROM with room for it, is read back as a
\* FRU without a fault: the header and the checksums are right, no area overlaps
\* another or is cut off, and the list of records is whole, whatever FRU was
\* there, whatever fields were set and wherever earlier writes broke off
\* (updateAddProperty, writeFRU, readFRUContents, formatIPMIFRU).
THEOREM WrittenIsWellFormed == UpdateSpec => []WholeIsWellFormed
<1>1. UpdateInv => WholeIsWellFormed
  BY DEF UpdateInv
<1>2. QED
  BY <1>1, UpdateInvHolds, PTL
=============================================================================
