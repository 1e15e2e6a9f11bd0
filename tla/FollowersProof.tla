---------------------------- MODULE FollowersProof -----------------------------
(***************************************************************************)
(* Theorems about the two daemons that follow what other services have on  *)
(* D-Bus.                                                                  *)
(*                                                                         *)
(* gpio-presence: for any configurations, lines and levels, a requested    *)
(* line is always read or about to be (NeverDeaf), and what the daemon     *)
(* announces once everything has been handled is true (PresenceIsTrue).    *)
(*                                                                         *)
(* The CBC tray parser: why no cartridge is missed, for any services,      *)
(* paths and fields.  The messages of one service keep their order, so the *)
(* last one about a path that says something says what there is, and where *)
(* none does, a question to the service that has the cartridge is under    *)
(* way.                                                                    *)
(***************************************************************************)
EXTENDS GpioPresence, CbcTopology, QueueLemmas

\* A coroutine of these kinds that can run reads l.
Reads(q, l) == \E t \in Range(q) : t.kind \in {"start", "resume"} /\ t.line = l

-----------------------------------------------------------------------------
(* The gpio-presence daemon: the queue after each kind of step *)

LEMMA RanOnly ==
    ASSUME TypeOK, ready # <<>>, ready' = Tail(ready)
    PROVE  /\ Head(ready) \in Task
           /\ ready' \in Seq(Task)
           /\ Range(ready) = {Head(ready)} \cup Range(ready')
BY HeadAndTail DEF TypeOK

LEMMA RunOnly ==
    ASSUME TypeOK, NEW kind, Run(kind, <<>>)
    PROVE  /\ up /\ ready # <<>> /\ Head(ready).kind = kind
           /\ ready' = Tail(ready)
<1>1. /\ ready \in Seq(Task) /\ up /\ ready # <<>> /\ Head(ready).kind = kind
      /\ ready' = Tail(ready) \o <<>>
  BY DEF Run, TypeOK
<1>2. Tail(ready) \in Seq(Task)
  BY <1>1, HeadAndTail
<1>3. QED
  BY <1>1, <1>2

LEMMA TaskJoins ==
    ASSUME TypeOK, NEW t \in Task, ready' = Append(ready, t)
    PROVE  ready' \in Seq(Task) /\ Range(ready') = Range(ready) \cup {t}
BY RangeAppend DEF TypeOK

\* One reader is spawned for each line requested.
LEMMA ReadersSpawned ==
    ASSUME NEW lines \in SUBSET Line, IsFiniteSet(lines)
    PROVE  /\ SpawnReaders(lines) \in Seq(Task)
           /\ \A l \in lines : [kind |-> "start", line |-> l] \in Range(SpawnReaders(lines))
           /\ \A t \in Range(SpawnReaders(lines)) : t.kind = "start"
<1> DEFINE n == Cardinality(lines)
           s == SpawnReaders(lines)
<1>1. /\ n \in Nat
      /\ \A i \in 1..n : SetToSeq(lines)[i] \in lines
      /\ \A l \in lines : \E i \in 1..n : SetToSeq(lines)[i] = l
  BY SetToSeqLists
<1>2. s = [i \in 1..n |-> [kind |-> "start", line |-> SetToSeq(lines)[i]]]
  BY DEF SpawnReaders
<1>3. \A i \in 1..n : [kind |-> "start", line |-> SetToSeq(lines)[i]] \in Task
  BY <1>1 DEF Task
<1>4. s \in [1..n -> Task]
  BY <1>2, <1>3
<1>5. s \in Seq(Task) /\ Len(s) = n
  BY <1>1, <1>4
<1>6. ASSUME NEW l \in lines
      PROVE  [kind |-> "start", line |-> l] \in Range(s)
  <2>1. PICK i \in 1..n : SetToSeq(lines)[i] = l
    BY <1>1
  <2>2. s[i] = [kind |-> "start", line |-> l]
    BY <1>2, <2>1
  <2>3. QED
    BY <1>5, <2>2, RangeAt
<1>7. ASSUME NEW t \in Range(s) PROVE t.kind = "start"
  <2>1. PICK i \in 1..n : s[i] = t
    BY <1>5, RangeAt
  <2>2. QED
    BY <1>2, <2>1
<1>8. QED
  BY <1>5, <1>6, <1>7

\* Every configuration of a finite set is fetched.
LEMMA FetchEachType ==
    ASSUME NEW configs \in SUBSET Config, IsFiniteSet(configs)
    PROVE  FetchEach(configs) \in Seq(Call)
<1> DEFINE n == Cardinality(configs)
<1>1. n \in Nat /\ \A i \in 1..n : SetToSeq(configs)[i] \in configs
  BY SetToSeqLists
<1>2. \A i \in 1..n : Fetch(SetToSeq(configs)[i]) \in Call
  BY <1>1 DEF Fetch, Call
<1>3. FetchEach(configs) \in [1..n -> Call]
  BY <1>2 DEF FetchEach
<1>4. QED
  BY <1>1, <1>3

\* What is released marks the coroutines about to resume on it, no other.
LEMMA OrphanedIs ==
    ASSUME NEW tasks \in Seq(Task), NEW released
    PROVE  /\ Orphaned(tasks, released) \in Seq(Task)
           /\ \A t \in Range(tasks) :
                 ~(t.kind = "resume" /\ t.line \in released)
                 => t \in Range(Orphaned(tasks, released))
           /\ \A t \in Range(Orphaned(tasks, released)) :
                 \/ t.kind = "stale"
                 \/ t \in Range(tasks) /\ ~(t.kind = "resume" /\ t.line \in released)
<1> DEFINE o == Orphaned(tasks, released)
           gone(t) == t.kind = "resume" /\ t.line \in released
<1>1. Len(tasks) \in Nat /\ \A i \in 1..Len(tasks) : tasks[i] \in Task
  OBVIOUS
<1>2. /\ DOMAIN o = 1..Len(tasks)
      /\ \A i \in 1..Len(tasks) :
           o[i] = IF gone(tasks[i]) THEN [tasks[i] EXCEPT !.kind = "stale"] ELSE tasks[i]
  BY DEF Orphaned
<1>3. ASSUME NEW i \in 1..Len(tasks), gone(tasks[i])
      PROVE  [tasks[i] EXCEPT !.kind = "stale"] \in Task
             /\ [tasks[i] EXCEPT !.kind = "stale"].kind = "stale"
  BY <1>1, <1>3 DEF Task, Call
<1>4. o \in [1..Len(tasks) -> Task]
  <2>1. \A i \in 1..Len(tasks) : o[i] \in Task
    BY <1>1, <1>2, <1>3
  <2>2. o = [i \in 1..Len(tasks) |-> o[i]]
    BY DEF Orphaned
  <2>3. QED
    BY <2>1, <2>2
<1>5. o \in Seq(Task) /\ Len(o) = Len(tasks)
  BY <1>1, <1>4
<1>6. ASSUME NEW t \in Range(tasks), ~gone(t) PROVE t \in Range(o)
  <2>1. PICK i \in 1..Len(tasks) : tasks[i] = t
    BY RangeAt
  <2>2. o[i] = t
    BY <1>2, <1>6, <2>1
  <2>3. QED
    BY <1>5, <2>2, RangeAt
<1>7. ASSUME NEW t \in Range(o)
      PROVE  t.kind = "stale" \/ (t \in Range(tasks) /\ ~gone(t))
  <2>1. PICK i \in 1..Len(tasks) : o[i] = t
    BY <1>5, RangeAt
  <2>2. CASE gone(tasks[i])
    BY <1>2, <1>3, <2>1, <2>2
  <2>3. CASE ~gone(tasks[i])
    BY <1>2, <2>1, <2>3, RangeAt
  <2>4. QED
    BY <2>2, <2>3
<1>8. QED
  BY <1>5, <1>6, <1>7

-----------------------------------------------------------------------------
(* What the steps do to the lines and to what is announced *)

lineState == <<level, faulty, up, presenceMap, detectedIface, gpioState, gpioLines,
               fdios, waiting>>

\* Messages come and go; no reader does.
Quiet ==
    /\ UNCHANGED <<lineState, edges>>
    /\ \A l : Reads(ready, l) => Reads(ready', l)
    /\ \A t \in Range(ready') : t.kind = "resume" => t \in Range(ready)

\* The process ended, or has just started.
Emptied ==
    /\ presenceMap' = {} /\ detectedIface' = {}
    /\ gpioLines' = {} /\ fdios' = {} /\ waiting' = {}
    /\ \A t \in Range(ready') : t.kind # "resume"

\* Configuration c goes, and the lines only it needs.
Released(c) == IF c \in presenceMap THEN Unneeded(c, presenceMap \ {c}) ELSE {}
Drops(c) ==
    /\ presenceMap' = presenceMap \ {c}
    /\ detectedIface' = detectedIface \ {c}
    /\ gpioLines' = gpioLines \ Released(c)
    /\ fdios' = fdios \ Released(c)
    /\ waiting' = waiting \ Released(c)
    /\ edges' = edges \ Released(c)
    /\ UNCHANGED <<level, faulty, up, gpioState>>
    /\ \A l : l \notin Released(c) /\ Reads(ready, l) => Reads(ready', l)
    /\ \A t \in Range(ready') :
          t.kind = "resume" => t \in Range(ready) /\ t.line \notin Released(c)

\* A reader of l reads it, and most often waits then.
Looks(l) ==
    /\ l \in fdios
    /\ UpdatePresence(l, level[l])
    /\ waiting' \in {waiting, waiting \cup {l}}
    /\ edges \ {l} \subseteq edges'
    /\ UNCHANGED <<level, faulty, up, presenceMap, gpioLines, fdios>>
    /\ \A k : k # l /\ Reads(ready, k) => Reads(ready', k)
    /\ l \in waiting' \/ (Reads(ready, l) => Reads(ready', l))
    /\ Range(ready') \subseteq Range(ready)

\* A reader of l ends: the line is faulty or not requested.
GivesUp(l) ==
    /\ l \notin fdios \ faulty
    /\ UNCHANGED <<lineState, edges>>
    /\ \A k : k # l /\ Reads(ready, k) => Reads(ready', k)
    /\ Range(ready') \subseteq Range(ready)

LEMMA DiesEmpties == Dies => Emptied
BY RangeShort DEF Dies, Emptied

LEMMA RestartEmpties == Restart => Emptied
<1> SUFFICES ASSUME Restart PROVE Emptied
  OBVIOUS
<1>1. ready' = <<[kind |-> "match"]>>
  BY DEF Restart, Started
<1>2. Range(ready') = {[kind |-> "match"]}
  BY <1>1, RangeShort
<1>3. QED
  BY <1>2 DEF Restart, Started, Emptied

\* A task that is no reader's ran.
LEMMA QuietRun ==
    ASSUME TypeOK, NEW kind, kind \notin {"start", "resume"}, Run(kind, <<>>),
           UNCHANGED <<lineState, edges>>
    PROVE  Quiet
<1>1. Range(ready) = {Head(ready)} \cup Range(ready') /\ Head(ready).kind = kind
  BY RunOnly, RanOnly
<1>2. QED
  BY <1>1 DEF Quiet, Reads

\* A message joined.
LEMMA QuietJoin ==
    ASSUME TypeOK, NEW t \in Task, t.kind # "resume",
           ready' \in {ready, Append(ready, t)}, UNCHANGED <<lineState, edges>>
    PROVE  Quiet
<1>1. Range(ready) \subseteq Range(ready') /\ Range(ready') \subseteq Range(ready) \cup {t}
  BY TaskJoins
<1>2. QED
  BY <1>1 DEF Quiet, Reads

LEMMA QuietSteps ==
    ASSUME TypeOK,
           \/ SetUpMatches \/ GetConfig \/ HandleInterfacesAdded \/ PropertiesReturned
           \/ Answer \/ AnswerSubTree
           \/ \E c \in Config : Export(c) \/ Unexport(c)
    PROVE  Quiet
<1> USE DEF lineState, world
<1>1. CASE SetUpMatches
  BY <1>1, QuietRun DEF SetUpMatches
<1>2. CASE GetConfig
  BY <1>2, QuietRun DEF GetConfig
<1>3. CASE HandleInterfacesAdded
  BY <1>3, QuietRun DEF HandleInterfacesAdded
<1>4. CASE PropertiesReturned
  BY <1>4, QuietRun DEF PropertiesReturned
<1>5. CASE Answer
  <2>1. calls \in Seq(Call) /\ calls # <<>>
    BY <1>5 DEF Answer, TypeOK
  <2>2. Head(calls) \in Call
    BY <2>1, HeadAndTail
  <2>3. /\ Head(calls) \in Task /\ Head(calls).kind # "resume"
        /\ [Head(calls) EXCEPT !.kind = "unknown"] \in Task
        /\ [Head(calls) EXCEPT !.kind = "unknown"].kind # "resume"
    BY <2>2 DEF Call, Task
  <2>4. QED
    BY <1>5, <2>3, QuietJoin DEF Answer
<1>6. CASE AnswerSubTree
  <2>1. PICK res \in {exported, {}} : ready' = Append(ready, [kind |-> "subtree", configs |-> res])
    BY <1>6 DEF AnswerSubTree
  <2>2. [kind |-> "subtree", configs |-> res] \in Task
    BY DEF Task, TypeOK
  <2>3. QED
    BY <1>6, <2>1, <2>2, QuietJoin DEF AnswerSubTree
<1>7. ASSUME NEW c \in Config, Export(c) \/ Unexport(c) PROVE Quiet
  <2>1. [kind |-> "added", config |-> c] \in Task /\ [kind |-> "removed", config |-> c] \in Task
    BY DEF Task
  <2>2. CASE Export(c)
    BY <2>1, <2>2, QuietJoin DEF Export, Sends
  <2>3. CASE Unexport(c)
    BY <2>1, <2>3, QuietJoin DEF Unexport, Sends
  <2>4. QED
    BY <1>7, <2>2, <2>3
<1>8. QED
  BY <1>1, <1>2, <1>3, <1>4, <1>5, <1>6, <1>7

LEMMA RemoveIs ==
    ASSUME TypeOK, RemoveConfig
    PROVE  Emptied \/ \E c \in Config : Drops(c)
<1> DEFINE c == Head(ready).config
<1>1. /\ ready \in Seq(Task) /\ ready # <<>> /\ Head(ready).kind = "removed"
  BY DEF RemoveConfig, TypeOK
<1>2. /\ Head(ready) \in Task /\ Tail(ready) \in Seq(Task)
      /\ Range(ready) = {Head(ready)} \cup Range(Tail(ready))
  BY <1>1, HeadAndTail
<1>3. c \in Config
  BY <1>1, <1>2 DEF Task, Call
<1>4. CASE Dies
  BY <1>4, DiesEmpties
<1>5. CASE ~Dies
  <2>1. /\ presenceMap' = presenceMap \ {c}
        /\ detectedIface' = detectedIface \ {c}
        /\ gpioLines' = gpioLines \ Released(c)
        /\ fdios' = fdios \ Released(c)
        /\ waiting' = waiting \ Released(c)
        /\ edges' = edges \ Released(c)
        /\ UNCHANGED <<level, faulty, up, gpioState>>
        /\ ready' = Orphaned(Tail(ready), Released(c))
    BY <1>5 DEF RemoveConfig, Released, Withdrawn, world
  <2>2. /\ \A t \in Range(Tail(ready)) :
              ~(t.kind = "resume" /\ t.line \in Released(c)) => t \in Range(ready')
        /\ \A t \in Range(ready') :
              \/ t.kind = "stale"
              \/ t \in Range(Tail(ready)) /\ ~(t.kind = "resume" /\ t.line \in Released(c))
    BY <1>2, <2>1, OrphanedIs
  <2>3. \A l : l \notin Released(c) /\ Reads(ready, l) => Reads(ready', l)
    BY <1>1, <1>2, <2>2 DEF Reads
  <2>4. \A t \in Range(ready') :
           t.kind = "resume" => t \in Range(ready) /\ t.line \notin Released(c)
    BY <1>2, <2>2
  <2>5. QED
    BY <1>3, <2>1, <2>3, <2>4 DEF Drops
<1>6. QED
  BY <1>4, <1>5

LEMMA ReaderIs ==
    ASSUME TypeOK, \A t \in Range(ready) : t.kind = "resume" => t.line \in fdios,
           ReaderStarts \/ ReaderResumes \/ StaleReaderResumes
    PROVE  Dies \/ \E l \in Line : Looks(l) \/ GivesUp(l)
<1> DEFINE l == Head(ready).line
<1>1. /\ ready \in Seq(Task) /\ ready # <<>>
      /\ Head(ready).kind \in {"start", "resume", "stale"}
  BY DEF ReaderStarts, ReaderResumes, StaleReaderResumes, TypeOK
<1>2. Head(ready) \in Task
  BY <1>1, HeadAndTail
<1>3. l \in Line
  BY <1>1, <1>2 DEF Task, Call
<1>4. ASSUME ready' = Tail(ready)
      PROVE  /\ \A k : k # l /\ Reads(ready, k) => Reads(ready', k)
             /\ Range(ready') \subseteq Range(ready)
             /\ Head(ready) \in Range(ready)
             /\ Head(ready).kind = "stale" => (Reads(ready, l) => Reads(ready', l))
  <2>1. Range(ready) = {Head(ready)} \cup Range(ready')
    BY <1>1, <1>4, RanOnly
  <2>2. QED
    BY <1>1, <2>1 DEF Reads
<1>5. CASE Dies
  BY <1>5
<1>6. CASE ReaderStarts /\ ~Dies
  <2>1. /\ ready' = Tail(ready)
        /\ UNCHANGED <<level, faulty, up, presenceMap, gpioLines, fdios>>
        /\ \/ l \notin fdios \ faulty /\ Ends
           \/ /\ l \in fdios
              /\ UpdatePresence(l, get_value(l))
              /\ waiting' = waiting \cup {l}
              /\ UNCHANGED edges
    BY <1>6 DEF ReaderStarts, world
  <2>2. CASE l \notin fdios \ faulty /\ Ends
    BY <1>3, <1>4, <2>1, <2>2 DEF GivesUp, Ends, lineState
  <2>3. CASE l \in fdios /\ UpdatePresence(l, get_value(l))
             /\ waiting' = waiting \cup {l} /\ UNCHANGED edges
    BY <1>3, <1>4, <2>1, <2>3 DEF Looks, get_value
  <2>4. QED
    BY <2>1, <2>2, <2>3
<1>7. CASE ReaderResumes /\ ~Dies
  <2>1. /\ ready' = Tail(ready) /\ Head(ready).kind = "resume"
        /\ UNCHANGED <<level, faulty, up, presenceMap, gpioLines, fdios>>
        /\ UpdatePresence(l, level[l])
        /\ waiting' = waiting \cup {l} /\ edges' = edges \ {l}
    BY <1>7 DEF ReaderResumes, world, get_value
  <2>2. l \in fdios
    BY <1>4, <2>1
  <2>3. QED
    BY <1>3, <1>4, <2>1, <2>2 DEF Looks
<1>8. CASE StaleReaderResumes /\ ~Dies
  <2>1. /\ ready' = Tail(ready) /\ Head(ready).kind = "stale" /\ l \in fdios
        /\ UNCHANGED <<level, faulty, up, presenceMap, gpioLines, fdios, waiting>>
        /\ UpdatePresence(l, level[l])
        /\ edges' = edges \ {l}
    BY <1>8 DEF StaleReaderResumes, world, get_value
  <2>2. QED
    BY <1>3, <1>4, <2>1 DEF Looks
<1>9. QED
  BY <1>5, <1>6, <1>7, <1>8

\* Configuration c comes, and the lines nobody has asked for are requested.
Adds(c, requested, failed) ==
    /\ presenceMap' = presenceMap \cup {c}
    /\ detectedIface' = (detectedIface \ {c}) \cup
           (IF Lines(c) # {} /\ isPresent(c, gpioState) THEN {c} ELSE {})
    /\ requested \subseteq Untracked(Lines(c))
    /\ failed \subseteq faulty \cap Lines(c)
    /\ failed = {} => requested = Untracked(Lines(c))
    /\ gpioLines' = gpioLines \cup requested \cup failed
    /\ fdios' = fdios \cup requested
    /\ UNCHANGED <<level, faulty, edges, up, gpioState, waiting>>
    /\ ready' \in Seq(Task)
    /\ \A l : l \in requested \/ Reads(ready, l) => Reads(ready', l)
    /\ \A t \in Range(ready') : t.kind = "resume" => t \in Range(ready)

LEMMA AddIs ==
    ASSUME TypeOK, AddConfig
    PROVE  \E c \in Config : \E requested, failed : Adds(c, requested, failed)
<1> DEFINE c == Head(ready).config
<1>1. /\ ready \in Seq(Task) /\ ready # <<>> /\ Head(ready).kind = "compatible"
  BY DEF AddConfig, TypeOK
<1>2. /\ Head(ready) \in Task /\ Tail(ready) \in Seq(Task)
      /\ Range(ready) = {Head(ready)} \cup Range(Tail(ready))
  BY <1>1, HeadAndTail
<1>3. c \in Config
  BY <1>1, <1>2 DEF Task, Call
<1>4. PICK requested \in SUBSET Untracked(Lines(c)),
           failed \in SUBSET (Untracked(Lines(c)) \cap faulty) :
        /\ \/ failed = {} /\ requested = Untracked(Lines(c))
           \/ Cardinality(failed) = 1 /\ requested \cap failed = {}
        /\ gpioLines' = gpioLines \cup requested \cup failed
        /\ fdios' = fdios \cup requested
        /\ ready' = Tail(ready) \o SpawnReaders(requested)
  BY DEF AddConfig
<1>5. failed = {} => requested = Untracked(Lines(c))
  BY <1>4, FS_EmptySet
<1>6. /\ presenceMap' = presenceMap \cup {c}
      /\ detectedIface' = Updated(detectedIface \ {c},
             IF Lines(c) \cap DOMAIN gpioState = {} THEN {} ELSE {c}, gpioState)
      /\ UNCHANGED <<level, faulty, edges, up, gpioState, waiting>>
  BY DEF AddConfig, world
<1>7. detectedIface' = (detectedIface \ {c}) \cup
           (IF Lines(c) # {} /\ isPresent(c, gpioState) THEN {c} ELSE {})
  <2>1. CASE Lines(c) \cap DOMAIN gpioState = {}
    <3>1. ~(Lines(c) # {} /\ isPresent(c, gpioState))
      BY <2>1 DEF isPresent
    <3>2. QED
      BY <1>6, <2>1, <3>1 DEF Updated
  <2>2. CASE Lines(c) \cap DOMAIN gpioState # {}
    <3>1. detectedIface' = ((detectedIface \ {c}) \ {c}) \cup
                              {x \in {c} : isPresent(x, gpioState)}
      BY <1>6, <2>2 DEF Updated
    <3>2. Lines(c) # {}
      BY <2>2
    <3>3. QED
      BY <3>1, <3>2
  <2>3. QED
    BY <2>1, <2>2
<1>8. requested \in SUBSET Line /\ IsFiniteSet(requested)
  <2>1. Lines(c) \subseteq Line /\ IsFiniteSet(Lines(c))
    BY <1>3, PinsAssumption, FiniteAssumption DEF Lines
  <2>2. QED
    BY <1>4, <2>1, FS_Subset DEF Untracked
<1>9. /\ SpawnReaders(requested) \in Seq(Task)
      /\ \A l \in requested : [kind |-> "start", line |-> l] \in Range(SpawnReaders(requested))
      /\ \A t \in Range(SpawnReaders(requested)) : t.kind = "start"
  BY <1>8, ReadersSpawned
<1>10. /\ ready' \in Seq(Task)
       /\ Range(ready') = Range(Tail(ready)) \cup Range(SpawnReaders(requested))
  BY <1>1, <1>4, <1>9, RangeDispatch
<1>11. \A l : l \in requested \/ Reads(ready, l) => Reads(ready', l)
  <2>1. ASSUME NEW l, l \in requested PROVE Reads(ready', l)
    <3>1. [kind |-> "start", line |-> l] \in Range(ready')
      BY <1>9, <1>10, <2>1
    <3>2. QED
      BY <3>1 DEF Reads
  <2>2. ASSUME NEW l, Reads(ready, l) PROVE Reads(ready', l)
    BY <1>1, <1>2, <1>10, <2>2 DEF Reads
  <2>3. QED
    BY <2>1, <2>2
<1>12. \A t \in Range(ready') : t.kind = "resume" => t \in Range(ready)
  BY <1>2, <1>9, <1>10
<1>13. failed \subseteq faulty \cap Lines(c)
  BY <1>4 DEF Untracked
<1>14. Adds(c, requested, failed)
  BY <1>4, <1>5, <1>6, <1>7, <1>10, <1>11, <1>12, <1>13 DEF Adds
<1>15. QED
  BY <1>3, <1>14

\* What a reader learns.
LEMMA UpdateIs ==
    ASSUME TypeOK, NEW l \in Line, UpdatePresence(l, level[l])
    PROVE  /\ DOMAIN gpioState' = DOMAIN gpioState \cup {l}
           /\ gpioState'[l] = level[l]
           /\ \A x \in DOMAIN gpioState \ {l} : gpioState'[x] = gpioState[x]
           /\ DOMAIN gpioState' \in SUBSET Line /\ Range(gpioState') \subseteq BOOLEAN
           /\ detectedIface' = Updated(detectedIface,
                                       {c \in presenceMap : l \in Lines(c)}, gpioState')
           /\ detectedIface' \in SUBSET presenceMap
<1>1. /\ gpioState' = [x \in DOMAIN gpioState \cup {l} |->
                          IF x = l THEN level[l] ELSE gpioState[x]]
      /\ detectedIface' = Updated(detectedIface,
                                  {c \in presenceMap : l \in Lines(c)}, gpioState')
  BY DEF UpdatePresence
<1>2. /\ DOMAIN gpioState \subseteq Line /\ level[l] \in BOOLEAN
      /\ \A x \in DOMAIN gpioState : gpioState[x] \in BOOLEAN
      /\ detectedIface \subseteq presenceMap
  BY DEF TypeOK, Range
<1>3. Range(gpioState') \subseteq BOOLEAN
  BY <1>1, <1>2 DEF Range
<1>4. detectedIface' \subseteq presenceMap
  BY <1>1, <1>2 DEF Updated
<1>5. QED
  BY <1>1, <1>2, <1>3, <1>4

-----------------------------------------------------------------------------
(* Type correctness *)

\* A coroutine about to resume has its line: the ones whose line went are stale.
Held == \A t \in Range(ready) : t.kind = "resume" => t.line \in fdios

\* Every step is one of these.
LEMMA StepIs ==
    ASSUME TypeOK, Held, Next
    PROVE  \/ Quiet \/ Emptied
           \/ \E c \in Config : Drops(c) \/ \E requested, failed : Adds(c, requested, failed)
           \/ \E l \in Line : Looks(l) \/ GivesUp(l) \/ Toggle(l) \/ Edge(l)
<1>1. CASE RemoveConfig
  BY <1>1, RemoveIs
<1>2. CASE AddConfig
  BY <1>2, AddIs
<1>3. CASE ReaderStarts \/ ReaderResumes \/ StaleReaderResumes
  BY <1>3, ReaderIs, DiesEmpties DEF Held
<1>4. CASE PropertiesFailed
  BY <1>4, DiesEmpties DEF PropertiesFailed
<1>5. CASE Restart
  BY <1>5, RestartEmpties
<1>6. QED
  BY <1>1, <1>2, <1>3, <1>4, <1>5, QuietSteps
     DEF Next, Coroutine, Edges, Environment

LEMMA DiesType ==
    ASSUME TypeOK, Dies, UNCHANGED world
    PROVE  TypeOK'
<1>1. <<>> \in Seq(Task) /\ <<>> \in Seq(Call)
  OBVIOUS
<1>2. QED
  BY <1>1 DEF Dies, TypeOK, world

\* A step of the environment or a message that leaves the daemon alone.
LEMMA SameDaemonType ==
    ASSUME TypeOK, UNCHANGED <<calls, mapper, matching, up, presenceMap, detectedIface,
                               gpioState, gpioLines, fdios, waiting, faulty>>,
           ready' \in Seq(Task), exported' \in SUBSET Config, level' \in [Line -> BOOLEAN],
           changes' \in 0..MaxChanges, edges' \in SUBSET Line, missed' \in SUBSET Config
    PROVE  TypeOK'
BY DEF TypeOK

LEMMA ReaderType ==
    ASSUME TypeOK, NEW l \in Line, Looks(l) \/ GivesUp(l),
           UNCHANGED <<exported, changes, calls, mapper, matching, missed>>,
           ready' \in Seq(Task), edges' \in SUBSET Line
    PROVE  TypeOK'
<1>1. CASE Looks(l)
  <2>1. UpdatePresence(l, level[l]) /\ waiting' \in SUBSET fdios
    BY <1>1 DEF Looks, TypeOK
  <2>2. /\ DOMAIN gpioState' \in SUBSET Line /\ Range(gpioState') \subseteq BOOLEAN
        /\ detectedIface' \in SUBSET presenceMap
    BY <2>1, UpdateIs
  <2>3. QED
    BY <1>1, <2>1, <2>2 DEF Looks, TypeOK
<1>2. CASE GivesUp(l)
  BY <1>2 DEF GivesUp, lineState, TypeOK
<1>3. QED
  BY <1>1, <1>2

LEMMA TypeStep == TypeOK /\ Held /\ [Next]_vars => TypeOK'
<1> SUFFICES ASSUME TypeOK, Held, [Next]_vars PROVE TypeOK'
  OBVIOUS
<1>0. ASSUME NEW kind, Run(kind, <<>>) PROVE Head(ready) \in Task /\ ready' \in Seq(Task)
                                             /\ Head(ready).kind = kind
  BY <1>0, RunOnly, RanOnly
<1>1. CASE SetUpMatches
  BY <1>0, <1>1 DEF SetUpMatches, TypeOK, world
<1>2. CASE GetConfig
  <2>1. /\ Head(ready) \in Task /\ ready' \in Seq(Task) /\ Head(ready).kind = "subtree"
    BY <1>0, <1>2 DEF GetConfig
  <2>2. Head(ready).configs \in SUBSET Config
    BY <2>1 DEF Task, Call
  <2>3. FetchEach(Head(ready).configs) \in Seq(Call)
    BY <2>2, FiniteAssumption, FS_Subset, FetchEachType
  <2>4. calls' \in Seq(Call)
    BY <1>2, <2>3, ConcatProperties DEF GetConfig, TypeOK
  <2>5. QED
    BY <1>2, <2>1, <2>4 DEF GetConfig, TypeOK, world
<1>3. CASE HandleInterfacesAdded
  <2>1. /\ Head(ready) \in Task /\ ready' \in Seq(Task) /\ Head(ready).kind = "added"
    BY <1>0, <1>3 DEF HandleInterfacesAdded
  <2>2. Fetch(Head(ready).config) \in Call
    BY <2>1 DEF Task, Call, Fetch
  <2>3. calls' \in Seq(Call)
    BY <1>3, <2>2, AppendProperties DEF HandleInterfacesAdded, TypeOK
  <2>4. QED
    BY <1>3, <2>1, <2>3 DEF HandleInterfacesAdded, TypeOK, world
<1>4. CASE PropertiesReturned
  <2>1. /\ Head(ready) \in Task /\ ready' \in Seq(Task) /\ Head(ready).kind = "properties"
    BY <1>0, <1>4 DEF PropertiesReturned
  <2>2. [kind |-> "compatible", config |-> Head(ready).config] \in Call
    BY <2>1 DEF Task, Call
  <2>3. calls' \in Seq(Call)
    BY <1>4, <2>2, AppendProperties DEF PropertiesReturned, TypeOK
  <2>4. QED
    BY <1>4, <2>1, <2>3 DEF PropertiesReturned, TypeOK, world
<1>5. CASE PropertiesFailed
  BY <1>5, DiesType DEF PropertiesFailed
<1>6. CASE AddConfig
  <2> PICK c \in Config : \E requested, failed : Adds(c, requested, failed)
    BY <1>6, AddIs
  <2>1. PICK requested, failed : Adds(c, requested, failed)
    OBVIOUS
  <2>2. UNCHANGED <<world, edges, calls, mapper, matching, up, gpioState, waiting, missed>>
    BY <1>6 DEF AddConfig
  <2>3. Lines(c) \subseteq Line
    BY PinsAssumption DEF Lines
  <2>4. requested \subseteq Line /\ failed \subseteq Line
    BY <2>1, <2>3 DEF Adds, Untracked
  <2>5. /\ ready' \in Seq(Task)
        /\ presenceMap' \in SUBSET Config
        /\ detectedIface' \in SUBSET presenceMap'
        /\ gpioLines' \in SUBSET Line
        /\ fdios' \in SUBSET gpioLines'
        /\ waiting' \in SUBSET fdios'
    BY <2>1, <2>4 DEF Adds, TypeOK
  <2>6. QED
    BY <2>2, <2>5 DEF TypeOK, world
<1>7. CASE RemoveConfig /\ ~Dies
  <2> DEFINE c == Head(ready).config
  <2>1. /\ ready \in Seq(Task) /\ ready # <<>>
        /\ presenceMap' = presenceMap \ {c}
        /\ detectedIface' = detectedIface \ {c}
        /\ gpioLines' = gpioLines \ Released(c)
        /\ fdios' = fdios \ Released(c)
        /\ waiting' = waiting \ Released(c)
        /\ edges' = edges \ Released(c)
        /\ UNCHANGED <<calls, mapper, matching, up, gpioState, missed, world>>
        /\ ready' = Orphaned(Tail(ready), Released(c))
    BY <1>7 DEF RemoveConfig, Released, Withdrawn, TypeOK
  <2>2. ready' \in Seq(Task)
    BY <2>1, HeadAndTail, OrphanedIs
  <2>3. QED
    BY <2>1, <2>2 DEF TypeOK, world
<1>8. CASE RemoveConfig /\ Dies
  BY <1>8, DiesType DEF RemoveConfig
<1>9. CASE ReaderStarts \/ ReaderResumes \/ StaleReaderResumes
  <2>1. UNCHANGED world
    BY <1>9 DEF ReaderStarts, ReaderResumes, StaleReaderResumes
  <2>2. CASE Dies
    BY <2>1, <2>2, DiesType
  <2>3. CASE ~Dies
    <3> DEFINE l == Head(ready).line
    <3>1. /\ ready \in Seq(Task) /\ ready # <<>> /\ ready' = Tail(ready)
          /\ UNCHANGED <<calls, mapper, matching, up, missed>>
          /\ edges' \in SUBSET Line
      BY <1>9, <2>3 DEF ReaderStarts, ReaderResumes, StaleReaderResumes, Ends, TypeOK
    <3>2. ready' \in Seq(Task)
      BY <3>1, HeadAndTail
    <3>3. \E k \in Line : Looks(k) \/ GivesUp(k)
      BY <1>9, <2>3, ReaderIs DEF Held
    <3>4. QED
      BY <2>1, <3>1, <3>2, <3>3, ReaderType DEF world
  <2>4. QED
    BY <2>2, <2>3
<1>10. CASE Restart
  <2>1. [kind |-> "match"] \in Task
    BY DEF Task
  <2>2. <<[kind |-> "match"]>> \in Seq(Task) /\ <<>> \in Seq(Call)
    BY <2>1
  <2>3. DOMAIN <<>> = {} /\ Range(<<>>) = {}
    BY RangeShort
  <2>4. QED
    BY <1>10, <2>2, <2>3 DEF Restart, Started, TypeOK, world
<1>11. CASE Answer
  <2>1. calls \in Seq(Call) /\ calls # <<>>
    BY <1>11 DEF Answer, TypeOK
  <2>2. Head(calls) \in Call /\ calls' \in Seq(Call)
    BY <1>11, <2>1, HeadAndTail DEF Answer
  <2>3. Head(calls) \in Task /\ [Head(calls) EXCEPT !.kind = "unknown"] \in Task
    BY <2>2 DEF Call, Task
  <2>4. ready' \in Seq(Task)
    BY <1>11, <2>3, AppendProperties DEF Answer, TypeOK
  <2>5. QED
    BY <1>11, <2>2, <2>4 DEF Answer, TypeOK, world
<1>12. CASE AnswerSubTree
  <2>1. PICK res \in {exported, {}} :
            /\ ready' = Append(ready, [kind |-> "subtree", configs |-> res])
            /\ missed' = missed \ res
    BY <1>12 DEF AnswerSubTree
  <2>2. [kind |-> "subtree", configs |-> res] \in Task
    BY DEF Task, TypeOK
  <2>3. ready' \in Seq(Task)
    BY <2>1, <2>2, AppendProperties DEF TypeOK
  <2>4. QED
    BY <1>12, <2>1, <2>3 DEF AnswerSubTree, TypeOK, world
<1>13. ASSUME NEW c \in Config, Export(c) \/ Unexport(c) PROVE TypeOK'
  <2>1. [kind |-> "added", config |-> c] \in Task /\ [kind |-> "removed", config |-> c] \in Task
    BY DEF Task
  <2>2. ready' \in Seq(Task)
    <3>1. ready \in Seq(Task) /\ \A t \in Task : Append(ready, t) \in Seq(Task)
      BY AppendProperties DEF TypeOK
    <3>2. CASE Export(c)
      BY <2>1, <3>1, <3>2 DEF Export, Sends
    <3>3. CASE Unexport(c)
      BY <2>1, <3>1, <3>3 DEF Unexport, Sends
    <3>4. QED
      BY <1>13, <3>2, <3>3
  <2>3. changes' \in 0..MaxChanges /\ exported' \in SUBSET Config /\ missed' \in SUBSET Config
    BY <1>13, BoundAssumption DEF Export, Unexport, TypeOK
  <2>4. QED
    BY <1>13, <2>2, <2>3, SameDaemonType DEF Export, Unexport, TypeOK
<1>14. ASSUME NEW l \in Line, Toggle(l) PROVE TypeOK'
  <2>1. /\ changes' \in 0..MaxChanges /\ level' \in [Line -> BOOLEAN]
        /\ edges' \in SUBSET Line
    BY <1>14, BoundAssumption DEF Toggle, TypeOK
  <2>2. QED
    BY <1>14, <2>1, SameDaemonType DEF Toggle, TypeOK, process
<1>15. ASSUME NEW l \in Line, Edge(l) PROVE TypeOK'
  <2>1. [kind |-> "resume", line |-> l] \in Task
    BY DEF Task
  <2>2. ready' \in Seq(Task)
    BY <1>15, <2>1, AppendProperties DEF Edge, TypeOK
  <2>3. QED
    BY <1>15, <2>2 DEF Edge, TypeOK, world
<1>16. CASE UNCHANGED vars
  BY <1>16 DEF vars, world, process, TypeOK
<1>17. QED
  BY <1>1, <1>2, <1>3, <1>4, <1>5, <1>6, <1>7, <1>8, <1>9, <1>10, <1>11, <1>12, <1>13,
     <1>14, <1>15, <1>16 DEF Next, Coroutine, Edges, Environment

LEMMA TypeInit == Init => TypeOK /\ Held
<1> SUFFICES ASSUME Init PROVE TypeOK /\ Held
  OBVIOUS
<1>1. [kind |-> "match"] \in Task
  BY DEF Task
<1>2. ready \in Seq(Task) /\ Range(ready) = {[kind |-> "match"]}
  BY <1>1, RangeShort DEF Init
<1>3. DOMAIN gpioState = {} /\ Range(gpioState) = {}
  <2>1. DOMAIN <<>> = {}
    OBVIOUS
  <2>2. QED
    BY <2>1, RangeShort DEF Init
<1>4. calls \in Seq(Call)
  BY DEF Init
<1>5. TypeOK
  <2>1. /\ exported \in SUBSET Config /\ level \in [Line -> BOOLEAN]
        /\ faulty \in SUBSET Faulty /\ mapper \in {"asked", "done"}
        /\ edges = {} /\ presenceMap = {} /\ detectedIface = {}
        /\ gpioLines = {} /\ fdios = {} /\ waiting = {}
        /\ matching \in BOOLEAN /\ up \in BOOLEAN /\ missed \in SUBSET Config
    BY Zenon DEF Init
  <2>0. changes \in 0..MaxChanges
    <3>1. changes = 0
      BY DEF Init
    <3>2. QED
      BY <3>1, BoundAssumption
  <2>2. DOMAIN gpioState \in SUBSET Line /\ Range(gpioState) \subseteq BOOLEAN
    BY <1>3
  <2>3. /\ edges \in SUBSET Line /\ presenceMap \in SUBSET Config
        /\ detectedIface \in SUBSET presenceMap /\ gpioLines \in SUBSET Line
        /\ fdios \in SUBSET gpioLines /\ waiting \in SUBSET fdios
    BY <2>1
  <2>4. QED
    BY <1>2, <1>4, <2>0, <2>1, <2>2, <2>3 DEF TypeOK
<1>6. QED
  BY <1>2, <1>5 DEF Held

-----------------------------------------------------------------------------
(* The inductive invariant *)

\* Every line that is requested and works is waited on or will be read.
Heard == \A l \in fdios \ faulty : l \in waiting \/ Reads(ready, l)

\* A line's cached level is the level it has, or somebody will look again.
Fresh ==
    \A l \in fdios \ faulty :
        \/ l \in DOMAIN gpioState /\ gpioState[l] = level[l]
        \/ l \in edges
        \/ Reads(ready, l)

\* What is announced follows from the cached levels.
Shown ==
    \A c \in presenceMap :
        c \in detectedIface <=> Lines(c) # {} /\ isPresent(c, gpioState)

\* Only a faulty line is tracked without being requested, so every line of a
\* configuration that is there and sound is requested.
Requested ==
    /\ gpioLines \ fdios \subseteq faulty
    /\ \A c \in presenceMap \cap Sound : Lines(c) \subseteq fdios

GpioInv == TypeOK /\ Held /\ Heard /\ Fresh /\ Shown /\ Requested

LEMMA UnchangedLines ==
    ASSUME GpioInv, UNCHANGED vars PROVE GpioInv'
<1>1. TypeOK'
  BY TypeStep DEF GpioInv
<1>2. UNCHANGED <<lineState, edges, ready>>
  BY DEF vars, world, process, lineState
<1>3. Held' /\ Heard' /\ Fresh' /\ Shown' /\ Requested'
  BY <1>2 DEF GpioInv, Held, Heard, Fresh, Shown, Requested, isPresent, Sound, Lines,
              Reads, lineState
<1>4. QED
  BY <1>1, <1>3 DEF GpioInv

LEMMA HeldStep == TypeOK /\ Held /\ Next => Held'
<1> SUFFICES ASSUME TypeOK, Held, Next PROVE Held'
  OBVIOUS
<1>1. CASE Quiet
  BY <1>1 DEF Quiet, lineState, Held
<1>2. CASE Emptied
  BY <1>2 DEF Emptied, Held
<1>3. ASSUME NEW c \in Config, Drops(c) PROVE Held'
  BY <1>3 DEF Drops, Held
<1>4. ASSUME NEW c \in Config, NEW requested, NEW failed, Adds(c, requested, failed)
      PROVE  Held'
  BY <1>4 DEF Adds, Held
<1>5. ASSUME NEW l \in Line, Looks(l) \/ GivesUp(l) PROVE Held'
  BY <1>5 DEF Looks, GivesUp, lineState, Held
<1>6. ASSUME NEW l \in Line, Toggle(l) PROVE Held'
  BY <1>6 DEF Toggle, process, Held
<1>7. ASSUME NEW l \in Line, Edge(l) PROVE Held'
  <2>1. l \in fdios /\ fdios' = fdios
    BY <1>7 DEF Edge, TypeOK
  <2>2. [kind |-> "resume", line |-> l] \in Task
    BY DEF Task
  <2>3. Range(ready') = Range(ready) \cup {[kind |-> "resume", line |-> l]}
    BY <1>7, <2>2, TaskJoins DEF Edge
  <2>4. QED
    BY <2>1, <2>3 DEF Held
<1>8. QED
  BY <1>1, <1>2, <1>3, <1>4, <1>5, <1>6, <1>7, StepIs

LEMMA HeardStep == GpioInv /\ Next => Heard'
<1> SUFFICES ASSUME GpioInv, Next PROVE Heard'
  OBVIOUS
<1>0. TypeOK /\ Held /\ Heard
  BY DEF GpioInv
<1>1. CASE Quiet
  BY <1>0, <1>1 DEF Quiet, lineState, Heard
<1>2. CASE Emptied
  BY <1>2 DEF Emptied, Heard
<1>3. ASSUME NEW c \in Config, Drops(c) PROVE Heard'
  BY <1>0, <1>3 DEF Drops, Heard
<1>4. ASSUME NEW c \in Config, NEW requested, NEW failed, Adds(c, requested, failed)
      PROVE  Heard'
  BY <1>0, <1>4 DEF Adds, Heard
<1>5. ASSUME NEW l \in Line, Looks(l) \/ GivesUp(l) PROVE Heard'
  BY <1>0, <1>5 DEF Looks, GivesUp, lineState, Heard
<1>6. ASSUME NEW l \in Line, Toggle(l) PROVE Heard'
  BY <1>0, <1>6 DEF Toggle, process, Heard
<1>7. ASSUME NEW l \in Line, Edge(l) PROVE Heard'
  <2>1. UNCHANGED <<fdios, faulty>> /\ waiting' = waiting \ {l}
    BY <1>7 DEF Edge, world
  <2>2. [kind |-> "resume", line |-> l] \in Task
    BY DEF Task
  <2>3. Range(ready') = Range(ready) \cup {[kind |-> "resume", line |-> l]}
    BY <1>0, <1>7, <2>2, TaskJoins DEF Edge
  <2>4. Reads(ready', l) /\ \A k : Reads(ready, k) => Reads(ready', k)
    <3>1. [kind |-> "resume", line |-> l] \in Range(ready')
      BY <2>3
    <3>2. Reads(ready', l)
      BY <3>1 DEF Reads
    <3>3. \A k : Reads(ready, k) => Reads(ready', k)
      BY <2>3 DEF Reads
    <3>4. QED
      BY <3>2, <3>3
  <2>5. QED
    BY <1>0, <2>1, <2>4 DEF Heard
<1>8. QED
  BY <1>0, <1>1, <1>2, <1>3, <1>4, <1>5, <1>6, <1>7, StepIs

LEMMA FreshStep == GpioInv /\ Next => Fresh'
<1> SUFFICES ASSUME GpioInv, Next PROVE Fresh'
  OBVIOUS
<1>0. TypeOK /\ Held /\ Fresh
  BY DEF GpioInv
<1>1. CASE Quiet
  BY <1>0, <1>1 DEF Quiet, lineState, Fresh
<1>2. CASE Emptied
  BY <1>2 DEF Emptied, Fresh
<1>3. ASSUME NEW c \in Config, Drops(c) PROVE Fresh'
  BY <1>0, <1>3 DEF Drops, Fresh
<1>4. ASSUME NEW c \in Config, NEW requested, NEW failed, Adds(c, requested, failed)
      PROVE  Fresh'
  BY <1>0, <1>4 DEF Adds, Fresh
<1>5. ASSUME NEW l \in Line, Looks(l) PROVE Fresh'
  <2>1. /\ DOMAIN gpioState' = DOMAIN gpioState \cup {l}
        /\ gpioState'[l] = level[l]
        /\ \A x \in DOMAIN gpioState \ {l} : gpioState'[x] = gpioState[x]
    BY <1>0, <1>5, UpdateIs DEF Looks
  <2>2. QED
    BY <1>0, <1>5, <2>1 DEF Looks, Fresh
<1>6. ASSUME NEW l \in Line, GivesUp(l) PROVE Fresh'
  BY <1>0, <1>6 DEF GivesUp, lineState, Fresh
<1>7. ASSUME NEW l \in Line, Toggle(l) PROVE Fresh'
  <2>1. \A k \in Line \ {l} : level'[k] = level[k]
    BY <1>0, <1>7 DEF Toggle, TypeOK
  <2>2. fdios \subseteq Line
    BY <1>0 DEF TypeOK
  <2>3. QED
    BY <1>0, <1>7, <2>1, <2>2 DEF Toggle, process, Fresh
<1>8. ASSUME NEW l \in Line, Edge(l) PROVE Fresh'
  <2>1. UNCHANGED <<fdios, faulty, level, gpioState, edges>>
    BY <1>8 DEF Edge, world
  <2>2. [kind |-> "resume", line |-> l] \in Task
    BY DEF Task
  <2>3. Range(ready') = Range(ready) \cup {[kind |-> "resume", line |-> l]}
    BY <1>0, <1>8, <2>2, TaskJoins DEF Edge
  <2>4. \A k : Reads(ready, k) => Reads(ready', k)
    BY <2>3 DEF Reads
  <2>5. QED
    BY <1>0, <2>1, <2>4 DEF Fresh
<1>9. QED
  BY <1>0, <1>1, <1>2, <1>3, <1>4, <1>5, <1>6, <1>7, <1>8, StepIs

LEMMA ShownStep == GpioInv /\ Next => Shown'
<1> SUFFICES ASSUME GpioInv, Next PROVE Shown'
  OBVIOUS
<1>0. TypeOK /\ Held /\ Shown
  BY DEF GpioInv
<1>1. ASSUME UNCHANGED <<presenceMap, detectedIface, gpioState>> PROVE Shown'
  BY <1>0, <1>1 DEF Shown, isPresent, Lines
<1>2. CASE Emptied
  BY <1>2 DEF Emptied, Shown
<1>3. ASSUME NEW c \in Config, Drops(c) PROVE Shown'
  BY <1>0, <1>3 DEF Drops, Shown, isPresent, Lines
<1>4. ASSUME NEW c \in Config, NEW requested, NEW failed, Adds(c, requested, failed)
      PROVE  Shown'
  BY <1>0, <1>4 DEF Adds, Shown, isPresent, Lines
<1>5. ASSUME NEW l \in Line, Looks(l) PROVE Shown'
  <2>1. /\ DOMAIN gpioState' = DOMAIN gpioState \cup {l}
        /\ \A x \in DOMAIN gpioState \ {l} : gpioState'[x] = gpioState[x]
        /\ detectedIface' = Updated(detectedIface,
                                    {c \in presenceMap : l \in Lines(c)}, gpioState')
        /\ presenceMap' = presenceMap
    BY <1>0, <1>5, UpdateIs DEF Looks
  <2>2. ASSUME NEW c \in presenceMap, l \in Lines(c)
        PROVE  c \in detectedIface' <=> isPresent(c, gpioState')
    BY <2>1, <2>2 DEF Updated
  <2>3. ASSUME NEW c \in presenceMap, l \notin Lines(c)
        PROVE  /\ c \in detectedIface' <=> c \in detectedIface
               /\ isPresent(c, gpioState') <=> isPresent(c, gpioState)
    <3>1. c \in detectedIface' <=> c \in detectedIface
      BY <2>1, <2>3 DEF Updated
    <3>2. \A x \in Lines(c) : x \in DOMAIN gpioState' <=> x \in DOMAIN gpioState
      BY <2>1, <2>3
    <3>3. \A x \in Lines(c) : x \in DOMAIN gpioState => gpioState'[x] = gpioState[x]
      BY <2>1, <2>3
    <3>4. QED
      BY <3>1, <3>2, <3>3 DEF isPresent
  <2>4. ASSUME NEW c \in presenceMap'
        PROVE  c \in detectedIface' <=> Lines(c) # {} /\ isPresent(c, gpioState')
    <3>1. CASE l \in Lines(c)
      BY <2>1, <2>2, <3>1
    <3>2. CASE l \notin Lines(c)
      BY <1>0, <2>1, <2>3, <3>2 DEF Shown
    <3>3. QED
      BY <3>1, <3>2
  <2>5. QED
    BY <2>4 DEF Shown, isPresent, Lines
<1>6. ASSUME NEW l \in Line, GivesUp(l) \/ Toggle(l) \/ Edge(l) PROVE Shown'
  BY <1>1, <1>6 DEF GivesUp, lineState, Toggle, Edge, process
<1>7. CASE Quiet
  BY <1>1, <1>7 DEF Quiet, lineState
<1>8. QED
  BY <1>0, <1>2, <1>3, <1>4, <1>5, <1>6, <1>7, StepIs

LEMMA RequestedStep == GpioInv /\ Next => Requested'
<1> SUFFICES ASSUME GpioInv, Next PROVE Requested'
  OBVIOUS
<1>0. TypeOK /\ Held /\ Requested
  BY DEF GpioInv
<1> USE DEF Sound
<1>1. ASSUME UNCHANGED <<presenceMap, gpioLines, fdios, faulty>> PROVE Requested'
  BY <1>0, <1>1 DEF Requested, Lines
<1>2. CASE Emptied
  BY <1>2 DEF Emptied, Requested
<1>3. ASSUME NEW c \in Config, Drops(c) PROVE Requested'
  <2>1. \A o \in presenceMap \ {c} : Lines(o) \cap Released(c) = {}
    BY DEF Released, Unneeded
  <2>2. QED
    BY <1>0, <1>3, <2>1 DEF Drops, Requested, Lines
<1>4. ASSUME NEW c \in Config, NEW requested, NEW failed, Adds(c, requested, failed)
      PROVE  Requested'
  <2>1. gpioLines' \ fdios' \subseteq faulty'
    BY <1>0, <1>4 DEF Adds, Requested
  <2>2. c \in Sound => Lines(c) \subseteq fdios'
    <3>1. SUFFICES ASSUME c \in Sound, NEW l \in Lines(c) PROVE l \in fdios'
      OBVIOUS
    <3>2. failed = {} /\ l \notin faulty
      BY <1>4, <3>1 DEF Adds
    <3>3. l \in gpioLines \/ l \in requested
      BY <1>4, <3>2 DEF Adds, Untracked
    <3>4. QED
      BY <1>0, <1>4, <3>2, <3>3 DEF Adds, Requested
  <2>3. QED
    BY <1>0, <1>4, <2>1, <2>2 DEF Adds, Requested, Lines
<1>5. ASSUME NEW l \in Line, Looks(l) \/ GivesUp(l) \/ Toggle(l) \/ Edge(l)
      PROVE  Requested'
  BY <1>1, <1>5 DEF Looks, GivesUp, lineState, Toggle, Edge, process, world
<1>6. CASE Quiet
  BY <1>1, <1>6 DEF Quiet, lineState
<1>7. QED
  BY <1>0, <1>2, <1>3, <1>4, <1>5, <1>6, StepIs

LEMMA GpioInit == Init => GpioInv
<1> SUFFICES ASSUME Init PROVE GpioInv
  OBVIOUS
<1>1. TypeOK /\ Held
  BY TypeInit
<1>2. Heard /\ Fresh /\ Shown /\ Requested
  BY DEF Init, Heard, Fresh, Shown, Requested
<1>3. QED
  BY <1>1, <1>2 DEF GpioInv

LEMMA GpioStep == GpioInv /\ [Next]_vars => GpioInv'
<1> SUFFICES ASSUME GpioInv, [Next]_vars PROVE GpioInv'
  OBVIOUS
<1>1. CASE Next
  BY <1>1, TypeStep, HeldStep, HeardStep, FreshStep, ShownStep, RequestedStep DEF GpioInv
<1>2. CASE UNCHANGED vars
  BY <1>2, UnchangedLines
<1>3. QED
  BY <1>1, <1>2

\* Every variable of the daemon keeps its type; in particular no coroutine waits
\* on an fdio that was freed.
THEOREM TypeCorrect == Spec => []TypeOK
<1>1. GpioInv => TypeOK
  BY DEF GpioInv
<1>2. QED
  BY <1>1, GpioInit, GpioStep, PTL DEF Spec

\* No requested line goes deaf, however configurations that share it come and go.
THEOREM LinesAreHeard == Spec => []NeverDeaf
<1>1. GpioInv => NeverDeaf
  BY DEF GpioInv, Heard, NeverDeaf, Reads
<1>2. QED
  BY <1>1, GpioInit, GpioStep, PTL DEF Spec

\* Once everything has been handled, what is announced is what is plugged in.
THEOREM AnnouncedIsTrue == Spec => []PresenceIsTrue
<1>1. GpioInv => PresenceIsTrue
  <2> SUFFICES ASSUME GpioInv, Settled, NEW c \in presenceMap \cap Sound
               PROVE  c \in detectedIface <=> Seated(c)
    BY DEF PresenceIsTrue
  <2>1. edges = {} /\ \A l : ~Reads(ready, l)
    BY RangeShort DEF Settled, Reads
  <2>2. Lines(c) \subseteq fdios /\ Lines(c) \cap faulty = {}
    BY DEF GpioInv, Requested, Sound
  <2>3. \A l \in Lines(c) : l \in DOMAIN gpioState /\ gpioState[l] = level[l]
    BY <2>1, <2>2 DEF GpioInv, Fresh
  <2>4. isPresent(c, gpioState) <=> \A l \in Lines(c) : level[l] = Pins[c][l]
    BY <2>3 DEF isPresent
  <2>5. QED
    BY <2>4 DEF GpioInv, Shown, Seated
<1>2. QED
  BY <1>1, GpioInit, GpioStep, PTL DEF Spec

-----------------------------------------------------------------------------
(* The CBC tray parser: types *)

Values == Fields \cup {Unset}
Messages == {Message(kind, p, value) :
               kind \in {"added", "changed", "removed", "value"}, p \in Paths, value \in Values}
Known == UNION {[S -> SUBSET (Services \cup {Self})] : S \in SUBSET Paths}
Answers == [kind : {"mapper"}, about : Known]

CbcTypeOK ==
    /\ objects \in [Services -> [Paths -> Values \cup {None}]]
    /\ DOMAIN inbox = Services \cup {Mapper}
    /\ \A s \in Services : inbox[s] \in Seq(Messages)
    /\ inbox[Mapper] \in Seq(Answers)
    /\ asked \in [Services -> Seq(Paths)]
    /\ phase \in {"down", "matched", "running"}
    /\ DOMAIN cbcObjects = Paths
    /\ excused \in SUBSET Paths
    /\ cableChanges \in 0..MaxCableChanges
    /\ faults \in 0..MaxFaults

-----------------------------------------------------------------------------
(* The inductive invariant. *)

\* A daemon that is not there has nothing, and nothing is sent to it.
Down ==
    phase = "down" =>
        /\ \A q \in Services \cup {Mapper} : inbox[q] = <<>>
        /\ \A s \in Services : asked[s] = <<>>
        /\ \A p \in Paths : cbcObjects[p] = None

\* A message that says what a path is to show; one that says there is a cartridge
\* to ask for.
Says(m, p) ==
    p \in DOMAIN m.about /\ (m.kind \in {"changed", "removed"} \/ m.about[p] # Unset)
Calls(m, p) == p \in DOMAIN m.about /\ m.kind = "added" /\ m.about[p] = Unset

\* What is shown for a value.
ShownFor(value) == IF value # None /\ parseTrayTopology(value) THEN Numbers(value) ELSE None

\* What is shown for a message.
Shows(m, p) == IF m.kind = "removed" THEN None ELSE ShownFor(m.about[p])

Saying(queue, p) == {i \in DOMAIN queue : Says(queue[i], p)}

\* What a path shows once all messages that say something are handled.
WillShow(queue, p, shown, v) ==
    \/ Saying(queue, p) = {} /\ v = shown
    \/ \E i \in Saying(queue, p) :
          /\ \A j \in Saying(queue, p) : j <= i
          /\ v = Shows(queue[i], p)

Sent(queue, p) == \E i \in DOMAIN queue : Says(queue[i], p) \/ Calls(queue[i], p)
Called(queue, p) == \E i \in DOMAIN queue : Calls(queue[i], p)

\* The mapper's answer has this service, and no other but the daemon, at a path.
Lists(m, s, p) == p \in DOMAIN m.about /\ OtherServices(m.about[p]) = {s}
Listed(queue, s, p) == \E i \in DOMAIN queue : Lists(queue[i], s, p)

\* A service has a cartridge at a path, or had one the daemon has not handled yet.
Concerned(s, p) == objects[s][p] # None \/ Sent(inbox[s], p)

\* The service is going to be asked for the field it has.
Asking(s, p) ==
    /\ objects[s][p] \in Fields
    /\ \/ phase = "matched"
       \/ Called(inbox[s], p)
       \/ Listed(inbox[Mapper], s, p)
       \/ p \in Range(asked[s])

\* A path will show what the service has; or nothing, until that is asked for.
ToldRight(s, p) ==
    \/ WillShow(inbox[s], p, cbcObjects[p], ShownFor(objects[s][p]))
    \/ WillShow(inbox[s], p, cbcObjects[p], None) /\ Asking(s, p)

OneConcerned(p) ==
    \A s, t \in Services : Concerned(s, p) /\ Concerned(t, p) => s = t

Told(p) ==
    /\ \A s \in Services : Concerned(s, p) => ToldRight(s, p)
    /\ (\A s \in Services : ~Concerned(s, p)) => cbcObjects[p] = None

Right == phase # "down" => \A p \in Paths \ excused : OneConcerned(p) /\ Told(p)

CbcInv == CbcTypeOK /\ Down /\ Right

-----------------------------------------------------------------------------
(* Queues. *)

\* One more message at the end: it is the last that says something, or says nothing.
LEMMA MessageJoins ==
    ASSUME NEW S, NEW queue \in Seq(S), NEW m \in S, NEW p
    PROVE  LET longer == Append(queue, m)
           IN  /\ longer \in Seq(S)
               /\ Sent(longer, p) <=> Sent(queue, p) \/ Says(m, p) \/ Calls(m, p)
               /\ Called(queue, p) \/ Calls(m, p) => Called(longer, p)
               /\ Says(m, p) => \A shown : WillShow(longer, p, shown, Shows(m, p))
               /\ ~Says(m, p) => \A shown, v :
                     WillShow(queue, p, shown, v) => WillShow(longer, p, shown, v)
<1> DEFINE longer == Append(queue, m)
           n == Len(queue)
<1>1. /\ n \in Nat /\ longer \in Seq(S) /\ DOMAIN queue = 1..n /\ DOMAIN longer = 1..n + 1
      /\ \A i \in 1..n : longer[i] = queue[i]
      /\ longer[n + 1] = m
      /\ \A i \in DOMAIN longer : i \in 1..n \/ i = n + 1
  BY AppendAt, AppendProperties, LenProperties
<1>2. n + 1 \in 1..n + 1 /\ 1..n \subseteq 1..n + 1
  BY <1>1
<1> HIDE DEF longer, n
<1>3. Sent(longer, p) <=> Sent(queue, p) \/ Says(m, p) \/ Calls(m, p)
  BY <1>1, <1>2 DEF Sent
<1>4. Called(queue, p) \/ Calls(m, p) => Called(longer, p)
  BY <1>1, <1>2 DEF Called
<1>5. \A i : i \in Saying(longer, p) <=> (i \in Saying(queue, p) \/ (i = n + 1 /\ Says(m, p)))
  BY <1>1, <1>2 DEF Saying
<1>6. ASSUME Says(m, p), NEW shown PROVE WillShow(longer, p, shown, Shows(m, p))
  <2>1. n + 1 \in Saying(longer, p)
    BY <1>5, <1>6
  <2>2. \A j \in Saying(longer, p) : j <= n + 1
    BY <1>1 DEF Saying
  <2>3. QED
    BY <1>1, <2>1, <2>2 DEF WillShow
<1>7. ASSUME ~Says(m, p), NEW shown, NEW v, WillShow(queue, p, shown, v)
      PROVE  WillShow(longer, p, shown, v)
  <2>1. Saying(longer, p) = Saying(queue, p)
    BY <1>5, <1>7
  <2>2. \A i \in Saying(queue, p) : longer[i] = queue[i]
    BY <1>1 DEF Saying
  <2>3. QED
    BY <1>7, <2>1, <2>2 DEF WillShow
<1>8. QED
  BY <1>1, <1>3, <1>4, <1>6, <1>7 DEF longer

\* The first message is taken: what it says is shown then.
LEMMA MessageTaken ==
    ASSUME NEW S, NEW queue \in Seq(S), queue # <<>>, NEW p
    PROVE  LET m == Head(queue)
               rest == Tail(queue)
           IN  /\ rest \in Seq(S) /\ m \in S
               /\ Sent(rest, p) => Sent(queue, p)
               /\ Says(m, p) \/ Calls(m, p) => Sent(queue, p)
               /\ Called(queue, p) /\ ~Calls(m, p) => Called(rest, p)
               /\ Says(m, p) => \A shown, v :
                     WillShow(queue, p, shown, v) => WillShow(rest, p, Shows(m, p), v)
               /\ ~Says(m, p) => \A shown, v :
                     WillShow(queue, p, shown, v) => WillShow(rest, p, shown, v)
<1> DEFINE m == Head(queue)
           rest == Tail(queue)
           n == Len(queue)
<1>1. /\ n \in Nat /\ 1 \in 1..n /\ m = queue[1] /\ m \in S
      /\ rest \in Seq(S) /\ DOMAIN queue = 1..n /\ DOMAIN rest = 1..n - 1
      /\ \A i \in 1..n - 1 : i + 1 \in 1..n /\ rest[i] = queue[i + 1]
  BY TailAt, HeadTailProperties, LenProperties
<1>2. \A i \in 1..n : i # 1 => i - 1 \in 1..n - 1 /\ queue[i] = rest[i - 1]
  <2> HIDE DEF n, rest
  <2> SUFFICES ASSUME NEW i \in 1..n, i # 1
               PROVE  i - 1 \in 1..n - 1 /\ queue[i] = rest[i - 1]
    OBVIOUS
  <2>1. i - 1 \in 1..n - 1 /\ (i - 1) + 1 = i
    BY <1>1
  <2>2. QED
    BY <1>1, <2>1
<1> HIDE DEF m, rest, n
<1>3. /\ Sent(rest, p) => Sent(queue, p)
      /\ Says(m, p) \/ Calls(m, p) => Sent(queue, p)
  BY <1>1 DEF Sent
<1>4. Called(queue, p) /\ ~Calls(m, p) => Called(rest, p)
  BY <1>1, <1>2 DEF Called
<1>5. /\ \A i \in Saying(rest, p) : i \in Nat /\ i + 1 \in Saying(queue, p)
      /\ \A i \in Saying(queue, p) : i \in Nat
      /\ \A i \in Saying(queue, p) : i # 1 => i - 1 \in Saying(rest, p) /\ queue[i] = rest[i - 1]
      /\ 1 \in Saying(queue, p) <=> Says(m, p)
  BY <1>1, <1>2 DEF Saying
<1>6. ASSUME NEW i \in Saying(queue, p), \A j \in Saying(queue, p) : j <= i, i # 1,
             NEW shown, NEW v, v = Shows(queue[i], p)
      PROVE  WillShow(rest, p, shown, v)
  <2>1. i - 1 \in Saying(rest, p) /\ queue[i] = rest[i - 1] /\ i \in Nat
    BY <1>5, <1>6
  <2>2. ASSUME NEW j \in Saying(rest, p) PROVE j <= i - 1
    <3>1. j \in Nat /\ j + 1 \in Saying(queue, p)
      BY <1>5
    <3>2. j + 1 <= i
      BY <1>6, <3>1
    <3>3. QED
      BY <2>1, <3>1, <3>2
  <2>3. QED
    BY <1>6, <2>1, <2>2 DEF WillShow
<1>7. ASSUME 1 \in Saying(queue, p), \A j \in Saying(queue, p) : j <= 1
      PROVE  Saying(rest, p) = {}
  <2>1. ASSUME NEW j \in Saying(rest, p) PROVE FALSE
    <3>1. j + 1 \in Saying(queue, p) /\ j \in Nat /\ j \in DOMAIN rest
      BY <1>5 DEF Saying
    <3>2. j + 1 <= 1 /\ 1 <= j
      BY <1>1, <1>7, <3>1
    <3>3. QED
      BY <3>1, <3>2
  <2>2. QED
    BY <2>1
<1>8. ASSUME Says(m, p), NEW shown, NEW v, WillShow(queue, p, shown, v)
      PROVE  WillShow(rest, p, Shows(m, p), v)
  <2>1. PICK i \in Saying(queue, p) : /\ \A j \in Saying(queue, p) : j <= i
                                      /\ v = Shows(queue[i], p)
    BY <1>5, <1>8 DEF WillShow
  <2>2. CASE i # 1
    BY <1>6, <2>1, <2>2
  <2>3. CASE i = 1
    BY <1>1, <1>7, <2>1, <2>3 DEF WillShow
  <2>4. QED
    BY <2>2, <2>3
<1>9. ASSUME ~Says(m, p), NEW shown, NEW v, WillShow(queue, p, shown, v)
      PROVE  WillShow(rest, p, shown, v)
  <2>1. CASE Saying(queue, p) = {} /\ v = shown
    <3>1. Saying(rest, p) = {}
      BY <1>5, <2>1
    <3>2. QED
      BY <2>1, <3>1 DEF WillShow
  <2>2. CASE \E i \in Saying(queue, p) : /\ \A j \in Saying(queue, p) : j <= i
                                         /\ v = Shows(queue[i], p)
    BY <1>5, <1>6, <1>9, <2>2
  <2>3. QED
    BY <1>9, <2>1, <2>2 DEF WillShow
<1>10. QED
  BY <1>1, <1>3, <1>4, <1>8, <1>9 DEF m, rest

\* Where no message says anything, what is shown stays.
LEMMA NothingSaid ==
    ASSUME NEW queue, NEW p, ~Sent(queue, p)
    PROVE  \A shown, v : WillShow(queue, p, shown, v) <=> v = shown
<1>1. Saying(queue, p) = {}
  BY DEF Sent, Saying
<1>2. QED
  BY <1>1 DEF WillShow

-----------------------------------------------------------------------------
(* What a step has to do for a path to stay told. *)

\* A message is about one path.
LEMMA MessageIs ==
    ASSUME NEW kind \in {"added", "changed", "removed", "value"}, NEW p \in Paths, NEW v \in Values
    PROVE  LET m == Message(kind, p, v)
           IN  /\ m \in Messages /\ m.kind = kind
               /\ DOMAIN m.about = {p} /\ m.about[p] = v
               /\ \A q : q # p => ~Says(m, q) /\ ~Calls(m, q)
               /\ Says(m, p) <=> kind \in {"changed", "removed"} \/ v # Unset
               /\ Shows(m, p) = IF kind = "removed" THEN None ELSE ShownFor(v)
               /\ Calls(m, p) <=> kind = "added" /\ v = Unset
<1> DEFINE m == Message(kind, p, v)
<1>1. m \in Messages
  BY DEF Messages
<1>2. m.kind = kind /\ DOMAIN m.about = {p} /\ m.about[p] = v
  BY DEF Message
<1> HIDE DEF m
<1>3. QED
  BY <1>1, <1>2 DEF m, Says, Calls, Shows

LEMMA MessagesAre ==
    ASSUME NEW m \in Messages
    PROVE  \E p \in Paths : /\ DOMAIN m.about = {p} /\ m.about[p] \in Values
                            /\ \A q : q # p => ~Says(m, q) /\ ~Calls(m, q)
<1>1. PICK kind \in {"added", "changed", "removed", "value"}, p \in Paths, v \in Values :
         m = Message(kind, p, v)
  BY DEF Messages
<1>2. QED
  BY <1>1, MessageIs

\* No cartridge, and no numbers, are nothing to show.
LEMMA NothingToShow == ShownFor(None) = None /\ ShownFor(Unset) = None
BY DEF ShownFor, parseTrayTopology

\* Nothing is heard of it.
LEMMA Carry ==
    ASSUME CbcInv, phase # "down", NEW p \in Paths \ excused,
           \A s \in Services :
               /\ objects'[s][p] = objects[s][p]
               /\ Sent(inbox'[s], p) => Sent(inbox[s], p)
               /\ Concerned(s, p) => \A v : WillShow(inbox[s], p, cbcObjects[p], v) =>
                                                WillShow(inbox'[s], p, cbcObjects'[p], v)
               /\ Asking(s, p) => Asking(s, p)',
           cbcObjects'[p] = cbcObjects[p] \/ \E s \in Services : Sent(inbox[s], p)
    PROVE  OneConcerned(p)' /\ Told(p)'
<1>1. \A s \in Services : Concerned(s, p)' => Concerned(s, p)
  BY DEF Concerned
<1>2. OneConcerned(p) /\ Told(p)
  BY DEF CbcInv, Right
<1>3. OneConcerned(p)'
  BY <1>1, <1>2 DEF OneConcerned
<1>4. ASSUME NEW s \in Services, Concerned(s, p)' PROVE ToldRight(s, p)'
  <2>1. ToldRight(s, p)
    BY <1>1, <1>2, <1>4 DEF Told
  <2>2. QED
    BY <1>1, <1>4, <2>1 DEF ToldRight
<1>5. ASSUME \A s \in Services : ~Concerned(s, p)' PROVE cbcObjects'[p] = None
  <2>1. CASE \A s \in Services : ~Concerned(s, p)
    BY <1>2, <2>1 DEF Told, Concerned
  <2>2. CASE \E s \in Services : Concerned(s, p)
    <3>1. PICK s \in Services : Concerned(s, p)
      BY <2>2
    <3>2. objects[s][p] = None /\ ~Sent(inbox'[s], p)
      BY <1>5 DEF Concerned
    <3>3. WillShow(inbox[s], p, cbcObjects[p], None)
      BY <1>2, <3>1, <3>2, NothingToShow DEF Told, ToldRight
    <3>4. WillShow(inbox'[s], p, cbcObjects'[p], None)
      BY <3>1, <3>3
    <3>5. QED
      BY <3>2, <3>4, NothingSaid
  <2>3. QED
    BY <2>1, <2>2
<1>6. QED
  BY <1>3, <1>4, <1>5 DEF Told

\* The only service concerned says what there is.
LEMMA Tells ==
    ASSUME CbcInv, phase # "down", NEW p \in Paths \ excused,
           NEW s \in Services, NEW m \in Messages, Says(m, p),
           inbox' = [inbox EXCEPT ![s] = Append(@, m)], UNCHANGED cbcObjects,
           Shows(m, p) = ShownFor(objects'[s][p]),
           \A t \in Services \ {s} : ~Concerned(t, p) /\ objects'[t][p] = objects[t][p]
    PROVE  OneConcerned(p)' /\ Told(p)'
<1>1. /\ inbox'[s] = Append(inbox[s], m) /\ inbox[s] \in Seq(Messages)
      /\ \A t \in Services \ {s} : inbox'[t] = inbox[t]
  BY DEF CbcInv, CbcTypeOK
<1>2. /\ Sent(inbox'[s], p)
      /\ WillShow(inbox'[s], p, cbcObjects'[p], ShownFor(objects'[s][p]))
  <2> DEFINE longer == Append(inbox[s], m)
  <2>1. /\ Sent(longer, p)
        /\ \A shown : WillShow(longer, p, shown, Shows(m, p))
    BY <1>1, MessageJoins
  <2> HIDE DEF longer
  <2>2. inbox'[s] = longer
    BY <1>1 DEF longer
  <2>3. QED
    BY <2>1, <2>2
<1>3. \A t \in Services \ {s} : ~Concerned(t, p)'
  BY <1>1 DEF Concerned
<1>4. Concerned(s, p)' /\ ToldRight(s, p)'
  BY <1>2 DEF Concerned, ToldRight
<1>5. QED
  BY <1>3, <1>4 DEF OneConcerned, Told

\* The only service concerned has a cartridge the daemon is to ask for.
LEMMA ToldToAsk ==
    ASSUME CbcInv, phase # "down", phase' = phase, NEW p \in Paths \ excused,
           NEW s \in Services, NEW m \in Messages, Calls(m, p),
           inbox' = [inbox EXCEPT ![s] = Append(@, m)], UNCHANGED cbcObjects,
           objects[s][p] = None, objects'[s][p] \in Values,
           \A t \in Services \ {s} : ~Concerned(t, p) /\ objects'[t][p] = objects[t][p]
    PROVE  OneConcerned(p)' /\ Told(p)'
<1>1. /\ inbox'[s] = Append(inbox[s], m) /\ inbox[s] \in Seq(Messages)
      /\ \A t \in Services \ {s} : inbox'[t] = inbox[t]
  BY DEF CbcInv, CbcTypeOK
<1>2. OneConcerned(p) /\ Told(p) /\ ~Says(m, p)
  BY DEF CbcInv, Right, Says, Calls
<1>3. WillShow(inbox[s], p, cbcObjects[p], None)
  <2>1. CASE Concerned(s, p)
    BY <1>2, <2>1, NothingToShow DEF Told, ToldRight
  <2>2. CASE ~Concerned(s, p)
    <3>1. cbcObjects[p] = None
      BY <1>2, <2>2 DEF Told
    <3>2. QED
      BY <2>2, <3>1, NothingSaid DEF Concerned
  <2>3. QED
    BY <2>1, <2>2
<1>4. /\ Called(inbox'[s], p) /\ Sent(inbox'[s], p)
      /\ WillShow(inbox'[s], p, cbcObjects'[p], None)
  BY <1>1, <1>2, <1>3, MessageJoins
<1>5. \A t \in Services \ {s} : ~Concerned(t, p)'
  BY <1>1 DEF Concerned
<1>6. Concerned(s, p)' /\ ToldRight(s, p)'
  <2>1. CASE objects'[s][p] = Unset
    BY <1>4, <2>1, NothingToShow DEF Concerned, ToldRight
  <2>2. CASE objects'[s][p] \in Fields
    BY <1>4, <2>2 DEF Concerned, ToldRight, Asking
  <2>3. QED
    BY <2>1, <2>2 DEF Values
<1>7. QED
  BY <1>5, <1>6 DEF OneConcerned, Told

\* A message that says nothing of a path, and calls for nothing, changes nothing of it.
LEMMA Elsewhere ==
    ASSUME CbcInv, phase # "down", phase' = phase, NEW q \in Paths \ excused,
           NEW s \in Services, NEW m \in Messages, ~Says(m, q), ~Calls(m, q),
           inbox' = [inbox EXCEPT ![s] = Append(@, m)], UNCHANGED cbcObjects,
           \A t \in Services :
               /\ objects'[t][q] = objects[t][q]
               /\ q \in Range(asked[t]) /\ objects[t][q] \in Fields => q \in Range(asked'[t])
    PROVE  OneConcerned(q)' /\ Told(q)'
<1>1. /\ inbox'[s] = Append(inbox[s], m) /\ inbox[s] \in Seq(Messages)
      /\ \A o \in Services \cup {Mapper} : o # s => inbox'[o] = inbox[o]
      /\ Mapper # s
  BY SendersAssumption DEF CbcInv, CbcTypeOK
<1> DEFINE longer == Append(inbox[s], m)
<1>2. /\ Sent(longer, q) => Sent(inbox[s], q)
      /\ Called(inbox[s], q) => Called(longer, q)
      /\ \A shown, v : WillShow(inbox[s], q, shown, v) => WillShow(longer, q, shown, v)
  BY <1>1, MessageJoins
<1> HIDE DEF longer
<1>3. inbox'[s] = longer
  BY <1>1 DEF longer
<1>4. ASSUME NEW t \in Services
      PROVE  /\ objects'[t][q] = objects[t][q]
             /\ Sent(inbox'[t], q) => Sent(inbox[t], q)
             /\ \A v : WillShow(inbox[t], q, cbcObjects[q], v) =>
                          WillShow(inbox'[t], q, cbcObjects'[q], v)
             /\ Asking(t, q) => Asking(t, q)'
  <2>1. /\ Sent(inbox'[t], q) => Sent(inbox[t], q)
        /\ Called(inbox[t], q) => Called(inbox'[t], q)
        /\ \A v : WillShow(inbox[t], q, cbcObjects[q], v) =>
                     WillShow(inbox'[t], q, cbcObjects'[q], v)
    BY <1>1, <1>2, <1>3
  <2>2. Asking(t, q) => Asking(t, q)'
    BY <1>1, <2>1 DEF Asking
  <2>3. QED
    BY <2>1, <2>2
<1>5. QED
  BY <1>4, Carry

-----------------------------------------------------------------------------
(* The services. *)

\* A cartridge comes, changes or goes, and what is said of it reaches the daemon.
LEMMA ChangeStep ==
    ASSUME CbcInv, NEW s \in Services, NEW p \in Paths, NEW value \in Values \cup {None},
           Change(s, p, value),
           NEW kind \in {"added", "changed", "removed"}, NEW told \in Values,
           Emit(s, Message(kind, p, told)),
           excused \subseteq excused', excused' \subseteq Paths,
           phase # "down" /\ p \notin excused' => OneConcerned(p)' /\ Told(p)'
    PROVE  CbcInv'
<1> DEFINE m == Message(kind, p, told)
<1>1. /\ cableChanges < MaxCableChanges /\ cableChanges' = cableChanges + 1
      /\ objects' = [objects EXCEPT ![s][p] = value]
      /\ UNCHANGED <<asked, phase, cbcObjects, faults>>
  BY DEF Change
<1>2. m \in Messages /\ \A q : q # p => ~Says(m, q) /\ ~Calls(m, q)
  BY MessageIs
<1> HIDE DEF m
<1>3. IF phase # "down" THEN inbox' = [inbox EXCEPT ![s] = Append(@, m)] ELSE inbox' = inbox
  BY DEF Emit, Listening, m
<1>4. /\ DOMAIN inbox' = DOMAIN inbox
      /\ \A t \in Services : inbox'[t] \in Seq(Messages)
      /\ inbox'[Mapper] = inbox[Mapper]
  <2>1. inbox[s] \in Seq(Messages) => Append(inbox[s], m) \in Seq(Messages)
    BY <1>2, AppendProperties
  <2>2. QED
    BY <1>3, <2>1, SendersAssumption DEF CbcInv, CbcTypeOK
<1>5. objects' \in [Services -> [Paths -> Values \cup {None}]]
  BY <1>1 DEF CbcInv, CbcTypeOK
<1>6. CbcTypeOK'
  BY <1>1, <1>4, <1>5, BoundsAssumption DEF CbcInv, CbcTypeOK
<1>7. Down'
  BY <1>1, <1>3 DEF CbcInv, Down
<1>8. Right'
  <2> SUFFICES ASSUME phase # "down", NEW q \in Paths \ excused'
               PROVE  OneConcerned(q)' /\ Told(q)'
    BY <1>1 DEF Right
  <2>1. CASE q # p
    <3>1. \A t \in Services : objects'[t][q] = objects[t][q]
      BY <1>1, <2>1 DEF CbcInv, CbcTypeOK
    <3>2. q \in Paths \ excused
      OBVIOUS
    <3>3. QED
      BY <1>1, <1>2, <1>3, <2>1, <3>1, <3>2, Elsewhere
  <2>2. QED
    BY <2>1
<1>9. QED
  BY <1>6, <1>7, <1>8 DEF CbcInv

LEMMA AppearsStep ==
    ASSUME CbcInv, NEW s \in Services, NEW p \in Paths, Appears(s, p) PROVE CbcInv'
<1>1. PICK field \in Fields \cup {Unset}, told \in BOOLEAN :
         /\ objects[s][p] = None
         /\ Change(s, p, field)
         /\ Emit(s, Message("added", p, IF told THEN field ELSE Unset))
         /\ Excuse(IF Contested(s, p) THEN {p} ELSE {})
  BY DEF Appears
<1> DEFINE value == IF told THEN field ELSE Unset
           m == Message("added", p, value)
<1>2. field \in Values /\ value \in Values
  BY DEF Values
<1>3. /\ m \in Messages /\ Shows(m, p) = ShownFor(value)
      /\ Says(m, p) <=> value # Unset
      /\ Calls(m, p) <=> value = Unset
  <2> HIDE DEF value
  <2>1. QED
    BY <1>2, MessageIs
<1>4. /\ objects' = [objects EXCEPT ![s][p] = field]
      /\ UNCHANGED <<asked, phase, cbcObjects, faults>>
  BY <1>1 DEF Change
<1>5. /\ objects'[s][p] = field
      /\ \A t \in Services \ {s} : objects'[t][p] = objects[t][p]
  BY <1>4 DEF CbcInv, CbcTypeOK
<1>6. excused \subseteq excused' /\ excused' \subseteq Paths
  BY <1>1 DEF Excuse, CbcInv, CbcTypeOK
<1>7. ASSUME phase # "down", p \notin excused' PROVE OneConcerned(p)' /\ Told(p)'
  <2>1. ~Contested(s, p)
    BY <1>1, <1>7 DEF Excuse
  <2>2. \A t \in Services \ {s} : ~Concerned(t, p)
    BY <2>1 DEF Contested, Concerned, About, Sent, Says, Calls
  <2> HIDE DEF value, m
  <2>3. inbox' = [inbox EXCEPT ![s] = Append(@, m)]
    BY <1>1, <1>7 DEF Emit, Listening, m, value
  <2>4. p \in Paths \ excused
    BY <1>6, <1>7
  <2>5. CASE value = Unset
    BY <1>1, <1>2, <1>3, <1>4, <1>5, <1>7, <2>2, <2>3, <2>4, <2>5, ToldToAsk
  <2>6. CASE value # Unset
    <3>1. value = field
      BY <2>6 DEF value
    <3>2. Shows(m, p) = ShownFor(objects'[s][p])
      BY <1>3, <1>5, <3>1
    <3>3. QED
      BY <1>3, <1>4, <1>5, <1>7, <2>2, <2>3, <2>4, <2>6, <3>2, Tells
  <2>7. QED
    BY <2>5, <2>6
<1>8. QED
  <2> HIDE DEF value
  <2>1. Emit(s, Message("added", p, value))
    BY <1>1 DEF value
  <2>2. QED
    BY <1>1, <1>2, <1>6, <1>7, <2>1, ChangeStep

\* A service with a cartridge is the only one concerned.
LEMMA HasItAlone ==
    ASSUME CbcInv, phase # "down", NEW p \in Paths \ excused,
           NEW s \in Services, objects[s][p] # None
    PROVE  \A t \in Services \ {s} : ~Concerned(t, p)
<1>1. OneConcerned(p) /\ Concerned(s, p)
  BY DEF CbcInv, Right, Concerned
<1>2. QED
  BY <1>1 DEF OneConcerned

LEMMA FieldChangesStep ==
    ASSUME CbcInv, NEW s \in Services, NEW p \in Paths, FieldChanges(s, p) PROVE CbcInv'
<1>1. PICK field \in Fields \ {objects[s][p]} :
         /\ objects[s][p] # None
         /\ Change(s, p, field)
         /\ Emit(s, Message("changed", p, field))
         /\ UNCHANGED excused
  BY DEF FieldChanges
<1> DEFINE m == Message("changed", p, field)
<1>2. field \in Values /\ field # Unset
  BY ValuesAssumption DEF Values
<1>3. m \in Messages /\ Shows(m, p) = ShownFor(field) /\ Says(m, p)
  BY <1>2, MessageIs
<1>4. /\ UNCHANGED cbcObjects /\ objects'[s][p] = field
      /\ \A t \in Services \ {s} : objects'[t][p] = objects[t][p]
  BY <1>1 DEF Change, CbcInv, CbcTypeOK
<1>5. ASSUME phase # "down", p \notin excused' PROVE OneConcerned(p)' /\ Told(p)'
  <2> HIDE DEF m
  <2>1. inbox' = [inbox EXCEPT ![s] = Append(@, m)]
    BY <1>1, <1>5 DEF Emit, Listening, m
  <2>2. \A t \in Services \ {s} : ~Concerned(t, p)
    BY <1>1, <1>5, HasItAlone
  <2>3. p \in Paths \ excused /\ Shows(m, p) = ShownFor(objects'[s][p])
    BY <1>1, <1>3, <1>4, <1>5
  <2>4. QED
    BY <1>3, <1>4, <1>5, <2>1, <2>2, <2>3, Tells
<1>6. excused \subseteq excused' /\ excused' \subseteq Paths
  BY <1>1 DEF CbcInv, CbcTypeOK
<1>7. QED
  BY <1>1, <1>2, <1>5, <1>6, ChangeStep

LEMMA VanishesStep ==
    ASSUME CbcInv, NEW s \in Services, NEW p \in Paths, Vanishes(s, p) PROVE CbcInv'
<1> DEFINE m == Message("removed", p, Unset)
<1>1. /\ objects[s][p] # None /\ Change(s, p, None) /\ Emit(s, m) /\ UNCHANGED excused
  BY DEF Vanishes
<1>2. Unset \in Values
  BY DEF Values
<1>3. m \in Messages /\ Shows(m, p) = None /\ Says(m, p)
  BY <1>2, MessageIs
<1>4. /\ UNCHANGED cbcObjects /\ objects'[s][p] = None
      /\ \A t \in Services \ {s} : objects'[t][p] = objects[t][p]
  BY <1>1 DEF Change, CbcInv, CbcTypeOK
<1>5. ASSUME phase # "down", p \notin excused' PROVE OneConcerned(p)' /\ Told(p)'
  <2> HIDE DEF m
  <2>1. inbox' = [inbox EXCEPT ![s] = Append(@, m)]
    BY <1>1, <1>5 DEF Emit, Listening
  <2>2. \A t \in Services \ {s} : ~Concerned(t, p)
    BY <1>1, <1>5, HasItAlone
  <2>3. p \in Paths \ excused /\ Shows(m, p) = ShownFor(objects'[s][p])
    BY <1>1, <1>3, <1>4, <1>5, NothingToShow
  <2>4. QED
    BY <1>3, <1>4, <1>5, <2>1, <2>2, <2>3, Tells
<1>6. excused \subseteq excused' /\ excused' \subseteq Paths
  BY <1>1 DEF CbcInv, CbcTypeOK
<1>7. QED
  BY <1>1, <1>2, <1>5, <1>6, ChangeStep

\* Whoever is asked has the cartridge, says so, and is the only one concerned; or has
\* none and says nothing.
LEMMA AnswersGetStep ==
    ASSUME CbcInv, NEW s \in Services, AnswersGet(s) PROVE CbcInv'
<1> DEFINE p == Head(asked[s])
<1>1. PICK value \in Values :
         /\ inbox' = [inbox EXCEPT ![s] = Append(@, Message("value", p, value))]
         /\ \/ /\ value = IF objects[s][p] = None THEN Unset ELSE objects[s][p]
               /\ UNCHANGED <<excused, faults>>
            \/ /\ value = Unset
               /\ Fault
               /\ Excuse({p})
  <2>1. p \in Paths
    BY HeadAndTail DEF AnswersGet, CbcInv, CbcTypeOK
  <2>2. objects[s][p] \in Values \cup {None} /\ Unset \in Values
    BY <2>1 DEF CbcInv, CbcTypeOK, Values
  <2> HIDE DEF p
  <2>3. CASE /\ inbox' = [inbox EXCEPT ![s] =
                    Append(@, Message("value", p, IF objects[s][p] = None THEN Unset ELSE objects[s][p]))]
             /\ UNCHANGED <<excused, faults>>
    BY <2>2, <2>3
  <2>4. CASE /\ inbox' = [inbox EXCEPT ![s] = Append(@, Message("value", p, Unset))]
             /\ Fault /\ Excuse({p})
    BY <2>2, <2>4
  <2>5. QED
    BY <2>3, <2>4 DEF AnswersGet, p
<1>2. /\ asked[s] # <<>> /\ asked' = [asked EXCEPT ![s] = Tail(@)]
      /\ UNCHANGED <<objects, cableChanges, phase, cbcObjects>>
  BY DEF AnswersGet, cables
<1>3. /\ p \in Paths /\ Tail(asked[s]) \in Seq(Paths)
      /\ Range(asked[s]) = {p} \cup Range(Tail(asked[s]))
  BY <1>2, HeadAndTail DEF CbcInv, CbcTypeOK
<1> DEFINE m == Message("value", p, value)
<1>4. /\ m \in Messages /\ Shows(m, p) = ShownFor(value) /\ ~Calls(m, p)
      /\ Says(m, p) <=> value # Unset
      /\ \A q : q # p => ~Says(m, q) /\ ~Calls(m, q)
  <2> HIDE DEF p
  <2>1. QED
    BY <1>3, MessageIs
<1>5. inbox' = [inbox EXCEPT ![s] = Append(@, m)]
  BY <1>1
<1> HIDE DEF p, m
<1>6. \A q \in Paths, t \in Services : q # p /\ q \in Range(asked[t]) => q \in Range(asked'[t])
  BY <1>2, <1>3 DEF CbcInv, CbcTypeOK
<1>7. excused \subseteq excused' /\ excused' \subseteq Paths /\ faults' \in 0..MaxFaults
  BY <1>1, <1>3, BoundsAssumption DEF Excuse, Fault, CbcInv, CbcTypeOK
<1>8. CbcTypeOK'
  <2>1. Append(inbox[s], m) \in Seq(Messages)
    BY <1>4, AppendProperties DEF CbcInv, CbcTypeOK
  <2>2. /\ DOMAIN inbox' = DOMAIN inbox
        /\ \A t \in Services : inbox'[t] \in Seq(Messages)
        /\ inbox'[Mapper] = inbox[Mapper]
    BY <1>5, <2>1, SendersAssumption DEF CbcInv, CbcTypeOK
  <2>3. asked' \in [Services -> Seq(Paths)]
    BY <1>2, <1>3 DEF CbcInv, CbcTypeOK
  <2>4. QED
    BY <1>2, <1>7, <2>2, <2>3 DEF CbcInv, CbcTypeOK
<1>9. phase # "down"
  BY <1>2 DEF CbcInv, Down
<1>10. ASSUME NEW q \in Paths \ excused' PROVE OneConcerned(q)' /\ Told(q)'
  <2>1. q \in Paths \ excused
    BY <1>7
  <2>2. CASE q # p
    <3>1. \A t \in Services :
             /\ objects'[t][q] = objects[t][q]
             /\ q \in Range(asked[t]) /\ objects[t][q] \in Fields => q \in Range(asked'[t])
      BY <1>2, <1>6, <2>2
    <3>2. QED
      BY <1>2, <1>4, <1>5, <1>9, <2>1, <2>2, <3>1, Elsewhere
  <2>3. CASE q = p
    <3>1. value = IF objects[s][p] = None THEN Unset ELSE objects[s][p]
      BY <1>1, <1>10, <2>3 DEF Excuse
    <3>2. CASE value = Unset
      <4>1. objects[s][p] \notin Fields
        BY <3>1, <3>2, ValuesAssumption
      <4>2. \A t \in Services :
               /\ objects'[t][q] = objects[t][q]
               /\ q \in Range(asked[t]) /\ objects[t][q] \in Fields => q \in Range(asked'[t])
        BY <1>2, <2>3, <4>1 DEF CbcInv, CbcTypeOK
      <4>3. QED
        BY <1>2, <1>4, <1>5, <1>9, <2>1, <2>3, <3>2, <4>2, Elsewhere
    <3>3. CASE value # Unset
      <4>1. objects[s][p] # None /\ value = objects[s][p]
        BY <3>1, <3>3
      <4>2. \A t \in Services \ {s} : ~Concerned(t, p)
        BY <1>9, <2>1, <2>3, <4>1, HasItAlone
      <4>3. Shows(m, p) = ShownFor(objects'[s][p]) /\ Says(m, p) /\ UNCHANGED cbcObjects
        BY <1>2, <1>4, <3>3, <4>1
      <4>4. \A t \in Services \ {s} : ~Concerned(t, p) /\ objects'[t][p] = objects[t][p]
        BY <1>2, <4>2
      <4>5. QED
        BY <1>4, <1>5, <1>9, <2>1, <2>3, <4>3, <4>4, Tells
    <3>4. QED
      BY <3>2, <3>3
  <2>4. QED
    BY <2>2, <2>3
<1>11. Down' /\ Right'
  BY <1>2, <1>9, <1>10 DEF Down, Right
<1>12. QED
  BY <1>8, <1>11 DEF CbcInv

\* Messages that say nothing join.
LEMMA NothingJoins ==
    ASSUME NEW S, NEW queue \in Seq(S), NEW more \in Seq(S), NEW p,
           \A i \in DOMAIN more : ~Says(more[i], p) /\ ~Calls(more[i], p)
    PROVE  LET longer == queue \o more
           IN  /\ longer \in Seq(S)
               /\ Sent(longer, p) => Sent(queue, p)
               /\ Called(queue, p) => Called(longer, p)
               /\ \A shown, v : WillShow(queue, p, shown, v) => WillShow(longer, p, shown, v)
<1> DEFINE longer == queue \o more
           n == Len(queue)
<1>1. /\ n \in Nat /\ longer \in Seq(S) /\ DOMAIN queue = 1..n
      /\ 1..n \subseteq DOMAIN longer
      /\ \A i \in 1..n : longer[i] = queue[i]
      /\ \A i \in DOMAIN longer : i \in 1..n \/ \E j \in DOMAIN more : longer[i] = more[j]
  <2>1. /\ n \in Nat /\ Len(more) \in Nat /\ DOMAIN queue = 1..n /\ DOMAIN more = 1..Len(more)
        /\ longer \in Seq(S) /\ Len(longer) = n + Len(more) /\ DOMAIN longer = 1..Len(longer)
        /\ \A i \in 1..Len(longer) : longer[i] = IF i <= n THEN queue[i] ELSE more[i - n]
    BY ConcatProperties, LenProperties
  <2> HIDE DEF longer, n
  <2>2. ASSUME NEW i \in 1..Len(longer), ~(i <= n) PROVE i - n \in DOMAIN more
    BY <2>1, <2>2
  <2>3. QED
    BY <2>1, <2>2
<1> HIDE DEF longer, n
<1>2. Sent(longer, p) => Sent(queue, p)
  BY <1>1 DEF Sent
<1>3. Called(queue, p) => Called(longer, p)
  BY <1>1 DEF Called
<1>4. Saying(longer, p) = Saying(queue, p)
  BY <1>1 DEF Saying
<1>5. \A i \in Saying(queue, p) : longer[i] = queue[i]
  BY <1>1 DEF Saying
<1>6. \A shown, v : WillShow(queue, p, shown, v) => WillShow(longer, p, shown, v)
  BY <1>4, <1>5 DEF WillShow
<1>7. QED
  BY <1>1, <1>2, <1>3, <1>6 DEF longer

\* The cartridges of a service that goes are excused, and it was asked about no other
\* that it has.
LEMMA DiesStep ==
    ASSUME CbcInv, NEW s \in Services, ServiceDies(s) PROVE CbcInv'
<1> DEFINE failed == [i \in DOMAIN asked[s] |-> Message("value", asked[s][i], Unset)]
<1>1. /\ Fault
      /\ objects' = [objects EXCEPT ![s] = [p \in Paths |-> None]]
      /\ inbox' = [inbox EXCEPT ![s] = @ \o failed]
      /\ asked' = [asked EXCEPT ![s] = <<>>]
      /\ Excuse({p \in Paths : objects[s][p] # None})
      /\ UNCHANGED <<phase, cbcObjects, cableChanges>>
  BY DEF ServiceDies
<1>2. /\ failed \in Seq(Messages)
      /\ \A p : \A i \in DOMAIN failed : ~Says(failed[i], p) /\ ~Calls(failed[i], p)
  <2>1. asked[s] \in Seq(Paths) /\ DOMAIN asked[s] = 1..Len(asked[s]) /\ Len(asked[s]) \in Nat
    BY LenProperties DEF CbcInv, CbcTypeOK
  <2>2. ASSUME NEW i \in DOMAIN asked[s]
        PROVE  /\ failed[i] \in Messages
               /\ \A p : ~Says(failed[i], p) /\ ~Calls(failed[i], p)
    <3>1. asked[s][i] \in Paths /\ Unset \in Values
      BY <2>1, <2>2, ElementOfSeq DEF Values
    <3> DEFINE m == Message("value", asked[s][i], Unset)
    <3>2. /\ m \in Messages /\ ~Says(m, asked[s][i]) /\ ~Calls(m, asked[s][i])
          /\ \A q : q # asked[s][i] => ~Says(m, q) /\ ~Calls(m, q)
      BY <3>1, MessageIs
    <3> HIDE DEF m
    <3>3. failed[i] = m
      BY <2>2 DEF m
    <3>4. QED
      BY <3>2, <3>3
  <2>3. failed \in [1..Len(asked[s]) -> Messages]
    BY <2>1, <2>2
  <2> HIDE DEF failed
  <2>4. failed \in Seq(Messages)
    BY <2>1, <2>3
  <2>5. DOMAIN failed = DOMAIN asked[s]
    BY <2>1, <2>3
  <2>6. QED
    BY <2>2, <2>4, <2>5
<1>3. phase = "down" => failed = <<>>
  BY DEF CbcInv, Down
<1> HIDE DEF failed
<1>4. inbox[s] \in Seq(Messages) /\ inbox[s] \o failed \in Seq(Messages) /\ s # Mapper
  BY <1>2, ConcatProperties, SendersAssumption DEF CbcInv, CbcTypeOK
<1>5. /\ DOMAIN inbox' = DOMAIN inbox
      /\ inbox'[s] = inbox[s] \o failed
      /\ \A o \in Services \cup {Mapper} : o # s => inbox'[o] = inbox[o]
  BY <1>1, <1>4 DEF CbcInv, CbcTypeOK
<1>6. CbcTypeOK'
  <2>1. \A t \in Services : inbox'[t] \in Seq(Messages)
    BY <1>4, <1>5 DEF CbcInv, CbcTypeOK
  <2>2. asked' \in [Services -> Seq(Paths)] /\ objects' \in [Services -> [Paths -> Values \cup {None}]]
    BY <1>1 DEF CbcInv, CbcTypeOK
  <2>3. excused' \subseteq Paths /\ faults' \in 0..MaxFaults
    BY <1>1, BoundsAssumption DEF Excuse, Fault, CbcInv, CbcTypeOK
  <2>4. inbox'[Mapper] = inbox[Mapper]
    BY <1>4, <1>5
  <2>5. QED
    BY <1>1, <1>5, <2>1, <2>2, <2>3, <2>4 DEF CbcInv, CbcTypeOK
<1>7. Down'
  <2> SUFFICES ASSUME phase = "down" PROVE Down'
    BY <1>1 DEF Down
  <2>1. inbox'[s] = <<>>
    BY <1>3, <1>5 DEF CbcInv, Down
  <2>2. \A q \in Services \cup {Mapper} : inbox'[q] = <<>>
    BY <1>5, <2>1 DEF CbcInv, Down
  <2>3. QED
    BY <1>1, <2>2 DEF CbcInv, Down, CbcTypeOK
<1>8. Right'
  <2> SUFFICES ASSUME phase # "down", NEW p \in Paths \ excused'
               PROVE  OneConcerned(p)' /\ Told(p)'
    BY <1>1 DEF Right
  <2>1. p \in Paths \ excused /\ objects[s][p] = None
    BY <1>1 DEF Excuse
  <2>2. \A t \in Services : objects'[t][p] = objects[t][p]
    BY <1>1, <2>1 DEF CbcInv, CbcTypeOK
  <2> DEFINE longer == inbox[s] \o failed
  <2>3. /\ Sent(longer, p) => Sent(inbox[s], p)
        /\ Called(inbox[s], p) => Called(longer, p)
        /\ \A shown, v : WillShow(inbox[s], p, shown, v) => WillShow(longer, p, shown, v)
    BY <1>2, <1>4, NothingJoins
  <2> HIDE DEF longer
  <2>4. inbox'[s] = longer
    BY <1>5 DEF longer
  <2>5. ASSUME NEW t \in Services
        PROVE  /\ Sent(inbox'[t], p) => Sent(inbox[t], p)
               /\ Called(inbox[t], p) => Called(inbox'[t], p)
               /\ \A v : WillShow(inbox[t], p, cbcObjects[p], v) =>
                            WillShow(inbox'[t], p, cbcObjects'[p], v)
    BY <1>1, <1>5, <2>3, <2>4
  <2>6. ASSUME NEW t \in Services, Asking(t, p) PROVE Asking(t, p)'
    <3>1. t # s
      BY <2>1, <2>6, ValuesAssumption DEF Asking
    <3>2. asked'[t] = asked[t] /\ inbox'[Mapper] = inbox[Mapper]
      BY <1>1, <1>4, <1>5, <3>1 DEF CbcInv, CbcTypeOK
    <3>3. QED
      BY <1>1, <2>2, <2>5, <2>6, <3>2 DEF Asking
  <2>7. QED
    BY <1>1, <2>1, <2>2, <2>5, <2>6, Carry
<1>9. QED
  BY <1>6, <1>7, <1>8 DEF CbcInv

-----------------------------------------------------------------------------
(* The daemon. *)

\* A handler of a service's message: what the message says is shown, and where it
\* says there is a cartridge to ask for, the mapper's answer has its service.
LEMMA HandledStep ==
    ASSUME CbcInv, phase = "running", NEW s \in Services, inbox[s] # <<>>,
           UNCHANGED <<objects, cableChanges, asked, phase>>,
           DOMAIN inbox' = DOMAIN inbox, inbox'[s] = Tail(inbox[s]),
           \A t \in Services \ {s} : inbox'[t] = inbox[t],
           inbox'[Mapper] \in Seq(Answers),
           \A t \in Services, q \in Paths :
               Listed(inbox[Mapper], t, q) => Listed(inbox'[Mapper], t, q),
           DOMAIN cbcObjects' = Paths, faults' \in 0..MaxFaults,
           excused \subseteq excused', excused' \subseteq Paths,
           \A q \in Paths \ excused' :
               /\ Says(Head(inbox[s]), q) => cbcObjects'[q] = Shows(Head(inbox[s]), q)
               /\ ~Says(Head(inbox[s]), q) => cbcObjects'[q] = cbcObjects[q]
               /\ Calls(Head(inbox[s]), q) =>
                     \A t \in Services : objects[t][q] # None => Listed(inbox'[Mapper], t, q)
    PROVE  CbcInv'
<1> DEFINE m == Head(inbox[s])
           rest == Tail(inbox[s])
<1>1. inbox[s] \in Seq(Messages)
  BY DEF CbcInv, CbcTypeOK
<1>2. /\ m \in Messages /\ rest \in Seq(Messages)
      /\ \A q : /\ Sent(rest, q) => Sent(inbox[s], q)
                /\ Says(m, q) => Sent(inbox[s], q)
                /\ Called(inbox[s], q) /\ ~Calls(m, q) => Called(rest, q)
                /\ Says(m, q) => \A shown, v :
                      WillShow(inbox[s], q, shown, v) => WillShow(rest, q, Shows(m, q), v)
                /\ ~Says(m, q) => \A shown, v :
                      WillShow(inbox[s], q, shown, v) => WillShow(rest, q, shown, v)
  BY <1>1, MessageTaken
<1> HIDE DEF m, rest
<1>3. inbox'[s] = rest
  BY DEF rest
<1>4. CbcTypeOK'
  BY <1>2, <1>3 DEF CbcInv, CbcTypeOK
<1>5. ASSUME NEW q \in Paths \ excused' PROVE OneConcerned(q)' /\ Told(q)'
  <2>1. /\ q \in Paths \ excused
        /\ Says(m, q) => cbcObjects'[q] = Shows(m, q)
        /\ ~Says(m, q) => cbcObjects'[q] = cbcObjects[q]
        /\ Calls(m, q) =>
              \A t \in Services : objects[t][q] # None => Listed(inbox'[Mapper], t, q)
    BY <1>5 DEF m
  <2>2. OneConcerned(q)
    BY <2>1 DEF CbcInv, Right
  <2>3. ASSUME NEW t \in Services
        PROVE  /\ objects'[t][q] = objects[t][q]
               /\ Sent(inbox'[t], q) => Sent(inbox[t], q)
               /\ Concerned(t, q) => \A v : WillShow(inbox[t], q, cbcObjects[q], v) =>
                                                WillShow(inbox'[t], q, cbcObjects'[q], v)
               /\ Asking(t, q) => Asking(t, q)'
    <3>1. CASE t = s
      <4>1. \A v : WillShow(inbox[t], q, cbcObjects[q], v) =>
                      WillShow(inbox'[t], q, cbcObjects'[q], v)
        BY <1>2, <1>3, <2>1, <3>1
      <4>2. Asking(t, q) => Asking(t, q)'
        BY <1>2, <1>3, <2>1, <3>1, ValuesAssumption DEF Asking
      <4>3. QED
        BY <1>2, <1>3, <3>1, <4>1, <4>2
    <3>2. CASE t # s
      <4>1. inbox'[t] = inbox[t]
        BY <3>2
      <4>2. Asking(t, q) => Asking(t, q)'
        BY <2>1, <4>1 DEF Asking
      <4>3. Concerned(t, q) => ~Says(m, q)
        BY <1>2, <2>2, <3>2 DEF OneConcerned, Concerned
      <4>4. QED
        BY <2>1, <4>1, <4>2, <4>3
    <3>3. QED
      BY <3>1, <3>2
  <2>4. cbcObjects'[q] = cbcObjects[q] \/ \E t \in Services : Sent(inbox[t], q)
    BY <1>2, <2>1
  <2>5. QED
    BY <2>1, <2>3, <2>4, Carry
<1>6. Down' /\ Right'
  BY <1>5 DEF Down, Right
<1>7. QED
  BY <1>4, <1>6 DEF CbcInv

\* The mapper has the only service concerned for every path it answers about.
LEMMA MapperCalled ==
    ASSUME CbcInv, phase # "down", NEW paths \in SUBSET Paths, NEW received,
           CallMapper(paths, received),
           DOMAIN received = DOMAIN inbox, received[Mapper] = inbox[Mapper]
    PROVE  /\ DOMAIN inbox' = DOMAIN inbox
           /\ \A s \in Services : inbox'[s] = received[s]
           /\ inbox'[Mapper] \in Seq(Answers)
           /\ excused \subseteq excused' /\ excused' \subseteq Paths
           /\ faults' \in 0..MaxFaults
           /\ \A s \in Services, p \in Paths :
                 Listed(inbox[Mapper], s, p) => Listed(inbox'[Mapper], s, p)
           /\ \A p \in paths \ excused', s \in Services :
                 objects[s][p] # None => Listed(inbox'[Mapper], s, p)
<1>1. PICK unlisted \in SUBSET paths :
         /\ inbox' = [received EXCEPT ![Mapper] =
                Append(@, [kind |-> "mapper", about |-> [p \in paths \ unlisted |-> ServicesAt(p)]])]
         /\ \/ UNCHANGED <<faults, excused>>
            \/ Fault /\ Excuse({p \in unlisted : ServicesAt(p) # {}})
         /\ \A p \in unlisted \ excused' : ServicesAt(p) = {}
  <2>1. CASE /\ inbox' = [received EXCEPT ![Mapper] =
                    Append(@, [kind |-> "mapper", about |-> [p \in paths |-> ServicesAt(p)]])]
             /\ UNCHANGED <<faults, excused>>
    <3>1. paths = paths \ {} /\ {} \in SUBSET paths
      OBVIOUS
    <3>2. QED
      BY <2>1, <3>1
  <2>2. CASE /\ Fault
             /\ \E unlisted \in SUBSET paths \ {{}} :
                   /\ inbox' = [received EXCEPT ![Mapper] =
                          Append(@, [kind |-> "mapper",
                                     about |-> [p \in paths \ unlisted |-> ServicesAt(p)]])]
                   /\ Excuse({p \in unlisted : ServicesAt(p) # {}})
    BY <2>2 DEF Excuse
  <2>3. QED
    BY <2>1, <2>2 DEF CallMapper
<1> DEFINE known == [p \in paths \ unlisted |-> ServicesAt(p)]
           m == [kind |-> "mapper", about |-> known]
<1>2. known \in Known
  <2>1. \A p \in Paths : ServicesAt(p) \subseteq Services \cup {Self}
    BY DEF ServicesAt
  <2>2. known \in [paths \ unlisted -> SUBSET (Services \cup {Self})]
    BY <2>1
  <2> HIDE DEF known
  <2>3. QED
    BY <2>2 DEF Known
<1>3. /\ m.about = known /\ m \in Answers
      /\ DOMAIN known = paths \ unlisted
      /\ \A p \in paths \ unlisted : known[p] = ServicesAt(p)
  BY <1>2 DEF Answers
<1>4. inbox' = [received EXCEPT ![Mapper] = Append(@, m)]
  BY <1>1
<1> HIDE DEF known, m
<1>5. /\ inbox'[Mapper] = Append(inbox[Mapper], m)
      /\ inbox[Mapper] \in Seq(Answers)
      /\ DOMAIN inbox' = DOMAIN inbox
      /\ \A s \in Services : inbox'[s] = received[s]
  BY <1>4, SendersAssumption DEF CbcInv, CbcTypeOK
<1> DEFINE queue == inbox[Mapper]
           longer == Append(queue, m)
<1>6. /\ longer \in Seq(Answers)
      /\ \A i \in DOMAIN queue : i \in DOMAIN longer /\ longer[i] = queue[i]
      /\ \E i \in DOMAIN longer : longer[i] = m
  <2> DEFINE n == Len(queue)
  <2>1. /\ n \in Nat /\ DOMAIN queue = 1..n /\ DOMAIN longer = 1..n + 1
        /\ longer \in Seq(Answers)
        /\ \A i \in 1..n : longer[i] = queue[i]
        /\ longer[n + 1] = m
    BY <1>3, <1>5, AppendAt, AppendProperties, LenProperties
  <2> HIDE DEF longer, queue, n
  <2>2. n + 1 \in 1..n + 1 /\ 1..n \subseteq 1..n + 1
    BY <2>1
  <2>3. QED
    BY <2>1, <2>2
<1> HIDE DEF longer, queue
<1>7. inbox'[Mapper] = longer /\ inbox[Mapper] = queue
  BY <1>5 DEF longer, queue
<1>8. \A s \in Services, p \in Paths :
         Listed(inbox[Mapper], s, p) => Listed(inbox'[Mapper], s, p)
  BY <1>6, <1>7 DEF Listed
<1>9. excused \subseteq excused' /\ excused' \subseteq Paths /\ faults' \in 0..MaxFaults
  BY <1>1, BoundsAssumption DEF Excuse, Fault, CbcInv, CbcTypeOK
<1>10. ASSUME NEW p \in paths \ excused', NEW s \in Services, objects[s][p] # None
       PROVE  Listed(inbox'[Mapper], s, p)
  <2>1. s \in ServicesAt(p) /\ s # Self
    BY <1>10, SendersAssumption DEF ServicesAt
  <2>2. p \in paths \ unlisted
    BY <1>1, <1>10, <2>1
  <2>3. p \in Paths \ excused
    BY <1>9, <1>10
  <2>4. \A t \in Services \ {s} : objects[t][p] = None
    BY <1>10, <2>3, HasItAlone DEF Concerned
  <2>5. OtherServices(ServicesAt(p)) = {s}
    BY <2>1, <2>4 DEF OtherServices, ServicesAt
  <2>6. Lists(m, s, p)
    BY <1>3, <2>2, <2>5 DEF Lists
  <2>7. QED
    BY <1>6, <1>7, <2>6 DEF Listed
<1>11. QED
  BY <1>5, <1>6, <1>7, <1>8, <1>9, <1>10

\* A start asks for every cartridge there is, after it began to listen.
LEMMA DiscoverStep ==
    ASSUME CbcInv, discoverExistingCBCObjects PROVE CbcInv'
<1>1. /\ phase = "matched" /\ phase' = "running"
      /\ CallMapper(Paths, inbox)
      /\ UNCHANGED <<objects, cableChanges, asked, cbcObjects>>
  BY DEF discoverExistingCBCObjects, cables
<1>2. /\ DOMAIN inbox' = DOMAIN inbox
      /\ \A s \in Services : inbox'[s] = inbox[s]
      /\ inbox'[Mapper] \in Seq(Answers)
      /\ excused \subseteq excused' /\ excused' \subseteq Paths
      /\ faults' \in 0..MaxFaults
      /\ \A p \in Paths \ excused', s \in Services :
            objects[s][p] # None => Listed(inbox'[Mapper], s, p)
  BY <1>1, MapperCalled
<1>3. CbcTypeOK'
  BY <1>1, <1>2 DEF CbcInv, CbcTypeOK
<1>4. ASSUME NEW p \in Paths \ excused' PROVE OneConcerned(p)' /\ Told(p)'
  <2>1. ASSUME NEW s \in Services, Asking(s, p) PROVE Asking(s, p)'
    <3>1. objects[s][p] \in Fields /\ objects[s][p] # None
      BY <2>1, ValuesAssumption DEF Asking
    <3>2. QED
      BY <1>1, <1>2, <1>4, <3>1 DEF Asking
  <2>2. p \in Paths \ excused /\ phase # "down"
    BY <1>1, <1>2
  <2>3. QED
    BY <1>1, <1>2, <2>1, <2>2, Carry
<1>5. Down' /\ Right'
  BY <1>1, <1>4 DEF Down, Right
<1>6. QED
  BY <1>3, <1>5 DEF CbcInv

\* What is published for a field.
LEMMA ProcessIs ==
    ASSUME CbcInv, NEW p \in Paths, NEW field \in Values, processCBCCustomField(p, field)
    PROVE  /\ DOMAIN cbcObjects' = Paths
           /\ \A q \in Paths \ {p} : cbcObjects'[q] = cbcObjects[q]
           /\ p \notin excused' => cbcObjects'[p] = ShownFor(field)
           /\ excused \subseteq excused' /\ excused' \subseteq Paths
           /\ faults' \in 0..MaxFaults
<1>1. field # None /\ DOMAIN cbcObjects = Paths
  BY ValuesAssumption DEF Values, CbcInv, CbcTypeOK
<1>2. ASSUME NEW numbers, Publish(p, numbers)
      PROVE  /\ DOMAIN cbcObjects' = Paths
             /\ \A q \in Paths \ {p} : cbcObjects'[q] = cbcObjects[q]
             /\ cbcObjects'[p] = numbers
  BY <1>1, <1>2 DEF Publish
<1>3. ASSUME UNCHANGED <<excused, faults>>
      PROVE  /\ excused \subseteq excused' /\ excused' \subseteq Paths
             /\ faults' \in 0..MaxFaults
  BY <1>3 DEF CbcInv, CbcTypeOK
<1>4. CASE /\ ~parseTrayTopology(field)
           /\ Publish(p, None)
           /\ UNCHANGED <<excused, faults>>
  BY <1>2, <1>3, <1>4 DEF ShownFor
<1>5. CASE /\ parseTrayTopology(field)
           /\ Publish(p, Numbers(field))
           /\ UNCHANGED <<excused, faults>>
  BY <1>1, <1>2, <1>3, <1>5 DEF ShownFor
<1>6. CASE /\ Fault
           /\ Excuse({p})
           /\ IF cbcObjects[p] = None
              THEN UNCHANGED cbcObjects
              ELSE \E i \in DOMAIN Properties :
                       Publish(p, SetUpTo(cbcObjects[p], Numbers(field), i))
  <2>1. /\ DOMAIN cbcObjects' = Paths
        /\ \A q \in Paths \ {p} : cbcObjects'[q] = cbcObjects[q]
    BY <1>1, <1>2, <1>6
  <2>2. /\ p \in excused' /\ excused \subseteq excused' /\ excused' \subseteq Paths
        /\ faults' \in 0..MaxFaults
    BY <1>6, BoundsAssumption DEF Excuse, Fault, CbcInv, CbcTypeOK
  <2>3. QED
    BY <2>1, <2>2
<1>7. QED
  BY <1>4, <1>5, <1>6 DEF processCBCCustomField

\* The message a handler takes.
LEMMA Received ==
    ASSUME CbcInv, NEW s \in Services, NEW kind, Receives(s, kind)
    PROVE  LET m == Head(inbox[s])
           IN  /\ phase = "running" /\ phase # "down" /\ inbox[s] # <<>>
               /\ m \in Messages /\ m.kind = kind
               /\ \A p \in DOMAIN m.about :
                     /\ p \in Paths /\ DOMAIN m.about = {p} /\ m.about[p] \in Values
                     /\ \A q : q # p => ~Says(m, q) /\ ~Calls(m, q)
               /\ Taken(s)[s] = Tail(inbox[s])
               /\ DOMAIN Taken(s) = DOMAIN inbox
               /\ \A o \in (Services \cup {Mapper}) \ {s} : Taken(s)[o] = inbox[o]
<1> DEFINE m == Head(inbox[s])
<1>1. phase = "running" /\ inbox[s] # <<>> /\ m.kind = kind /\ inbox[s] \in Seq(Messages)
  BY DEF Receives, CbcInv, CbcTypeOK
<1>2. m \in Messages
  BY <1>1, HeadAndTail
<1> HIDE DEF m
<1>3. \A p \in DOMAIN m.about :
         /\ p \in Paths /\ DOMAIN m.about = {p} /\ m.about[p] \in Values
         /\ \A q : q # p => ~Says(m, q) /\ ~Calls(m, q)
  BY <1>2, MessagesAre
<1>4. /\ Taken(s)[s] = Tail(inbox[s])
      /\ DOMAIN Taken(s) = DOMAIN inbox
      /\ \A o \in (Services \cup {Mapper}) \ {s} : Taken(s)[o] = inbox[o]
  BY DEF Taken, CbcInv, CbcTypeOK
<1>5. QED
  BY <1>1, <1>2, <1>3, <1>4 DEF m

\* A message with a field is handled.
LEMMA FieldHandled ==
    ASSUME CbcInv, NEW s \in Services, NEW kind \in {"changed", "added", "value"},
           Receives(s, kind),
           NEW p \in DOMAIN Head(inbox[s]).about,
           kind = "changed" \/ Head(inbox[s]).about[p] # Unset,
           processCBCCustomField(p, Head(inbox[s]).about[p]),
           inbox' = Taken(s),
           UNCHANGED <<objects, cableChanges, asked, phase>>
    PROVE  CbcInv'
<1> DEFINE m == Head(inbox[s])
<1>1. /\ phase = "running" /\ inbox[s] # <<>> /\ m.kind = kind
      /\ p \in Paths /\ DOMAIN m.about = {p} /\ m.about[p] \in Values
      /\ \A q : q # p => ~Says(m, q) /\ ~Calls(m, q)
      /\ inbox'[s] = Tail(inbox[s])
      /\ DOMAIN inbox' = DOMAIN inbox
      /\ \A o \in (Services \cup {Mapper}) \ {s} : inbox'[o] = inbox[o]
  BY Received
<1>2. Says(m, p) /\ ~Calls(m, p) /\ Shows(m, p) = ShownFor(m.about[p])
  BY <1>1 DEF Says, Calls, Shows
<1>3. /\ DOMAIN cbcObjects' = Paths
      /\ \A q \in Paths \ {p} : cbcObjects'[q] = cbcObjects[q]
      /\ p \notin excused' => cbcObjects'[p] = ShownFor(m.about[p])
      /\ excused \subseteq excused' /\ excused' \subseteq Paths
      /\ faults' \in 0..MaxFaults
  BY <1>1, ProcessIs
<1>4. inbox'[Mapper] = inbox[Mapper] /\ inbox[Mapper] \in Seq(Answers)
  BY <1>1, SendersAssumption DEF CbcInv, CbcTypeOK
<1>5. \A q \in Paths \ excused' :
         /\ Says(m, q) => cbcObjects'[q] = Shows(m, q)
         /\ ~Says(m, q) => cbcObjects'[q] = cbcObjects[q]
         /\ ~Calls(m, q)
  BY <1>1, <1>2, <1>3
<1>6. QED
  BY <1>1, <1>3, <1>4, <1>5, HandledStep

LEMMA PropertiesChangedStep ==
    ASSUME CbcInv, NEW s \in Services, handlePropertiesChanged(s) PROVE CbcInv'
BY FieldHandled DEF handlePropertiesChanged, cables

\* A message that says nothing is handled.
LEMMA SilentHandled ==
    ASSUME CbcInv, NEW s \in Services, NEW kind, Receives(s, kind),
           \A q : ~Says(Head(inbox[s]), q) /\ ~Calls(Head(inbox[s]), q),
           inbox' = Taken(s),
           UNCHANGED <<objects, cableChanges, asked, phase, cbcObjects, excused, faults>>
    PROVE  CbcInv'
<1>1. /\ phase = "running" /\ inbox[s] # <<>>
      /\ inbox'[s] = Tail(inbox[s])
      /\ DOMAIN inbox' = DOMAIN inbox
      /\ \A o \in (Services \cup {Mapper}) \ {s} : inbox'[o] = inbox[o]
  BY Received
<1>2. inbox'[Mapper] = inbox[Mapper] /\ inbox[Mapper] \in Seq(Answers)
  BY <1>1, SendersAssumption DEF CbcInv, CbcTypeOK
<1>3. /\ DOMAIN cbcObjects' = Paths /\ faults' \in 0..MaxFaults
      /\ excused \subseteq excused' /\ excused' \subseteq Paths
  BY DEF CbcInv, CbcTypeOK
<1>4. QED
  BY <1>1, <1>2, <1>3, HandledStep

LEMMA ValueReadStep ==
    ASSUME CbcInv, NEW s \in Services, ValueRead(s) PROVE CbcInv'
<1> DEFINE m == Head(inbox[s])
<1>1. PICK p \in DOMAIN m.about :
         \/ m.about[p] # Unset /\ processCBCCustomField(p, m.about[p])
         \/ m.about[p] = Unset /\ UNCHANGED <<cbcObjects, excused, faults>>
  BY DEF ValueRead
<1>2. /\ Receives(s, "value") /\ inbox' = Taken(s)
      /\ UNCHANGED <<objects, cableChanges, asked, phase>>
  BY DEF ValueRead, cables
<1>3. CASE m.about[p] # Unset /\ processCBCCustomField(p, m.about[p])
  BY <1>1, <1>2, <1>3, FieldHandled
<1>4. CASE m.about[p] = Unset /\ UNCHANGED <<cbcObjects, excused, faults>>
  <2>1. m.kind = "value" /\ \A q : q # p => ~Says(m, q) /\ ~Calls(m, q)
    BY <1>1, <1>2, Received
  <2>2. ~Says(m, p) /\ ~Calls(m, p)
    BY <1>4, <2>1 DEF Says, Calls
  <2>3. \A q : ~Says(m, q) /\ ~Calls(m, q)
    BY <2>1, <2>2
  <2>4. QED
    BY <1>2, <1>4, <2>3, SilentHandled
<1>5. QED
  BY <1>1, <1>3, <1>4

LEMMA InterfacesRemovedStep ==
    ASSUME CbcInv, NEW s \in Services, handleInterfacesRemoved(s) PROVE CbcInv'
<1> DEFINE m == Head(inbox[s])
<1>1. PICK p \in DOMAIN m.about : Publish(p, None)
  BY DEF handleInterfacesRemoved
<1>2. /\ Receives(s, "removed") /\ inbox' = Taken(s)
      /\ UNCHANGED <<objects, cableChanges, asked, phase, excused, faults>>
  BY DEF handleInterfacesRemoved, cables
<1>3. /\ phase = "running" /\ inbox[s] # <<>> /\ m.kind = "removed"
      /\ p \in Paths /\ DOMAIN m.about = {p}
      /\ \A q : q # p => ~Says(m, q) /\ ~Calls(m, q)
      /\ inbox'[s] = Tail(inbox[s])
      /\ DOMAIN inbox' = DOMAIN inbox
      /\ \A o \in (Services \cup {Mapper}) \ {s} : inbox'[o] = inbox[o]
  BY <1>1, <1>2, Received
<1>4. Says(m, p) /\ ~Calls(m, p) /\ Shows(m, p) = None
  BY <1>3 DEF Says, Calls, Shows
<1>5. /\ DOMAIN cbcObjects' = Paths /\ cbcObjects'[p] = None
      /\ \A q \in Paths \ {p} : cbcObjects'[q] = cbcObjects[q]
      /\ excused \subseteq excused' /\ excused' \subseteq Paths
      /\ faults' \in 0..MaxFaults
  BY <1>1, <1>2, <1>3 DEF Publish, CbcInv, CbcTypeOK
<1>6. inbox'[Mapper] = inbox[Mapper] /\ inbox[Mapper] \in Seq(Answers)
  BY <1>3, SendersAssumption DEF CbcInv, CbcTypeOK
<1>7. \A q \in Paths \ excused' :
         /\ Says(m, q) => cbcObjects'[q] = Shows(m, q)
         /\ ~Says(m, q) => cbcObjects'[q] = cbcObjects[q]
         /\ ~Calls(m, q)
  BY <1>3, <1>4, <1>5
<1>8. QED
  BY <1>2, <1>3, <1>5, <1>6, <1>7, HandledStep

\* A signal with no field of it has the daemon ask where the cartridge is.
LEMMA InterfacesAddedStep ==
    ASSUME CbcInv, NEW s \in Services, handleInterfacesAdded(s) PROVE CbcInv'
<1> DEFINE m == Head(inbox[s])
<1>1. PICK p \in DOMAIN m.about :
         \/ /\ m.about[p] # Unset
            /\ processCBCCustomField(p, m.about[p])
            /\ inbox' = Taken(s)
         \/ /\ m.about[p] = Unset
            /\ CallMapper({p}, Taken(s))
            /\ UNCHANGED cbcObjects
  BY DEF handleInterfacesAdded
<1>2. /\ Receives(s, "added")
      /\ UNCHANGED <<objects, cableChanges, asked, phase>>
  BY DEF handleInterfacesAdded, cables
<1>3. CASE /\ m.about[p] # Unset
           /\ processCBCCustomField(p, m.about[p])
           /\ inbox' = Taken(s)
  BY <1>1, <1>2, <1>3, FieldHandled
<1>4. CASE /\ m.about[p] = Unset
           /\ CallMapper({p}, Taken(s))
           /\ UNCHANGED cbcObjects
  <2>1. /\ phase = "running" /\ phase # "down" /\ inbox[s] # <<>> /\ m.kind = "added"
        /\ p \in Paths
        /\ \A q : q # p => ~Says(m, q) /\ ~Calls(m, q)
        /\ Taken(s)[s] = Tail(inbox[s])
        /\ DOMAIN Taken(s) = DOMAIN inbox
        /\ \A o \in (Services \cup {Mapper}) \ {s} : Taken(s)[o] = inbox[o]
    BY <1>1, <1>2, Received
  <2>2. ~Says(m, p)
    BY <1>4, <2>1 DEF Says
  <2>3. Taken(s)[Mapper] = inbox[Mapper] /\ {p} \in SUBSET Paths
    BY <2>1, SendersAssumption
  <2>4. /\ DOMAIN inbox' = DOMAIN inbox
        /\ \A t \in Services : inbox'[t] = Taken(s)[t]
        /\ inbox'[Mapper] \in Seq(Answers)
        /\ excused \subseteq excused' /\ excused' \subseteq Paths
        /\ faults' \in 0..MaxFaults
        /\ \A t \in Services, q \in Paths :
              Listed(inbox[Mapper], t, q) => Listed(inbox'[Mapper], t, q)
        /\ \A q \in {p} \ excused', t \in Services :
              objects[t][q] # None => Listed(inbox'[Mapper], t, q)
    <3> HIDE DEF m
    <3> DEFINE received == Taken(s)
    <3>1. CallMapper({p}, received) /\ DOMAIN received = DOMAIN inbox
          /\ received[Mapper] = inbox[Mapper]
      BY <1>4, <2>1, <2>3
    <3> HIDE DEF received
    <3>2. QED
      BY <2>1, <2>3, <3>1, MapperCalled DEF received
  <2>5. \A q \in Paths \ excused' :
           /\ Says(m, q) => cbcObjects'[q] = Shows(m, q)
           /\ ~Says(m, q) => cbcObjects'[q] = cbcObjects[q]
           /\ Calls(m, q) => \A t \in Services :
                 objects[t][q] # None => Listed(inbox'[Mapper], t, q)
    BY <1>4, <2>1, <2>2, <2>4
  <2>6. DOMAIN cbcObjects' = Paths
    BY <1>4 DEF CbcInv, CbcTypeOK
  <2>7. inbox'[s] = Tail(inbox[s]) /\ \A t \in Services \ {s} : inbox'[t] = inbox[t]
    BY <2>1, <2>4
  <2>8. QED
    BY <1>2, <2>1, <2>4, <2>5, <2>6, <2>7, HandledStep
<1>5. QED
  BY <1>1, <1>3, <1>4

\* Every path of the mapper's answer is asked for, at the service it lists.
LEMMA SetupStep ==
    ASSUME CbcInv, setupCBCObjects PROVE CbcInv'
<1> DEFINE queue == inbox[Mapper]
           known == Head(queue).about
           found == {p \in DOMAIN known : OtherServices(known[p]) # {}}
<1>1. PICK first \in [found -> Services \cup {Self}] :
         /\ \A p \in found : first[p] \in OtherServices(known[p])
         /\ asked' = [s \in Services |-> asked[s] \o SetToSeq({p \in found : first[p] = s})]
  BY DEF setupCBCObjects
<1>2. /\ phase = "running" /\ queue # <<>> /\ inbox' = [inbox EXCEPT ![Mapper] = Tail(@)]
      /\ UNCHANGED <<objects, cableChanges, phase, cbcObjects, excused, faults>>
  BY DEF setupCBCObjects, Receives, Taken, cables
<1>3. /\ queue \in Seq(Answers) /\ Head(queue) \in Answers /\ Tail(queue) \in Seq(Answers)
  BY <1>2, HeadAndTail DEF CbcInv, CbcTypeOK
<1>4. found \subseteq Paths
  BY <1>3 DEF Answers, Known
<1>5. /\ DOMAIN inbox' = DOMAIN inbox /\ inbox'[Mapper] = Tail(queue)
      /\ \A s \in Services : inbox'[s] = inbox[s]
  BY <1>2, SendersAssumption DEF CbcInv, CbcTypeOK
<1>6. ASSUME NEW s \in Services
      PROVE  /\ asked'[s] \in Seq(Paths)
             /\ \A p : p \in Range(asked[s]) \/ (p \in found /\ first[p] = s) => p \in Range(asked'[s])
  <2> DEFINE listed == {p \in found : first[p] = s}
             asks == SetToSeq(listed)
  <2>1. IsFiniteSet(listed) /\ listed \subseteq Paths
    BY <1>4, FS_Subset, ValuesAssumption
  <2> HIDE DEF listed
  <2>2. /\ asks \in Seq(listed) /\ Len(asks) = Cardinality(listed)
        /\ \A p \in listed : \E i \in 1..Cardinality(listed) : asks[i] = p
    BY <2>1, SetToSeqLists
  <2> HIDE DEF asks
  <2>3. asks \in Seq(Paths) /\ \A p \in listed : p \in Range(asks)
    <3>1. \A i \in 1..Len(asks) : asks[i] \in Range(asks)
      BY <2>2, RangeAt
    <3>2. QED
      BY <2>1, <2>2, <3>1
  <2>4. asked[s] \in Seq(Paths)
    BY DEF CbcInv, CbcTypeOK
  <2>5. /\ asked[s] \o asks \in Seq(Paths)
        /\ Range(asked[s] \o asks) = Range(asked[s]) \cup Range(asks)
    BY <2>3, <2>4, ConcatProperties, RangeConcatenation
  <2>6. asked'[s] = asked[s] \o asks
    BY <1>1 DEF asks, listed
  <2>7. QED
    BY <2>3, <2>5, <2>6 DEF listed
<1>7. CbcTypeOK'
  <2>1. asked' \in [Services -> Seq(Paths)]
    <3>1. DOMAIN asked' = Services /\ asked' = [s \in Services |-> asked'[s]]
      BY <1>1
    <3>2. QED
      BY <1>6, <3>1
  <2>2. QED
    BY <1>2, <1>3, <1>5, <2>1 DEF CbcInv, CbcTypeOK
<1>8. ASSUME NEW s \in Services, NEW p \in Paths, Listed(inbox[Mapper], s, p)
      PROVE  Listed(inbox'[Mapper], s, p) \/ p \in Range(asked'[s])
  <2> DEFINE n == Len(queue)
             rest == Tail(queue)
  <2>1. PICK i \in DOMAIN queue : Lists(queue[i], s, p)
    BY <1>8 DEF Listed
  <2>2. /\ n \in Nat /\ DOMAIN queue = 1..n /\ DOMAIN rest = 1..n - 1 /\ Head(queue) = queue[1]
        /\ \A j \in 1..n - 1 : rest[j] = queue[j + 1]
    BY <1>2, <1>3, TailAt, LenProperties
  <2>3. CASE i = 1
    <3>1. p \in DOMAIN known /\ OtherServices(known[p]) = {s}
      BY <2>1, <2>2, <2>3 DEF Lists
    <3>2. p \in found /\ first[p] = s
      BY <1>1, <3>1
    <3>3. QED
      BY <1>6, <3>2
  <2>4. CASE i # 1
    <3> HIDE DEF n, rest, queue, known, found
    <3>1. i - 1 \in 1..n - 1 /\ (i - 1) + 1 = i
      BY <2>1, <2>2, <2>4
    <3>2. i - 1 \in DOMAIN rest /\ Lists(rest[i - 1], s, p)
      BY <2>1, <2>2, <3>1
    <3>3. inbox'[Mapper] = rest
      BY <1>5 DEF rest, queue
    <3>4. QED
      BY <3>2, <3>3 DEF Listed
  <2>5. QED
    BY <2>3, <2>4
<1>9. ASSUME NEW p \in Paths \ excused' PROVE OneConcerned(p)' /\ Told(p)'
  <2>1. p \in Paths \ excused /\ phase # "down"
    BY <1>2
  <2>2. ASSUME NEW s \in Services, Asking(s, p) PROVE Asking(s, p)'
    BY <1>2, <1>5, <1>6, <1>8, <2>2 DEF Asking
  <2>3. QED
    BY <1>2, <1>5, <2>1, <2>2, Carry
<1>10. Down' /\ Right'
  BY <1>2, <1>9 DEF Down, Right
<1>11. QED
  BY <1>7, <1>10 DEF CbcInv

\* A daemon that starts has shown nothing, and is going to ask for everything.
LEMMA MatchesStep ==
    ASSUME CbcInv, Matches PROVE CbcInv'
<1>1. /\ phase = "down" /\ phase' = "matched"
      /\ excused' = {p \in Paths : \E s \in Services : objects[s][p] # None /\ Contested(s, p)}
      /\ UNCHANGED <<objects, cableChanges, inbox, asked, cbcObjects, faults>>
  BY DEF Matches, cables
<1>2. /\ \A s \in Services : inbox'[s] = <<>>
      /\ \A p \in Paths : cbcObjects'[p] = None
  BY <1>1 DEF CbcInv, Down
<1>3. CbcTypeOK'
  BY <1>1 DEF CbcInv, CbcTypeOK
<1>4. \A p \in Paths, s \in Services : ~Sent(inbox'[s], p)
  BY <1>2 DEF Sent
<1>5. ASSUME NEW p \in Paths \ excused' PROVE OneConcerned(p)' /\ Told(p)'
  <2>1. \A s, t \in Services : s # t => objects[s][p] = None \/ objects[t][p] = None
    BY <1>1 DEF Contested
  <2>2. \A s \in Services : Concerned(s, p)' => objects'[s][p] # None /\ objects'[s][p] = objects[s][p]
    BY <1>1, <1>4 DEF Concerned
  <2>3. OneConcerned(p)'
    BY <2>1, <2>2 DEF OneConcerned
  <2>4. ASSUME NEW s \in Services, Concerned(s, p)' PROVE ToldRight(s, p)'
    <3>1. WillShow(inbox'[s], p, cbcObjects'[p], None)
      BY <1>2, <1>4, NothingSaid
    <3>2. objects'[s][p] \in Values
      BY <1>3, <2>2, <2>4 DEF CbcTypeOK
    <3>3. CASE objects'[s][p] = Unset
      BY <3>1, <3>3, NothingToShow DEF ToldRight
    <3>4. CASE objects'[s][p] \in Fields
      BY <1>1, <3>1, <3>4 DEF ToldRight, Asking
    <3>5. QED
      BY <3>2, <3>3, <3>4 DEF Values
  <2>5. QED
    BY <1>2, <2>3, <2>4 DEF Told
<1>6. Down' /\ Right'
  BY <1>1, <1>5 DEF Down, Right
<1>7. QED
  BY <1>3, <1>6 DEF CbcInv

LEMMA CrashStep ==
    ASSUME CbcInv, Crash PROVE CbcInv'
<1>1. /\ faults < MaxFaults /\ faults' = faults + 1
      /\ phase' = "down"
      /\ cbcObjects' = [p \in Paths |-> None]
      /\ inbox' = [q \in Services \cup {Mapper} |-> <<>>]
      /\ asked' = [s \in Services |-> <<>>]
      /\ UNCHANGED <<objects, cableChanges, excused>>
  BY DEF Crash, Fault, cables, CbcInv, CbcTypeOK
<1>2. \A S : <<>> \in Seq(S)
  OBVIOUS
<1>3. inbox'[Mapper] = <<>> /\ \A s \in Services : inbox'[s] = <<>>
  BY <1>1
<1>4. faults' \in 0..MaxFaults
  BY <1>1, BoundsAssumption DEF CbcInv, CbcTypeOK
<1>5. CbcTypeOK'
  BY <1>1, <1>2, <1>3, <1>4 DEF CbcInv, CbcTypeOK
<1>6. Down' /\ Right'
  BY <1>1 DEF Down, Right
<1>7. QED
  BY <1>5, <1>6 DEF CbcInv

-----------------------------------------------------------------------------
LEMMA InitIsRight ==
    ASSUME CbcInit PROVE CbcInv
<1>1. <<>> \in Seq(Messages) /\ <<>> \in Seq(Answers) /\ <<>> \in Seq(Paths)
  OBVIOUS
<1>2. objects \in [Services -> [Paths -> Values \cup {None}]]
  BY DEF CbcInit, Values
<1>3. DOMAIN inbox = Services \cup {Mapper} /\ \A q \in Services \cup {Mapper} : inbox[q] = <<>>
  BY DEF CbcInit
<1>4. CbcTypeOK
  BY <1>1, <1>2, <1>3, BoundsAssumption DEF CbcInit, CbcTypeOK
<1>5. Down /\ Right
  BY <1>3 DEF CbcInit, Down, Right
<1>6. QED
  BY <1>4, <1>5 DEF CbcInv

LEMMA CbcStep ==
    ASSUME CbcInv, [CbcNext]_cbcVars PROVE CbcInv'
<1>1. CASE UNCHANGED cbcVars
  BY <1>1 DEF cbcVars, CbcInv, CbcTypeOK, Down, Right, OneConcerned, Told, Concerned, ToldRight, Asking
<1>2. CASE Start
  BY <1>2, MatchesStep, DiscoverStep DEF Start
<1>3. CASE Handler
  BY <1>3, PropertiesChangedStep, InterfacesAddedStep, InterfacesRemovedStep, ValueReadStep,
     SetupStep DEF Handler
<1>4. CASE Crash
  BY <1>4, CrashStep
<1>5. CASE CbcEnvironment
  BY <1>5, AppearsStep, FieldChangesStep, VanishesStep, DiesStep DEF CbcEnvironment
<1>6. CASE \E s \in Services : AnswersGet(s)
  BY <1>6, AnswersGetStep
<1>7. QED
  BY <1>1, <1>2, <1>3, <1>4, <1>5, <1>6 DEF CbcNext

LEMMA CbcInvHolds == CbcSpec => []CbcInv
<1>1. CbcInit => CbcInv
  BY InitIsRight
<1>2. CbcInv /\ [CbcNext]_cbcVars => CbcInv'
  BY CbcStep
<1>3. QED
  BY <1>1, <1>2, PTL DEF CbcSpec

\* Types, for any services, paths and fields: a service's inbox holds its own kinds of
\* messages, each about one path, and the mapper's holds its answers.
THEOREM CbcTypeCorrect == CbcSpec => []CbcTypeOK
<1>1. CbcInv => CbcTypeOK
  BY DEF CbcInv
<1>2. QED
  BY <1>1, CbcInvHolds, PTL

\* While the daemon runs, a cartridge's path shows the numbers of the field it has, or
\* a message or a call about it is under way.
THEOREM CartridgesAreFollowed == CbcSpec => []NothingIsMissed
<1>1. ASSUME CbcInv PROVE NothingIsMissed
  <2> SUFFICES ASSUME NEW p \in Paths \ excused, phase = "running",
                      \A q \in DOMAIN inbox : ~About(q, p),
                      \A s \in Services : p \notin ToSet(asked[s])
               PROVE  Agrees(p)
    BY DEF NothingIsMissed
  <2>1. /\ DOMAIN inbox = Services \cup {Mapper} /\ OneConcerned(p) /\ Told(p)
        /\ \A s \in Services : p \notin Range(asked[s])
    BY <1>1 DEF CbcInv, CbcTypeOK, Right, ToSet, Range
  <2>2. \A s \in Services : ~Sent(inbox[s], p) /\ ~Asking(s, p)
    BY <2>1 DEF About, Sent, Says, Calls, Asking, Called, Listed, Lists
  <2>3. CASE \A s \in Services : objects[s][p] = None
    BY <2>1, <2>2, <2>3 DEF Told, Concerned, Agrees, Due
  <2>4. CASE \E s \in Services : objects[s][p] # None
    <3>1. PICK s \in Services : objects[s][p] # None
      BY <2>4
    <3>2. /\ \A t \in Services : objects[t][p] # None => t = s
          /\ ToldRight(s, p)
      BY <2>1, <3>1 DEF OneConcerned, Told, Concerned
    <3>3. cbcObjects[p] = ShownFor(objects[s][p])
      BY <2>2, <3>2, NothingSaid DEF ToldRight
    <3>4. Due(p) = IF parseTrayTopology(objects[s][p]) THEN {Numbers(objects[s][p])} ELSE {}
      BY <3>1, <3>2 DEF Due
    <3>5. QED
      BY <3>1, <3>3, <3>4 DEF Agrees, ShownFor
  <2>5. QED
    BY <2>3, <2>4
<1>2. QED
  BY <1>1, CbcInvHolds, PTL

=============================================================================
