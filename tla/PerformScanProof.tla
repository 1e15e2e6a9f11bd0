--------------------------- MODULE PerformScanProof ---------------------------
(***************************************************************************)
(* Theorems about a rescan, for any configurations that depend on each     *)
(* other in any way, any paths and interfaces, any number of changes of    *)
(* the hardware, and any number of retries.                                *)
(***************************************************************************)
EXTENDS PerformScan, QueueLemmas

-----------------------------------------------------------------------------
(* The invariant *)

\* A configuration whose probe does not parse stops the walk over those loaded
\* behind it (processConfigurations), so what is said of all configurations is
\* said for those that parse.
EveryProbeParses == \A c \in Config : Command[c] # <<>>

\* Nothing known is ever missing: run() strikes it off.
NothingMissing == missing = {}

\* Calls are outstanding in one phase only, what passed is forgotten between two
\* passes, and the mapper is asked again only with a retry left.
PhaseOf ==
    /\ phase # "calls" => calls = {}
    /\ phase = "calls" => calls # {}
    /\ phase \in {"idle", "posted"} => ~passed
    /\ phase = "mapperWait" => retries > 0

Active == {"posted", "mapper", "mapperWait", "calls"}

\* No configuration is lost on the way: it is left to be probed or has passed.
Listed ==
    phase \in Active => \A c \in Config : Raw(c) \in passedProbes \/ c \in Range(configurations)

Fails(c, objects, names) == ~DoProbe(Command[c], objects, names).ret

\* What a walk leaves: held for the replies, or evaluated in vain unless something passed.
Walked ==
    phase \in Active \ {"posted"} =>
        \A c \in Config :
            \/ Raw(c) \in passedProbes
            \/ c \in Range(held)
            \/ Interfaces(c) = {} /\ (passed \/ Fails(c, NothingRead, passedProbes))

\* After a scan nothing left over would pass.
AtFixpoint ==
    phase = "idle" /\ ~dirty =>
        \A c \in Config :
            Raw(c) \in passedProbes \/ Fails(c, dbusProbeObjects, passedProbes)

\* A signal is on the way that will ask for another scan.
Dirtying(s) == s.kind # "changed" \/ s.path \in dbusMatches
WillScan == dirty \/ \E s \in Range(signals) : Dirtying(s)

\* What has been read, is matched and still so.
ReadIsCurrent ==
    \A p \in Path, i \in Interface :
        dbusProbeObjects[p][i] # NoValue =>
            p \in dbusMatches /\ bus[p][i] = dbusProbeObjects[p][i]

\* A GetAll call is outstanding, or is to be made again.
Asked(p, i) == \E call \in calls : call.path = p /\ call.interface = i

CallsAreMatched ==
    \A p \in Path, i \in Interface :
        Asked(p, i) => p \in dbusMatches /\ bus[p][i] # NoValue

\* An object of which anything is or will be read.
Seen(p) == \E i \in Interface : dbusProbeObjects[p][i] # NoValue \/ Asked(p, i)

\* All of an object is read, or will be.
AllIsRead ==
    \A p \in Path : Seen(p) =>
        \A i \in Interface : dbusProbeObjects[p][i] = bus[p][i] \/ Asked(p, i)

\* Every object with the interface is one of those.
Covered(i) == \A p \in Path : bus[p][i] # NoValue => Seen(p)

\* A configuration with a fixed name and a record: it passes without being probed.
Configured(c, system) == Naming[c] = "fixed" /\ \E r \in DOMAIN system : r[1] = c

AllIsSeen ==
    \A c \in Config :
        \/ Configured(c, systemConfiguration)
        \/ \A i \in Interfaces(c) :
              \/ Covered(i)
              \/ /\ phase \in {"mapper", "mapperWait", "exited"}
                 /\ i \in wanted
                 /\ Raw(c) \notin passedProbes

\* The devices a probe that passes has found.
DevicesOf(c, objects) ==
    LET end == Evaluated(Command[c], objects, {})
    IN  Chosen(TRUE, end.matchOne, end.devices)

\* The devices a configuration has found have their records.
Recorded(c, objects, system) ==
    IF Naming[c] = "fixed" THEN \E r \in DOMAIN system : r[1] = c
    ELSE \A v \in Range(DevicesOf(c, objects)) : RecordName(c, v) \in DOMAIN system

PassedAreRecorded ==
    \A c \in Config : Raw(c) \in passedProbes => Recorded(c, bus, systemConfiguration)

Known == ReadIsCurrent /\ CallsAreMatched /\ AllIsRead /\ AllIsSeen /\ PassedAreRecorded

\* What a scan without failing calls knows while no change is waiting to be heard of.
KnowsTheBus == ~WillScan /\ ~gaveUp => Known

-----------------------------------------------------------------------------
(* Folds: what is behind each of them. *)

\* What is found on the first n paths.
Matches(f, view, values) ==
    /\ f[0] = <<>>
    /\ \A n \in 1..Len(PathOrder) : f[n] = Match(f[n - 1], view[PathOrder[n]], values)

LEMMA MatchingIs ==
    ASSUME NEW view, NEW values, Len(PathOrder) \in Nat
    PROVE  \E f : Matching(view, values) = f[Len(PathOrder)] /\ Matches(f, view, values)
<1> DEFINE N == Len(PathOrder)
           Is(f, m) == f = [n \in 0..m |-> IF n = 0 THEN <<>>
                                ELSE Match(f[n - 1], view[PathOrder[n]], values)]
           T == {m \in 0..N : \E f : Is(f, m)}
<1>1. 0 \in T
  <2>1. 0 \in 0..N /\ Is([n \in 0..0 |-> <<>>], 0)
    OBVIOUS
  <2> HIDE DEF Is
  <2>2. QED
    BY <2>1
<1>2. ASSUME NEW m \in 0..N - 1, m \in T PROVE m + 1 \in T
  <2>1. PICK f : Is(f, m)
    BY <1>2
  <2> DEFINE g == [n \in 0..m + 1 |-> IF n = m + 1
                      THEN Match(f[m], view[PathOrder[m + 1]], values) ELSE f[n]]
  <2>2. m + 1 \in 0..N /\ Is(g, m + 1)
    BY <2>1
  <2> HIDE DEF g, Is
  <2>3. QED
    BY <2>2
<1>3. \E f : Is(f, N)
  <2>1. N \in Nat /\ N \in 0..N
    OBVIOUS
  <2> HIDE DEF T, N
  <2>2. N \in T
    BY <1>1, <1>2, <2>1, UpTo
  <2> USE DEF T
  <2>3. QED
    BY <2>2
<1>4. Matching(view, values) = (CHOOSE f : Is(f, N))[N]
  BY DEF Matching, Fold
<1>5. PICK f : Is(f, N) /\ f = CHOOSE h : Is(h, N)
  <2> HIDE DEF Is
  <2>1. QED
    BY <1>3
<1>6. f[N] = Matching(view, values)
  <2> HIDE DEF Is
  <2>1. QED
    BY <1>4, <1>5
<1>7. Matches(f, view, values)
  BY <1>5 DEF Matches
<1>8. QED
  BY <1>6, <1>7

\* What is known of a probe after its first n tokens.
EvaluatesTokens(f, command, objects, names) ==
    /\ f[0] = NoToken
    /\ \A n \in 1..Len(command) : f[n] = EvaluateToken(f[n - 1], command[n], objects, names)

LEMMA EvaluatedIs ==
    ASSUME NEW command, Len(command) \in Nat, NEW objects, NEW names
    PROVE  \E f : Evaluated(command, objects, names) = f[Len(command)] /\ EvaluatesTokens(f, command, objects, names)
<1> DEFINE N == Len(command)
           Is(f, m) == f = [n \in 0..m |-> IF n = 0 THEN NoToken
                                ELSE EvaluateToken(f[n - 1], command[n], objects, names)]
           T == {m \in 0..N : \E f : Is(f, m)}
<1>1. 0 \in T
  <2>1. 0 \in 0..N /\ Is([n \in 0..0 |-> NoToken], 0)
    OBVIOUS
  <2> HIDE DEF Is
  <2>2. QED
    BY <2>1
<1>2. ASSUME NEW m \in 0..N - 1, m \in T PROVE m + 1 \in T
  <2>1. PICK f : Is(f, m)
    BY <1>2
  <2> DEFINE g == [n \in 0..m + 1 |-> IF n = m + 1
                      THEN EvaluateToken(f[m], command[m + 1], objects, names) ELSE f[n]]
  <2>2. m + 1 \in 0..N /\ Is(g, m + 1)
    BY <2>1
  <2> HIDE DEF g, Is
  <2>3. QED
    BY <2>2
<1>3. \E f : Is(f, N)
  <2>1. N \in Nat /\ N \in 0..N
    OBVIOUS
  <2> HIDE DEF T, N
  <2>2. N \in T
    BY <1>1, <1>2, <2>1, UpTo
  <2> USE DEF T
  <2>3. QED
    BY <2>2
<1>4. Evaluated(command, objects, names) = (CHOOSE f : Is(f, N))[N]
  BY DEF Evaluated, Fold
<1>5. PICK f : Is(f, N) /\ f = CHOOSE h : Is(h, N)
  <2> HIDE DEF Is
  <2>1. QED
    BY <1>3
<1>6. f[N] = Evaluated(command, objects, names)
  <2> HIDE DEF Is
  <2>1. QED
    BY <1>4, <1>5
<1>7. EvaluatesTokens(f, command, objects, names)
  BY <1>5 DEF EvaluatesTokens
<1>8. QED
  BY <1>6, <1>7

\* What is configured after the first n devices were looked up in the last boot.
Restores(f, e, c, devices) ==
    /\ f[0] = NoneRestored(e)
    /\ \A n \in 1..Len(devices) : f[n] = RestoreDevice(f[n - 1], c, devices[n])

LEMMA RestoredIs ==
    ASSUME NEW e, NEW c, NEW devices, Len(devices) \in Nat
    PROVE  \E f : Restored(e, c, devices) = f[Len(devices)] /\ Restores(f, e, c, devices)
<1> DEFINE N == Len(devices)
           Is(f, m) == f = [n \in 0..m |-> IF n = 0 THEN NoneRestored(e)
                                ELSE RestoreDevice(f[n - 1], c, devices[n])]
           T == {m \in 0..N : \E f : Is(f, m)}
<1>1. 0 \in T
  <2>1. 0 \in 0..N /\ Is([n \in 0..0 |-> NoneRestored(e)], 0)
    OBVIOUS
  <2> HIDE DEF Is
  <2>2. QED
    BY <2>1
<1>2. ASSUME NEW m \in 0..N - 1, m \in T PROVE m + 1 \in T
  <2>1. PICK f : Is(f, m)
    BY <1>2
  <2> DEFINE g == [n \in 0..m + 1 |-> IF n = m + 1
                      THEN RestoreDevice(f[m], c, devices[m + 1]) ELSE f[n]]
  <2>2. m + 1 \in 0..N /\ Is(g, m + 1)
    BY <2>1
  <2> HIDE DEF g, Is
  <2>3. QED
    BY <2>2
<1>3. \E f : Is(f, N)
  <2>1. N \in Nat /\ N \in 0..N
    OBVIOUS
  <2> HIDE DEF T, N
  <2>2. N \in T
    BY <1>1, <1>2, <2>1, UpTo
  <2> USE DEF T
  <2>3. QED
    BY <2>2
<1>4. Restored(e, c, devices) = (CHOOSE f : Is(f, N))[N]
  BY DEF Restored, NoneRestored, Fold
<1>5. PICK f : Is(f, N) /\ f = CHOOSE h : Is(h, N)
  <2> HIDE DEF Is
  <2>1. QED
    BY <1>3
<1>6. f[N] = Restored(e, c, devices)
  <2> HIDE DEF Is
  <2>1. QED
    BY <1>4, <1>5
<1>7. Restores(f, e, c, devices)
  BY <1>5 DEF Restores
<1>8. QED
  BY <1>6, <1>7

\* And after the first n of those that are new.
Adds(f, e, c, new, indexes) ==
    /\ f[0] = [e |-> e, indexes |-> indexes]
    /\ \A n \in 1..Len(new) : f[n] = AddDevice(f[n - 1], c, new[n])

LEMMA AddedIs ==
    ASSUME NEW e, NEW c, NEW new, Len(new) \in Nat, NEW indexes
    PROVE  \E f : Added(e, c, new, indexes) = f[Len(new)] /\ Adds(f, e, c, new, indexes)
<1> DEFINE N == Len(new)
           Is(f, m) == f = [n \in 0..m |-> IF n = 0 THEN [e |-> e, indexes |-> indexes]
                                ELSE AddDevice(f[n - 1], c, new[n])]
           T == {m \in 0..N : \E f : Is(f, m)}
<1>1. 0 \in T
  <2>1. 0 \in 0..N /\ Is([n \in 0..0 |-> [e |-> e, indexes |-> indexes]], 0)
    OBVIOUS
  <2> HIDE DEF Is
  <2>2. QED
    BY <2>1
<1>2. ASSUME NEW m \in 0..N - 1, m \in T PROVE m + 1 \in T
  <2>1. PICK f : Is(f, m)
    BY <1>2
  <2> DEFINE g == [n \in 0..m + 1 |-> IF n = m + 1
                      THEN AddDevice(f[m], c, new[m + 1]) ELSE f[n]]
  <2>2. m + 1 \in 0..N /\ Is(g, m + 1)
    BY <2>1
  <2> HIDE DEF g, Is
  <2>3. QED
    BY <2>2
<1>3. \E f : Is(f, N)
  <2>1. N \in Nat /\ N \in 0..N
    OBVIOUS
  <2> HIDE DEF T, N
  <2>2. N \in T
    BY <1>1, <1>2, <2>1, UpTo
  <2> USE DEF T
  <2>3. QED
    BY <2>2
<1>4. Added(e, c, new, indexes) = (CHOOSE f : Is(f, N))[N]
  BY DEF Added, Fold
<1>5. PICK f : Is(f, N) /\ f = CHOOSE h : Is(h, N)
  <2> HIDE DEF Is
  <2>1. QED
    BY <1>3
<1>6. f[N] = Added(e, c, new, indexes)
  <2> HIDE DEF Is
  <2>1. QED
    BY <1>4, <1>5
<1>7. Adds(f, e, c, new, indexes)
  BY <1>5 DEF Adds
<1>8. QED
  BY <1>6, <1>7

\* After the first n probes were evaluated.
Evaluates(f, e, probes) ==
    /\ f[0] = e
    /\ \A n \in 1..Len(probes) : f[n] = Evaluate(f[n - 1], probes[n])

LEMMA EvaluateAllIs ==
    ASSUME NEW e, NEW probes, Len(probes) \in Nat
    PROVE  \E f : EvaluateAll(e, probes) = f[Len(probes)] /\ Evaluates(f, e, probes)
<1> DEFINE N == Len(probes)
           Is(f, m) == f = [n \in 0..m |-> IF n = 0 THEN e
                                ELSE Evaluate(f[n - 1], probes[n])]
           T == {m \in 0..N : \E f : Is(f, m)}
<1>1. 0 \in T
  <2>1. 0 \in 0..N /\ Is([n \in 0..0 |-> e], 0)
    OBVIOUS
  <2> HIDE DEF Is
  <2>2. QED
    BY <2>1
<1>2. ASSUME NEW m \in 0..N - 1, m \in T PROVE m + 1 \in T
  <2>1. PICK f : Is(f, m)
    BY <1>2
  <2> DEFINE g == [n \in 0..m + 1 |-> IF n = m + 1
                      THEN Evaluate(f[m], probes[m + 1]) ELSE f[n]]
  <2>2. m + 1 \in 0..N /\ Is(g, m + 1)
    BY <2>1
  <2> HIDE DEF g, Is
  <2>3. QED
    BY <2>2
<1>3. \E f : Is(f, N)
  <2>1. N \in Nat /\ N \in 0..N
    OBVIOUS
  <2> HIDE DEF T, N
  <2>2. N \in T
    BY <1>1, <1>2, <2>1, UpTo
  <2> USE DEF T
  <2>3. QED
    BY <2>2
<1>4. EvaluateAll(e, probes) = (CHOOSE f : Is(f, N))[N]
  BY DEF EvaluateAll, Fold
<1>5. PICK f : Is(f, N) /\ f = CHOOSE h : Is(h, N)
  <2> HIDE DEF Is
  <2>1. QED
    BY <1>3
<1>6. f[N] = EvaluateAll(e, probes)
  <2> HIDE DEF Is
  <2>1. QED
    BY <1>4, <1>5
<1>7. Evaluates(f, e, probes)
  BY <1>5 DEF Evaluates
<1>8. QED
  BY <1>6, <1>7

\* After the first n configurations were walked over.
Walks(f, e, todo) ==
    /\ f[0] = NoneWalked(e)
    /\ \A n \in 1..Len(todo) : f[n] = Walk(f[n - 1], todo[n])

LEMMA WalkAllIs ==
    ASSUME NEW e, NEW todo, Len(todo) \in Nat
    PROVE  \E f : WalkAll(e, todo) = f[Len(todo)] /\ Walks(f, e, todo)
<1> DEFINE N == Len(todo)
           Is(f, m) == f = [n \in 0..m |-> IF n = 0 THEN NoneWalked(e)
                                ELSE Walk(f[n - 1], todo[n])]
           T == {m \in 0..N : \E f : Is(f, m)}
<1>1. 0 \in T
  <2>1. 0 \in 0..N /\ Is([n \in 0..0 |-> NoneWalked(e)], 0)
    OBVIOUS
  <2> HIDE DEF Is
  <2>2. QED
    BY <2>1
<1>2. ASSUME NEW m \in 0..N - 1, m \in T PROVE m + 1 \in T
  <2>1. PICK f : Is(f, m)
    BY <1>2
  <2> DEFINE g == [n \in 0..m + 1 |-> IF n = m + 1
                      THEN Walk(f[m], todo[m + 1]) ELSE f[n]]
  <2>2. m + 1 \in 0..N /\ Is(g, m + 1)
    BY <2>1
  <2> HIDE DEF g, Is
  <2>3. QED
    BY <2>2
<1>3. \E f : Is(f, N)
  <2>1. N \in Nat /\ N \in 0..N
    OBVIOUS
  <2> HIDE DEF T, N
  <2>2. N \in T
    BY <1>1, <1>2, <2>1, UpTo
  <2> USE DEF T
  <2>3. QED
    BY <2>2
<1>4. WalkAll(e, todo) = (CHOOSE f : Is(f, N))[N]
  BY DEF WalkAll, NoneWalked, Fold
<1>5. PICK f : Is(f, N) /\ f = CHOOSE h : Is(h, N)
  <2> HIDE DEF Is
  <2>1. QED
    BY <1>3
<1>6. f[N] = WalkAll(e, todo)
  <2> HIDE DEF Is
  <2>1. QED
    BY <1>4, <1>5
<1>7. Walks(f, e, todo)
  BY <1>5 DEF Walks
<1>8. QED
  BY <1>6, <1>7


-----------------------------------------------------------------------------
(* Probes *)

\* A statement finds values it matches.
LEMMA MatchingType ==
    ASSUME NEW view, NEW values
    PROVE  Matching(view, values) \in Seq(values)
<1>0. Len(PathOrder) \in Nat
  BY PathOrderAssumption
<1>1. PICK f : Matching(view, values) = f[Len(PathOrder)] /\ Matches(f, view, values)
  BY <1>0, MatchingIs
<1> DEFINE T == {n \in 0..Len(PathOrder) : f[n] \in Seq(values)}
<1>2. 0 \in T
  <2>1. f[0] = <<>> /\ <<>> \in Seq(values) /\ 0 \in 0..Len(PathOrder)
    BY <1>0, <1>1 DEF Matches
  <2>2. QED
    BY <2>1
<1>3. ASSUME NEW n \in 0..Len(PathOrder) - 1, n \in T PROVE n + 1 \in T
  <2>1. f[n + 1] = Match(f[n], view[PathOrder[n + 1]], values)
    <3>1. n + 1 \in 1..Len(PathOrder) /\ (n + 1) - 1 = n
      BY <1>0
    <3>2. QED
      BY <1>1, <3>1 DEF Matches
  <2>2. f[n] \in Seq(values)
    BY <1>3
  <2>3. Match(f[n], view[PathOrder[n + 1]], values) \in Seq(values)
    BY <2>2 DEF Match
  <2>4. n + 1 \in 0..Len(PathOrder)
    BY <1>0
  <2>5. QED
    BY <2>1, <2>3, <2>4
<1>4. Len(PathOrder) \in T
  <2>1. Len(PathOrder) \in 0..Len(PathOrder)
    BY <1>0
  <2> HIDE DEF T
  <2>2. QED
    BY <1>0, <1>2, <1>3, <2>1, UpTo
<1>5. QED
  BY <1>1, <1>4

\* A probe reads its own interfaces only.
Agree(c, o1, o2) == \A i \in Interfaces(c), p \in Path : o1[p][i] = o2[p][i]

LEMMA TokensOf ==
    ASSUME NEW c \in Config
    PROVE  /\ Len(Command[c]) \in Nat
           /\ \A n \in 1..Len(Command[c]) :
                 /\ Command[c][n] \in Token
                 /\ Command[c][n].type = "dbusProbe" =>
                       /\ Command[c][n].interface \in Interfaces(c)
                       /\ Command[c][n].values \subseteq Value
<1>1. Command[c] \in Seq(Token)
  BY CommandAssumption
<1>2. ASSUME NEW n \in 1..Len(Command[c]), Command[c][n].type = "dbusProbe"
      PROVE  /\ Command[c][n].interface \in Interfaces(c)
             /\ Command[c][n].values \subseteq Value
  <2>1. Command[c][n] \in Range(Command[c])
    BY <1>1, RangeAt
  <2>2. Command[c][n].interface \in Interfaces(c)
    BY <1>2, <2>1 DEF Interfaces
  <2>3. Command[c][n] \in Token
    BY <1>1
  <2>4. Command[c][n] \in [type : {"dbusProbe"}, interface : Interface, values : SUBSET Value]
    BY <1>2, <2>3 DEF Token, Keywords, Operators
  <2>5. QED
    BY <2>2, <2>4
<1>3. QED
  BY <1>1, <1>2

LEMMA ProbeIsLocal ==
    ASSUME NEW c \in Config, NEW o1, NEW o2, NEW names, Agree(c, o1, o2)
    PROVE  /\ Evaluated(Command[c], o1, names) = Evaluated(Command[c], o2, names)
           /\ DoProbe(Command[c], o1, names) = DoProbe(Command[c], o2, names)
<1> DEFINE N == Len(Command[c])
<1>0. N \in Nat
  BY TokensOf
<1>1. PICK f : /\ Evaluated(Command[c], o1, names) = f[N]
               /\ EvaluatesTokens(f, Command[c], o1, names)
  BY <1>0, EvaluatedIs
<1>2. PICK g : /\ Evaluated(Command[c], o2, names) = g[N]
               /\ EvaluatesTokens(g, Command[c], o2, names)
  BY <1>0, EvaluatedIs
<1> DEFINE T == {n \in 0..N : f[n] = g[n]}
<1>3. 0 \in T
  BY <1>0, <1>1, <1>2 DEF EvaluatesTokens
<1>4. ASSUME NEW n \in 0..N - 1, n \in T PROVE n + 1 \in T
  <2> DEFINE t == Command[c][n + 1]
  <2>1. n + 1 \in 1..N /\ (n + 1) - 1 = n /\ n + 1 \in 0..N
    BY <1>0
  <2>2. /\ f[n + 1] = EvaluateToken(f[n], t, o1, names)
        /\ g[n + 1] = EvaluateToken(g[n], t, o2, names)
    BY <1>1, <1>2, <2>1 DEF EvaluatesTokens
  <2>3. t.type = "dbusProbe" => Devices(t, o1) = Devices(t, o2)
    <3>1. SUFFICES ASSUME t.type = "dbusProbe" PROVE Devices(t, o1) = Devices(t, o2)
      OBVIOUS
    <3>2. t.interface \in Interfaces(c)
      BY <2>1, <3>1, TokensOf
    <3>3. [p \in Path |-> o1[p][t.interface]] = [p \in Path |-> o2[p][t.interface]]
      BY <3>2 DEF Agree
    <3>4. QED
      BY <3>3 DEF Devices
  <2> HIDE DEF t
  <2>4. \A s : Outcome(t, s, o1, names) = Outcome(t, s, o2, names)
    BY <2>3 DEF Outcome
  <2>5. EvaluateToken(f[n], t, o1, names) = EvaluateToken(f[n], t, o2, names)
    BY <2>3, <2>4 DEF EvaluateToken
  <2>6. f[n] = g[n]
    BY <1>4
  <2>7. QED
    BY <2>1, <2>2, <2>5, <2>6
<1>5. N \in T
  <2> HIDE DEF T, N
  <2>1. N \in 0..N
    BY <1>0
  <2>2. QED
    BY <1>0, <1>3, <1>4, <2>1, UpTo
<1>6. Evaluated(Command[c], o1, names) = Evaluated(Command[c], o2, names)
  BY <1>1, <1>2, <1>5
<1>7. QED
  BY <1>6 DEF DoProbe

\* The devices a probe has found are the same whatever has passed by then.
LEMMA DevicesWhateverPassed ==
    ASSUME NEW c \in Config, NEW objects, NEW n1, NEW n2
    PROVE  /\ Evaluated(Command[c], objects, n1).devices
                 = Evaluated(Command[c], objects, n2).devices
           /\ Evaluated(Command[c], objects, n1).matchOne
                 = Evaluated(Command[c], objects, n2).matchOne
           /\ Evaluated(Command[c], objects, n1).devices \in Seq(Value)
<1> DEFINE N == Len(Command[c])
<1>0. N \in Nat
  BY TokensOf
<1>1. PICK f : /\ Evaluated(Command[c], objects, n1) = f[N]
               /\ EvaluatesTokens(f, Command[c], objects, n1)
  BY <1>0, EvaluatedIs
<1>2. PICK g : /\ Evaluated(Command[c], objects, n2) = g[N]
               /\ EvaluatesTokens(g, Command[c], objects, n2)
  BY <1>0, EvaluatedIs
<1> DEFINE Same(n) == /\ f[n].devices = g[n].devices
                      /\ f[n].matchOne = g[n].matchOne
                      /\ f[n].devices \in Seq(Value)
           T == {n \in 0..N : Same(n)}
<1>3. 0 \in T
  <2>1. f[0] = NoToken /\ g[0] = NoToken
    BY <1>1, <1>2 DEF EvaluatesTokens
  <2>2. 0 \in 0..N
    BY <1>0
  <2>3. Same(0)
    BY <2>1 DEF NoToken
  <2>4. QED
    BY <2>2, <2>3
<1>4. ASSUME NEW n \in 0..N - 1, n \in T PROVE n + 1 \in T
  <2> DEFINE t == Command[c][n + 1]
  <2>1. n + 1 \in 1..N /\ (n + 1) - 1 = n /\ n + 1 \in 0..N
    BY <1>0
  <2>2. /\ f[n + 1] = EvaluateToken(f[n], t, objects, n1)
        /\ g[n + 1] = EvaluateToken(g[n], t, objects, n2)
    BY <1>1, <1>2, <2>1 DEF EvaluatesTokens
  <2>3. t.type = "dbusProbe" => Devices(t, objects) \in Seq(Value)
    <3>1. SUFFICES ASSUME t.type = "dbusProbe" PROVE Devices(t, objects) \in Seq(Value)
      OBVIOUS
    <3>2. t.values \subseteq Value
      BY <2>1, <3>1, TokensOf
    <3>3. Devices(t, objects) \in Seq(t.values)
      BY MatchingType DEF Devices
    <3>4. QED
      BY <3>2, <3>3
  <2>4. Same(n)
    BY <1>4
  <2> HIDE DEF t
  <2>5. \A s, names : /\ EvaluateToken(s, t, objects, names).matchOne
                           = (s.matchOne \/ t.type = "matchOne")
                      /\ EvaluateToken(s, t, objects, names).devices
                           = IF t.type = "dbusProbe" THEN s.devices \o Devices(t, objects)
                             ELSE s.devices
    BY DEF EvaluateToken
  <2>6. /\ f[n + 1].matchOne = (f[n].matchOne \/ t.type = "matchOne")
        /\ g[n + 1].matchOne = (g[n].matchOne \/ t.type = "matchOne")
        /\ f[n + 1].devices = IF t.type = "dbusProbe" THEN f[n].devices \o Devices(t, objects)
                              ELSE f[n].devices
        /\ g[n + 1].devices = IF t.type = "dbusProbe" THEN g[n].devices \o Devices(t, objects)
                              ELSE g[n].devices
    BY <2>2, <2>5
  <2>7. f[n + 1].matchOne = g[n + 1].matchOne
    BY <2>4, <2>6
  <2>8. f[n + 1].devices = g[n + 1].devices
    BY <2>4, <2>6
  <2>9. f[n + 1].devices \in Seq(Value)
    <3>1. t.type = "dbusProbe" => f[n].devices \o Devices(t, objects) \in Seq(Value)
      BY <2>3, <2>4, ConcatProperties
    <3>2. QED
      BY <2>4, <2>6, <3>1
  <2>10. QED
    BY <2>1, <2>7, <2>8, <2>9
<1>5. N \in T
  <2> HIDE DEF T, N
  <2>1. N \in 0..N
    BY <1>0
  <2>2. QED
    BY <1>0, <1>3, <1>4, <2>1, UpTo
<1>6. QED
  BY <1>1, <1>2, <1>5

LEMMA ChosenType ==
    ASSUME NEW S, NoValue \in S, NEW ds \in Seq(S), NEW m
    PROVE  Chosen(TRUE, m, ds) \in Seq(S) /\ Chosen(TRUE, m, ds) # <<>>
<1> DEFINE found == IF ds = <<>> THEN <<NoValue>> ELSE ds
<1>1. found \in Seq(S) /\ found # <<>>
  <2>1. <<NoValue>> \in Seq(S) /\ <<NoValue>> # <<>>
    OBVIOUS
  <2>2. QED
    BY <2>1
<1>2. Chosen(TRUE, m, ds) = IF m THEN <<found[Len(found)]>> ELSE found
  BY DEF Chosen, KeepLast
<1> HIDE DEF found
<1>3. found[Len(found)] \in S
  BY <1>1
<1>4. <<found[Len(found)]>> \in Seq(S) /\ <<found[Len(found)]>> # <<>>
  BY <1>3
<1>5. QED
  BY <1>1, <1>2, <1>4

\* What a probe that passes hands on: at least one device.
LEMMA ProbeFinds ==
    ASSUME NEW c \in Config, NEW objects, NEW names
    PROVE  /\ DevicesOf(c, objects) \in Seq(Value \cup {NoValue})
           /\ DevicesOf(c, objects) # <<>>
           /\ DoProbe(Command[c], objects, names).ret =>
                 DoProbe(Command[c], objects, names).devices = DevicesOf(c, objects)
<1> DEFINE end == Evaluated(Command[c], objects, names)
           none == Evaluated(Command[c], objects, {})
<1>1. /\ end.devices = none.devices
      /\ end.matchOne = none.matchOne
      /\ end.devices \in Seq(Value)
  BY DevicesWhateverPassed
<1>2. none.devices \in Seq(Value \cup {NoValue})
  BY <1>1
<1> HIDE DEF end, none
<1>3. /\ Chosen(TRUE, none.matchOne, none.devices) \in Seq(Value \cup {NoValue})
      /\ Chosen(TRUE, none.matchOne, none.devices) # <<>>
  <2>1. NoValue \in Value \cup {NoValue}
    OBVIOUS
  <2>2. QED
    BY <1>2, <2>1, ChosenType
<1>4. DevicesOf(c, objects) = Chosen(TRUE, none.matchOne, none.devices)
  BY DEF DevicesOf, none
<1>5. /\ DoProbe(Command[c], objects, names).ret = end.ret
      /\ DoProbe(Command[c], objects, names).devices
            = Chosen(end.ret, end.matchOne, end.devices)
  BY DEF DoProbe, end
<1>6. end.ret => Chosen(end.ret, end.matchOne, end.devices)
                    = Chosen(TRUE, none.matchOne, none.devices)
  BY <1>1 DEF Chosen
<1>7. QED
  BY <1>2, <1>3, <1>4, <1>5, <1>6

-----------------------------------------------------------------------------
(* What a probe that passes does to the configuration *)

Device == Value \cup {NoValue}

NamesOK(names) == \A n \in names : \E c \in Config : n = Raw(c) \/ NameOf(c, n)

\* What a pass works on; nothing of it is missing.
IsScan(e) ==
    /\ e = Scan(e.system, {}, e.passedProbes, e.passed, e.objects)
    /\ Named(e.system)
    /\ NamesOK(e.passedProbes)
    /\ e.passed \in BOOLEAN

\* What is configured stays under its name, and what comes back from the last
\* boot under the one it had.
KeepsNames(before, after) ==
    /\ DOMAIN before \subseteq DOMAIN after
    /\ \A r \in DOMAIN before : after[r] = before[r]
    /\ \A r \in DOMAIN after \ DOMAIN before :
          r \in DOMAIN lastJson => after[r] = lastJson[r]

LEMMA KeepsOn ==
    ASSUME NEW a, NEW b, NEW c, KeepsNames(a, b), KeepsNames(b, c)
    PROVE  KeepsNames(a, c)
BY DEF KeepsNames

LEMMA ScanIs ==
    ASSUME NEW system, NEW m, NEW names, NEW any, NEW objects
    PROVE  /\ Scan(system, m, names, any, objects).system = system
           /\ Scan(system, m, names, any, objects).missing = m
           /\ Scan(system, m, names, any, objects).passedProbes = names
           /\ Scan(system, m, names, any, objects).passed = any
           /\ Scan(system, m, names, any, objects).objects = objects
BY DEF Scan

\* A name is its configuration's own, or longer than that.
LEMMA NamesDiffer ==
    ASSUME NEW c, NEW d, NameOf(d, Raw(c))
    PROVE  d = c /\ Naming[c] = "fixed"
<1>1. Len(Raw(c)) = 1 /\ (Raw(c) = Raw(d) => c = d)
  BY DEF Raw
<1>2. QED
  BY <1>1 DEF NameOf

LEMMA NewNameOf ==
    ASSUME NEW c \in Config, NEW value, NEW index
    PROVE  NameOf(c, NewName(c, value, index))
<1>1. Naming[c] \in {"fixed", "index", "property"}
  BY NamingAssumption
<1>2. /\ Len(Indexed(c, index)) = 2 /\ Indexed(c, index)[1] = c
      /\ Len(Labelled(c, value)) = 2 /\ Labelled(c, value)[1] = c
  BY DEF Indexed, Labelled
<1>3. QED
  BY <1>1, <1>2 DEF NewName, NameOf

\* One more record.
LEMMA NamedWith ==
    ASSUME NEW system, Named(system), NEW c \in Config, NEW value \in Device, NEW name,
           NameOf(c, name)
    PROVE  Named(With(system, RecordName(c, value), name))
<1> DEFINE r == RecordName(c, value)
           w == With(system, r, name)
<1>1. r \in Record /\ r[1] = c
  BY DEF RecordName, Record, Device
<1> HIDE DEF r
<1>2. /\ DOMAIN w = DOMAIN system \cup {r}
      /\ w[r] = name
      /\ \A x \in DOMAIN system \ {r} : w[x] = system[x]
  BY DEF With
<1> HIDE DEF w
<1>3. Named(w)
  BY <1>1, <1>2 DEF Named
<1>4. QED
  BY <1>3 DEF w, r

\* restorePersistedConfigurations, after some of the devices.
RestoredSoFar(s, e, c, seen) ==
    /\ s.e = Scan(s.e.system, {}, e.passedProbes, e.passed, e.objects)
    /\ Named(s.e.system)
    /\ KeepsNames(e.system, s.e.system)
    /\ s.new \in Seq(Device)
    /\ \A v \in Range(s.new) : RecordName(c, v) \notin DOMAIN e.system \cup DOMAIN lastJson
    /\ \A v \in seen : RecordName(c, v) \in DOMAIN s.e.system \/ v \in Range(s.new)

LEMMA RestoresOne ==
    ASSUME NEW e, NEW c \in Config, NEW value \in Device, NEW seen,
           Named(lastJson), NEW s, RestoredSoFar(s, e, c, seen)
    PROVE  RestoredSoFar(RestoreDevice(s, c, value), e, c, seen \cup {value})
<1> DEFINE r == RecordName(c, value)
           t == RestoreDevice(s, c, value)
           system == CopyOver(s.e.system, r)
<1>0. r \in Record /\ r[1] = c
  BY DEF RecordName, Record, Device
<1>1. CASE r \notin Restorable(s.e)
  <2>1. t.e = s.e /\ t.new = Append(s.new, value)
    BY <1>1 DEF RestoreDevice
  <2>2. /\ Append(s.new, value) \in Seq(Device)
        /\ Range(Append(s.new, value)) = Range(s.new) \cup {value}
    BY RangeAppend DEF RestoredSoFar
  <2>3. r \notin DOMAIN e.system \cup DOMAIN lastJson
    BY <1>1 DEF RestoredSoFar, Restorable, KeepsNames
  <2> HIDE DEF t
  <2>4. RestoredSoFar(t, e, c, seen \cup {value})
    BY <2>1, <2>2, <2>3 DEF RestoredSoFar
  <2>5. QED
    BY <2>4 DEF t
<1>2. CASE r \in Restorable(s.e)
  <2>1. t.e = Scan(system, s.e.missing \ {r}, s.e.passedProbes, s.e.passed, s.e.objects)
        /\ t.new = s.new
    BY <1>2 DEF RestoreDevice
  <2>2. /\ s.e.missing = {} /\ s.e.passedProbes = e.passedProbes
        /\ s.e.passed = e.passed /\ s.e.objects = e.objects
    BY ScanIs DEF RestoredSoFar
  <2>3. t.e = Scan(system, {}, e.passedProbes, e.passed, e.objects)
    <3>1. {} \ {r} = {}
      OBVIOUS
    <3>2. QED
      BY <2>1, <2>2, <3>1
  <2>4. /\ DOMAIN system = DOMAIN s.e.system \cup {r}
        /\ r \notin DOMAIN s.e.system => system[r] = lastJson[r] /\ r \in DOMAIN lastJson
        /\ \A x \in DOMAIN s.e.system : system[x] = s.e.system[x]
    <3> HIDE DEF r
    <3>1. CASE r \in DOMAIN s.e.system
      <4>1. system = s.e.system
        BY <3>1 DEF CopyOver
      <4>2. QED
        BY <3>1, <4>1
    <3>2. CASE r \notin DOMAIN s.e.system
      <4>1. system = With(s.e.system, r, lastJson[r]) /\ r \in DOMAIN lastJson
        BY <1>2, <3>2 DEF CopyOver, Restorable
      <4>2. QED
        BY <3>2, <4>1 DEF With
    <3>3. QED
      BY <3>1, <3>2
  <2> HIDE DEF system, t
  <2>5. t.e.system = system
    BY <2>3, ScanIs
  <2>6. Named(system)
    BY <1>0, <2>4 DEF Named, RestoredSoFar
  <2>7. KeepsNames(e.system, system)
    BY <2>4 DEF KeepsNames, RestoredSoFar
  <2>8. RestoredSoFar(t, e, c, seen \cup {value})
    <3>1. \A v \in seen \cup {value} : RecordName(c, v) \in DOMAIN system \/ v \in Range(s.new)
      BY <2>4 DEF RestoredSoFar
    <3>2. s.new \in Seq(Device) /\ \A v \in Range(s.new) : RecordName(c, v) \notin DOMAIN e.system \cup DOMAIN lastJson
      BY DEF RestoredSoFar
    <3>3. QED
      BY <2>1, <2>3, <2>5, <2>6, <2>7, <3>1, <3>2 DEF RestoredSoFar
  <2>9. QED
    BY <2>8 DEF t
<1>3. QED
  BY <1>1, <1>2

\* updateSystemConfigurationForDevice, after some of the devices.
AddedSoFar(s, e, c, known, seen) ==
    /\ s.e = Scan(s.e.system, {}, s.e.passedProbes, e.passed, e.objects)
    /\ Named(s.e.system)
    /\ KeepsNames(e.system, s.e.system)
    /\ e.passedProbes \subseteq s.e.passedProbes
    /\ \A n \in s.e.passedProbes \ e.passedProbes : NameOf(c, n)
    /\ known \subseteq DOMAIN s.e.system
    /\ \A v \in seen : RecordName(c, v) \in DOMAIN s.e.system

LEMMA AddsOne ==
    ASSUME NEW e, NEW c \in Config, NEW value \in Device, NEW known, NEW seen,
           RecordName(c, value) \notin DOMAIN e.system \cup DOMAIN lastJson,
           NEW s, AddedSoFar(s, e, c, known, seen)
    PROVE  AddedSoFar(AddDevice(s, c, value), e, c, known, seen \cup {value})
<1> DEFINE r == RecordName(c, value)
           name == NewName(c, value, Head(s.indexes))
           t == AddDevice(s, c, value)
           system == With(s.e.system, r, name)
<1>1. t.e = Scan(system, s.e.missing \ {r}, s.e.passedProbes \cup {name}, s.e.passed, s.e.objects)
  BY DEF AddDevice
<1>2. s.e.missing = {} /\ s.e.passed = e.passed /\ s.e.objects = e.objects
  BY ScanIs DEF AddedSoFar
<1>3. t.e = Scan(system, {}, s.e.passedProbes \cup {name}, e.passed, e.objects)
  <2>1. {} \ {r} = {}
    OBVIOUS
  <2>2. QED
    BY <1>1, <1>2, <2>1
<1>4. NameOf(c, name)
  BY NewNameOf
<1>5. Named(system)
  BY <1>4, NamedWith DEF AddedSoFar
<1>6. /\ DOMAIN system = DOMAIN s.e.system \cup {r}
      /\ \A x \in DOMAIN s.e.system \ {r} : system[x] = s.e.system[x]
  <2> HIDE DEF r, name
  <2>1. QED
    BY DEF With
<1>7. r \notin DOMAIN e.system \cup DOMAIN lastJson
  OBVIOUS
<1>8. /\ known \subseteq DOMAIN system
      /\ \A v \in seen \cup {value} : RecordName(c, v) \in DOMAIN system
  BY <1>6 DEF AddedSoFar
<1> HIDE DEF system, t, name, r
<1>9. KeepsNames(e.system, system)
  BY <1>6, <1>7 DEF KeepsNames, AddedSoFar
<1>10. t.e.system = system /\ t.e.passedProbes = s.e.passedProbes \cup {name}
  BY <1>3, ScanIs
<1>11. AddedSoFar(t, e, c, known, seen \cup {value})
  BY <1>3, <1>4, <1>5, <1>8, <1>9, <1>10 DEF AddedSoFar
<1>12. QED
  BY <1>11 DEF t

LEMMA RangeEmpty ==
    ASSUME NEW S
    PROVE  <<>> \in Seq(S) /\ Range(<<>>) = {}
<1>1. <<>> \in Seq(S) /\ Len(<<>>) = 0
  OBVIOUS
<1>2. Range(<<>>) = {<<>>[i] : i \in 1..Len(<<>>)}
  BY <1>1, RangeEquality
<1>3. QED
  BY <1>1, <1>2

\* Both folds, over all devices.
LEMMA RestoresAll ==
    ASSUME NEW e, IsScan(e), NEW c \in Config, NEW devices \in Seq(Device), Named(lastJson)
    PROVE  RestoredSoFar(Restored(e, c, devices), e, c, Range(devices))
<1> DEFINE N == Len(devices)
           So(n) == {devices[k] : k \in 1..n}
<1>0. N \in Nat
  OBVIOUS
<1>1. PICK f : Restored(e, c, devices) = f[N] /\ Restores(f, e, c, devices)
  BY <1>0, RestoredIs
<1> DEFINE T == {n \in 0..N : RestoredSoFar(f[n], e, c, So(n))}
<1>2. 0 \in T
  <2>1. f[0].e = e /\ f[0].new = <<>>
    BY <1>1 DEF Restores, NoneRestored
  <2>2. <<>> \in Seq(Device) /\ Range(<<>>) = {}
    BY RangeEmpty
  <2>3. KeepsNames(e.system, e.system)
    BY DEF KeepsNames
  <2>4. So(0) = {} /\ 0 \in 0..N
    BY <1>0
  <2> HIDE DEF So, N
  <2>5. RestoredSoFar(f[0], e, c, So(0))
    BY <2>1, <2>2, <2>3, <2>4 DEF RestoredSoFar, IsScan
  <2>6. QED
    BY <2>4, <2>5
<1>3. ASSUME NEW n \in 0..N - 1, n \in T PROVE n + 1 \in T
  <2>1. n + 1 \in 1..N /\ (n + 1) - 1 = n /\ n + 1 \in 0..N
    BY <1>0
  <2>2. f[n + 1] = RestoreDevice(f[n], c, devices[n + 1])
    BY <1>1, <2>1 DEF Restores
  <2>3. devices[n + 1] \in Device /\ So(n + 1) = So(n) \cup {devices[n + 1]}
    BY <2>1
  <2>4. RestoredSoFar(f[n], e, c, So(n))
    BY <1>3
  <2> HIDE DEF So
  <2>5. RestoredSoFar(RestoreDevice(f[n], c, devices[n + 1]), e, c, So(n) \cup {devices[n + 1]})
    BY <2>3, <2>4, RestoresOne
  <2>6. QED
    BY <2>1, <2>2, <2>3, <2>5
<1>4. N \in T
  <2> HIDE DEF T, N
  <2>1. N \in 0..N
    BY <1>0
  <2>2. QED
    BY <1>0, <1>2, <1>3, <2>1, UpTo
<1>5. Range(devices) = So(N)
  BY RangeEquality
<1>6. QED
  BY <1>1, <1>4, <1>5

LEMMA AddsAll ==
    ASSUME NEW begin, NEW e, NEW c \in Config, NEW new \in Seq(Device), NEW indexes,
           e = Scan(e.system, {}, begin.passedProbes, begin.passed, begin.objects),
           Named(e.system), KeepsNames(begin.system, e.system),
           \A v \in Range(new) : RecordName(c, v) \notin DOMAIN begin.system \cup DOMAIN lastJson
    PROVE  AddedSoFar(Added(e, c, new, indexes), begin, c, DOMAIN e.system, Range(new))
<1> DEFINE N == Len(new)
           So(n) == {new[k] : k \in 1..n}
<1>0. N \in Nat
  OBVIOUS
<1>1. PICK f : Added(e, c, new, indexes) = f[N] /\ Adds(f, e, c, new, indexes)
  BY <1>0, AddedIs
<1> DEFINE T == {n \in 0..N : AddedSoFar(f[n], begin, c, DOMAIN e.system, So(n))}
<1>2. 0 \in T
  <2>1. f[0].e = e
    BY <1>1 DEF Adds
  <2>2. e.passedProbes = begin.passedProbes
    BY ScanIs
  <2>3. So(0) = {} /\ 0 \in 0..N
    BY <1>0
  <2> HIDE DEF So, N
  <2>4. AddedSoFar(f[0], begin, c, DOMAIN e.system, So(0))
    BY <2>1, <2>2, <2>3 DEF AddedSoFar
  <2>5. QED
    BY <2>3, <2>4
<1>3. ASSUME NEW n \in 0..N - 1, n \in T PROVE n + 1 \in T
  <2>1. n + 1 \in 1..N /\ (n + 1) - 1 = n /\ n + 1 \in 0..N
    BY <1>0
  <2>2. f[n + 1] = AddDevice(f[n], c, new[n + 1])
    BY <1>1, <2>1 DEF Adds
  <2>3. new[n + 1] \in Device /\ So(n + 1) = So(n) \cup {new[n + 1]}
    BY <2>1
  <2>4. AddedSoFar(f[n], begin, c, DOMAIN e.system, So(n))
    BY <1>3
  <2>5. RecordName(c, new[n + 1]) \notin DOMAIN begin.system \cup DOMAIN lastJson
    <3>1. new[n + 1] \in Range(new)
      BY <2>1, RangeAt
    <3>2. QED
      BY <3>1
  <2> HIDE DEF So
  <2>6. AddedSoFar(AddDevice(f[n], c, new[n + 1]), begin, c, DOMAIN e.system, So(n) \cup {new[n + 1]})
    BY <2>3, <2>4, <2>5, AddsOne
  <2>7. QED
    BY <2>1, <2>2, <2>3, <2>6
<1>4. N \in T
  <2> HIDE DEF T, N
  <2>1. N \in 0..N
    BY <1>0
  <2>2. QED
    BY <1>0, <1>2, <1>3, <2>1, UpTo
<1>5. Range(new) = So(N)
  BY RangeEquality
<1>6. QED
  BY <1>1, <1>4, <1>5

\* updateSystemConfiguration records every device, under a name of the configuration.
Configures(e, end, c, devices) ==
    /\ IsScan(end)
    /\ KeepsNames(e.system, end.system)
    /\ end.objects = e.objects
    /\ end.passed
    /\ e.passedProbes \subseteq end.passedProbes
    /\ Raw(c) \in end.passedProbes
    /\ \A d \in Config : Raw(d) \in end.passedProbes => Raw(d) \in e.passedProbes \/ d = c
    /\ \A v \in Range(devices) : RecordName(c, v) \in DOMAIN end.system

LEMMA ConfigureDoes ==
    ASSUME NEW e, IsScan(e), NEW c \in Config, NEW devices \in Seq(Device), Named(lastJson)
    PROVE  Configures(e, Configure(e, c, devices), c, devices)
<1> DEFINE begin == Scan(e.system, e.missing, e.passedProbes \cup {Raw(c)}, TRUE, e.objects)
           restored == Restored(begin, c, devices)
           indexes == FreeIndexes(Len(devices), restored.used)
           added == Added(restored.e, c, restored.new, indexes)
           end == Configure(e, c, devices)
<1>1. e.missing = {}
  BY ScanIs DEF IsScan
<1>2. /\ begin.system = e.system /\ begin.passedProbes = e.passedProbes \cup {Raw(c)}
      /\ begin.passed = TRUE /\ begin.objects = e.objects
      /\ begin = Scan(begin.system, {}, begin.passedProbes, TRUE, begin.objects)
  BY <1>1 DEF Scan
<1>3. NamesOK(begin.passedProbes)
  BY <1>2 DEF NamesOK, IsScan
<1>4. end = added.e
  BY DEF Configure
<1> HIDE DEF begin, end
<1>5. IsScan(begin)
  BY <1>2, <1>3 DEF IsScan
<1>6. RestoredSoFar(restored, begin, c, Range(devices))
  BY <1>5, RestoresAll
<1> HIDE DEF restored, indexes
<1>7. restored.new \in Seq(Device)
  BY <1>6 DEF RestoredSoFar
<1>8. AddedSoFar(added, begin, c, DOMAIN restored.e.system, Range(restored.new))
  <2>1. /\ restored.e = Scan(restored.e.system, {}, begin.passedProbes, begin.passed, begin.objects)
        /\ Named(restored.e.system) /\ KeepsNames(begin.system, restored.e.system)
        /\ \A v \in Range(restored.new) :
              RecordName(c, v) \notin DOMAIN begin.system \cup DOMAIN lastJson
    BY <1>6 DEF RestoredSoFar
  <2>2. QED
    BY <1>7, <2>1, AddsAll
<1>9. /\ end = Scan(end.system, {}, end.passedProbes, TRUE, e.objects)
      /\ end.passed = TRUE /\ end.objects = e.objects
  <2>1. end = Scan(end.system, {}, end.passedProbes, TRUE, e.objects)
    BY <1>2, <1>4, <1>8 DEF AddedSoFar
  <2>2. QED
    BY <2>1 DEF Scan
<1>10. NamesOK(end.passedProbes)
  BY <1>3, <1>4, <1>8 DEF NamesOK, AddedSoFar
<1>11. IsScan(end)
  BY <1>4, <1>8, <1>9, <1>10 DEF IsScan, AddedSoFar
<1>12. KeepsNames(e.system, end.system)
  BY <1>2, <1>4, <1>8 DEF AddedSoFar
<1>13. e.passedProbes \subseteq end.passedProbes /\ Raw(c) \in end.passedProbes
  BY <1>2, <1>4, <1>8 DEF AddedSoFar
<1>14. ASSUME NEW d \in Config, Raw(d) \in end.passedProbes, d # c
       PROVE  Raw(d) \in e.passedProbes
  <2>1. ~NameOf(c, Raw(d))
    BY <1>14, NamesDiffer
  <2>2. Raw(d) # Raw(c)
    BY <1>14 DEF Raw
  <2>3. Raw(d) \in begin.passedProbes
    BY <1>4, <1>8, <1>14, <2>1 DEF AddedSoFar
  <2>4. QED
    BY <1>2, <2>2, <2>3
<1>15. ASSUME NEW v \in Range(devices) PROVE RecordName(c, v) \in DOMAIN end.system
  <2>1. RecordName(c, v) \in DOMAIN restored.e.system \/ v \in Range(restored.new)
    BY <1>6 DEF RestoredSoFar
  <2>2. QED
    BY <1>4, <1>8, <2>1 DEF AddedSoFar
<1>16. Configures(e, end, c, devices)
  BY <1>9, <1>11, <1>12, <1>13, <1>14, <1>15 DEF Configures
<1>17. QED
  BY <1>16 DEF end

LEMMA RecordedStays ==
    ASSUME NEW d, NEW objects, NEW s1, NEW s2, DOMAIN s1 \subseteq DOMAIN s2,
           Recorded(d, objects, s1)
    PROVE  Recorded(d, objects, s2)
BY DEF Recorded

LEMMA RecordedLocal ==
    ASSUME NEW d \in Config, NEW o1, NEW o2, NEW system, Agree(d, o1, o2),
           Recorded(d, o1, system)
    PROVE  Recorded(d, o2, system)
<1>1. Evaluated(Command[d], o1, {}) = Evaluated(Command[d], o2, {})
  BY ProbeIsLocal
<1>2. DevicesOf(d, o1) = DevicesOf(d, o2)
  BY <1>1 DEF DevicesOf
<1>3. QED
  BY <1>2 DEF Recorded

\* What evaluating probes of some configurations can do.
Gains(C, e, end) ==
    /\ IsScan(end)
    /\ KeepsNames(e.system, end.system)
    /\ end.objects = e.objects
    /\ e.passedProbes \subseteq end.passedProbes
    /\ e.passed => end.passed
    /\ ~end.passed => end = e
    /\ \A d \in Config : Raw(d) \in end.passedProbes =>
          Raw(d) \in e.passedProbes \/ (d \in C /\ Recorded(d, e.objects, end.system))

LEMMA GainsNothing ==
    ASSUME NEW C, NEW e, IsScan(e)
    PROVE  Gains(C, e, e)
BY DEF Gains, KeepsNames

LEMMA GainsOn ==
    ASSUME NEW C, NEW a, NEW b, NEW c, Gains(C, a, b), Gains(C, b, c)
    PROVE  Gains(C, a, c)
<1>1. KeepsNames(a.system, c.system)
  BY KeepsOn DEF Gains
<1>2. ASSUME NEW d \in Config, Raw(d) \in c.passedProbes, Raw(d) \notin a.passedProbes
      PROVE  d \in C /\ Recorded(d, a.objects, c.system)
  <2>1. CASE Raw(d) \in b.passedProbes
    <3>1. d \in C /\ Recorded(d, a.objects, b.system)
      BY <1>2, <2>1 DEF Gains
    <3>2. DOMAIN b.system \subseteq DOMAIN c.system
      BY DEF Gains, KeepsNames
    <3>3. QED
      BY <3>1, <3>2, RecordedStays
  <2>2. CASE Raw(d) \notin b.passedProbes
    BY <1>2, <2>2 DEF Gains
  <2>3. QED
    BY <2>1, <2>2
<1>3. QED
  BY <1>1, <1>2 DEF Gains

LEMMA GainsMore ==
    ASSUME NEW C, NEW D, C \subseteq D, NEW e, NEW end, Gains(C, e, end)
    PROVE  Gains(D, e, end)
BY DEF Gains

\* ~PerformProbe
LEMMA EvaluateDoes ==
    ASSUME NEW e, IsScan(e), NEW c \in Config, Named(lastJson)
    PROVE  /\ Gains({c}, e, Evaluate(e, c))
           /\ Evaluate(e, c).passed \/ Fails(c, e.objects, e.passedProbes)
<1> DEFINE probe == DoProbe(Command[c], e.objects, e.passedProbes)
           end == Evaluate(e, c)
<1>1. CASE ~probe.ret
  <2>1. end = e
    BY <1>1 DEF Evaluate
  <2>2. Fails(c, e.objects, e.passedProbes)
    BY <1>1 DEF Fails
  <2>3. QED
    BY <2>1, <2>2, GainsNothing
<1>2. CASE probe.ret
  <2> DEFINE devices == DevicesOf(c, e.objects)
  <2>1. /\ devices \in Seq(Device) /\ devices # <<>>
        /\ probe.devices = devices
    BY <1>2, ProbeFinds DEF Device
  <2>2. end = Configure(e, c, devices)
    BY <1>2, <2>1 DEF Evaluate
  <2> HIDE DEF devices, end
  <2>3. Configures(e, end, c, devices)
    BY <2>1, <2>2, ConfigureDoes
  <2>4. Recorded(c, e.objects, end.system)
    <3>1. devices[1] \in Range(devices)
      <4>1. 1 \in 1..Len(devices)
        BY <2>1
      <4>2. QED
        BY <2>1, <4>1, RangeAt
    <3>2. RecordName(c, devices[1]) \in DOMAIN end.system /\ RecordName(c, devices[1])[1] = c
      BY <2>3, <3>1 DEF Configures, RecordName
    <3>3. \A v \in Range(devices) : RecordName(c, v) \in DOMAIN end.system
      BY <2>3 DEF Configures
    <3>4. \A v \in Range(DevicesOf(c, e.objects)) : RecordName(c, v) \in DOMAIN end.system
      BY <3>3 DEF devices
    <3>5. QED
      BY <3>2, <3>4 DEF Recorded
  <2>5. Gains({c}, e, end)
    BY <2>3, <2>4 DEF Gains, Configures
  <2>6. end.passed
    BY <2>3 DEF Configures
  <2>7. QED
    BY <2>5, <2>6 DEF end
<1>3. QED
  BY <1>1, <1>2

\* What evaluating all of them leaves.
AllEvaluated(e, end, probes) ==
    /\ Gains(Range(probes), e, end)
    /\ end.passed \/ \A c \in Range(probes) : Fails(c, e.objects, e.passedProbes)

LEMMA EvaluateAllDoes ==
    ASSUME NEW e, IsScan(e), NEW probes \in Seq(Config), Named(lastJson)
    PROVE  AllEvaluated(e, EvaluateAll(e, probes), probes)
<1> DEFINE N == Len(probes)
           C == Range(probes)
           fails(c) == Fails(c, e.objects, e.passedProbes)
<1>0. N \in Nat
  OBVIOUS
<1>1. PICK f : EvaluateAll(e, probes) = f[N] /\ Evaluates(f, e, probes)
  BY <1>0, EvaluateAllIs
<1> DEFINE So(n) == Gains(C, e, f[n]) /\ (f[n].passed \/ \A k \in 1..n : fails(probes[k]))
           T == {n \in 0..N : So(n)}
<1>2. 0 \in T
  <2>1. f[0] = e
    BY <1>1 DEF Evaluates
  <2>2. 0 \in 0..N
    BY <1>0
  <2>3. Gains(C, e, f[0])
    BY <2>1, GainsNothing
  <2>4. So(0)
    BY <2>3
  <2> HIDE DEF So
  <2>5. QED
    BY <2>2, <2>4
<1>3. ASSUME NEW n \in 0..N - 1, n \in T PROVE n + 1 \in T
  <2> DEFINE c == probes[n + 1]
  <2>1. n + 1 \in 1..N /\ (n + 1) - 1 = n /\ n + 1 \in 0..N
    BY <1>0
  <2>2. f[n + 1] = Evaluate(f[n], c)
    BY <1>1, <2>1 DEF Evaluates
  <2>3. c \in Config /\ c \in C
    BY <2>1, RangeAt
  <2>4. So(n)
    BY <1>3
  <2> HIDE DEF c, C, fails
  <2>5. /\ Gains({c}, f[n], f[n + 1])
        /\ f[n + 1].passed \/ Fails(c, f[n].objects, f[n].passedProbes)
    <3>1. IsScan(f[n])
      BY <2>4 DEF Gains
    <3>2. QED
      BY <2>2, <2>3, <3>1, EvaluateDoes
  <2>6. Gains(C, e, f[n + 1])
    <3>1. Gains(C, f[n], f[n + 1])
      BY <2>3, <2>5, GainsMore
    <3>2. QED
      BY <2>4, <3>1, GainsOn
  <2>7. ASSUME ~f[n + 1].passed, NEW k \in 1..n + 1 PROVE fails(probes[k])
    <3>1. ~f[n].passed /\ f[n] = e
      BY <2>4, <2>5, <2>7 DEF Gains
    <3>2. fails(c)
      BY <2>5, <2>7, <3>1 DEF fails
    <3>3. k = n + 1 \/ k \in 1..n
      BY <1>0
    <3>4. QED
      BY <2>4, <3>1, <3>2, <3>3 DEF c
  <2>8. So(n + 1)
    BY <2>6, <2>7
  <2> HIDE DEF So
  <2>9. QED
    BY <2>1, <2>8
<1>4. N \in T
  <2> HIDE DEF T, N
  <2>1. N \in 0..N
    BY <1>0
  <2>2. QED
    BY <1>0, <1>2, <1>3, <2>1, UpTo
<1>5. Range(probes) = {probes[k] : k \in 1..N}
  BY RangeEquality
<1>6. So(N)
  BY <1>4
<1>7. AllEvaluated(e, f[N], probes)
  BY <1>5, <1>6 DEF AllEvaluated
<1>8. QED
  BY <1>1, <1>7

-----------------------------------------------------------------------------
(* One pass *)

LEMMA InterfacesType ==
    ASSUME NEW c \in Config
    PROVE  Interfaces(c) \subseteq Interface
<1>1. Range(Command[c]) \subseteq Token
  BY CommandAssumption, RangeAt
<1>2. ASSUME NEW t \in Token, t.type = "dbusProbe" PROVE t.interface \in Interface
  <2>1. t \in [type : {"dbusProbe"}, interface : Interface, values : SUBSET Value]
    BY <1>2 DEF Token, Keywords, Operators
  <2>2. QED
    BY <2>1
<1>3. QED
  BY <1>1, <1>2 DEF Interfaces

LEMMA TrailIs ==
    ASSUME NEW e, NEW left, NEW held_, NEW wanted_, NEW stopped
    PROVE  /\ Trail(e, left, held_, wanted_, stopped).e = e
           /\ Trail(e, left, held_, wanted_, stopped).left = left
           /\ Trail(e, left, held_, wanted_, stopped).held = held_
           /\ Trail(e, left, held_, wanted_, stopped).wanted = wanted_
           /\ Trail(e, left, held_, wanted_, stopped).stopped = stopped
BY DEF Trail

\* Configurations that are evaluated without being read for.
Bare == {c \in Config : Interfaces(c) = {}}

\* processConfigurations, after some of the configurations.
Dealt(w, e, c) ==
    /\ Raw(c) \in w.e.passedProbes \/ c \in Range(w.left)
    /\ \/ Raw(c) \in w.e.passedProbes
       \/ c \in Range(w.held)
       \/ c \in Bare /\ (w.e.passed \/ Fails(c, e.objects, e.passedProbes))

WalkedTo(w, e, seen) ==
    /\ Gains(Bare, e, w.e)
    /\ w.left \in Seq(Config)
    /\ w.held \in Seq(Config)
    /\ w.wanted \subseteq Interface
    /\ \A c \in Range(w.held) : Interfaces(c) \subseteq w.wanted
    /\ w.stopped \in BOOLEAN
    /\ w.stopped => ~EveryProbeParses
    /\ ~w.stopped => \A c \in seen : Dealt(w, e, c)

LEMMA DealtStays ==
    ASSUME NEW w, NEW t, NEW e, NEW c, Dealt(w, e, c),
           w.e.passedProbes \subseteq t.e.passedProbes,
           Range(w.left) \subseteq Range(t.left),
           Range(w.held) \subseteq Range(t.held),
           w.e.passed => t.e.passed
    PROVE  Dealt(t, e, c)
BY DEF Dealt

LEMMA WalksOne ==
    ASSUME NEW e, IsScan(e), NEW c \in Config, NEW seen, Named(lastJson),
           NEW w, WalkedTo(w, e, seen)
    PROVE  WalkedTo(Walk(w, c), e, seen \cup {c})
<1> DEFINE left == Append(w.left, c)
           t == Walk(w, c)
<1>1. left \in Seq(Config) /\ Range(left) = Range(w.left) \cup {c}
  BY RangeAppend DEF WalkedTo
<1> HIDE DEF left
<1>2. CASE w.stopped
  <2>1. t = Trail(w.e, left, w.held, w.wanted, TRUE)
    BY <1>2 DEF Walk, left
  <2>2. t.e = w.e /\ t.left = left /\ t.held = w.held /\ t.wanted = w.wanted /\ t.stopped = TRUE
    BY <2>1 DEF Trail
  <2> HIDE DEF t
  <2>3. WalkedTo(t, e, seen \cup {c})
    BY <1>1, <1>2, <2>2 DEF WalkedTo
  <2>4. QED
    BY <2>3 DEF t
<1>3. CASE ~w.stopped /\ Raw(c) \in w.e.passedProbes
  <2>1. t = w
    BY <1>3 DEF Walk
  <2>2. Dealt(w, e, c)
    BY <1>3 DEF Dealt
  <2>3. WalkedTo(w, e, seen \cup {c})
    BY <2>2 DEF WalkedTo
  <2>4. QED
    BY <2>1, <2>3
<1>4. CASE ~w.stopped /\ Raw(c) \notin w.e.passedProbes /\ Command[c] = <<>>
  <2>1. t = Trail(w.e, left, w.held, w.wanted, TRUE)
    BY <1>4 DEF Walk, left
  <2>2. t.e = w.e /\ t.left = left /\ t.held = w.held /\ t.wanted = w.wanted /\ t.stopped = TRUE
    BY <2>1 DEF Trail
  <2> HIDE DEF t
  <2>3. ~EveryProbeParses
    BY <1>4 DEF EveryProbeParses
  <2>4. WalkedTo(t, e, seen \cup {c})
    BY <1>1, <1>4, <2>2, <2>3 DEF WalkedTo
  <2>5. QED
    BY <2>4 DEF t
<1>5. CASE /\ ~w.stopped /\ Raw(c) \notin w.e.passedProbes /\ Command[c] # <<>>
           /\ Interfaces(c) = {}
  <2> DEFINE end == Evaluate(w.e, c)
  <2>1. t = Trail(end, left, w.held, w.wanted, FALSE)
    BY <1>5 DEF Walk, left
  <2> HIDE DEF end
  <2>2. t.e = end /\ t.left = left /\ t.held = w.held /\ t.wanted = w.wanted /\ t.stopped = FALSE
    BY <2>1 DEF Trail
  <2>3. /\ Gains({c}, w.e, end)
        /\ end.passed \/ Fails(c, w.e.objects, w.e.passedProbes)
    <3>1. IsScan(w.e)
      BY DEF WalkedTo, Gains
    <3>2. QED
      BY <3>1, EvaluateDoes DEF end
  <2>4. c \in Bare
    BY <1>5 DEF Bare
  <2>5. Gains(Bare, e, end)
    <3>1. Gains(Bare, w.e, end)
      BY <2>3, <2>4, GainsMore
    <3>2. Gains(Bare, e, w.e)
      BY DEF WalkedTo
    <3>3. QED
      BY <3>1, <3>2, GainsOn
  <2>6. ASSUME ~end.passed PROVE Fails(c, e.objects, e.passedProbes)
    <3>1. ~w.e.passed
      BY <2>3, <2>6 DEF Gains
    <3>2. w.e = e
      BY <3>1 DEF WalkedTo, Gains
    <3>3. QED
      BY <2>3, <2>6, <3>2
  <2> HIDE DEF t
  <2>7. Dealt(t, e, c)
    BY <1>1, <2>2, <2>4, <2>6 DEF Dealt
  <2>8. ASSUME NEW d \in seen PROVE Dealt(t, e, d)
    <3>1. Dealt(w, e, d)
      BY <1>5 DEF WalkedTo
    <3>2. w.e.passedProbes \subseteq t.e.passedProbes /\ (w.e.passed => t.e.passed)
      BY <2>2, <2>3 DEF Gains
    <3>3. QED
      BY <1>1, <2>2, <3>1, <3>2, DealtStays
  <2>9. WalkedTo(t, e, seen \cup {c})
    BY <1>1, <2>2, <2>5, <2>7, <2>8 DEF WalkedTo
  <2>10. QED
    BY <2>9 DEF t
<1>6. CASE /\ ~w.stopped /\ Raw(c) \notin w.e.passedProbes /\ Command[c] # <<>>
           /\ Interfaces(c) # {}
  <2>1. t = Trail(w.e, left, Append(w.held, c), w.wanted \cup Interfaces(c), FALSE)
    BY <1>6 DEF Walk, left
  <2>2. /\ t.e = w.e /\ t.left = left /\ t.held = Append(w.held, c)
        /\ t.wanted = w.wanted \cup Interfaces(c) /\ t.stopped = FALSE
    BY <2>1 DEF Trail
  <2>3. t.held \in Seq(Config) /\ Range(t.held) = Range(w.held) \cup {c}
    BY <2>2, RangeAppend DEF WalkedTo
  <2> HIDE DEF t
  <2>4. Dealt(t, e, c)
    BY <1>1, <2>2, <2>3 DEF Dealt
  <2>5. ASSUME NEW d \in seen PROVE Dealt(t, e, d)
    <3>1. Dealt(w, e, d)
      BY <1>6 DEF WalkedTo
    <3>2. QED
      BY <1>1, <2>2, <2>3, <3>1, DealtStays
  <2>6. t.wanted \subseteq Interface /\ \A d \in Range(t.held) : Interfaces(d) \subseteq t.wanted
    BY <2>2, <2>3, InterfacesType DEF WalkedTo
  <2>7. WalkedTo(t, e, seen \cup {c})
    BY <1>1, <2>2, <2>3, <2>4, <2>5, <2>6 DEF WalkedTo
  <2>8. QED
    BY <2>7 DEF t
<1>7. w.stopped \in BOOLEAN
  BY DEF WalkedTo
<1>8. QED
  BY <1>2, <1>3, <1>4, <1>5, <1>6, <1>7

LEMMA WalkAllDoes ==
    ASSUME NEW e, IsScan(e), NEW todo \in Seq(Config), Named(lastJson)
    PROVE  WalkedTo(WalkAll(e, todo), e, Range(todo))
<1> DEFINE N == Len(todo)
           So(n) == {todo[k] : k \in 1..n}
<1>0. N \in Nat
  OBVIOUS
<1>1. PICK f : WalkAll(e, todo) = f[N] /\ Walks(f, e, todo)
  BY <1>0, WalkAllIs
<1> DEFINE T == {n \in 0..N : WalkedTo(f[n], e, So(n))}
<1>2. 0 \in T
  <2>1. f[0] = Trail(e, <<>>, <<>>, {}, FALSE)
    BY <1>1 DEF Walks, NoneWalked
  <2>2. f[0].e = e /\ f[0].left = <<>> /\ f[0].held = <<>> /\ f[0].wanted = {} /\ f[0].stopped = FALSE
    BY <2>1 DEF Trail
  <2>3. <<>> \in Seq(Config) /\ Range(<<>>) = {}
    BY RangeEmpty
  <2>4. So(0) = {} /\ 0 \in 0..N
    BY <1>0
  <2>5. Gains(Bare, e, e)
    BY GainsNothing
  <2> HIDE DEF So, N
  <2>6. WalkedTo(f[0], e, So(0))
    BY <2>2, <2>3, <2>4, <2>5 DEF WalkedTo
  <2>7. QED
    BY <2>4, <2>6
<1>3. ASSUME NEW n \in 0..N - 1, n \in T PROVE n + 1 \in T
  <2>1. n + 1 \in 1..N /\ (n + 1) - 1 = n /\ n + 1 \in 0..N
    BY <1>0
  <2>2. f[n + 1] = Walk(f[n], todo[n + 1])
    BY <1>1, <2>1 DEF Walks
  <2>3. todo[n + 1] \in Config /\ So(n + 1) = So(n) \cup {todo[n + 1]}
    BY <2>1
  <2>4. WalkedTo(f[n], e, So(n))
    BY <1>3
  <2> HIDE DEF So
  <2>5. WalkedTo(Walk(f[n], todo[n + 1]), e, So(n) \cup {todo[n + 1]})
    BY <2>3, <2>4, WalksOne
  <2>6. QED
    BY <2>1, <2>2, <2>3, <2>5
<1>4. N \in T
  <2> HIDE DEF T, N
  <2>1. N \in 0..N
    BY <1>0
  <2>2. QED
    BY <1>0, <1>2, <1>3, <2>1, UpTo
<1>5. Range(todo) = So(N)
  BY RangeEquality
<1>6. QED
  BY <1>1, <1>4, <1>5

LEMMA FailsLocal ==
    ASSUME NEW c \in Config, NEW o1, NEW o2, Agree(c, o1, o2), NEW names, Fails(c, o1, names)
    PROVE  Fails(c, o2, names)
BY ProbeIsLocal DEF Fails

LEMMA BareAgrees ==
    ASSUME NEW c \in Bare, NEW o1, NEW o2
    PROVE  Agree(c, o1, o2)
BY DEF Bare, Agree

LEMMA ConfiguredIsRecorded ==
    ASSUME NEW c, NEW system, Configured(c, system), NEW objects
    PROVE  Recorded(c, objects, system)
BY DEF Configured, Recorded

LEMMA ConfiguredStays ==
    ASSUME NEW c, NEW s1, NEW s2, DOMAIN s1 \subseteq DOMAIN s2, Configured(c, s1)
    PROVE  Configured(c, s2)
BY DEF Configured

\* What is there before run().
IsBegun(e) ==
    /\ Named(e.system)
    /\ NamesOK(e.passedProbes)
    /\ e.missing \subseteq DOMAIN e.system
    /\ e.passed \in BOOLEAN

LEMMA SeededDoes ==
    ASSUME NEW e, IsBegun(e)
    PROVE  /\ IsScan(Seeded(e))
           /\ Seeded(e).system = e.system
           /\ Seeded(e).objects = e.objects
           /\ e.passedProbes \subseteq Seeded(e).passedProbes
           /\ \A d \in Config : Raw(d) \in Seeded(e).passedProbes =>
                 Raw(d) \in e.passedProbes \/ Configured(d, e.system)
<1> DEFINE s == Seeded(e)
           names == e.passedProbes \cup Range(e.system)
<1>1. s = Scan(e.system, {r \in e.missing : e.system[r] \notin names}, names, e.passed, e.objects)
  BY DEF Seeded
<1>2. \A n \in Range(e.system) : \E r \in DOMAIN e.system : n = e.system[r]
  BY DEF Range
<1>3. \A r \in DOMAIN e.system : e.system[r] \in names
  BY DEF Range
<1>4. {r \in e.missing : e.system[r] \notin names} = {}
  BY <1>3 DEF IsBegun
<1>5. \A n \in Range(e.system) : \E r \in DOMAIN e.system : r[1] \in Config /\ NameOf(r[1], n)
  BY <1>2 DEF IsBegun, Named, Record
<1> HIDE DEF s
<1>6. s = Scan(e.system, {}, names, e.passed, e.objects)
  BY <1>1, <1>4
<1>7. /\ s.system = e.system /\ s.passedProbes = names
      /\ s.passed = e.passed /\ s.objects = e.objects
  BY <1>6, ScanIs
<1>8. NamesOK(names)
  BY <1>5 DEF NamesOK, IsBegun
<1>9. IsScan(s)
  BY <1>6, <1>7, <1>8 DEF IsScan, IsBegun
<1>10. ASSUME NEW d \in Config, Raw(d) \in names, Raw(d) \notin e.passedProbes
       PROVE  Configured(d, e.system)
  <2>1. PICK r \in DOMAIN e.system : NameOf(r[1], Raw(d))
    BY <1>5, <1>10
  <2>2. r[1] = d /\ Naming[d] = "fixed"
    BY <2>1, NamesDiffer
  <2>3. QED
    BY <2>2 DEF Configured
<1>11. QED
  BY <1>7, <1>9, <1>10 DEF s

\* The probes are evaluated and ~PerformScan runs.
Released(e, probes) ==
    /\ phase' \in {"posted", "idle"}
    /\ ~passed' /\ held' = <<>> /\ wanted' = {}
    /\ missing' = {}
    /\ Named(systemConfiguration') /\ KeepsNames(e.system, systemConfiguration')
    /\ NamesOK(passedProbes') /\ e.passedProbes \subseteq passedProbes'
    /\ dbusProbeObjects' = e.objects
    /\ \A d \in Config : Raw(d) \in passedProbes' =>
          Raw(d) \in e.passedProbes \/ Recorded(d, e.objects, systemConfiguration')
    /\ phase' = "idle" =>
          /\ ~e.passed /\ passedProbes' = e.passedProbes
          /\ \A c \in Range(probes) : Fails(c, e.objects, e.passedProbes)

LEMMA ReleaseDoes ==
    ASSUME NEW e, IsScan(e), NEW probes \in Seq(Config), Named(lastJson), Release(e, probes)
    PROVE  Released(e, probes)
<1> DEFINE end == EvaluateAll(e, probes)
<1>1. AllEvaluated(e, end, probes)
  BY EvaluateAllDoes
<1>2. /\ systemConfiguration' = IF end.passed THEN end.system
                                ELSE Restrict(end.system, DOMAIN end.system \ end.missing)
      /\ missing' = IF end.passed THEN end.missing ELSE {}
      /\ passedProbes' = end.passedProbes
      /\ passed' = FALSE
      /\ dbusProbeObjects' = end.objects
      /\ phase' = IF end.passed THEN "posted" ELSE "idle"
      /\ held' = <<>>
      /\ wanted' = {}
  BY DEF Release, PassAgain
<1> HIDE DEF end
<1>3. /\ IsScan(end) /\ KeepsNames(e.system, end.system) /\ end.objects = e.objects
      /\ e.passedProbes \subseteq end.passedProbes
      /\ ~end.passed => end = e
      /\ \A d \in Config : Raw(d) \in end.passedProbes =>
            Raw(d) \in e.passedProbes \/ Recorded(d, e.objects, end.system)
      /\ end.passed \/ \A c \in Range(probes) : Fails(c, e.objects, e.passedProbes)
  BY <1>1 DEF AllEvaluated, Gains
<1>4. end.missing = {} /\ end.passed \in BOOLEAN /\ Named(end.system) /\ NamesOK(end.passedProbes)
  BY <1>3, ScanIs DEF IsScan
<1>5. /\ DOMAIN systemConfiguration' = DOMAIN end.system
      /\ \A r \in DOMAIN end.system : systemConfiguration'[r] = end.system[r]
  <2>1. DOMAIN end.system \ {} = DOMAIN end.system
    OBVIOUS
  <2>2. CASE end.passed
    BY <1>2, <2>2
  <2>3. CASE ~end.passed
    <3>1. systemConfiguration' = [r \in DOMAIN end.system |-> end.system[r]]
      BY <1>2, <1>4, <2>1, <2>3 DEF Restrict
    <3>2. QED
      BY <3>1
  <2>4. QED
    BY <2>2, <2>3
<1>6. Named(systemConfiguration') /\ KeepsNames(e.system, systemConfiguration')
  BY <1>3, <1>4, <1>5 DEF Named, KeepsNames
<1>7. ASSUME NEW d \in Config, Raw(d) \in passedProbes', Raw(d) \notin e.passedProbes
      PROVE  Recorded(d, e.objects, systemConfiguration')
  <2>1. Recorded(d, e.objects, end.system)
    BY <1>2, <1>3, <1>7
  <2>2. QED
    BY <1>5, <2>1, RecordedStays
<1>8. phase' = "idle" => ~end.passed
  BY <1>2
<1>9. QED
  BY <1>2, <1>3, <1>4, <1>6, <1>7, <1>8 DEF Released

\* A pass was begun.
Ran(e) ==
    /\ configurations' \in Seq(Config) /\ retries' = MapperRetries
    /\ phase' \in {"posted", "idle", "mapper"}
    /\ passed' \in BOOLEAN /\ held' \in Seq(Config) /\ wanted' \subseteq Interface
    /\ phase' # "mapper" => ~passed' /\ wanted' = {}
    /\ missing' = {}
    /\ Named(systemConfiguration') /\ KeepsNames(e.system, systemConfiguration')
    /\ NamesOK(passedProbes') /\ e.passedProbes \subseteq passedProbes'
    /\ dbusProbeObjects' = e.objects
    /\ \A d \in Config : Raw(d) \in passedProbes' =>
          \/ Raw(d) \in e.passedProbes
          \/ Configured(d, systemConfiguration')
          \/ Recorded(d, e.objects, systemConfiguration') /\ (phase' = "mapper" => d \in Bare)

LEMMA RunPassDoes ==
    ASSUME NEW e, IsBegun(e), NEW todo \in Seq(Config), Named(lastJson), RunPass(todo, e)
    PROVE  Ran(e)
<1> DEFINE s == Seeded(e)
           walk == WalkAll(s, todo)
           ask == Unread(walk.wanted, e.objects)
<1>1. /\ IsScan(s) /\ s.system = e.system /\ s.objects = e.objects
      /\ e.passedProbes \subseteq s.passedProbes
      /\ \A d \in Config : Raw(d) \in s.passedProbes =>
            Raw(d) \in e.passedProbes \/ Configured(d, e.system)
  BY SeededDoes
<1> HIDE DEF s
<1>2. WalkedTo(walk, s, Range(todo))
  BY <1>1, WalkAllDoes
<1>3. /\ configurations' = walk.left
      /\ retries' = MapperRetries
      /\ IF walk.stopped \/ ask = {}
         THEN Release(walk.e, walk.held)
         ELSE /\ systemConfiguration' = walk.e.system
              /\ missing' = walk.e.missing
              /\ passedProbes' = walk.e.passedProbes
              /\ passed' = walk.e.passed
              /\ dbusProbeObjects' = walk.e.objects
              /\ phase' = "mapper"
              /\ held' = walk.held
              /\ wanted' = ask
  BY DEF RunPass, s
<1> HIDE DEF walk
<1>4. /\ IsScan(walk.e) /\ KeepsNames(e.system, walk.e.system) /\ walk.e.objects = e.objects
      /\ e.passedProbes \subseteq walk.e.passedProbes
      /\ walk.left \in Seq(Config) /\ walk.held \in Seq(Config) /\ walk.wanted \subseteq Interface
  BY <1>1, <1>2 DEF WalkedTo, Gains
<1>5. ASSUME NEW d \in Config, Raw(d) \in walk.e.passedProbes, Raw(d) \notin e.passedProbes
      PROVE  Configured(d, walk.e.system) \/ (Recorded(d, e.objects, walk.e.system) /\ d \in Bare)
  <2>1. CASE Raw(d) \in s.passedProbes
    <3>1. Configured(d, e.system) /\ DOMAIN e.system \subseteq DOMAIN walk.e.system
      BY <1>1, <1>4, <1>5, <2>1 DEF KeepsNames
    <3>2. QED
      BY <3>1, ConfiguredStays
  <2>2. CASE Raw(d) \notin s.passedProbes
    BY <1>1, <1>2, <1>5, <2>2 DEF WalkedTo, Gains
  <2>3. QED
    BY <2>1, <2>2
<1>6. CASE walk.stopped \/ ask = {}
  <2>1. Released(walk.e, walk.held)
    BY <1>3, <1>4, <1>6, ReleaseDoes
  <2>2. KeepsNames(e.system, systemConfiguration')
    BY <1>4, <2>1, KeepsOn DEF Released
  <2>3. ASSUME NEW d \in Config, Raw(d) \in passedProbes', Raw(d) \notin e.passedProbes
        PROVE  Configured(d, systemConfiguration') \/ Recorded(d, e.objects, systemConfiguration')
    <3>1. DOMAIN walk.e.system \subseteq DOMAIN systemConfiguration'
      BY <2>1 DEF Released, KeepsNames
    <3>2. CASE Raw(d) \in walk.e.passedProbes
      <4>1. Configured(d, walk.e.system) \/ Recorded(d, e.objects, walk.e.system)
        BY <1>5, <2>3, <3>2
      <4>2. QED
        BY <3>1, <4>1, ConfiguredStays, RecordedStays
    <3>3. CASE Raw(d) \notin walk.e.passedProbes
      BY <1>4, <2>1, <2>3, <3>3 DEF Released
    <3>4. QED
      BY <3>2, <3>3
  <2>4. phase' \in {"posted", "idle"} /\ ~passed' /\ held' = <<>> /\ wanted' = {}
    BY <2>1 DEF Released
  <2>5. passed' \in BOOLEAN
    BY <1>3, <1>6 DEF Release
  <2>6. <<>> \in Seq(Config)
    OBVIOUS
  <2>7. /\ missing' = {} /\ Named(systemConfiguration') /\ NamesOK(passedProbes')
        /\ e.passedProbes \subseteq passedProbes' /\ dbusProbeObjects' = e.objects
    BY <1>4, <2>1 DEF Released
  <2>8. phase' # "mapper" /\ phase' \in {"posted", "idle", "mapper"}
    BY <2>4
  <2>9. QED
    BY <1>3, <1>4, <2>2, <2>3, <2>4, <2>5, <2>6, <2>7, <2>8 DEF Ran
<1>7. CASE ~(walk.stopped \/ ask = {})
  <2>1. /\ systemConfiguration' = walk.e.system /\ missing' = walk.e.missing
        /\ passedProbes' = walk.e.passedProbes /\ passed' = walk.e.passed
        /\ dbusProbeObjects' = walk.e.objects /\ phase' = "mapper"
        /\ held' = walk.held /\ wanted' = ask
    BY <1>3, <1>7
  <2>2. walk.e.missing = {} /\ Named(walk.e.system) /\ NamesOK(walk.e.passedProbes)
        /\ walk.e.passed \in BOOLEAN
    BY <1>4, ScanIs DEF IsScan
  <2>3. ask \subseteq Interface
    BY <1>4 DEF Unread
  <2> HIDE DEF ask
  <2>4. QED
    BY <1>3, <1>4, <1>5, <2>1, <2>2, <2>3 DEF Ran
<1>8. QED
  BY <1>6, <1>7

\* And it dealt with all configurations it was to probe.
RanOver(todo, e) ==
    \A c \in Range(todo) :
        /\ Raw(c) \in passedProbes' \/ c \in Range(configurations')
        /\ phase' = "mapper" =>
              \/ Raw(c) \in passedProbes'
              \/ c \in Range(held')
              \/ Interfaces(c) = {} /\ (passed' \/ Fails(c, NothingRead, passedProbes'))
        /\ phase' = "idle" =>
              Raw(c) \in passedProbes' \/ Fails(c, dbusProbeObjects', passedProbes')
        /\ \/ Raw(c) \in e.passedProbes
           \/ Configured(c, systemConfiguration')
           \/ \A i \in Interfaces(c) :
                 i \in wanted' \/ \E p \in Path : e.objects[p][i] # NoValue

LEMMA RunPassDealsWithAll ==
    ASSUME NEW e, IsBegun(e), NEW todo \in Seq(Config), Named(lastJson), RunPass(todo, e),
           EveryProbeParses
    PROVE  RanOver(todo, e)
<1> DEFINE s == Seeded(e)
           walk == WalkAll(s, todo)
           ask == Unread(walk.wanted, e.objects)
<1>1. /\ IsScan(s) /\ s.system = e.system /\ s.objects = e.objects
      /\ e.passedProbes \subseteq s.passedProbes
      /\ \A d \in Config : Raw(d) \in s.passedProbes =>
            Raw(d) \in e.passedProbes \/ Configured(d, e.system)
  BY SeededDoes
<1> HIDE DEF s
<1>2. WalkedTo(walk, s, Range(todo))
  BY <1>1, WalkAllDoes
<1>3. /\ configurations' = walk.left
      /\ IF walk.stopped \/ ask = {}
         THEN Release(walk.e, walk.held)
         ELSE /\ systemConfiguration' = walk.e.system
              /\ passedProbes' = walk.e.passedProbes
              /\ passed' = walk.e.passed
              /\ dbusProbeObjects' = walk.e.objects
              /\ phase' = "mapper"
              /\ held' = walk.held
              /\ wanted' = ask
  BY DEF RunPass, s
<1> HIDE DEF walk
<1>4. ~walk.stopped
  BY <1>2 DEF WalkedTo
<1>5. /\ IsScan(walk.e) /\ walk.held \in Seq(Config) /\ walk.e.objects = e.objects
      /\ ~walk.e.passed => walk.e = s
      /\ KeepsNames(e.system, walk.e.system)
  BY <1>1, <1>2 DEF WalkedTo, Gains
<1>6. ask = {} => Released(walk.e, walk.held)
  BY <1>3, <1>5, ReleaseDoes
<1>7. /\ walk.e.passedProbes \subseteq passedProbes'
      /\ KeepsNames(walk.e.system, systemConfiguration')
      /\ wanted' = ask
  <2>1. CASE ask = {}
    BY <1>6, <2>1 DEF Released
  <2>2. CASE ask # {}
    BY <1>3, <1>4, <2>2 DEF KeepsNames
  <2>3. QED
    BY <2>1, <2>2
<1>8. KeepsNames(e.system, systemConfiguration')
  BY <1>5, <1>7, KeepsOn
<1>9. ASSUME NEW c \in Range(todo)
      PROVE  /\ Raw(c) \in passedProbes' \/ c \in Range(configurations')
             /\ phase' = "mapper" =>
                   \/ Raw(c) \in passedProbes'
                   \/ c \in Range(held')
                   \/ Interfaces(c) = {} /\ (passed' \/ Fails(c, NothingRead, passedProbes'))
             /\ phase' = "idle" =>
                   Raw(c) \in passedProbes' \/ Fails(c, dbusProbeObjects', passedProbes')
             /\ \/ Raw(c) \in e.passedProbes
                \/ Configured(c, systemConfiguration')
                \/ \A i \in Interfaces(c) :
                      i \in wanted' \/ \E p \in Path : e.objects[p][i] # NoValue
  <2>0. c \in Config
    BY RangeAt
  <2>1. Dealt(walk, s, c)
    BY <1>2, <1>4 DEF WalkedTo
  <2>2. Raw(c) \in passedProbes' \/ c \in Range(configurations')
    BY <1>3, <1>7, <2>1 DEF Dealt
  <2>3. ASSUME phase' = "mapper", Raw(c) \notin passedProbes', c \notin Range(held')
        PROVE  Interfaces(c) = {} /\ (passed' \/ Fails(c, NothingRead, passedProbes'))
    <3>1. ask # {}
      BY <1>6, <2>3 DEF Released
    <3>2. /\ passedProbes' = walk.e.passedProbes /\ passed' = walk.e.passed
          /\ held' = walk.held
      BY <1>3, <1>4, <3>1
    <3>3. c \in Bare /\ (walk.e.passed \/ Fails(c, s.objects, s.passedProbes))
      BY <2>1, <2>3, <3>2 DEF Dealt
    <3>4. Interfaces(c) = {}
      BY <3>3 DEF Bare
    <3>5. ASSUME ~walk.e.passed PROVE Fails(c, NothingRead, passedProbes')
      <4>1. walk.e = s
        BY <1>5, <3>5
      <4>2. Fails(c, s.objects, passedProbes')
        BY <3>2, <3>3, <3>5, <4>1
      <4>3. Agree(c, s.objects, NothingRead)
        BY <3>3, BareAgrees
      <4>4. QED
        BY <2>0, <4>2, <4>3, FailsLocal
    <3>6. QED
      BY <3>2, <3>4, <3>5
  <2>4. ASSUME phase' = "idle", Raw(c) \notin passedProbes'
        PROVE  Fails(c, dbusProbeObjects', passedProbes')
    <3>1. ask = {}
      BY <1>3, <1>4, <2>4
    <3>2. /\ ~walk.e.passed /\ passedProbes' = walk.e.passedProbes
          /\ dbusProbeObjects' = walk.e.objects
          /\ \A d \in Range(walk.held) : Fails(d, walk.e.objects, walk.e.passedProbes)
      BY <1>6, <2>4, <3>1 DEF Released
    <3>3. walk.e = s
      BY <1>5, <3>2
    <3>4. c \in Range(walk.held) \/ Fails(c, s.objects, s.passedProbes)
      BY <2>1, <2>4, <3>2 DEF Dealt
    <3>5. QED
      BY <3>2, <3>3, <3>4
  <2>5. ASSUME Raw(c) \notin e.passedProbes, ~Configured(c, systemConfiguration'),
               NEW i \in Interfaces(c)
        PROVE  i \in wanted' \/ \E p \in Path : e.objects[p][i] # NoValue
    <3>1. c \notin Bare
      BY <2>5 DEF Bare
    <3>2. Raw(c) \notin s.passedProbes
      <4>1. ~Configured(c, e.system)
        BY <1>8, <2>5, ConfiguredStays DEF KeepsNames
      <4>2. QED
        BY <1>1, <2>0, <2>5, <4>1
    <3>3. Raw(c) \notin walk.e.passedProbes
      BY <1>2, <2>0, <3>1, <3>2 DEF WalkedTo, Gains
    <3>4. c \in Range(walk.held)
      BY <2>1, <3>1, <3>3 DEF Dealt
    <3>5. i \in walk.wanted
      BY <1>2, <2>5, <3>4 DEF WalkedTo
    <3>6. QED
      BY <1>7, <3>5 DEF Unread
  <2>6. QED
    BY <2>2, <2>3, <2>4, <2>5
<1>10. QED
  BY <1>9 DEF RanOver

-----------------------------------------------------------------------------
(* Every step *)

TypeInv == TypeOK /\ NothingMissing /\ PhaseOf

LEMMA ScannedIs ==
    ASSUME TypeInv, NEW objects
    PROVE  /\ IsScan(ScannedWith(objects))
           /\ ScannedWith(objects).system = systemConfiguration
           /\ ScannedWith(objects).passedProbes = passedProbes
           /\ ScannedWith(objects).passed = passed
           /\ ScannedWith(objects).objects = objects
<1> DEFINE e == ScannedWith(objects)
<1>1. e = Scan(systemConfiguration, {}, passedProbes, passed, objects)
  BY DEF ScannedWith, TypeInv, NothingMissing
<1>2. Named(systemConfiguration) /\ NamesOK(passedProbes) /\ passed \in BOOLEAN
  BY DEF TypeInv, TypeOK, NamesOK
<1> HIDE DEF e
<1>3. /\ e.system = systemConfiguration /\ e.passedProbes = passedProbes
      /\ e.passed = passed /\ e.objects = objects
  BY <1>1 DEF Scan
<1>4. IsScan(e)
  BY <1>1, <1>2, <1>3 DEF IsScan
<1>5. QED
  BY <1>3, <1>4 DEF e

LEMMA LoadOrderIs == LoadOrder \in Seq(Config) /\ Range(LoadOrder) = Config
BY LoadOrderAssumption

\* What is begun by a new scan, and by another pass.
NewScan == Scan(systemConfiguration, DOMAIN systemConfiguration, {}, FALSE, NothingRead)

LEMMA BeginScanDoes ==
    ASSUME TypeInv, BeginScan
    PROVE  /\ IsBegun(NewScan) /\ RunPass(LoadOrder, NewScan) /\ Ran(NewScan)
           /\ NewScan.system = systemConfiguration /\ NewScan.passedProbes = {}
           /\ NewScan.objects = NothingRead
           /\ EveryProbeParses => RanOver(LoadOrder, NewScan)
<1>1. /\ NewScan.system = systemConfiguration /\ NewScan.passedProbes = {}
      /\ NewScan.missing = DOMAIN systemConfiguration /\ NewScan.passed = FALSE
      /\ NewScan.objects = NothingRead
  BY DEF NewScan, Scan
<1>2. IsBegun(NewScan)
  BY <1>1 DEF IsBegun, NamesOK, TypeInv, TypeOK
<1>3. RunPass(LoadOrder, NewScan)
  BY DEF BeginScan, NewScan
<1>4. Named(lastJson)
  BY DEF TypeInv, TypeOK
<1>5. Ran(NewScan) /\ (EveryProbeParses => RanOver(LoadOrder, NewScan))
  BY <1>2, <1>3, <1>4, LoadOrderIs, RunPassDoes, RunPassDealsWithAll
<1>6. QED
  BY <1>1, <1>2, <1>3, <1>5

LEMMA NextPassDoes ==
    ASSUME TypeInv, NextPass
    PROVE  /\ Ran(ScannedWith(dbusProbeObjects))
           /\ EveryProbeParses => RanOver(configurations, ScannedWith(dbusProbeObjects))
<1> DEFINE e == ScannedWith(dbusProbeObjects)
<1>1. /\ e = Scan(systemConfiguration, {}, passedProbes, passed, dbusProbeObjects)
  BY DEF ScannedWith, TypeInv, NothingMissing
<1>2. IsBegun(e)
  BY <1>1, ScannedIs, ScanIs DEF IsScan, IsBegun
<1>3. RunPass(configurations, e) /\ Named(lastJson) /\ configurations \in Seq(Config)
  BY DEF NextPass, TypeInv, TypeOK
<1> HIDE DEF e
<1>4. Ran(e) /\ (EveryProbeParses => RanOver(configurations, e))
  BY <1>2, <1>3, RunPassDoes, RunPassDealsWithAll
<1>5. QED
  BY <1>4 DEF e

LEMMA ReleasesScanned ==
    ASSUME TypeInv, NEW objects, Release(ScannedWith(objects), held)
    PROVE  Released(ScannedWith(objects), held)
<1>1. Named(lastJson) /\ held \in Seq(Config)
  BY DEF TypeInv, TypeOK
<1>2. IsScan(ScannedWith(objects))
  BY ScannedIs
<1>3. QED
  BY <1>1, <1>2, ReleaseDoes

\* One call is over.
CallEnded(call, objects) ==
    /\ calls' = calls \ {call}
    /\ dbusProbeObjects' = objects
    /\ configurations' = configurations
    /\ calls' = {} => Released(ScannedWith(objects), held) /\ passed' = FALSE
    /\ calls' # {} => UNCHANGED <<phase, wanted, held, passedProbes, passed, missing,
                                  systemConfiguration>>

LEMMA CallEndsDoes ==
    ASSUME TypeInv, NEW call \in calls, NEW objects, CallEnds(call, objects)
    PROVE  CallEnded(call, objects)
<1>1. CASE calls \ {call} = {}
  <2>1. calls' = calls \ {call} /\ Release(ScannedWith(objects), held)
        /\ configurations' = configurations
    BY <1>1 DEF CallEnds
  <2>2. Released(ScannedWith(objects), held)
    BY <2>1, ReleasesScanned
  <2>3. dbusProbeObjects' = objects
    BY <2>2, ScannedIs DEF Released
  <2>4. passed' = FALSE
    BY <2>1 DEF Release
  <2>5. QED
    BY <1>1, <2>1, <2>2, <2>3, <2>4 DEF CallEnded
<1>2. CASE calls \ {call} # {}
  BY <1>2 DEF CallEnds, CallEnded
<1>3. QED
  BY <1>1, <1>2

ReplyObjects(call) ==
    IF bus[call.path][call.interface] = NoValue THEN dbusProbeObjects
    ELSE Having(dbusProbeObjects, call.path, call.interface, bus[call.path][call.interface])

LEMMA HavingType ==
    ASSUME NEW objects \in Objects, NEW p \in Path, NEW i \in Interface,
           NEW value \in Value \cup {NoValue}
    PROVE  /\ Having(objects, p, i, value) \in Objects
           /\ \A q \in Path, j \in Interface :
                 Having(objects, p, i, value)[q][j]
                     = IF q = p /\ j = i THEN value ELSE objects[q][j]
<1>1. \A q \in Path, j \in Interface : objects[q][j] \in Value \cup {NoValue}
  BY DEF Objects
<1>2. QED
  BY <1>1 DEF Having, Objects

LEMMA ReplyObjectsType ==
    ASSUME TypeInv, NEW call \in calls
    PROVE  ReplyObjects(call) \in Objects
<1>1. call.path \in Path /\ call.interface \in Interface /\ bus \in Objects /\ dbusProbeObjects \in Objects
  BY DEF TypeInv, TypeOK, Call
<1>2. bus[call.path][call.interface] \in Value \cup {NoValue}
  BY <1>1 DEF Objects
<1>3. QED
  BY <1>1, <1>2, HavingType DEF ReplyObjects

\* What a step does to the configuration and to what has passed.
Progress ==
    /\ missing' = {}
    /\ Named(systemConfiguration') /\ KeepsNames(systemConfiguration, systemConfiguration')
    /\ NamesOK(passedProbes')
    /\ passed' \in BOOLEAN /\ held' \in Seq(Config) /\ configurations' \in Seq(Config)
    /\ wanted' \subseteq Interface
    /\ dbusProbeObjects' \in Objects
    /\ lastJson' = lastJson

LEMMA ProgressStill ==
    ASSUME TypeInv, UNCHANGED <<wanted, probing, dbusProbeObjects>>
    PROVE  Progress
<1>1. KeepsNames(systemConfiguration, systemConfiguration)
  BY DEF KeepsNames
<1>2. QED
  BY <1>1 DEF Progress, TypeInv, TypeOK, NothingMissing, NamesOK, probing

LEMMA ProgressReleased ==
    ASSUME TypeInv, NEW objects \in Objects, Released(ScannedWith(objects), held),
           passed' = FALSE, configurations' = configurations, lastJson' = lastJson
    PROVE  Progress
<1>1. <<>> \in Seq(Config)
  OBVIOUS
<1>2. QED
  BY <1>1, ScannedIs DEF Progress, Released, TypeInv, TypeOK

LEMMA ProgressCallEnds ==
    ASSUME TypeInv, NEW call \in calls, NEW objects \in Objects, CallEnded(call, objects),
           lastJson' = lastJson
    PROVE  Progress
<1>1. CASE calls' = {}
  BY <1>1, ProgressReleased DEF CallEnded
<1>2. CASE calls' # {}
  <2>1. /\ dbusProbeObjects' = objects /\ configurations' = configurations
        /\ UNCHANGED <<phase, wanted, held, passedProbes, passed, missing, systemConfiguration>>
    BY <1>2 DEF CallEnded
  <2>2. KeepsNames(systemConfiguration, systemConfiguration)
    BY DEF KeepsNames
  <2>3. QED
    BY <2>1, <2>2 DEF Progress, TypeInv, TypeOK, NothingMissing, NamesOK
<1>3. QED
  BY <1>1, <1>2

LEMMA ProgressAlways ==
    ASSUME TypeInv, [Next]_vars
    PROVE  Progress
<1>1. CASE BeginScan
  <2>1. NothingRead \in Objects
    BY DEF NothingRead, Objects
  <2>2. lastJson' = lastJson
    BY <1>1 DEF BeginScan
  <2>3. QED
    BY <1>1, <2>1, <2>2, BeginScanDoes DEF Progress, Ran
<1>2. CASE NextPass
  <2>1. lastJson' = lastJson /\ dbusProbeObjects \in Objects
    BY <1>2 DEF NextPass, TypeInv, TypeOK
  <2>2. QED
    BY <1>2, <2>1, NextPassDoes, ScannedIs DEF Progress, Ran
<1>3. CASE MapperReplies
  BY <1>3, ProgressStill DEF MapperReplies
<1>4. CASE MapperFindsNothing
  <2>1. /\ Release(ScannedWith(dbusProbeObjects), held)
        /\ configurations' = configurations /\ lastJson' = lastJson
    BY <1>4 DEF MapperFindsNothing
  <2>2. passed' = FALSE
    BY <2>1 DEF Release
  <2>3. dbusProbeObjects \in Objects
    BY DEF TypeInv, TypeOK
  <2>4. QED
    BY <2>1, <2>2, <2>3, ReleasesScanned, ProgressReleased
<1>5. CASE MapperRetry
  BY <1>5, ProgressStill DEF MapperRetry
<1>6. ASSUME NEW call \in calls, Reply(call) PROVE Progress
  <2>1. CallEnds(call, ReplyObjects(call)) /\ lastJson' = lastJson
    BY <1>6 DEF Reply, ReplyObjects
  <2>2. QED
    BY <2>1, ReplyObjectsType, CallEndsDoes, ProgressCallEnds
<1>7. ASSUME NEW call \in calls, CallRetry(call) PROVE Progress
  BY <1>7, ProgressStill DEF CallRetry, Again
<1>8. ASSUME NEW call \in calls, CallGivenUp(call) PROVE Progress
  <2>1. CallEnds(call, dbusProbeObjects) /\ lastJson' = lastJson /\ dbusProbeObjects \in Objects
    BY <1>8 DEF CallGivenUp, TypeInv, TypeOK
  <2>2. QED
    BY <2>1, CallEndsDoes, ProgressCallEnds
<1>9. CASE MapperFails
  BY <1>9, ProgressStill DEF MapperFails
<1>10. ASSUME NEW call \in calls, CallFails(call) PROVE Progress
  BY <1>10, ProgressStill DEF CallFails
<1>11. CASE HandleSignal
  BY <1>11, ProgressStill DEF HandleSignal
<1>12. ASSUME NEW p \in Path, NEW i \in Interface, NEW v, Changes(p, i, v) PROVE Progress
  BY <1>12, ProgressStill DEF Changes
<1>13. CASE UNCHANGED vars
  BY <1>13, ProgressStill DEF vars
<1>14. QED
  BY <1>1, <1>2, <1>3, <1>4, <1>5, <1>6, <1>7, <1>8, <1>9, <1>10, <1>11, <1>12, <1>13
     DEF Next, Scanning, Failing, Hardware

\* What is typed besides.
BusType ==
    /\ bus \in Objects
    /\ signals \in Seq([kind : {"added", "removed", "changed", "owner"}, path : Path])
    /\ changes \in 0..MaxChanges
    /\ dbusMatches \in SUBSET Path
    /\ dirty \in BOOLEAN
    /\ gaveUp \in BOOLEAN
PhaseType ==
    /\ phase \in {"idle", "posted", "mapper", "mapperWait", "calls", "exited"}
    /\ retries \in 0..MapperRetries
    /\ calls \in SUBSET Call
    /\ PhaseOf

LEMMA TypeInvParts ==
    ASSUME Progress, TypeInv, BusType', PhaseType'
    PROVE  TypeInv'
BY DEF Progress, TypeInv, TypeOK, NothingMissing, NamesOK, BusType, PhaseType

LEMMA BusTypeStep ==
    ASSUME TypeInv, [Next]_vars
    PROVE  BusType'
<1>0. BusType
  BY DEF TypeInv, TypeOK, BusType
<1> DEFINE Same == UNCHANGED <<bus, signals, changes>>
<1>1. CASE BeginScan
  BY <1>0, <1>1 DEF BeginScan, BusType, environment
<1>2. CASE NextPass
  BY <1>0, <1>2 DEF NextPass, BusType, environment, filters
<1>3. CASE MapperReplies
  <2>1. Owners \subseteq Path
    BY DEF Owners
  <2>2. QED
    BY <1>0, <1>3, <2>1 DEF MapperReplies, Register, BusType, environment
<1>4. CASE MapperFindsNothing
  BY <1>0, <1>4 DEF MapperFindsNothing, BusType, environment, filters
<1>5. CASE MapperRetry
  BY <1>0, <1>5 DEF MapperRetry, BusType, environment, filters
<1>6. ASSUME NEW call \in calls, Reply(call) PROVE BusType'
  BY <1>0, <1>6 DEF Reply, BusType, environment, filters
<1>7. ASSUME NEW call \in calls, CallRetry(call) PROVE BusType'
  BY <1>0, <1>7 DEF CallRetry, Again, BusType, environment, filters
<1>8. ASSUME NEW call \in calls, CallGivenUp(call) PROVE BusType'
  BY <1>0, <1>8 DEF CallGivenUp, BusType, environment, filters
<1>9. CASE MapperFails
  BY <1>0, <1>9 DEF MapperFails, BusType, environment, filters
<1>10. ASSUME NEW call \in calls, CallFails(call) PROVE BusType'
  BY <1>0, <1>10 DEF CallFails, BusType, environment, filters
<1>11. CASE HandleSignal
  <2>1. Tail(signals) \in Seq([kind : {"added", "removed", "changed", "owner"}, path : Path])
    BY <1>0, <1>11, HeadTailProperties DEF HandleSignal, BusType
  <2>2. dirty' \in BOOLEAN
    BY <1>11 DEF HandleSignal
  <2>3. QED
    BY <1>0, <1>11, <2>1, <2>2 DEF HandleSignal, BusType, environment
<1>12. ASSUME NEW p \in Path, NEW i \in Interface, NEW v \in Offers[p][i] \cup {NoValue},
              Changes(p, i, v)
       PROVE  BusType'
  <2>1. v \in Value \cup {NoValue}
    BY OffersAssumption
  <2>2. bus' \in Objects
    BY <1>0, <1>12, <2>1, HavingType DEF Changes, BusType
  <2>3. changes' \in 0..MaxChanges
    BY <1>0, <1>12, ChangesAssumption DEF Changes, BusType
  <2>4. signals' \in Seq([kind : {"added", "removed", "changed", "owner"}, path : Path])
    <3>1. \A kind \in {"added", "removed", "changed", "owner"} :
             Append(signals, [kind |-> kind, path |-> p])
                \in Seq([kind : {"added", "removed", "changed", "owner"}, path : Path])
      BY <1>0, AppendProperties DEF BusType
    <3>2. \/ signals' = signals
          \/ \E kind \in {"added", "removed", "changed", "owner"} :
                signals' = Append(signals, [kind |-> kind, path |-> p])
      BY <1>12 DEF Changes
    <3>3. QED
      BY <1>0, <3>1, <3>2 DEF BusType
  <2>5. QED
    BY <1>0, <1>12, <2>2, <2>3, <2>4 DEF Changes, BusType
<1>13. CASE UNCHANGED vars
  BY <1>0, <1>13 DEF BusType, vars, environment, filters
<1>14. QED
  BY <1>1, <1>2, <1>3, <1>4, <1>5, <1>6, <1>7, <1>8, <1>9, <1>10, <1>11, <1>12, <1>13
     DEF Next, Scanning, Failing, Hardware

LEMMA CallToType ==
    ASSUME NEW call \in Call, NEW left \in 1..GetAllRetries, NEW waiting \in BOOLEAN
    PROVE  CallTo(call.path, call.interface, left, waiting) \in Call
BY DEF Call, CallTo

\* A call that is made again, or is to be.
LEMMA CallMadeAgain ==
    ASSUME TypeInv, NEW call \in calls, phase = "calls", NEW left \in 1..GetAllRetries,
           NEW waiting \in BOOLEAN,
           calls' = (calls \ {call}) \cup {CallTo(call.path, call.interface, left, waiting)},
           UNCHANGED <<phase, retries, passed>>
    PROVE  PhaseType'
<1>1. calls \in SUBSET Call
  BY DEF TypeInv, TypeOK
<1>2. calls' \in SUBSET Call /\ calls' # {}
  BY <1>1, CallToType
<1>3. QED
  BY <1>2 DEF PhaseType, PhaseOf, TypeInv, TypeOK

LEMMA PhaseTypeCallEnds ==
    ASSUME TypeInv, NEW call \in calls, phase = "calls", NEW objects, CallEnded(call, objects),
           retries' = retries
    PROVE  PhaseType'
<1>1. calls' \in SUBSET Call /\ retries' \in 0..MapperRetries
  BY DEF TypeInv, TypeOK, CallEnded
<1>2. CASE calls' = {}
  <2>1. phase' \in {"posted", "idle"} /\ ~passed'
    BY <1>2 DEF CallEnded, Released
  <2>2. QED
    BY <1>1, <1>2, <2>1 DEF PhaseType, PhaseOf
<1>3. CASE calls' # {}
  BY <1>1, <1>3 DEF CallEnded, PhaseType, PhaseOf
<1>4. QED
  BY <1>2, <1>3

LEMMA PhaseTypeStep ==
    ASSUME TypeInv, [Next]_vars
    PROVE  PhaseType'
<1>0. PhaseType
  BY DEF TypeInv, TypeOK, PhaseType
<1>1. CASE BeginScan
  <2>1. Ran(NewScan) /\ calls' = calls /\ phase = "idle"
    BY <1>1, BeginScanDoes DEF BeginScan
  <2>2. calls' = {} /\ MapperRetries \in 0..MapperRetries
    BY <1>0, <2>1, RetriesAssumption DEF PhaseType, PhaseOf
  <2>3. QED
    BY <2>1, <2>2 DEF PhaseType, PhaseOf, Ran
<1>2. CASE NextPass
  <2>1. Ran(ScannedWith(dbusProbeObjects)) /\ calls' = calls /\ phase = "posted"
    BY <1>2, NextPassDoes DEF NextPass
  <2>2. calls' = {} /\ MapperRetries \in 0..MapperRetries
    BY <1>0, <2>1, RetriesAssumption DEF PhaseType, PhaseOf
  <2>3. QED
    BY <2>1, <2>2 DEF PhaseType, PhaseOf, Ran
<1>3. CASE MapperReplies
  <2>1. phase' = "calls" /\ calls' \in SUBSET Call /\ UNCHANGED <<retries>>
    BY <1>3 DEF MapperReplies
  <2>2. calls' # {}
    <3>1. PICK p \in Path, i \in wanted : bus[p][i] # NoValue /\ p \in Owners
      BY <1>3 DEF MapperReplies, Owners
    <3>2. i \in Interface /\ GetAllRetries \in 1..GetAllRetries
      BY RetriesAssumption DEF TypeInv, TypeOK
    <3>3. /\ CallTo(p, i, GetAllRetries, FALSE) \in Call
          /\ CallTo(p, i, GetAllRetries, FALSE).path = p
          /\ CallTo(p, i, GetAllRetries, FALSE).interface = i
          /\ CallTo(p, i, GetAllRetries, FALSE).retries = GetAllRetries
          /\ ~CallTo(p, i, GetAllRetries, FALSE).waiting
      BY <3>2 DEF CallTo, Call
    <3>4. CallTo(p, i, GetAllRetries, FALSE) \in calls'
      BY <1>3, <3>1, <3>3 DEF MapperReplies
    <3>5. QED
      BY <3>4
  <2>3. QED
    BY <1>0, <2>1, <2>2 DEF PhaseType, PhaseOf
<1>4. CASE MapperFindsNothing
  <2>1. Released(ScannedWith(dbusProbeObjects), held)
    BY <1>4, ReleasesScanned DEF MapperFindsNothing
  <2>2. phase = "mapper" /\ calls' = calls /\ retries' = retries
    BY <1>4 DEF MapperFindsNothing
  <2>3. phase' \in {"posted", "idle"} /\ ~passed'
    BY <2>1 DEF Released
  <2>4. calls' = {}
    BY <1>0, <2>2 DEF PhaseType, PhaseOf
  <2>5. QED
    BY <1>0, <2>2, <2>3, <2>4 DEF PhaseType, PhaseOf
<1>5. CASE MapperRetry
  <2>1. phase = "mapperWait" /\ phase' = "mapper" /\ retries' = retries - 1
        /\ calls' = calls /\ passed' = passed
    BY <1>5 DEF MapperRetry, probing
  <2>2. retries > 0 /\ calls = {}
    BY <1>0, <2>1 DEF PhaseType, PhaseOf
  <2>3. retries' \in 0..MapperRetries
    BY <1>0, <2>1, <2>2, RetriesAssumption DEF PhaseType
  <2>4. QED
    BY <1>0, <2>1, <2>2, <2>3 DEF PhaseType, PhaseOf
<1>6. ASSUME NEW call \in calls, Reply(call) PROVE PhaseType'
  <2>1. CallEnds(call, ReplyObjects(call)) /\ retries' = retries /\ phase = "calls"
    BY <1>6 DEF Reply, ReplyObjects
  <2>2. QED
    BY <2>1, CallEndsDoes, PhaseTypeCallEnds
<1>7. ASSUME NEW call \in calls, CallRetry(call) PROVE PhaseType'
  <2>1. call.retries \in 1..GetAllRetries /\ call.retries > 1
    BY <1>0, <1>7 DEF PhaseType, Call, CallRetry, Again, RetriesLeft
  <2>2. call.retries - 1 \in 1..GetAllRetries /\ FALSE \in BOOLEAN
    BY <2>1, RetriesAssumption
  <2>3. QED
    BY <1>7, <2>2, CallMadeAgain DEF CallRetry, Again, probing
<1>8. ASSUME NEW call \in calls, CallGivenUp(call) PROVE PhaseType'
  <2>1. CallEnds(call, dbusProbeObjects) /\ retries' = retries /\ phase = "calls"
    BY <1>8 DEF CallGivenUp
  <2>2. QED
    BY <2>1, CallEndsDoes, PhaseTypeCallEnds
<1>9. CASE MapperFails
  <2>1. /\ phase = "mapper" /\ phase' = IF retries = 0 THEN "exited" ELSE "mapperWait"
        /\ UNCHANGED <<retries, calls, passed>>
    BY <1>9 DEF MapperFails, probing
  <2>2. calls = {} /\ retries \in Nat
    BY <1>0, <2>1, RetriesAssumption DEF PhaseType, PhaseOf
  <2>3. phase' = "exited" \/ (phase' = "mapperWait" /\ retries > 0)
    BY <2>1, <2>2
  <2>4. QED
    BY <1>0, <2>1, <2>2, <2>3 DEF PhaseType, PhaseOf
<1>10. ASSUME NEW call \in calls, CallFails(call) PROVE PhaseType'
  <2>1. call.retries \in 1..GetAllRetries /\ TRUE \in BOOLEAN
    BY <1>0 DEF PhaseType, Call
  <2>2. QED
    BY <1>10, <2>1, CallMadeAgain DEF CallFails, probing
<1>11. CASE HandleSignal
  BY <1>0, <1>11 DEF HandleSignal, PhaseType, PhaseOf, probing
<1>12. ASSUME NEW p \in Path, NEW i \in Interface, NEW v, Changes(p, i, v) PROVE PhaseType'
  BY <1>0, <1>12 DEF Changes, PhaseType, PhaseOf, probing
<1>13. CASE UNCHANGED vars
  BY <1>0, <1>13 DEF PhaseType, PhaseOf, vars, probing
<1>14. QED
  BY <1>1, <1>2, <1>3, <1>4, <1>5, <1>6, <1>7, <1>8, <1>9, <1>10, <1>11, <1>12, <1>13
     DEF Next, Scanning, Failing, Hardware

LEMMA TypeInvInit ==
    ASSUME Init
    PROVE  TypeInv
<1>1. NothingRead \in Objects /\ <<>> \in Seq(Config)
  BY DEF NothingRead, Objects
<1>2. <<>> \in Seq([kind : {"added", "removed", "changed", "owner"}, path : Path])
  OBVIOUS
<1>3. DOMAIN systemConfiguration = {}
  BY DEF Init
<1>4. Named(systemConfiguration)
  BY <1>3 DEF Named
<1>5. Named(lastJson)
  BY BootsAssumption DEF Init
<1>6. retries \in 0..MapperRetries /\ 0 \in 0..MaxChanges
  BY RetriesAssumption, ChangesAssumption DEF Init
<1>7. TypeOK
  BY <1>1, <1>2, <1>4, <1>5, <1>6 DEF Init, TypeOK
<1>8. QED
  BY <1>7 DEF Init, TypeInv, NothingMissing, PhaseOf

LEMMA TypeInvStep ==
    ASSUME TypeInv, [Next]_vars
    PROVE  TypeInv'
BY ProgressAlways, BusTypeStep, PhaseTypeStep, TypeInvParts

\* The variables hold what they should, whatever the devices do and whichever
\* calls fail.
THEOREM TypeCorrect == Spec => []TypeOK
<1>1. Init => TypeInv
  BY TypeInvInit
<1>2. TypeInv /\ [Next]_vars => TypeInv'
  BY TypeInvStep
<1>3. TypeInv => TypeOK
  BY DEF TypeInv
<1>4. QED
  BY <1>1, <1>2, <1>3, PTL DEF Spec

\* No rescan renames anything: a record keeps its name for as long as it is
\* configured, and one that the last boot had comes back under the name it had
\* then, in whatever order its devices are found
\* (restorePersistedConfigurations, updateSystemConfigurationForDevice).
THEOREM NamesStay == Spec => NamesAreKept
<1>1. ASSUME TypeInv, [Next]_vars
      PROVE  \A r \in DOMAIN systemConfiguration' :
                systemConfiguration'[r] =
                    IF r \in DOMAIN systemConfiguration THEN systemConfiguration[r]
                    ELSE IF r \in DOMAIN lastJson THEN lastJson[r]
                    ELSE systemConfiguration'[r]
  <2>1. KeepsNames(systemConfiguration, systemConfiguration')
    BY <1>1, ProgressAlways DEF Progress
  <2>2. QED
    BY <2>1 DEF KeepsNames
<1>2. Init => TypeInv
  BY TypeInvInit
<1>3. TypeInv /\ [Next]_vars => TypeInv'
  BY TypeInvStep
<1>4. QED
  BY <1>1, <1>2, <1>3, PTL DEF Spec, NamesAreKept

-----------------------------------------------------------------------------
(* A scan goes on until nothing left would pass *)

FixInv == Listed /\ Walked /\ AtFixpoint

NothingWouldPass ==
    \A c \in Config : Raw(c) \in passedProbes \/ Fails(c, dbusProbeObjects, passedProbes)

LEMMA FixRan ==
    ASSUME NEW todo, NEW e, Ran(e), RanOver(todo, e),
           \A c \in Config : c \in Range(todo) \/ Raw(c) \in passedProbes'
    PROVE  FixInv' /\ (phase' = "idle" => NothingWouldPass')
<1>1. phase' \in {"posted", "idle", "mapper"}
  BY DEF Ran
<1>2. Listed'
  BY DEF RanOver, Listed
<1>3. Walked'
  <2>1. SUFFICES ASSUME phase' \in Active \ {"posted"}, NEW c \in Config
                 PROVE  \/ Raw(c) \in passedProbes'
                        \/ c \in Range(held')
                        \/ Interfaces(c) = {} /\ (passed' \/ Fails(c, NothingRead, passedProbes'))
    BY DEF Walked, Fails
  <2>2. phase' = "mapper"
    BY <1>1, <2>1 DEF Active
  <2>3. QED
    BY <2>2 DEF RanOver
<1>4. phase' = "idle" => NothingWouldPass'
  <2>1. ASSUME phase' = "idle", NEW c \in Config, Raw(c) \notin passedProbes'
        PROVE  Fails(c, dbusProbeObjects', passedProbes')
    BY <2>1 DEF RanOver
  <2>2. QED
    BY <2>1 DEF NothingWouldPass, Fails
<1>5. AtFixpoint'
  BY <1>4 DEF AtFixpoint, NothingWouldPass
<1>6. QED
  BY <1>2, <1>3, <1>4, <1>5 DEF FixInv

LEMMA FixReleased ==
    ASSUME TypeInv, FixInv, phase \in {"mapper", "calls"}, NEW objects,
           Released(ScannedWith(objects), held), configurations' = configurations
    PROVE  FixInv' /\ (phase' = "idle" => NothingWouldPass')
<1>1. /\ phase' \in {"posted", "idle"} /\ passedProbes \subseteq passedProbes'
      /\ dbusProbeObjects' = objects
      /\ phase' = "idle" =>
            /\ ~passed /\ passedProbes' = passedProbes
            /\ \A c \in Range(held) : Fails(c, objects, passedProbes)
  BY ScannedIs DEF Released
<1>2. Listed'
  BY <1>1 DEF FixInv, Listed, Active
<1>3. Walked'
  BY <1>1 DEF Walked, Active
<1>4. phase' = "idle" => NothingWouldPass'
  <2>1. ASSUME phase' = "idle", NEW c \in Config, Raw(c) \notin passedProbes'
        PROVE  Fails(c, dbusProbeObjects', passedProbes')
    <3>1. c \in Range(held) \/ (c \in Bare /\ Fails(c, NothingRead, passedProbes))
      BY <1>1, <2>1 DEF FixInv, Walked, Active, Bare
    <3>2. CASE c \in Range(held)
      BY <1>1, <2>1, <3>2
    <3>3. CASE c \in Bare /\ Fails(c, NothingRead, passedProbes)
      <4>1. Agree(c, NothingRead, objects)
        BY <3>3, BareAgrees
      <4>2. Fails(c, objects, passedProbes)
        BY <3>3, <4>1, FailsLocal
      <4>3. QED
        BY <1>1, <2>1, <4>2
    <3>4. QED
      BY <3>1, <3>2, <3>3
  <2>2. QED
    BY <2>1 DEF NothingWouldPass, Fails
<1>5. AtFixpoint'
  BY <1>4 DEF AtFixpoint, NothingWouldPass
<1>6. QED
  BY <1>2, <1>3, <1>4, <1>5 DEF FixInv

\* A step that evaluates nothing.
LEMMA FixStill ==
    ASSUME FixInv, UNCHANGED <<held, configurations, passedProbes, passed>>,
           \/ phase' = phase
           \/ /\ phase \in Active \ {"posted"}
              /\ phase' \in (Active \ {"posted"}) \cup {"exited"},
           phase' = "idle" => UNCHANGED dbusProbeObjects /\ (dirty => dirty')
    PROVE  FixInv' /\ ~(phase # "idle" /\ phase' = "idle")
<1>1. Listed'
  BY DEF FixInv, Listed, Active
<1>2. Walked'
  BY DEF FixInv, Walked, Active, Fails
<1>3. phase' = "idle" => phase = "idle"
  BY DEF Active
<1>4. AtFixpoint'
  <2>1. ASSUME phase' = "idle", ~dirty', NEW c \in Config
        PROVE  Raw(c) \in passedProbes' \/ Fails(c, dbusProbeObjects', passedProbes')
    BY <1>3, <2>1 DEF FixInv, AtFixpoint
  <2>2. QED
    BY <2>1 DEF AtFixpoint, Fails
<1>5. QED
  BY <1>1, <1>2, <1>3, <1>4 DEF FixInv

LEMMA FixCallEnds ==
    ASSUME TypeInv, FixInv, phase = "calls", NEW call \in calls, NEW objects,
           CallEnds(call, objects)
    PROVE  FixInv' /\ (phase' = "idle" => NothingWouldPass')
<1>1. CallEnded(call, objects)
  BY CallEndsDoes
<1>2. CASE calls' = {}
  BY <1>1, <1>2, FixReleased DEF CallEnded
<1>3. CASE calls' # {}
  <2>1. UNCHANGED <<phase, held, configurations, passedProbes, passed>>
    BY <1>1, <1>3 DEF CallEnded
  <2>2. phase' # "idle"
    BY <2>1
  <2>3. QED
    BY <2>1, <2>2, FixStill
<1>4. QED
  BY <1>2, <1>3

LEMMA FixStep ==
    ASSUME EveryProbeParses, TypeInv, FixInv, [Next]_vars
    PROVE  FixInv' /\ (phase # "idle" /\ phase' = "idle" => NothingWouldPass')
<1>1. CASE BeginScan
  <2>1. Ran(NewScan) /\ RanOver(LoadOrder, NewScan)
    BY <1>1, BeginScanDoes
  <2>2. QED
    BY <2>1, LoadOrderIs, FixRan
<1>2. CASE NextPass
  <2> DEFINE e == ScannedWith(dbusProbeObjects)
  <2>1. Ran(e) /\ RanOver(configurations, e)
    BY <1>2, NextPassDoes
  <2>2. e.passedProbes = passedProbes
    BY ScannedIs
  <2> HIDE DEF e
  <2>3. \A c \in Config : c \in Range(configurations) \/ Raw(c) \in passedProbes'
    <3>1. phase \in Active
      BY <1>2 DEF NextPass, Active
    <3>2. passedProbes \subseteq passedProbes'
      BY <2>1, <2>2 DEF Ran
    <3>3. QED
      BY <3>1, <3>2 DEF FixInv, Listed
  <2>4. QED
    BY <2>1, <2>3, FixRan
<1>3. CASE MapperReplies
  <2>1. phase = "mapper" /\ phase' = "calls"
        /\ UNCHANGED <<held, configurations, passedProbes, passed>>
    BY <1>3 DEF MapperReplies, probing
  <2>2. QED
    BY <2>1, FixStill DEF Active
<1>4. CASE MapperFindsNothing
  <2>1. Released(ScannedWith(dbusProbeObjects), held)
    BY <1>4, ReleasesScanned DEF MapperFindsNothing
  <2>2. phase = "mapper" /\ configurations' = configurations
    BY <1>4 DEF MapperFindsNothing
  <2>3. QED
    BY <2>1, <2>2, FixReleased
<1>5. CASE MapperRetry
  <2>1. phase = "mapperWait" /\ phase' = "mapper"
        /\ UNCHANGED <<held, configurations, passedProbes, passed>>
    BY <1>5 DEF MapperRetry, probing
  <2>2. QED
    BY <2>1, FixStill DEF Active
<1>6. ASSUME NEW call \in calls, Reply(call)
      PROVE  FixInv' /\ (phase # "idle" /\ phase' = "idle" => NothingWouldPass')
  <2>1. CallEnds(call, ReplyObjects(call)) /\ phase = "calls"
    BY <1>6 DEF Reply, ReplyObjects
  <2>2. QED
    BY <2>1, FixCallEnds
<1>7. ASSUME NEW call \in calls, CallRetry(call)
      PROVE  FixInv' /\ (phase # "idle" /\ phase' = "idle" => NothingWouldPass')
  <2>1. UNCHANGED <<phase, held, configurations, passedProbes, passed, dbusProbeObjects, dirty>>
    BY <1>7 DEF CallRetry, Again, probing, filters
  <2>2. QED
    BY <2>1, FixStill
<1>8. ASSUME NEW call \in calls, CallGivenUp(call)
      PROVE  FixInv' /\ (phase # "idle" /\ phase' = "idle" => NothingWouldPass')
  <2>1. CallEnds(call, dbusProbeObjects) /\ phase = "calls"
    BY <1>8 DEF CallGivenUp
  <2>2. QED
    BY <2>1, FixCallEnds
<1>9. CASE MapperFails
  <2>1. phase = "mapper" /\ phase' \in {"exited", "mapperWait"}
        /\ UNCHANGED <<held, configurations, passedProbes, passed>>
    BY <1>9 DEF MapperFails, probing
  <2>2. QED
    BY <2>1, FixStill DEF Active
<1>10. ASSUME NEW call \in calls, CallFails(call)
       PROVE  FixInv' /\ (phase # "idle" /\ phase' = "idle" => NothingWouldPass')
  <2>1. UNCHANGED <<phase, held, configurations, passedProbes, passed, dbusProbeObjects, dirty>>
    BY <1>10 DEF CallFails, probing, filters
  <2>2. QED
    BY <2>1, FixStill
<1>11. CASE HandleSignal
  <2>1. UNCHANGED <<phase, held, configurations, passedProbes, passed, dbusProbeObjects>>
        /\ (dirty => dirty')
    BY <1>11 DEF HandleSignal, probing
  <2>2. QED
    BY <2>1, FixStill
<1>12. ASSUME NEW p \in Path, NEW i \in Interface, NEW v, Changes(p, i, v)
       PROVE  FixInv' /\ (phase # "idle" /\ phase' = "idle" => NothingWouldPass')
  <2>1. UNCHANGED <<phase, held, configurations, passedProbes, passed, dbusProbeObjects, dirty>>
    BY <1>12 DEF Changes, probing
  <2>2. QED
    BY <2>1, FixStill
<1>13. CASE UNCHANGED vars
  <2>1. UNCHANGED <<phase, held, configurations, passedProbes, passed, dbusProbeObjects, dirty>>
    BY <1>13 DEF vars, probing, filters
  <2>2. QED
    BY <2>1, FixStill
<1>14. QED
  BY <1>1, <1>2, <1>3, <1>4, <1>5, <1>6, <1>7, <1>8, <1>9, <1>10, <1>11, <1>12, <1>13
     DEF Next, Scanning, Failing, Hardware

LEMMA FixInit ==
    ASSUME Init
    PROVE  FixInv
BY DEF Init, FixInv, Listed, Walked, AtFixpoint, Active

\* A scan completes only when no configuration left over would pass on what it
\* has read: FOUND finds its board in whatever order the files were loaded
\* (~PerformScan).
THEOREM FixpointIsReached ==
    ASSUME EveryProbeParses
    PROVE  Spec => ScanReachesFixpoint
<1>1. Init => TypeInv /\ FixInv
  BY TypeInvInit, FixInit
<1>2. TypeInv /\ FixInv /\ [Next]_vars => (TypeInv /\ FixInv)'
  BY TypeInvStep, FixStep
<1>3. ASSUME TypeInv, FixInv, [Next]_vars, phase # "idle", phase' = "idle"
      PROVE  \A c \in Config :
                DoProbe(Command[c], dbusProbeObjects', passedProbes').ret
                    => Raw(c) \in passedProbes'
  <2>1. NothingWouldPass'
    BY <1>3, FixStep
  <2>2. QED
    BY <2>1 DEF NothingWouldPass, Fails
<1>4. QED
  BY <1>1, <1>2, <1>3, PTL DEF Spec, ScanReachesFixpoint

-----------------------------------------------------------------------------
(* What a scan knows of the bus *)

\* What was read of all objects that have an interface of a probe is what the
\* probe would find on the bus.
LEMMA AllAgree ==
    ASSUME NEW d \in Config, NEW o, NEW b,
           \A p \in Path, i \in Interface : o[p][i] # NoValue => b[p][i] = o[p][i],
           \A p \in Path : (\E i \in Interface : o[p][i] # NoValue)
                               => \A i \in Interface : o[p][i] = b[p][i],
           \A i \in Interfaces(d), p \in Path :
               b[p][i] # NoValue => \E j \in Interface : o[p][j] # NoValue
    PROVE  Agree(d, o, b)
<1>1. ASSUME NEW i \in Interfaces(d), NEW p \in Path PROVE o[p][i] = b[p][i]
  <2>1. i \in Interface
    BY InterfacesType
  <2>2. CASE b[p][i] # NoValue
    BY <2>1, <2>2
  <2>3. CASE b[p][i] = NoValue
    BY <2>1, <2>3
  <2>4. QED
    BY <2>2, <2>3
<1>2. QED
  BY <1>1 DEF Agree

LEMMA NewlyRecorded ==
    ASSUME ReadIsCurrent', AllIsRead', AllIsSeen', calls' = {}, phase' \in {"posted", "idle"},
           NEW d \in Config, Recorded(d, dbusProbeObjects', systemConfiguration')
    PROVE  Recorded(d, bus', systemConfiguration')
<1>1. CASE Configured(d, systemConfiguration')
  BY <1>1, ConfiguredIsRecorded
<1>2. CASE ~Configured(d, systemConfiguration')
  <2>1. \A i \in Interfaces(d) : Covered(i)'
    BY <1>2 DEF AllIsSeen, Configured
  <2>2. \A p \in Path : Seen(p)' <=> \E i \in Interface : dbusProbeObjects'[p][i] # NoValue
    BY DEF Seen, Asked
  <2>3. \A i \in Interfaces(d), p \in Path :
           bus'[p][i] # NoValue => \E j \in Interface : dbusProbeObjects'[p][j] # NoValue
    BY <2>1, <2>2 DEF Covered
  <2>4. \A p \in Path : (\E i \in Interface : dbusProbeObjects'[p][i] # NoValue)
                            => \A i \in Interface : dbusProbeObjects'[p][i] = bus'[p][i]
    BY <2>2 DEF AllIsRead, Asked
  <2>5. \A p \in Path, i \in Interface :
           dbusProbeObjects'[p][i] # NoValue => bus'[p][i] = dbusProbeObjects'[p][i]
    BY DEF ReadIsCurrent
  <2>6. PICK o, b : o = dbusProbeObjects' /\ b = bus'
    OBVIOUS
  <2>7. Agree(d, o, b)
    BY <2>3, <2>4, <2>5, <2>6, AllAgree
  <2>8. Recorded(d, b, systemConfiguration')
    BY <2>6, <2>7, RecordedLocal
  <2>9. QED
    BY <2>6, <2>8
<1>3. QED
  BY <1>1, <1>2

LEMMA PassedReleased ==
    ASSUME TypeInv, PassedAreRecorded, bus' = bus, NEW objects, Released(ScannedWith(objects), held),
           ReadIsCurrent', AllIsRead', AllIsSeen', calls' = {}
    PROVE  PassedAreRecorded'
<1>1. /\ phase' \in {"posted", "idle"} /\ dbusProbeObjects' = objects
      /\ DOMAIN systemConfiguration \subseteq DOMAIN systemConfiguration'
      /\ \A d \in Config : Raw(d) \in passedProbes' =>
            Raw(d) \in passedProbes \/ Recorded(d, objects, systemConfiguration')
  BY ScannedIs DEF Released, KeepsNames
<1>2. ASSUME NEW d \in Config, Raw(d) \in passedProbes'
      PROVE  Recorded(d, bus', systemConfiguration')
  <2>1. CASE Raw(d) \in passedProbes
    <3>1. Recorded(d, bus, systemConfiguration)
      BY <2>1 DEF PassedAreRecorded
    <3>2. Recorded(d, bus, systemConfiguration')
      BY <1>1, <3>1, RecordedStays
    <3>3. QED
      BY <3>2
  <2>2. CASE Raw(d) \notin passedProbes
    <3>1. Recorded(d, dbusProbeObjects', systemConfiguration')
      BY <1>1, <1>2, <2>2
    <3>2. QED
      BY <1>1, <3>1, NewlyRecorded
  <2>3. QED
    BY <2>1, <2>2
<1>3. QED
  BY <1>2 DEF PassedAreRecorded, Recorded

LEMMA PassedRan ==
    ASSUME NEW e, Ran(e), bus' = bus, e.system = systemConfiguration,
           \A d \in Config : Raw(d) \in e.passedProbes => Recorded(d, bus, systemConfiguration),
           ReadIsCurrent', AllIsRead', AllIsSeen', calls' = {}
    PROVE  PassedAreRecorded'
<1>1. /\ phase' \in {"posted", "idle", "mapper"} /\ dbusProbeObjects' = e.objects
      /\ DOMAIN systemConfiguration \subseteq DOMAIN systemConfiguration'
      /\ \A d \in Config : Raw(d) \in passedProbes' =>
            \/ Raw(d) \in e.passedProbes
            \/ Configured(d, systemConfiguration')
            \/ Recorded(d, e.objects, systemConfiguration') /\ (phase' = "mapper" => d \in Bare)
  BY DEF Ran, KeepsNames
<1>2. ASSUME NEW d \in Config, Raw(d) \in passedProbes'
      PROVE  Recorded(d, bus', systemConfiguration')
  <2>1. CASE Raw(d) \in e.passedProbes
    <3>1. Recorded(d, bus, systemConfiguration)
      BY <2>1
    <3>2. Recorded(d, bus, systemConfiguration')
      BY <1>1, <3>1, RecordedStays
    <3>3. QED
      BY <3>2
  <2>2. CASE Configured(d, systemConfiguration')
    BY <2>2, ConfiguredIsRecorded
  <2>3. CASE Recorded(d, e.objects, systemConfiguration') /\ d \in Bare
    <3>1. PICK b : b = bus'
      OBVIOUS
    <3>2. Agree(d, e.objects, b)
      BY <2>3, BareAgrees
    <3>3. Recorded(d, b, systemConfiguration')
      BY <2>3, <3>2, RecordedLocal
    <3>4. QED
      BY <3>1, <3>3
  <2>4. CASE Recorded(d, e.objects, systemConfiguration') /\ phase' # "mapper"
    <3>1. Recorded(d, dbusProbeObjects', systemConfiguration') /\ phase' \in {"posted", "idle"}
      BY <1>1, <2>4
    <3>2. QED
      BY <3>1, NewlyRecorded
  <2>5. QED
    BY <1>1, <1>2, <2>1, <2>2, <2>3, <2>4
<1>3. QED
  BY <1>2 DEF PassedAreRecorded, Recorded

\* A new scan: nothing is read, so nothing is read that is not current.
LEMMA KnownBegins ==
    ASSUME EveryProbeParses, TypeInv, BeginScan
    PROVE  Known'
<1>1. /\ Ran(NewScan) /\ RanOver(LoadOrder, NewScan)
      /\ NewScan.system = systemConfiguration /\ NewScan.passedProbes = {}
      /\ NewScan.objects = NothingRead
  BY BeginScanDoes
<1>2. phase = "idle" /\ calls' = calls /\ bus' = bus
  BY DEF BeginScan, environment
<1>3. calls' = {}
  BY <1>2 DEF TypeInv, PhaseOf
<1>4. \A p \in Path, i \in Interface : dbusProbeObjects'[p][i] = NoValue /\ ~Asked(p, i)'
  BY <1>1, <1>3 DEF Ran, NothingRead, Asked
<1>5. ReadIsCurrent' /\ CallsAreMatched'
  BY <1>4 DEF ReadIsCurrent, CallsAreMatched
<1>6. AllIsRead'
  BY <1>4 DEF AllIsRead, Seen
<1>7. AllIsSeen'
  <2>1. ASSUME NEW c \in Config, ~Configured(c, systemConfiguration')
        PROVE  \A i \in Interfaces(c) : /\ phase' \in {"mapper", "mapperWait", "exited"}
                                        /\ i \in wanted'
                                        /\ Raw(c) \notin passedProbes'
    <3>1. \A i \in Interfaces(c) : i \in wanted'
      <4>1. c \in Range(LoadOrder)
        BY LoadOrderIs
      <4>2. \A i \in Interface, p \in Path : NewScan.objects[p][i] = NoValue
        BY <1>1 DEF NothingRead
      <4>3. QED
        BY <1>1, <2>1, <4>1, <4>2, InterfacesType DEF RanOver
    <3>2. ASSUME NEW i \in Interfaces(c) PROVE phase' = "mapper" /\ Raw(c) \notin passedProbes'
      <4>1. i \in wanted'
        BY <3>1
      <4>2. c \notin Bare
        BY <3>2 DEF Bare
      <4>3. phase' = "mapper"
        BY <1>1, <4>1 DEF Ran
      <4>4. QED
        BY <1>1, <2>1, <4>2, <4>3 DEF Ran
    <3>3. QED
      BY <3>1, <3>2
  <2>2. QED
    BY <2>1 DEF AllIsSeen, Configured
<1>8. PassedAreRecorded'
  BY <1>1, <1>2, <1>3, <1>5, <1>6, <1>7, PassedRan
<1>9. QED
  BY <1>5, <1>6, <1>7, <1>8 DEF Known

\* A step that reads nothing and evaluates nothing.
LEMMA KnownStill ==
    ASSUME Known, UNCHANGED <<bus, dbusMatches, dbusProbeObjects, passedProbes,
                              systemConfiguration, wanted>>,
           \A p \in Path, i \in Interface : Asked(p, i)' <=> Asked(p, i),
           phase \in {"mapper", "mapperWait", "exited"}
               => phase' \in {"mapper", "mapperWait", "exited"}
    PROVE  Known'
<1>1. \A p \in Path : Seen(p)' <=> Seen(p)
  BY DEF Seen
<1>2. \A i \in Interface : Covered(i)' <=> Covered(i)
  BY <1>1 DEF Covered
<1>3. ReadIsCurrent' /\ CallsAreMatched'
  BY DEF Known, ReadIsCurrent, CallsAreMatched
<1>4. AllIsRead'
  BY <1>1 DEF Known, AllIsRead
<1>5. AllIsSeen'
  <2>1. ASSUME NEW c \in Config, ~Configured(c, systemConfiguration'), NEW i \in Interfaces(c)
        PROVE  \/ Covered(i)'
               \/ /\ phase' \in {"mapper", "mapperWait", "exited"}
                  /\ i \in wanted' /\ Raw(c) \notin passedProbes'
    <3>1. i \in Interface
      BY InterfacesType
    <3>2. ~Configured(c, systemConfiguration)
      BY <2>1
    <3>3. QED
      BY <1>2, <3>1, <3>2 DEF Known, AllIsSeen
  <2>2. QED
    BY <2>1 DEF AllIsSeen, Configured
<1>6. PassedAreRecorded'
  BY DEF Known, PassedAreRecorded, Recorded
<1>7. QED
  BY <1>3, <1>4, <1>5, <1>6 DEF Known

LEMMA CoveredStays ==
    ASSUME bus' = bus, \A p \in Path : Seen(p) => Seen(p)', NEW i, Covered(i)
    PROVE  Covered(i)'
BY DEF Covered

\* The interfaces of a configuration that waits for nothing are covered after a
\* step that keeps them so.
LEMMA AllSeenStays ==
    ASSUME Known, phase \notin {"mapper", "mapperWait", "exited"}, bus' = bus,
           \A p \in Path : Seen(p) => Seen(p)',
           DOMAIN systemConfiguration \subseteq DOMAIN systemConfiguration'
    PROVE  AllIsSeen'
<1>1. ASSUME NEW c \in Config, ~Configured(c, systemConfiguration'), NEW i \in Interfaces(c)
      PROVE  Covered(i)'
  <2>1. ~Configured(c, systemConfiguration)
    BY <1>1, ConfiguredStays
  <2>2. Covered(i)
    BY <2>1 DEF Known, AllIsSeen
  <2>3. QED
    BY <2>2, CoveredStays
<1>2. QED
  BY <1>1 DEF AllIsSeen, Configured

LEMMA KnownNextPass ==
    ASSUME TypeInv, Known, NextPass
    PROVE  Known'
<1> DEFINE e == ScannedWith(dbusProbeObjects)
<1>1. Ran(e)
  BY NextPassDoes
<1>2. e.system = systemConfiguration /\ e.passedProbes = passedProbes /\ e.objects = dbusProbeObjects
  BY ScannedIs
<1>3. phase = "posted" /\ UNCHANGED <<bus, dbusMatches, calls>>
  BY DEF NextPass, environment, filters
<1> HIDE DEF e
<1>4. /\ dbusProbeObjects' = dbusProbeObjects
      /\ DOMAIN systemConfiguration \subseteq DOMAIN systemConfiguration'
  BY <1>1, <1>2 DEF Ran, KeepsNames
<1>5. \A p, i : Asked(p, i)' <=> Asked(p, i)
  BY <1>3 DEF Asked
<1>6. \A p \in Path : Seen(p)' <=> Seen(p)
  BY <1>4, <1>5 DEF Seen
<1>7. ReadIsCurrent' /\ CallsAreMatched' /\ AllIsRead'
  BY <1>3, <1>4, <1>5, <1>6 DEF Known, ReadIsCurrent, CallsAreMatched, AllIsRead
<1>8. AllIsSeen'
  BY <1>3, <1>4, <1>6, AllSeenStays
<1>9. calls' = {}
  BY <1>3 DEF TypeInv, PhaseOf
<1>10. PassedAreRecorded'
  <2>1. \A d \in Config : Raw(d) \in e.passedProbes => Recorded(d, bus, systemConfiguration)
    BY <1>2 DEF Known, PassedAreRecorded
  <2>2. QED
    BY <1>1, <1>2, <1>3, <1>7, <1>8, <1>9, <2>1, PassedRan
<1>11. QED
  BY <1>7, <1>8, <1>10 DEF Known

\* GetSubTree is answered: what has a wanted interface is matched, and all of it
\* is asked for.
LEMMA KnownReplies ==
    ASSUME TypeInv, Known, MapperReplies
    PROVE  Known'
<1>1. /\ phase = "mapper" /\ phase' = "calls" /\ calls = {}
      /\ UNCHANGED <<bus, wanted, dbusProbeObjects, passedProbes, systemConfiguration>>
      /\ dbusMatches' = dbusMatches \cup Owners
  BY DEF MapperReplies, Register, environment, probing, TypeInv, PhaseOf
<1>2. GetAllRetries \in 1..GetAllRetries
  BY RetriesAssumption
<1>3. \A p \in Path, i \in Interface : Asked(p, i)' <=> p \in Owners /\ bus[p][i] # NoValue
  <2>1. ASSUME NEW p \in Path, NEW i \in Interface, Asked(p, i)'
        PROVE  p \in Owners /\ bus[p][i] # NoValue
    BY <2>1 DEF MapperReplies, Asked
  <2>2. ASSUME NEW p \in Owners, NEW i \in Interface, bus[p][i] # NoValue
        PROVE  Asked(p, i)'
    <3>1. /\ CallTo(p, i, GetAllRetries, FALSE) \in Call
          /\ CallTo(p, i, GetAllRetries, FALSE).path = p
          /\ CallTo(p, i, GetAllRetries, FALSE).interface = i
          /\ CallTo(p, i, GetAllRetries, FALSE).retries = GetAllRetries
          /\ ~CallTo(p, i, GetAllRetries, FALSE).waiting
      BY <1>2, <2>2 DEF CallTo, Call, Owners
    <3>2. CallTo(p, i, GetAllRetries, FALSE) \in calls'
      BY <2>2, <3>1 DEF MapperReplies
    <3>3. QED
      BY <3>1, <3>2 DEF Asked
  <2>3. QED
    BY <2>1, <2>2
<1>4. \A p \in Path : Seen(p) => \E i \in Interface : dbusProbeObjects[p][i] # NoValue
  BY <1>1 DEF Seen, Asked
<1>5. \A p \in Path : Seen(p) => Seen(p)'
  BY <1>1, <1>4 DEF Seen
<1>6. wanted \subseteq Interface
  BY DEF TypeInv, TypeOK
<1>7. \A p \in Owners : p \in Path /\ Seen(p)'
  <2>1. ASSUME NEW p \in Owners PROVE p \in Path /\ \E i \in Interface : bus[p][i] # NoValue
    BY <1>6 DEF Owners
  <2>2. QED
    BY <1>3, <2>1 DEF Seen
<1>8. ReadIsCurrent' /\ CallsAreMatched'
  BY <1>1, <1>3 DEF Known, ReadIsCurrent, CallsAreMatched
<1>9. AllIsRead'
  <2>1. ASSUME NEW p \in Path, Seen(p)', NEW i \in Interface
        PROVE  dbusProbeObjects'[p][i] = bus'[p][i] \/ Asked(p, i)'
    <3>1. CASE p \in Owners
      <4>1. CASE bus[p][i] # NoValue
        BY <1>3, <3>1, <4>1
      <4>2. CASE bus[p][i] = NoValue
        BY <1>1, <4>2 DEF Known, ReadIsCurrent
      <4>3. QED
        BY <4>1, <4>2
    <3>2. CASE p \notin Owners
      <4>1. Seen(p)
        BY <1>1, <1>3, <2>1, <3>2 DEF Seen
      <4>2. QED
        BY <1>1, <4>1 DEF Known, AllIsRead, Asked
    <3>3. QED
      BY <3>1, <3>2
  <2>2. QED
    BY <2>1 DEF AllIsRead
<1>10. AllIsSeen'
  <2>1. ASSUME NEW c \in Config, ~Configured(c, systemConfiguration'), NEW i \in Interfaces(c)
        PROVE  Covered(i)'
    <3>1. ~Configured(c, systemConfiguration)
      BY <1>1, <2>1
    <3>2. Covered(i) \/ i \in wanted
      BY <3>1 DEF Known, AllIsSeen
    <3>3. CASE Covered(i)
      BY <1>1, <1>5, <3>3, CoveredStays
    <3>4. CASE i \in wanted
      BY <1>1, <1>7, <3>4 DEF Covered, Owners
    <3>5. QED
      BY <3>2, <3>3, <3>4
  <2>2. QED
    BY <2>1 DEF AllIsSeen, Configured
<1>11. PassedAreRecorded'
  BY <1>1 DEF Known, PassedAreRecorded, Recorded
<1>12. QED
  BY <1>8, <1>9, <1>10, <1>11 DEF Known

LEMMA KnownFindsNothing ==
    ASSUME TypeInv, Known, MapperFindsNothing
    PROVE  Known'
<1>1. /\ phase = "mapper" /\ calls = {} /\ Owners = {}
      /\ UNCHANGED <<bus, dbusMatches, calls>>
  BY DEF MapperFindsNothing, environment, filters, TypeInv, PhaseOf
<1>2. Released(ScannedWith(dbusProbeObjects), held)
  BY ReleasesScanned DEF MapperFindsNothing
<1>3. /\ dbusProbeObjects' = dbusProbeObjects
      /\ DOMAIN systemConfiguration \subseteq DOMAIN systemConfiguration'
  BY <1>2, ScannedIs DEF Released, KeepsNames
<1>4. \A p, i : Asked(p, i)' <=> Asked(p, i)
  BY <1>1 DEF Asked
<1>5. \A p \in Path : Seen(p)' <=> Seen(p)
  BY <1>3, <1>4 DEF Seen
<1>6. ReadIsCurrent' /\ CallsAreMatched' /\ AllIsRead'
  BY <1>1, <1>3, <1>4, <1>5 DEF Known, ReadIsCurrent, CallsAreMatched, AllIsRead
<1>7. AllIsSeen'
  <2>1. ASSUME NEW c \in Config, ~Configured(c, systemConfiguration'), NEW i \in Interfaces(c)
        PROVE  Covered(i)'
    <3>1. ~Configured(c, systemConfiguration)
      BY <1>3, <2>1, ConfiguredStays
    <3>2. Covered(i) \/ i \in wanted
      BY <3>1 DEF Known, AllIsSeen
    <3>3. CASE Covered(i)
      BY <1>1, <1>5, <3>3, CoveredStays
    <3>4. CASE i \in wanted
      BY <1>1, <3>4 DEF Covered, Owners
    <3>5. QED
      BY <3>2, <3>3, <3>4
  <2>2. QED
    BY <2>1 DEF AllIsSeen, Configured
<1>8. PassedAreRecorded'
  BY <1>1, <1>2, <1>6, <1>7, PassedReleased DEF Known
<1>9. QED
  BY <1>6, <1>7, <1>8 DEF Known

\* A GetAll is answered with what the bus still has.
LEMMA KnownReply ==
    ASSUME TypeInv, Known, NEW call \in calls, Reply(call)
    PROVE  Known'
<1> DEFINE p == call.path
           i == call.interface
<1>1. /\ phase = "calls" /\ UNCHANGED <<bus, dbusMatches>>
      /\ CallEnds(call, ReplyObjects(call))
  BY DEF Reply, ReplyObjects, environment, filters
<1>2. p \in Path /\ i \in Interface
  BY DEF TypeInv, TypeOK, Call
<1>3. CallEnded(call, ReplyObjects(call))
  BY <1>1, CallEndsDoes
<1>4. p \in dbusMatches /\ bus[p][i] # NoValue
  <2>1. Asked(p, i)
    BY DEF Asked
  <2>2. QED
    BY <1>2, <2>1 DEF Known, CallsAreMatched
<1>5. \A q \in Path, j \in Interface :
         dbusProbeObjects'[q][j] = IF q = p /\ j = i THEN bus[p][i] ELSE dbusProbeObjects[q][j]
  <2>1. dbusProbeObjects' = Having(dbusProbeObjects, p, i, bus[p][i])
    BY <1>3, <1>4 DEF CallEnded, ReplyObjects
  <2>2. dbusProbeObjects \in Objects /\ bus[p][i] \in Value \cup {NoValue}
    BY <1>2 DEF TypeInv, TypeOK, Objects
  <2> HIDE DEF p, i
  <2>3. QED
    BY <1>2, <2>1, <2>2, HavingType
<1>6. /\ \A q, j : Asked(q, j)' => Asked(q, j)
      /\ \A q, j : Asked(q, j) => Asked(q, j)' \/ (q = p /\ j = i)
  BY <1>3 DEF CallEnded, Asked
<1>7. \A q \in Path : Seen(q)' <=> Seen(q)
  <2>1. ASSUME NEW q \in Path, Seen(q) PROVE Seen(q)'
    <3>1. CASE q = p
      <4>1. dbusProbeObjects'[q][i] # NoValue
        BY <1>2, <1>4, <1>5, <3>1
      <4>2. QED
        BY <1>2, <4>1 DEF Seen
    <3>2. CASE q # p
      BY <1>5, <1>6, <2>1, <3>2 DEF Seen
    <3>3. QED
      BY <3>1, <3>2
  <2>2. ASSUME NEW q \in Path, Seen(q)' PROVE Seen(q)
    <3>1. CASE q = p
      <4>1. Asked(p, i)
        BY DEF Asked
      <4>2. QED
        BY <1>2, <3>1, <4>1 DEF Seen
    <3>2. CASE q # p
      BY <1>5, <1>6, <2>2, <3>2 DEF Seen
    <3>3. QED
      BY <3>1, <3>2
  <2>3. QED
    BY <2>1, <2>2
<1> HIDE DEF p, i
<1>8. ReadIsCurrent' /\ CallsAreMatched'
  BY <1>1, <1>4, <1>5, <1>6 DEF Known, ReadIsCurrent, CallsAreMatched
<1>9. AllIsRead'
  <2>1. ASSUME NEW q \in Path, Seen(q)', NEW j \in Interface
        PROVE  dbusProbeObjects'[q][j] = bus'[q][j] \/ Asked(q, j)'
    <3>1. dbusProbeObjects[q][j] = bus[q][j] \/ Asked(q, j)
      BY <1>7, <2>1 DEF Known, AllIsRead
    <3>2. CASE q = p /\ j = i
      BY <1>1, <1>2, <1>5, <3>2
    <3>3. CASE ~(q = p /\ j = i)
      BY <1>1, <1>5, <1>6, <3>1, <3>3
    <3>4. QED
      BY <3>2, <3>3
  <2>2. QED
    BY <2>1 DEF AllIsRead
<1>10. CASE calls' = {}
  <2>1. Released(ScannedWith(ReplyObjects(call)), held)
    BY <1>3, <1>10 DEF CallEnded
  <2>2. DOMAIN systemConfiguration \subseteq DOMAIN systemConfiguration'
    BY <2>1, ScannedIs DEF Released, KeepsNames
  <2>3. AllIsSeen'
    BY <1>1, <1>7, <2>2, AllSeenStays
  <2>4. PassedAreRecorded'
    BY <1>1, <1>8, <1>9, <1>10, <2>1, <2>3, PassedReleased DEF Known
  <2>5. QED
    BY <1>8, <1>9, <2>3, <2>4 DEF Known
<1>11. CASE calls' # {}
  <2>1. UNCHANGED <<passedProbes, systemConfiguration>>
    BY <1>3, <1>11 DEF CallEnded
  <2>2. AllIsSeen'
    BY <1>1, <1>7, <2>1, AllSeenStays
  <2>3. PassedAreRecorded'
    BY <1>1, <2>1 DEF Known, PassedAreRecorded, Recorded
  <2>4. QED
    BY <1>8, <1>9, <2>2, <2>3 DEF Known
<1>12. QED
  BY <1>10, <1>11

\* A change nobody is told of is one of an object nothing is read of.
LEMMA KnownChanges ==
    ASSUME TypeInv, ~WillScan => Known, NEW p \in Path, NEW i \in Interface, NEW v,
           v \in Value \cup {NoValue}, Changes(p, i, v), ~WillScan'
    PROVE  Known'
<1>1. /\ UNCHANGED <<dbusMatches, dirty, phase, wanted, calls, passedProbes,
                     systemConfiguration, dbusProbeObjects>>
      /\ bus' = Having(bus, p, i, v)
  BY DEF Changes, probing
<1>2. signals \in Seq([kind : {"added", "removed", "changed", "owner"}, path : Path])
  BY DEF TypeInv, TypeOK
<1>3. ASSUME NEW kind \in {"added", "removed", "changed", "owner"},
             signals' = Append(signals, [kind |-> kind, path |-> p])
      PROVE  ~Dirtying([kind |-> kind, path |-> p])
  <2> DEFINE s == [kind |-> kind, path |-> p]
             S == [kind : {"added", "removed", "changed", "owner"}, path : Path]
  <2>1. s \in S /\ signals \in Seq(S)
    BY <1>2
  <2> HIDE DEF s, S
  <2>2. signals' = Append(signals, s)
    BY <1>3 DEF s
  <2>3. s \in Range(signals')
    <3>1. Range(Append(signals, s)) = Range(signals) \cup {s}
      BY <2>1, RangeAppend
    <3>2. QED
      BY <2>2, <3>1
  <2>4. ~Dirtying(s)'
    BY <2>3 DEF WillScan
  <2>5. Dirtying(s)' <=> Dirtying(s)
    BY <1>1 DEF Dirtying
  <2>6. QED
    BY <2>4, <2>5 DEF s
<1>4. /\ bus[p][i] # NoValue /\ v # NoValue
      /\ signals' = IF p \in dbusMatches THEN Append(signals, [kind |-> "changed", path |-> p])
                    ELSE signals
  <2>1. \A kind \in {"added", "removed", "owner"} :
           signals' # Append(signals, [kind |-> kind, path |-> p])
    BY <1>3 DEF Dirtying
  <2>2. QED
    BY <2>1 DEF Changes
<1>5. p \notin dbusMatches /\ signals' = signals
  <2>1. ASSUME p \in dbusMatches PROVE FALSE
    <3>1. ~Dirtying([kind |-> "changed", path |-> p])
      BY <1>3, <1>4, <2>1
    <3>2. QED
      BY <2>1, <3>1 DEF Dirtying
  <2>2. QED
    BY <1>4, <2>1
<1>6. ~WillScan
  BY <1>1, <1>5 DEF WillScan, Dirtying
<1>7. Known
  BY <1>6
<1>8. \A q \in Path, j \in Interface :
         bus'[q][j] = IF q = p /\ j = i THEN v ELSE bus[q][j]
  BY <1>1, HavingType DEF TypeInv, TypeOK
<1>9. \A q, j : Asked(q, j)' <=> Asked(q, j)
  BY <1>1 DEF Asked
<1>10. \A q \in Path : Seen(q)' <=> Seen(q)
  BY <1>1, <1>9 DEF Seen
<1>11. ~Seen(p)
  BY <1>5, <1>7 DEF Known, ReadIsCurrent, CallsAreMatched, Seen
<1>12. \A q \in Path, j \in Interface : bus'[q][j] # NoValue <=> bus[q][j] # NoValue
  BY <1>4, <1>8
<1>13. ReadIsCurrent'
  BY <1>1, <1>7, <1>8, <1>11 DEF Known, ReadIsCurrent, Seen
<1>14. CallsAreMatched'
  BY <1>1, <1>7, <1>9, <1>12 DEF Known, CallsAreMatched
<1>15. AllIsRead'
  <2>1. ASSUME NEW q \in Path, Seen(q)', NEW j \in Interface
        PROVE  dbusProbeObjects'[q][j] = bus'[q][j] \/ Asked(q, j)'
    <3>1. q # p /\ Seen(q)
      BY <1>10, <1>11, <2>1
    <3>2. QED
      BY <1>1, <1>7, <1>8, <1>9, <3>1 DEF Known, AllIsRead
  <2>2. QED
    BY <2>1 DEF AllIsRead
<1>16. ASSUME NEW j \in Interface, Covered(j) PROVE Covered(j)'
  BY <1>10, <1>12, <1>16 DEF Covered
<1>17. AllIsSeen'
  <2>1. ASSUME NEW c \in Config, ~Configured(c, systemConfiguration'), NEW j \in Interfaces(c)
        PROVE  \/ Covered(j)'
               \/ /\ phase' \in {"mapper", "mapperWait", "exited"}
                  /\ j \in wanted' /\ Raw(c) \notin passedProbes'
    <3>1. j \in Interface /\ ~Configured(c, systemConfiguration)
      BY <1>1, <2>1, InterfacesType
    <3>2. QED
      BY <1>1, <1>7, <1>16, <2>1, <3>1 DEF Known, AllIsSeen
  <2>2. QED
    BY <2>1 DEF AllIsSeen, Configured
<1>18. PassedAreRecorded'
  <2>1. ASSUME NEW d \in Config, Raw(d) \in passedProbes'
        PROVE  Recorded(d, bus', systemConfiguration')
    <3>1. Recorded(d, bus, systemConfiguration)
      BY <1>1, <1>7, <2>1 DEF Known, PassedAreRecorded
    <3>2. CASE Configured(d, systemConfiguration')
      BY <3>2, ConfiguredIsRecorded
    <3>3. CASE ~Configured(d, systemConfiguration')
      <4>1. PICK b, o : b = bus' /\ o = bus
        OBVIOUS
      <4>2. \A j \in Interfaces(d) : Covered(j)
        BY <1>1, <1>7, <2>1, <3>3 DEF Known, AllIsSeen
      <4>3. i \notin Interfaces(d)
        BY <1>4, <1>11, <4>2 DEF Covered
      <4>4. Agree(d, o, b)
        BY <1>8, <4>1, <4>3, InterfacesType DEF Agree
      <4>5. Recorded(d, b, systemConfiguration)
        BY <3>1, <4>1, <4>4, RecordedLocal
      <4>6. QED
        BY <1>1, <4>1, <4>5
    <3>4. QED
      BY <3>2, <3>3
  <2>2. QED
    BY <2>1 DEF PassedAreRecorded, Recorded
<1>19. QED
  BY <1>13, <1>14, <1>15, <1>17, <1>18 DEF Known

\* What was quiet stays so, or was not quiet before.
LEMMA QuietBefore ==
    ASSUME ~WillScan', signals' = signals, dirty => dirty', dbusMatches \subseteq dbusMatches'
    PROVE  ~WillScan
BY DEF WillScan, Dirtying

LEMMA KnowsStep ==
    ASSUME EveryProbeParses, TypeInv, KnowsTheBus, [Next]_vars
    PROVE  KnowsTheBus'
<1> SUFFICES ASSUME ~WillScan', ~gaveUp' PROVE Known'
  BY DEF KnowsTheBus
<1>1. CASE BeginScan
  BY <1>1, KnownBegins
<1>2. CASE NextPass
  <2>1. UNCHANGED <<signals, dirty, dbusMatches, gaveUp>>
    BY <1>2 DEF NextPass, filters
  <2>2. Known
    BY <2>1, QuietBefore DEF KnowsTheBus
  <2>3. QED
    BY <1>2, <2>2, KnownNextPass
<1>3. CASE MapperReplies
  <2>1. UNCHANGED <<signals, dirty, gaveUp>> /\ dbusMatches \subseteq dbusMatches'
    BY <1>3 DEF MapperReplies, Register
  <2>2. Known
    BY <2>1, QuietBefore DEF KnowsTheBus
  <2>3. QED
    BY <1>3, <2>2, KnownReplies
<1>4. CASE MapperFindsNothing
  <2>1. UNCHANGED <<signals, dirty, dbusMatches, gaveUp>>
    BY <1>4 DEF MapperFindsNothing, filters
  <2>2. Known
    BY <2>1, QuietBefore DEF KnowsTheBus
  <2>3. QED
    BY <1>4, <2>2, KnownFindsNothing
<1>5. CASE MapperRetry
  <2>1. /\ UNCHANGED <<signals, dirty, dbusMatches, gaveUp>>
        /\ UNCHANGED <<bus, dbusProbeObjects, passedProbes, systemConfiguration, wanted, calls>>
        /\ phase' = "mapper"
    BY <1>5 DEF MapperRetry, filters, environment, probing
  <2>2. Known
    BY <2>1, QuietBefore DEF KnowsTheBus
  <2>3. \A p \in Path, i \in Interface : Asked(p, i)' <=> Asked(p, i)
    BY <2>1 DEF Asked
  <2>4. QED
    BY <2>1, <2>2, <2>3, KnownStill
<1>6. ASSUME NEW call \in calls, Reply(call) PROVE Known'
  <2>1. UNCHANGED <<signals, dirty, dbusMatches, gaveUp>>
    BY <1>6 DEF Reply, filters
  <2>2. Known
    BY <2>1, QuietBefore DEF KnowsTheBus
  <2>3. QED
    BY <1>6, <2>2, KnownReply
<1>7. ASSUME NEW call \in calls, NEW left, NEW waiting,
             calls' = (calls \ {call}) \cup {CallTo(call.path, call.interface, left, waiting)},
             UNCHANGED <<environment, filters, phase, wanted, probing, dbusProbeObjects, gaveUp>>
      PROVE  Known'
  <2>1. /\ UNCHANGED <<signals, dirty, dbusMatches, gaveUp>>
        /\ UNCHANGED <<bus, dbusProbeObjects, passedProbes, systemConfiguration, wanted, phase>>
    BY <1>7 DEF filters, environment, probing
  <2>2. Known
    BY <2>1, QuietBefore DEF KnowsTheBus
  <2>3. \A p \in Path, i \in Interface : Asked(p, i)' <=> Asked(p, i)
    <3>1. /\ CallTo(call.path, call.interface, left, waiting).path = call.path
          /\ CallTo(call.path, call.interface, left, waiting).interface = call.interface
      BY DEF CallTo
    <3>2. QED
      BY <1>7, <3>1 DEF Asked
  <2>4. QED
    BY <2>1, <2>2, <2>3, KnownStill
<1>8. ASSUME NEW call \in calls, CallRetry(call) \/ CallFails(call) PROVE Known'
  BY <1>7, <1>8 DEF CallRetry, CallFails, Again
<1>9. ASSUME NEW call \in calls, CallGivenUp(call) PROVE Known'
  BY <1>9 DEF CallGivenUp
<1>10. CASE MapperFails
  <2>1. /\ UNCHANGED <<signals, dirty, dbusMatches, gaveUp>>
        /\ UNCHANGED <<bus, dbusProbeObjects, passedProbes, systemConfiguration, wanted, calls>>
        /\ phase' \in {"exited", "mapperWait"}
    BY <1>10 DEF MapperFails, filters, environment, probing
  <2>2. Known
    BY <2>1, QuietBefore DEF KnowsTheBus
  <2>3. \A p \in Path, i \in Interface : Asked(p, i)' <=> Asked(p, i)
    BY <2>1 DEF Asked
  <2>4. QED
    BY <2>1, <2>2, <2>3, KnownStill
<1>11. CASE HandleSignal
  <2>1. /\ UNCHANGED <<bus, dbusProbeObjects, passedProbes, systemConfiguration, wanted, calls,
                       phase, gaveUp>>
        /\ signals # <<>> /\ signals' = Tail(signals)
        /\ dirty' = (dirty \/ Head(signals).kind # "changed" \/ Head(signals).path \in dbusMatches)
        /\ dbusMatches' = IF Head(signals).kind = "removed"
                          THEN dbusMatches \ {Head(signals).path} ELSE dbusMatches
    BY <1>11 DEF HandleSignal, environment, probing
  <2>2. ~dirty'
    BY DEF WillScan
  <2>3. /\ ~dirty /\ Head(signals).kind = "changed" /\ Head(signals).path \notin dbusMatches
        /\ dbusMatches' = dbusMatches
    BY <2>1, <2>2
  <2>4. Range(signals) = {Head(signals)} \cup Range(Tail(signals))
    <3> DEFINE S == [kind : {"added", "removed", "changed", "owner"}, path : Path]
    <3>1. signals \in Seq(S)
      BY DEF TypeInv, TypeOK
    <3> HIDE DEF S
    <3>2. QED
      BY <2>1, <3>1, HeadAndTail
  <2>5. ~WillScan
    <3>1. ASSUME NEW s \in Range(signals) PROVE ~Dirtying(s)
      <4>1. CASE s = Head(signals)
        BY <2>3, <4>1 DEF Dirtying
      <4>2. CASE s \in Range(Tail(signals))
        <5>1. s \in Range(signals')
          BY <2>1, <4>2
        <5>2. QED
          BY <2>3, <5>1 DEF WillScan, Dirtying
      <4>3. QED
        BY <2>4, <4>1, <4>2
    <3>2. QED
      BY <2>3, <3>1 DEF WillScan
  <2>6. Known
    BY <2>1, <2>5 DEF KnowsTheBus
  <2>7. \A p \in Path, i \in Interface : Asked(p, i)' <=> Asked(p, i)
    BY <2>1 DEF Asked
  <2>8. QED
    BY <2>1, <2>3, <2>6, <2>7, KnownStill
<1>12. ASSUME NEW p \in Path, NEW i \in Interface, NEW v \in Offers[p][i] \cup {NoValue},
              Changes(p, i, v)
       PROVE  Known'
  <2>1. v \in Value \cup {NoValue}
    BY OffersAssumption
  <2>2. gaveUp' = gaveUp
    BY <1>12 DEF Changes
  <2>3. ~WillScan => Known
    BY <2>2 DEF KnowsTheBus
  <2>4. QED
    BY <1>12, <2>1, <2>3, KnownChanges
<1>13. CASE UNCHANGED vars
  <2>1. /\ UNCHANGED <<signals, dirty, dbusMatches, gaveUp>>
        /\ UNCHANGED <<bus, dbusProbeObjects, passedProbes, systemConfiguration, wanted, calls, phase>>
    BY <1>13 DEF vars, filters, environment, probing
  <2>2. Known
    BY <2>1, QuietBefore DEF KnowsTheBus
  <2>3. \A p \in Path, i \in Interface : Asked(p, i)' <=> Asked(p, i)
    BY <2>1 DEF Asked
  <2>4. QED
    BY <2>1, <2>2, <2>3, KnownStill
<1>14. QED
  BY <1>1, <1>2, <1>3, <1>4, <1>5, <1>6, <1>8, <1>9, <1>10, <1>11, <1>12, <1>13
     DEF Next, Scanning, Failing, Hardware

\* What is known, and that nothing left would pass, makes the inventory current.
LEMMA InventoryFollows ==
    ASSUME TypeInv, FixInv, KnowsTheBus
    PROVE  InventoryCurrent
<1> SUFFICES ASSUME Settled, ~gaveUp, NEW c \in Config,
                    DoProbe(Command[c], bus, passedProbes).ret
             PROVE  IF Naming[c] = "fixed"
                    THEN \E r \in DOMAIN systemConfiguration : r[1] = c
                    ELSE \A v \in Range(DoProbe(Command[c], bus, passedProbes).devices) :
                            RecordName(c, v) \in DOMAIN systemConfiguration
  BY DEF InventoryCurrent
<1>1. phase = "idle" /\ ~dirty /\ signals = <<>>
  BY DEF Settled
<1>2. Known
  <2>1. Range(signals) = {}
    BY <1>1, RangeEmpty
  <2>2. ~WillScan
    BY <1>1, <2>1 DEF WillScan
  <2>3. QED
    BY <2>2 DEF KnowsTheBus
<1>3. Recorded(c, bus, systemConfiguration)
  <2>1. CASE Raw(c) \in passedProbes
    BY <1>2, <2>1 DEF Known, PassedAreRecorded
  <2>2. CASE Configured(c, systemConfiguration)
    BY <2>2, ConfiguredIsRecorded
  <2>3. CASE Raw(c) \notin passedProbes /\ ~Configured(c, systemConfiguration)
    <3>1. Fails(c, dbusProbeObjects, passedProbes)
      BY <1>1, <2>3 DEF FixInv, AtFixpoint
    <3>2. calls = {}
      BY <1>1 DEF TypeInv, PhaseOf
    <3>3. \A p \in Path : Seen(p) <=> \E i \in Interface : dbusProbeObjects[p][i] # NoValue
      BY <3>2 DEF Seen, Asked
    <3>4. \A i \in Interfaces(c) : Covered(i)
      BY <1>1, <1>2, <2>3 DEF Known, AllIsSeen
    <3>5. Agree(c, dbusProbeObjects, bus)
      <4>1. \A p \in Path, i \in Interface :
               dbusProbeObjects[p][i] # NoValue => bus[p][i] = dbusProbeObjects[p][i]
        BY <1>2 DEF Known, ReadIsCurrent
      <4>2. \A p \in Path : (\E i \in Interface : dbusProbeObjects[p][i] # NoValue)
                                => \A i \in Interface : dbusProbeObjects[p][i] = bus[p][i]
        BY <1>2, <3>2, <3>3 DEF Known, AllIsRead, Asked
      <4>3. \A i \in Interfaces(c), p \in Path :
               bus[p][i] # NoValue => \E j \in Interface : dbusProbeObjects[p][j] # NoValue
        BY <3>3, <3>4 DEF Covered
      <4>4. QED
        BY <4>1, <4>2, <4>3, AllAgree
    <3>6. Fails(c, bus, passedProbes)
      BY <3>1, <3>5, FailsLocal
    <3>7. QED
      BY <3>6 DEF Fails
  <2>4. QED
    BY <2>1, <2>2, <2>3
<1>4. DoProbe(Command[c], bus, passedProbes).devices = DevicesOf(c, bus)
  BY ProbeFinds
<1>5. QED
  BY <1>3, <1>4 DEF Recorded

\* When no signal and no rescan is outstanding, the inventory has what the bus
\* offers, however the devices came and went while it was being read and however
\* the configurations depend on each other, unless a call was given up: no change
\* slips between a read, the match that reports the next one (MapperReplies) and
\* the removal that drops it (HandleSignal).
THEOREM InventoryIsCurrent ==
    ASSUME EveryProbeParses
    PROVE  Spec => []InventoryCurrent
<1>1. Init => TypeInv /\ FixInv /\ KnowsTheBus
  BY TypeInvInit, FixInit DEF Init, KnowsTheBus, WillScan
<1>2. TypeInv /\ FixInv /\ KnowsTheBus /\ [Next]_vars => (TypeInv /\ FixInv /\ KnowsTheBus)'
  BY TypeInvStep, FixStep, KnowsStep
<1>3. TypeInv /\ FixInv /\ KnowsTheBus => InventoryCurrent
  BY InventoryFollows
<1>4. QED
  BY <1>1, <1>2, <1>3, PTL DEF Spec

-----------------------------------------------------------------------------
(* What a probe means *)

\* What the first m tokens mean: the operand at k holds up to m.
Holds(command, objects, names, k, m) ==
    /\ IsOperand(command[k]) /\ True(command[k], objects, names)
    /\ k = 1 \/ command[k - 1].type = "opOr"
    /\ \A j \in k + 1..m :
          IsOperand(command[j]) /\ command[j - 1].type = "opAnd" =>
              True(command[j], objects, names)

Meant(command, objects, names, m) == \E k \in 1..m : Holds(command, objects, names, k, m)

\* One token more.
LEMMA HoldsOn ==
    ASSUME NEW command, NEW objects, NEW names, NEW m \in Nat, NEW k \in 1..m
    PROVE  Holds(command, objects, names, k, m + 1) <=>
              /\ Holds(command, objects, names, k, m)
              /\ IsOperand(command[m + 1]) /\ command[m].type = "opAnd" =>
                    True(command[m + 1], objects, names)
<1> DEFINE Fits(j) == IsOperand(command[j]) /\ command[j - 1].type = "opAnd" =>
                          True(command[j], objects, names)
<1>1. k + 1..m + 1 = (k + 1..m) \cup {m + 1} /\ (m + 1) - 1 = m
  OBVIOUS
<1>2. (\A j \in k + 1..m + 1 : Fits(j)) <=> (\A j \in k + 1..m : Fits(j)) /\ Fits(m + 1)
  <2> HIDE DEF Fits
  <2>1. QED
    BY <1>1
<1>3. Fits(m + 1) <=> (IsOperand(command[m + 1]) /\ command[m].type = "opAnd" =>
                          True(command[m + 1], objects, names))
  BY <1>1
<1>4. QED
  BY <1>2, <1>3 DEF Holds

LEMMA MeantOn ==
    ASSUME NEW command, NEW objects, NEW names, NEW m \in Nat, m > 0
    PROVE  /\ ~IsOperand(command[m + 1]) =>
                 (Meant(command, objects, names, m + 1) <=> Meant(command, objects, names, m))
           /\ IsOperand(command[m + 1]) /\ command[m].type = "opAnd" =>
                 (Meant(command, objects, names, m + 1) <=>
                     /\ Meant(command, objects, names, m)
                     /\ True(command[m + 1], objects, names))
           /\ IsOperand(command[m + 1]) /\ command[m].type = "opOr" =>
                 (Meant(command, objects, names, m + 1) <=>
                     \/ Meant(command, objects, names, m)
                     \/ True(command[m + 1], objects, names))
<1> DEFINE H(k, n) == Holds(command, objects, names, k, n)
           operand == IsOperand(command[m + 1])
           true == True(command[m + 1], objects, names)
           type == command[m].type
<1>1. \A k \in 1..m : H(k, m + 1) <=> H(k, m) /\ (operand /\ type = "opAnd" => true)
  BY HoldsOn
<1>2. H(m + 1, m + 1) <=> operand /\ true /\ type = "opOr"
  <2>1. (m + 1) + 1..m + 1 = {} /\ (m + 1) - 1 = m /\ m + 1 # 1
    OBVIOUS
  <2>2. QED
    BY <2>1 DEF Holds
<1>3. 1..m + 1 = (1..m) \cup {m + 1}
  OBVIOUS
<1>4. /\ Meant(command, objects, names, m) <=> \E k \in 1..m : H(k, m)
      /\ Meant(command, objects, names, m + 1) <=> \E k \in 1..m + 1 : H(k, m + 1)
  BY DEF Meant
<1> HIDE DEF H, operand, true, type
<1>5. Meant(command, objects, names, m + 1) <=>
         H(m + 1, m + 1) \/ \E k \in 1..m : H(k, m + 1)
  BY <1>3, <1>4
<1>6. /\ ~operand =>
            (Meant(command, objects, names, m + 1) <=> Meant(command, objects, names, m))
      /\ operand /\ type = "opAnd" =>
            (Meant(command, objects, names, m + 1) <=> Meant(command, objects, names, m) /\ true)
      /\ operand /\ type = "opOr" =>
            (Meant(command, objects, names, m + 1) <=> Meant(command, objects, names, m) \/ true)
  BY <1>1, <1>2, <1>4, <1>5
<1>7. QED
  BY <1>6 DEF operand, true, type

\* What the evaluation knows of an operand does not depend on those before it.
LEMMA OperandsStandAlone ==
    ASSUME NEW token, IsOperand(token), NEW s, NEW objects, NEW names
    PROVE  /\ Outcome(token, s, objects, names) = True(token, objects, names)
           /\ True(token, objects, names) \in BOOLEAN
<1>1. CASE token.type = "boolTrue"
  BY <1>1 DEF Outcome, True
<1>2. CASE token.type = "boolFalse"
  BY <1>2 DEF Outcome, True
<1>3. CASE token.type = "found"
  BY <1>3 DEF Outcome, True
<1>4. CASE token.type = "dbusProbe"
  BY <1>4 DEF Outcome, True
<1>5. QED
  BY <1>1, <1>2, <1>3, <1>4 DEF IsOperand

\* The evaluation computes what the tokens so far mean.
Agrees(s, command, objects, names, m) ==
    /\ s.first = FALSE
    /\ s.last = command[m].type
    /\ s.ret \in BOOLEAN
    /\ s.ret <=> Meant(command, objects, names, m)

LEMMA AgreesFirst ==
    ASSUME NEW command, NEW objects, NEW names, IsOperand(command[1])
    PROVE  Agrees(EvaluateToken(NoToken, command[1], objects, names), command, objects, names, 1)
<1> DEFINE t == EvaluateToken(NoToken, command[1], objects, names)
           cur == Outcome(command[1], NoToken, objects, names)
<1>1. cur = True(command[1], objects, names) /\ cur \in BOOLEAN
  BY OperandsStandAlone
<1>2. t.first = FALSE /\ t.last = command[1].type /\ t.ret = Apply(NoToken, command[1].type, cur)
  BY DEF EvaluateToken
<1>3. NoToken.first = TRUE /\ NoToken.last = "boolFalse"
  BY DEF NoToken
<1>4. t.ret = cur
  BY <1>2, <1>3 DEF Apply
<1>5. Meant(command, objects, names, 1) <=> True(command[1], objects, names)
  <2>1. 1..1 = {1} /\ 1 + 1..1 = {}
    OBVIOUS
  <2>2. Holds(command, objects, names, 1, 1) <=> True(command[1], objects, names)
    BY <2>1 DEF Holds
  <2>3. QED
    BY <2>1, <2>2 DEF Meant
<1> HIDE DEF t, cur
<1>6. Agrees(t, command, objects, names, 1)
  BY <1>1, <1>2, <1>4, <1>5 DEF Agrees
<1>7. QED
  BY <1>6 DEF t

\* Operators and MATCH_ONE come behind an operand, operands behind an operator.
LEMMA AgreesOn ==
    ASSUME NEW command, NEW objects, NEW names, NEW m \in Nat, m > 0,
           NEW s, Agrees(s, command, objects, names, m),
           \/ ~IsOperand(command[m + 1]) /\ command[m].type \notin Operators
           \/ IsOperand(command[m + 1]) /\ command[m].type \in Operators
    PROVE  Agrees(EvaluateToken(s, command[m + 1], objects, names), command, objects, names, m + 1)
<1> DEFINE t == EvaluateToken(s, command[m + 1], objects, names)
           cur == Outcome(command[m + 1], s, objects, names)
           true == True(command[m + 1], objects, names)
<1>1. t.first = FALSE /\ t.last = command[m + 1].type /\ t.ret = Apply(s, command[m + 1].type, cur)
  BY DEF EvaluateToken
<1>2. s.first = FALSE /\ s.last = command[m].type /\ s.ret \in BOOLEAN
      /\ (s.ret <=> Meant(command, objects, names, m))
  BY DEF Agrees
<1>3. t.ret \in BOOLEAN /\ (t.ret <=> Meant(command, objects, names, m + 1))
  <2>1. CASE ~IsOperand(command[m + 1]) /\ command[m].type \notin Operators
    <3>1. t.ret = s.ret
      BY <1>1, <1>2, <2>1 DEF Apply, Operators
    <3>2. Meant(command, objects, names, m + 1) <=> Meant(command, objects, names, m)
      BY <2>1, MeantOn
    <3> HIDE DEF t
    <3>3. QED
      BY <1>2, <3>1, <3>2
  <2>2. CASE IsOperand(command[m + 1]) /\ command[m].type = "opAnd"
    <3>1. t.ret = (s.ret /\ cur)
      BY <1>1, <1>2, <2>2 DEF Apply
    <3>2. Meant(command, objects, names, m + 1) <=> Meant(command, objects, names, m) /\ true
      BY <2>2, MeantOn
    <3>3. cur = true /\ true \in BOOLEAN
      BY <2>2, OperandsStandAlone
    <3> HIDE DEF t, cur, true
    <3>4. QED
      BY <1>2, <3>1, <3>2, <3>3
  <2>3. CASE IsOperand(command[m + 1]) /\ command[m].type = "opOr"
    <3>1. t.ret = (s.ret \/ cur)
      BY <1>1, <1>2, <2>3 DEF Apply
    <3>2. Meant(command, objects, names, m + 1) <=> Meant(command, objects, names, m) \/ true
      BY <2>3, MeantOn
    <3>3. cur = true /\ true \in BOOLEAN
      BY <2>3, OperandsStandAlone
    <3> HIDE DEF t, cur, true
    <3>4. QED
      BY <1>2, <3>1, <3>2, <3>3
  <2>4. QED
    BY <2>1, <2>2, <2>3 DEF Operators
<1> HIDE DEF t, cur, true
<1>4. Agrees(t, command, objects, names, m + 1)
  BY <1>1, <1>3 DEF Agrees
<1>5. QED
  BY <1>4 DEF t

\* A well-formed probe, token by token.
LEMMA WellFormedHas ==
    ASSUME NEW command, Len(command) \in Nat, WellFormed(command)
    PROVE  /\ Len(command) > 0 /\ IsOperand(command[1])
           /\ \A m \in 1..Len(command) - 1 :
                 \/ ~IsOperand(command[m + 1]) /\ command[m].type \notin Operators
                 \/ IsOperand(command[m + 1]) /\ command[m].type \in Operators
<1>1. PICK n \in 1..Len(command) :
          /\ n % 2 = 1
          /\ \A i \in 1..n : IF i % 2 = 1 THEN IsOperand(command[i])
                             ELSE command[i].type \in Operators
          /\ \/ Len(command) = n
             \/ Len(command) = n + 1 /\ command[n + 1].type = "matchOne"
  BY DEF WellFormed
<1>2. \A i \in 1..n : /\ i % 2 = 1 => IsOperand(command[i])
                      /\ i % 2 # 1 => command[i].type \in Operators
  BY <1>1
<1>3. \A t : /\ IsOperand(t) => t.type \notin Operators /\ t.type # "matchOne"
             /\ t.type \in Operators \/ t.type = "matchOne" => ~IsOperand(t)
  BY DEF IsOperand, Operators
<1>4. Len(command) > 0 /\ IsOperand(command[1])
  <2>1. 1 \in 1..n /\ 1 % 2 = 1
    OBVIOUS
  <2>2. QED
    BY <1>2, <2>1
<1>5. ASSUME NEW m \in 1..Len(command) - 1
      PROVE  \/ ~IsOperand(command[m + 1]) /\ command[m].type \notin Operators
             \/ IsOperand(command[m + 1]) /\ command[m].type \in Operators
  <2>1. CASE m + 1 \in 1..n
    <3>1. CASE m % 2 = 1
      <4>1. (m + 1) % 2 # 1 /\ m \in 1..n
        BY <2>1, <3>1
      <4>2. QED
        BY <1>2, <1>3, <2>1, <3>1, <4>1
    <3>2. CASE m % 2 # 1
      <4>1. (m + 1) % 2 = 1 /\ m \in 1..n
        BY <2>1, <3>2
      <4>2. QED
        BY <1>2, <1>3, <2>1, <3>2, <4>1
    <3>3. QED
      BY <3>1, <3>2
  <2>2. CASE m + 1 \notin 1..n
    <3>1. m = n /\ command[n + 1].type = "matchOne"
      BY <1>1, <2>2
    <3>2. IsOperand(command[n])
      BY <1>1, <1>2
    <3>3. QED
      BY <1>3, <3>1, <3>2
  <2>3. QED
    BY <2>1, <2>2
<1>6. QED
  BY <1>4, <1>5

\* AND and OR apply from left to right with no precedence, whatever the operands
\* are, however many there are, and whatever was read; MATCH_ONE at the end
\* changes nothing of the outcome (doProbe).
THEOREM OperatorsApplyInOrder ==
    ASSUME NEW command \in Seq(Token), WellFormed(command), NEW objects, NEW names
    PROVE  DoProbe(command, objects, names).ret <=> Means(command, objects, names)
<1> DEFINE N == Len(command)
<1>1. N \in Nat
  OBVIOUS
<1>2. PICK f : Evaluated(command, objects, names) = f[N] /\ EvaluatesTokens(f, command, objects, names)
  BY <1>1, EvaluatedIs
<1>3. N > 0 /\ IsOperand(command[1])
  BY <1>1, WellFormedHas
<1> DEFINE T == {m \in 0..N : m = 0 \/ Agrees(f[m], command, objects, names, m)}
<1>4. 0 \in T
  BY <1>1
<1>5. ASSUME NEW m \in 0..N - 1, m \in T PROVE m + 1 \in T
  <2>1. m + 1 \in 1..N /\ m + 1 \in 0..N /\ (m + 1) - 1 = m
    BY <1>1
  <2>2. f[m + 1] = EvaluateToken(f[m], command[m + 1], objects, names)
    BY <1>2, <2>1 DEF EvaluatesTokens
  <2>3. CASE m = 0
    <3>1. f[0] = NoToken
      BY <1>2 DEF EvaluatesTokens
    <3>2. f[1] = EvaluateToken(NoToken, command[1], objects, names)
      BY <2>2, <2>3, <3>1
    <3>3. Agrees(f[1], command, objects, names, 1)
      BY <1>3, <3>2, AgreesFirst
    <3>4. QED
      BY <2>1, <2>3, <3>3
  <2>4. CASE m # 0
    <3>1. m \in 1..N - 1 /\ m \in Nat /\ m > 0 /\ Agrees(f[m], command, objects, names, m)
      BY <1>1, <1>5, <2>4
    <3>2. \/ ~IsOperand(command[m + 1]) /\ command[m].type \notin Operators
          \/ IsOperand(command[m + 1]) /\ command[m].type \in Operators
      BY <1>1, <3>1, WellFormedHas
    <3>3. Agrees(f[m + 1], command, objects, names, m + 1)
      BY <2>2, <3>1, <3>2, AgreesOn
    <3>4. QED
      BY <2>1, <3>3
  <2>5. QED
    BY <2>3, <2>4
<1>6. N \in T
  <2>1. N \in 0..N
    BY <1>1
  <2> HIDE DEF T, N
  <2>2. QED
    BY <1>1, <1>4, <1>5, <2>1, UpTo
<1>7. Agrees(f[N], command, objects, names, N)
  BY <1>3, <1>6
<1>8. DoProbe(command, objects, names).ret = f[N].ret
  BY <1>2 DEF DoProbe
<1>9. Meant(command, objects, names, N) <=> Means(command, objects, names)
  BY DEF Meant, Means, Holds
<1>10. QED
  BY <1>7, <1>8, <1>9 DEF Agrees

\* ... so every probe a configuration may have passes as it reads, for any set of
\* them, any objects and any names (doProbe).
THEOREM ProbesPassAsRead == Spec => []PassesLeftToRight
<1>1. PassesLeftToRight
  <2>1. SUFFICES ASSUME NEW command \in Probes, WellFormed(command)
                 PROVE  DoProbe(command, bus, Range(lastJson)).ret <=>
                            Means(command, bus, Range(lastJson))
    BY DEF PassesLeftToRight
  <2>2. command \in Seq(Token)
    BY ProbesAssumption
  <2>3. QED
    BY <2>1, <2>2, OperatorsApplyInOrder
<1>2. QED
  BY <1>1, PTL

===============================================================================
