-------------------------- MODULE ExposeActionsProof --------------------------
(***************************************************************************)
(* Theorems about Bind and DisableNode, for any records with any elements, *)
(* found in any order and grouping of scans, and any number of restarts.   *)
(***************************************************************************)
EXTENDS ExposeActions, QueueLemmas

-----------------------------------------------------------------------------
(* The invariant *)

\* A Name is the name of one element: of several, an action reaches the first
\* of them only (findExposeActionRecord strikes the name off).
NamesIdentify == \A p, q \in AllPlaces : NameAt(p) = NameAt(q) => p = q

StatusIn(config, p) == config[p[1]][p[2]].Status

\* The element x has acted on p.
AsMeant(p, x, config) ==
    /\ x \in Binders(p) /\ Disablers(p) = {} => StatusIn(config, p) # "disabled"
    /\ ElementAt(x).Bind = {NameAt(p)} => config[x[1]][x[2]].combined = p
    /\ x \in Disablers(p) /\ Binders(p) = {} => StatusIn(config, p) = "disabled"

HasActed(a, b, config) ==
    \A p, x \in AllPlaces : p[1] = a /\ x[1] = b => AsMeant(p, x, config)

ShownAsMeant(p, x) ==
    /\ x \in Binders(p) /\ Disablers(p) = {} => IsShown(p)
    /\ ElementAt(x).Bind = {NameAt(p)} /\ IsShown(x) => IsCombined(x, p)
    /\ x \in Disablers(p) /\ Binders(p) = {} => ~IsShown(p)

ShowsActed(a, b) == \A p, x \in AllPlaces : p[1] = a /\ x[1] = b => ShownAsMeant(p, x)

\* What waits to be published, or is, was found by the scans before this one.
Published ==
    /\ DOMAIN dbus \subseteq DOMAIN systemConfiguration
    /\ \A job \in Range(ready) : job.boards \subseteq DOMAIN systemConfiguration
    /\ scanning =>
          /\ oldConfiguration \subseteq DOMAIN systemConfiguration
          /\ fresh \subseteq DOMAIN systemConfiguration \ oldConfiguration
          /\ DOMAIN dbus \subseteq oldConfiguration
          /\ \A job \in Range(ready) : job.boards \subseteq oldConfiguration

\* Records of one scan are published together.
Joint(a, b, S) == a \in S <=> b \in S

Together ==
    \A a, b \in Records : <<a, b>> \in inOrder =>
        /\ {a, b} \subseteq DOMAIN systemConfiguration
        /\ a # b
        /\ scanning => Joint(a, b, oldConfiguration)
        /\ \A job \in Range(ready) : Joint(a, b, job.boards)
        /\ Joint(a, b, DOMAIN dbus)

\* The later of two has acted, on what is known and what is shown of them.
Acts ==
    \A a, b \in Records : <<a, b>> \in inOrder =>
        /\ HasActed(a, b, systemConfiguration)
        /\ a \in DOMAIN dbus => ShowsActed(a, b)

OrderInv == TypeOK /\ Published /\ Together /\ Acts

\* No record that was not saved speaks of it.
Unspoken(p) ==
    \A x \in Binders(p) \cup Disablers(p) :
        x[1] \in DOMAIN lastJson \/ x[1] \notin DOMAIN systemConfiguration

AsSaved(p) ==
    /\ p[1] \in DOMAIN systemConfiguration =>
          StatusIn(systemConfiguration, p) = StatusIn(lastJson, p)
    /\ p[1] \in DOMAIN dbus => (IsShown(p) <=> StatusIn(lastJson, p) # "disabled")

Saved ==
    \A p \in AllPlaces : p[1] \in DOMAIN lastJson /\ Unspoken(p) => AsSaved(p)

SavedInv == TypeOK /\ Published /\ Saved

-----------------------------------------------------------------------------
(* Places and configurations *)

LEMMA PlacesAre ==
    /\ \A p \in AllPlaces : /\ p = <<p[1], p[2]>> /\ p[1] \in Records
                            /\ p[2] \in DOMAIN Exposes[p[1]] /\ p[2] \in Nat
    /\ \A r \in Records : \A i \in DOMAIN Exposes[r] : <<r, i>> \in AllPlaces
BY ExposesAssumption DEF AllPlaces

LEMMA ElementsAre ==
    ASSUME NEW r \in Records
    PROVE  /\ Len(Exposes[r]) \in Nat /\ DOMAIN Exposes[r] = 1..Len(Exposes[r])
           /\ \A i \in DOMAIN Exposes[r] : /\ Exposes[r][i].Name \in Names
                                           /\ Exposes[r][i].Status \in Statuses
                                           /\ Exposes[r][i].Bind \subseteq Names
                                           /\ Exposes[r][i].DisableNode \subseteq Names
<1> DEFINE E == [Name : Names, Status : Statuses, Bind : SUBSET Names, DisableNode : SUBSET Names]
<1>1. Exposes[r] \in Seq(E)
  BY ExposesAssumption
<1>2. \A e \in E : /\ e.Name \in Names /\ e.Status \in Statuses
                   /\ e.Bind \subseteq Names /\ e.DisableNode \subseteq Names
  OBVIOUS
<1> HIDE DEF E
<1>3. \A i \in 1..Len(Exposes[r]) : Exposes[r][i] \in E
  BY <1>1
<1>4. QED
  BY <1>1, <1>2, <1>3

\* The elements of a record are as many as it has, each with a status.
LEMMA ElementsHave ==
    ASSUME NEW r \in Records, NEW e \in Elements(r)
    PROVE  /\ DOMAIN e = DOMAIN Exposes[r]
           /\ \A i \in DOMAIN Exposes[r] :
                 /\ e[i] = Element(e[i].Status, e[i].combined)
                 /\ e[i].Status \in Statuses /\ e[i].combined \in AllPlaces \cup {NotCombined}
<1> DEFINE E == [Status : Statuses, combined : AllPlaces \cup {NotCombined}]
<1>1. e \in Seq(E) /\ Len(e) = Len(Exposes[r])
  BY DEF Elements
<1>2. \A x \in E : /\ x = Element(x.Status, x.combined) /\ x.Status \in Statuses
                   /\ x.combined \in AllPlaces \cup {NotCombined}
  BY DEF Element
<1>3. DOMAIN Exposes[r] = 1..Len(Exposes[r])
  BY ElementsAre
<1> HIDE DEF E
<1>4. DOMAIN e = 1..Len(Exposes[r]) /\ \A i \in 1..Len(Exposes[r]) : e[i] \in E
  BY <1>1
<1>5. QED
  BY <1>2, <1>3, <1>4

LEMMA ElementsMade ==
    ASSUME NEW r \in Records, NEW status, NEW combined,
           \A i \in DOMAIN Exposes[r] : /\ status[i] \in Statuses
                                        /\ combined[i] \in AllPlaces \cup {NotCombined}
    PROVE  [i \in DOMAIN Exposes[r] |-> Element(status[i], combined[i])] \in Elements(r)
<1> DEFINE E == [Status : Statuses, combined : AllPlaces \cup {NotCombined}]
<1>1. \A i \in DOMAIN Exposes[r] : Element(status[i], combined[i]) \in E
  BY DEF Element
<1>2. Len(Exposes[r]) \in Nat /\ DOMAIN Exposes[r] = 1..Len(Exposes[r])
  BY ElementsAre
<1> HIDE DEF E
<1>3. /\ [i \in DOMAIN Exposes[r] |-> Element(status[i], combined[i])] \in Seq(E)
      /\ Len([i \in DOMAIN Exposes[r] |-> Element(status[i], combined[i])]) = Len(Exposes[r])
  BY <1>1, <1>2
<1>4. QED
  BY <1>3 DEF Elements, E

\* What looking for names finds has them, and is of the records looked at.
LEMMA MatchesAre ==
    ASSUME NEW config, NEW names, NEW records
    PROVE  \A p \in Matches(config, names, records) :
              /\ p \in AllPlaces /\ p[1] \in DOMAIN config \cap records
              /\ NameAt(p) \in names
BY DEF Matches

LEMMA PositionIs ==
    ASSUME NEW r \in Records
    PROVE  /\ Len(KeyOrder) \in Nat /\ Position(r) \in 1..Len(KeyOrder)
           /\ KeyOrder[Position(r)] = r
<1>1. DOMAIN KeyOrder = 1..Len(KeyOrder) /\ Len(KeyOrder) \in Nat
  BY KeyOrderAssumption
<1>2. \E n \in DOMAIN KeyOrder : KeyOrder[n] = r
  BY KeyOrderAssumption DEF Range
<1>3. QED
  BY <1>1, <1>2 DEF Position

\* Of naturals that are not above a bound one is the largest.
LEMMA LargestNatural ==
    ASSUME NEW T, NEW n \in Nat, T \subseteq 0..n, T # {}
    PROVE  \E m \in T : \A k \in T : k <= m
<1> DEFINE D == {n - m : m \in T}
<1>1. D \subseteq Nat /\ D # {}
  <2>1. \A m \in T : m \in 0..n /\ n - m \in Nat
    OBVIOUS
  <2>2. PICK m \in T : TRUE
    OBVIOUS
  <2>3. n - m \in D
    OBVIOUS
  <2>4. QED
    BY <2>1, <2>3
<1>2. PICK d \in D : \A e \in D : d <= e
  <2>1. PICK d0 \in D : TRUE
    BY <1>1
  <2> HIDE DEF D
  <2>2. QED
    BY <1>1, <2>1, LeastNatural
<1>3. PICK m \in T : d = n - m
  BY <1>2
<1>4. ASSUME NEW k \in T PROVE k <= m
  <2>1. n - k \in D /\ k \in 0..n /\ m \in 0..n
    OBVIOUS
  <2>2. n - m <= n - k
    BY <1>2, <1>3, <2>1
  <2>3. QED
    BY <2>1, <2>2
<1>5. QED
  BY <1>4

LEMMA LastIsThere ==
    ASSUME NEW S, S \subseteq AllPlaces, S # {}
    PROVE  LastOf(S) \in S
<1> DEFINE T == {Position(p[1]) : p \in S}
<1>1. T \subseteq 0..Len(KeyOrder) /\ T # {} /\ Len(KeyOrder) \in Nat
  BY PlacesAre, PositionIs
<1>2. PICK t \in T : \A u \in T : u <= t
  <2> HIDE DEF T
  <2>1. QED
    BY <1>1, LargestNatural
<1>3. PICK p \in S : t = Position(p[1])
  BY <1>2
<1> DEFINE r == p[1]
           U == {q[2] : q \in {s \in S : s[1] = r}}
<1>4. r \in Records /\ Len(Exposes[r]) \in Nat /\ DOMAIN Exposes[r] = 1..Len(Exposes[r])
  BY <1>3, PlacesAre, ElementsAre
<1>5. U \subseteq 0..Len(Exposes[r]) /\ U # {}
  <2>1. p[2] \in U
    BY <1>3
  <2>2. \A q \in S : q[1] = r => q[2] \in 1..Len(Exposes[r])
    BY <1>4, PlacesAre
  <2>3. QED
    BY <1>4, <2>1, <2>2
<1>6. PICK u \in U : \A v \in U : v <= u
  <2> HIDE DEF U, r
  <2>1. QED
    BY <1>4, <1>5, LargestNatural
<1>7. PICK q \in S : q[1] = r /\ q[2] = u
  BY <1>6
<1>8. ASSUME NEW s \in S PROVE s = q \/ IsBefore(s, q)
  <2>1. /\ s = <<s[1], s[2]>> /\ q = <<q[1], q[2]>>
        /\ s[1] \in Records /\ q[1] \in Records /\ s[2] \in Nat /\ q[2] \in Nat
    BY <1>7, PlacesAre
  <2>2. Position(s[1]) <= Position(q[1]) /\ Position(s[1]) \in Nat /\ Position(q[1]) \in Nat
    BY <1>2, <1>3, <1>7, <2>1, PositionIs
  <2>3. Position(s[1]) = Position(q[1]) => s[1] = q[1]
    BY <2>1, PositionIs
  <2>4. s[1] = q[1] => s[2] <= q[2]
    BY <1>6, <1>7
  <2>5. QED
    BY <2>1, <2>2, <2>3, <2>4 DEF IsBefore
<1>9. QED
  BY <1>7, <1>8 DEF LastOf

LEMMA NotBeforeItself ==
    ASSUME NEW p \in AllPlaces PROVE ~IsBefore(p, p)
BY PlacesAre, PositionIs DEF IsBefore

\* Where a name is one element's, it finds that element.
LEMMA NameFinds ==
    ASSUME NamesIdentify, NEW config, NEW names, NEW records, NEW p \in AllPlaces,
           p[1] \in DOMAIN config \cap records, NameAt(p) \in names
    PROVE  /\ p \in Matches(config, names, records)
           /\ names = {NameAt(p)} => LastOf(Matches(config, names, records)) = p
<1>1. p \in Matches(config, names, records)
  BY NotBeforeItself DEF Matches, NamesIdentify
<1>2. ASSUME names = {NameAt(p)} PROVE Matches(config, names, records) = {p}
  BY <1>1, <1>2, MatchesAre DEF NamesIdentify
<1>3. LastOf({p}) = p
  BY DEF LastOf
<1>4. QED
  BY <1>1, <1>2, <1>3

CombinedIn(config, p) == config[p[1]][p[2]].combined

\* Setting the status of elements leaves all else of them as it is.
LEMMA SetStatusSets ==
    ASSUME NEW config, IsConfiguration(config), NEW places, NEW status \in Statuses
    PROVE  LET set == SetStatus(config, places, status)
           IN  /\ IsConfiguration(set) /\ DOMAIN set = DOMAIN config
               /\ \A p \in AllPlaces : p[1] \in DOMAIN config =>
                     /\ CombinedIn(set, p) = CombinedIn(config, p)
                     /\ StatusIn(set, p) = IF p \in places THEN status ELSE StatusIn(config, p)
<1> DEFINE set == SetStatus(config, places, status)
           New(s) == [i \in DOMAIN config[s] |->
                        IF <<s, i>> \in places THEN Element(status, config[s][i].combined)
                        ELSE config[s][i]]
<1>1. set = [s \in DOMAIN config |-> New(s)]
  BY DEF SetStatus
<1>2. ASSUME NEW s \in DOMAIN config
      PROVE  /\ s \in Records /\ DOMAIN config[s] = DOMAIN Exposes[s]
             /\ set[s] = New(s)
             /\ \A i \in DOMAIN Exposes[s] :
                   set[s][i] = Element(IF <<s, i>> \in places THEN status ELSE config[s][i].Status,
                                       config[s][i].combined)
             /\ set[s] \in Elements(s)
  <2>1. s \in Records /\ config[s] \in Elements(s)
    BY DEF IsConfiguration
  <2>2. /\ DOMAIN config[s] = DOMAIN Exposes[s]
        /\ \A i \in DOMAIN Exposes[s] :
              /\ config[s][i] = Element(config[s][i].Status, config[s][i].combined)
              /\ config[s][i].Status \in Statuses
              /\ config[s][i].combined \in AllPlaces \cup {NotCombined}
    BY <2>1, ElementsHave
  <2>3. set[s] = New(s)
    BY <1>1
  <2> DEFINE S == [i \in DOMAIN Exposes[s] |->
                     IF <<s, i>> \in places THEN status ELSE config[s][i].Status]
             C == [i \in DOMAIN Exposes[s] |-> config[s][i].combined]
  <2>4. \A i \in DOMAIN Exposes[s] : set[s][i] = Element(S[i], C[i])
    BY <2>2, <2>3
  <2>5. set[s] = [i \in DOMAIN Exposes[s] |-> Element(S[i], C[i])]
    BY <2>2, <2>3, <2>4
  <2>6. \A i \in DOMAIN Exposes[s] : S[i] \in Statuses /\ C[i] \in AllPlaces \cup {NotCombined}
    BY <2>2
  <2>7. \A i \in DOMAIN Exposes[s] : set[s][i] =
           Element(IF <<s, i>> \in places THEN status ELSE config[s][i].Status,
                   config[s][i].combined)
    BY <2>4
  <2> HIDE DEF S, C, set, New
  <2>8. set[s] \in Elements(s)
    BY <2>1, <2>5, <2>6, ElementsMade
  <2>9. QED
    BY <2>1, <2>2, <2>3, <2>7, <2>8
<1>3. DOMAIN set = DOMAIN config /\ set = [s \in DOMAIN set |-> set[s]]
  BY <1>1
<1> HIDE DEF set
<1>4. IsConfiguration(set)
  BY <1>2, <1>3 DEF IsConfiguration
<1>5. ASSUME NEW p \in AllPlaces, p[1] \in DOMAIN config
      PROVE  /\ CombinedIn(set, p) = CombinedIn(config, p)
             /\ StatusIn(set, p) = IF p \in places THEN status ELSE StatusIn(config, p)
  <2>1. p[2] \in DOMAIN Exposes[p[1]] /\ p = <<p[1], p[2]>>
    BY PlacesAre
  <2>2. set[p[1]][p[2]] =
           Element(IF <<p[1], p[2]>> \in places THEN status ELSE config[p[1]][p[2]].Status,
                   config[p[1]][p[2]].combined)
    BY <1>2, <1>5, <2>1
  <2>3. <<p[1], p[2]>> \in places <=> p \in places
    BY <2>1
  <2>4. QED
    BY <2>2, <2>3 DEF CombinedIn, StatusIn, Element
<1>6. QED
  BY <1>3, <1>4, <1>5 DEF set

\* A record joining a configuration, or replacing its copy in it.
LEMMA PutPuts ==
    ASSUME NEW config, IsConfiguration(config), NEW r \in Records, NEW e \in Elements(r)
    PROVE  /\ IsConfiguration(Put(config, r, e))
           /\ DOMAIN Put(config, r, e) = DOMAIN config \cup {r}
           /\ Put(config, r, e)[r] = e
           /\ \A s \in DOMAIN config \ {r} : Put(config, r, e)[s] = config[s]
BY DEF Put, IsConfiguration

LEMMA ConfiguredIs ==
    ASSUME NEW r \in Records PROVE Configured(r) \in Elements(r)
<1> DEFINE S == [i \in DOMAIN Exposes[r] |-> Exposes[r][i].Status]
           C == [i \in DOMAIN Exposes[r] |-> NotCombined]
<1>1. \A i \in DOMAIN Exposes[r] : S[i] \in Statuses /\ C[i] \in AllPlaces \cup {NotCombined}
  BY ElementsAre
<1>2. Configured(r) = [i \in DOMAIN Exposes[r] |-> Element(S[i], C[i])]
  BY DEF Configured
<1> HIDE DEF S, C
<1>3. QED
  BY <1>1, <1>2, ElementsMade

LEMMA CombineCombines ==
    ASSUME NEW r \in Records, NEW e \in Elements(r), NEW k \in DOMAIN Exposes[r],
           NEW place \in AllPlaces
    PROVE  /\ Combine(e, k, place) \in Elements(r)
           /\ Combine(e, k, place)[k].combined = place
           /\ \A i \in DOMAIN Exposes[r] : i # k => Combine(e, k, place)[i] = e[i]
<1> DEFINE S == [i \in DOMAIN Exposes[r] |-> e[i].Status]
           C == [i \in DOMAIN Exposes[r] |-> IF i = k THEN place ELSE e[i].combined]
<1>1. /\ DOMAIN e = DOMAIN Exposes[r]
      /\ \A i \in DOMAIN Exposes[r] :
            /\ e[i] = Element(e[i].Status, e[i].combined)
            /\ e[i].Status \in Statuses /\ e[i].combined \in AllPlaces \cup {NotCombined}
  BY ElementsHave
<1>2. \A i \in DOMAIN Exposes[r] : S[i] \in Statuses /\ C[i] \in AllPlaces \cup {NotCombined}
  BY <1>1
<1>3. /\ Combine(e, k, place) = [i \in DOMAIN Exposes[r] |->
                                    IF i = k THEN Element(e[i].Status, place) ELSE e[i]]
      /\ \A i \in DOMAIN Exposes[r] :
            (IF i = k THEN Element(e[i].Status, place) ELSE e[i]) = Element(S[i], C[i])
  BY <1>1 DEF Combine
<1>4. Combine(e, k, place) = [i \in DOMAIN Exposes[r] |-> Element(S[i], C[i])]
  BY <1>3
<1>5. Element(e[k].Status, place).combined = place
  BY DEF Element
<1> HIDE DEF S, C
<1>6. Combine(e, k, place) \in Elements(r)
  BY <1>2, <1>4, ElementsMade
<1>7. QED
  BY <1>3, <1>5, <1>6

-----------------------------------------------------------------------------
(* The actions of one element *)

LEMMA BindersAre ==
    ASSUME NEW r \in Records, NEW k \in DOMAIN Exposes[r], NEW p \in AllPlaces
    PROVE  /\ <<r, k>> \in Binders(p) <=> NameAt(p) \in Exposes[r][k].Bind
           /\ <<r, k>> \in Disablers(p) <=> NameAt(p) \in Exposes[r][k].DisableNode
           /\ ElementAt(<<r, k>>) = Exposes[r][k]
BY PlacesAre DEF Binders, Disablers, ElementAt

\* What is there and what is combined, whatever the names.
StaysSound(next, state, r) ==
    /\ IsConfiguration(next.config) /\ DOMAIN next.config = DOMAIN state.config
    /\ next.record \in Elements(r)

\* Of an element of another record, only the status changes, and to okay
\* only where it is bound, to disabled only where it is disabled.
ChangesAsAsked(next, state, p, x) ==
    /\ CombinedIn(next.config, p) = CombinedIn(state.config, p)
    /\ \/ StatusIn(next.config, p) = StatusIn(state.config, p)
       \/ StatusIn(next.config, p) = "okay" /\ x \in Binders(p)
       \/ StatusIn(next.config, p) = "disabled" /\ x \in Disablers(p)

\* Where the name is its own, it does change.
DoesAsAsked(next, p, x) ==
    /\ x \in Disablers(p) => StatusIn(next.config, p) = "disabled"
    /\ x \in Binders(p) /\ x \notin Disablers(p) => StatusIn(next.config, p) = "okay"
    /\ ElementAt(x).Bind = {NameAt(p)} => next.record[x[2]].combined = p

LEMMA BindActs ==
    ASSUME NEW r \in Records, NEW k \in DOMAIN Exposes[r], NEW state,
           IsConfiguration(state.config), state.record \in Elements(r)
    PROVE  LET next == applyBind(state, r, k)
               x == <<r, k>>
           IN  /\ StaysSound(next, state, r)
               /\ \A i \in DOMAIN Exposes[r] : i # k => next.record[i] = state.record[i]
               /\ \A p \in AllPlaces : p[1] \in DOMAIN state.config =>
                     /\ CombinedIn(next.config, p) = CombinedIn(state.config, p)
                     /\ StatusIn(next.config, p) # StatusIn(state.config, p) =>
                           StatusIn(next.config, p) = "okay" /\ x \in Binders(p)
                     /\ NamesIdentify /\ x \in Binders(p) => StatusIn(next.config, p) = "okay"
                     /\ NamesIdentify /\ ElementAt(x).Bind = {NameAt(p)} =>
                           next.record[k].combined = p
<1> DEFINE next == applyBind(state, r, k)
           x == <<r, k>>
           found == Matches(state.config, Exposes[r][k].Bind, Records)
           set == SetStatus(state.config, found, "okay")
<1>1. /\ next.config = set
      /\ next.record = IF found = {} THEN state.record
                       ELSE Combine(state.record, k, LastOf(found))
  BY DEF applyBind, Acting
<1>2. found \subseteq AllPlaces /\ \A p \in found : NameAt(p) \in Exposes[r][k].Bind
  BY MatchesAre
<1>3. ASSUME NamesIdentify, NEW p \in AllPlaces, p[1] \in DOMAIN state.config
      PROVE  /\ NameAt(p) \in Exposes[r][k].Bind => p \in found
             /\ Exposes[r][k].Bind = {NameAt(p)} => p \in found /\ LastOf(found) = p
  <2>1. p[1] \in DOMAIN state.config \cap Records
    BY <1>3, PlacesAre
  <2>2. NameAt(p) \in Exposes[r][k].Bind =>
           p \in found /\ (Exposes[r][k].Bind = {NameAt(p)} => LastOf(found) = p)
    BY <1>3, <2>1, NameFinds
  <2>3. QED
    BY <2>2
<1>4. /\ IsConfiguration(set) /\ DOMAIN set = DOMAIN state.config
      /\ \A p \in AllPlaces : p[1] \in DOMAIN state.config =>
            /\ CombinedIn(set, p) = CombinedIn(state.config, p)
            /\ StatusIn(set, p) = IF p \in found THEN "okay" ELSE StatusIn(state.config, p)
  <2> HIDE DEF found
  <2>1. "okay" \in Statuses
    BY DEF Statuses
  <2>2. QED
    BY <2>1, SetStatusSets
<1> HIDE DEF next, set
<1>5. found # {} => LastOf(found) \in AllPlaces
  <2>1. ASSUME NEW p \in found PROVE TRUE
    OBVIOUS
  <2>2. QED
    BY <1>2, LastIsThere
<1>6. /\ next.record \in Elements(r)
      /\ \A i \in DOMAIN Exposes[r] : i # k => next.record[i] = state.record[i]
      /\ found # {} => next.record[k].combined = LastOf(found)
  <2> HIDE DEF found
  <2>1. CASE found = {}
    BY <1>1, <2>1
  <2>2. CASE found # {}
    BY <1>1, <1>5, <2>2, CombineCombines
  <2>3. QED
    BY <2>1, <2>2
<1>7. StaysSound(next, state, r)
  BY <1>1, <1>4, <1>6 DEF StaysSound
<1>8. ASSUME NEW p \in AllPlaces, p[1] \in DOMAIN state.config
      PROVE  /\ CombinedIn(next.config, p) = CombinedIn(state.config, p)
             /\ StatusIn(next.config, p) # StatusIn(state.config, p) =>
                   StatusIn(next.config, p) = "okay" /\ x \in Binders(p)
             /\ NamesIdentify /\ x \in Binders(p) => StatusIn(next.config, p) = "okay"
             /\ NamesIdentify /\ ElementAt(x).Bind = {NameAt(p)} => next.record[k].combined = p
  <2>1. x \in Binders(p) <=> NameAt(p) \in Exposes[r][k].Bind
    BY BindersAre
  <2>2. ElementAt(x) = Exposes[r][k]
    BY BindersAre
  <2> HIDE DEF found, x
  <2>3. QED
    BY <1>1, <1>2, <1>3, <1>4, <1>6, <1>8, <2>1, <2>2
<1>9. QED
  BY <1>6, <1>7, <1>8 DEF next

LEMMA DisableActs ==
    ASSUME NEW r \in Records, NEW k \in DOMAIN Exposes[r], NEW state,
           IsConfiguration(state.config), state.record \in Elements(r)
    PROVE  LET next == applyDisable(state, r, k)
               x == <<r, k>>
           IN  /\ StaysSound(next, state, r)
               /\ next.record = state.record
               /\ \A p \in AllPlaces : p[1] \in DOMAIN state.config =>
                     /\ CombinedIn(next.config, p) = CombinedIn(state.config, p)
                     /\ StatusIn(next.config, p) # StatusIn(state.config, p) =>
                           StatusIn(next.config, p) = "disabled" /\ x \in Disablers(p)
                     /\ NamesIdentify /\ x \in Disablers(p) /\ p[1] # r =>
                           StatusIn(next.config, p) = "disabled"
<1> DEFINE next == applyDisable(state, r, k)
           x == <<r, k>>
           found == Matches(state.config, Exposes[r][k].DisableNode, Records \ {r})
           set == SetStatus(state.config, found, "disabled")
<1>1. next.config = set /\ next.record = state.record
  BY DEF applyDisable, Acting
<1>2. found \subseteq AllPlaces /\ \A p \in found : NameAt(p) \in Exposes[r][k].DisableNode
  BY MatchesAre
<1>3. ASSUME NamesIdentify, NEW p \in AllPlaces, p[1] \in DOMAIN state.config, p[1] # r,
             NameAt(p) \in Exposes[r][k].DisableNode
      PROVE  p \in found
  <2>1. p[1] \in DOMAIN state.config \cap (Records \ {r})
    BY <1>3, PlacesAre
  <2>2. QED
    BY <1>3, <2>1, NameFinds
<1>4. /\ IsConfiguration(set) /\ DOMAIN set = DOMAIN state.config
      /\ \A p \in AllPlaces : p[1] \in DOMAIN state.config =>
            /\ CombinedIn(set, p) = CombinedIn(state.config, p)
            /\ StatusIn(set, p) = IF p \in found THEN "disabled" ELSE StatusIn(state.config, p)
  <2> HIDE DEF found
  <2>1. "disabled" \in Statuses
    BY DEF Statuses
  <2>2. QED
    BY <2>1, SetStatusSets
<1> HIDE DEF next, set
<1>5. StaysSound(next, state, r)
  BY <1>1, <1>4 DEF StaysSound
<1>6. ASSUME NEW p \in AllPlaces, p[1] \in DOMAIN state.config
      PROVE  /\ CombinedIn(next.config, p) = CombinedIn(state.config, p)
             /\ StatusIn(next.config, p) # StatusIn(state.config, p) =>
                   StatusIn(next.config, p) = "disabled" /\ x \in Disablers(p)
             /\ NamesIdentify /\ x \in Disablers(p) /\ p[1] # r =>
                   StatusIn(next.config, p) = "disabled"
  <2>1. x \in Disablers(p) <=> NameAt(p) \in Exposes[r][k].DisableNode
    BY BindersAre
  <2> HIDE DEF found, x
  <2>2. QED
    BY <1>1, <1>2, <1>3, <1>4, <1>6, <2>1
<1>7. QED
  BY <1>1, <1>5, <1>6 DEF next

LEMMA ElementActs ==
    ASSUME NEW r \in Records, NEW k \in DOMAIN Exposes[r], NEW state,
           IsConfiguration(state.config), state.record \in Elements(r)
    PROVE  LET next == applyExposeActions(state, r, k)
           IN  /\ StaysSound(next, state, r)
               /\ \A i \in DOMAIN Exposes[r] : i # k => next.record[i] = state.record[i]
               /\ \A p \in AllPlaces : p[1] \in DOMAIN state.config /\ p[1] # r =>
                     /\ ChangesAsAsked(next, state, p, <<r, k>>)
                     /\ NamesIdentify => DoesAsAsked(next, p, <<r, k>>)
<1> DEFINE mid == applyBind(state, r, k)
           next == applyDisable(mid, r, k)
           x == <<r, k>>
<1>1. /\ StaysSound(mid, state, r)
      /\ \A i \in DOMAIN Exposes[r] : i # k => mid.record[i] = state.record[i]
      /\ \A p \in AllPlaces : p[1] \in DOMAIN state.config =>
            /\ CombinedIn(mid.config, p) = CombinedIn(state.config, p)
            /\ StatusIn(mid.config, p) # StatusIn(state.config, p) =>
                  StatusIn(mid.config, p) = "okay" /\ x \in Binders(p)
            /\ NamesIdentify /\ x \in Binders(p) => StatusIn(mid.config, p) = "okay"
            /\ NamesIdentify /\ ElementAt(x).Bind = {NameAt(p)} => mid.record[k].combined = p
  BY BindActs
<1> HIDE DEF mid
<1>2. /\ IsConfiguration(mid.config) /\ DOMAIN mid.config = DOMAIN state.config
      /\ mid.record \in Elements(r)
  BY <1>1 DEF StaysSound
<1>3. /\ StaysSound(next, mid, r)
      /\ next.record = mid.record
      /\ \A p \in AllPlaces : p[1] \in DOMAIN mid.config =>
            /\ CombinedIn(next.config, p) = CombinedIn(mid.config, p)
            /\ StatusIn(next.config, p) # StatusIn(mid.config, p) =>
                  StatusIn(next.config, p) = "disabled" /\ x \in Disablers(p)
            /\ NamesIdentify /\ x \in Disablers(p) /\ p[1] # r =>
                  StatusIn(next.config, p) = "disabled"
  BY <1>2, DisableActs
<1>4. applyExposeActions(state, r, k) = next
  BY DEF applyExposeActions, mid
<1> HIDE DEF next
<1>5. StaysSound(next, state, r)
  BY <1>2, <1>3 DEF StaysSound
<1>6. ASSUME NEW p \in AllPlaces, p[1] \in DOMAIN state.config, p[1] # r
      PROVE  /\ ChangesAsAsked(next, state, p, x)
             /\ NamesIdentify => DoesAsAsked(next, p, x)
  <2>1. x[2] = k
    OBVIOUS
  <2> HIDE DEF x
  <2>2. ChangesAsAsked(next, state, p, x)
    BY <1>1, <1>2, <1>3, <1>6 DEF ChangesAsAsked
  <2>3. ASSUME NamesIdentify PROVE DoesAsAsked(next, p, x)
    BY <1>1, <1>2, <1>3, <1>6, <2>1, <2>3 DEF DoesAsAsked
  <2>4. QED
    BY <2>2, <2>3
<1>7. QED
  BY <1>1, <1>3, <1>4, <1>5, <1>6

\* The state after each of the record's elements has acted.
ActsOneByOne(f, config, r) ==
    /\ f[0] = Begun(config, r)
    /\ \A n \in 1..Len(Exposes[r]) : f[n] = applyExposeActions(f[n - 1], r, n)

LEMMA ActedIs ==
    ASSUME NEW config, NEW r, Len(Exposes[r]) \in Nat
    PROVE  \E f : Acted(config, r) = f[Len(Exposes[r])] /\ ActsOneByOne(f, config, r)
<1> DEFINE N == Len(Exposes[r])
           Is(f, m) == f = [n \in 0..m |-> IF n = 0 THEN Begun(config, r)
                                ELSE applyExposeActions(f[n - 1], r, n)]
           T == {m \in 0..N : \E f : Is(f, m)}
<1>1. 0 \in T
  <2>1. 0 \in 0..N /\ Is([n \in 0..0 |-> Begun(config, r)], 0)
    OBVIOUS
  <2> HIDE DEF Is
  <2>2. QED
    BY <2>1
<1>2. ASSUME NEW m \in 0..N - 1, m \in T PROVE m + 1 \in T
  <2>1. PICK f : Is(f, m)
    BY <1>2
  <2> DEFINE g == [n \in 0..m + 1 |-> IF n = m + 1
                      THEN applyExposeActions(f[m], r, m + 1) ELSE f[n]]
  <2>2. m + 1 \in 0..N /\ Is(g, m + 1)
    BY <2>1
  <2> HIDE DEF g, Is
  <2>3. QED
    BY <2>2
<1>3. \E f : Is(f, N)
  <2>1. N \in Nat /\ N \in 0..N
    OBVIOUS
  <2> HIDE DEF T, N
  <2>2. N \in T
    BY <1>1, <1>2, <2>1, UpTo
  <2> USE DEF T
  <2>3. QED
    BY <2>2
<1>4. Acted(config, r) = (CHOOSE f : Is(f, N))[N]
  BY DEF Acted
<1>5. PICK f : Is(f, N) /\ f = CHOOSE h : Is(h, N)
  <2> HIDE DEF Is
  <2>1. QED
    BY <1>3
<1>6. f[N] = Acted(config, r)
  <2> HIDE DEF Is
  <2>1. QED
    BY <1>4, <1>5
<1>7. ActsOneByOne(f, config, r)
  <2>1. \A n \in 0..N : f[n] = IF n = 0 THEN Begun(config, r)
                               ELSE applyExposeActions(f[n - 1], r, n)
    <3>1. Is(f, N)
      <4> HIDE DEF Is
      <4>1. QED
        BY <1>5
    <3>2. QED
      BY <3>1
  <2>2. 0 \in 0..N /\ \A n \in 1..N : n \in 0..N /\ n # 0
    OBVIOUS
  <2> HIDE DEF N
  <2>3. f[0] = Begun(config, r) /\ \A n \in 1..N : f[n] = applyExposeActions(f[n - 1], r, n)
    BY <2>1, <2>2
  <2>4. QED
    BY <2>3 DEF ActsOneByOne, N
<1>8. QED
  BY <1>6, <1>7

-----------------------------------------------------------------------------
(* The actions of a record *)

\* What another record's element has of it, after its first n elements acted.
KeepsOthers(new, config, p, r) ==
    /\ CombinedIn(new, p) = CombinedIn(config, p)
    /\ (\A x \in Binders(p) \cup Disablers(p) : x[1] # r) =>
          StatusIn(new, p) = StatusIn(config, p)
    /\ Disablers(p) = {} /\ StatusIn(config, p) # "disabled" => StatusIn(new, p) # "disabled"
    /\ Binders(p) = {} /\ StatusIn(config, p) = "disabled" => StatusIn(new, p) = "disabled"

Did(state, p, x) ==
    /\ x \in Binders(p) /\ Disablers(p) = {} => StatusIn(state.config, p) # "disabled"
    /\ ElementAt(x).Bind = {NameAt(p)} => state.record[x[2]].combined = p
    /\ x \in Disablers(p) /\ Binders(p) = {} => StatusIn(state.config, p) = "disabled"

After(state, n, config, r) ==
    /\ IsConfiguration(state.config) /\ DOMAIN state.config = DOMAIN config \cup {r}
    /\ state.record \in Elements(r)
    /\ \A p \in AllPlaces : p[1] \in DOMAIN config =>
          /\ KeepsOthers(state.config, config, p, r)
          /\ NamesIdentify => \A j \in 1..n : Did(state, p, <<r, j>>)

LEMMA ActedDoes ==
    ASSUME NEW config, IsConfiguration(config), NEW r \in Records, r \notin DOMAIN config
    PROVE  After(Acted(config, r), Len(Exposes[r]), config, r)
<1> DEFINE N == Len(Exposes[r])
<1>0. N \in Nat /\ DOMAIN Exposes[r] = 1..N
  BY ElementsAre
<1>1. PICK f : Acted(config, r) = f[N] /\ ActsOneByOne(f, config, r)
  BY <1>0, ActedIs
<1> DEFINE T == {n \in 0..N : After(f[n], n, config, r)}
<1>2. 0 \in T
  <2> DEFINE b == Begun(config, r)
  <2>1. b.config = Put(config, r, Configured(r)) /\ b.record = Configured(r)
    BY DEF Begun, Acting
  <2>2. Configured(r) \in Elements(r)
    BY ConfiguredIs
  <2> HIDE DEF b
  <2>3. /\ IsConfiguration(b.config) /\ DOMAIN b.config = DOMAIN config \cup {r}
        /\ \A s \in DOMAIN config \ {r} : b.config[s] = config[s]
    BY <2>1, <2>2, PutPuts
  <2>4. ASSUME NEW p \in AllPlaces, p[1] \in DOMAIN config
        PROVE  KeepsOthers(b.config, config, p, r)
    <3>1. p[1] \in DOMAIN config \ {r}
      BY <2>4
    <3>2. b.config[p[1]] = config[p[1]]
      BY <2>3, <3>1
    <3>3. QED
      BY <3>2 DEF KeepsOthers, CombinedIn, StatusIn
  <2>5. After(b, 0, config, r)
    BY <2>1, <2>2, <2>3, <2>4 DEF After
  <2>6. f[0] = b
    BY <1>1 DEF ActsOneByOne, b
  <2>7. QED
    BY <1>0, <2>5, <2>6
<1>3. ASSUME NEW n \in 0..N - 1, n \in T PROVE n + 1 \in T
  <2> DEFINE old == f[n]
             new == f[n + 1]
             x == <<r, n + 1>>
  <2>1. n + 1 \in 1..N /\ (n + 1) - 1 = n /\ n + 1 \in 0..N /\ n \in Nat
    BY <1>0
  <2>2. new = applyExposeActions(old, r, n + 1)
    BY <1>1, <2>1 DEF ActsOneByOne
  <2>3. After(old, n, config, r)
    BY <1>3
  <2> HIDE DEF old, new
  <2>4. IsConfiguration(old.config) /\ old.record \in Elements(r)
    BY <2>3 DEF After
  <2>5. n + 1 \in DOMAIN Exposes[r]
    BY <1>0, <2>1
  <2>6. /\ StaysSound(new, old, r)
        /\ \A i \in DOMAIN Exposes[r] : i # n + 1 => new.record[i] = old.record[i]
        /\ \A p \in AllPlaces : p[1] \in DOMAIN old.config /\ p[1] # r =>
              /\ ChangesAsAsked(new, old, p, x)
              /\ NamesIdentify => DoesAsAsked(new, p, x)
    BY <2>2, <2>4, <2>5, ElementActs
  <2>7. ASSUME NEW p \in AllPlaces, p[1] \in DOMAIN config
        PROVE  /\ KeepsOthers(new.config, config, p, r)
               /\ NamesIdentify => \A j \in 1..n + 1 : Did(new, p, <<r, j>>)
    <3>1. p[1] \in DOMAIN old.config /\ p[1] # r
      BY <2>3, <2>7 DEF After
    <3>2. ChangesAsAsked(new, old, p, x) /\ (NamesIdentify => DoesAsAsked(new, p, x))
      BY <2>6, <3>1
    <3>3. KeepsOthers(old.config, config, p, r)
      BY <2>3, <2>7 DEF After
    <3>4. x[1] = r /\ x[2] = n + 1
      OBVIOUS
    <3> HIDE DEF x
    <3>5. KeepsOthers(new.config, config, p, r)
      BY <3>2, <3>3, <3>4 DEF ChangesAsAsked, KeepsOthers
    <3>6. ASSUME NamesIdentify, NEW j \in 1..n + 1 PROVE Did(new, p, <<r, j>>)
      <4>1. CASE j = n + 1
        <5>1. <<r, j>> = x
          BY <4>1 DEF x
        <5>2. Did(new, p, x)
          BY <3>2, <3>4, <3>6 DEF DoesAsAsked, Did
        <5>3. QED
          BY <5>1, <5>2
      <4>2. CASE j # n + 1
        <5> DEFINE y == <<r, j>>
        <5>1. j \in 1..n /\ j \in DOMAIN Exposes[r]
          BY <1>0, <2>1, <3>6, <4>2
        <5>2. Did(old, p, y)
          BY <2>3, <2>7, <3>6, <5>1 DEF After
        <5>3. new.record[j] = old.record[j] /\ y[2] = j
          BY <2>6, <4>2, <5>1
        <5> HIDE DEF y
        <5>4. Did(new, p, y)
          BY <3>2, <5>2, <5>3 DEF ChangesAsAsked, Did
        <5>5. QED
          BY <5>4 DEF y
      <4>3. QED
        BY <4>1, <4>2
    <3>7. QED
      BY <3>5, <3>6
  <2>8. After(new, n + 1, config, r)
    BY <2>3, <2>6, <2>7 DEF After, StaysSound
  <2>9. QED
    BY <2>1, <2>8 DEF new
<1>4. N \in T
  <2> HIDE DEF T, N
  <2>1. N \in 0..N
    BY <1>0
  <2>2. QED
    BY <1>0, <1>2, <1>3, <2>1, UpTo
<1>5. QED
  BY <1>1, <1>4

\* A record that is configured leaves what is there, but for what its elements
\* ask for, which is done.
LEMMA ExposesAct ==
    ASSUME NEW config, IsConfiguration(config), NEW r \in Records, r \notin DOMAIN config
    PROVE  LET new == applyExposes(config, r)
           IN  /\ IsConfiguration(new) /\ DOMAIN new = DOMAIN config \cup {r}
               /\ \A p \in AllPlaces : p[1] \in DOMAIN config => KeepsOthers(new, config, p, r)
               /\ NamesIdentify => \A a \in DOMAIN config : HasActed(a, r, new)
<1> DEFINE last == Acted(config, r)
           new == Put(last.config, r, last.record)
<1>1. After(last, Len(Exposes[r]), config, r)
  BY ActedDoes
<1>2. applyExposes(config, r) = new
  BY DEF applyExposes
<1> HIDE DEF last
<1>3. /\ IsConfiguration(last.config) /\ DOMAIN last.config = DOMAIN config \cup {r}
      /\ last.record \in Elements(r)
  BY <1>1 DEF After
<1>4. /\ IsConfiguration(new) /\ DOMAIN new = DOMAIN config \cup {r}
      /\ new[r] = last.record
      /\ \A s \in DOMAIN last.config \ {r} : new[s] = last.config[s]
  <2>1. DOMAIN last.config \cup {r} = DOMAIN config \cup {r}
    BY <1>3
  <2>2. QED
    BY <1>3, <2>1, PutPuts
<1> HIDE DEF new
<1>5. ASSUME NEW p \in AllPlaces, p[1] \in DOMAIN config
      PROVE  /\ new[p[1]] = last.config[p[1]]
             /\ KeepsOthers(new, config, p, r)
  <2>1. p[1] \in DOMAIN last.config \ {r}
    BY <1>3, <1>5
  <2>2. new[p[1]] = last.config[p[1]]
    BY <1>4, <2>1
  <2>3. KeepsOthers(last.config, config, p, r)
    BY <1>1, <1>5 DEF After
  <2>4. QED
    BY <2>2, <2>3 DEF KeepsOthers, CombinedIn, StatusIn
<1>6. ASSUME NamesIdentify, NEW p \in AllPlaces, NEW x \in AllPlaces,
             p[1] \in DOMAIN config, x[1] = r
      PROVE  AsMeant(p, x, new)
  <2>1. x = <<r, x[2]>> /\ x[2] \in 1..Len(Exposes[r])
    BY <1>6, PlacesAre, ElementsAre
  <2>2. Did(last, p, <<r, x[2]>>)
    BY <1>1, <1>6, <2>1 DEF After
  <2>3. Did(last, p, x)
    BY <2>1, <2>2
  <2>4. new[x[1]] = last.record /\ new[p[1]] = last.config[p[1]]
    BY <1>4, <1>5, <1>6
  <2>5. QED
    BY <2>3, <2>4 DEF Did, AsMeant, StatusIn
<1>7. NamesIdentify => \A a \in DOMAIN config : HasActed(a, r, new)
  BY <1>6 DEF HasActed
<1>8. QED
  BY <1>2, <1>4, <1>5, <1>7

-----------------------------------------------------------------------------
(* The type invariant *)

LEMMA OwnRange ==
    ASSUME NEW S, NEW s \in Seq(S) PROVE s \in Seq(Range(s))
<1>1. s = [i \in 1..Len(s) |-> s[i]] /\ Len(s) \in Nat
  OBVIOUS
<1>2. \A i \in 1..Len(s) : s[i] \in Range(s)
  BY RangeAt
<1>3. QED
  BY <1>1, <1>2

\* The queue after a handler ran: what is to be published was before.
Queue(jobs, before) ==
    /\ jobs \in Seq(Range(jobs))
    /\ \A job \in Range(jobs) :
          /\ IsJob(job)
          /\ job.boards = {} \/ \E old \in Range(before) : job.boards = old.boards

LEMMA HandlerTaken ==
    ASSUME ready \in Seq(Range(ready)), \A job \in Range(ready) : IsJob(job), ready # <<>>
    PROVE  /\ Head(ready) \in Range(ready)
           /\ Queue(Tail(ready), ready)
           /\ Queue(Tail(ready) \o <<JobOf("write", {}), JobOf("dbus", Head(ready).boards)>>, ready)
<1> DEFINE w == JobOf("write", {})
           d == JobOf("dbus", Head(ready).boards)
           S == Range(ready) \cup {w, d}
<1>1. /\ Head(ready) \in Range(ready) /\ Tail(ready) \in Seq(Range(ready))
      /\ Range(ready) = {Head(ready)} \cup Range(Tail(ready))
  BY HeadAndTail
<1>2. ready \in Seq(S) /\ w \in S /\ d \in S
  OBVIOUS
<1>3. IsJob(w) /\ IsJob(d) /\ w.boards = {} /\ d.boards = Head(ready).boards
  BY <1>1 DEF IsJob, JobOf
<1> HIDE DEF w, d, S
<1>4. /\ Tail(ready) \o <<w, d>> \in Seq(S)
      /\ Range(Tail(ready) \o <<w, d>>) = Range(Tail(ready)) \cup Range(<<w, d>>)
  <2> DEFINE posted == <<w, d>>
  <2>1. posted \in Seq(S)
    BY <1>2
  <2> HIDE DEF posted
  <2>2. /\ Tail(ready) \o posted \in Seq(S)
        /\ Range(Tail(ready) \o posted) = Range(Tail(ready)) \cup Range(posted)
    BY <1>2, <2>1, RangeDispatch
  <2>3. QED
    BY <2>2 DEF posted
<1>5. Range(<<w, d>>) = {w, d}
  BY RangeShort
<1>6. Queue(Tail(ready), ready)
  BY <1>1, OwnRange DEF Queue
<1>7. Queue(Tail(ready) \o <<w, d>>, ready)
  BY <1>1, <1>3, <1>4, <1>5, OwnRange DEF Queue
<1>8. QED
  BY <1>1, <1>6, <1>7 DEF w, d

LEMMA HandlerPosted ==
    ASSUME ready \in Seq(Range(ready)), NEW job
    PROVE  /\ Append(ready, job) \in Seq(Range(Append(ready, job)))
           /\ Range(Append(ready, job)) = Range(ready) \cup {job}
<1>1. ready \in Seq(Range(ready) \cup {job}) /\ job \in Range(ready) \cup {job}
  OBVIOUS
<1>2. QED
  BY <1>1, RangeAppend, OwnRange

LEMMA HandlerRuns ==
    ASSUME TypeOK, publishNewConfiguration \/ writeJsonFiles \/ postToDbus
    PROVE  ready # <<>> /\ Head(ready) \in Range(ready) /\ Queue(ready', ready)
<1>1. ready # <<>> /\ ready \in Seq(Range(ready)) /\ \A job \in Range(ready) : IsJob(job)
  BY DEF TypeOK, publishNewConfiguration, writeJsonFiles, postToDbus, Runs
<1>2. /\ Head(ready) \in Range(ready)
      /\ Queue(Tail(ready), ready)
      /\ Queue(Tail(ready) \o <<JobOf("write", {}), JobOf("dbus", Head(ready).boards)>>, ready)
  BY <1>1, HandlerTaken
<1>3. CASE publishNewConfiguration
  BY <1>1, <1>2, <1>3 DEF publishNewConfiguration
<1>4. CASE writeJsonFiles
  BY <1>1, <1>2, <1>4 DEF writeJsonFiles
<1>5. CASE postToDbus
  BY <1>1, <1>2, <1>5 DEF postToDbus
<1>6. QED
  BY <1>3, <1>4, <1>5

\* What is shown of a record is what is not disabled of it, with what it is combined with.
LEMMA ShownIs ==
    ASSUME NEW r \in Records, NEW e \in Elements(r)
    PROVE  /\ \A shown \in Shown(e) : shown.place \in DOMAIN Exposes[r]
           /\ \A i \in DOMAIN Exposes[r] :
                 /\ (\E shown \in Shown(e) : shown.place = i) <=> e[i].Status # "disabled"
                 /\ e[i].Status # "disabled" =>
                       [place |-> i, combined |-> e[i].combined] \in Shown(e)
<1>1. DOMAIN e = DOMAIN Exposes[r]
  BY ElementsHave
<1>2. QED
  BY <1>1 DEF Shown

\* What a handler shows, and what stays shown.
LEMMA PostedIs ==
    ASSUME TypeOK, Published, postToDbus
    PROVE  LET new == Head(ready).boards
           IN  /\ Head(ready) \in Range(ready)
               /\ new \subseteq DOMAIN systemConfiguration
               /\ DOMAIN dbus' = DOMAIN dbus \cup new
               /\ \A r \in new : dbus'[r] = Shown(systemConfiguration[r])
               /\ \A r \in DOMAIN dbus \ new : dbus'[r] = dbus[r]
<1>1. Head(ready) \in Range(ready)
  BY HandlerRuns
<1>2. Head(ready).boards \subseteq DOMAIN systemConfiguration
  BY <1>1 DEF Published
<1>3. QED
  BY <1>1, <1>2 DEF postToDbus

LEMMA ScanEnds ==
    ASSUME TypeOK, EndScan
    PROVE  LET new == DOMAIN systemConfiguration \ oldConfiguration
               job == JobOf("publish", new)
           IN  /\ ready' \in Seq(Range(ready'))
               /\ Range(ready') \subseteq Range(ready) \cup {job}
               /\ IsJob(job) /\ job.boards = new
<1> DEFINE new == DOMAIN systemConfiguration \ oldConfiguration
           job == JobOf("publish", new)
<1>1. new \in SUBSET Records
  BY DEF TypeOK, IsConfiguration
<1>2. job.boards = new /\ job.step = "publish"
  BY DEF JobOf
<1>3. IsJob(job)
  BY <1>1, <1>2 DEF IsJob
<1>4. ready' = IF new = {} THEN ready ELSE Append(ready, job)
  BY DEF EndScan
<1> HIDE DEF job
<1>5. ready' \in Seq(Range(ready')) /\ Range(ready') \subseteq Range(ready) \cup {job}
  BY <1>4, HandlerPosted DEF TypeOK
<1>6. QED
  BY <1>2, <1>3, <1>5 DEF job

LEMMA NothingThere ==
    /\ IsConfiguration(<<>>)
    /\ DOMAIN <<>> = {}
    /\ <<>> \in Seq(Range(<<>>)) /\ Range(<<>>) = {}
<1>1. DOMAIN <<>> = {} /\ Range(<<>>) = {}
  BY RangeShort
<1>2. <<>> = [r \in {} |-> <<>>[r]]
  BY <1>1
<1>3. IsConfiguration(<<>>)
  BY <1>1, <1>2 DEF IsConfiguration
<1>4. <<>> \in Seq(Range(<<>>))
  OBVIOUS
<1>5. QED
  BY <1>1, <1>3, <1>4

LEMMA TypeInit ==
    ASSUME Init PROVE TypeOK
<1>1. ready \in Seq(Range(ready)) /\ \A job \in Range(ready) : IsJob(job)
  BY NothingThere DEF Init
<1>2. /\ IsConfiguration(systemConfiguration) /\ IsConfiguration(lastJson)
      /\ IsConfiguration(systemJson)
  BY NothingThere DEF Init
<1>3. DOMAIN dbus = {}
  BY NothingThere DEF Init
<1>4. 0 \in 0..MaxRestarts
  BY RestartsAssumption
<1>5. QED
  BY <1>1, <1>2, <1>3, <1>4 DEF Init, TypeOK

LEMMA TypeConfigure ==
    ASSUME TypeOK, NEW r \in Records, Configure(r) PROVE TypeOK'
<1>1. IsConfiguration(systemConfiguration) /\ r \notin DOMAIN systemConfiguration
  BY DEF TypeOK, Configure
<1>2. IsConfiguration(applyExposes(systemConfiguration, r))
  BY <1>1, ExposesAct
<1>3. IsConfiguration(systemConfiguration')
  BY <1>2 DEF Configure
<1>4. fresh' \in SUBSET Records /\ inOrder' \in SUBSET (Records \X Records)
  BY DEF TypeOK, Configure
<1>5. QED
  BY <1>3, <1>4 DEF TypeOK, Configure

LEMMA TypeRestore ==
    ASSUME TypeOK, NEW r \in Records, Restore(r) PROVE TypeOK'
<1>1. lastJson[r] \in Elements(r) /\ IsConfiguration(systemConfiguration)
  BY DEF TypeOK, Restore, IsConfiguration
<1>2. IsConfiguration(Put(systemConfiguration, r, lastJson[r]))
  BY <1>1, PutPuts
<1>3. QED
  BY <1>2 DEF TypeOK, Restore

LEMMA TypeEndScan ==
    ASSUME TypeOK, EndScan PROVE TypeOK'
<1>1. ready' \in Seq(Range(ready')) /\ \A job \in Range(ready') : IsJob(job)
  BY ScanEnds DEF TypeOK
<1>2. QED
  BY <1>1 DEF TypeOK, EndScan

LEMMA TypePost ==
    ASSUME TypeOK, Published, postToDbus PROVE TypeOK'
<1> DEFINE new == Head(ready).boards
<1>1. /\ new \subseteq DOMAIN systemConfiguration
      /\ DOMAIN dbus' = DOMAIN dbus \cup new
      /\ \A r \in new : dbus'[r] = Shown(systemConfiguration[r])
      /\ \A r \in DOMAIN dbus \ new : dbus'[r] = dbus[r]
  BY PostedIs
<1>2. ready' \in Seq(Range(ready')) /\ \A job \in Range(ready') : IsJob(job)
  BY HandlerRuns DEF Queue
<1> HIDE DEF new
<1>3. \A r \in new : r \in Records /\ systemConfiguration[r] \in Elements(r)
  BY <1>1 DEF TypeOK, IsConfiguration
<1>4. DOMAIN dbus' \subseteq Records
  BY <1>1, <1>3 DEF TypeOK
<1>5. ASSUME NEW r \in DOMAIN dbus', NEW shown \in dbus'[r]
      PROVE  <<r, shown.place>> \in AllPlaces
  <2>1. CASE r \in new
    <3>1. /\ r \in Records /\ systemConfiguration[r] \in Elements(r)
          /\ shown \in Shown(systemConfiguration[r])
      BY <1>1, <1>3, <1>5, <2>1
    <3>2. shown.place \in DOMAIN Exposes[r]
      BY <3>1, ShownIs
    <3>3. QED
      BY <3>1, <3>2, PlacesAre
  <2>2. CASE r \notin new
    <3>1. r \in DOMAIN dbus /\ shown \in dbus[r]
      BY <1>1, <1>5, <2>2
    <3>2. QED
      BY <3>1 DEF TypeOK
  <2>3. QED
    BY <2>1, <2>2
<1>6. /\ IsConfiguration(systemConfiguration)' /\ IsConfiguration(lastJson)'
      /\ IsConfiguration(systemJson)' /\ (oldConfiguration \in SUBSET Records)'
      /\ (scanning \in BOOLEAN)' /\ (fresh \in SUBSET Records)'
      /\ (inOrder \in SUBSET (Records \X Records))' /\ (restarts \in 0..MaxRestarts)'
  BY DEF TypeOK, postToDbus
<1>7. QED
  BY <1>2, <1>4, <1>5, <1>6 DEF TypeOK

LEMMA TypeNext ==
    ASSUME TypeOK, Published, [Next]_vars PROVE TypeOK'
<1>1. CASE UNCHANGED vars
  BY <1>1 DEF vars, TypeOK
<1>2. CASE BeginScan
  <2>1. DOMAIN systemConfiguration \subseteq Records
    BY DEF TypeOK, IsConfiguration
  <2>2. QED
    BY <1>2, <2>1 DEF TypeOK, BeginScan
<1>3. ASSUME NEW r \in Records, Configure(r) PROVE TypeOK'
  BY <1>3, TypeConfigure
<1>4. ASSUME NEW r \in Records, Restore(r) PROVE TypeOK'
  BY <1>4, TypeRestore
<1>5. CASE EndScan
  BY <1>5, TypeEndScan
<1>6. CASE publishNewConfiguration
  <2>1. ready' \in Seq(Range(ready')) /\ \A job \in Range(ready') : IsJob(job)
    BY <1>6, HandlerRuns DEF Queue
  <2>2. QED
    BY <1>6, <2>1 DEF TypeOK, publishNewConfiguration
<1>7. CASE writeJsonFiles
  <2>1. ready' \in Seq(Range(ready')) /\ \A job \in Range(ready') : IsJob(job)
    BY <1>7, HandlerRuns DEF Queue
  <2>2. QED
    BY <1>7, <2>1 DEF TypeOK, writeJsonFiles
<1>8. CASE postToDbus
  BY <1>8, TypePost
<1>9. CASE Restart
  <2>1. restarts' \in 0..MaxRestarts
    BY <1>9, RestartsAssumption DEF TypeOK, Restart
  <2>2. QED
    BY <1>9, <2>1, NothingThere DEF TypeOK, Restart
<1>10. QED
  BY <1>1, <1>2, <1>3, <1>4, <1>5, <1>6, <1>7, <1>8, <1>9 DEF Next

\* What is published is found; the queue and the scan know no record that is not.
LEMMA PublishedNext ==
    ASSUME TypeOK, Published, [Next]_vars PROVE Published'
<1>1. CASE UNCHANGED vars
  BY <1>1 DEF vars, Published
<1>2. CASE BeginScan
  BY <1>2 DEF Published, BeginScan
<1>3. ASSUME NEW r \in Records, Configure(r) PROVE Published'
  <2>1. IsConfiguration(systemConfiguration) /\ r \notin DOMAIN systemConfiguration
    BY <1>3 DEF TypeOK, Configure
  <2>2. DOMAIN systemConfiguration' = DOMAIN systemConfiguration \cup {r}
    BY <1>3, <2>1, ExposesAct DEF Configure
  <2>3. scanning /\ fresh' = fresh \cup {r} /\ UNCHANGED <<oldConfiguration, scanning, ready, dbus>>
    BY <1>3 DEF Configure
  <2>4. QED
    BY <2>1, <2>2, <2>3 DEF Published
<1>4. ASSUME NEW r \in Records, Restore(r) PROVE Published'
  <2>1. DOMAIN systemConfiguration' = DOMAIN systemConfiguration \cup {r}
    BY <1>4 DEF Restore, Put
  <2>2. UNCHANGED <<oldConfiguration, scanning, ready, dbus, fresh>>
    BY <1>4 DEF Restore
  <2>3. QED
    BY <2>1, <2>2 DEF Published
<1>5. CASE EndScan
  <2> DEFINE new == DOMAIN systemConfiguration \ oldConfiguration
             job == JobOf("publish", new)
  <2>1. Range(ready') \subseteq Range(ready) \cup {job} /\ job.boards = new
    BY <1>5, ScanEnds
  <2> HIDE DEF job
  <2>2. ~scanning' /\ systemConfiguration' = systemConfiguration /\ dbus' = dbus
    BY <1>5 DEF EndScan
  <2>3. QED
    BY <2>1, <2>2 DEF Published
<1>6. CASE publishNewConfiguration \/ writeJsonFiles \/ postToDbus
  <2>1. /\ Head(ready) \in Range(ready)
        /\ \A job \in Range(ready') :
              job.boards = {} \/ \E old \in Range(ready) : job.boards = old.boards
    BY <1>6, HandlerRuns DEF Queue
  <2>2. UNCHANGED <<systemConfiguration, oldConfiguration, scanning, fresh>>
    BY <1>6 DEF publishNewConfiguration, writeJsonFiles, postToDbus
  <2>3. DOMAIN dbus' \subseteq DOMAIN dbus \cup Head(ready).boards
    <3>1. CASE postToDbus
      BY <3>1, PostedIs
    <3>2. CASE ~postToDbus
      BY <1>6, <3>2 DEF publishNewConfiguration, writeJsonFiles
    <3>3. QED
      BY <3>1, <3>2
  <2>4. QED
    BY <2>1, <2>2, <2>3 DEF Published
<1>7. CASE Restart
  <2>1. ready' = <<>> /\ dbus' = <<>> /\ scanning' = FALSE
    BY <1>7 DEF Restart
  <2>2. Range(ready') = {} /\ DOMAIN dbus' = {} /\ ~scanning'
    BY <2>1, NothingThere
  <2>3. QED
    BY <2>2 DEF Published
<1>8. QED
  BY <1>1, <1>2, <1>3, <1>4, <1>5, <1>6, <1>7 DEF Next

LEMMA FoundInit ==
    ASSUME Init PROVE Published
<1>1. DOMAIN dbus = {} /\ Range(ready) = {} /\ ~scanning
  BY NothingThere DEF Init
<1>2. QED
  BY <1>1 DEF Published

\* However records act on each other and whatever is restored, each copy of a
\* record has all its elements, with a status and at most one combined with it.
THEOREM TypeCorrect == Spec => []TypeOK
<1>1. Init => TypeOK /\ Published
  BY TypeInit, FoundInit
<1>2. TypeOK /\ Published /\ [Next]_vars => TypeOK' /\ Published'
  BY TypeNext, PublishedNext
<1>3. QED
  BY <1>1, <1>2, PTL DEF Spec

-----------------------------------------------------------------------------
(* Records come back as they were saved *)

LEMMA UnspokenBefore ==
    ASSUME NEW p \in AllPlaces, Unspoken(p)', lastJson' = lastJson,
           DOMAIN systemConfiguration \subseteq DOMAIN systemConfiguration'
    PROVE  Unspoken(p)
BY DEF Unspoken, Binders, Disablers

LEMMA SavedConfigure ==
    ASSUME TypeOK, Saved, NEW r \in Records, Configure(r), NEW p \in AllPlaces,
           p[1] \in DOMAIN lastJson, Unspoken(p)'
    PROVE  AsSaved(p)'
<1> DEFINE new == applyExposes(systemConfiguration, r)
<1>1. /\ IsConfiguration(systemConfiguration) /\ r \notin DOMAIN systemConfiguration
      /\ r \notin DOMAIN lastJson
      /\ systemConfiguration' = new /\ lastJson' = lastJson /\ ready' = ready /\ dbus' = dbus
  BY DEF TypeOK, Configure
<1> HIDE DEF new
<1>2. /\ DOMAIN new = DOMAIN systemConfiguration \cup {r}
      /\ \A q \in AllPlaces : q[1] \in DOMAIN systemConfiguration =>
            KeepsOthers(new, systemConfiguration, q, r)
  BY <1>1, ExposesAct DEF new
<1>3. AsSaved(p)
  BY <1>1, <1>2, UnspokenBefore DEF Saved
<1>4. \A x \in Binders(p) \cup Disablers(p) : x[1] # r
  BY <1>1, <1>2 DEF Unspoken, Binders, Disablers
<1>5. p[1] \in DOMAIN systemConfiguration' =>
         StatusIn(systemConfiguration', p) = StatusIn(lastJson', p)
  BY <1>1, <1>2, <1>3, <1>4 DEF AsSaved, KeepsOthers
<1>6. QED
  BY <1>1, <1>3, <1>5 DEF AsSaved, IsShown

LEMMA SavedRestore ==
    ASSUME TypeOK, Saved, NEW r \in Records, Restore(r), NEW p \in AllPlaces,
           p[1] \in DOMAIN lastJson, Unspoken(p)'
    PROVE  AsSaved(p)'
<1> DEFINE elements == lastJson[r]
           new == Put(systemConfiguration, r, elements)
<1>1. /\ IsConfiguration(systemConfiguration) /\ elements \in Elements(r)
      /\ systemConfiguration' = new /\ lastJson' = lastJson /\ ready' = ready /\ dbus' = dbus
  BY DEF TypeOK, Restore, IsConfiguration
<1> HIDE DEF new, elements
<1>2. /\ DOMAIN new = DOMAIN systemConfiguration \cup {r} /\ new[r] = elements
      /\ \A s \in DOMAIN systemConfiguration \ {r} : new[s] = systemConfiguration[s]
  BY <1>1, PutPuts DEF new
<1>3. AsSaved(p)
  BY <1>1, <1>2, UnspokenBefore DEF Saved
<1>4. p[1] \in DOMAIN systemConfiguration' =>
         StatusIn(systemConfiguration', p) = StatusIn(lastJson', p)
  <2>1. CASE p[1] = r
    BY <1>1, <1>2, <2>1 DEF StatusIn, elements
  <2>2. CASE p[1] # r
    <3>1. p[1] \in DOMAIN new => p[1] \in DOMAIN systemConfiguration \ {r}
      BY <1>2, <2>2
    <3>2. p[1] \in DOMAIN new => new[p[1]] = systemConfiguration[p[1]]
      BY <1>2, <3>1
    <3>3. QED
      BY <1>1, <1>3, <3>1, <3>2 DEF AsSaved, StatusIn
  <2>3. QED
    BY <2>1, <2>2
<1>5. QED
  BY <1>1, <1>3, <1>4 DEF AsSaved, IsShown

LEMMA SavedEndScan ==
    ASSUME Saved, EndScan, NEW p \in AllPlaces, p[1] \in DOMAIN lastJson, Unspoken(p)'
    PROVE  AsSaved(p)'
<1>1. systemConfiguration' = systemConfiguration /\ lastJson' = lastJson /\ dbus' = dbus
  BY DEF EndScan
<1>2. AsSaved(p)
  BY <1>1, UnspokenBefore DEF Saved
<1>3. QED
  BY <1>1, <1>2 DEF AsSaved, IsShown

LEMMA SavedHandler ==
    ASSUME TypeOK, Published, Saved, publishNewConfiguration \/ writeJsonFiles \/ postToDbus,
           NEW p \in AllPlaces, p[1] \in DOMAIN lastJson, Unspoken(p)'
    PROVE  AsSaved(p)'
<1>1. systemConfiguration' = systemConfiguration /\ lastJson' = lastJson
  BY DEF publishNewConfiguration, writeJsonFiles, postToDbus
<1>2. AsSaved(p)
  BY <1>1, UnspokenBefore DEF Saved
<1>3. (p[1] \in DOMAIN dbus)' => (IsShown(p)' <=> StatusIn(lastJson, p) # "disabled")
  <2>1. CASE ~postToDbus
    BY <1>2, <2>1 DEF AsSaved, IsShown, publishNewConfiguration, writeJsonFiles
  <2>2. CASE postToDbus
    <3> DEFINE new == Head(ready).boards
    <3>1. /\ new \subseteq DOMAIN systemConfiguration
          /\ DOMAIN dbus' = DOMAIN dbus \cup new
          /\ \A r \in new : dbus'[r] = Shown(systemConfiguration[r])
          /\ \A r \in DOMAIN dbus \ new : dbus'[r] = dbus[r]
      BY <2>2, PostedIs
    <3> HIDE DEF new
    <3>3. CASE p[1] \in new
      <4>1. /\ p[1] \in Records /\ systemConfiguration[p[1]] \in Elements(p[1])
            /\ p[2] \in DOMAIN Exposes[p[1]]
        BY <3>1, <3>3, PlacesAre DEF TypeOK, IsConfiguration
      <4>2. (\E shown \in Shown(systemConfiguration[p[1]]) : shown.place = p[2])
               <=> systemConfiguration[p[1]][p[2]].Status # "disabled"
        BY <4>1, ShownIs
      <4>3. IsShown(p)' <=> \E shown \in Shown(systemConfiguration[p[1]]) : shown.place = p[2]
        BY <3>1, <3>3 DEF IsShown
      <4>4. StatusIn(systemConfiguration, p) = StatusIn(lastJson, p)
        BY <1>2, <3>1, <3>3 DEF AsSaved
      <4>5. QED
        BY <4>2, <4>3, <4>4 DEF StatusIn
    <3>4. CASE p[1] \notin new
      BY <1>2, <3>1, <3>4 DEF AsSaved, IsShown
    <3>5. QED
      BY <3>3, <3>4
  <2>3. QED
    BY <2>1, <2>2
<1>4. QED
  BY <1>1, <1>2, <1>3 DEF AsSaved

LEMMA SavedNext ==
    ASSUME TypeOK, Published, Saved, [Next]_vars PROVE Saved'
<1>1. SUFFICES ASSUME NEW p \in AllPlaces, p[1] \in DOMAIN lastJson', Unspoken(p)'
               PROVE  AsSaved(p)'
  BY DEF Saved
<1>2. CASE UNCHANGED vars \/ BeginScan
  <2>1. /\ systemConfiguration' = systemConfiguration /\ lastJson' = lastJson
        /\ ready' = ready /\ dbus' = dbus
    BY <1>2 DEF vars, BeginScan
  <2>2. AsSaved(p)
    BY <1>1, <2>1, UnspokenBefore DEF Saved
  <2>3. QED
    BY <2>1, <2>2 DEF AsSaved, IsShown
<1>3. ASSUME NEW r \in Records, Configure(r) PROVE AsSaved(p)'
  <2>1. lastJson' = lastJson
    BY <1>3 DEF Configure
  <2>2. QED
    BY <1>1, <1>3, <2>1, SavedConfigure
<1>4. ASSUME NEW r \in Records, Restore(r) PROVE AsSaved(p)'
  <2>1. lastJson' = lastJson
    BY <1>4 DEF Restore
  <2>2. QED
    BY <1>1, <1>4, <2>1, SavedRestore
<1>5. CASE EndScan
  <2>1. lastJson' = lastJson
    BY <1>5 DEF EndScan
  <2>2. QED
    BY <1>1, <1>5, <2>1, SavedEndScan
<1>6. CASE publishNewConfiguration \/ writeJsonFiles \/ postToDbus
  <2>1. lastJson' = lastJson
    BY <1>6 DEF publishNewConfiguration, writeJsonFiles, postToDbus
  <2>2. QED
    BY <1>1, <1>6, <2>1, SavedHandler
<1>7. CASE Restart
  <2>1. systemConfiguration' = <<>> /\ ready' = <<>> /\ dbus' = <<>>
    BY <1>7 DEF Restart
  <2>2. DOMAIN systemConfiguration' = {} /\ Range(ready') = {} /\ DOMAIN dbus' = {}
    BY <2>1, NothingThere
  <2>3. QED
    BY <2>2 DEF AsSaved
<1>8. QED
  BY <1>2, <1>3, <1>4, <1>5, <1>6, <1>7 DEF Next

\* After any number of restarts, and in whatever order records are found again,
\* every element of a record that was saved is shown exactly if system.json had
\* it usable, as long as no record that was not saved binds or disables it.
THEOREM SavedIsRestored == Spec => []ComesBackAsSaved
<1>1. Init => SavedInv
  <2>1. SUFFICES ASSUME Init PROVE SavedInv
    OBVIOUS
  <2>2. DOMAIN lastJson = {}
    BY <2>1, NothingThere DEF Init
  <2>3. QED
    BY <2>1, <2>2, TypeInit, FoundInit DEF SavedInv, Saved
<1>2. SavedInv /\ [Next]_vars => SavedInv'
  BY TypeNext, PublishedNext, SavedNext DEF SavedInv
<1>3. SavedInv => ComesBackAsSaved
  <2>1. SUFFICES ASSUME SavedInv PROVE ComesBackAsSaved
    OBVIOUS
  <2>2. ASSUME NEW p \in AllPlaces, p[1] \in DOMAIN lastJson \cap DOMAIN dbus, Unspoken(p)
        PROVE  IsShown(p) <=> lastJson[p[1]][p[2]].Status # "disabled"
    <3>1. AsSaved(p)
      BY <2>1, <2>2 DEF SavedInv, Saved
    <3>2. QED
      BY <2>2, <3>1 DEF AsSaved, StatusIn
  <2>3. QED
    BY <2>2 DEF ComesBackAsSaved, Unspoken
<1>4. QED
  BY <1>1, <1>2, <1>3, PTL DEF Spec

-----------------------------------------------------------------------------
(* What was found in order is shown as its later record has it *)

\* All that a pair of records found in order has: one part of Together and Acts.
InOrderPair(a, b) ==
    /\ {a, b} \subseteq DOMAIN systemConfiguration
    /\ a # b
    /\ scanning => Joint(a, b, oldConfiguration)
    /\ \A job \in Range(ready) : Joint(a, b, job.boards)
    /\ Joint(a, b, DOMAIN dbus)
    /\ HasActed(a, b, systemConfiguration)
    /\ a \in DOMAIN dbus => ShowsActed(a, b)

LEMMA InOrderPairs ==
    (Together /\ Acts) <=> \A a, b \in Records : <<a, b>> \in inOrder => InOrderPair(a, b)
BY DEF Together, Acts, InOrderPair

\* What has acted and is published is shown.
LEMMA ActedIsShown ==
    ASSUME NEW config, IsConfiguration(config), NEW a, NEW b, {a, b} \subseteq DOMAIN config,
           HasActed(a, b, config), dbus'[a] = Shown(config[a]), dbus'[b] = Shown(config[b])
    PROVE  ShowsActed(a, b)'
<1>1. SUFFICES ASSUME NEW p \in AllPlaces, NEW x \in AllPlaces, p[1] = a, x[1] = b
               PROVE  ShownAsMeant(p, x)'
  BY DEF ShowsActed
<1>2. AsMeant(p, x, config)
  BY <1>1 DEF HasActed
<1>3. /\ a \in Records /\ config[a] \in Elements(a) /\ p[2] \in DOMAIN Exposes[a]
      /\ b \in Records /\ config[b] \in Elements(b) /\ x[2] \in DOMAIN Exposes[b]
  BY <1>1, PlacesAre DEF IsConfiguration
<1>4. /\ IsShown(p)' <=> config[a][p[2]].Status # "disabled"
      /\ IsShown(x)' <=> config[b][x[2]].Status # "disabled"
  <2>1. /\ IsShown(p)' <=> \E shown \in Shown(config[a]) : shown.place = p[2]
        /\ IsShown(x)' <=> \E shown \in Shown(config[b]) : shown.place = x[2]
    BY <1>1 DEF IsShown
  <2>2. (\E shown \in Shown(config[a]) : shown.place = p[2])
           <=> config[a][p[2]].Status # "disabled"
    BY <1>3, ShownIs
  <2>3. (\E shown \in Shown(config[b]) : shown.place = x[2])
           <=> config[b][x[2]].Status # "disabled"
    BY <1>3, ShownIs
  <2>4. QED
    BY <2>1, <2>2, <2>3
<1>5. config[b][x[2]].Status # "disabled" =>
         [place |-> x[2], combined |-> config[b][x[2]].combined] \in dbus'[x[1]]
  BY <1>1, <1>3, ShownIs
<1>6. IsShown(x)' /\ config[b][x[2]].combined = p => IsCombined(x, p)'
  BY <1>4, <1>5 DEF IsCombined
<1>7. QED
  BY <1>1, <1>2, <1>4, <1>6 DEF ShownAsMeant, AsMeant, StatusIn

LEMMA ActedStays ==
    ASSUME NEW new, NEW config, NEW r, NEW a \in DOMAIN config, NEW b \in DOMAIN config,
           HasActed(a, b, config),
           \A p \in AllPlaces : p[1] \in DOMAIN config => KeepsOthers(new, config, p, r)
    PROVE  HasActed(a, b, new)
<1>1. SUFFICES ASSUME NEW p \in AllPlaces, NEW x \in AllPlaces, p[1] = a, x[1] = b
               PROVE  AsMeant(p, x, new)
  BY DEF HasActed
<1>2. AsMeant(p, x, config) /\ KeepsOthers(new, config, p, r) /\ KeepsOthers(new, config, x, r)
  BY <1>1 DEF HasActed
<1>3. QED
  BY <1>2 DEF AsMeant, KeepsOthers, CombinedIn

LEMMA PairConfigure ==
    ASSUME NamesIdentify, TypeOK, Published, Together, Acts, NEW r \in Records, Configure(r),
           NEW a \in Records, NEW b \in Records, <<a, b>> \in inOrder'
    PROVE  InOrderPair(a, b)'
<1> DEFINE new == applyExposes(systemConfiguration, r)
<1>1. /\ IsConfiguration(systemConfiguration) /\ r \notin DOMAIN systemConfiguration
      /\ scanning /\ systemConfiguration' = new
      /\ inOrder' = inOrder \cup {<<t, r>> : t \in fresh}
      /\ UNCHANGED <<oldConfiguration, scanning, ready, dbus>>
  BY DEF TypeOK, Configure
<1> HIDE DEF new
<1>2. /\ DOMAIN new = DOMAIN systemConfiguration \cup {r}
      /\ \A p \in AllPlaces : p[1] \in DOMAIN systemConfiguration =>
            KeepsOthers(new, systemConfiguration, p, r)
      /\ \A t \in DOMAIN systemConfiguration : HasActed(t, r, new)
  BY <1>1, ExposesAct DEF new
<1>3. CASE <<a, b>> \in inOrder
  <2>1. InOrderPair(a, b)
    BY <1>3, InOrderPairs
  <2>2. /\ a \in DOMAIN systemConfiguration /\ b \in DOMAIN systemConfiguration
        /\ HasActed(a, b, systemConfiguration)
    BY <2>1 DEF InOrderPair
  <2>3. HasActed(a, b, new)
    BY <1>2, <2>2, ActedStays
  <2>4. ShowsActed(a, b)' <=> ShowsActed(a, b)
    BY <1>1 DEF ShowsActed, ShownAsMeant, IsShown, IsCombined, Binders, Disablers
  <2>5. QED
    BY <1>1, <1>2, <2>1, <2>3, <2>4 DEF InOrderPair, Joint
<1>4. CASE <<a, b>> \notin inOrder
  <2>1. a \in fresh /\ b = r
    BY <1>1, <1>4
  <2>2. a \in DOMAIN systemConfiguration /\ a \notin oldConfiguration
    BY <1>1, <2>1 DEF Published
  <2>3. b \notin DOMAIN systemConfiguration /\ b \notin oldConfiguration /\ a # b
    BY <1>1, <2>1, <2>2 DEF Published
  <2>4. /\ a \notin DOMAIN dbus /\ b \notin DOMAIN dbus
        /\ \A job \in Range(ready) : a \notin job.boards /\ b \notin job.boards
    BY <1>1, <2>2, <2>3 DEF Published
  <2>5. HasActed(a, b, new)
    BY <1>2, <2>1, <2>2
  <2>6. QED
    BY <1>1, <1>2, <2>1, <2>2, <2>3, <2>4, <2>5 DEF InOrderPair, Joint
<1>5. QED
  BY <1>3, <1>4

LEMMA PairRestore ==
    ASSUME TypeOK, NEW r \in Records, Restore(r), NEW a, NEW b, InOrderPair(a, b)
    PROVE  InOrderPair(a, b)'
<1> DEFINE new == Put(systemConfiguration, r, lastJson[r])
<1>1. /\ r \notin DOMAIN systemConfiguration /\ systemConfiguration' = new
      /\ UNCHANGED <<oldConfiguration, scanning, ready, dbus>>
  BY DEF Restore
<1>2. /\ DOMAIN new = DOMAIN systemConfiguration \cup {r}
      /\ \A s \in DOMAIN systemConfiguration : new[s] = systemConfiguration[s]
  BY <1>1 DEF Put
<1> HIDE DEF new
<1>3. /\ a \in DOMAIN systemConfiguration /\ b \in DOMAIN systemConfiguration
      /\ HasActed(a, b, systemConfiguration)
  BY DEF InOrderPair
<1>4. HasActed(a, b, new)
  BY <1>2, <1>3 DEF HasActed, AsMeant, StatusIn
<1>5. ShowsActed(a, b)' <=> ShowsActed(a, b)
  BY <1>1 DEF ShowsActed, ShownAsMeant, IsShown, IsCombined, Binders, Disablers
<1>6. QED
  BY <1>1, <1>2, <1>4, <1>5 DEF InOrderPair, Joint

LEMMA PairBegin ==
    ASSUME BeginScan, NEW a, NEW b, InOrderPair(a, b)
    PROVE  InOrderPair(a, b)'
<1>1. /\ oldConfiguration' = DOMAIN systemConfiguration
      /\ UNCHANGED <<systemConfiguration, ready, dbus>>
  BY DEF BeginScan
<1>2. ShowsActed(a, b)' <=> ShowsActed(a, b)
  BY <1>1 DEF ShowsActed, ShownAsMeant, IsShown, IsCombined, Binders, Disablers
<1>3. QED
  BY <1>1, <1>2 DEF InOrderPair, Joint

LEMMA PairEnd ==
    ASSUME TypeOK, EndScan, NEW a, NEW b, InOrderPair(a, b)
    PROVE  InOrderPair(a, b)'
<1> DEFINE new == DOMAIN systemConfiguration \ oldConfiguration
           job == JobOf("publish", new)
<1>1. Range(ready') \subseteq Range(ready) \cup {job} /\ job.boards = new
  BY ScanEnds
<1> HIDE DEF job
<1>2. /\ scanning /\ ~scanning' /\ systemConfiguration' = systemConfiguration /\ dbus' = dbus
  BY DEF EndScan
<1>3. ShowsActed(a, b)' <=> ShowsActed(a, b)
  BY <1>2 DEF ShowsActed, ShownAsMeant, IsShown, IsCombined, Binders, Disablers
<1>4. Joint(a, b, new)
  BY <1>2 DEF InOrderPair, Joint
<1>5. \A j \in Range(ready') : Joint(a, b, j.boards)
  BY <1>1, <1>4 DEF InOrderPair
<1>6. QED
  BY <1>2, <1>3, <1>5 DEF InOrderPair

LEMMA PairHandler ==
    ASSUME TypeOK, Published, publishNewConfiguration \/ writeJsonFiles \/ postToDbus,
           NEW a, NEW b, InOrderPair(a, b)
    PROVE  InOrderPair(a, b)'
<1>1. UNCHANGED <<systemConfiguration, oldConfiguration, scanning>>
  BY DEF publishNewConfiguration, writeJsonFiles, postToDbus
<1>2. /\ Head(ready) \in Range(ready)
      /\ \A job \in Range(ready') :
            job.boards = {} \/ \E old \in Range(ready) : job.boards = old.boards
  BY HandlerRuns DEF Queue
<1>3. \A job \in Range(ready') : Joint(a, b, job.boards)
  BY <1>2 DEF InOrderPair, Joint
<1>4. /\ Joint(a, b, DOMAIN dbus')
      /\ a \in DOMAIN dbus' => ShowsActed(a, b)'
  <2>1. CASE ~postToDbus
    <3>1. dbus' = dbus
      BY <2>1 DEF publishNewConfiguration, writeJsonFiles
    <3>2. ShowsActed(a, b)' <=> ShowsActed(a, b)
      BY <3>1 DEF ShowsActed, ShownAsMeant, IsShown, IsCombined, Binders, Disablers
    <3>3. QED
      BY <3>1, <3>2 DEF InOrderPair, Joint
  <2>2. CASE postToDbus
    <3> DEFINE new == Head(ready).boards
    <3>1. /\ new \subseteq DOMAIN systemConfiguration
          /\ DOMAIN dbus' = DOMAIN dbus \cup new
          /\ \A r \in new : dbus'[r] = Shown(systemConfiguration[r])
          /\ \A r \in DOMAIN dbus \ new : dbus'[r] = dbus[r]
      BY <2>2, PostedIs
    <3>2. Joint(a, b, new) /\ HasActed(a, b, systemConfiguration)
      BY <1>2 DEF InOrderPair
    <3> HIDE DEF new
    <3>3. Joint(a, b, DOMAIN dbus')
      BY <3>1, <3>2 DEF InOrderPair, Joint
    <3>4. CASE a \in new
      <4>1. b \in new
        BY <3>2, <3>4 DEF Joint
      <4>2. IsConfiguration(systemConfiguration) /\ {a, b} \subseteq DOMAIN systemConfiguration
        BY <3>1, <3>4, <4>1 DEF TypeOK
      <4>3. ShowsActed(a, b)'
        BY <3>1, <3>2, <3>4, <4>1, <4>2, ActedIsShown
      <4>4. QED
        BY <3>3, <4>3
    <3>5. CASE a \notin new
      <4>1. SUFFICES ASSUME a \in DOMAIN dbus' PROVE ShowsActed(a, b)'
        BY <3>3
      <4>2. a \in DOMAIN dbus \ new /\ b \in DOMAIN dbus \ new
        BY <3>1, <3>2, <3>5, <4>1 DEF InOrderPair, Joint
      <4>3. dbus'[a] = dbus[a] /\ dbus'[b] = dbus[b]
        BY <3>1, <4>2
      <4>4. ShowsActed(a, b)
        BY <4>2 DEF InOrderPair
      <4>5. QED
        BY <4>3, <4>4 DEF ShowsActed, ShownAsMeant, IsShown, IsCombined, Binders, Disablers
    <3>6. QED
      BY <3>4, <3>5
  <2>3. QED
    BY <2>1, <2>2
<1>5. QED
  BY <1>1, <1>3, <1>4 DEF InOrderPair

LEMMA OrderNext ==
    ASSUME NamesIdentify, OrderInv, [Next]_vars PROVE OrderInv'
<1>1. TypeOK' /\ Published'
  BY TypeNext, PublishedNext DEF OrderInv
<1>2. TypeOK /\ Published /\ Together /\ Acts
  BY DEF OrderInv
<1>3. ASSUME NEW a \in Records, NEW b \in Records, <<a, b>> \in inOrder'
      PROVE  InOrderPair(a, b)'
  <2>1. <<a, b>> \in inOrder => InOrderPair(a, b)
    BY <1>2, InOrderPairs
  <2>2. CASE UNCHANGED vars
    <3>1. InOrderPair(a, b)
      BY <1>3, <2>1, <2>2 DEF vars
    <3>2. QED
      BY <2>2, <3>1 DEF vars, InOrderPair, ShowsActed, ShownAsMeant, IsShown, IsCombined,
         Binders, Disablers
  <2>3. CASE BeginScan
    BY <1>3, <2>1, <2>3, PairBegin DEF BeginScan
  <2>4. ASSUME NEW r \in Records, Configure(r) PROVE InOrderPair(a, b)'
    BY <1>2, <1>3, <2>4, PairConfigure
  <2>5. ASSUME NEW r \in Records, Restore(r) PROVE InOrderPair(a, b)'
    BY <1>2, <1>3, <2>1, <2>5, PairRestore DEF Restore
  <2>6. CASE EndScan
    BY <1>2, <1>3, <2>1, <2>6, PairEnd DEF EndScan
  <2>7. CASE publishNewConfiguration \/ writeJsonFiles \/ postToDbus
    <3>1. inOrder' = inOrder
      BY <2>7 DEF publishNewConfiguration, writeJsonFiles, postToDbus
    <3>2. QED
      BY <1>2, <1>3, <2>1, <2>7, <3>1, PairHandler
  <2>8. CASE Restart
    BY <1>3, <2>8 DEF Restart
  <2>9. QED
    BY <2>2, <2>3, <2>4, <2>5, <2>6, <2>7, <2>8 DEF Next
<1>4. \A a, b \in Records : (<<a, b>> \in inOrder)' => InOrderPair(a, b)'
  BY <1>3
<1>5. Together' /\ Acts'
  BY <1>4 DEF Together, Acts, InOrderPair
<1>6. QED
  BY <1>1, <1>5 DEF OrderInv

\* Where no two elements share a name, records that one scan found in the order
\* of their dependency are shown as configured, with any records and any other
\* actions: what is bound is usable and combined, what is disabled is not there.
THEOREM OrderIsShown ==
    ASSUME NamesIdentify
    PROVE  Spec => []InOrderIsShown
<1>1. Init => OrderInv
  <2>1. SUFFICES ASSUME Init PROVE OrderInv
    OBVIOUS
  <2>2. /\ DOMAIN dbus = {} /\ DOMAIN systemConfiguration = {} /\ Range(ready) = {}
        /\ ~scanning /\ inOrder = {}
    BY <2>1, NothingThere DEF Init
  <2>3. QED
    BY <2>1, <2>2, TypeInit, FoundInit DEF OrderInv, Together, Acts
<1>2. OrderInv /\ [Next]_vars => OrderInv'
  BY OrderNext
<1>3. OrderInv => InOrderIsShown
  <2>1. SUFFICES ASSUME OrderInv PROVE InOrderIsShown
    OBVIOUS
  <2>2. ASSUME NEW p \in AllPlaces, NEW x \in AllPlaces,
               <<p[1], x[1]>> \in inOrder, {p[1], x[1]} \subseteq DOMAIN dbus
        PROVE  ShownAsMeant(p, x)
    <3>1. p[1] \in Records /\ x[1] \in Records
      BY PlacesAre
    <3>2. ShowsActed(p[1], x[1])
      BY <2>1, <2>2, <3>1 DEF OrderInv, Acts
    <3>3. QED
      BY <3>2 DEF ShowsActed
  <2>3. QED
    BY <2>2 DEF InOrderIsShown, ShownAsMeant
<1>4. QED
  BY <1>1, <1>2, <1>3, PTL DEF Spec

=============================================================================
